---------------------------- MODULE MCGvqlStore ----------------------------
(***************************************************************************)
(* A list with an object of type A and one of type B that refers to it,    *)
(* and statements that use every clause and every index family.            *)
(***************************************************************************)
EXTENDS GvqlQueries

A == <<10>>
B == <<12>>
Word1 == <<10, 13>>       \* "aB"
PathOrder == <<"list", "head", "k", "x", "s", "next", "kids">>

Graph ==
    [root |-> 1,
     nodes |-> <<ObjectNode(<<>>, [list |-> Ref(2), head |-> Ref(4)]),
                 ArrayNode(<<Ref(3), Ref(4)>>),
                 ObjectNode(A, [k |-> Num(1), x |-> Num(1), s |-> Text(Word1)]),
                 ObjectNode(B, [k |-> Num(2), x |-> Num(2), next |-> Ref(3)])>>]

Lit(v) == <<"literal", v>>
Path(alias, path) == <<"path", alias, path>>
Is(left, op, right) == <<"predicate", [left |-> left, op |-> op, right |-> right]>>
RowIs(column, op, right) == <<"predicate", [left |-> column, op |-> op, right |-> right]>>
Node(alias, type) == [alias |-> alias, type |-> type, chain |-> <<>>]
Chain(alias, type, links) == [alias |-> alias, type |-> type, chain |-> links]
Link(dir, label, alias, type) == [dir |-> dir, label |-> label, alias |-> alias, type |-> type]
Item(kind, alias, path) == [kind |-> kind, alias |-> alias, path |-> path, distinct |-> FALSE]
Where(tokens) == [tokens |-> tokens, where |-> IF tokens = <<>> THEN <<"none">> ELSE ParseBooleanExpression(tokens)]
Statement(clauses, tokens) == clauses @@ Where(tokens) @@ Clauses

AND == <<"AND">>
OR == <<"OR">>
NOT == <<"NOT">>
Open == <<"(">>
Close == <<")">>

MCQueries == {
    Statement([matches |-> <<Node("n", A)>>, returns |-> <<Item("path", "n", "x")>>],
              <<Is(Path("n", "x"), "=", Lit(Num(1))), AND, Is(Path("n", "k"), "=", Lit(Num(1)))>>),
    Statement([matches |-> <<Node("n", <<>>)>>, returns |-> <<Item("path", "n", "x")>>,
               orderBy |-> <<[alias |-> "n", path |-> "x", desc |-> TRUE]>>, distinct |-> TRUE],
              <<Is(Path("n", "x"), "IN", Lit(<<"list", <<Num(1), Num(2)>>>>)), OR, Is(Path("n", "$id"), "=", Lit(Text(<<3>>)))>>),
    Statement([matches |-> <<Node("n", <<>>)>>, returns |-> <<Item("path", "n", "s")>>],
              <<Is(Path("n", "s"), "CONTAINS", Lit(Text(<<10, 13>>)))>>),
    Statement([matches |-> <<Node("n", A)>>, returns |-> <<Item("count", "", "")>>],
              <<Is(<<"call", "lower", Path("n", "s")>>, "=", Lit(Text(<<10, 12>>))), AND,
                NOT, Open, Is(Path("n", "x"), ">", Lit(Num(1))), OR, Is(Path("n", "x"), "=", Lit(Null)), Close>>),
    Statement([matches |-> <<Chain("r", <<>>, <<Link("out", "list", "l", <<>>), Link("out", "*", "n", <<>>)>>)>>,
               optional |-> <<Chain("n", <<>>, <<Link("in", "next", "m", B)>>)>>,
               returns |-> <<Item("path", "n", "x"), Item("path", "m", "k")>>],
              <<Is(Path("n", "x"), ">", Lit(Num(1))), OR, Is(Path("n", "x"), "=", Lit(Num(1))), AND,
                Is(Path("m", "k"), "IS NOT NULL", Lit(Null))>>),
    Statement([matches |-> <<Node("n", <<>>)>>, groupBy |-> <<[alias |-> "n", path |-> "x"]>>,
               returns |-> <<Item("path", "n", "x"), Item("count", "", ""), Item("sum", "n", "k"), Item("max", "n", "k")>>,
               orderBy |-> <<[alias |-> "", column |-> 2, desc |-> TRUE], [alias |-> "n", path |-> "x", desc |-> FALSE]>>],
              <<Is(Path("n", "x"), ">", Lit(Num(0))), AND, Is(Path("n", "$type"), "IN", Lit(<<"list", <<Text(A), Text(B)>>>>))>>),
    Statement([matches |-> <<Node("n", A), Node("m", B)>>, returns |-> <<Item("path", "m", "x")>>,
               orderBy |-> <<[alias |-> "n", path |-> "x", desc |-> FALSE]>>],
              <<Is(Path("m", "x"), ">=", Path("n", "x")), AND, Is(Path("n", "x"), ">=", Lit(Num(1)))>>),
    Statement([matches |-> <<Node("n", <<>>)>>, groupBy |-> <<[alias |-> "n", path |-> "$type"]>>,
               having |-> RowIs(2, "<=", <<"column", 1>>),
               with |-> [returns |-> <<Item("max", "n", "x"), Item("min", "n", "x"), Item("count", "n", "k")>>,
                         distinct |-> TRUE, where |-> RowIs(1, "IS NOT NULL", Lit(Null))],
               returns |-> <<[kind |-> "row", column |-> 1]>>, distinct |-> TRUE,
               orderBy |-> <<[alias |-> "", column |-> 1, desc |-> FALSE]>>], <<>>) }

Into(alias, path) == [alias |-> alias, path |-> path]
MCUpdates == {
    Statement([matches |-> <<Node("n", A)>>,
               set |-> <<[alias |-> "n", path |-> "x", value |->
                   <<"case", Is(Path("n", "k"), "IS NULL", Lit(Null)), Lit(Null), <<"+", Path("n", "x"), Lit(Num(1))>>>>]>>],
              <<Is(Path("n", "x"), "=", Lit(Num(1)))>>),
    Statement([matches |-> <<Node("n", B)>>, remove |-> <<[alias |-> "n", path |-> "x"]>>], <<>>),
    Statement([matches |-> <<Node("n", A)>>, set |-> <<[alias |-> "n", path |-> "x", value |-> Lit(Num(5))]>>],
              <<Is(Path("n", "s"), "STARTS WITH", Lit(Text(<<10>>)))>>),
    Statement([matches |-> <<Node("n", <<>>)>>, delete |-> <<"n">>, limit |-> 1,
               orderBy |-> <<[alias |-> "n", path |-> "k", desc |-> TRUE]>>],
              <<Is(Path("n", "x"), ">", Lit(Num(1)))>>),
    Statement([matches |-> <<Chain("r", <<>>, <<Link("out", "list", "l", <<>>)>>)>>,
               create |-> <<[alias |-> "c", type |-> A, props |-> [x |-> Lit(Num(1))], into |-> Into("r", "list")]>>], <<>>),
    Statement([matches |-> <<Chain("r", <<>>, <<Link("out", "head", "h", <<>>)>>)>>,
               merge |-> <<[alias |-> "c", type |-> B, on |-> "k", into |-> Into("h", "kids"),
                            props |-> [k |-> Lit(Num(3)), x |-> <<"coalesce", <<Path("h", "x"), Lit(Num(1))>>>>]]>>], <<>>) }

MCEdits == {[id |-> 3, path |-> "x", value |-> Num(2)], [id |-> 4, path |-> "s", value |-> Text(<<10, 12>>)]}
MCConstraints == {
    [type |-> A, path |-> "x", required |-> TRUE, unique |-> FALSE, min |-> Num(1), max |-> Num(4)],
    [type |-> <<>>, path |-> "k", required |-> FALSE, unique |-> TRUE, min |-> NoBound, max |-> NoBound]}

Definition(kind, type, paths) ==
    [kind |-> kind, type |-> type, paths |-> paths, fn |-> "lower", sparse |-> FALSE, partial |-> NoCondition]
SoundDefinitions == {
    Definition("composite", A, <<"k", "x">>), Definition("range", <<>>, <<"x">>), Definition("text", <<>>, <<"s">>),
    Definition("expression", A, <<"s">>), [Definition("unique", <<>>, <<"k">>) EXCEPT !.sparse = TRUE]}
TypedProperties == {[type |-> A, path |-> "x"]}
UniqueX == {[Definition("unique", <<>>, <<"x">>) EXCEPT !.sparse = TRUE]}
SoundProperties == {[type |-> <<>>, path |-> "x"]}

(* ValueOf of GvqlMutations.  TLC's profiler unrolls a RECURSIVE operator once more for each constant that
   stands for it, but not behind a definition. *)
ExpressionValue(g, binding, e) == Evaluate(g, binding, e)

(* Edits that the application does not store before an update stores other objects: the list is taken
   from the root, and a key is changed that the update then gives to another object. *)
DroppingEdits == {[id |-> 1, path |-> "list", value |-> Null]}
RenamingEdits == {[id |-> 3, path |-> "k", value |-> Num(4)]}
ReusingUpdates ==
    {Statement([matches |-> <<Node("n", B)>>, set |-> <<[alias |-> "n", path |-> "k", value |-> Lit(Num(1))]>>], <<>>)}
============================================================================
