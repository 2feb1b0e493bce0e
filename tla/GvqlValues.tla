----------------------------- MODULE GvqlValues -----------------------------
(***************************************************************************)
(* The data GVQL works on: encoded values and nodes, and the text and      *)
(* number conversions its comparisons rest on.                             *)
(*                                                                         *)
(* A value is a tuple tagged with its kind: <<"num", n>>, <<"text", s>>,   *)
(* <<"ref", id>> (an encoded {$ref}), <<"null">>, <<"undefined">>, a       *)
(* literal <<"list", s>> or the summary <<"node", id>> of a whole node.    *)
(* A text is a sequence of symbols: the digits 0..9, the even numbers from *)
(* 10 for small letters (the next odd number is the capital), Blank and    *)
(* the text of an object.  A type name is a text, <<>> when there is none. *)
(* Numbers are single digits, so that String(n) is one symbol.             *)
(***************************************************************************)
EXTENDS Integers, SequencesExt, TLC

CONSTANT Paths            \* the property names, in the order in which the objects list them

Num(n) == <<"num", n>>
Text(s) == <<"text", s>>
Ref(id) == <<"ref", id>>
Undefined == <<"undefined">>
Null == <<"null">>
Error == <<"error">>      \* the expression throws
Blank == 40
ObjectText == <<41>>      \* "[object Object]"
KindText(kind) == IF kind = "object" THEN <<42>> ELSE <<43>>

IsMissing(v) == v \in {Undefined, Null}
IsRef(v) == v[1] = "ref"

(* encodedValueToJs builds a new object for a reference and for a node: two of them are never ===. *)
Identical(l, r) == l = r /\ l[1] \notin {"ref", "node", "list"}

StringOf(v) == CASE v[1] = "num" -> <<v[2]>>
                 [] v[1] = "text" -> v[2]
                 [] v[1] \in {"ref", "node"} -> ObjectText
                 [] OTHER -> <<>>

IsLetter(c) == c \in 10..39
Lower(s) == [i \in DOMAIN s |-> IF IsLetter(s[i]) /\ s[i] % 2 = 1 THEN s[i] - 1 ELSE s[i]]
Upper(s) == [i \in DOMAIN s |-> IF IsLetter(s[i]) /\ s[i] % 2 = 0 THEN s[i] + 1 ELSE s[i]]
Includes(s, t) == \E i \in 0..(Len(s) - Len(t)) : SubSeq(s, i + 1, i + Len(t)) = t

First(nonzero, otherwise) == IF nonzero # 0 THEN nonzero ELSE otherwise
AtFirst(s, t, apart) == IF apart = {} THEN Len(s) - Len(t) ELSE s[Min(apart)] - t[Min(apart)]
Lexicographic(s, t) == AtFirst(s, t, {i \in DOMAIN s \cap DOMAIN t : s[i] # t[i]})

(* localeCompare: letters first without their case, then the small letter before its capital. *)
LocaleCompare(s, t) == First(Lexicographic(Lower(s), Lower(t)), Lexicographic(s, t))

Compare(l, r) ==
    IF l[1] = "num" /\ r[1] = "num" THEN l[2] - r[2]
    ELSE LocaleCompare(StringOf(l), StringOf(r))

Ordered(operator, comparison) == CASE operator = ">" -> comparison > 0
                                   [] operator = ">=" -> comparison >= 0
                                   [] operator = "<" -> comparison < 0
                                   [] operator = "<=" -> comparison <= 0

Holds(operator, l, r) ==
    CASE operator = "=" -> Identical(l, r)
      [] operator = "!=" -> ~Identical(l, r)
      [] operator \in {">", ">=", "<", "<="} -> Ordered(operator, Compare(l, r))
      [] operator = "CONTAINS" -> Includes(StringOf(l), StringOf(r))
      [] operator = "STARTS WITH" -> IsPrefix(StringOf(r), StringOf(l))
      [] operator = "ENDS WITH" -> IsSuffix(StringOf(r), StringOf(l))
      [] operator = "IN" -> r[1] = "list" /\ \E i \in DOMAIN r[2] : Identical(l, r[2][i])
      [] operator = "IS NULL" -> IsMissing(l)
      [] operator = "IS NOT NULL" -> ~IsMissing(l)

----------------------------------------------------------------------------
(* An envelope is [root, nodes]; object ids are numbers, which Object.entries lists in order.
   A node is [kind, type, props, items]: "object" uses props, "array" (and a set) items. *)

ObjectNode(type, props) == [kind |-> "object", type |-> type, props |-> props, items |-> <<>>]
ArrayNode(items) == [kind |-> "array", type |-> <<>>, props |-> <<>>, items |-> items]

GetNodePath(node, path) ==
    IF node.kind = "object" /\ path \in DOMAIN node.props THEN node.props[path] ELSE Undefined

IsList(s) == s \in Seq(ToSet(s))

ASSUME PathsAssumption == IsList(Paths)

IsNode(node) ==
    /\ DOMAIN node = {"kind", "type", "props", "items"}
    /\ node.kind \in {"object", "array"} /\ IsList(node.items)
    /\ \A p \in DOMAIN node.props : IsRef(node.props[p]) => p \in ToSet(Paths)
IsEnvelope(envelope) ==
    /\ DOMAIN envelope = {"root", "nodes"}
    /\ DOMAIN envelope.nodes \in SUBSET Nat /\ IsFiniteSet(DOMAIN envelope.nodes)
    /\ \A id \in DOMAIN envelope.nodes : IsNode(envelope.nodes[id])

(* The elements of a sequence at the positions in kept, in their order. *)
Select(s, kept) ==
    LET upTo[n \in 0..Len(s)] == IF n = 0 THEN <<>>
                                 ELSE IF n \in kept THEN Append(upTo[n - 1], s[n]) ELSE upTo[n - 1]
    IN  upTo[Len(s)]

(* referencedEdges: the label of an array item ("[0]") is empty. *)
EdgesOf(id, node) ==
    IF node.kind = "array"
    THEN {[from |-> id, to |-> v[2], label |-> ""] : v \in {w \in ToSet(node.items) : IsRef(w)}}
    ELSE {[from |-> id, to |-> node.props[p][2], label |-> p] : p \in {q \in DOMAIN node.props : IsRef(node.props[q])}}

Edges(nodes) == UNION {EdgesOf(id, nodes[id]) : id \in DOMAIN nodes}

(* The same in the order of the node's items or properties. *)
References(id, node) ==
    IF node.kind = "array"
    THEN LET items == Select(node.items, {i \in DOMAIN node.items : IsRef(node.items[i])})
         IN  [i \in DOMAIN items |-> [from |-> id, to |-> items[i][2], label |-> ""]]
    ELSE LET paths == Select(Paths, {i \in DOMAIN Paths : IsRef(GetNodePath(node, Paths[i]))})
         IN  [i \in DOMAIN paths |-> [from |-> id, to |-> node.props[paths[i]][2], label |-> paths[i]]]

----------------------------------------------------------------------------
(* A GvqlGraphIndex g: the envelope it answers for (env, which a mutation changes), the nodes that
   had when the index was attached, the nodes it was built from (over), its property mode and
   whether it carries the advanced indexes.  A binding is a function from the bound aliases. *)

NoBinding == [alias \in {} |-> 0]
Bound(binding, alias) == alias \in DOMAIN binding

ReadVirtualNodePath(g, id, path) ==
    CASE path = "$id" -> Text(<<id>>)
      [] path = "$kind" -> IF id \in DOMAIN g.nodes THEN Text(KindText(g.nodes[id].kind)) ELSE Undefined
      [] path = "$type" -> IF id \in DOMAIN g.nodes /\ g.nodes[id].type # <<>>
                           THEN Text(g.nodes[id].type) ELSE Undefined

ReadPath(g, binding, alias, path) ==
    IF ~Bound(binding, alias) \/ binding[alias] \notin DOMAIN g.env.nodes THEN Undefined
    ELSE CASE path = "" -> <<"node", binding[alias]>>
           [] path \in {"$id", "$kind", "$type"} -> ReadVirtualNodePath(g, binding[alias], path)
           [] OTHER -> GetNodePath(g.env.nodes[binding[alias]], path)

(* The functions of a value expression. *)
ScalarFunction(fn, v) ==
    IF IsMissing(v) THEN Null
    ELSE CASE fn = "lower" -> Text(Lower(StringOf(v)))
           [] fn = "upper" -> Text(Upper(StringOf(v)))
           [] fn = "length" -> Num(Len(StringOf(v)))
=============================================================================
