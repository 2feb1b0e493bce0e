---------------------------- MODULE GvqlPlanner ----------------------------
(***************************************************************************)
(* The planner, which chooses from the persisted indexes the candidates a  *)
(* query looks at for the start node of a pattern: it intersects and       *)
(* unites the buckets of the indexes, and filters the list of candidates,  *)
(* which is in the order of the ids, with the result.                      *)
(***************************************************************************)
EXTENDS GvqlIndexes, GvqlExpressions

RECURSIVE Ascending(_)
Ascending(ids) == IF ids = {} THEN <<>> ELSE <<Min(ids)>> \o Ascending(ids \ {Min(ids)})

----------------------------------------------------------------------------
(* Predicates a where offers to the planner. *)

RECURSIVE Flattens(_, _), Leaves(_)
Flattens(where, operator) ==
    \/ where[1] = "predicate"
    \/ where[1] = operator /\ Flattens(where[2], operator) /\ Flattens(where[3], operator)
Leaves(where) == IF where[1] = "predicate" THEN <<where[2]>> ELSE Leaves(where[2]) \o Leaves(where[3])

OnPath(e, alias) == e[1] = "path" /\ e[2] = alias /\ e[3] # ""
ConstantValue(e) == Evaluate(<<>>, NoBinding, e)

Indexable(p, alias) ==
    /\ OnPath(p.left, alias) /\ p.right[1] = "literal"
    /\ \/ p.op = "="
       \/ p.op = "IN" /\ p.right[2][1] = "list" /\ p.right[2][2] # <<>>
KeyValues(p) == IF p.op = "=" THEN {p.right[2]} ELSE ToSet(p.right[2][2])

IndexMode(where) == CASE where[1] = "predicate" -> "AND"
                      [] where[1] # "predicate" /\ Flattens(where, "OR") -> "OR"
                      [] where[1] # "predicate" /\ Flattens(where, "AND") -> "AND"
                      [] OTHER -> "none"

IndexablePredicates(where, alias) ==
    LET leaves == ToSet(Leaves(where))
        usable == {p \in leaves : Indexable(p, alias)}
    IN  IF where[1] = "none" \/ IndexMode(where) = "none" \/ (IndexMode(where) = "OR" /\ usable # leaves)
        THEN {} ELSE usable

(* indexedCandidateSelection, metadataCandidateSelection: the objects, and whether an index gave them. *)
IndexedCandidateSelection(g, type, p) ==
    LET path == p.left[3]
        values == KeyValues(p)
    IN  CASE path = "$id" -> [indexed |-> TRUE, ids |-> {id \in DOMAIN g.nodes : Text(<<id>>) \in values}]
          [] path = "$type" ->
               [indexed |-> TRUE, ids |-> UNION {ByType(g, v[2]) : v \in {w \in values : w[1] = "text"}}]
          [] path \notin {"$id", "$type"} /\ ~PropertyIndexAvailable(g, type, path, values) ->
               [indexed |-> FALSE, ids |-> DOMAIN g.nodes]
          [] path \notin {"$id", "$type"} /\ PropertyIndexAvailable(g, type, path, values) ->
               [indexed |-> TRUE, ids |-> UNION {ByProperty(g, type, path, v) : v \in values}]

(* equalityPredicates: the last constant a conjunction compares a path with. *)
EqualityPredicates(predicates, alias) ==
    LET equal(p) == p.op = "=" /\ OnPath(p.left, alias) /\ ~ContainsPath(p.right)
        tests == SelectSeq(predicates, equal)
    IN  FoldLeft(LAMBDA map, p : (p.left[3] :> ConstantValue(p.right)) @@ map, [path \in {} |-> Null], tests)

(* The selections of each index family.  Here usable is the set of definitions that may serve the
   start node, and constant the predicates whose right side is one. *)
TupleSelections(g, usable, equality) ==
    {Bucket(d, g.over, [i \in DOMAIN d.paths |-> equality[d.paths[i]]]) :
        d \in {e \in usable : e.kind \in {"unique", "composite"} /\ ToSet(e.paths) \subseteq DOMAIN equality}}

ExpressionSelections(g, alias, usable, constant) ==
    {Bucket(x[1], g.over, <<ConstantValue(x[2].right)>>) :
        x \in {y \in usable \X constant :
                 /\ y[1].kind = "expression" /\ y[2].op = "=" /\ y[2].left[1] = "call" /\ y[2].left[2] = y[1].fn
                 /\ OnPath(y[2].left[3], alias) /\ y[2].left[3][3] = y[1].paths[1]}}

Serves(d, p, alias, kind, operators) ==
    d.kind = kind /\ p.op \in operators /\ OnPath(p.left, alias) /\ p.left[3] = d.paths[1]

RangeSelections(g, alias, usable, constant) ==
    {{id \in IndexedBy(x[1], g.over) : Holds(x[2].op, GetNodePath(g.over[id], x[1].paths[1]), ConstantValue(x[2].right))} :
        x \in {y \in usable \X constant : Serves(y[1], y[2], alias, "range", {">", ">=", "<", "<="})}}

TextSelections(g, alias, usable, constant) ==
    {{id \in IndexedBy(x[1], g.over) : x[2] \subseteq TextIndexTerms(GetNodePath(g.over[id], x[1].paths[1]))} :
        x \in {<<y[1], TextLookupTerms(y[2].op, ConstantValue(y[2].right))>> :
                 y \in {z \in usable \X constant :
                          Serves(z[1], z[2], alias, "text", {"CONTAINS", "STARTS WITH", "ENDS WITH"})}} \ (usable \X {{}})}

FullTextSelections(g, alias, usable, constant) ==
    {{id \in IndexedBy(x[1], g.over) : x[2] \subseteq TokenizeIndexText(GetNodePath(g.over[id], x[1].paths[1]))} :
        x \in {<<y[1], TokenizeIndexText(ConstantValue(y[2].right))>> :
                 y \in {z \in usable \X constant : Serves(z[1], z[2], alias, "fullText", {"CONTAINS"})}} \ (usable \X {{}})}

UsableDefinitions(start) == {d \in Definitions : d.type = <<>> \/ start.type = <<>> \/ d.type = start.type}
ConstantPredicates(where) == {p \in ToSet(Leaves(where)) : ~ContainsPath(p.right)}

AdvancedIndexSelections(g, start, where) ==
    LET selections(usable, constant) ==
            TupleSelections(g, usable, EqualityPredicates(Leaves(where), start.alias))
              \cup ExpressionSelections(g, start.alias, usable, constant)
              \cup RangeSelections(g, start.alias, usable, constant)
              \cup TextSelections(g, start.alias, usable, constant)
              \cup FullTextSelections(g, start.alias, usable, constant)
    IN  IF ~g.advanced \/ ~Flattens(where, "AND") THEN {}
        ELSE selections(UsableDefinitions(start), ConstantPredicates(where))

(* candidates: the objects a pattern may start at, in the order of their ids; an index that has
   answered spares the scan that a property without one asks for. *)
Narrowed(ofType, advanced, properties, mode) ==
    IF mode = "OR" /\ properties # {} /\ advanced = {}
    THEN {id \in ofType : \E s \in properties : id \in s.ids}
    ELSE {id \in ofType : /\ \A ids \in advanced : id \in ids
                          /\ \A s \in properties : (advanced = {} \/ s.indexed) => id \in s.ids}

Candidates(g, start, where) ==
    Ascending(Narrowed(IF start.type = <<>> THEN DOMAIN g.nodes ELSE ByType(g, start.type),
                       AdvancedIndexSelections(g, start, where),
                       {IndexedCandidateSelection(g, start.type, p) : p \in IndexablePredicates(where, start.alias)},
                       IndexMode(where)))
============================================================================
