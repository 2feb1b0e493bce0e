---------------------------- MODULE GvqlIndexes ----------------------------
(***************************************************************************)
(* The persisted indexes.  A bucket of an index is described by what the   *)
(* builder puts into it, as a set of object ids.                           *)
(***************************************************************************)
EXTENDS GvqlValues

CONSTANTS Properties,     \* configured property indexes: a set of [type, path]
          Definitions     \* advanced indexes: a set of [kind, type, paths, fn, sparse, partial]

NoCondition == <<"none">> \* a definition without a partial condition
Kinds == {"composite", "unique", "range", "text", "fullText", "expression"}

ASSUME DefinitionsAssumption ==
    /\ \A d \in Definitions : d.kind \in Kinds /\ d.paths # <<>>
    /\ \A d \in Definitions : d.kind = "composite" => Len(d.paths) > 1

IsObject(nodes, id) == nodes[id].kind = "object"
OfType(nodes, id, type) == type = <<>> \/ nodes[id].type = type

----------------------------------------------------------------------------
(* buildGvqlGraphIndex: the type index and the property index. *)

ByType(g, type) == {id \in DOMAIN g.over : g.over[id].type = type}

ShouldIndexProperty(g, type, path) ==
    g.mode = "all" \/ \E p \in Properties : p.path = path /\ p.type \in {type, <<>>}

IndexedObjects(g, path) ==
    {id \in DOMAIN g.over : IsObject(g.over, id) /\ path \in DOMAIN g.over[id].props
                              /\ ShouldIndexProperty(g, g.over[id].type, path)}

ByProperty(g, type, path, value) ==
    {id \in IndexedObjects(g, path) : g.over[id].props[path] = value /\ OfType(g.over, id, type)}

(* addIndexedPropertyKeys records the untyped key of every object it indexes. *)
PropertyIndexAvailable(g, type, path, values) ==
    \/ g.mode # "configured"
    \/ \E v \in values : ByProperty(g, type, path, v) # {}
    \/ IndexedObjects(g, path) # {}

----------------------------------------------------------------------------
(* buildAdvancedIndexRecord: which objects a definition indexes, under which values. *)

DefinitionMatches(d, nodes, id) == OfType(nodes, id, d.type)

MatchesCondition(d, node) ==
    d.partial = NoCondition \/ Holds(d.partial.op, GetNodePath(node, d.partial.path), d.partial.value)

IndexExpression(fn, v) == IF IsMissing(v) THEN v ELSE ScalarFunction(fn, v)

ValuesForDefinition(d, node) ==
    [i \in DOMAIN d.paths |-> IF d.kind = "expression" THEN IndexExpression(d.fn, GetNodePath(node, d.paths[i]))
                              ELSE GetNodePath(node, d.paths[i])]

IndexedBy(d, nodes) ==
    {id \in DOMAIN nodes :
        /\ IsObject(nodes, id) /\ DefinitionMatches(d, nodes, id) /\ MatchesCondition(d, nodes[id])
        /\ ~(d.sparse /\ \E v \in ToSet(ValuesForDefinition(d, nodes[id])) : IsMissing(v))
        /\ (d.kind = "range" => ~IsMissing(ValuesForDefinition(d, nodes[id])[1]))}

Bucket(d, nodes, values) == {id \in IndexedBy(d, nodes) : ValuesForDefinition(d, nodes[id]) = values}

(* Mutant: objects that a sparse definition leaves out collide as well. *)
RejectsMissingValues(nodes) ==
    \E d \in {e \in Definitions : e.kind = "unique"} :
        \E i, j \in {id \in DOMAIN nodes : IsObject(nodes, id) /\ DefinitionMatches(d, nodes, id)} :
            i # j /\ ValuesForDefinition(d, nodes[i]) = ValuesForDefinition(d, nodes[j])

(* addUnique: two objects under one key make the index, and the write of the record, fail. *)
RejectsDuplicate(nodes) ==
    \E d \in {e \in Definitions : e.kind = "unique"} :
        \E i, j \in IndexedBy(d, nodes) : i # j /\ ValuesForDefinition(d, nodes[i]) = ValuesForDefinition(d, nodes[j])

MinGram == 2
MaxGram == 4
Grams(s, n) == {<<"gram", SubSeq(s, i + 1, i + n)>> : i \in 0..(Len(s) - n)}

TextIndexTerms(v) ==
    LET s == Lower(StringOf(v)) IN
    {<<"prefix", SubSeq(s, 1, n)>> : n \in DOMAIN s} \cup {<<"suffix", SubSeq(s, n, Len(s))>> : n \in DOMAIN s}
        \cup UNION {Grams(s, n) : n \in MinGram..MaxGram}

TextLookupTerms(operator, v) ==
    LET s == Lower(StringOf(v)) IN
    CASE s = <<>> -> {}
      [] s # <<>> /\ operator = "STARTS WITH" -> {<<"prefix", s>>}
      [] s # <<>> /\ operator = "ENDS WITH" -> {<<"suffix", s>>}
      [] s # <<>> /\ operator = "CONTAINS" ->
           IF Len(s) < MinGram THEN {} ELSE Grams(s, Min({MaxGram, Len(s)}))

TokenizeIndexText(v) ==
    LET s == Lower(StringOf(v))
        word(i, j) == /\ i <= j /\ \A k \in i..j : s[k] # Blank
                      /\ (i = 1 \/ s[i - 1] = Blank) /\ (j = Len(s) \/ s[j + 1] = Blank)
    IN  {SubSeq(s, b[1], b[2]) : b \in {c \in (DOMAIN s) \X (DOMAIN s) : word(c[1], c[2])}}
=============================================================================
