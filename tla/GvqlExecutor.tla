---------------------------- MODULE GvqlExecutor ----------------------------
(***************************************************************************)
(* What a GVQL statement answers: matching patterns from the planner's     *)
(* candidates, the WHERE filter, ordering, paging and grouping.            *)
(*                                                                         *)
(* A statement is a record of its clauses.  Bindings stay in the order the *)
(* code produces them, which paging and the mutations depend on.           *)
(***************************************************************************)
EXTENDS GvqlPlanner

NoLimit == -1
NoWith == <<>>
Clauses == [matches |-> <<>>, optional |-> <<>>, where |-> <<"none">>, orderBy |-> <<>>, offset |-> 0,
            limit |-> NoLimit, distinct |-> FALSE, groupBy |-> <<>>, having |-> <<"none">>, with |-> NoWith, returns |-> <<>>,
            set |-> <<>>, remove |-> <<>>, delete |-> <<>>, create |-> <<>>, merge |-> <<>>]

----------------------------------------------------------------------------
(* Matching. *)

MatchesType(g, id, type) == type = <<>> \/ (id \in DOMAIN g.nodes /\ g.nodes[id].type = type)

OutgoingEdges(g, id) == References(id, g.over[id])
IncomingEdges(g, id) ==
    LET sources == Ascending(DOMAIN g.over)
    IN  FlattenSeq([i \in DOMAIN sources |->
            SelectSeq(References(sources[i], g.over[sources[i]]), LAMBDA e : e.to = id)])

(* One link of a chain, [dir, label, alias, type], followed from the alias before it. *)
Follow(g, binding, from, link) ==
    LET edges == IF ~Bound(binding, from) THEN <<>>
                 ELSE IF link.dir = "out" THEN OutgoingEdges(g, binding[from]) ELSE IncomingEdges(g, binding[from])
        target(e) == IF link.dir = "out" THEN e.to ELSE e.from
        fits(e) == /\ link.label \in {"*", e.label}
                   /\ MatchesType(g, target(e), link.type)
                   /\ (Bound(binding, link.alias) => binding[link.alias] = target(e))
        chosen == SelectSeq(edges, fits)
    IN  [i \in DOMAIN chosen |-> (link.alias :> target(chosen[i])) @@ binding]

RECURSIVE TraversePatternChain(_, _, _, _)
TraversePatternChain(g, bindings, from, chain) ==
    IF chain = <<>> THEN bindings
    ELSE TraversePatternChain(g, FlattenSeq([i \in DOMAIN bindings |-> Follow(g, bindings[i], from, Head(chain))]),
                              Head(chain).alias, Tail(chain))

(* The start nodes of a pattern for a binding: the one it is bound to, or every candidate. *)
Starts(g, pattern, binding, candidates) ==
    LET ids == IF Bound(binding, pattern.alias) THEN <<binding[pattern.alias]>> ELSE candidates
        fits(id) == id \in ToSet(candidates) /\ MatchesType(g, id, pattern.type)
    IN  SelectSeq(ids, fits)

Chains(g, pattern, binding, starts) ==
    TraversePatternChain(g, [i \in DOMAIN starts |-> (pattern.alias :> starts[i]) @@ binding], pattern.alias, pattern.chain)

MatchFrom(g, pattern, bindings, candidates, optional) ==
    LET orKept(binding, found) == IF found = <<>> /\ optional THEN <<binding>> ELSE found
        matched(binding) == orKept(binding, Chains(g, pattern, binding, Starts(g, pattern, binding, candidates)))
    IN  FlattenSeq([i \in DOMAIN bindings |-> matched(bindings[i])])

MatchPattern(g, statement, pattern, bindings, optional) ==
    MatchFrom(g, pattern, bindings, Candidates(g, pattern, statement.where), optional)

MatchBindings(g, statement) ==
    LET required == [i \in DOMAIN statement.matches |-> <<statement.matches[i], FALSE>>]
        optional == [i \in DOMAIN statement.optional |-> <<statement.optional[i], TRUE>>]
    IN  FoldLeft(LAMBDA bs, p : MatchPattern(g, statement, p[1], bs, p[2]), <<NoBinding>>, required \o optional)

Matched(g, statement) ==
    LET satisfies(binding) == Satisfies(g, binding, statement.where)
    IN  SelectSeq(MatchBindings(g, statement), satisfies)

----------------------------------------------------------------------------
(* Ordering and paging; rows.sort is stable. *)

SortStably(s, Precedes(_, _)) ==
    LET before(i, j) == Precedes(s[i], s[j]) \/ (~Precedes(s[j], s[i]) /\ i < j)
        at(i) == CHOOSE j \in DOMAIN s : Cardinality({k \in DOMAIN s : before(k, j)}) = i - 1
    IN  [i \in DOMAIN s |-> s[at(i)]]

(* By the first key that tells two items apart. *)
SortByKeys(items, keys, Value(_, _)) ==
    LET comparison(a, b, k) == Compare(Value(a, keys[k]), Value(b, keys[k]))
        precedes(a, b) ==
            LET apart == {k \in DOMAIN keys : comparison(a, b, k) # 0}
            IN  apart # {} /\ IF keys[Min(apart)].desc THEN comparison(a, b, Min(apart)) > 0
                              ELSE comparison(a, b, Min(apart)) < 0
    IN  SortStably(items, precedes)

(* An order is by a path, [alias, path, desc], or by a column of the rows, ["" as alias, column, desc];
   with one of the latter the bindings stay as they are. *)
HasAliasOrdering(statement) == \E i \in DOMAIN statement.orderBy : statement.orderBy[i].alias = ""

ApplyBindingOrdering(g, bindings, statement) ==
    IF HasAliasOrdering(statement) THEN bindings
    ELSE SortByKeys(bindings, statement.orderBy, LAMBDA b, order : ReadPath(g, b, order.alias, order.path))

(* Mutant: the limit counted from the first row, not from the offset. *)
LimitFromTheStart(items, statement) ==
    LET start == Min({statement.offset, Len(items)})
    IN  SubSeq(items, start + 1, IF statement.limit = NoLimit THEN Len(items) ELSE Min({statement.limit, Len(items)}))

ApplyOffsetAndLimit(items, statement) ==
    LET start == Min({statement.offset, Len(items)})
    IN  SubSeq(items, start + 1, IF statement.limit = NoLimit THEN Len(items) ELSE Min({start + statement.limit, Len(items)}))

----------------------------------------------------------------------------
(* Rows: sequences of values, one for each RETURN item [kind, alias, path, distinct]. *)

IsAggregate(statement) ==
    statement.groupBy # <<>> \/ \E i \in DOMAIN statement.returns : statement.returns[i].kind # "path"

(* JSON.stringify writes undefined as null inside the array of the key values. *)
GroupKey(g, binding, statement) ==
    [i \in DOMAIN statement.groupBy |->
        LET v == ReadPath(g, binding, statement.groupBy[i].alias, statement.groupBy[i].path)
        IN  IF v = Undefined THEN Null ELSE v]

(* Number(v): a text that is no digit is NaN, which the sum leaves out; the empty text is 0. *)
Numbers(values) == SelectSeq(values, LAMBDA v : v[1] = "num" \/ (v[1] = "text" /\ (v[2] = <<>> \/ (Len(v[2]) = 1 /\ v[2][1] < 10))))
NumberOf(v) == IF v[1] = "num" THEN v[2] ELSE IF v[2] = <<>> THEN 0 ELSE v[2][1]

Aggregate(g, group, item) ==
    LET values == [i \in DOMAIN group |-> ReadPath(g, group[i], item.alias, item.path)]
        present == SelectSeq(values, LAMBDA v : ~IsMissing(v))
        sorted == SortStably(present, LAMBDA l, r : Compare(l, r) < 0)
    IN  CASE item.kind = "count" -> Num(IF item.alias = "" THEN Len(group)
                                        ELSE IF item.distinct THEN Cardinality(ToSet(present)) ELSE Len(present))
          [] item.kind = "sum" -> Num(FoldLeft(LAMBDA total, v : total + NumberOf(v), 0, Numbers(present)))
          [] item.kind = "min" -> IF present = <<>> THEN Null ELSE Head(sorted)
          [] item.kind = "max" -> IF present = <<>> THEN Null ELSE Last(sorted)
          [] item.kind = "path" -> IF group = <<>> THEN Undefined ELSE Head(values)

(* distinctRows; also the keys of a Map in the order of their first insertion. *)
DistinctRows(rows) == FoldLeft(LAMBDA kept, row : IF row \in ToSet(kept) THEN kept ELSE Append(kept, row), <<>>, rows)

Row(g, group, statement) == [i \in DOMAIN statement.returns |-> Aggregate(g, group, statement.returns[i])]

ProjectGvqlRows(g, bindings, statement) ==
    LET keys == DistinctRows([i \in DOMAIN bindings |-> GroupKey(g, bindings[i], statement)])
        group(key) == SelectSeq(bindings, LAMBDA b : GroupKey(g, b, statement) = key)
    IN  CASE ~IsAggregate(statement) -> [i \in DOMAIN bindings |-> Row(g, <<bindings[i]>>, statement)]
          [] IsAggregate(statement) /\ bindings = <<>> /\ statement.groupBy = <<>> -> <<Row(g, <<>>, statement)>>
          [] OTHER -> [i \in DOMAIN keys |-> Row(g, group(keys[i]), statement)]

(* HAVING and the WHERE of a WITH: predicates [left |-> column, op, right], right <<"column", i>> or <<"literal", v>>. *)
Cell(row, column) == IF column \in DOMAIN row THEN row[column] ELSE Undefined

RECURSIVE MatchesRow(_, _)
MatchesRow(row, where) ==
    LET right(operand) == IF operand[1] = "column" THEN Cell(row, operand[2]) ELSE operand[2]
    IN  CASE where[1] = "none" -> TRUE
          [] where[1] = "predicate" -> Holds(where[2].op, Cell(row, where[2].left), right(where[2].right))
          [] where[1] = "not" -> ~MatchesRow(row, where[2])
          [] where[1] = "AND" -> MatchesRow(row, where[2]) /\ MatchesRow(row, where[3])
          [] where[1] = "OR" -> MatchesRow(row, where[2]) \/ MatchesRow(row, where[3])

Filtered(rows, where) == SelectSeq(rows, LAMBDA row : MatchesRow(row, where))
Distinguished(rows, distinct) == IF distinct THEN DistinctRows(rows) ELSE rows

(* rowKey: rows are ordered by a path only when RETURN names it; else they all compare as equal. *)
Column(statement, order) ==
    LET named == {i \in DOMAIN statement.returns : statement.returns[i].kind = "path"
                     /\ <<statement.returns[i].alias, statement.returns[i].path>> = <<order.alias, order.path>>}
    IN  IF order.alias = "" THEN order.column ELSE Min(named \cup {Len(statement.returns) + 1})

ApplyRowOrderingAndLimit(rows, statement) ==
    ApplyOffsetAndLimit(SortByKeys(rows, statement.orderBy, LAMBDA row, order : Cell(row, Column(statement, order))), statement)

(* WITH: its rows, with HAVING, its DISTINCT and its WHERE, and then the columns [kind, column] of RETURN. *)
ProjectWith(g, bindings, statement, with) ==
    LET projected == Filtered(ProjectGvqlRows(g, bindings, [statement EXCEPT !.returns = with.returns]), statement.having)
        rows == Filtered(Distinguished(projected, with.distinct), with.where)
        final == [i \in DOMAIN rows |-> [c \in DOMAIN statement.returns |-> Cell(rows[i], statement.returns[c].column)]]
    IN  ApplyRowOrderingAndLimit(Distinguished(final, statement.distinct), statement)

ProjectGroups(g, bindings, statement) ==
    ApplyRowOrderingAndLimit(
        Distinguished(Filtered(ProjectGvqlRows(g, bindings, statement), statement.having), statement.distinct), statement)

ProjectBindings(g, ordered, statement) ==
    LET chosen == IF statement.distinct THEN ordered ELSE ApplyOffsetAndLimit(ordered, statement)
        rows(all) == IF statement.distinct THEN ApplyOffsetAndLimit(DistinctRows(all), statement) ELSE all
    IN  rows(ProjectGvqlRows(g, chosen, statement))

ProjectRows(g, bindings, statement) ==
    CASE statement.with # NoWith -> ProjectWith(g, bindings, statement, statement.with)
      [] statement.with = NoWith /\ (IsAggregate(statement) \/ statement.having # <<"none">> \/ HasAliasOrdering(statement)) ->
           ProjectGroups(g, bindings, statement)
      [] OTHER -> ProjectBindings(g, ApplyBindingOrdering(g, bindings, statement), statement)

ProjectSelectRows(g, statement) == ProjectRows(g, Matched(g, statement), statement)

(* The bindings an update works on. *)
SelectBindings(g, statement) ==
    ApplyOffsetAndLimit(ApplyBindingOrdering(g, Matched(g, statement), statement), statement)
=============================================================================
