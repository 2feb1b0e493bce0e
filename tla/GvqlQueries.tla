---------------------------- MODULE GvqlQueries ----------------------------
(***************************************************************************)
(* What GVQL answers on a store, whichever index answers it, and what its  *)
(* updates promise: the properties of GvqlStore that need the executor.    *)
(***************************************************************************)
EXTENDS GvqlStore, GvqlExecutor

CONSTANT Queries          \* the SELECT statements of the properties

(* What a WHERE says, by the precedence of its words: a disjunction of conjunctions of factors. *)
Split(tokens, operator) ==
    LET cuts == {0, Len(tokens) + 1} \cup TopLevel(tokens, operator)
    IN  {SubSeq(tokens, c + 1, Min({d \in cuts : d > c}) - 1) : c \in cuts \ {Len(tokens) + 1}}

RECURSIVE Means(_, _, _)
Means(g, binding, tokens) ==
    LET factor(s) == CASE Word(s[1]) = "NOT" -> ~Means(g, binding, Tail(s))
                       [] Word(s[1]) = "(" -> Means(g, binding, SubSeq(s, 2, Len(s) - 1))
                       [] Word(s[1]) = "predicate" -> Satisfies(g, binding, s[1])
    IN  tokens = <<>> \/ \E d \in Split(tokens, "OR") : \A c \in Split(d, "AND") : factor(c)

Aliases(pattern) == {pattern.alias} \cup {pattern.chain[i].alias : i \in DOMAIN pattern.chain}

(* A binding fits a pattern when it has the types and the references that the pattern draws. *)
Fits(nodes, binding, pattern) ==
    LET from(i) == binding[IF i = 1 THEN pattern.alias ELSE pattern.chain[i - 1].alias]
        link(i) == pattern.chain[i]
        joined(a, b, label) == \E e \in Edges(nodes) : e.from = a /\ e.to = b /\ label \in {"*", e.label}
    IN  /\ OfType(nodes, binding[pattern.alias], pattern.type)
        /\ \A i \in DOMAIN pattern.chain :
             /\ OfType(nodes, binding[link(i).alias], link(i).type)
             /\ IF link(i).dir = "out" THEN joined(from(i), binding[link(i).alias], link(i).label)
                ELSE joined(binding[link(i).alias], from(i), link(i).label)

(* The answer of a statement: the bindings of the required patterns, each extended by an optional
   pattern in every way that fits, or kept as it is when none does, and then filtered. *)
Answer(envelope, statement) ==
    LET nodes == envelope.nodes
        g == BuildGvqlGraphIndex(envelope)
        required == UNION {Aliases(statement.matches[i]) : i \in DOMAIN statement.matches}
        base == {b \in [required -> DOMAIN nodes] :
                    \A i \in DOMAIN statement.matches : Fits(nodes, b, statement.matches[i])}
        extensions(b, pattern) ==
            {c \in [DOMAIN b \cup Aliases(pattern) -> DOMAIN nodes] :
                Restrict(c, DOMAIN b) = b /\ Fits(nodes, c, pattern)}
        extended(bs, pattern) ==
            UNION {IF extensions(b, pattern) = {} THEN {b} ELSE extensions(b, pattern) : b \in bs}
    IN  {b \in FoldLeft(extended, base, statement.optional) : Means(g, b, statement.tokens)}

(* Whichever index answers, the persisted one or the one built for the query, a query returns the
   bindings of the live graph that match its patterns and its WHERE, all of them and no other, in
   the order of a scan: the persisted index may only leave out what the WHERE leaves out
   (gvql-executor.ts, gvql-index-planner.ts, storage-manager.ts graphIndexForGvql). *)
IndexedMatchesAreExact ==
    started => \A q \in Queries :
        LET indexed == Matched(GraphIndexForGvql(live, FALSE), q)
            scanned == Matched(BuildGvqlGraphIndex(live), q)
        IN  indexed = scanned /\ ToSet(scanned) = Answer(live, q)

(* Pages of a query put together are the whole of it, whether it is ordered, distinct or grouped,
   and the counts of its groups add up to the bindings (gvql-executor.ts projectSelectRows). *)
PagesAndGroupsAddUp ==
    LET page(g, q, from, size) == ProjectSelectRows(g, [q EXCEPT !.offset = from, !.limit = size])
        pages(g, q, cuts) == FlattenSeq([i \in DOMAIN cuts |-> page(g, q, cuts[i][1], cuts[i][2])])
        count(q) == {i \in DOMAIN q.returns : /\ q.returns[i].kind = "count" /\ q.returns[i].alias = ""
                                              /\ q.having = <<"none">> /\ q.with = NoWith}
        addsUp(g, q, rows, matches) ==
            /\ \A n \in 0..(Len(rows) + 1) : pages(g, q, <<<<0, n>>, <<n, 1>>, <<n + 1, NoLimit>>>>) = rows
            /\ \A i \in count(q) : FoldLeft(LAMBDA total, row : total + row[i][2], 0, rows) = matches
            /\ q.distinct => Cardinality(ToSet(rows)) = Len(rows)
    IN  started => \A g \in {GraphIndexForGvql(live, FALSE)}, q \in Queries :
                       addsUp(g, q, page(g, q, 0, NoLimit), Len(Matched(g, q)))

(* A MERGE that has run finds its objects when it runs again: it then changes nothing
   (docs/GVQL.md:166 "idempotent collection upserts"; gvql-mutations.ts applyMerge). *)
MergeIsIdempotent ==
    started => \A statement \in {s \in Updates : s.merge # <<>>} :
        \A once \in {ExecuteUpdate(BuildGvqlGraphIndex(live), statement, FALSE)} :
            ~once.failed =>
                \A again \in {ExecuteUpdate(BuildGvqlGraphIndex(once.g.env), statement, FALSE)} :
                    again.changes = {} /\ ~again.failed /\ again.g.env = once.g.env

(* previewGvql() names the objects that the same statement would then change (gvql-mutations.ts). *)
PreviewNamesWhatChanges ==
    started => \A statement \in Updates :
        \A done \in {ExecuteUpdate(BuildGvqlGraphIndex(live), statement, FALSE)} :
            ~done.failed =>
                \A preview \in {ExecuteUpdate(BuildGvqlGraphIndex(live), statement, TRUE)} :
                    ~preview.failed /\ preview.changes = done.changes
=============================================================================
