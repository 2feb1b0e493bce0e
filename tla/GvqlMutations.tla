--------------------------- MODULE GvqlMutations ---------------------------
(***************************************************************************)
(* What a GVQL update changes: the clauses SET, REMOVE, DELETE, CREATE and *)
(* MERGE, applied to the envelope that the manager has serialised for the  *)
(* statement.  Which bindings the statement works on, and what its value   *)
(* expressions yield, are parameters: GvqlExecutor and GvqlExpressions     *)
(* supply them.                                                            *)
(***************************************************************************)
EXTENDS GvqlIndexes

CONSTANTS BindingsOf(_, _),  \* BindingsOf(g, statement): the bindings, in their order
          ValueOf(_, _, _)   \* ValueOf(g, binding, e): the value of the expression e

(* The state u of an update: the index whose env it changes, the bindings, to which CREATE and
   MERGE add aliases, the ids of the changes reported, and whether a clause has thrown. *)

(* The clauses of a statement are lists; CREATE and MERGE name their collection, or a property that
   refers to it. *)
IsTarget(into) == into.path \in {""} \cup ToSet(Paths)
IsUpdate(statement) ==
    /\ \A clause \in {"set", "remove", "delete", "create", "merge"} : IsList(statement[clause])
    /\ \A clause \in {"create", "merge"} : \A item \in ToSet(statement[clause]) : IsTarget(item.into)

With(f, x, v) == [y \in DOMAIN f \cup {x} |-> IF y = x THEN v ELSE f[y]]

SetProp(node, path, v) == [node EXCEPT !.props = With(@, path, v)]
AppendItem(node, v) == [node EXCEPT !.items = Append(@, v)]
RestrictProps(node, paths) == [node EXCEPT !.props = Restrict(@, paths)]

Encodable(v) == v[1] \in {"num", "text", "null", "undefined"}
NextObjectId(envelope) == Max({0} \cup DOMAIN envelope.nodes) + 1
Fail(u) == [u EXCEPT !.failed = TRUE]
WithNodes(u, nodes) ==
    LET env == [u.g.env EXCEPT !.nodes = nodes]
        g == [u.g EXCEPT !.env = env]
    IN  [u EXCEPT !.g = g]
Put(u, id, node) == WithNodes(u, With(u.g.env.nodes, id, node))
Note(u, ids) == [u EXCEPT !.changes = @ \cup ids]
Bind(u, b, alias, id) ==
    LET bindings == [u.bindings EXCEPT ![b] = With(@, alias, id)]
    IN  [u EXCEPT !.bindings = bindings]

Live(u, b, alias) == Bound(u.bindings[b], alias) /\ u.bindings[b][alias] \in DOMAIN u.g.env.nodes

----------------------------------------------------------------------------
(* One item of a clause for one binding. *)

SetItem(u, b, item, value, dryRun) ==
    LET id == u.bindings[b][item.alias]
        node == u.g.env.nodes[id]
    IN  IF ~Live(u, b, item.alias) THEN u
        ELSE IF ~Encodable(value) \/ (~dryRun /\ node.kind # "object") THEN Fail(u)
        ELSE Note(IF dryRun THEN u ELSE Put(u, id, SetProp(node, item.path, value)), {id})

(* Mutant: a dry run reports a field that is not there as removed. *)
RemoveReportsBlindly(u, b, item, dryRun) ==
    LET id == u.bindings[b][item.alias]
        node == u.g.env.nodes[id]
        removed == RestrictProps(node, DOMAIN node.props \ {item.path})
    IN  IF ~Live(u, b, item.alias) THEN u
        ELSE IF node.kind # "object" THEN Fail(u)
        ELSE IF dryRun THEN Note(u, {id})
        ELSE IF item.path \in DOMAIN node.props THEN Note(Put(u, id, removed), {id}) ELSE u

RemoveItem(u, b, item, dryRun) ==
    LET id == u.bindings[b][item.alias]
        node == u.g.env.nodes[id]
        removed == RestrictProps(node, DOMAIN node.props \ {item.path})
    IN  IF ~Live(u, b, item.alias) THEN u
        ELSE IF node.kind # "object" THEN Fail(u)
        ELSE IF item.path \notin DOMAIN node.props THEN u
        ELSE Note(IF dryRun THEN u ELSE Put(u, id, removed), {id})

(* Mutant: the collection that receives the object is not reported as changed. *)
AttachUnreported(u, b, into, id) ==
    LET nodes == u.g.env.nodes
        existing == GetNodePath(nodes[u.bindings[b][into.alias]], into.path)
        collection == IF into.path = "" THEN u.bindings[b][into.alias] ELSE existing[2]
    IN  IF (into.path = "" \/ IsRef(existing)) /\ nodes[collection].kind = "array"
        THEN Put(u, collection, AppendItem(nodes[collection], Ref(id))) ELSE Fail(u)

(* attachCreatedObject: into is [alias, path]; a missing collection is created. *)
AttachCreatedObject(u, b, into, id) ==
    LET nodes == u.g.env.nodes
        parent == u.bindings[b][into.alias]
        existing == GetNodePath(nodes[parent], into.path)
        collection == IF into.path = "" THEN parent ELSE existing[2]
        created == NextObjectId(u.g.env)
        append == AppendItem(nodes[collection], Ref(id))
        attach == SetProp(nodes[parent], into.path, Ref(created))
    IN  IF ~Live(u, b, into.alias) THEN Fail(u)
        ELSE IF into.path = "" \/ IsRef(existing)
        THEN IF collection \in DOMAIN nodes /\ nodes[collection].kind = "array"
             THEN Note(Put(u, collection, append), {collection}) ELSE Fail(u)
        ELSE IF into.path \notin DOMAIN nodes[parent].props /\ nodes[parent].kind = "object"
        THEN Note(Put(Put(u, created, ArrayNode(<<Ref(id)>>)), parent, attach), {created, parent})
        ELSE Fail(u)

EvaluateProps(u, b, item) == [p \in DOMAIN item.props |-> ValueOf(u.g, u.bindings[b], item.props[p])]

(* CREATE and MERGE build their object and bind its alias in the same way. *)
CreateObject(u, b, item, props) ==
    LET id == NextObjectId(u.g.env)
        bound == Bind(Note(Put(u, id, ObjectNode(item.type, props)), {id}), b, item.alias, id)
    IN  IF \E p \in DOMAIN props : ~Encodable(props[p]) THEN Fail(u)
        ELSE AttachCreatedObject(bound, b, item.into, id)

(* Mutant: only a collection that is bound itself is searched, not one a field refers to. *)
SearchesBoundCollection(u, b, item, on) ==
    LET nodes == u.g.env.nodes
        items == IF item.into.path # "" THEN <<>> ELSE nodes[u.bindings[b][item.into.alias]].items
    IN  Select(items, {i \in DOMAIN items : IsRef(items[i]) /\ GetNodePath(nodes[items[i][2]], item.on) = on})

(* resolveCollection and findMergeTarget: the items of the target that have the ON value. *)
MergeTargets(u, b, item, on) ==
    LET nodes == u.g.env.nodes
        existing == GetNodePath(nodes[u.bindings[b][item.into.alias]], item.into.path)
        collection == IF item.into.path = "" THEN u.bindings[b][item.into.alias] ELSE existing[2]
        items == IF item.into.path # "" /\ ~IsRef(existing) THEN <<>> ELSE nodes[collection].items
        fits(v) == IsRef(v) /\ v[2] \in DOMAIN nodes /\ GetNodePath(nodes[v[2]], item.on) = on
    IN  Select(items, {i \in DOMAIN items : fits(items[i])})

(* applyMerge: every property is evaluated, and the ON value is one of them, before the search. *)
MergeItem(u, b, item, props) ==
    LET found == MergeTargets(u, b, item, props[item.on])
    IN  IF \/ \E p \in DOMAIN props : ~Encodable(props[p])
           \/ item.on \notin DOMAIN props \/ props[item.on] = Undefined
           \/ ~Live(u, b, item.into.alias) THEN Fail(u)
        ELSE IF found # <<>> THEN Bind(u, b, item.alias, found[1][2])
        ELSE CreateObject(u, b, item, props)

MutateItem(clause, u, b, item, dryRun) ==
    CASE clause = "set" -> SetItem(u, b, item, ValueOf(u.g, u.bindings[b], item.value), dryRun)
      [] clause = "remove" -> RemoveItem(u, b, item, dryRun)
      [] clause = "create" -> CreateObject(u, b, item, EvaluateProps(u, b, item))
      [] clause = "merge" -> MergeItem(u, b, item, EvaluateProps(u, b, item))

----------------------------------------------------------------------------
(* A clause for all bindings. *)

(* The two nested loops over the bindings and the items of a clause, until an item throws. *)
ForEach(u, clause, items, dryRun) ==
    LET binding(k) == 1 + ((k - 1) \div Len(items))
        item(k) == items[1 + ((k - 1) % Len(items))]
        after[k \in 0..(Len(u.bindings) * Len(items))] ==
            IF k = 0 THEN u
            ELSE LET v == after[k - 1]
                 IN  IF v.failed THEN v ELSE MutateItem(clause, v, binding(k), item(k), dryRun)
    IN  after[Len(u.bindings) * Len(items)]

(* Mutant: the items of a list keep their references to a deleted object. *)
DetachesFieldsOnly(node, targets) ==
    LET gone(v) == IsRef(v) /\ v[2] \in targets
    IN  RestrictProps(node, {p \in DOMAIN node.props : ~gone(node.props[p])})

DetachReferencesTo(node, targets) ==
    LET gone(v) == IsRef(v) /\ v[2] \in targets
    IN  IF node.kind = "array"
        THEN [node EXCEPT !.items = Select(@, {i \in DOMAIN @ : ~gone(@[i])})]
        ELSE RestrictProps(node, {p \in DOMAIN node.props : ~gone(node.props[p])})

(* The parents are those of the index, taken before the statement changed anything. *)
ApplyDelete(u, aliases, dryRun) ==
    LET targets == {u.bindings[x[1]][x[2]] :
                      x \in {y \in (DOMAIN u.bindings) \X ToSet(aliases) : Live(u, y[1], y[2])}}
        nodes == u.g.env.nodes
        parents == {e.from : e \in {f \in Edges(u.g.over) : f.to \in targets}} \cap (DOMAIN nodes \ targets)
        remaining == [id \in DOMAIN nodes \ targets |->
                        IF id \in parents THEN DetachReferencesTo(nodes[id], targets) ELSE nodes[id]]
    IN  IF u.failed \/ u.g.env.root \in targets THEN Fail(u)
        ELSE Note(IF dryRun THEN u ELSE WithNodes(u, remaining), targets \cup parents)

(* The mutations of a statement, none after one has thrown; CREATE and MERGE change the copy of a
   dry run as well. *)
ApplyGvqlMutations(g, bindings, statement, dryRun) ==
    LET start == [g |-> g, bindings |-> bindings, changes |-> {}, failed |-> FALSE]
        each(u, clause) == ForEach(u, clause, statement[clause], dryRun)
        deleted == ApplyDelete(each(each(start, "set"), "remove"), statement.delete, dryRun)
    IN  each(each(deleted, "create"), "merge")

ExecuteUpdate(g, statement, dryRun) == ApplyGvqlMutations(g, BindingsOf(g, statement), statement, dryRun)
=============================================================================
