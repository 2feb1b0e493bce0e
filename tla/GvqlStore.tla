----------------------------- MODULE GvqlStore -----------------------------
(***************************************************************************)
(* GVQL on a store: what gvql() does to the live root and to the committed *)
(* graph, with persisted indexes, constraints, rebuildIndexes(), edits the *)
(* application has not stored, a crash after the WAL marker and the next   *)
(* start.  The files of a commit and the other writers of a store are the  *)
(* subject of GraphStore: here a commit is one step with four outcomes.    *)
(* The manager takes the write lock for each operation.                    *)
(***************************************************************************)
EXTENDS GvqlMutations, Subtree

CONSTANTS InitialGraph,   \* the envelope of the first commit
          Updates,        \* the update statements of the application
          Edits,          \* edits of the live root: a set of [id, path, value]
          Constraints,    \* a set of [type, path, required, unique, min, max]
          Mode,           \* indexes.mode: "auto" or "configured"
          Consistency,    \* indexes.consistency: "strict" or "committed"
          MaxTransactions \* bound: the last transaction id

(* deserialize throws "Missing serialized node" unless every object the root reaches is there. *)
Loadable(envelope) == Reachable(envelope) \subseteq DOMAIN envelope.nodes

IsGraph(envelope) == /\ envelope.root \in DOMAIN envelope.nodes
                     /\ \A e \in Edges(envelope.nodes) : e.to \in DOMAIN envelope.nodes

ASSUME StoreAssumption ==
    /\ IsEnvelope(InitialGraph) /\ IsGraph(InitialGraph)
    /\ DOMAIN InitialGraph.nodes = Reachable(InitialGraph)
    /\ \A s \in Updates : IsUpdate(s)
    /\ \A e \in Edits : IsRef(e.value) => e.path \in ToSet(Paths)
    /\ Mode \in {"auto", "configured"} /\ Consistency \in {"strict", "committed"}
    /\ MaxTransactions \in Nat \ {0}

VARIABLES live,           \* the envelope that serialising rootValue gives
          transactionId,
          durable,        \* the envelope that the manifest's object versions name
          indexRecord,    \* [transactionId, nodes]: the stored index, as what it was built from
          pending,        \* envelopes whose WAL marker and transaction record are durable,
                          \* while the manifest does not name them: at most one
          started

vars == <<live, transactionId, durable, indexRecord, pending, started>>

----------------------------------------------------------------------------
(* Indexes. *)

Index(envelope, over, mode, advanced) ==
    [env |-> envelope, nodes |-> envelope.nodes, over |-> over, mode |-> mode, advanced |-> advanced]
BuildGvqlGraphIndex(envelope) == Index(envelope, envelope.nodes, "all", FALSE)

(* Mutant: the record is taken for the live graph without comparing what it was built from. *)
ComparesTransactionOnly(envelope) == indexRecord.transactionId = transactionId

IsUsableStorageIndexRecord(envelope) ==
    indexRecord.transactionId = transactionId /\ indexRecord.nodes = envelope.nodes

GraphIndexForGvql(envelope, mutating) ==
    IF \/ IsUsableStorageIndexRecord(envelope)
       \/ ~mutating /\ Consistency = "committed" /\ indexRecord.transactionId = transactionId
    THEN Index(envelope, indexRecord.nodes, IF Mode = "configured" THEN Mode ELSE "all", TRUE)
    ELSE BuildGvqlGraphIndex(envelope)

----------------------------------------------------------------------------
(* Constraints, on the objects a commit writes. *)

NoBound == Undefined
FieldViolates(c, v) ==
    IF IsMissing(v) THEN c.required
    ELSE \/ c.min # NoBound /\ v[1] \in {"num", "text"} /\ Compare(v, c.min) < 0
         \/ c.max # NoBound /\ v[1] \in {"num", "text"} /\ Compare(v, c.max) > 0

Subjects(c, nodes) == {id \in DOMAIN nodes : IsObject(nodes, id) /\ OfType(nodes, id, c.type)}

Violations(nodes, ids) ==
    {c \in Constraints :
        \/ \E id \in Subjects(c, nodes) \cap ids : FieldViolates(c, GetNodePath(nodes[id], c.path))
        \/ c.unique /\ \E i \in Subjects(c, nodes) \cap ids, j \in Subjects(c, nodes) :
                         /\ i # j /\ ~IsMissing(GetNodePath(nodes[i], c.path))
                         /\ GetNodePath(nodes[i], c.path) = GetNodePath(nodes[j], c.path)}

----------------------------------------------------------------------------
(* Commits. *)

(* A commit that finds a newer transaction record than the manifest names is refused as a conflict,
   so a manager with a pending entry commits nothing until a start has recovered it. *)
Idle == started /\ pending = {} /\ transactionId < MaxTransactions

(* Mutant: of an update, only the objects without a version are written. *)
WritesUnversioned(envelope, changes) ==
    (IF changes = {} THEN DOMAIN envelope.nodes ELSE {}) \cup (DOMAIN envelope.nodes \ DOMAIN durable.nodes)

(* objectIdsToWrite: the changed objects, all when none is named, and those that have no version. *)
ObjectIdsToWrite(envelope, changes) ==
    (IF changes = {} THEN DOMAIN envelope.nodes ELSE changes \cap DOMAIN envelope.nodes)
        \cup (DOMAIN envelope.nodes \ DOMAIN durable.nodes)

NextDurable(envelope, changes) ==
    [envelope EXCEPT !.nodes = [id \in DOMAIN @ |->
        IF id \in ObjectIdsToWrite(envelope, changes) THEN @[id] ELSE durable.nodes[id]]]

Reject(envelope, changes) ==
    /\ Violations(envelope.nodes, ObjectIdsToWrite(envelope, changes)) # {}
    /\ UNCHANGED <<transactionId, durable, indexRecord, pending, started>>

(* Mutant: the constraints see the changes that were reported, not all objects that are written. *)
PublishValidatesChanges(envelope, changes) ==
    /\ Violations(envelope.nodes, changes) = {}
    /\ ~RejectsDuplicate(envelope.nodes)
    /\ transactionId' = transactionId + 1
    /\ durable' = NextDurable(envelope, changes)
    /\ indexRecord' = [transactionId |-> transactionId + 1, nodes |-> envelope.nodes]
    /\ UNCHANGED <<pending, started>>

(* publishPreparedCommit, with all it writes; the index of the whole envelope comes before the manifest. *)
Publish(envelope, changes) ==
    /\ Violations(envelope.nodes, ObjectIdsToWrite(envelope, changes)) = {}
    /\ ~RejectsDuplicate(envelope.nodes)
    /\ transactionId' = transactionId + 1
    /\ durable' = NextDurable(envelope, changes)
    /\ indexRecord' = [transactionId |-> transactionId + 1, nodes |-> envelope.nodes]
    /\ UNCHANGED <<pending, started>>

(* After the WAL marker: the index cannot be built, and the commit throws, or the process dies. *)
Interrupt(envelope, changes) ==
    /\ Violations(envelope.nodes, ObjectIdsToWrite(envelope, changes)) = {}
    /\ pending' = {envelope}
    /\ started' = RejectsDuplicate(envelope.nodes)
    /\ UNCHANGED <<transactionId, durable, indexRecord>>

CommitEnvelope(envelope, changes) ==
    Reject(envelope, changes) \/ Publish(envelope, changes) \/ Interrupt(envelope, changes)

----------------------------------------------------------------------------
(* Operations. *)

(* The application changes a field of an object of the live root, to a plain value or to an object
   of that root; what the root no longer reaches is gone. *)
Edited(envelope, e) ==
    [envelope EXCEPT !.nodes = With(@, e.id, SetProp(@[e.id], e.path, e.value))]

Edit ==
    /\ started
    /\ \E e \in Edits :
        /\ e.id \in DOMAIN live.nodes /\ IsObject(live.nodes, e.id)
        /\ IsRef(e.value) => e.value[2] \in DOMAIN live.nodes
        /\ live' = Rehydrated(Edited(live, e))
    /\ UNCHANGED <<transactionId, durable, indexRecord, pending, started>>

(* An eager store of the root writes every object it reaches. *)
StoreRoot == Idle /\ CommitEnvelope(live, {}) /\ UNCHANGED live

(* An update through gvql(): the mutated envelope becomes the live root, then it is stored. *)
Gvql ==
    /\ Idle
    /\ \E u \in {ExecuteUpdate(GraphIndexForGvql(live, TRUE), statement, FALSE) : statement \in Updates} :
        /\ ~u.failed
        /\ live' = Rehydrated(u.g.env)
        /\ CommitEnvelope(u.g.env, u.changes)

RebuildIndexes ==
    /\ started
    /\ ~RejectsDuplicate(live.nodes)
    /\ indexRecord' = [transactionId |-> transactionId, nodes |-> live.nodes]
    /\ UNCHANGED <<live, transactionId, durable, pending, started>>

Crash ==
    /\ started
    /\ started' = FALSE
    /\ live' = durable           \* the root is gone: the next start loads one
    /\ UNCHANGED <<transactionId, durable, indexRecord, pending>>

(* start(): recovery publishes the WAL entry, with a new version of every object, then loads. *)
Restart ==
    /\ ~started
    /\ \A envelope \in pending : ~RejectsDuplicate(envelope.nodes)
    /\ \E loaded \in IF pending = {} THEN {durable} ELSE pending :
        /\ Loadable(loaded)
        /\ durable' = loaded
        /\ live' = Rehydrated(loaded)
        /\ indexRecord' = IF pending = {} THEN indexRecord
                          ELSE [transactionId |-> transactionId + 1, nodes |-> loaded.nodes]
    /\ transactionId' = transactionId + Cardinality(pending)
    /\ pending' = {}
    /\ started' = TRUE

Init ==
    /\ live = InitialGraph /\ durable = InitialGraph
    /\ transactionId = 1
    /\ indexRecord = [transactionId |-> 1, nodes |-> InitialGraph.nodes]
    /\ pending = {} /\ started = TRUE

Next == Edit \/ StoreRoot \/ Gvql \/ RebuildIndexes \/ Crash \/ Restart

Spec == Init /\ [][Next]_vars /\ WF_vars(Restart)

----------------------------------------------------------------------------
(* Properties. *)

(* Every graph the store holds in memory, and in the WAL, has its root and no reference to an object
   that is missing, whatever CREATE, MERGE, SET, REMOVE, DELETE and the edits of the application did
   to it, and the live root holds only what it reaches (gvql-mutations.ts, serializer.ts). *)
GvqlTypeOK ==
    /\ started => IsGraph(live) /\ DOMAIN live.nodes = Reachable(live)
    /\ \A envelope \in pending : IsGraph(envelope)
    /\ transactionId \in 1..MaxTransactions /\ indexRecord.transactionId \in 1..transactionId
    /\ Cardinality(pending) <= 1 /\ started \in BOOLEAN

(* The committed graph has its root and no reference to an object it does not list, although a commit
   takes the objects it does not write from the versions stored before (storage-manager.ts). *)
StoredGraphIsClosed == IsGraph(durable)

(* An update that is committed is durable in whole: every object it changed in the live root is
   stored with that change, those the application had edited before it included, and an object
   that is not stored is one the update left as it was (storage-manager.ts:444-475). *)
CommittedUpdatesAreWhole ==
    [][started /\ transactionId' # transactionId =>
         \A id \in DOMAIN live'.nodes :
            (id \notin DOMAIN live.nodes \/ live'.nodes[id] # live.nodes[id])
               => durable'.nodes[id] = live'.nodes[id]]_vars

(* A commit puts no value into the store that breaks a constraint (USAGE.md:119). *)
CommitsMeetConstraints ==
    [][started => \A id \in DOMAIN durable'.nodes :
         (id \notin DOMAIN durable.nodes \/ durable'.nodes[id] # durable.nodes[id])
            => Violations(durable'.nodes, {id}) = {}]_vars

(* A bounded load returns the objects within its depth, all of them and no other, and names the
   references that leave them (storage-subtree.ts). *)
SubtreeIsTheBoundedReach ==
    \A root \in DOMAIN durable.nodes, depth \in 0..3 :
        LET subtree == LoadSubtree(durable.nodes, root, depth)
            near == Within(durable.nodes, root, depth)
        IN  /\ subtree.objectIds = near
            /\ subtree.truncated = {e \in Edges(durable.nodes) : e.from \in near /\ e.to \notin near}

(* A unique index that rejects a commit leaves the committed store where it was: no process finds a
   transaction that the manifest does not name (docs/INDEXES.md). *)
RejectedCommitsLeaveNothing == started => pending = {}

(* A store that is down opens again (storage-manager.ts start()). *)
StoreReopens == ~started ~> started
=============================================================================
