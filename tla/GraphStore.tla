----------------------------- MODULE GraphStore -----------------------------
(***************************************************************************)
(* One GraphVault store shared by a set of storage managers: the commit    *)
(* path of StorageCommitter, the files it writes through StorageWriter,    *)
(* StorageReader's choice of what to load, and the StorageManager entry    *)
(* points that drive them (start with WAL recovery, direct stores, update, *)
(* pessimistic and optimistic transactions).                               *)
(*                                                                         *)
(* Every awaited write of a shared file is an action of its own, so that   *)
(* managers interleave and crash between any two of them.  A manager does  *)
(* one operation at a time: its AsyncMutex is the program counter.         *)
(*                                                                         *)
(* The lock is abstract: it names the manager whose handle is valid, which *)
(* is what the fencing tokens of the storage targets are for.  The steps   *)
(* by which a target acquires and releases it are in module FileLock.      *)
(***************************************************************************)
EXTENDS Integers, FiniteSets, FiniteSetsExt, Sequences

CONSTANTS
    Managers,       \* the StorageManager instances, one per process
    Objects,        \* object ids that may occur in the graph
    Root,           \* the id of the root object
    Contents,       \* what an object record holds (a node)
    Refs,           \* Refs[c]: the ids the node c refers to
    FactoryHeap,    \* the graph rootFactory() builds
    Editable,       \* Editable[o]: the nodes the application may put at o
    EditsAt,        \* control points at which the application edits the graph
    Ops,            \* the entry points the application calls
    TargetLists,    \* the arguments it passes to storeAll
    Strategy,       \* options.lockStrategy
    Options,        \* combinations of transactionLog = "full" and writeSnapshots
    StaleLocks,     \* whose lock a waiting writer breaks: "none", "dead", "live"
    FailsAt,        \* control points at which the storage target may fail
    CrashAt,        \* control points at which a process may die
    QuietAt,        \* those at which it does so only when nobody works optimistically
    NoOwner,        \* the value of lock when there is no lock file
    MaxTid          \* bound on transaction ids

Tids == 1..MaxTid
DirectOps == {"storeRoot", "storeAll", "update"}
TransactionOps == {"pessimistic", "optimistic"}
StartOps == {"start", "recover", "repair"}
Fences == {"fenceCommit", "fencePublish", "fenceIndex", "fenceCurrent"}
Writes == {"prepare", "objects", "snapshot", "marker", "record", "index", "current", "manifest"}
\* A failure at "commitState" is the manifest write whose answer was lost.
FallibleSteps == Writes \cup {"readManifest", "commitState"}
Steps == Fences \cup Writes \cup
    {"down", "acquire", "listWal", "recover", "readManifest", "readWal", "readObjects", "idle", "work",
     "check", "serialize", "commitState", "release"}

\* The part of the graph an envelope or a manifest covers is its domain.
Envelopes == UNION {[S -> Contents] : S \in SUBSET Objects}
Versions == UNION {[S -> Tids] : S \in SUBSET Objects}
NoEnvelope == [o \in {} |-> Root]
NoVersions == NoEnvelope
Heaps == [Objects -> Contents]

ASSUME StoreAssumptions ==
    /\ Root \in Objects
    /\ IsFiniteSet(Objects)
    /\ Refs \in [Contents -> SUBSET Objects]
    /\ FactoryHeap \in Heaps
    /\ Editable \in [Objects -> SUBSET Contents]
    /\ EditsAt \subseteq {"idle", "work"}
    /\ Ops \subseteq DirectOps \cup TransactionOps
    /\ TargetLists \subseteq Seq(Objects)
    /\ Strategy \in {"startup", "pessimistic", "optimistic"}
    /\ Options \subseteq [wal : BOOLEAN, snapshots : BOOLEAN]
    /\ FailsAt \subseteq FallibleSteps
    /\ CrashAt \subseteq Steps \ {"down"}
    /\ QuietAt \subseteq Steps
    /\ StaleLocks \in {"none", "dead", "live"}
    /\ NoOwner \notin Managers
    /\ MaxTid \in Nat \ {0}

VARIABLES
    options,    \* the write options all managers of the store are opened with
    (* files of the storage target *)
    records,    \* records[o][t]: objects/<o>.<t>, <<>> or <<node>>
    prepares,   \* wal/transaction-<t>.prepare: the envelope, or NoEnvelope
    markers,    \* the t for which wal/transaction-<t>.commit exists
    txns,       \* transactions/transaction-<t>: the envelope it hashes
    snapshots,  \* snapshots/snapshot-<t>
    current,    \* CURRENT, the id of a snapshot; 0 when missing
    index,      \* the index sidecars: the id and envelope they describe
    manifest,   \* manifest.json: id and object versions; id 0 when missing
    lock,       \* the manager whose token the lock file holds, or NoOwner
    (* memory of the managers *)
    pc,         \* where a manager is in its operation
    held,       \* does it keep a lock handle?
    heap,       \* rootValue: the live object graph
    tid,        \* transactionId
    vers,       \* persistedObjectVersions
    job,        \* the operation in progress
    (* observer *)
    history     \* history[t]: what commit t makes durable

diskVars == <<options, records, prepares, markers, txns, snapshots, current, index, manifest>>
memVars == <<held, heap, tid, vers>>
vars == <<diskVars, lock, pc, memVars, job, history>>

-----------------------------------------------------------------------------
(* Object graphs *)

\* The objects an object walk meets when it starts from the set from.
Closure(h, from) ==
    {o \in Objects : \A S \in SUBSET Objects :
        (from \subseteq S /\ \A p \in S : Refs[h[p]] \subseteq S) => o \in S}

\* The envelope holds the nodes that the root reaches, with the node of each.
Serialize(h) == [o \in Closure(h, {Root}) |-> h[o]]

\* deserialize() throws "Missing serialized node" unless every reference resolves.
Closed(env) == Root \in DOMAIN env /\ \A o \in DOMAIN env : Refs[env[o]] \subseteq DOMAIN env

Deserialize(env) == [o \in Objects |-> IF o \in DOMAIN env THEN env[o] ELSE FactoryHeap[o]]

\* Fault: a target that has been stored before is not forced.
CollectNewObjectIds(h, targets, persisted) ==
    LET met == Closure(h, {targets[i] : i \in DOMAIN targets})
        requested == Closure(h, {Root}) \cap (met \ persisted)
    IN IF requested = {} THEN {Root} ELSE requested

\* A target is written if no earlier target's walk has met it (the walk marks
\* what it meets as seen); what the walks meet is written when it is new.
CollectObjectIds(h, targets, persisted) ==
    LET nodes == Closure(h, {Root})
        forced == {targets[i] : i \in {j \in DOMAIN targets :
                      \A k \in 1..(j - 1) : targets[j] \notin Closure(h, {targets[k]})}}
        met == Closure(h, {targets[i] : i \in DOMAIN targets})
        requested == nodes \cap (forced \cup (met \ persisted))
    IN IF requested = {} THEN {Root} ELSE requested

-----------------------------------------------------------------------------
(* What StorageReader finds on the target *)

LatestTxn == Max({0} \cup {t \in Tids : txns[t] # NoEnvelope})

CommittedWal == {t \in markers : prepares[t] # NoEnvelope}

\* Committed entries that recoverCommittedWalLocked would publish.
PendingWal == {t \in CommittedWal : manifest.tid < t \/ LatestTxn < t}

\* Fault: the transaction records are not looked at.
ManifestTransactionId == manifest.tid

CurrentTransactionId == Max({manifest.tid, LatestTxn})

Readable(man) == \A o \in DOMAIN man.vers : records[o][man.vers[o]] # <<>>

EnvelopeFromManifest(man) == [o \in DOMAIN man.vers |-> records[o][man.vers[o]][1]]

\* Fault: a loaded object is taken to be one version older.
AllBefore(env, t) == [o \in DOMAIN env |-> t - 1]

AllAt(env, t) == [o \in DOMAIN env |-> t]

\* The graph a start that met no failure would load now.
Recoverable ==
    IF PendingWal # {} THEN prepares[Max(PendingWal)]
    ELSE IF manifest.tid > 0 /\ LatestTxn <= manifest.tid /\ Readable(manifest)
         THEN EnvelopeFromManifest(manifest)
    ELSE IF current > 0 THEN snapshots[current]
    ELSE NoEnvelope

-----------------------------------------------------------------------------
(* The operation in progress *)

NoCommit == [graph |-> NoEnvelope, stored |-> NoEnvelope]
NoManifest == [tid |-> 0, vers |-> NoVersions]
NoIndex == [tid |-> 0, env |-> NoEnvelope]

\* job: the entry point; storeAll's arguments; the WAL entries still to recover; the
\* manifest a load has read; the id, envelope, versions and ids still to write of a
\* commit; the rollback copy.
NoJob == [kind |-> "none", targets |-> <<>>, wal |-> {}, man |-> NoManifest, t |-> 0,
          env |-> NoEnvelope, vers |-> NoVersions, todo |-> {}, undo |-> FactoryHeap]

Goto(m, step) == pc' = [pc EXCEPT ![m] = step]

\* A process that is not started holds nothing in memory.
Forget(m) ==
    /\ Goto(m, "down")
    /\ held' = [held EXCEPT ![m] = FALSE]
    /\ heap' = [heap EXCEPT ![m] = FactoryHeap]
    /\ tid' = [tid EXCEPT ![m] = 0]
    /\ vers' = [vers EXCEPT ![m] = NoVersions]
    /\ job' = [job EXCEPT ![m] = NoJob]

\* The step that follows withWriteLock's acquisition.
Locked(kind) ==
    IF kind = "start" THEN "listWal"
    ELSE IF kind = "pessimistic" THEN "readManifest"
    ELSE IF kind = "optimistic" \/ Strategy # "startup" THEN "check"
    ELSE "serialize"

WithWriteLock(m, kind) == Goto(m, IF held[m] THEN Locked(kind) ELSE "acquire")

\* The step that follows an operation: withWriteLock's finally releases the
\* handle unless it is the startup lock.
Finished(m) == IF held[m] /\ Strategy # "startup" THEN "release" ELSE "idle"

\* The handler's catch: update and the transactions put the rollback copy back;
\* a start that throws leaves the manager down, with the startup lock orphaned.
Throw(m) ==
    /\ IF job[m].kind \in StartOps
       THEN /\ Forget(m)
            /\ lock' = IF Strategy # "startup" /\ held[m] /\ lock = m THEN NoOwner ELSE lock
       ELSE /\ Goto(m, Finished(m))
            /\ heap' = IF job[m].kind \in {"storeRoot", "storeAll"} THEN heap
                       ELSE [heap EXCEPT ![m] = job[m].undo]
            /\ job' = [job EXCEPT ![m] = NoJob]
            /\ UNCHANGED <<lock, held, tid, vers>>
    /\ UNCHANGED <<diskVars, history>>

-----------------------------------------------------------------------------
(* Locking *)

\* Fault: any lock file is broken.
StaleAtOnce == lock # NoOwner

\* A lock file whose owner lost its handle, or any lock once the stale timeout
\* is shorter than a commit.
Stale == \/ StaleLocks # "none" /\ lock # NoOwner /\ ~held[lock]
         \/ StaleLocks = "live" /\ lock # NoOwner

Acquire(m) ==
    /\ pc[m] = "acquire"
    /\ lock = NoOwner \/ Stale
    /\ lock' = m
    /\ held' = [held EXCEPT ![m] = TRUE]
    /\ Goto(m, Locked(job[m].kind))
    /\ UNCHANGED <<diskVars, heap, tid, vers, job, history>>

AcquireTimeout(m) ==
    /\ pc[m] = "acquire"
    /\ lock # NoOwner
    /\ Throw(m)

\* Release is token-aware: it leaves a lock that another writer has taken.
Release(m) ==
    /\ pc[m] = "release"
    /\ lock' = IF lock = m THEN NoOwner ELSE lock
    /\ held' = [held EXCEPT ![m] = FALSE]
    /\ Goto(m, IF job[m].kind = "start" THEN "readManifest" ELSE "idle")
    /\ UNCHANGED <<diskVars, heap, tid, vers, job, history>>

AfterFence(m) ==
    CASE pc[m] = "fenceCommit" -> IF options.wal THEN "marker" ELSE "fencePublish"
      [] pc[m] = "fencePublish" -> "record"
      [] pc[m] = "fenceIndex" -> "index"
      [] pc[m] = "fenceCurrent" -> "current"

AssertValid(m) ==
    /\ pc[m] \in Fences
    /\ lock = m
    /\ Goto(m, AfterFence(m))
    /\ UNCHANGED <<diskVars, lock, memVars, job, history>>

\* Fault: a lock that another writer has taken is waited for.
LockMissing(m) ==
    /\ pc[m] \in Fences
    /\ lock = NoOwner
    /\ Throw(m)

LockLost(m) ==
    /\ pc[m] \in Fences
    /\ lock # m
    /\ Throw(m)

-----------------------------------------------------------------------------
(* start() and reload: which graph a manager takes as its own *)

Start(m) ==
    /\ pc[m] = "down"
    /\ job' = [job EXCEPT ![m].kind = "start"]
    /\ Goto(m, IF options.wal \/ Strategy = "startup" THEN "acquire" ELSE "readManifest")
    /\ UNCHANGED <<diskVars, lock, memVars, history>>

\* recoverCommittedWalLocked lists the commit markers once and takes them in order.
\* start skips it when the transaction log is off.
ListWal(m) ==
    /\ pc[m] = "listWal"
    /\ job' = [job EXCEPT ![m].wal = IF options.wal THEN markers ELSE {}]
    /\ Goto(m, "recover")
    /\ UNCHANGED <<diskVars, lock, memVars, history>>

Recover(m) ==
    LET next == job[m].wal \cap PendingWal IN
    /\ pc[m] = "recover"
    /\ \/ /\ next = {}
          /\ job' = [job EXCEPT ![m] = [NoJob EXCEPT !.kind = "start"]]
          /\ Goto(m, IF Strategy = "startup" THEN "readManifest" ELSE "release")
       \/ \E t \in next :
          /\ \A u \in next : t <= u
          /\ job' = [job EXCEPT ![m].kind = "recover", ![m].wal = {u \in @ : t < u},
                                ![m].t = t, ![m].env = prepares[t],
                                ![m].vers = AllAt(prepares[t], t),
                                ![m].todo = DOMAIN prepares[t]]
          /\ Goto(m, "objects")
    /\ UNCHANGED <<diskVars, lock, memVars, history>>

\* A manifest that cannot be read counts as missing.
ReadManifest(m) ==
    /\ pc[m] = "readManifest"
    /\ \E man \in {manifest} \cup (IF "readManifest" \in FailsAt THEN {NoManifest} ELSE {}) :
         job' = [job EXCEPT ![m].man = man]
    /\ Goto(m, "readWal")
    /\ UNCHANGED <<diskVars, lock, memVars, history>>

\* The loaded envelope becomes rootValue; a start from a snapshot rewrites the
\* object store from it.
Adopt(m, env, t, versions, source) ==
    /\ heap' = [heap EXCEPT ![m] = Deserialize(env)]
    /\ tid' = [tid EXCEPT ![m] = t]
    /\ vers' = [vers EXCEPT ![m] = versions]
    /\ IF job[m].kind = "start"
       THEN IF source = "snapshot"
            THEN /\ Goto(m, "objects")
                 /\ job' = [job EXCEPT ![m].kind = "repair", ![m].t = t, ![m].env = env,
                                       ![m].vers = versions, ![m].todo = DOMAIN env]
            ELSE /\ Goto(m, "idle")
                 /\ job' = [job EXCEPT ![m] = NoJob]
       ELSE /\ Goto(m, "work")
            /\ job' = [job EXCEPT ![m].undo = Deserialize(env), ![m].man = NoManifest]
    /\ UNCHANGED <<diskVars, lock, held, history>>

Load(m, env, t, versions, source) ==
    IF env = NoEnvelope \/ Closed(env) THEN Adopt(m, env, t, versions, source) ELSE Throw(m)

ReadWal(m) ==
    /\ pc[m] = "readWal"
    /\ \E last \in {0} \cup CommittedWal :
          /\ \A t \in CommittedWal : t <= last
          /\ IF last > job[m].man.tid
             THEN Load(m, prepares[last], last, AllAt(prepares[last], last), "wal")
             ELSE /\ Goto(m, "readObjects")
                  /\ UNCHANGED <<diskVars, lock, memVars, job, history>>

ReadObjects(m) ==
    LET man == job[m].man IN
    /\ pc[m] = "readObjects"
    /\ IF man.tid > 0 /\ LatestTxn <= man.tid /\ Readable(man)
       THEN Load(m, EnvelopeFromManifest(man), man.tid, man.vers, "manifest")
       ELSE IF current > 0
       THEN Load(m, snapshots[current], current, AllAt(snapshots[current], current), "snapshot")
       ELSE Adopt(m, NoEnvelope, 0, NoVersions, "empty")

-----------------------------------------------------------------------------
(* Operations of the application *)

\* The application changes an object that its graph reaches.
Edit(m) ==
    /\ pc[m] \in EditsAt
    /\ \E o \in Closure(heap[m], {Root}) : \E c \in Editable[o] :
         heap' = [heap EXCEPT ![m][o] = c]
    /\ UNCHANGED <<diskVars, lock, pc, held, tid, vers, job, history>>

BeginStore(m) ==
    /\ pc[m] = "idle"
    /\ \E kind \in Ops \cap {"storeRoot", "storeAll"} :
       \E targets \in IF kind = "storeAll" THEN TargetLists ELSE {<<>>} :
         /\ job' = [job EXCEPT ![m].kind = kind, ![m].targets = targets]
         /\ WithWriteLock(m, kind)
    /\ UNCHANGED <<diskVars, lock, memVars, history>>

BeginUpdate(m) ==
    /\ pc[m] = "idle"
    /\ "update" \in Ops
    /\ job' = [job EXCEPT ![m].kind = "update", ![m].undo = Deserialize(Serialize(heap[m]))]
    /\ Goto(m, "work")
    /\ UNCHANGED <<diskVars, lock, memVars, history>>

BeginTransaction(m) ==
    /\ pc[m] = "idle"
    /\ \E kind \in Ops \cap TransactionOps :
         /\ job' = [job EXCEPT ![m].kind = kind, ![m].undo = heap[m]]
         /\ IF kind = "pessimistic" THEN WithWriteLock(m, kind) ELSE Goto(m, "readManifest")
    /\ UNCHANGED <<diskVars, lock, memVars, history>>

\* The mutator or the transaction's work returns.
EndWork(m) ==
    /\ pc[m] = "work"
    /\ IF job[m].kind = "pessimistic" THEN Goto(m, "serialize") ELSE WithWriteLock(m, job[m].kind)
    /\ UNCHANGED <<diskVars, lock, memVars, job, history>>

\* The mutator or the transaction's work throws.
AbortWork(m) ==
    /\ pc[m] = "work"
    /\ Throw(m)

\* assertNoExternalChangeLocked: the ids on the target against the one loaded.
CheckConflict(m) ==
    /\ pc[m] = "check"
    /\ IF CurrentTransactionId = tid[m]
       THEN /\ Goto(m, "serialize")
            /\ UNCHANGED <<diskVars, lock, memVars, job, history>>
       ELSE Throw(m)

-----------------------------------------------------------------------------
(* commitEnvelope and publishPreparedCommit *)

\* Fault: the id is advanced for the first commit only.
SameTransactionId(m) == Max({1, tid[m]})

NextTransactionId(m) == tid[m] + 1

\* Objects that were never stored are written with the requested ones.
ObjectIdsToWrite(m, nodes, requested) == requested \cup (nodes \ DOMAIN vers[m])

\* Fault: an object that was stored before keeps its version.
FirstObjectVersions(m, nodes, written) ==
    [o \in nodes |-> IF o \in DOMAIN vers[m] THEN vers[m][o] ELSE NextTransactionId(m)]

NextObjectVersions(m, nodes, written) ==
    [o \in nodes |->
        IF o \in written \/ o \notin DOMAIN vers[m] THEN NextTransactionId(m) ELSE vers[m][o]]

\* Serialization and the choice of ids and versions are one synchronous step.
CommitEnvelope(m) ==
    LET env == Serialize(heap[m])
        nodes == DOMAIN env
        requested == IF job[m].kind = "storeAll"
                     THEN CollectObjectIds(heap[m], job[m].targets, DOMAIN vers[m])
                     ELSE nodes
        written == ObjectIdsToWrite(m, nodes, requested)
    IN
    /\ pc[m] = "serialize"
    /\ NextTransactionId(m) <= MaxTid
    /\ job' = [job EXCEPT ![m].t = NextTransactionId(m), ![m].env = env, ![m].todo = written,
                          ![m].vers = NextObjectVersions(m, nodes, written)]
    /\ Goto(m, IF options.wal THEN "prepare" ELSE "objects")
    /\ UNCHANGED <<diskVars, lock, memVars, history>>

\* A commit validator or a storage constraint rejects the envelope.
RejectCommit(m) ==
    /\ pc[m] = "serialize"
    /\ Throw(m)

WriteWalPrepare(m) ==
    /\ pc[m] = "prepare"
    /\ prepares' = [prepares EXCEPT ![job[m].t] = job[m].env]
    /\ Goto(m, "objects")
    /\ UNCHANGED <<options, records, markers, txns, snapshots, current, index, manifest, lock, memVars,
                   job, history>>

AfterObjects(m) ==
    IF job[m].kind = "repair" THEN "manifest"
    ELSE IF options.snapshots THEN "snapshot"
    ELSE IF job[m].kind = "recover" THEN "fencePublish" ELSE "fenceCommit"

\* Fault: the other writes are not awaited.
FirstRecord(m, o) == TRUE

LastRecord(m, o) == job[m].todo = {o}

\* Records are written concurrently, each at the path of its transaction id.
WriteObjectRecords(m) ==
    /\ pc[m] = "objects"
    /\ \E o \in job[m].todo :
         /\ records' = [records EXCEPT ![o][job[m].t] = <<job[m].env[o]>>]
         /\ job' = [job EXCEPT ![m].todo = @ \ {o}]
         /\ Goto(m, IF LastRecord(m, o) THEN AfterObjects(m) ELSE "objects")
    /\ UNCHANGED <<options, prepares, markers, txns, snapshots, current, index, manifest, lock, memVars,
                   history>>

WriteSnapshot(m) ==
    /\ pc[m] = "snapshot"
    /\ snapshots' = [snapshots EXCEPT ![job[m].t] = job[m].env]
    /\ Goto(m, IF job[m].kind = "recover" THEN "fencePublish" ELSE "fenceCommit")
    /\ UNCHANGED <<options, records, prepares, markers, txns, current, index, manifest, lock, memVars,
                   job, history>>

\* The write after which a start finds the commit.
DurableStep == IF options.wal THEN "marker" ELSE IF options.snapshots THEN "current" ELSE "manifest"

\* What commit m makes durable: the graph it has serialized, as the WAL and the
\* snapshot hold it, and what its records show, which for storeAll are the stored
\* nodes on top of the older records.
RecordHistory(m) ==
    LET older(o) == records[o][job[m].vers[o]]
        stored == [o \in DOMAIN job[m].env |->
            IF job[m].kind # "storeAll" \/ job[m].vers[o] = job[m].t \/ older(o) = <<>>
            THEN job[m].env[o] ELSE older(o)[1]]
    IN history' = IF pc[m] = DurableStep /\ job[m].kind \notin StartOps
                  THEN [history EXCEPT ![job[m].t] = [graph |-> job[m].env, stored |-> stored]]
                  ELSE history

WriteWalCommit(m) ==
    /\ pc[m] = "marker"
    /\ markers' = markers \cup {job[m].t}
    /\ RecordHistory(m)
    /\ Goto(m, "fencePublish")
    /\ UNCHANGED <<options, records, prepares, txns, snapshots, current, index, manifest, lock, memVars,
                   job>>

\* A record that already has this id, left by a publication that failed, is kept.
WriteTransactionRecord(m) ==
    /\ pc[m] = "record"
    /\ txns' = IF LatestTxn = job[m].t THEN txns ELSE [txns EXCEPT ![job[m].t] = job[m].env]
    /\ Goto(m, "fenceIndex")
    /\ UNCHANGED <<options, records, prepares, markers, snapshots, current, index, manifest, lock,
                   memVars, job, history>>

\* Fault: the index is built from the graph before the changes.
IndexOfRollbackCopy(m) == [tid |-> job[m].t, env |-> Serialize(job[m].undo)]

IndexRecord(m) == [tid |-> job[m].t, env |-> job[m].env]

\* Parent index, constraint record and persistent index.
WritePersistentIndex(m) ==
    /\ pc[m] = "index"
    /\ index' = IndexRecord(m)
    /\ IF job[m].kind = "repair"
       THEN /\ Goto(m, "idle")
            /\ job' = [job EXCEPT ![m] = NoJob]
       ELSE /\ Goto(m, IF options.snapshots THEN "fenceCurrent" ELSE "manifest")
            /\ UNCHANGED job
    /\ UNCHANGED <<options, records, prepares, markers, txns, snapshots, current, manifest, lock, memVars,
                   history>>

WriteCurrent(m) ==
    /\ pc[m] = "current"
    /\ current' = job[m].t
    /\ RecordHistory(m)
    /\ Goto(m, "manifest")
    /\ UNCHANGED <<options, records, prepares, markers, txns, snapshots, index, manifest, lock,
                   memVars, job>>

WriteManifest(m) ==
    /\ pc[m] = "manifest"
    /\ manifest' = [tid |-> job[m].t, vers |-> job[m].vers]
    /\ RecordHistory(m)
    /\ Goto(m, IF job[m].kind = "repair" THEN "index" ELSE "commitState")
    /\ UNCHANGED <<options, records, prepares, markers, txns, snapshots, current, index, lock,
                   memVars, job>>

\* The commit is reported; recovery goes on with the next WAL entry.
CommitState(m) ==
    /\ pc[m] = "commitState"
    /\ tid' = [tid EXCEPT ![m] = job[m].t]
    /\ vers' = [vers EXCEPT ![m] = job[m].vers]
    /\ IF job[m].kind = "recover"
       THEN /\ Goto(m, "recover")
            /\ job' = [job EXCEPT ![m] = [NoJob EXCEPT !.kind = "start", !.wal = job[m].wal]]
       ELSE /\ Goto(m, Finished(m))
            /\ job' = [job EXCEPT ![m] = NoJob]
    /\ UNCHANGED <<diskVars, lock, held, heap, history>>

-----------------------------------------------------------------------------
(* Failures, shutdown, and the specification *)

\* Is m at one of these control points, and free to stop there?
StopsAt(m, points) ==
    /\ pc[m] \in points
    /\ pc[m] \in QuietAt => \A n \in Managers : job[n].kind # "optimistic"

TargetFails(m) ==
    /\ StopsAt(m, FailsAt \ {"readManifest"})
    /\ Throw(m)

Crash(m) ==
    /\ StopsAt(m, CrashAt)
    /\ Forget(m)
    /\ UNCHANGED <<diskVars, lock, history>>

Shutdown(m) ==
    /\ pc[m] = "idle"
    /\ Forget(m)
    /\ lock' = IF held[m] /\ lock = m THEN NoOwner ELSE lock
    /\ UNCHANGED <<diskVars, history>>

Init ==
    /\ options \in Options
    /\ records = [o \in Objects |-> [t \in Tids |-> <<>>]]
    /\ prepares = [t \in Tids |-> NoEnvelope]
    /\ markers = {}
    /\ txns = [t \in Tids |-> NoEnvelope]
    /\ snapshots = [t \in Tids |-> NoEnvelope]
    /\ current = 0
    /\ index = NoIndex
    /\ manifest = NoManifest
    /\ lock = NoOwner
    /\ pc = [m \in Managers |-> "down"]
    /\ held = [m \in Managers |-> FALSE]
    /\ heap = [m \in Managers |-> FactoryHeap]
    /\ tid = [m \in Managers |-> 0]
    /\ vers = [m \in Managers |-> NoVersions]
    /\ job = [m \in Managers |-> NoJob]
    /\ history = [t \in Tids |-> NoCommit]

\* Steps of a started operation, which the event loop eventually takes.
Progress(m) ==
    \/ Acquire(m) \/ AcquireTimeout(m) \/ Release(m) \/ AssertValid(m) \/ LockLost(m)
    \/ ListWal(m) \/ Recover(m) \/ ReadManifest(m) \/ ReadWal(m) \/ ReadObjects(m)
    \/ EndWork(m) \/ CheckConflict(m) \/ CommitEnvelope(m) \/ WriteWalPrepare(m)
    \/ WriteObjectRecords(m) \/ WriteSnapshot(m) \/ WriteWalCommit(m)
    \/ WriteTransactionRecord(m) \/ WritePersistentIndex(m) \/ WriteCurrent(m)
    \/ WriteManifest(m) \/ CommitState(m)

Next == \E m \in Managers :
    \/ Progress(m)
    \/ Start(m) \/ Edit(m) \/ BeginStore(m) \/ BeginUpdate(m) \/ BeginTransaction(m)
    \/ AbortWork(m) \/ RejectCommit(m) \/ TargetFails(m) \/ Crash(m) \/ Shutdown(m)

Spec == Init /\ [][Next]_vars

\* Node.js runs every promise that is ready; nothing obliges the application to
\* start an operation, nor a process to stay alive.
FairSpec == Spec /\ \A m \in Managers : WF_vars(Progress(m))

-----------------------------------------------------------------------------
(* Properties *)

Jobs == [kind : {"none"} \cup StartOps \cup DirectOps \cup TransactionOps,
         targets : TargetLists \cup {<<>>}, wal : SUBSET Tids,
         man : [tid : 0..MaxTid, vers : Versions], t : 0..MaxTid,
         env : Envelopes, vers : Versions, todo : SUBSET Objects, undo : Heaps]

\* Every variable keeps the shape of the file or field it stands for.
TypeOK ==
    /\ options \in Options
    /\ records \in [Objects -> [Tids -> {<<>>} \cup {<<c>> : c \in Contents}]]
    /\ prepares \in [Tids -> Envelopes]
    /\ markers \subseteq Tids
    /\ txns \in [Tids -> Envelopes]
    /\ snapshots \in [Tids -> Envelopes]
    /\ current \in 0..MaxTid
    /\ index \in [tid : 0..MaxTid, env : Envelopes]
    /\ manifest \in [tid : 0..MaxTid, vers : Versions]
    /\ lock \in Managers \cup {NoOwner}
    /\ pc \in [Managers -> Steps]
    /\ held \in [Managers -> BOOLEAN]
    /\ heap \in [Managers -> Heaps]
    /\ tid \in [Managers -> 0..MaxTid]
    /\ vers \in [Managers -> Versions]
    /\ job \in [Managers -> Jobs]
    /\ history \in [Tids -> [graph : Envelopes, stored : Envelopes]]

HistoryTop == Max({0} \cup {t \in Tids : history[t] # NoCommit})

\* A crash at any point leaves files from which a start loads exactly the last
\* durable commit: no commit is lost and none is half visible.  A commit of chosen
\* targets shows as stored until recovery replays the whole graph from the WAL.
DurableIsRecoverable ==
    IF HistoryTop = 0 THEN Recoverable = NoEnvelope
    ELSE Recoverable \in {history[HistoryTop].graph, history[HistoryTop].stored}

\* Commits take consecutive ids and none replaces another: a durable commit
\* always builds on the commit before it.
CommitsAreSerial ==
    [][history' # history => \E t \in Tids :
          /\ t = HistoryTop + 1
          /\ \A u \in Tids \ {t} : history'[u] = history[u]]_vars

\* Each object version that the manifest selects has its record, whatever fails
\* and whoever else writes.
ManifestVersionsExist == Readable(manifest)

\* No reference of the graph that the manifest selects dangles, so that a start
\* can deserialize it.
ManifestGraphIsClosed ==
    manifest.tid > 0 /\ Readable(manifest) => Closed(EnvelopeFromManifest(manifest))

\* Object records are versioned by transaction: what writers do on the way to
\* their own manifest never changes the graph of the present one.
ManifestIsolation ==
    [][manifest.tid > 0 /\ manifest' = manifest /\ Readable(manifest) =>
         EnvelopeFromManifest(manifest)' = EnvelopeFromManifest(manifest)]_vars

\* verify() finds no error once something was committed through the WAL, however
\* a writer died: a manifest that is behind is explained by a WAL entry, the
\* records are there, and the hashes match the snapshots.
VerifyFindsNoError ==
    LET pending == {t \in markers : t > manifest.tid} IN
    options.wal /\ HistoryTop > 0 =>
        /\ manifest.tid = 0 \/ LatestTxn > manifest.tid => pending # {}
        /\ ManifestVersionsExist
        /\ ManifestGraphIsClosed
        /\ \A t \in Tids : txns[t] # NoEnvelope /\ snapshots[t] # NoEnvelope =>
             txns[t] = snapshots[t]

\* An index sidecar that carries the manifest's transaction id, which is all that
\* GVQL's "committed" consistency looks at, describes the manifest's graph.
IndexMatchesManifest ==
    manifest.tid > 0 /\ index.tid = manifest.tid => index.env = EnvelopeFromManifest(manifest)

\* When a store call succeeds, the manifest shows every object it was asked to
\* store as the application had it, even if an earlier target refers to it.
StoredTargetsArePublished == \A m \in Managers :
    LET asked == IF job[m].kind = "storeAll"
                 THEN {job[m].targets[i] : i \in DOMAIN job[m].targets}
                 ELSE DOMAIN job[m].env
    IN pc[m] = "commitState" /\ job[m].kind \in DirectOps =>
          /\ manifest.tid = job[m].t
          /\ \A o \in asked \cap DOMAIN job[m].env :
                records[o][manifest.vers[o]] = <<job[m].env[o]>>

\* Every operation and every start ends, with a result or an error: nobody waits
\* for ever for a lock that another manager keeps.  Only the bound on transaction
\* ids stops one.
OperationsEnd == \A m \in Managers :
    pc[m] # "idle" ~> pc[m] \in {"idle", "down"} \/ (pc[m] = "serialize" /\ tid[m] = MaxTid)
=============================================================================
