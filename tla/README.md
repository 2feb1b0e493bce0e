# A verification development of GraphVault

GraphVault keeps a TypeScript object graph in a store of files (or of objects in a bucket, or of
rows): a `StorageManager` loads the graph that a root object reaches, the application changes it,
and a store operation serializes it and commits it as the next transaction. Several processes may
open one store, and several calls of one process may be pending at once. These modules model the
parts of it in which the order of steps, a crash, a second process or a second call can go wrong, and
the algorithms behind GVQL. TLC checks them on small instances; TLAPS proves the main invariants for
every instance.

Run `tlc -config shared.cfg MCGraphStore.tla` (and so on, see the runs below) and `tlapm` on
the eight modules of section 4 (`GraphStoreProofs.tla`, `GraphStoreStartupProofs.tla`,
`GraphStoreSharedProofs.tla`, `FileLockProofs.tla`, `RemoteLockProofs.tla`, `ManagerCallsProofs.tla`,
`MaintenanceProofs.tla`, `GvqlStoreProofs.tla`).
PROJECT.json maps each definition to the lines it models; paths below are those of `src/src/`.

## 1. Inventory

| component | state it keeps | operations | interacts with |
|---|---|---|---|
| `StorageManager` (storage/storage-manager.ts) | root, transaction id, object versions, startup lock, transaction depth, schema version, index record | start, storeRoot, store, storeAll, storers, update, transaction, shutdown; gvql, collectGarbage, compact, backup, verify, lazy references, migrations | everything below |
| commit path: `StorageCommitter`, `StorageWriter` | none in memory; the files of the target | commitEnvelope, publishPreparedCommit and the writes they await | manager (commit state callback), lock (`assertValid`), target |
| `StorageReader` | none | loadExistingEnvelope: WAL, manifest, CURRENT snapshot | target |
| lock of the targets (storage/storage-target.ts, targets/) | lock file, object or row; token counter | acquireLock, assertValid, release, breaking of stale locks | other processes |
| `AsyncMutex`, transaction scope | a chain of promises; `transactionDepth` | runExclusive, runInTransactionScope | all calls within a process |
| migrations (migrations/, migrateTo) | the schema version, in memory and in the manifest | planning, one transaction per step | mutex, transactions, other calls |
| object collector | none | collectObjectIdsForTargets | storeAll and storers |
| serializer (core/serializer.ts) | ids of live objects | serialize, deserialize | commit, load, rollback copies |
| index sidecars (gvql-index.ts, gvql-advanced-index.ts, storage-writer.ts) | sidecar files, the record in memory | built at publication, rebuildIndexes, loaded for a query | GVQL, commit path, verify |
| constraints (storage-constraints.ts) | none | checked before a commit | commit path, GVQL mutations |
| garbage collection, compaction, backup | none | removal and copying of files | the files of all managers, without the storage lock (backup: with it) |
| lazy references, lazy lists | payload files, cached value | get, set, store, release | commit (payloads are written first), garbage collection |
| GVQL (gvql/) | none (reads an envelope) | parse, plan with indexes, execute, mutate, preview | manager: root and standard commit; sidecars |
| subtree loading | none | breadth-first load to a depth | reader, serializer |
| verifier, safety and health reports | none | read-only | all files |
| persistent cache, NestJS module | a map in the graph | thin wrappers | manager |

What is hard about this code:

* **A commit is up to twelve awaited writes** (WAL prepare, one record per object, snapshot, commit
  marker, transaction record, journal, sidecars, CURRENT, manifest). A process may die, or a write
  fail, between any two, and recovery takes the same steps again.
* **Another process acts between any two of them.** The lock is a file, an object or a row that may be
  broken while its holder is alive; tokens are validated at some points only, and always a step before
  the write. A request to a remote lock may be performed and its answer lost.
* **Another call acts at every await.** The mutex orders sections, but the live root, the transaction
  depth, the schema version and the startup lock are read and written outside of it.
* **Ids are reused.** A commit that failed leaves files under the id that the retry, or another
  process, uses next.
* **Loads are not atomic**, and optimistic transactions load without the lock.
* **A commit of chosen targets** writes fewer records than the WAL and the snapshot contain.
* **Memory and files diverge** when an operation fails after its commit became durable, and rollback
  puts the older graph back in memory.
* **A query is answered in two ways**, from persisted indexes or by a scan, and the planner decides
  which from what the index says about itself.

What makes each component correct: a start after any crash finds exactly the last durable commit;
commits form one sequence and none is lost; the graph that the manifest selects is complete, closed
under references, and does not change until the next manifest; sidecars describe that graph; one
writer at a time has a valid token, and tokens grow; sections do not overlap; a call that failed leaves
nothing behind and one that was acknowledged stays; the schema version says which migrations the graph
has been through; a query answers the same with and without indexes; a mutation keeps the graph whole
and its preview tells what it changes; every operation ends. PROJECT.json lists, line by line, the
hazards these properties are for, and those no property covers.

## 2. Modules

    SerialGraph  <--implements--  GraphStoreSerial  --extends-->  GraphStore   (its lock is a WriterLock)
    MCGraphStore             --extends-->  GraphStoreSerial
    GraphStoreProofs         --extends-->  GraphStore
    GraphStoreStartupProofs  --extends-->  GraphStoreProofs, GraphStoreSerial
    GraphStoreSharedProofs   --extends-->  GraphStoreStartupProofs

    MCFileLock    --extends-->  FileLock    --implements-->      WriterLock
    MCRemoteLock  --extends-->  RemoteLock  --implements-->      WriterLock
    FileLockProofs, RemoteLockProofs: extend FileLock, RemoteLock

    MCManagerCalls --extends--> ManagerCalls <-- ManagerCallsProofs   (calls of one process)
    MCMaintenance  --extends--> Maintenance <-- MaintenanceProofs
                                (a shorter commit path, with what removes and copies files)

    MCGvqlStore --> GvqlQueries --> GvqlStore    --> GvqlMutations --> GvqlIndexes --> GvqlValues
                                                 --> Subtree ------------------------> GvqlValues
                                --> GvqlExecutor --> GvqlPlanner   --> GvqlIndexes
                                                                   --> GvqlExpressions --> GvqlValues
    GvqlStoreProofs --extends--> GvqlStore

**GraphStore** is the core: a set of managers, their memory, and the files of one store.
A manager's `pc` is the await at which its operation is suspended, and `job` the local variables of
the pending calls. Code between two awaits is one action. The correspondence:

| code | actions |
|---|---|
| `start` | Start, Acquire, ListWal, Recover and the publication steps, ReadManifest, ReadWal, ReadObjects (Load, Adopt; a start from a snapshot goes on with the repair writes) |
| `storeRoot`, `store(root)` | BeginStore with kind storeRoot |
| `store(o)`, `storeAll`, a storer's commit | BeginStore with kind storeAll and a list of targets |
| `update` | BeginUpdate, Edit, EndWork or AbortWork, then as a store |
| `pessimisticTransaction` | BeginTransaction, Acquire, the load steps, Edit, EndWork or AbortWork, the commit |
| `optimisticTransaction` | BeginTransaction, the load steps, Edit, EndWork, Acquire, CheckConflict, the commit; a retry is a new BeginTransaction |
| `withWriteLock` | Acquire, AcquireTimeout, Release |
| `assertNoExternalChangeLocked` | CheckConflict |
| `commitEnvelope` | CommitEnvelope or RejectCommit, WriteWalPrepare, WriteObjectRecords (one object at a time), WriteSnapshot, AssertValid or LockLost, WriteWalCommit |
| `publishPreparedCommit` | AssertValid or LockLost before each group, WriteTransactionRecord, WritePersistentIndex, WriteCurrent, WriteManifest, CommitState |
| a rejected promise of the target | TargetFails; the `catch` and `finally` blocks are Throw |
| the process dies; `shutdown` | Crash; Shutdown |

An object's content is a member of `Contents` with a set of references; `Refs` gives it. An envelope
is a function from the ids that the root reaches to contents. `records[o][t]` is the file of object o
at id t. `history` is an observer: it holds, for every id, the graph and the stored view of the
commit that reached its durable write (the commit marker with the transaction log, CURRENT with
snapshots only, else the manifest).

**FileLock, RemoteLock, WriterLock.** The lock is abstract in GraphStore: it names the manager whose
token the lock file holds, and `assertValid` compares. FileLock models the steps by which
`LocalFilesystemTarget` acquires, validates, breaks and releases it: creation with `wx`, the body,
reading and writing the token counter, the rename of the final record, the read and the removal in
`release` and in the stale check, each with its failure. RemoteLock does the same for the S3, HTTP and
SQL targets, one request at a time; `target` says which of them the store is on:

| step | S3 | HTTP | SQL |
|---|---|---|---|
| create the record if there is none | CreateLock (`IfNoneMatch`) | CreateLock | CreateLock (INSERT) |
| draw a token | ReadToken, WriteToken | ReadToken, WriteToken | ReadToken, WriteToken (DELETE), InsertToken |
| write it into the record | WriteRecord, recreates a record that is gone | WriteRecord, the same | WriteRecord, an UPDATE of the own row |
| an error | looks whether the lock is stale | is thrown | looks whether the lock is stale |
| release | CheckToken, RemoveLock | CheckToken, RemoveLock | ReleaseRow, one DELETE |

CreateAnswerLost is a request that was performed and answered with an error; TokenUnreadable a counter
that could not be read; a process dies in Crash between any two requests, also between SQL's DELETE and
INSERT (`counterLost`). WriterLock is what GraphStore relies on: at most one owner, a new token at each
grant. `ImplementsWriterLock` is the refinement of both; the mapping hides a record that has no token
yet, and for the remote targets WriterLock's tokens are the numbers of the grants (an observer).

**SerialGraph** is the contract of the store for commits of whole graphs: a growing sequence of
graphs, private copies, and a commit that must start from the last one. **GraphStoreSerial** gives
the mapping: the sequence is `history`, a manager's copy is the serialization of its heap, and what
is visible is what a start would load (`Recoverable`).

**ManagerCalls** is one process: the calls an application makes on one manager, which race each other
at every await. `chain` is the mutex, `pc[c]` where a call is suspended:

| code | actions |
|---|---|
| before the mutex: `assertStarted`, `assertOutsideTransaction`, the branch of `update` into a running transaction, the plan of `migrateTo`, `PersistentCache.set` | RejectCall, JoinTransaction, MigrateTo, IssueCall |
| `storeRoot` and the like | BeginStore, Serialize, Publish |
| a mutating `gvql` | BeginGvql, Publish |
| `update` | BeginUpdate, WorkEnds, WorkThrows or WorkIsRefused, Serialize, Publish |
| `transaction`, both kinds, and each step of `migrateTo` | BeginTransaction, the same, WorkRetries and Retry, NextMigration |
| `collectGarbage` | Collect |
| a section that throws | CommitFails and every use of Fails (the `catch` and `finally` blocks) |
| `shutdown`, which does not wait for the mutex | ShutdownReleases, ShutdownEnds |
| another process that commits while the lock is free | ForeignCommit |

The graph is the set of the calls whose edits it holds and how often each migration was applied; the
files of a commit are GraphStore's subject. Which calls there are, what their callbacks await
(`Parent`) and in which order the application awaits them (`After`) are constants.

**Maintenance** has the operations that remove or copy files: `collectGarbage` (BeginCollect,
CollectManifest, CollectRecords, RemoveRecord, CollectLazies, RemovePayload, EndCollect), `compact`
(BeginCompact, ListSnapshots, RemoveSnapshot, EndCompact), `backup` (BeginBackup, Recover and the
publication steps, CopyDirectory, EndBackup), and lazy references (CreateLazyRef, LoadLazyRef,
ClearLazyRef, and the payloads a commit writes in StoreLazyRefs). They run beside the commit path of
GraphStore, which is abstracted: records have no content, an envelope is a set of object ids, the WAL
prepare and its marker are one step, and fences pass since only dead owners' locks are broken.
Collection and backup hold the mutex (`pc`); compaction holds nothing, and has a variable of its own
(`sweep`). `committed` and `base` are observers: the last durable commit, and the commit that a
manager's graph was made from.

**The GVQL modules** model the language from parsed statements on. **GvqlValues**: encoded values and
nodes, missing values and the conversions of comparisons. **GvqlExpressions**: value expressions, and
WHERE clauses with the precedence the parser gives their tokens (`Evaluate`, `Satisfies`,
`ParseBooleanExpression`). **GvqlIndexes**: what the property, composite, unique, range, text, full-text
and expression indexes contain. **GvqlPlanner**: which predicates of a WHERE clause may use them, and
the candidates they give. **GvqlExecutor**: pattern matching, ordering, paging, grouping, HAVING, WITH,
and the bindings a statement works on (`SelectBindings`). **GvqlMutations**: SET, REMOVE, DELETE, CREATE
and MERGE, in this order, applied to the envelope serialized for the statement. It takes the bindings
and the values of expressions as constants, `BindingsOf` and `ValueOf`, as `applyGvqlMutations` takes
them from its caller and from the evaluator; the configurations give them the executor's
`SelectBindings` and the `Evaluate` of GvqlExpressions. **Subtree**: the queue of the bounded load, and
what is reachable from a root. **GvqlStore** puts updates on a store: `live` is the application's graph,
`durable` what the manifest names, `indexRecord` the sidecar, `pending` a commit that is durable in
the WAL only; its actions are Edit, StoreRoot, Gvql, RebuildIndexes, Crash and Restart. **GvqlQueries**
has the properties that need the executor. Texts are sequences of symbols and numbers single digits.

**MCGraphStore**, **MCFileLock**, **MCRemoteLock**, **MCManagerCalls**, **MCMaintenance** and
**MCGvqlStore** hold the graphs, calls, statements and option sets of the instances.

## 3. Runs

Strategy is `lockStrategy`; an instance has two managers unless said otherwise, a root and one child,
two transaction ids.

| run | instance | properties |
|---|---|---|
| shared | strategy pessimistic, both kinds of transactions, WAL and snapshots, crash before any write, failures of marker, record and manifest writes and lost answers, dead owners' locks broken | TypeOK, VerifyFindsNoError, IndexMatchesManifest, ImplementsSerialGraph, ManifestIsolation |
| startup | strategy startup, all direct operations and pessimistic transactions, targeted stores, WAL only or snapshots only, crash before any write, failures before durability | DurableIsRecoverable, StoredTargetsArePublished, CommitsAreSerial |
| faulty | both transactions, live locks broken, failing manifest reads, records and manifests, crash among the records, fairness | ManifestVersionsExist, OperationsEnd |
| file_lock | three processes, one breaker, failures of every file operation except the token read, crashes anywhere | LockTypeOK, OneValidHandle, ImplementsWriterLock |
| remote_lock | three processes, one breaker, each kind of target, every request failing before or after it is performed, crashes anywhere | RemoteTypeOK, OneValidHandle, TokensGrow, ImplementsWriterLock |
| maintenance | strategy startup with the WAL, with snapshots, with both, and pessimistic; three transaction ids, a root and a LazyRef; crash at any write or removal, failures before durability | MaintenanceTypeOK, StartFindsLastCommit, LazyPayloadsKept, BackupRestores |
| calls | one manager with the startup lock, two tasks of nine calls in all, one failure, one foreign commit, shutdown at any time | TypeOK, OneSection, FailedCallsLeaveNoTrace, AcknowledgedIsDurable, JoinedUpdatesShareTheFate, SchemaMatchesRoot, ShutdownFreesTheLock, CallsEnd |
| gvql | a root, a list and objects of two types that refer to each other; eight queries, six update statements, two edits, two constraints, five advanced indexes, three transactions | GvqlTypeOK, StoredGraphIsClosed, IndexedMatchesAreExact, PagesAndGroupsAddUp, MergeIsIdempotent, PreviewNamesWhatChanges, SubtreeIsTheBoundedReach, CommittedUpdatesAreWhole, CommitsMeetConstraints, StoreReopens |

Run maintenance gives each set of options the operations that matter for it (`MCOps`): collection with
lazy references and the WAL, collection with compaction and backup and snapshots, lazy references with
backup, and backup of a shared store. Only a manager that has the store for itself collects; run
foreign_gc shows why.

In run calls one task migrates up by two versions, mutates by GVQL, runs an optimistic transaction,
migrates down by one and collects; the other puts into a cache, runs a transaction whose work awaits an
update(), and updates. Every interleaving of the two is explored.

In run gvql the queries use every clause and every index family on every graph that the edits, updates
and crashes lead to, whether the sidecar is current, behind, or rebuilt. The reference semantics
(`Means`, `Answer`) reads the WHERE tokens anew, takes all objects as candidates and enumerates
bindings as functions; it shares with the code's model the value comparisons only.

Four more runs show where the code departs from what the repository's documents say; each ends
in a counterexample (PROJECT.json, findings, quotes the sentence):

* `lost_commit`: an optimistic transaction overwrites a commit that a crash left in the WAL. The
  conflict check does not look at the WAL, and only start() (and backup) recovers it. This is why in
  run shared (`QuietAt`) no process stops between the commit marker and the transaction record while
  a transaction works optimistically; everything else may stop there.
* `foreign_gc`: collectGarbage does not take the storage lock; run by one process while another
  publishes, it removes the records of the new manifest, and the next start opens an empty store.
* `index_rows`: a property index configured for one type answers queries without a type, and misses
  the objects of the other types. Run gvql configures its property index for all types.
* `unique_reject`: a unique index refuses a commit after its WAL marker and transaction record are
  durable. Run gvql has a constraint that refuses the commit first.

Further states outside the passing runs, which these configurations reach:

| property that fails | configuration | why |
|---|---|---|
| ManifestIsolation | shared.cfg with StaleLocks = "live" | a writer whose lock was broken has written records of the next id before its first fence |
| StoredTargetsArePublished | startup.cfg with TargetLists <- MCNestedTargets | storeAll skips a target that an earlier target refers to |
| ManifestGraphIsClosed | startup.cfg with MCObjects3, MCContents3, MCRefs3, MCFactory3, MCEditable3 and TargetLists <- MCOneTarget | a targeted store drops an object that an older record still refers to |
| OneValidHandle | file_lock.cfg with two Breakers | two breakers of one stale lock end up with the same valid token |
| CommitsBuildOnTheLast | foreign_gc.cfg with Ops <- MCBackup and CrashAt <- MCSharedCrash | backup() recovers another process's commit and keeps its own graph, which the next store commits over it |
| CommitsAreSerial, DurableIsRecoverable | startup.cfg with FailsAt = {"record"} or {"manifest"} | a store whose publication failed is durable; its manager still has the id before, and the retry, which lockStrategy startup does not check for conflicts, takes the same id and replaces it |
| StartFindsLastCommit | maintenance.cfg with KeepLatest = 1 | compact(1) reads CURRENT, a commit moves it, and the snapshots are listed while the commit after that is between its snapshot and CURRENT: the newest and the one read are kept, and the one that CURRENT names is removed |
| StoredGraphIsClosed | gvql.cfg with Edits <- DroppingEdits | the application takes a list from the root and does not store it; an update then writes the objects it changed and lists those the live root reaches: the root's older record refers to a list that the manifest does not have, and after a crash the store does not open (StoreReopens fails as well) |
| CommitsMeetConstraints | gvql.cfg with Edits <- RenamingEdits and Updates <- ReusingUpdates | unique constraints are checked on the live graph; an edit that is not stored frees a key there, an update gives it to another object, and the committed graph has it twice |

**Bounds.** In the runs of GraphStore MaxTid is 2: transaction 1 is built on nothing, transaction 2 on
a store, which covers reuse of an id, a base that is one commit old, and recovery over an existing
manifest.
The inductive invariants of section 4 were checked on larger instances than the runs: that of the
startup strategy with MaxTid 3, which found a clause that MaxTid 2 had not needed (`Ready`, on the
records of the last commit behind a transaction record without a commit); that of shared stores on
shared.cfg, on direct stores that nobody interrupts in the window, and on the first 2.6 million states
of transactions with MaxTid 3 and every failure; and that of Maintenance with MaxTid 3 for one manager
and MaxTid 2 for two, with every operation and a crash anywhere. One child is enough for records that
are or are not rewritten and for a graph that grows and shrinks. Two managers are enough for every
conflict between a holder and a stale or optimistic process; the locks need three (holder, breaker,
bystander). Files change only in write actions, so a crash is enabled before writes
and at the end of an operation: a crash elsewhere leaves the files of the next such point. Deadlock is
not checked in the runs of GraphStore since commits stop at MaxTid; file_lock, calls and gvql check it.
Run maintenance needs three ids: compaction with two kept snapshots removes nothing before the third.
In remote_lock MaxToken and MaxGrants are 2: a grant, its break and the next grant, with a counter that
exists and one that was lost; it stops at the bounds, so deadlock is not checked there. In calls an
optimistic transaction has two attempts, so that one retry conflicts and one gives up; one foreign
commit is enough for every stale base, one failure for every rollback (a failed call never has more
than one rollback to race). In gvql three transactions allow a commit on a rebuilt index after a crash.

**Fairness.** In GraphStore `FairSpec` asks weak fairness of each manager's Progress: the steps of an
operation that was begun, which the event loop takes when the awaited promise settles. Acquire and
AcquireTimeout are part of it (the code polls until a deadline). In ManagerCalls each call's next step is
weakly fair once it is queued or suspended, and so is issuing a call that a callback awaits: the
event loop resumes what is settled. In GvqlStore only Restart is: somebody opens the store again.
Nothing is asked of the application's other calls, of crashes, shutdowns or failures. `OperationsEnd`
and `CallsEnd` say that what was begun ends, `StoreReopens` that a start after a crash succeeds.

## 4. Proofs

For every value of the constants that satisfies the assumptions of the module:

* GraphStoreProofs. `TypeCorrect`: `Spec => []TypeOK`. The inductive invariant is `TypeInv`: TypeOK and
  `JobShape`, which relates the parts of a job (versions and envelope have the same objects, ids still
  to write are ids of the envelope, a committing manager has an id). Without it, `job[m].env[o]` in
  WriteObjectRecords would have no type. `ManifestComplete`: without targeted stores,
  `Spec => []ManifestVersionsExist`, whatever is broken, fails or crashes. `WholeInv` adds for each
  committing manager that all its versions are the commit's id, that objects no longer to be written
  have their record at that id, and that nothing is left to write once the records are done. It says
  nothing about the lock: no fence is needed, because records only ever appear. Why targeted stores are
  excluded: after a load from the WAL the manager believes that all objects have records at the WAL's
  id (hazard at storage-reader.ts:83).
* GraphStoreStartupProofs, under `StartupOnly`: lockStrategy is startup, no live process's lock is
  broken, writes fail before their commit is durable or not at all, and there is a WAL, snapshots, or
  both; any operations, targeted stores included, any crashes. (Of the faulty publication section 3 tells what
  it breaks; with neither WAL nor snapshots nothing is left of the objects a commit rewrites.)
  `StartupDurableIsRecoverable`, `StartupManifestComplete`, `StartupCommitsAreSerial`,
  `StartupManifestIsolation`, and `StartupStoredTargetsArePublished`, which also needs that no argument of
  storeAll is reached from an earlier one (`TargetsApart`; section 3 says what happens then).
  `StartupInv` names the last durable commit k and says, of the files, that they lead to it: the WAL
  entries are those up to k, transaction records are at most one ahead, the manifest is that of k or
  of k - 1 and shows its graph (`FilesInv`); of the lock, that an active manager holds it, so that
  there is one (`LockInv`); of the active manager, how far its commit, recovery or repair has come
  (`JobInv`). The last is needed because the files of commit k + 1 appear one by one before it counts,
  and because a failed commit leaves them for the retry: `Ready` says what the next commit may rely
  on, a manager that knows k and has a record for each version it would keep.
  The second part of the module is under `WholeOnly`, which is StartupOnly without storeAll.
  `StartupImplementsSerialGraph`: GraphStore implements SerialGraph, step by step: a load is a Take, an
  edit a Change, the durable write a Commit on top of the last graph, everything else a stutter, since
  recovery and repair publish the graph that is already visible. `StartupIndexMatchesManifest` and
  `StartupVerifyFindsNoError` come from the same invariant, `SerialInv`: StartupInv, WholeInv, that
  every commit is a graph that serialization can produce, whose sidecars, transaction record and snapshot are its
  own (`HistoryInv`, `SidecarInv`), and that the graph under way is that of the manager's memory
  (`MemoryInv`). Without a WAL a sidecar may belong to a commit that never counted; its id is then not
  the manifest's.
* GraphStoreSharedProofs, under `SharedOnly`: managers share the store (lockStrategy pessimistic or
  optimistic), no live process's lock is broken, there is a WAL, and no targeted stores; crashes and
  failures anywhere, manifests that cannot be read included, with one exception. A writer that stops
  between the commit marker and the transaction record hides its commit from the managers that are
  already running; run lost_commit shows the next commit replacing it. So either nobody stops there, or
  the application uses transactions only and nobody stops there while one works optimistically (a
  pessimistic one loads the WAL under the lock). `SharedDurableIsRecoverable`,
  `SharedCommitsAreSerial`, `SharedImplementsSerialGraph`, `SharedManifestIsolation`,
  `SharedIndexMatchesManifest` and `SharedVerifyFindsNoError` come from one invariant, `SharedInv`,
  which names the last durable commit k. `StoreInv`: the WAL has the graphs of 1 to k and nothing above
  counts; their records and snapshots are all there; the files that publish (transaction record,
  sidecars, CURRENT, manifest) may be behind k and behind each other, but each is that of a commit. So
  whatever a load without the lock combines, it takes one whole commit. `WindowInv`: the transaction
  record of k is there, or its writer is about to write it, or whoever works optimistically has k.
  `ManagerInv`: only who is in a section of the lock holds it (`SectionInv`), which operation is at
  which step (`KindInv`), a manifest in memory was published once (`ReadInv`), the commit under way is
  k + 1 until its marker and k afterwards (`BegunInv`), and recovery and repair write again what is
  there (`AgainInv`), a repair also while another manager commits, for it holds no lock.
  `CheckFindsLast` is the lemma the rest hangs on: under the lock, a conflict check that passes means
  that the manager's graph is commit k.
* MaintenanceProofs. `MaintenanceTypeCorrect` holds for every strategy. Under `AloneOnly` (lockStrategy
  startup; a WAL or snapshots; failures before durability only; a compaction without a WAL keeps at least two
  snapshots, for the reason in section 3) `MaintenanceStartFindsLastCommit`,
  `MaintenanceLazyPayloadsKept`, `MaintenanceBackupRestores` and `MaintenanceCommitsBuildOnTheLast`,
  for any number of managers, objects and LazyRefs, any crashes, and collections, compactions, backups
  and lazy writes at any time. `LoadsAsLast(d)` says of a set of files, the store's or a backup's, that it loads
  as the last commit; `FoundIs` shows that this is enough for `Found`. `AloneInv` keeps it true of the
  store while a commit writes (`WrittenInv`, `UnbornInv`, `DurableInv`), of what a collection will remove that it
  is not mentioned by the manifest in force (`CollectInv`), of what a compaction will remove that it
  is older than the last commit (`SweepInv`), and of a copy that each directory in it is what a start
  needs (`CopyInv`). The payloads need `Ready`: a LazyRef that the graph has and the last commit has
  not still has its value in memory, so that the next commit writes it. That a finite, non-empty set of ids has
  a maximum is proved without induction, from the well-foundedness of inclusion on finite sets.
* FileLockProofs. `LockTypeCorrect`, and under `Cautious` (at most one process breaks stale locks, the
  timeout is longer than any use of the lock, the token file can be read) `ValidHandleIsUnique` and
  `LockImplementsWriterLock`. `LockInv` says that who uses the lock file owns it, that a breaker about
  to remove a file faces one that is stale, and that tokens follow the counter. With two breakers the
  theorem is false (section 3); the other assumptions fail in the same way.
* RemoteLockProofs. `RemoteTypeCorrect`, and under its `Cautious` (one breaker, a timeout longer than
  any use; nothing about the counter) `RemoteHandleIsUnique`, `FencingTokensGrow` and
  `RemoteLockImplementsWriterLock`, for any mix of failing requests. Its invariant is about records:
  who acquires or holds owns the record, a record that a breaker removes is stale and nobody's, and the
  token a writer has drawn is above every granted one. The tokens of the WriterLock that it implements
  are the numbers of the grants, since the real tokens start over when the counter is lost; TokensGrow says that until then they grow with the grants.
* ManagerCallsProofs, for any calls of any kinds, nested and ordered in any way, any number of failures,
  retries and foreign commits, with or without a startup lock. `CallsTypeCorrect`; `SectionsExclude`;
  `ShutdownLeavesNoLock` (only sections hold locks, `HandleInv`); `FailureLeavesNoTrace` and
  `JoinedIsCommittedByItsHost` from `TraceInv`; `AcknowledgedStays` from `AckInv`. `TraceInv`: the edit
  of a call that has not begun, or is undone, is neither in the live root nor in the running section's
  copy for a rollback nor in the files, and that of a running section is not in its copy; a joined
  update counts with its transaction. `AckInv`: whoever knows the store's last transaction id has all
  acknowledged edits, in the root, in the copy and in the envelope, and whoever holds a valid lock knows
  it. The steps are first reduced to seven shapes (`StepShapes`), by which both invariants are proved.
  `VersionFitsRoot`, alone of these, needs an assumption, `[]MigrationsAlone`: no two migrateTo() calls
  are under way at once (section 5 says what happens without it). `SchemaInv`: each root fits the schema version kept beside it (the
  files, the live root, the copy), and the plan of a migration goes on, step by step, from the version in the store.

* GvqlStoreProofs, for any graph, statements, edits, constraints, index definitions and crashes.
  `GvqlGraphsStayWhole` (GvqlTypeOK): whatever SET, REMOVE, DELETE, CREATE and MERGE do, the live root
  and the envelope in the WAL have their root and no reference to an object that is not there.
  `GvqlUpdatesAreWhole` (CommittedUpdatesAreWhole): what an update changed in the live root is
  stored. Both come from `UpdateSound`, which goes through the clauses: after each, the graph is
  whole (`Whole`) and every node that differs is among the reported changes (`Reported`). DELETE is the
  hard one: it detaches by the parents that the index had before the statement, and SET and REMOVE of
  that statement must not have added a reference (`Tame`). `StoreInv` adds what the store needs: the
  durable graph is an envelope, at most one commit is pending, and it has an id to go to.
  `GvqlFieldsMeetConstraints`: no commit of a running store writes a field that is required and missing,
  or below min, or above max. `GvqlCommitsMeetConstraints` (CommitsMeetConstraints) is for constraints
  that are not unique: a unique one relates the objects written to those that are not (section 3).
  `GvqlStoredGraphIsClosed` and `GvqlSubtreesAreExact` (SubtreeIsTheBoundedReach) say that the
  committed graph has no reference to an object it does not list, and that the bounded load of it
  returns the objects within its depth and the references that leave them. They are about behaviours
  with `[][KeepsReferences]_vars`: a step that commits nothing, an edit that is not stored or an update
  that is refused, changes no reference of the live root. Every step of run gvql meets it, and section
  3 shows a state without it in which the theorem is false. `ClosedInv`: live root and committed graph
  agree on the references of the objects they share. `SubtreeReach` rests on the invariant of the queue
  (`Walked`): what is queued at depth d is what d references reach.
  All of these assume `BindingsAreLists`, that BindingsOf returns a sequence for every update.
  `SelectBindings` does by its construction, but GvqlExecutor recurses over expressions, so no theorem
  can be stated beside it.

Recursive functions on numbers (a selection from a list, one mutation per binding, the levels of a
graph, the queue of a load) are within reach: `SetInduction`, from the well-foundedness of the order of the
numbers, says that a set with 0 and all successors has all numbers, and the set is that of the n up to
which the function exists and satisfies the claim. Expressions and WHERE clauses are trees, and their
operators RECURSIVE; about those nothing can be proved here.

Only model-checked: the liveness properties (OperationsEnd, CallsEnd, StoreReopens), which need fairness
and ENABLED; the properties of Maintenance when managers share the store (strategy pessimistic), where
only MaintenanceTypeCorrect applies; and the properties of GVQL that depend on the planner, the
executor or the values of expressions (IndexedMatchesAreExact, PagesAndGroupsAddUp, MergeIsIdempotent,
PreviewNamesWhatChanges), which are compared with their reference definitions on every reachable graph
of the run instead.

## 5. Limits of the models

* The lock of GraphStore goes to one manager at once and only dead managers' locks (StaleLocks =
  "dead") or any lock ("live") are broken; an acquisition that fails after creating the lock file is
  in FileLock and RemoteLock only. GraphStore and the lock modules are not composed.
* In RemoteLock a request is one atomic step of the service, performed or not; a DELETE of SQL that is
  performed and reported as failed, and two INSERTs that collide, are among the outcomes. Encrypted
  targets delegate to the one they wrap.
* GraphStore and Maintenance have one operation at a time per process, and `shutdown` there is the end
  of the process: its memory is forgotten. ManagerCalls has the overlapping calls and the shutdown that
  does not wait, with a commit of two steps. `update` has no storeTarget.
* In ManagerCalls each call is made once, a callback awaits the calls it issues, and the edit of a call
  is one step at the start of its work. The two `migrateTo()` of run calls do not overlap: two that do
  plan the same step from the same version and apply it twice, and SchemaMatchesRoot is false.
  ForeignCommit stands for another manager's whole open, commit and close. What a mutator awaits that
  waits for its own manager's mutex never returns; such calls are not among those of the run.
* An update() that joins a transaction returns before anything is committed; AcknowledgedIsDurable and
  FailedCallsLeaveNoTrace leave it out, JoinedUpdatesShareTheFate says what it gets. put and gvql change
  the live root and leave the change there when their commit fails, so FailedCallsLeaveNoTrace leaves
  them out too.
* transactionLog, readCommittedWal and recoverCommittedWal are set together, as by default.
* A file is replaced atomically (temporary file and rename in the local target). An
  append to the journal is part of WriteTransactionRecord and never read back.
* The last step of a load in GraphStore reads the newest transaction record, the object records and CURRENT
  at one instant.
* In Maintenance a commit fails only before it is durable, a payload has no content, the application
  keeps the value of a LazyRef until it has committed it, a directory is copied at one instant and
  whole, one compaction runs at a time, and shutdown waits for operations. Where the
  store is shared nobody dies between the commit marker and the transaction record (run lost_commit).
* Records without a version, which older stores have, are not modelled.
* GVQL starts from parsed statements: only the precedence of AND, OR, NOT and parentheses is the
  parser's. Queries of the run avoid what the indexes are known to lose: `<` and `<=` over missing
  values on a range index, partial and typed definitions of advanced and full-text indexes, sparse
  ones other than the unique, `lower()` of a missing value, `= $unset`. docs/INDEXES.md:94 says that
  WHERE is applied afterwards, which does not bring back a row that is no candidate.
* In GvqlStore a commit is one step: it succeeds, is refused by a constraint, is interrupted after its
  WAL marker, or is refused by the unique index. indexes.consistency is "strict"; with "committed" an
  index rebuilt from a root that was never committed answers queries after a restart. A recovered
  commit publishes every object of its envelope, also values no constraint has seen, so
  CommitsMeetConstraints is about commits of a running manager. A preview of a SET on a node that is
  bound twice shows the first value both times; the statements of the run bind nodes once.

## 6. Not modelled

* `verify()`, safety and health reports as operations: read-only walks over files whose relevant
  conditions VerifyFindsNoError states; the rest is formatting.
* Listing, reading and writing in the storage targets, encryption, codecs and hashes: input and output,
  or bytes. The models take from them that a file is replaced whole or not at all.
* The serializer's special values, class registration and identity map, and the GVQL text parser:
  character by character conversions without state.
* Lazy lists, eviction and expiry of the cache: sequential code over values in memory.
* `migrateOnStart`, the housekeeping timer (its operations may begin whenever the mutex is free),
  index sidecars sharded over files and patched in place, joins of several relations in one mutation.
* Entry points and the NestJS module: construction and dependency injection.
* Whole-process composition: GraphStore with the lock modules, and with ManagerCalls. Each pair meets at
  a contract (WriterLock; a commit that is durable or not) that one side implements and the other uses;
  their product is beyond what TLC explores.

With more time: targeted stores of managers that share a store, where a manager's belief about which
records exist outlives the manifest it was read from; and the theorems of MaintenanceProofs for a shared
store without collection and backup, which would join SharedInv with LoadsAsLast.
