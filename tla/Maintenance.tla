---------------------------- MODULE Maintenance ----------------------------
(***************************************************************************)
(* The operations of a StorageManager that remove or copy files of the     *)
(* store: garbage collection, compaction and backup, and the lazy payloads *)
(* that are written outside the commit, against commits, crashes and       *)
(* starts.  The commit path is that of GraphStore with two abstractions:   *)
(* an object's record has no content, so that an envelope is the set of    *)
(* its object ids; and a lock is broken only when its holder is dead, so   *)
(* that the fences always pass and are left out.                           *)
(*                                                                         *)
(* Collection and backup hold the manager's AsyncMutex like a commit, the  *)
(* program counter; compaction and lazy references take no mutex and run   *)
(* beside it.  Collection and compaction do not take the storage lock.     *)
(***************************************************************************)
EXTENDS Integers, FiniteSets, FiniteSetsExt

CONSTANTS
    Managers,       \* the StorageManager instances, one per process
    Objects, Root,  \* the object ids, and the root's
    Lazies,         \* the objects that are LazyRefs, each with a payload file
    Options,        \* combinations of lockStrategy, transactionLog = "full" and writeSnapshots
    Ops,            \* what the application calls, by combination of options
    KeepLatest,     \* the argument of compact
    FailsAt,        \* control points at which the storage target may fail
    CrashAt,        \* control points at which a process may die, by combination of options
    NoOwner,        \* the value of lock when there is no lock file
    MaxTid          \* bound on transaction ids

Tids == 1..MaxTid
Strategies == {"startup", "pessimistic"}
Writes == {"records", "snapshot", "marker", "txn", "current", "manifest"}
Steps == Writes \cup {"down", "acquire", "recover", "loadManifest", "load", "idle", "check", "payloads",
    "commitState", "release", "gcManifest", "gcRecords", "gcRemove", "gcLazy", "gcRemoveLazy",
    "copy", "copied"}
Directories == {"records", "payloads", "wal", "latest", "snapshots", "current", "manifest"}

Envelopes == SUBSET Objects
Versions == UNION {[S -> Tids] : S \in SUBSET Objects}
NoVersions == [o \in {} |-> 1]
NoManifest == [tid |-> 0, vers |-> NoVersions]

ASSUME MaintenanceAssumptions ==
    /\ IsFiniteSet(Objects)
    /\ Root \in Objects
    /\ Lazies \subseteq Objects \ {Root}
    /\ Options \subseteq [strategy : Strategies, wal : BOOLEAN, snapshots : BOOLEAN]
    /\ Ops \in [Options -> SUBSET {"store", "lazy", "collect", "compact", "backup"}]
    /\ KeepLatest \in Nat
    /\ FailsAt \subseteq Steps
    /\ CrashAt \in [Options -> SUBSET Steps]
    /\ NoOwner \notin Managers
    /\ MaxTid \in Nat \ {0}

VARIABLES
    options,    \* the write options all managers of the store are opened with
    store,      \* the files of the storage target
    lock,       \* the manager whose token the lock file holds, or NoOwner
    pc,         \* where a manager is in the operation that holds its mutex
    held,       \* does it keep a lock handle?
    graph,      \* the objects its root reaches
    loaded,     \* its LazyRefs whose value is in memory
    tid, vers,  \* transactionId and persistedObjectVersions
    job,        \* the operation that holds the mutex
    sweep,      \* the compaction in progress
    (* observers *)
    committed,  \* the last durable commit
    base        \* the commit that a manager's graph was made from

memVars == <<graph, loaded, tid, vers>>
vars == <<options, store, lock, pc, held, memVars, job, sweep, committed, base>>

\* The object records as pairs of id and version; the payloads; the envelope of each
\* committed WAL entry and of each snapshot, {} if there is none; the newest
\* transaction record; CURRENT; the manifest.
EmptyStore == [records |-> {}, payloads |-> {}, wal |-> [t \in Tids |-> {}], latest |-> 0,
               snapshots |-> [t \in Tids |-> {}], current |-> 0, manifest |-> NoManifest]

\* job: the operation; whether its commit replays a WAL entry; id, envelope,
\* versions and ids still to write of its commit; the manifest it has read; the
\* files it will remove or directories it will copy; the copy.
NoJob == [kind |-> "none", replay |-> FALSE, t |-> 0, env |-> {}, vers |-> NoVersions,
          todo |-> {}, man |-> NoManifest, files |-> {}, copy |-> EmptyStore]
NoSweep == [step |-> "none", current |-> 0, files |-> {}]
Nothing == [tid |-> 0, env |-> {}]

-----------------------------------------------------------------------------
(* What a load finds in a store, or in the copy of one *)

Readable(d, man) == \A o \in DOMAIN man.vers : <<o, man.vers[o]>> \in d.records

\* Fault: the versions are those of the transaction before.
AllBefore(env, t) == [o \in env |-> t - 1]

AllAt(env, t) == [o \in env |-> t]

PendingWal(d) == {t \in Tids : d.wal[t] # {} /\ (d.manifest.tid < t \/ d.latest < t)}

\* The commit that a start would find after recovery.
Found(d) ==
    IF PendingWal(d) # {}
    THEN LET t == Max(PendingWal(d)) IN [tid |-> t, env |-> d.wal[t]]
    ELSE IF d.manifest.tid > 0 /\ d.latest <= d.manifest.tid /\ Readable(d, d.manifest)
         THEN [tid |-> d.manifest.tid, env |-> DOMAIN d.manifest.vers]
    ELSE IF d.current > 0 THEN [tid |-> d.current, env |-> d.snapshots[d.current]]
    ELSE Nothing

-----------------------------------------------------------------------------
(* Locking and the end of operations *)

Goto(m, step) == pc' = [pc EXCEPT ![m] = step]

Forget(m) ==
    /\ Goto(m, "down")
    /\ held' = [held EXCEPT ![m] = FALSE]
    /\ graph' = [graph EXCEPT ![m] = {Root}]
    /\ loaded' = [loaded EXCEPT ![m] = {}]
    /\ tid' = [tid EXCEPT ![m] = 0]
    /\ vers' = [vers EXCEPT ![m] = NoVersions]
    /\ job' = [job EXCEPT ![m] = NoJob]
    /\ sweep' = [sweep EXCEPT ![m] = NoSweep]

Locked(kind) ==
    IF kind # "store" THEN "recover" ELSE IF options.strategy = "startup" THEN "payloads" ELSE "check"

\* Fault: a backup copies without the lock.
UnlockedBackup(m, kind) == Goto(m, IF held[m] \/ kind = "backup" THEN Locked(kind) ELSE "acquire")

WithWriteLock(m, kind) == Goto(m, IF held[m] THEN Locked(kind) ELSE "acquire")

Finished(m) == IF held[m] /\ options.strategy # "startup" THEN "release" ELSE "idle"

Finish(m) ==
    /\ Goto(m, Finished(m))
    /\ job' = [job EXCEPT ![m] = NoJob]

Throw(m) ==
    IF job[m].kind \in {"start", "repair"}
    THEN /\ Forget(m)
         /\ lock' = IF options.strategy # "startup" /\ held[m] /\ lock = m THEN NoOwner ELSE lock
         /\ UNCHANGED <<options, store, committed, base>>
    ELSE /\ Finish(m)
         /\ UNCHANGED <<options, store, lock, held, memVars, sweep, committed, base>>

Acquire(m) ==
    /\ pc[m] = "acquire"
    /\ lock # NoOwner => ~held[lock]
    /\ lock' = m
    /\ held' = [held EXCEPT ![m] = TRUE]
    /\ Goto(m, Locked(job[m].kind))
    /\ UNCHANGED <<options, store, memVars, job, sweep, committed, base>>

AcquireTimeout(m) ==
    /\ pc[m] = "acquire"
    /\ lock # NoOwner
    /\ Throw(m)

Release(m) ==
    /\ pc[m] = "release"
    /\ lock' = IF lock = m THEN NoOwner ELSE lock
    /\ held' = [held EXCEPT ![m] = FALSE]
    /\ Goto(m, IF job[m].kind = "start" THEN "loadManifest" ELSE "idle")
    /\ UNCHANGED <<options, store, memVars, job, sweep, committed, base>>

-----------------------------------------------------------------------------
(* start() and recovery *)

Start(m) ==
    /\ pc[m] = "down"
    /\ job' = [job EXCEPT ![m].kind = "start"]
    /\ Goto(m, IF options.wal \/ options.strategy = "startup" THEN "acquire" ELSE "loadManifest")
    /\ UNCHANGED <<options, store, lock, held, memVars, sweep, committed, base>>

\* start and backup publish the committed WAL entries in order.
Recover(m) ==
    LET pending == IF options.wal THEN PendingWal(store) ELSE {} IN
    /\ pc[m] = "recover"
    /\ \/ /\ pending = {}
          /\ IF job[m].kind = "backup"
             THEN /\ Goto(m, "copy")
                  /\ job' = [job EXCEPT ![m].files = Directories]
             ELSE /\ Goto(m, IF options.strategy = "startup" THEN "loadManifest" ELSE "release")
                  /\ UNCHANGED job
       \/ \E t \in pending :
          /\ \A u \in pending : t <= u
          /\ job' = [job EXCEPT ![m].replay = TRUE, ![m].t = t, ![m].env = store.wal[t],
                                ![m].vers = AllAt(store.wal[t], t), ![m].todo = store.wal[t]]
          /\ Goto(m, "records")
    /\ UNCHANGED <<options, store, lock, held, memVars, sweep, committed, base>>

LoadManifest(m) ==
    /\ pc[m] = "loadManifest"
    /\ job' = [job EXCEPT ![m].man = store.manifest]
    /\ Goto(m, "load")
    /\ UNCHANGED <<options, store, lock, held, memVars, sweep, committed, base>>

\* A graph that was loaded holds its LazyRefs without their values.
Adopt(m, env, t, versions) ==
    /\ graph' = [graph EXCEPT ![m] = env]
    /\ tid' = [tid EXCEPT ![m] = t]
    /\ vers' = [vers EXCEPT ![m] = versions]
    /\ base' = [base EXCEPT ![m] = t]
    /\ UNCHANGED <<options, store, lock, held, loaded, sweep, committed>>

AdoptAndFinish(m, env, t, versions) ==
    /\ Adopt(m, env, t, versions)
    /\ Goto(m, "idle")
    /\ job' = [job EXCEPT ![m] = NoJob]

\* A start from a snapshot rewrites the object store from it.
AdoptAndRepair(m, env, t) ==
    /\ Adopt(m, env, t, AllAt(env, t))
    /\ Goto(m, "records")
    /\ job' = [job EXCEPT ![m].kind = "repair", ![m].t = t, ![m].env = env,
                          ![m].vers = AllAt(env, t), ![m].todo = env]

Load(m) ==
    LET man == job[m].man
        last == Max({0} \cup {t \in Tids : store.wal[t] # {}})
    IN
    /\ pc[m] = "load"
    /\ IF last > man.tid
       THEN AdoptAndFinish(m, store.wal[last], last, AllAt(store.wal[last], last))
       ELSE IF man.tid > 0 /\ store.latest <= man.tid /\ Readable(store, man)
       THEN AdoptAndFinish(m, DOMAIN man.vers, man.tid, man.vers)
       ELSE IF store.current = 0 THEN AdoptAndFinish(m, {Root}, 0, NoVersions)
       ELSE IF store.snapshots[store.current] = {} THEN Throw(m)
       ELSE AdoptAndRepair(m, store.snapshots[store.current], store.current)

-----------------------------------------------------------------------------
(* The application's graph and its lazy references *)

Started(m) == pc[m] # "down" /\ job[m].kind \notin {"start", "repair"}

\* An object is dropped, or added; a LazyRef is added with its value.  Maintenance
\* does not read the graph, so that changes between operations are enough.
Edit(m) ==
    /\ pc[m] = "idle"
    /\ \E o \in Objects \ {Root} :
          \/ o \in graph[m] /\ graph' = [graph EXCEPT ![m] = @ \ {o}]
          \/ /\ o \notin graph[m]
             /\ o \in Lazies => o \in loaded[m]
             /\ graph' = [graph EXCEPT ![m] = @ \cup {o}]
    /\ UNCHANGED <<options, store, lock, pc, held, loaded, tid, vers, job, sweep, committed, base>>

\* The payload is written at once, whatever the manager is doing.
CreateLazyRef(m) ==
    /\ "lazy" \in Ops[options]
    /\ Started(m)
    /\ \E o \in Lazies :
          /\ store' = [store EXCEPT !.payloads = @ \cup {o}]
          /\ loaded' = [loaded EXCEPT ![m] = @ \cup {o}]
    /\ UNCHANGED <<options, lock, pc, held, graph, tid, vers, job, sweep, committed, base>>

\* A LazyRef of the graph is read.
LoadLazyRef(m) ==
    /\ "lazy" \in Ops[options]
    /\ Started(m)
    /\ \E o \in (graph[m] \cap Lazies \cap store.payloads) \ loaded[m] :
          loaded' = [loaded EXCEPT ![m] = @ \cup {o}]
    /\ UNCHANGED <<options, store, lock, pc, held, graph, tid, vers, job, sweep, committed, base>>

\* The application lets go of a value whose LazyRef it has committed.
ClearLazyRef(m) ==
    /\ "lazy" \in Ops[options]
    /\ Started(m)
    /\ \E o \in loaded[m] \cap DOMAIN vers[m] : loaded' = [loaded EXCEPT ![m] = @ \ {o}]
    /\ UNCHANGED <<options, store, lock, pc, held, graph, tid, vers, job, sweep, committed, base>>

-----------------------------------------------------------------------------
(* Commits *)

BeginStore(m) ==
    /\ pc[m] = "idle"
    /\ "store" \in Ops[options]
    /\ tid[m] < MaxTid
    /\ \E requested \in SUBSET graph[m] :
          job' = [job EXCEPT ![m].kind = "store", ![m].todo = IF requested = {} THEN {Root} ELSE requested]
    /\ WithWriteLock(m, "store")
    /\ UNCHANGED <<options, store, lock, held, memVars, sweep, committed, base>>

CheckConflict(m) ==
    /\ pc[m] = "check"
    /\ IF Max({store.manifest.tid, store.latest}) = tid[m]
       THEN /\ Goto(m, "payloads")
            /\ UNCHANGED <<options, store, lock, held, memVars, job, sweep, committed, base>>
       ELSE Throw(m)

\* Fault: the payloads are left to createLazyRef.
NoPayloads(m) == {}

\* The values in memory are written before the graph that mentions them.
StoredPayloads(m) == loaded[m] \cap graph[m]

StoreLazyRefs(m) ==
    LET env == graph[m]
        t == tid[m] + 1
        written == job[m].todo \cup (env \ DOMAIN vers[m])
    IN
    /\ pc[m] = "payloads"
    /\ store' = [store EXCEPT !.payloads = @ \cup StoredPayloads(m)]
    /\ job' = [job EXCEPT ![m].t = t, ![m].env = env, ![m].todo = written,
                          ![m].vers = [o \in env |-> IF o \in written THEN t ELSE vers[m][o]]]
    /\ Goto(m, "records")
    /\ UNCHANGED <<options, lock, held, memVars, sweep, committed, base>>

AfterSnapshot(m) == IF options.wal /\ ~job[m].replay THEN "marker" ELSE "txn"

AfterRecords(m) ==
    IF job[m].kind = "repair" THEN "manifest"
    ELSE IF options.snapshots THEN "snapshot" ELSE AfterSnapshot(m)

WriteObjectRecords(m) ==
    /\ pc[m] = "records"
    /\ \E o \in job[m].todo :
          /\ store' = [store EXCEPT !.records = @ \cup {<<o, job[m].t>>}]
          /\ job' = [job EXCEPT ![m].todo = @ \ {o}]
          /\ Goto(m, IF job[m].todo = {o} THEN AfterRecords(m) ELSE "records")
    /\ UNCHANGED <<options, lock, held, memVars, sweep, committed, base>>

\* The write after which a start finds the commit.
DurableStep == IF options.wal THEN "marker" ELSE IF options.snapshots THEN "current" ELSE "manifest"

\* A write of the commit, and the step that follows it.
Write(m, step, files, next) ==
    /\ pc[m] = step
    /\ store' = files
    /\ committed' = IF step = DurableStep /\ job[m].kind = "store"
                    THEN [tid |-> job[m].t, env |-> job[m].env] ELSE committed
    /\ Goto(m, next)
    /\ base' = IF step = DurableStep /\ job[m].kind = "store" THEN [base EXCEPT ![m] = job[m].t] ELSE base
    /\ UNCHANGED <<options, lock, held, memVars, job, sweep>>

WriteSnapshot(m) ==
    Write(m, "snapshot", [store EXCEPT !.snapshots[job[m].t] = job[m].env], AfterSnapshot(m))

\* The WAL prepare and its commit marker: the former is not read without the
\* latter.  (CrashAt must not leave a marker under an id that is used again.)
WriteWalCommit(m) == Write(m, "marker", [store EXCEPT !.wal[job[m].t] = job[m].env], "txn")

WriteTransactionRecord(m) ==
    Write(m, "txn", [store EXCEPT !.latest = Max({@, job[m].t})],
          IF options.snapshots THEN "current" ELSE "manifest")

WriteCurrent(m) == Write(m, "current", [store EXCEPT !.current = job[m].t], "manifest")

WriteManifest(m) ==
    Write(m, "manifest", [store EXCEPT !.manifest = [tid |-> job[m].t, vers |-> job[m].vers]], "commitState")

\* For a repair this repeats what start() has set.
CommitState(m) ==
    /\ pc[m] = "commitState"
    /\ tid' = [tid EXCEPT ![m] = job[m].t]
    /\ vers' = [vers EXCEPT ![m] = job[m].vers]
    /\ IF job[m].replay
       THEN /\ Goto(m, "recover")
            /\ job' = [job EXCEPT ![m] = [NoJob EXCEPT !.kind = job[m].kind]]
       ELSE Finish(m)
    /\ UNCHANGED <<options, store, lock, held, graph, loaded, sweep, committed, base>>


-----------------------------------------------------------------------------
(* Garbage collection: it holds the mutex, not the storage lock *)

BeginCollect(m) ==
    /\ pc[m] = "idle"
    /\ "collect" \in Ops[options]
    /\ job' = [job EXCEPT ![m].kind = "collect"]
    /\ Goto(m, "gcManifest")
    /\ UNCHANGED <<options, store, lock, held, memVars, sweep, committed, base>>

CollectManifest(m) ==
    /\ pc[m] = "gcManifest"
    /\ IF store.manifest.tid = 0
       THEN Finish(m)
       ELSE /\ job' = [job EXCEPT ![m].man = store.manifest]
            /\ Goto(m, "gcRecords")
    /\ UNCHANGED <<options, store, lock, held, memVars, sweep, committed, base>>

\* Fault: only what the last commit has written is live.
NewRecords(man) == {<<o, man.tid>> : o \in DOMAIN man.vers}

LiveRecords(man) == {<<o, man.vers[o]>> : o \in DOMAIN man.vers}

LiveLazies(man) == DOMAIN man.vers \cap Lazies

\* The envelope is read first, and an unreadable one ends the collection; then
\* the records are listed.
CollectRecords(m) ==
    /\ pc[m] = "gcRecords"
    /\ IF Readable(store, job[m].man)
       THEN /\ job' = [job EXCEPT ![m].files = store.records \ LiveRecords(job[m].man)]
            /\ Goto(m, "gcRemove")
            /\ UNCHANGED <<options, store, lock, held, memVars, sweep, committed, base>>
       ELSE Throw(m)

RemoveRecord(m) ==
    /\ pc[m] = "gcRemove"
    /\ \E file \in job[m].files :
          /\ store' = [store EXCEPT !.records = @ \ {file}]
          /\ job' = [job EXCEPT ![m].files = @ \ {file}]
    /\ UNCHANGED <<options, lock, pc, held, memVars, sweep, committed, base>>

CollectLazies(m) ==
    /\ pc[m] = "gcRemove"
    /\ job[m].files = {}
    /\ job' = [job EXCEPT ![m].files = store.payloads \ LiveLazies(job[m].man)]
    /\ Goto(m, "gcRemoveLazy")
    /\ UNCHANGED <<options, store, lock, held, memVars, sweep, committed, base>>

RemovePayload(m) ==
    /\ pc[m] = "gcRemoveLazy"
    /\ \E o \in job[m].files :
          /\ store' = [store EXCEPT !.payloads = @ \ {o}]
          /\ job' = [job EXCEPT ![m].files = @ \ {o}]
    /\ UNCHANGED <<options, lock, pc, held, memVars, sweep, committed, base>>

EndCollect(m) ==
    /\ pc[m] = "gcRemoveLazy"
    /\ job[m].files = {}
    /\ Finish(m)
    /\ UNCHANGED <<options, store, lock, held, memVars, sweep, committed, base>>

-----------------------------------------------------------------------------
(* Compaction: it holds nothing and runs beside the other operations *)

BeginCompact(m) ==
    /\ "compact" \in Ops[options]
    /\ Started(m)
    /\ sweep[m].step = "none"
    /\ store.current > 0
    /\ sweep' = [sweep EXCEPT ![m] = [step |-> "list", current |-> store.current, files |-> {}]]
    /\ UNCHANGED <<options, store, lock, pc, held, memVars, job, committed, base>>

\* Fault: the newest snapshots are kept, whether CURRENT names one of them or not.
KeptByAge(snapshots, current) == {t \in snapshots : \A u \in snapshots : u <= t}

KeptSnapshots(snapshots, current) ==
    {t \in snapshots : Cardinality({u \in snapshots : u > t}) < KeepLatest} \cup {current}

ListSnapshots(m) ==
    LET snapshots == {t \in Tids : store.snapshots[t] # {}} IN
    /\ sweep[m].step = "list"
    /\ sweep' = [sweep EXCEPT ![m].step = "remove",
                              ![m].files = snapshots \ KeptSnapshots(snapshots, sweep[m].current)]
    /\ UNCHANGED <<options, store, lock, pc, held, memVars, job, committed, base>>

RemoveSnapshot(m) ==
    /\ sweep[m].step = "remove"
    /\ \E t \in sweep[m].files :
          /\ store' = [store EXCEPT !.snapshots[t] = {}]
          /\ sweep' = [sweep EXCEPT ![m].files = @ \ {t}]
    /\ UNCHANGED <<options, lock, pc, held, memVars, job, committed, base>>

EndCompact(m) ==
    /\ sweep[m].step = "remove"
    /\ sweep[m].files = {}
    /\ sweep' = [sweep EXCEPT ![m] = NoSweep]
    /\ UNCHANGED <<options, store, lock, pc, held, memVars, job, committed, base>>

-----------------------------------------------------------------------------
(* Backup: it holds the mutex and the storage lock, and recovers the WAL first *)

BeginBackup(m) ==
    /\ pc[m] = "idle"
    /\ "backup" \in Ops[options]
    /\ job' = [job EXCEPT ![m].kind = "backup"]
    /\ WithWriteLock(m, "backup")
    /\ UNCHANGED <<options, store, lock, held, memVars, sweep, committed, base>>

\* The file of the store that a directory holds, or all its files.
CopyDirectory(m) ==
    /\ pc[m] = "copy"
    /\ \E d \in job[m].files :
          /\ job' = [job EXCEPT ![m].copy[d] = store[d], ![m].files = @ \ {d}]
          /\ Goto(m, IF job[m].files = {d} THEN "copied" ELSE "copy")
    /\ UNCHANGED <<options, store, lock, held, memVars, sweep, committed, base>>

EndBackup(m) ==
    /\ pc[m] = "copied"
    /\ Finish(m)
    /\ UNCHANGED <<options, store, lock, held, memVars, sweep, committed, base>>

-----------------------------------------------------------------------------
(* Failures, and the specification *)

\* The storage target rejects the call that the operation awaits.
TargetFails(m) ==
    /\ pc[m] \in FailsAt
    /\ Throw(m)

\* A process dies with all its operations.
Crash(m) ==
    /\ pc[m] \in CrashAt[options]
    /\ Forget(m)
    /\ UNCHANGED <<options, store, lock, committed, base>>

Shutdown(m) ==
    /\ pc[m] = "idle"
    /\ sweep[m] = NoSweep
    /\ Forget(m)
    /\ lock' = IF held[m] /\ lock = m THEN NoOwner ELSE lock
    /\ UNCHANGED <<options, store, committed, base>>

Init ==
    /\ options \in Options
    /\ store = EmptyStore
    /\ lock = NoOwner
    /\ pc = [m \in Managers |-> "down"]
    /\ held = [m \in Managers |-> FALSE]
    /\ graph = [m \in Managers |-> {Root}]
    /\ loaded = [m \in Managers |-> {}]
    /\ tid = [m \in Managers |-> 0]
    /\ vers = [m \in Managers |-> NoVersions]
    /\ job = [m \in Managers |-> NoJob]
    /\ sweep = [m \in Managers |-> NoSweep]
    /\ committed = Nothing
    /\ base = [m \in Managers |-> 0]

Next == \E m \in Managers :
    \/ Start(m) \/ Acquire(m) \/ AcquireTimeout(m) \/ Release(m)
    \/ Recover(m) \/ LoadManifest(m) \/ Load(m)
    \/ Edit(m) \/ CreateLazyRef(m) \/ LoadLazyRef(m) \/ ClearLazyRef(m)
    \/ BeginStore(m) \/ CheckConflict(m) \/ StoreLazyRefs(m) \/ WriteObjectRecords(m)
    \/ WriteSnapshot(m) \/ WriteWalCommit(m) \/ WriteTransactionRecord(m)
    \/ WriteCurrent(m) \/ WriteManifest(m) \/ CommitState(m)
    \/ BeginCollect(m) \/ CollectManifest(m) \/ CollectRecords(m) \/ RemoveRecord(m)
    \/ CollectLazies(m) \/ RemovePayload(m) \/ EndCollect(m)
    \/ BeginCompact(m) \/ ListSnapshots(m) \/ RemoveSnapshot(m) \/ EndCompact(m)
    \/ BeginBackup(m) \/ CopyDirectory(m) \/ EndBackup(m)
    \/ TargetFails(m) \/ Crash(m) \/ Shutdown(m)

Spec == Init /\ [][Next]_vars

-----------------------------------------------------------------------------
(* Properties *)

Manifests == [tid : 0..MaxTid, vers : Versions]

Stores == [records : SUBSET (Objects \X Tids), payloads : SUBSET Lazies, wal : [Tids -> Envelopes],
           latest : 0..MaxTid, snapshots : [Tids -> Envelopes], current : 0..MaxTid, manifest : Manifests]

\* Every variable keeps the shape of the file or field it stands for.
MaintenanceTypeOK ==
    /\ options \in Options
    /\ store \in Stores
    /\ lock \in Managers \cup {NoOwner}
    /\ pc \in [Managers -> Steps]
    /\ held \in [Managers -> BOOLEAN]
    /\ graph \in [Managers -> Envelopes]
    /\ loaded \in [Managers -> SUBSET Lazies]
    /\ tid \in [Managers -> 0..MaxTid]
    /\ vers \in [Managers -> Versions]
    /\ \A m \in Managers :
          /\ job[m].kind \in {"none", "start", "repair", "store", "collect", "backup"}
          /\ job[m].env \in Envelopes /\ job[m].vers \in Versions
          /\ job[m].t \in 0..MaxTid /\ job[m].man \in Manifests /\ job[m].copy \in Stores
          /\ sweep[m].step \in {"none", "list", "remove"} /\ sweep[m].files \subseteq Tids
    /\ committed \in [tid : 0..MaxTid, env : Envelopes]
    /\ base \in [Managers -> 0..MaxTid]

\* Whatever collection and compaction have removed, and wherever a process has
\* died in them or in a commit, a start finds the last durable commit with all
\* its records, or the snapshot that stands in for them.
StartFindsLastCommit == Found(store) = committed

\* The payload of each LazyRef that a start would find is there.
LazyPayloadsKept == committed.env \cap Lazies \subseteq store.payloads

\* A backup loads as the commit that was the last one, payloads included,
\* although lazy references are written and snapshots removed while it copies.
BackupRestores == \A m \in Managers : pc[m] = "copied" =>
    /\ Found(job[m].copy) = committed
    /\ committed.env \cap Lazies \subseteq job[m].copy.payloads

\* The conflict check ("Store changed concurrently"): a commit is made from the
\* graph of the commit before it, never from an older one.
CommitsBuildOnTheLast ==
    [][committed' # committed =>
         \E m \in Managers : base'[m] = committed'.tid /\ base[m] = committed.tid]_vars
=============================================================================
