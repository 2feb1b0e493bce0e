---------------------------- MODULE ManagerCalls ----------------------------
(***************************************************************************)
(* The asynchronous calls of one process on one StorageManager.            *)
(*                                                                         *)
(* Every storing call queues on the manager's AsyncMutex; the section it   *)
(* then runs is suspended at each await, so the application issues other   *)
(* calls in the meantime.  What these share is not protected by the mutex  *)
(* alone: the live root (which the application edits directly), the        *)
(* transactionDepth that decides, BEFORE the mutex, whether update() joins *)
(* a transaction, the schema version that migrateTo() plans from, and the  *)
(* startup lock that shutdown() releases.                                  *)
(*                                                                         *)
(* The content of a root is the set of the calls whose edits it holds and, *)
(* for each schema migration, how often it has been applied.  A commit is  *)
(* two steps, serialising and publishing; its files, and the failures      *)
(* between them, are the subject of GraphStore.                            *)
(***************************************************************************)
EXTENDS Integers, Sequences, FiniteSets

CONSTANTS Calls,          \* the calls the application makes
          Kind,           \* [Calls -> Kinds]
          Parent,         \* the call whose callback issues and awaits this one, or NoCall
          After,          \* the call the application awaits before it issues this one, or NoCall
          Target,         \* the version a migrateTo() call asks for
          Migrations,     \* the versions that have a migration
          InitialVersion, \* the schema version of the store at the start
          MaxRetries,     \* bound: attempts of an optimistic transaction
          MaxForeign,     \* bound: commits of another process
          MaxFailures,    \* bound: calls that fail by themselves
          Startup,        \* TRUE: lockStrategy "startup"
          MayShutdown,    \* TRUE: the application may call shutdown()
          NoCall

Kinds == {"put", "update", "pessimistic", "optimistic", "gvql", "migrate", "collect"}
Transactional == {"pessimistic", "optimistic", "migrate"}
Foreign == "foreign"

ASSUME CallsAssumption ==
    /\ Kind \in [Calls -> Kinds]
    /\ Parent \in [Calls -> Calls \cup {NoCall}] /\ After \in [Calls -> Calls \cup {NoCall}]
    /\ NoCall \notin Calls /\ Foreign \notin Calls
    /\ \A c \in Calls : Kind[c] = "migrate" => Target[c] \in Nat
    /\ Migrations \subseteq Nat \ {0} /\ InitialVersion \in Nat
    /\ MaxRetries \in Nat \ {0} /\ MaxForeign \in Nat /\ MaxFailures \in Nat
    /\ Startup \in BOOLEAN /\ MayShutdown \in BOOLEAN

VARIABLES chain,          \* AsyncMutex: the callers whose promise is unresolved, in order
          pc, outcome,    \* of each call
          root,           \* rootValue
          schemaVersion, transactionId, transactionDepth, started,
          lockHandle,     \* TRUE while the manager refers to its startup lock
          startupLock,    \* TRUE while the target holds the startup lock
          handle,         \* the write lock a call's section uses
          rollback,       \* what the running section restores when it fails
          envelope,       \* what the running section has serialised
          host,           \* the transaction an update() joined
          plan, attempt,  \* of a migrateTo() and of an optimistic transaction
          durable,        \* what the store's files hold
          foreignCommits

callVars == <<pc, outcome, host, plan, attempt>>
liveVars == <<root, schemaVersion, transactionId, transactionDepth>>
lockVars == <<started, lockHandle, startupLock>>
vars == <<chain, callVars, liveVars, lockVars, handle, rollback, envelope, durable, foreignCommits>>

Live == [root |-> root, schema |-> schemaVersion]
Edited(r, c) == [r EXCEPT !.edits = @ \cup {c}]

-----------------------------------------------------------------------------
(* Schema migration plans. *)

Step(v, from, to) == [version |-> v, from |-> from, to |-> to]

UpPlan(current, target) ==
    [i \in 1..(target - current) |-> Step(current + i, current + i - 1, current + i)]

DownPlan(current, target) ==
    [i \in 1..(current - target) |-> Step(current - i + 1, current - i + 1, current - i)]

MigrationPlan(current, target) ==
    IF target > current THEN UpPlan(current, target) ELSE DownPlan(current, target)

\* requireMigration throws for a version of the plan without a migration.
PlanExists(p) == \A i \in DOMAIN p : p[i].version \in Migrations

\* What the up or down callback does to a root.
Migrated(r, s) ==
    [r EXCEPT !.applied[s.version] = IF s.to > s.from THEN @ + 1 ELSE @ - 1]
-----------------------------------------------------------------------------
Init ==
    LET r == [edits |-> {}, applied |-> [v \in Migrations |-> IF v <= InitialVersion THEN 1 ELSE 0]]
    IN  /\ chain = <<>>
        /\ pc = [c \in Calls |-> "idle"] /\ outcome = [c \in Calls |-> "none"]
        /\ host = [c \in Calls |-> NoCall]
        /\ plan = [c \in Calls |-> <<>>] /\ attempt = [c \in Calls |-> 0]
        /\ root = r /\ schemaVersion = InitialVersion
        /\ transactionId = 1 /\ transactionDepth = 0
        /\ started = TRUE /\ lockHandle = Startup /\ startupLock = Startup
        /\ handle = [c \in Calls |-> "none"]
        /\ rollback = [root |-> r, schema |-> InitialVersion] /\ envelope = r
        /\ durable = [root |-> r, schema |-> InitialVersion, txn |-> 1]
        /\ foreignCommits = 0

Ends(c, result) == /\ pc' = [pc EXCEPT ![c] = "done"]
                   /\ outcome' = [outcome EXCEPT ![c] = result]

\* AsyncMutex.runExclusive: a caller takes the tail, and runs once every
\* earlier caller has released.
TakeTail(c) == chain' = Append(chain, c)
\* Mutant: a caller does not wait for the promise before its own.
TurnOfAnyone(c) == pc[c] = "queued"
Turn(c) == pc[c] = "queued" /\ chain # <<>> /\ Head(chain) = c
Release == chain' = Tail(chain)
\* A callback, a validator or a write may throw.
MayThrow == Cardinality({c \in Calls : outcome[c] = "failed"}) < MaxFailures
-----------------------------------------------------------------------------
(* Issuing a call: what it does before it waits for the mutex. *)

MayIssue(c) ==
    /\ pc[c] = "idle"
    /\ Parent[c] # NoCall => pc[Parent[c]] = "working"
    /\ After[c] # NoCall => pc[After[c]] = "done"

\* assertStarted, and for a call that commits assertOutsideTransaction.
RejectCall(c) ==
    /\ MayIssue(c)
    /\ \/ ~started
       \/ transactionDepth > 0 /\ Kind[c] \in {"put", "gvql", "migrate"}
       \/ Kind[c] = "migrate" /\ ~PlanExists(MigrationPlan(schemaVersion, Target[c]))
    /\ Ends(c, "rejected")
    \* PersistentCache.set has changed the map before store() throws
    /\ root' = IF Kind[c] = "put" /\ started THEN Edited(root, c) ELSE root
    /\ UNCHANGED <<chain, host, plan, attempt, schemaVersion, transactionId, transactionDepth,
                   lockVars, handle, rollback, envelope, durable, foreignCommits>>

\* update() while a transaction's work is suspended: the mutator runs at once
\* on the shared root, and nothing undoes what it did if it throws.
JoinTransaction(c) ==
    /\ MayIssue(c) /\ started /\ Kind[c] = "update" /\ transactionDepth > 0
    /\ Ends(c, "ok") \/ (MayThrow /\ Ends(c, "failed"))
    /\ root' = Edited(root, c)
    /\ host' = [host EXCEPT ![c] = Head(chain)]
    /\ UNCHANGED <<chain, plan, attempt, schemaVersion, transactionId, transactionDepth,
                   lockVars, handle, rollback, envelope, durable, foreignCommits>>

PutEdit(c) == root' = IF Kind[c] = "put" THEN Edited(root, c) ELSE root

IssueCall(c) ==
    /\ MayIssue(c) /\ started /\ Kind[c] # "migrate"
    /\ Kind[c] \in {"put", "update", "gvql"} => transactionDepth = 0
    /\ pc' = [pc EXCEPT ![c] = "queued"] /\ TakeTail(c)
    /\ attempt' = [attempt EXCEPT ![c] = 1]
    /\ PutEdit(c)
    /\ UNCHANGED <<outcome, host, plan, schemaVersion, transactionId, transactionDepth,
                   lockVars, handle, rollback, envelope, durable, foreignCommits>>

\* migrateTo(): the plan is computed now, from the version loaded now.
MigrateTo(c) ==
    LET p == MigrationPlan(schemaVersion, Target[c])
    IN  /\ MayIssue(c) /\ started /\ Kind[c] = "migrate" /\ transactionDepth = 0 /\ PlanExists(p)
        /\ plan' = [plan EXCEPT ![c] = p]
        /\ IF p = <<>> THEN Ends(c, "ok") /\ chain' = chain
                       ELSE /\ pc' = [pc EXCEPT ![c] = "queued"] /\ TakeTail(c)
                            /\ outcome' = outcome
        /\ UNCHANGED <<host, attempt, liveVars, lockVars, handle, rollback, envelope, durable,
                       foreignCommits>>
-----------------------------------------------------------------------------
(* The section a call runs when the mutex is its own. *)

\* withWriteLock: the startup lock if the manager refers to one, else a lock
\* for this section.
TakesLock(c) == handle' = [handle EXCEPT ![c] = IF lockHandle THEN "startup" ELSE "own"]
\* Mutant: the lock of the section is not released.
KeepsLock(c) == handle' = handle
LeavesLock(c) == handle' = [handle EXCEPT ![c] = "none"]
Valid(c) == handle[c] = "own" \/ (handle[c] = "startup" /\ startupLock)

\* Mutant: a store never compares the store's transaction with its own.
NoConflict == FALSE
\* writeWithConflictCheck skips the check under a startup lock.
Conflict == ~lockHandle /\ durable.txn # transactionId

\* Mutants of Fails: no rollback, no rollback of the schema version, the mutex
\* not released in a finally block.
FailsWithoutRollback(c) ==
    /\ Ends(c, "failed") /\ Release /\ LeavesLock(c) /\ UNCHANGED <<root, schemaVersion>>

FailsKeepingTheVersion(c) ==
    /\ Ends(c, "failed") /\ Release /\ LeavesLock(c) /\ UNCHANGED schemaVersion
    /\ root' = IF Kind[c] \in {"put", "gvql"} THEN root ELSE rollback.root

FailsInsideTheMutex(c) ==
    /\ Ends(c, "failed") /\ chain' = chain /\ LeavesLock(c)
    /\ IF Kind[c] \in {"put", "gvql"}
          THEN UNCHANGED <<root, schemaVersion>>
          ELSE root' = rollback.root /\ schemaVersion' = rollback.schema

\* The section of c throws.  Every kind but put and gvql restores the root it
\* cloned.
Fails(c) ==
    /\ Ends(c, "failed") /\ Release /\ LeavesLock(c)
    /\ IF Kind[c] \in {"put", "gvql"}
          THEN UNCHANGED <<root, schemaVersion>>
          ELSE root' = rollback.root /\ schemaVersion' = rollback.schema

BeginStore(c) ==
    /\ Turn(c) /\ Kind[c] = "put"
    /\ IF Conflict THEN Fails(c)
                   ELSE /\ pc' = [pc EXCEPT ![c] = "storing"] /\ TakesLock(c)
                        /\ UNCHANGED <<chain, outcome, root, schemaVersion>>
    /\ UNCHANGED <<host, plan, attempt, transactionId, transactionDepth, lockVars, rollback,
                   envelope, durable, foreignCommits>>

\* A mutating gvql() replaces the live root before it stores.
BeginGvql(c) ==
    /\ Turn(c) /\ Kind[c] = "gvql"
    /\ IF Conflict THEN Fails(c) /\ UNCHANGED envelope
                   ELSE /\ pc' = [pc EXCEPT ![c] = "publishing"] /\ TakesLock(c)
                        /\ root' = Edited(root, c) /\ envelope' = root'
                        /\ UNCHANGED <<chain, outcome, schemaVersion>>
    /\ UNCHANGED <<host, plan, attempt, transactionId, transactionDepth, lockVars, rollback,
                   durable, foreignCommits>>

\* After shutdown() the root getter throws before the mutator runs.
BeginUpdate(c) ==
    /\ Turn(c) /\ Kind[c] = "update"
    /\ IF started THEN /\ pc' = [pc EXCEPT ![c] = "working"]
                       /\ rollback' = Live /\ root' = Edited(root, c)
                       /\ UNCHANGED <<chain, outcome>>
                  ELSE Ends(c, "failed") /\ Release /\ UNCHANGED <<root, rollback>>
    /\ UNCHANGED <<host, plan, attempt, schemaVersion, transactionId, transactionDepth, lockVars,
                   handle, envelope, durable, foreignCommits>>

\* reloadLatestLocked and cloneRoot, then the work on the reloaded root; a
\* pessimistic transaction holds the write lock from here on.
BeginTransaction(c) ==
    /\ Turn(c) /\ Kind[c] \in Transactional
    /\ rollback' = [root |-> durable.root, schema |-> durable.schema]
    /\ transactionId' = durable.txn
    /\ IF started
          THEN /\ pc' = [pc EXCEPT ![c] = "working"] /\ transactionDepth' = transactionDepth + 1
               /\ IF Kind[c] = "migrate"
                     THEN /\ root' = Migrated(durable.root, Head(plan[c]))
                          /\ schemaVersion' = Head(plan[c]).to
                     ELSE root' = Edited(durable.root, c) /\ schemaVersion' = durable.schema
               /\ IF Kind[c] = "optimistic" THEN UNCHANGED handle ELSE TakesLock(c)
               /\ UNCHANGED <<chain, outcome>>
          ELSE /\ Ends(c, "failed") /\ Release
               /\ root' = durable.root /\ schemaVersion' = durable.schema
               /\ UNCHANGED <<handle, transactionDepth>>
    /\ UNCHANGED <<host, plan, attempt, lockVars, envelope, durable, foreignCommits>>

\* collectGarbage takes the mutex and no lock; what it removes is in Maintenance.
Collect(c) ==
    /\ Turn(c) /\ Kind[c] = "collect"
    /\ Ends(c, "ok") \/ (MayThrow /\ Ends(c, "failed"))
    /\ Release
    /\ UNCHANGED <<host, plan, attempt, liveVars, lockVars, handle, rollback, envelope, durable,
                   foreignCommits>>

\* A callback awaits the calls it issues.
CallbackIsDone(c) ==
    /\ pc[c] = "working"
    /\ \A d \in Calls : Parent[d] = c => pc[d] = "done"

\* Mutant: the scope is not left when the work ends.
StaysInScope(c) == transactionDepth' = transactionDepth

LeavesScope(c) ==
    transactionDepth' = IF Kind[c] \in Transactional THEN transactionDepth - 1 ELSE transactionDepth

WorkThrows(c) ==
    /\ CallbackIsDone(c) /\ MayThrow
    /\ LeavesScope(c) /\ Fails(c)
    /\ UNCHANGED <<host, plan, attempt, transactionId, lockVars, rollback, envelope, durable,
                   foreignCommits>>

\* An optimistic transaction always checks its base, an update only without a
\* startup lock, a pessimistic transaction never.
FindsConflict(c) ==
    \/ Kind[c] = "optimistic" /\ durable.txn # transactionId
    \/ Kind[c] = "update" /\ Conflict

WorkEnds(c) ==
    /\ CallbackIsDone(c) /\ ~FindsConflict(c) /\ started
    /\ LeavesScope(c)
    /\ pc' = [pc EXCEPT ![c] = "storing"]
    /\ IF Kind[c] \in {"update", "optimistic"} THEN TakesLock(c) ELSE UNCHANGED handle
    /\ UNCHANGED <<chain, outcome, host, plan, attempt, root, schemaVersion, transactionId,
                   lockVars, rollback, envelope, durable, foreignCommits>>

MayRetry(c) == Kind[c] = "optimistic" /\ attempt[c] < MaxRetries

\* After shutdown() the root getter throws when the target of the commit is
\* evaluated.
WorkIsRefused(c) ==
    /\ CallbackIsDone(c)
    /\ IF FindsConflict(c) THEN ~MayRetry(c) ELSE ~started
    /\ LeavesScope(c) /\ Fails(c)
    /\ UNCHANGED <<host, plan, attempt, transactionId, lockVars, rollback, envelope, durable,
                   foreignCommits>>

\* The retry waits for the mutex again, behind every call issued meanwhile.
WorkRetries(c) ==
    /\ CallbackIsDone(c) /\ FindsConflict(c) /\ MayRetry(c)
    /\ LeavesScope(c) /\ Release
    /\ root' = rollback.root /\ schemaVersion' = rollback.schema
    /\ pc' = [pc EXCEPT ![c] = "retrying"]
    /\ UNCHANGED <<outcome, host, plan, attempt, transactionId, lockVars, handle, rollback,
                   envelope, durable, foreignCommits>>

Retry(c) ==
    /\ pc[c] = "retrying"
    /\ pc' = [pc EXCEPT ![c] = "queued"] /\ TakeTail(c)
    /\ attempt' = [attempt EXCEPT ![c] = @ + 1]
    /\ UNCHANGED <<outcome, host, plan, liveVars, lockVars, handle, rollback, envelope, durable,
                   foreignCommits>>

\* storeLocked serialises once the loaded lazy references are written.
Serialize(c) ==
    /\ pc[c] = "storing"
    /\ envelope' = root
    /\ pc' = [pc EXCEPT ![c] = "publishing"]
    /\ UNCHANGED <<chain, outcome, host, plan, attempt, liveVars, lockVars, handle, rollback,
                   durable, foreignCommits>>

Publish(c) ==
    /\ pc[c] = "publishing" /\ Valid(c)
    /\ durable' = [root |-> envelope, schema |-> schemaVersion, txn |-> transactionId + 1]
    /\ transactionId' = transactionId + 1
    /\ Release /\ LeavesLock(c)
    /\ IF Kind[c] = "migrate" THEN plan' = [plan EXCEPT ![c] = Tail(@)] ELSE plan' = plan
    /\ IF Kind[c] = "migrate" /\ Len(plan[c]) > 1
          THEN pc' = [pc EXCEPT ![c] = "between"] /\ outcome' = outcome
          ELSE Ends(c, "ok")
    /\ UNCHANGED <<host, attempt, root, schemaVersion, transactionDepth, lockVars, rollback,
                   envelope, foreignCommits>>

\* A validator rejects the commit, a write fails, or the lock is not valid.
CommitFails(c) ==
    /\ pc[c] = "publishing" /\ (MayThrow \/ ~Valid(c))
    /\ Fails(c)
    /\ UNCHANGED <<host, plan, attempt, transactionId, transactionDepth, lockVars, rollback,
                   envelope, durable, foreignCommits>>

\* The loop of migrateTo(): the next step's transaction() asserts started.
NextMigration(c) ==
    /\ pc[c] = "between"
    /\ IF started THEN pc' = [pc EXCEPT ![c] = "queued"] /\ TakeTail(c) /\ outcome' = outcome
                  ELSE Ends(c, "failed") /\ chain' = chain
    /\ UNCHANGED <<host, plan, attempt, liveVars, lockVars, handle, rollback, envelope, durable,
                   foreignCommits>>
-----------------------------------------------------------------------------
(* shutdown() does not wait for the mutex. *)

ShutdownReleases ==
    /\ MayShutdown /\ started /\ startupLock
    /\ startupLock' = FALSE
    /\ UNCHANGED <<chain, callVars, liveVars, started, lockHandle, handle, rollback, envelope,
                   durable, foreignCommits>>

ShutdownEnds ==
    /\ MayShutdown /\ started /\ ~startupLock
    /\ lockHandle' = FALSE /\ started' = FALSE
    /\ UNCHANGED <<chain, callVars, liveVars, startupLock, handle, rollback, envelope, durable,
                   foreignCommits>>

\* Another process opens, commits and closes while nobody holds the lock.
ForeignCommit ==
    /\ foreignCommits < MaxForeign
    /\ ~startupLock /\ \A c \in Calls : handle[c] # "own"
    /\ durable' = [durable EXCEPT !.root = Edited(@, Foreign), !.txn = @ + 1]
    /\ foreignCommits' = foreignCommits + 1
    /\ UNCHANGED <<chain, callVars, liveVars, lockVars, handle, rollback, envelope>>

Issue(c) == RejectCall(c) \/ JoinTransaction(c) \/ IssueCall(c) \/ MigrateTo(c)

Begin(c) == BeginStore(c) \/ BeginGvql(c) \/ BeginUpdate(c) \/ BeginTransaction(c) \/ Collect(c)

Continue(c) ==
    \/ WorkThrows(c) \/ WorkEnds(c) \/ WorkIsRefused(c) \/ WorkRetries(c)
    \/ Retry(c) \/ Serialize(c) \/ Publish(c) \/ CommitFails(c) \/ NextMigration(c)

\* The application has made all its calls; those of a callback that never ran
\* are not made.
NeverIssued(c) == pc[c] = "idle" /\ Parent[c] # NoCall /\ pc[Parent[c]] = "done"
Quiet == (\A c \in Calls : pc[c] = "done" \/ NeverIssued(c)) /\ UNCHANGED vars

Next == \/ \E c \in Calls : Issue(c) \/ Begin(c) \/ Continue(c)
        \/ ShutdownReleases \/ ShutdownEnds \/ ForeignCommit
        \/ Quiet

\* A callback settles and the event loop resumes every pending section; the
\* application may stop issuing calls, except that a callback issues the calls
\* it awaits.
Fairness ==
    \A c \in Calls : WF_vars(Begin(c) \/ Continue(c) \/ (Parent[c] # NoCall /\ Issue(c)))

Spec == Init /\ [][Next]_vars /\ Fairness
-----------------------------------------------------------------------------
TypeOK ==
    /\ chain \in Seq(Calls)
    /\ pc \in [Calls -> {"idle", "queued", "working", "storing", "publishing", "retrying",
                         "between", "done"}]
    /\ outcome \in [Calls -> {"none", "ok", "failed", "rejected"}]
    /\ host \in [Calls -> Calls \cup {NoCall}]
    /\ handle \in [Calls -> {"none", "startup", "own"}]
    /\ \A r \in {root, envelope, durable.root, rollback.root} :
           r.edits \subseteq Calls \cup {Foreign} /\ r.applied \in [Migrations -> Int]
    /\ schemaVersion \in Nat /\ transactionId \in Nat
    /\ transactionDepth \in 0..1
    /\ \A c \in Calls : attempt[c] <= MaxRetries

InSection(c) == pc[c] \in {"working", "storing", "publishing"}

\* The calls whose sections are suspended at an await are at most one, it is
\* the first of the mutex's chain, and transactionDepth tells whether it is a
\* transaction's work (AsyncMutex.runExclusive, runInTransactionScope).
OneSection ==
    /\ \A c \in Calls : InSection(c) => chain # <<>> /\ Head(chain) = c
    /\ \A c, d \in Calls : InSection(c) /\ InSection(d) => c = d
    /\ transactionDepth = Cardinality({c \in Calls : pc[c] = "working" /\ Kind[c] \in Transactional})

Alone(c) == host[c] = NoCall

\* An update() or a transaction that threw has left nothing behind: neither in
\* the live root, nor in what any other call has since committed.
FailedCallsLeaveNoTrace ==
    \A c \in Calls :
        Kind[c] \in {"update", "pessimistic", "optimistic"} /\ Alone(c) /\ outcome[c] \in {"failed", "rejected"}
            => c \notin root.edits /\ c \notin durable.root.edits

\* What an update(), a transaction or a mutating gvql() reported as committed,
\* and what another process committed, stays in the store: no later rollback,
\* reload, retry or commit of this manager, not even one that was in flight or
\* queued when shutdown() gave the lock away, takes it out.
AcknowledgedIsDurable ==
    /\ \A c \in Calls :
           Kind[c] \in {"update", "pessimistic", "optimistic", "gvql"} /\ Alone(c) /\ outcome[c] = "ok"
               => c \in durable.root.edits
    /\ foreignCommits > 0 => Foreign \in durable.root.edits

\* An update() that joined a transaction is committed only by that
\* transaction: if it failed or was rolled back, nothing publishes the edit.
\* (Of a migrateTo() the steps before the failed one stay committed.)
JoinedUpdatesShareTheFate ==
    \A c \in Calls :
        host[c] # NoCall /\ c \in durable.root.edits
            => Kind[host[c]] = "migrate" \/ outcome[host[c]] = "ok"

\* The schema version in the store says exactly which migrations its root has
\* been through, also when migrateTo() fails half way, races other calls or is
\* cut short by shutdown().
SchemaMatchesRoot ==
    \A v \in Migrations :
        durable.root.applied[v] = IF v <= durable.schema THEN 1 ELSE 0

\* When shutdown() has returned and the queue has drained, this manager holds
\* no writer lock, although a queued call may have taken one of its own.
ShutdownFreesTheLock ==
    ~started /\ chain = <<>> => ~startupLock /\ \A c \in Calls : handle[c] = "none"

\* Every call that was issued ends: no call waits for a section that waits for
\* it, and retries are bounded.  (Each call is made once, so it is enough that
\* nothing is in flight again and again.)
CallsEnd == []<>(\A c \in Calls : pc[c] \in {"idle", "done"})
=============================================================================
