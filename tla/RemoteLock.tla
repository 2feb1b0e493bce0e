----------------------------- MODULE RemoteLock -----------------------------
(***************************************************************************)
(* The writer locks of the S3, HTTP and SQL targets, request by request.   *)
(* All three create a lock record on condition that there is none, draw a  *)
(* fencing token from a counter, and write the token into the record; they *)
(* differ in what is atomic, in which errors are retried and in whether    *)
(* the last write recreates a record that is gone.  A request may fail     *)
(* before or after the service has performed it, and a process may die     *)
(* between any two requests.                                               *)
(***************************************************************************)
EXTENDS Integers

CONSTANTS
    Writers, NoOwner,
    Targets,        \* which of "s3", "http", "sql"
    Breakers,       \* the processes that set staleLockTimeoutMs
    LiveAges,       \* is the timeout shorter than a lock may be in use?
    FailsAt,        \* steps whose request may fail
    MaxToken,       \* bound on fencing tokens
    MaxGrants       \* bound on the locks granted

Acquiring == {"readToken", "writeToken", "insertToken", "record"}
Holding == {"held", "check", "remove"}
Steps == Acquiring \cup Holding \cup {"idle", "create", "stale", "break", "wait"}

ASSUME RemoteLockAssumptions ==
    /\ NoOwner \notin Writers
    /\ Targets \subseteq {"s3", "http", "sql"}
    /\ Breakers \subseteq Writers
    /\ LiveAges \in BOOLEAN
    /\ FailsAt \subseteq Steps
    /\ MaxToken \in Nat /\ MaxGrants \in Nat

VARIABLES
    target,     \* the kind of target, fixed
    lock,       \* the lock record: its writer, its token, whether its time is up,
                \* and (observer) the grant it belongs to, 0 for none
    counter,    \* the fencing-token object or row, 0 when missing
    pc, token,  \* of each writer: where it is, and its fencingToken
    (* observers *)
    grants,     \* how many handles have been granted
    grant,      \* which of them a writer's handle is
    granted,    \* the token of the last one
    counterLost \* has a writer missed the counter, or died between SQL's DELETE and INSERT?

vars == <<target, lock, counter, pc, token, grants, grant, granted, counterLost>>
observers == <<grants, grant, granted, counterLost>>

NoLock == [owner |-> NoOwner, token |-> 0, stale |-> FALSE, grant |-> 0]
Fresh(p, t, g) == [owner |-> p, token |-> t, stale |-> FALSE, grant |-> g]

Goto(p, step) == pc' = [pc EXCEPT ![p] = step]
Using(p) == pc[p] \in Acquiring \cup Holding

\* The S3 and SQL loops catch every error and look whether the lock is stale;
\* the HTTP loop throws it.
\* (Mutant: the caller goes on as if it held the lock.)
ErrorIgnored == "held"

AfterError == IF target = "http" THEN "idle" ELSE "stale"
-----------------------------------------------------------------------------
(* acquireLock *)

Acquire(p) ==
    /\ pc[p] = "idle"
    /\ Goto(p, "create")
    /\ UNCHANGED <<target, lock, counter, token, observers>>

\* Mutant: the lock record is created over one without a token.
CreatesOverNoToken(p) == lock.token = 0

\* putObject with ifNoneMatch, PUT ?lock=1, INSERT: one of several succeeds.
CanCreate(p) == lock = NoLock

CreateLock(p) ==
    /\ pc[p] = "create" /\ CanCreate(p)
    /\ lock' = Fresh(p, 0, 0)
    /\ Goto(p, "readToken")
    /\ UNCHANGED <<target, counter, token, observers>>

\* The record is created, the answer is lost or is an error status, which HTTP
\* does not throw for: the writer takes the record for another's.
CreateAnswerLost(p) ==
    /\ pc[p] = "create" /\ CanCreate(p) /\ "create" \in FailsAt
    /\ lock' = Fresh(p, 0, 0)
    /\ \E step \in {AfterError, "stale"} : Goto(p, step)
    /\ UNCHANGED <<target, counter, token, observers>>

LockExists(p) ==
    /\ pc[p] = "create" /\ ~CanCreate(p)
    /\ Goto(p, "stale")
    /\ UNCHANGED <<target, lock, counter, token, observers>>

\* Mutant: the counter is read, not advanced.
SameToken == counter
NextToken == counter + 1

\* For S3 and HTTP an object that cannot be read is one that does not exist;
\* for SQL the error ends the attempt (AcquireFails).
ReadToken(p) ==
    /\ pc[p] = "readToken" /\ counter < MaxToken /\ grants < MaxGrants
    /\ token' = [token EXCEPT ![p] = NextToken]
    /\ Goto(p, "writeToken")
    /\ UNCHANGED <<target, lock, counter, observers>>

TokenUnreadable(p) ==
    /\ pc[p] = "readToken" /\ target # "sql" /\ "readToken" \in FailsAt
    /\ grants < MaxGrants
    /\ token' = [token EXCEPT ![p] = 1] /\ counterLost' = TRUE
    /\ Goto(p, "writeToken")
    /\ UNCHANGED <<target, lock, counter, grants, grant, granted>>

\* SQL deletes the counter's row before it inserts the new one.
WriteToken(p) ==
    /\ pc[p] = "writeToken"
    /\ IF target = "sql" THEN counter' = 0 /\ Goto(p, "insertToken")
                         ELSE counter' = token[p] /\ Goto(p, "record")
    /\ UNCHANGED <<target, lock, token, observers>>

\* An INSERT fails when another writer's row is there.
InsertToken(p) ==
    /\ pc[p] = "insertToken"
    /\ IF counter = 0 THEN counter' = token[p] /\ Goto(p, "record")
                      ELSE UNCHANGED counter /\ Goto(p, "stale")
    /\ UNCHANGED <<target, lock, token, observers>>

\* S3 and HTTP write the object whatever there is; SQL updates the row if there
\* is one.
WriteRecord(p) ==
    /\ pc[p] = "record"
    /\ lock' = IF target = "sql" /\ lock = NoLock THEN lock ELSE Fresh(p, token[p], grants + 1)
    /\ grants' = grants + 1 /\ grant' = [grant EXCEPT ![p] = grants + 1] /\ granted' = token[p]
    /\ Goto(p, "held")
    /\ UNCHANGED <<target, counter, token, counterLost>>

\* A request fails, performed or not: the writer's own record is left behind.
AcquireFails(p) ==
    /\ pc[p] \in Acquiring \cap FailsAt
    /\ pc[p] = "readToken" => target = "sql"
    /\ \/ UNCHANGED <<lock, counter>> /\ counterLost' = (counterLost \/ pc[p] = "insertToken")
       \/ pc[p] = "record" /\ lock # NoLock /\ lock' = Fresh(p, token[p], 0)
          /\ UNCHANGED <<counter, counterLost>>
       \/ pc[p] = "writeToken" /\ UNCHANGED lock
          /\ counter' = (IF target = "sql" THEN 0 ELSE token[p])
          /\ counterLost' = (counterLost \/ target = "sql")
       \/ pc[p] = "insertToken" /\ counter = 0 /\ counter' = token[p]
          /\ UNCHANGED <<lock, counterLost>>
    /\ Goto(p, AfterError)
    /\ UNCHANGED <<target, token, grants, grant, granted>>

\* removeStaleLock reads the record, and deletes what is there by then.
FindStale(p) ==
    /\ pc[p] = "stale"
    /\ Goto(p, IF p \in Breakers /\ lock.stale THEN "break" ELSE "wait")
    /\ UNCHANGED <<target, lock, counter, token, observers>>

BreakLock(p) ==
    /\ pc[p] = "break"
    /\ \/ lock' = NoLock /\ Goto(p, "create")
       \/ "break" \in FailsAt /\ lock' \in {lock, NoLock} /\ Goto(p, "wait")
    /\ UNCHANGED <<target, counter, token, observers>>

RetryOrTimeout(p) ==
    /\ pc[p] = "wait"
    /\ \E step \in {"create", "idle"} : Goto(p, step)
    /\ UNCHANGED <<target, lock, counter, token, observers>>
-----------------------------------------------------------------------------
(* assertValid and release *)

TokenMatches(p) == lock.token = token[p]

\* S3 and HTTP assert the token and then delete; every error is swallowed.
Release(p) ==
    /\ pc[p] = "held" /\ target # "sql"
    /\ Goto(p, "check")
    /\ UNCHANGED <<target, lock, counter, token, observers>>

CheckToken(p) ==
    /\ pc[p] = "check"
    /\ \/ TokenMatches(p) /\ Goto(p, "remove")
       \/ (~TokenMatches(p) \/ "check" \in FailsAt) /\ Goto(p, "idle")
    /\ UNCHANGED <<target, lock, counter, token, observers>>

RemoveLock(p) ==
    /\ pc[p] = "remove"
    /\ lock' = NoLock \/ ("remove" \in FailsAt /\ lock' = lock)
    /\ Goto(p, "idle")
    /\ UNCHANGED <<target, counter, token, observers>>

\* SQL deletes the row with this token, in one statement.
ReleaseRow(p) ==
    /\ pc[p] = "held" /\ target = "sql"
    /\ \/ lock' = IF TokenMatches(p) THEN NoLock ELSE lock
       \/ "remove" \in FailsAt /\ lock' = lock
    /\ Goto(p, "idle")
    /\ UNCHANGED <<target, counter, token, observers>>
-----------------------------------------------------------------------------
Age ==
    /\ lock # NoLock /\ ~lock.stale
    /\ LiveAges \/ ~Using(lock.owner)
    /\ lock' = [lock EXCEPT !.stale = TRUE]
    /\ UNCHANGED <<target, counter, pc, token, observers>>

Crash(p) ==
    /\ pc[p] # "idle"
    /\ counterLost' = (counterLost \/ pc[p] = "insertToken")
    /\ Goto(p, "idle")
    /\ UNCHANGED <<target, lock, counter, token, grants, grant, granted>>

Init ==
    /\ target \in Targets
    /\ lock = NoLock /\ counter = 0
    /\ pc = [p \in Writers |-> "idle"] /\ token = [p \in Writers |-> 0]
    /\ grants = 0 /\ grant = [p \in Writers |-> 0] /\ granted = 0 /\ counterLost = FALSE

Next ==
    \/ \E p \in Writers :
         \/ Acquire(p) \/ CreateLock(p) \/ CreateAnswerLost(p) \/ LockExists(p)
         \/ ReadToken(p) \/ TokenUnreadable(p) \/ WriteToken(p) \/ InsertToken(p) \/ WriteRecord(p)
         \/ AcquireFails(p) \/ FindStale(p) \/ BreakLock(p) \/ RetryOrTimeout(p)
         \/ Release(p) \/ CheckToken(p) \/ RemoveLock(p) \/ ReleaseRow(p) \/ Crash(p)
    \/ Age

Spec == Init /\ [][Next]_vars
-----------------------------------------------------------------------------
LockRecords == [owner : Writers \cup {NoOwner}, token : Nat, stale : BOOLEAN, grant : Nat]

\* The record, the counter and the fields keep their types, and every handle has
\* a positive token, which a record still without one cannot match.
RemoteTypeOK ==
    /\ target \in Targets
    /\ lock \in LockRecords
    /\ counter \in Nat /\ pc \in [Writers -> Steps] /\ token \in [Writers -> Nat]
    /\ grants \in Nat /\ grant \in [Writers -> Nat] /\ granted \in Nat /\ counterLost \in BOOLEAN
    /\ \A p \in Writers : pc[p] \in Holding => token[p] > 0

\* At most one writer has a handle that assertValid would accept, whichever
\* requests failed, were performed although they failed, or were never sent
\* because the process died; also when the counter starts over.
OneValidHandle ==
    \A p, q \in Writers :
        pc[p] \in Holding /\ TokenMatches(p) /\ pc[q] \in Holding /\ TokenMatches(q) => p = q

\* Every handle has a greater token than those granted before it ("a
\* monotonically increasing fencing token"), unless the counter could not be
\* read or a SQL writer was interrupted between DELETE and INSERT.
TokensGrow ==
    [][grants' > grants /\ ~counterLost => granted' > granted]_vars

Lock == INSTANCE WriterLock WITH
    Tokens <- 1..MaxGrants,
    owner  <- IF lock.grant = 0 THEN NoOwner ELSE lock.owner,
    last   <- grants,
    handle <- [p \in Writers |-> IF pc[p] \in Holding THEN grant[p] ELSE 0]

\* The requests amount to a lock that is acquired and released at once, grant
\* after grant: a handle is granted only when nobody holds one, and a release
\* removes the writer's own record only.
ImplementsWriterLock == Lock!Spec
=============================================================================
