------------------------------ MODULE FileLock ------------------------------
(***************************************************************************)
(* The writer lock of LocalStorageTarget: the steps on the lock file and   *)
(* the fencing-token file by which it is acquired, validated, released,    *)
(* and broken when it is stale.  Each awaited file operation is an action, *)
(* so that the processes of a shared store interleave and die between any  *)
(* two of them.  The S3 target takes the same steps, except that its lock  *)
(* object is never seen empty.                                             *)
(***************************************************************************)
EXTENDS Integers

CONSTANTS
    Writers,        \* the processes that open the store
    NoOwner,        \* stands for the owner of a lock file that does not exist
    Breakers,       \* the processes that set staleLockTimeoutMs
    LiveAges,       \* is the timeout shorter than a lock may be in use?
    FailsAt,        \* steps whose file operation may fail
    MaxToken        \* bound on fencing tokens

\* From the creation of the lock file to its removal.
Acquiring == {"body", "readToken", "writeToken", "record"}
Holding == {"held", "check", "remove"}
Steps == Acquiring \cup Holding \cup {"idle", "create", "stale", "break", "wait"}

ASSUME LockAssumptions ==
    /\ NoOwner \notin Writers
    /\ Breakers \subseteq Writers
    /\ LiveAges \in BOOLEAN
    /\ FailsAt \subseteq Acquiring \cup {"check", "remove", "break"}
    /\ MaxToken \in Nat

VARIABLES
    file,       \* the lock file: its pid, its token (0 when it has none), and whether
                \* its createdAt is missing ("none"), "fresh" or "stale"
    counter,    \* the fencing-token file, 0 when missing
    pc,         \* where a writer is in acquireLock, assertValid and release
    token,      \* its fencingToken
    (* observer *)
    granted     \* the last token that was granted

vars == <<file, counter, pc, token, granted>>

NoFile == [owner |-> NoOwner, token |-> 0, created |-> "none"]

Goto(p, step) == pc' = [pc EXCEPT ![p] = step]

Using(p) == pc[p] \in Acquiring \cup Holding

-----------------------------------------------------------------------------
(* acquireLock *)

Acquire(p) ==
    /\ pc[p] = "idle"
    /\ Goto(p, "create")
    /\ UNCHANGED <<file, counter, token, granted>>

\* Fault: a lock file without a token is taken for no lock.
NoToken == file.token = 0

LockFree == file = NoFile

\* Open with the flag wx: the file appears, empty.
CreateLock(p) ==
    /\ pc[p] = "create"
    /\ LockFree
    /\ file' = [owner |-> p, token |-> 0, created |-> "none"]
    /\ Goto(p, "body")
    /\ UNCHANGED <<counter, token, granted>>

LockExists(p) ==
    /\ pc[p] = "create"
    /\ ~LockFree
    /\ Goto(p, "stale")
    /\ UNCHANGED <<file, counter, token, granted>>

\* The body goes to the file that was opened, even if it is unlinked by now.
WriteLockBody(p) ==
    /\ pc[p] = "body"
    /\ file' = IF file.owner = p THEN [file EXCEPT !.created = "fresh"] ELSE file
    /\ Goto(p, "readToken")
    /\ UNCHANGED <<counter, token, granted>>

\* Fault: the token is not advanced.
SameFencingToken == counter

NextFencingToken == counter + 1

\* A token file that cannot be read counts as missing.
ReadToken(p) ==
    /\ pc[p] = "readToken"
    /\ counter < MaxToken
    /\ \E t \in {NextFencingToken} \cup (IF "readToken" \in FailsAt THEN {1} ELSE {}) :
         token' = [token EXCEPT ![p] = t]
    /\ Goto(p, "writeToken")
    /\ UNCHANGED <<file, counter, granted>>

\* Fault: the token that was read is written back.
PreviousToken(p) == token[p] - 1

SavedToken(p) == token[p]

WriteToken(p) ==
    /\ pc[p] = "writeToken"
    /\ counter' = SavedToken(p)
    /\ Goto(p, "record")
    /\ UNCHANGED <<file, token, granted>>

\* The rename replaces whatever lock file there is.
WriteLockRecord(p) ==
    /\ pc[p] = "record"
    /\ file' = [owner |-> p, token |-> token[p], created |-> "fresh"]
    /\ granted' = token[p]
    /\ Goto(p, "held")
    /\ UNCHANGED <<counter, token>>

\* Any failure after the creation is handled like a lock that is taken.
AcquireFails(p) ==
    /\ pc[p] \in (Acquiring \cap FailsAt) \ {"readToken"}
    /\ Goto(p, "stale")
    /\ UNCHANGED <<file, counter, token, granted>>

\* removeStaleLocalLock reads the lock file, and removes what it then finds.
FindStale(p) ==
    /\ pc[p] = "stale"
    /\ Goto(p, IF p \in Breakers /\ file.created = "stale" THEN "break" ELSE "wait")
    /\ UNCHANGED <<file, counter, token, granted>>

BreakLock(p) ==
    /\ pc[p] = "break"
    /\ file' = NoFile
    /\ Goto(p, "create")
    /\ UNCHANGED <<counter, token, granted>>

BreakFails(p) ==
    /\ pc[p] = "break"
    /\ "break" \in FailsAt
    /\ Goto(p, "wait")
    /\ UNCHANGED <<file, counter, token, granted>>

\* Before the deadline it tries again, later it throws StorageLockError.
RetryOrTimeout(p) ==
    /\ pc[p] = "wait"
    /\ \E step \in {"create", "idle"} : Goto(p, step)
    /\ UNCHANGED <<file, counter, token, granted>>

-----------------------------------------------------------------------------
(* assertValid and release *)

TokenMatches(p) == file.token = token[p]

Release(p) ==
    /\ pc[p] = "held"
    /\ Goto(p, "check")
    /\ UNCHANGED <<file, counter, token, granted>>

\* removeLocalLockIfTokenMatches: every error is swallowed.
CheckToken(p) ==
    /\ pc[p] = "check"
    /\ \/ TokenMatches(p) /\ Goto(p, "remove")
       \/ (~TokenMatches(p) \/ "check" \in FailsAt) /\ Goto(p, "idle")
    /\ UNCHANGED <<file, counter, token, granted>>

RemoveLock(p) ==
    /\ pc[p] = "remove"
    /\ file' = NoFile
    /\ Goto(p, "idle")
    /\ UNCHANGED <<counter, token, granted>>

RemoveFails(p) ==
    /\ pc[p] = "remove"
    /\ "remove" \in FailsAt
    /\ Goto(p, "idle")
    /\ UNCHANGED <<file, counter, token, granted>>

-----------------------------------------------------------------------------
(* Time and crashes *)

\* The lock reaches its timeout.
Age ==
    /\ file.created = "fresh"
    /\ LiveAges \/ ~Using(file.owner)
    /\ file' = [file EXCEPT !.created = "stale"]
    /\ UNCHANGED <<counter, pc, token, granted>>

Crash(p) ==
    /\ pc[p] # "idle"
    /\ Goto(p, "idle")
    /\ UNCHANGED <<file, counter, token, granted>>

Init ==
    /\ file = NoFile
    /\ counter = 0
    /\ pc = [p \in Writers |-> "idle"]
    /\ token = [p \in Writers |-> 0]
    /\ granted = 0

Next ==
    \/ \E p \in Writers :
         \/ Acquire(p) \/ CreateLock(p) \/ LockExists(p) \/ WriteLockBody(p) \/ ReadToken(p)
         \/ WriteToken(p) \/ WriteLockRecord(p) \/ AcquireFails(p) \/ FindStale(p)
         \/ BreakLock(p) \/ BreakFails(p) \/ RetryOrTimeout(p) \/ Release(p)
         \/ CheckToken(p) \/ RemoveLock(p) \/ RemoveFails(p) \/ Crash(p)
    \/ Age

Spec == Init /\ [][Next]_vars

-----------------------------------------------------------------------------
(* Properties *)

LockFiles == [owner : Writers \cup {NoOwner}, token : 0..MaxToken,
              created : {"none", "fresh", "stale"}]

\* The files and fields keep their types, and every handle has a positive token,
\* which a lock file still without one cannot match.
LockTypeOK ==
    /\ file \in LockFiles
    /\ counter \in 0..MaxToken
    /\ pc \in [Writers -> Steps]
    /\ token \in [Writers -> 0..MaxToken]
    /\ granted \in 0..MaxToken
    /\ \A p \in Writers : pc[p] \in Holding => token[p] > 0

\* At most one writer has a handle that assertValid would accept, so that two never
\* publish at the same time.
OneValidHandle == \A p, q \in Writers :
    /\ pc[p] \in Holding /\ TokenMatches(p)
    /\ pc[q] \in Holding /\ TokenMatches(q)
    => p = q

Lock == INSTANCE WriterLock WITH
    Tokens <- 1..MaxToken,
    owner  <- IF file.token = 0 THEN NoOwner ELSE file.owner,
    last   <- granted,
    handle <- [p \in Writers |-> IF pc[p] \in Holding THEN token[p] ELSE 0]

\* The steps on the two files amount to a lock that is acquired and released at
\* once: a handle is granted, with a greater token than any before, only when
\* nobody holds one, and a release removes the writer's own lock.
ImplementsWriterLock == Lock!Spec
=============================================================================
