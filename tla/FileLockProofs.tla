--------------------------- MODULE FileLockProofs ---------------------------
(***************************************************************************)
(* Proofs about FileLock.  As long as at most one process breaks stale     *)
(* locks, no lock ages while it is in use, and the token file can be read, *)
(* the file protocol implements WriterLock for any number of processes.    *)
(***************************************************************************)
EXTENDS FileLock, TLAPS

\* The conditions under which breaking a lock cannot race.
Cautious ==
    /\ \A p, q \in Breakers : p = q
    /\ ~LiveAges
    /\ "readToken" \notin FailsAt

\* Whoever uses the lock owns the file, which is not stale.
UserOwnsFile == \A p \in Writers : Using(p) => file.owner = p /\ file.created # "stale"

\* Whoever is about to break the lock still faces the stale file it has read.
BreakerFacesStale ==
    \A p \in Writers : pc[p] = "break" => p \in Breakers /\ file.created = "stale"

\* The token of an acquisition on its way, and of a handle.
TokenOrder ==
    /\ granted <= counter
    /\ \A p \in Writers :
         /\ pc[p] = "writeToken" => token[p] = counter + 1
         /\ pc[p] = "record" => token[p] = counter /\ token[p] > granted
         /\ pc[p] \in Acquiring => file.token = 0
         /\ pc[p] \in Holding => file.token = token[p] /\ token[p] = granted

\* A handle's token is positive from the moment it is chosen.
Chosen == \A p \in Writers : pc[p] \in {"writeToken", "record"} \cup Holding => token[p] > 0

TypeInv == LockTypeOK /\ Chosen

LockInv ==
    /\ TypeInv
    /\ file.owner = NoOwner => file = NoFile
    /\ UserOwnsFile
    /\ BreakerFacesStale
    /\ TokenOrder

-----------------------------------------------------------------------------
(* Types *)

\* The inductive type invariant holds before any process has opened the store.
LEMMA TypeInvInit == Init => TypeInv
BY LockAssumptions DEF Init, TypeInv, LockTypeOK, Chosen, LockFiles, NoFile, Steps, Acquiring, Holding

\* The steps that move one writer and change no file or token.
Quiet(p) ==
    /\ \E step \in Steps :
          /\ Goto(p, step)
          /\ step \in {"writeToken", "record"} \cup Holding => pc[p] \in Holding
    /\ UNCHANGED <<file, counter, token, granted>>

\* These actions are steps that move one writer only.
LEMMA QuietSteps ==
    ASSUME NEW p \in Writers,
           \/ Acquire(p) \/ LockExists(p) \/ AcquireFails(p) \/ FindStale(p) \/ BreakFails(p)
           \/ RetryOrTimeout(p) \/ Release(p) \/ CheckToken(p) \/ RemoveFails(p) \/ Crash(p)
    PROVE  Quiet(p)
BY DEF Quiet, Acquire, LockExists, AcquireFails, FindStale, BreakFails, RetryOrTimeout, Release,
       CheckToken, RemoveFails, Crash, Goto, Steps, Acquiring, Holding

\* Every step of the lock protocol keeps the types.
LEMMA TypeInvNext == TypeInv /\ [Next]_vars => TypeInv'
<1> SUFFICES ASSUME TypeInv, [Next]_vars
             PROVE  TypeInv'
  OBVIOUS
<1> USE LockAssumptions DEF TypeInv, LockTypeOK, Chosen, Acquiring, Holding, Steps, Goto
<1>1. ASSUME NEW p \in Writers, Quiet(p)
      PROVE  TypeInv'
  BY <1>1 DEF Quiet
<1>2. ASSUME NEW p \in Writers, CreateLock(p)
      PROVE  TypeInv'
  BY <1>2 DEF CreateLock, LockFiles
<1>3. ASSUME NEW p \in Writers, WriteLockBody(p)
      PROVE  TypeInv'
  BY <1>3 DEF WriteLockBody, LockFiles
<1>4. ASSUME NEW p \in Writers, ReadToken(p)
      PROVE  TypeInv'
  BY <1>4 DEF ReadToken, NextFencingToken
<1>5. ASSUME NEW p \in Writers, WriteToken(p)
      PROVE  TypeInv'
  BY <1>5 DEF WriteToken, SavedToken
<1>6. ASSUME NEW p \in Writers, WriteLockRecord(p)
      PROVE  TypeInv'
  BY <1>6 DEF WriteLockRecord, LockFiles
<1>7. ASSUME NEW p \in Writers, BreakLock(p) \/ RemoveLock(p)
      PROVE  TypeInv'
  BY <1>7 DEF BreakLock, RemoveLock, LockFiles, NoFile
<1>8. CASE Age
  BY <1>8 DEF Age, LockFiles
<1>9. CASE UNCHANGED vars
  BY <1>9 DEF vars
<1> QED
  BY <1>1, <1>2, <1>3, <1>4, <1>5, <1>6, <1>7, <1>8, <1>9, QuietSteps DEF Next

\* The lock file, the token file and the acquirers keep their types, and no handle
\* is granted with the token 0 of an unfinished lock file, whatever fails and however
\* many processes break locks: acquireLock of LocalStorageTarget.
THEOREM LockTypeCorrect == Spec => []LockTypeOK
<1>1. Spec => []TypeInv
  BY TypeInvInit, TypeInvNext, PTL DEF Spec
<1> QED
  BY <1>1, PTL DEF TypeInv

-----------------------------------------------------------------------------
(* Exclusion *)

\* The inductive invariant holds initially.
LEMMA LockInvInit == Init => LockInv
BY TypeInvInit, LockAssumptions
   DEF Init, LockInv, NoFile, UserOwnsFile, BreakerFacesStale, TokenOrder, Using, Acquiring, Holding

\* A writer's step leaves the others where they are.
LEMMA QuietKeepsInv ==
    ASSUME LockInv, NEW p \in Writers, Quiet(p),
           Using(p)' => Using(p),
           pc'[p] \notin Acquiring,
           pc'[p] = "break" => p \in Breakers /\ file.created = "stale"
    PROVE  LockInv'
<1> USE DEF LockInv, TypeInv, LockTypeOK, Quiet, Goto
<1>1. TypeInv'
  BY TypeInvNext, LockAssumptions DEF Chosen, Steps, Acquiring, Holding
<1>2. (file.owner = NoOwner => file = NoFile)'
  OBVIOUS
<1>3. UserOwnsFile' /\ BreakerFacesStale'
  BY DEF UserOwnsFile, BreakerFacesStale, Using
<1>4. TokenOrder'
  BY DEF TokenOrder, Using, Acquiring, Holding
<1> QED
  BY <1>1, <1>2, <1>3, <1>4

\* Under the assumptions on breaking, every step keeps the inductive invariant.
LEMMA LockInvNext == Cautious /\ LockInv /\ [Next]_vars => LockInv'
<1> SUFFICES ASSUME Cautious, LockInv, [Next]_vars
             PROVE  LockInv'
  OBVIOUS
<1>0. TypeInv'
  BY TypeInvNext DEF LockInv
<1> USE LockAssumptions DEF LockInv, Goto
<1>1. ASSUME NEW p \in Writers,
             \/ Acquire(p) \/ LockExists(p) \/ AcquireFails(p) \/ FindStale(p) \/ BreakFails(p)
             \/ RetryOrTimeout(p) \/ Release(p) \/ CheckToken(p) \/ RemoveFails(p) \/ Crash(p)
      PROVE  LockInv'
  <2>1. Quiet(p)
    BY <1>1, QuietSteps
  <2>2. /\ Using(p)' => Using(p)
        /\ pc'[p] \notin Acquiring
        /\ pc'[p] = "break" => p \in Breakers /\ file.created = "stale"
    BY <1>1 DEF TypeInv, LockTypeOK, Using, Acquiring, Holding, Acquire, LockExists, AcquireFails,
                FindStale, BreakFails, RetryOrTimeout, Release, CheckToken, RemoveFails, Crash
  <2> QED
    BY <2>1, <2>2, QuietKeepsInv
<1>2. ASSUME NEW p \in Writers, CreateLock(p)
      PROVE  LockInv'
  <2>1. \A q \in Writers : ~Using(q) /\ pc[q] # "break"
    BY <1>2 DEF CreateLock, LockFree, UserOwnsFile, BreakerFacesStale, NoFile
  <2>2. (file.owner = NoOwner => file = NoFile)' /\ UserOwnsFile' /\ BreakerFacesStale'
    BY <1>2, <2>1 DEF CreateLock, UserOwnsFile, BreakerFacesStale, Using, TypeInv, LockTypeOK,
                      Acquiring, Holding
  <2>3. TokenOrder'
    BY <1>2, <2>1 DEF CreateLock, TokenOrder, Using, TypeInv, LockTypeOK, Acquiring, Holding
  <2> QED
    BY <1>0, <2>2, <2>3
<1> DEFINE Alone(p) == \A q \in Writers \ {p} : ~Using(q)
<1>3. ASSUME NEW p \in Writers, Using(p)
      PROVE  file.owner = p /\ Alone(p) /\ \A q \in Writers : pc[q] # "break"
  BY <1>3 DEF UserOwnsFile, BreakerFacesStale
<1>4. ASSUME NEW p \in Writers, WriteLockBody(p) \/ ReadToken(p) \/ WriteToken(p) \/ WriteLockRecord(p)
      PROVE  LockInv'
  <2>1. Using(p) /\ file.owner = p /\ Alone(p) /\ \A q \in Writers : pc[q] # "break"
    BY <1>4, <1>3 DEF WriteLockBody, ReadToken, WriteToken, WriteLockRecord, Using, Acquiring
  <2>2. (file.owner = NoOwner => file = NoFile)' /\ UserOwnsFile' /\ BreakerFacesStale'
    BY <1>4, <2>1 DEF WriteLockBody, ReadToken, WriteToken, WriteLockRecord, UserOwnsFile,
                      BreakerFacesStale, Using, TypeInv, LockTypeOK, LockFiles, Acquiring, Holding
  <2>3. TokenOrder'
    BY <1>4, <2>1 DEF WriteLockBody, ReadToken, NextFencingToken, WriteToken, SavedToken, Cautious,
                      WriteLockRecord, TokenOrder, Using, TypeInv, LockTypeOK, LockFiles,
                      Acquiring, Holding
  <2> QED
    BY <1>0, <2>2, <2>3
<1>5. ASSUME NEW p \in Writers, BreakLock(p)
      PROVE  LockInv'
  <2>1. \A q \in Writers : ~Using(q) /\ (pc[q] = "break" => q = p)
    BY <1>5 DEF BreakLock, UserOwnsFile, BreakerFacesStale, Cautious
  <2> QED
    BY <1>0, <1>5, <2>1 DEF BreakLock, NoFile, UserOwnsFile, BreakerFacesStale, TokenOrder, Using,
                            TypeInv, LockTypeOK, Acquiring, Holding
<1>6. ASSUME NEW p \in Writers, RemoveLock(p)
      PROVE  LockInv'
  <2>1. Alone(p) /\ \A q \in Writers : pc[q] # "break"
    BY <1>6, <1>3 DEF RemoveLock, Using, Holding
  <2> QED
    BY <1>0, <1>6, <2>1 DEF RemoveLock, NoFile, UserOwnsFile, BreakerFacesStale, TokenOrder, Using,
                            TypeInv, LockTypeOK, Acquiring, Holding
<1>7. CASE Age
  <2>1. \A q \in Writers : ~Using(q)
    BY <1>7 DEF Age, Cautious, UserOwnsFile
  <2> QED
    BY <1>0, <1>7, <2>1 DEF Age, NoFile, UserOwnsFile, BreakerFacesStale, TokenOrder, Using,
                            TypeInv, LockTypeOK, LockFiles, Acquiring, Holding
<1>8. CASE UNCHANGED vars
  BY <1>0, <1>8 DEF vars, UserOwnsFile, BreakerFacesStale, TokenOrder, Using
<1> QED
  BY <1>1, <1>2, <1>4, <1>5, <1>6, <1>7, <1>8 DEF Next

\* The inductive invariant holds in every behaviour of the protocol.
LEMMA LockInvAlways == ASSUME Cautious PROVE Spec => []LockInv
BY LockInvInit, LockInvNext, PTL DEF Spec

\* Two writers never both have a handle that assertValid accepts, for any number of
\* processes that die and restart at any step.
THEOREM ValidHandleIsUnique == ASSUME Cautious PROVE Spec => []OneValidHandle
<1>1. LockInv => OneValidHandle
  BY DEF LockInv, UserOwnsFile, OneValidHandle, Using
<1> QED
  BY <1>1, LockInvAlways, PTL

-----------------------------------------------------------------------------
(* Refinement *)

\* The protocol's initial state maps to the atomic lock's.
LEMMA LockInitMaps == Init => Lock!Init
BY DEF Init, NoFile, Lock!Init, Holding

\* Every step of the protocol maps to a step of the atomic lock or to a stutter.
LEMMA LockStepMaps == LockInv /\ [Next]_vars => [Lock!Next]_(Lock!vars)
<1> SUFFICES ASSUME LockInv, [Next]_vars
             PROVE  [Lock!Next]_(Lock!vars)
  OBVIOUS
<1> DEFINE owner == IF file.token = 0 THEN NoOwner ELSE file.owner
           handle == [p \in Writers |-> IF pc[p] \in Holding THEN token[p] ELSE 0]
<1> USE LockAssumptions DEF LockInv, TypeInv, LockTypeOK, Goto
<1>1. ASSUME NEW p \in Writers,
             \/ Acquire(p) \/ LockExists(p) \/ AcquireFails(p) \/ FindStale(p) \/ BreakFails(p)
             \/ RetryOrTimeout(p) \/ Release(p) \/ CheckToken(p) \/ RemoveFails(p) \/ Crash(p)
      PROVE  UNCHANGED Lock!vars \/ Lock!Abandon(p)
  <2>1. Quiet(p)
    BY <1>1, QuietSteps
  <2>2. CASE pc'[p] \in Holding
    <3>1. pc[p] \in Holding
      BY <2>1, <2>2 DEF Quiet
    <3>2. handle' = handle
      BY <2>1, <2>2, <3>1 DEF Quiet
    <3> QED
      BY <2>1, <3>2 DEF Quiet, Lock!vars
  <2>3. CASE pc'[p] \notin Holding
    <3>1. handle' = [handle EXCEPT ![p] = 0]
      BY <2>1, <2>3 DEF Quiet
    <3> QED
      BY <2>1, <3>1 DEF Quiet, Lock!Abandon
  <2> QED
    BY <2>2, <2>3
<1>2. ASSUME NEW p \in Writers, CreateLock(p) \/ WriteLockBody(p) \/ ReadToken(p) \/ WriteToken(p)
      PROVE  UNCHANGED Lock!vars
  <2>1. owner' = owner
    BY <1>2 DEF CreateLock, LockFree, NoFile, WriteLockBody, ReadToken, WriteToken, TokenOrder,
                LockFiles, Acquiring
  <2>2. handle' = handle
    BY <1>2 DEF CreateLock, WriteLockBody, ReadToken, WriteToken, Holding
  <2>3. granted' = granted
    BY <1>2 DEF CreateLock, WriteLockBody, ReadToken, WriteToken
  <2> QED
    BY <2>1, <2>2, <2>3 DEF Lock!vars
<1>3. ASSUME NEW p \in Writers, WriteLockRecord(p)
      PROVE  Lock!Acquire(p)
  <2>1. /\ pc[p] = "record" /\ handle[p] = 0 /\ owner = NoOwner
        /\ token[p] \in 1..MaxToken /\ token[p] > granted
    BY <1>3 DEF WriteLockRecord, TokenOrder, Chosen, Acquiring, Holding
  <2>2. handle' = [handle EXCEPT ![p] = token[p]]
    BY <1>3 DEF WriteLockRecord, Holding
  <2>3. owner' = p /\ granted' = token[p]
    BY <1>3, <2>1 DEF WriteLockRecord
  <2> QED
    BY <2>1, <2>2, <2>3 DEF Lock!Acquire
<1>4. ASSUME NEW p \in Writers, RemoveLock(p)
      PROVE  Lock!Release(p)
  <2>1. owner = p /\ handle[p] = granted
    BY <1>4 DEF RemoveLock, UserOwnsFile, TokenOrder, Using, Holding
  <2>2. handle' = [handle EXCEPT ![p] = 0]
    BY <1>4 DEF RemoveLock, Holding
  <2>3. owner' = NoOwner /\ granted' = granted
    BY <1>4 DEF RemoveLock, NoFile
  <2> QED
    BY <2>1, <2>2, <2>3 DEF Lock!Release
<1>5. ASSUME NEW p \in Writers, BreakLock(p)
      PROVE  UNCHANGED Lock!vars \/ Lock!Break
  <2>1. owner' = NoOwner /\ granted' = granted /\ handle' = handle
    BY <1>5 DEF BreakLock, NoFile, Holding
  <2>2. CASE owner = NoOwner
    BY <2>1, <2>2 DEF Lock!vars
  <2>3. CASE owner # NoOwner
    <3>1. owner \in Writers /\ ~Using(owner)
      BY <1>5, <2>3 DEF BreakLock, BreakerFacesStale, UserOwnsFile, LockFiles
    <3>2. handle[owner] = 0
      BY <3>1 DEF Using
    <3> QED
      BY <2>1, <2>3, <3>2 DEF Lock!Break
  <2> QED
    BY <2>2, <2>3
<1>6. CASE Age
  <2>1. owner' = owner /\ handle' = handle /\ granted' = granted
    BY <1>6 DEF Age, LockFiles
  <2> QED
    BY <2>1 DEF Lock!vars
<1>7. CASE UNCHANGED vars
  BY <1>7 DEF vars, Lock!vars
<1> QED
  BY <1>1, <1>2, <1>3, <1>4, <1>5, <1>6, <1>7 DEF Next, Lock!Next

\* The lock file, the token file and the checks of LocalStorageTarget amount to an
\* atomic lock that one writer holds, with a fencing token above all earlier ones.
THEOREM LockImplementsWriterLock == ASSUME Cautious PROVE Spec => ImplementsWriterLock
<1>1. LockInv /\ [Next]_vars => [Lock!Next]_(Lock!vars)
  BY LockStepMaps
<1> QED
  BY <1>1, LockInvAlways, LockInitMaps, PTL DEF Spec, ImplementsWriterLock, Lock!Spec
=============================================================================
