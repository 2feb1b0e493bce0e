-------------------------- MODULE RemoteLockProofs --------------------------
(***************************************************************************)
(* Proofs about RemoteLock.  As long as at most one process breaks stale   *)
(* locks and no lock ages while it is in use, the requests of the S3, HTTP *)
(* and SQL targets implement WriterLock for any number of processes,       *)
(* whichever requests fail and even when the counter starts over.          *)
(***************************************************************************)
EXTENDS RemoteLock, TLAPS

\* The conditions under which breaking a lock cannot race.
Cautious == (\A p, q \in Breakers : p = q) /\ ~LiveAges

\* Whoever uses the lock owns the record, whose time is not up.
UserOwnsRecord == \A p \in Writers : Using(p) => lock.owner = p /\ ~lock.stale

\* Whoever is about to break the lock still faces the record it has read.
BreakerFacesStale == \A p \in Writers : pc[p] = "break" => p \in Breakers /\ lock.stale

\* A writer that has drawn its token, or has a handle, has a positive one.
Numbered == {"writeToken", "insertToken", "record"}
Chosen == \A p \in Writers : pc[p] \in Numbered \cup Holding => token[p] > 0

TypeInv == RemoteTypeOK /\ Chosen

\* Exclusion: it does not depend on tokens.
Exclusion ==
    /\ lock.owner = NoOwner => lock = NoLock
    /\ UserOwnsRecord
    /\ BreakerFacesStale

\* The record belongs to a grant exactly while its handle may be in use.
GrantOrder ==
    \A p \in Writers :
        /\ pc[p] \in Acquiring => lock.grant = 0
        /\ pc[p] \in Numbered => grants < MaxGrants
        /\ pc[p] \in Holding => lock.grant = grant[p] /\ grant[p] = grants /\ grants > 0

LockInv == TypeInv /\ Exclusion /\ GrantOrder

\* The tokens on their way follow the counter, which is 0 while a SQL writer is
\* between DELETE and INSERT.
TokenOrder ==
    /\ granted <= counter \/ \E p \in Writers : pc[p] = "insertToken"
    /\ \A p \in Writers :
         /\ pc[p] \in Numbered => token[p] > granted
         /\ pc[p] = "insertToken" => counter = 0
         /\ pc[p] = "record" => token[p] <= counter

TokenInv == LockInv /\ (~counterLost => TokenOrder)
-----------------------------------------------------------------------------
(* Types *)

\* The types hold before any process has opened the store.
LEMMA TypeInvInit == Init => TypeInv
<1> SUFFICES ASSUME Init
             PROVE  TypeInv
  OBVIOUS
<1> USE DEF Init, Steps, Acquiring, Holding
<1>1. lock \in LockRecords
  BY DEF LockRecords, NoLock
<1>2. pc \in [Writers -> Steps] /\ token \in [Writers -> Nat] /\ grant \in [Writers -> Nat]
  OBVIOUS
<1>3. \A p \in Writers : pc[p] = "idle"
  OBVIOUS
<1> QED
  BY <1>1, <1>2, <1>3 DEF TypeInv, RemoteTypeOK, Chosen, Numbered

\* The steps that move one writer and change neither record nor token.
Quiet(p) ==
    /\ \E step \in Steps :
          /\ Goto(p, step)
          /\ step \notin Acquiring
          /\ step \in Holding => pc[p] \in Holding
          /\ step = "break" => p \in Breakers /\ lock.stale
    /\ UNCHANGED <<target, lock, counter, token, grants, grant, granted>>
    /\ counterLost' \in BOOLEAN
    /\ ~counterLost' => ~counterLost /\ pc[p] # "insertToken"

\* These actions only move one writer, out of the lock or along in it.
LEMMA QuietSteps ==
    ASSUME NEW p \in Writers,
           \/ Acquire(p) \/ LockExists(p) \/ FindStale(p) \/ RetryOrTimeout(p)
           \/ Release(p) \/ CheckToken(p) \/ Crash(p),
           TypeInv
    PROVE  Quiet(p)
BY DEF TypeInv, RemoteTypeOK, Quiet, Acquire, LockExists, FindStale, RetryOrTimeout, Release, CheckToken, Crash, observers,
       Goto, Steps, Acquiring, Holding

\* The records that the requests write.
LEMMA WrittenRecords ==
    /\ NoLock \in LockRecords
    /\ \A p \in Writers, t, g \in Nat : Fresh(p, t, g) \in LockRecords
BY DEF NoLock, Fresh, LockRecords

\* Every step of the lock protocols keeps the types.
LEMMA TypeInvNext == TypeInv /\ [Next]_vars => TypeInv'
<1> SUFFICES ASSUME TypeInv, [Next]_vars
             PROVE  TypeInv'
  OBVIOUS
<1> USE RemoteLockAssumptions
    DEF TypeInv, RemoteTypeOK, Chosen, Numbered, Acquiring, Holding, Steps, Goto, observers
<1>1. ASSUME NEW p \in Writers, Quiet(p)
      PROVE  TypeInv'
  BY <1>1 DEF Quiet
<1>2. ASSUME NEW p \in Writers, CreateLock(p) \/ CreateAnswerLost(p)
      PROVE  TypeInv'
  <2>1. lock' \in LockRecords
    BY <1>2, WrittenRecords DEF CreateLock, CreateAnswerLost
  <2> QED
    BY <1>2, <2>1 DEF CreateLock, CreateAnswerLost, AfterError
<1>3. ASSUME NEW p \in Writers, ReadToken(p)
      PROVE  TypeInv'
  BY <1>3 DEF ReadToken, NextToken
<1>4. ASSUME NEW p \in Writers, TokenUnreadable(p)
      PROVE  TypeInv'
  <2>1. counterLost' \in BOOLEAN
    BY <1>4 DEF TokenUnreadable
  <2> QED
    BY <1>4, <2>1 DEF TokenUnreadable
<1>5. ASSUME NEW p \in Writers, WriteToken(p) \/ InsertToken(p)
      PROVE  TypeInv'
  BY <1>5 DEF WriteToken, InsertToken
<1>6. ASSUME NEW p \in Writers, WriteRecord(p)
      PROVE  TypeInv'
  <2>1. lock' \in LockRecords
    BY <1>6, WrittenRecords DEF WriteRecord
  <2> QED
    BY <1>6, <2>1 DEF WriteRecord
<1>7. ASSUME NEW p \in Writers, AcquireFails(p)
      PROVE  TypeInv'
  <2>1. lock' \in LockRecords
    BY <1>7, WrittenRecords DEF AcquireFails
  <2>2. counterLost' \in BOOLEAN
    BY <1>7 DEF AcquireFails
  <2>3. counter' \in Nat
    BY <1>7 DEF AcquireFails
  <2> QED
    BY <1>7, <2>1, <2>2, <2>3 DEF AcquireFails, AfterError
<1>8. ASSUME NEW p \in Writers, BreakLock(p) \/ RemoveLock(p) \/ ReleaseRow(p)
      PROVE  TypeInv'
  <2>1. lock' \in LockRecords
    BY <1>8, WrittenRecords DEF BreakLock, RemoveLock, ReleaseRow
  <2> QED
    BY <1>8, <2>1 DEF BreakLock, RemoveLock, ReleaseRow
<1>9. CASE Age
  <2>1. lock' \in LockRecords
    BY <1>9 DEF Age, LockRecords
  <2> QED
    BY <1>9, <2>1 DEF Age
<1>10. CASE UNCHANGED vars
  BY <1>10 DEF vars
<1> QED
  BY <1>1, <1>2, <1>3, <1>4, <1>5, <1>6, <1>7, <1>8, <1>9, <1>10, QuietSteps DEF Next

\* The record, the counter and the writers' fields keep their types, and no handle
\* is granted without a token, whatever fails and however many processes break
\* locks: acquireLock of the S3, HTTP and SQL targets.
THEOREM RemoteTypeCorrect == Spec => []RemoteTypeOK
<1>1. Spec => []TypeInv
  BY TypeInvInit, TypeInvNext, PTL DEF Spec
<1> QED
  BY <1>1, PTL DEF TypeInv
-----------------------------------------------------------------------------
(* Exclusion *)

\* The inductive invariant holds initially.
LEMMA LockInvInit == Init => TokenInv
BY TypeInvInit, RemoteLockAssumptions
   DEF Init, TokenInv, LockInv, Exclusion, NoLock, UserOwnsRecord, BreakerFacesStale, GrantOrder,
       TokenOrder, Using, Acquiring, Holding, Numbered

\* While one writer uses the lock, no other does, and nobody is about to break it.
LEMMA UserIsAlone ==
    ASSUME Exclusion, NEW p \in Writers, Using(p)
    PROVE  /\ lock.owner = p /\ lock # NoLock
           /\ \A q \in Writers : Using(q) => q = p
           /\ \A q \in Writers : pc[q] # "break"
BY RemoteLockAssumptions DEF Exclusion, UserOwnsRecord, BreakerFacesStale, NoLock

\* Where there is no record, nobody uses the lock or is about to break it.
LEMMA NobodyWithoutRecord ==
    ASSUME Exclusion, lock = NoLock, NEW p \in Writers
    PROVE  ~Using(p) /\ pc[p] # "break"
BY RemoteLockAssumptions DEF Exclusion, UserOwnsRecord, BreakerFacesStale, NoLock

\* Every step keeps the exclusion of writers.
LEMMA ExclusionNext == Cautious /\ TypeInv /\ Exclusion /\ [Next]_vars => Exclusion'
<1> SUFFICES ASSUME Cautious, TypeInv, Exclusion, [Next]_vars
             PROVE  Exclusion'
  OBVIOUS
<1> USE RemoteLockAssumptions
    DEF TypeInv, RemoteTypeOK, Goto, Using, Acquiring, Holding
<1>1. ASSUME NEW p \in Writers, Quiet(p)
      PROVE  Exclusion'
  BY <1>1 DEF Quiet, Exclusion, UserOwnsRecord, BreakerFacesStale, NoLock
<1>2. ASSUME NEW p \in Writers, CreateLock(p) \/ CreateAnswerLost(p)
      PROVE  Exclusion'
  <2>1. \A q \in Writers : ~Using(q) /\ pc[q] # "break"
    BY <1>2, NobodyWithoutRecord DEF CreateLock, CreateAnswerLost, CanCreate
  <2>2. lock'.owner = p /\ ~lock'.stale
    BY <1>2 DEF CreateLock, CreateAnswerLost, Fresh
  <2>3. pc'[p] # "break" /\ \A q \in Writers \ {p} : pc'[q] = pc[q]
    BY <1>2 DEF CreateLock, CreateAnswerLost, AfterError
  <2> QED
    BY <2>1, <2>2, <2>3 DEF Exclusion, UserOwnsRecord, BreakerFacesStale
<1>3. ASSUME NEW p \in Writers,
             \/ ReadToken(p) \/ TokenUnreadable(p) \/ WriteToken(p) \/ InsertToken(p)
             \/ WriteRecord(p) \/ AcquireFails(p)
      PROVE  Exclusion'
  <2>1. Using(p)
    BY <1>3 DEF ReadToken, TokenUnreadable, WriteToken, InsertToken, WriteRecord, AcquireFails
  <2>2. /\ lock.owner = p /\ ~lock.stale /\ lock # NoLock
        /\ \A q \in Writers : Using(q) => q = p
        /\ \A q \in Writers : pc[q] # "break"
    BY <2>1, UserIsAlone DEF Exclusion, UserOwnsRecord
  <2>3. lock' = lock \/ \E n, g \in Nat : lock' = Fresh(p, n, g)
    BY <1>3 DEF ReadToken, TokenUnreadable, WriteToken, InsertToken, WriteRecord, AcquireFails
  <2>4. lock'.owner = p /\ ~lock'.stale
    BY <2>2, <2>3 DEF Fresh
  <2>5. pc'[p] # "break" /\ \A q \in Writers \ {p} : pc'[q] = pc[q]
    BY <1>3 DEF ReadToken, TokenUnreadable, WriteToken, InsertToken, WriteRecord, AcquireFails, AfterError
  <2> QED
    BY <2>2, <2>4, <2>5 DEF Exclusion, UserOwnsRecord, BreakerFacesStale
<1>4. ASSUME NEW p \in Writers, BreakLock(p)
      PROVE  Exclusion'
  <2>1. \A q \in Writers : ~Using(q) /\ (pc[q] = "break" => q = p)
    BY <1>4 DEF BreakLock, Exclusion, UserOwnsRecord, BreakerFacesStale, Cautious
  <2>2. pc'[p] \in {"create", "wait"} /\ \A q \in Writers \ {p} : pc'[q] = pc[q]
    BY <1>4 DEF BreakLock
  <2>3. lock' = lock \/ lock' = NoLock
    BY <1>4 DEF BreakLock
  <2> QED
    BY <2>1, <2>2, <2>3 DEF Exclusion, UserOwnsRecord, BreakerFacesStale
<1>5. ASSUME NEW p \in Writers, RemoveLock(p) \/ ReleaseRow(p)
      PROVE  Exclusion'
  <2>1. \A q \in Writers : (Using(q) => q = p) /\ pc[q] # "break"
    BY <1>5, UserIsAlone DEF RemoveLock, ReleaseRow
  <2>2. pc'[p] = "idle" /\ \A q \in Writers \ {p} : pc'[q] = pc[q]
    BY <1>5 DEF RemoveLock, ReleaseRow
  <2>3. lock' = lock \/ lock' = NoLock
    BY <1>5 DEF RemoveLock, ReleaseRow
  <2> QED
    BY <2>1, <2>2, <2>3 DEF Exclusion, UserOwnsRecord, BreakerFacesStale
<1>6. CASE Age
  <2>1. \A q \in Writers : ~Using(q)
    BY <1>6 DEF Age, Cautious, Exclusion, UserOwnsRecord
  <2>2. lock'.owner = lock.owner /\ lock.owner # NoOwner /\ lock'.stale /\ pc' = pc
    BY <1>6 DEF Age, Exclusion, LockRecords
  <2> QED
    BY <2>1, <2>2 DEF Exclusion, UserOwnsRecord, BreakerFacesStale
<1>7. CASE UNCHANGED vars
  BY <1>7 DEF vars, Exclusion, UserOwnsRecord, BreakerFacesStale
<1> QED
  BY <1>1, <1>2, <1>3, <1>4, <1>5, <1>6, <1>7, QuietSteps DEF Next

\* Every step keeps the order of grants.
LEMMA GrantOrderNext == LockInv /\ [Next]_vars => GrantOrder'
<1> SUFFICES ASSUME LockInv, [Next]_vars
             PROVE  GrantOrder'
  OBVIOUS
<1> USE RemoteLockAssumptions
    DEF LockInv, TypeInv, RemoteTypeOK, Goto, Using, Acquiring, Holding, Numbered, observers
<1>1. ASSUME NEW p \in Writers, Quiet(p)
      PROVE  GrantOrder'
  BY <1>1 DEF Quiet, GrantOrder
<1>2. ASSUME NEW p \in Writers, CreateLock(p) \/ CreateAnswerLost(p)
      PROVE  GrantOrder'
  <2>1. \A q \in Writers : ~Using(q)
    BY <1>2, NobodyWithoutRecord DEF CreateLock, CreateAnswerLost, CanCreate
  <2>2. lock'.grant = 0 /\ pc'[p] \notin Numbered \cup Holding
    BY <1>2 DEF CreateLock, CreateAnswerLost, AfterError, Fresh
  <2>3. \A q \in Writers \ {p} : pc'[q] = pc[q]
    BY <1>2 DEF CreateLock, CreateAnswerLost
  <2> QED
    BY <2>1, <2>2, <2>3 DEF GrantOrder
<1>3. ASSUME NEW p \in Writers,
             \/ ReadToken(p) \/ TokenUnreadable(p) \/ WriteToken(p) \/ InsertToken(p)
             \/ WriteRecord(p) \/ AcquireFails(p)
      PROVE  GrantOrder'
  <2>1. Using(p)
    BY <1>3 DEF ReadToken, TokenUnreadable, WriteToken, InsertToken, WriteRecord, AcquireFails
  <2>2. lock # NoLock /\ \A q \in Writers \ {p} : ~Using(q)
    BY <2>1, UserIsAlone
  <2>3. \A q \in Writers \ {p} : pc'[q] = pc[q]
    BY <1>3 DEF ReadToken, TokenUnreadable, WriteToken, InsertToken, WriteRecord, AcquireFails
  <2>4. CASE ReadToken(p) \/ TokenUnreadable(p) \/ WriteToken(p) \/ InsertToken(p)
    BY <2>2, <2>3, <2>4 DEF ReadToken, TokenUnreadable, WriteToken, InsertToken, GrantOrder
  <2>5. CASE WriteRecord(p)
    <3>1. lock'.grant = grants + 1 /\ grant'[p] = grants + 1 /\ grants' = grants + 1 /\ pc'[p] = "held"
      BY <2>2, <2>5 DEF WriteRecord, Fresh
    <3> QED
      BY <2>2, <2>3, <3>1 DEF GrantOrder
  <2>6. CASE AcquireFails(p)
    <3>1. ~Using(p)'
      BY <2>6 DEF AcquireFails, AfterError
    <3> QED
      BY <2>2, <2>3, <3>1 DEF GrantOrder
  <2> QED
    BY <1>3, <2>4, <2>5, <2>6
<1>4. ASSUME NEW p \in Writers, BreakLock(p) \/ RemoveLock(p) \/ ReleaseRow(p)
      PROVE  GrantOrder'
  <2>1. \A q \in Writers \ {p} : ~Using(q)
    <3>1. CASE BreakLock(p)
      BY <3>1 DEF BreakLock, Exclusion, UserOwnsRecord, BreakerFacesStale
    <3>2. CASE RemoveLock(p) \/ ReleaseRow(p)
      BY <3>2, UserIsAlone DEF RemoveLock, ReleaseRow
    <3> QED
      BY <1>4, <3>1, <3>2
  <2>2. ~Using(p)' /\ \A q \in Writers \ {p} : pc'[q] = pc[q]
    BY <1>4 DEF BreakLock, RemoveLock, ReleaseRow
  <2> QED
    BY <2>1, <2>2 DEF GrantOrder
<1>5. CASE Age
  <2>1. lock'.grant = lock.grant
    BY <1>5 DEF Age, LockRecords
  <2> QED
    BY <1>5, <2>1 DEF Age, GrantOrder
<1>6. CASE UNCHANGED vars
  BY <1>6 DEF vars, GrantOrder
<1> QED
  BY <1>1, <1>2, <1>3, <1>4, <1>5, <1>6, QuietSteps DEF Next

\* The invariant on exclusion and grants holds in every behaviour.
LEMMA LockInvAlways == ASSUME Cautious PROVE Spec => []LockInv
<1>1. Init => LockInv
  BY LockInvInit DEF TokenInv
<1>2. LockInv /\ [Next]_vars => LockInv'
  BY TypeInvNext, ExclusionNext, GrantOrderNext DEF LockInv
<1> QED
  BY <1>1, <1>2, PTL DEF Spec

\* Two writers never both have a handle that assertValid of the S3, HTTP or SQL
\* target accepts, for any number of processes and of failing requests, also when
\* the counter of tokens was lost and starts over.
THEOREM RemoteHandleIsUnique == ASSUME Cautious PROVE Spec => []OneValidHandle
<1>1. LockInv => OneValidHandle
  BY UserIsAlone DEF LockInv, OneValidHandle, Using
<1> QED
  BY <1>1, LockInvAlways, PTL
-----------------------------------------------------------------------------
(* Tokens *)

\* Every step keeps the order of tokens, unless it loses the counter.
LEMMA TokenOrderNext == TokenInv /\ [Next]_vars /\ ~counterLost' => TokenOrder'
<1> SUFFICES ASSUME TokenInv, [Next]_vars, ~counterLost'
             PROVE  TokenOrder'
  OBVIOUS
<1> USE RemoteLockAssumptions
    DEF TokenInv, LockInv, TypeInv, RemoteTypeOK, Goto, Using, Acquiring, Holding, Numbered, observers
<1>1. ASSUME NEW p \in Writers, Quiet(p)
      PROVE  TokenOrder'
  <2>1. TokenOrder /\ pc[p] # "insertToken" /\ pc'[p] \notin Numbered
    BY <1>1 DEF Quiet
  <2> QED
    BY <1>1, <2>1 DEF Quiet, TokenOrder
<1>2. ASSUME NEW p \in Writers, CreateLock(p) \/ CreateAnswerLost(p)
      PROVE  TokenOrder'
  <2>1. TokenOrder /\ pc[p] = "create" /\ pc'[p] \notin Numbered
    BY <1>2 DEF CreateLock, CreateAnswerLost, AfterError
  <2>2. UNCHANGED <<counter, token, granted>> /\ \A q \in Writers \ {p} : pc'[q] = pc[q]
    BY <1>2 DEF CreateLock, CreateAnswerLost
  <2> QED
    BY <2>1, <2>2 DEF TokenOrder
<1>3. ASSUME NEW p \in Writers,
             \/ ReadToken(p) \/ WriteToken(p) \/ InsertToken(p) \/ WriteRecord(p) \/ AcquireFails(p)
      PROVE  TokenOrder'
  <2>1. Using(p)
    BY <1>3 DEF ReadToken, WriteToken, InsertToken, WriteRecord, AcquireFails
  <2>2. \A q \in Writers \ {p} : ~Using(q)
    BY <2>1, UserIsAlone
  <2>3. \A q \in Writers \ {p} : pc'[q] = pc[q]
    BY <1>3 DEF ReadToken, WriteToken, InsertToken, WriteRecord, AcquireFails
  <2>4. ~counterLost
    BY <1>3 DEF ReadToken, WriteToken, InsertToken, WriteRecord, AcquireFails
  <2>5. TokenOrder /\ (pc[p] # "insertToken" => granted <= counter)
    BY <2>2, <2>4 DEF TokenOrder
  <2>6. CASE ReadToken(p)
    BY <2>2, <2>3, <2>5, <2>6 DEF ReadToken, NextToken, TokenOrder
  <2>7. CASE WriteToken(p)
    BY <2>2, <2>3, <2>5, <2>7 DEF WriteToken, TokenOrder
  <2>8. CASE InsertToken(p)
    BY <2>2, <2>3, <2>5, <2>8 DEF InsertToken, TokenOrder
  <2>9. CASE WriteRecord(p)
    BY <2>2, <2>3, <2>5, <2>9 DEF WriteRecord, TokenOrder
  <2>10. CASE AcquireFails(p)
    <3>1. ~Using(p)' /\ UNCHANGED <<token, granted>>
      BY <2>10 DEF AcquireFails, AfterError
    <3>2. \/ counter' = counter /\ pc[p] # "insertToken"
          \/ counter' = token[p] /\ pc[p] \in {"writeToken", "insertToken"}
      BY <2>10 DEF AcquireFails
    <3>3. granted <= counter'
      BY <2>5, <3>2 DEF TokenOrder
    <3> QED
      BY <2>2, <2>3, <3>1, <3>3 DEF TokenOrder
  <2> QED
    BY <1>3, <2>6, <2>7, <2>8, <2>9, <2>10
<1>4. ASSUME NEW p \in Writers, TokenUnreadable(p)
      PROVE  FALSE
  BY <1>4 DEF TokenUnreadable
<1>5. ASSUME NEW p \in Writers, BreakLock(p) \/ RemoveLock(p) \/ ReleaseRow(p)
      PROVE  TokenOrder'
  <2>1. TokenOrder /\ pc[p] # "insertToken" /\ pc'[p] \notin Numbered
    BY <1>5 DEF BreakLock, RemoveLock, ReleaseRow
  <2>2. UNCHANGED <<counter, token, granted>> /\ \A q \in Writers \ {p} : pc'[q] = pc[q]
    BY <1>5 DEF BreakLock, RemoveLock, ReleaseRow
  <2> QED
    BY <2>1, <2>2 DEF TokenOrder
<1>6. CASE Age \/ UNCHANGED vars
  BY <1>6 DEF Age, vars, TokenOrder
<1> QED
  BY <1>1, <1>2, <1>3, <1>4, <1>5, <1>6, QuietSteps DEF Next

\* A step that grants a handle takes a token above the last one granted, unless
\* the counter has been lost.
LEMMA GrantTakesGreaterToken ==
    TokenInv /\ [Next]_vars => [grants' > grants /\ ~counterLost => granted' > granted]_vars
<1> SUFFICES ASSUME TokenInv, [Next]_vars, grants' > grants, ~counterLost
             PROVE  granted' > granted
  OBVIOUS
<1> USE DEF TokenInv, LockInv, TypeInv, RemoteTypeOK, observers
<1>1. ASSUME NEW p \in Writers, WriteRecord(p)
      PROVE  granted' > granted
  BY <1>1 DEF WriteRecord, TokenOrder, Numbered
<1>2. ASSUME NEW p \in Writers,
             \/ CreateLock(p) \/ CreateAnswerLost(p) \/ ReadToken(p) \/ TokenUnreadable(p)
             \/ WriteToken(p) \/ InsertToken(p) \/ AcquireFails(p) \/ BreakLock(p)
             \/ RemoveLock(p) \/ ReleaseRow(p) \/ Quiet(p)
      PROVE  grants' = grants
  BY <1>2 DEF CreateLock, CreateAnswerLost, ReadToken, TokenUnreadable, WriteToken, InsertToken,
              AcquireFails, BreakLock, RemoveLock, ReleaseRow, Quiet
<1>3. CASE Age \/ UNCHANGED vars
  BY <1>3 DEF Age, vars
<1> QED
  BY <1>1, <1>2, <1>3, QuietSteps DEF Next

\* "A monotonically increasing fencing token": a handle has a greater token than
\* those granted before it, unless the counter could not be read or a SQL writer
\* was interrupted between its DELETE and its INSERT.
THEOREM FencingTokensGrow == ASSUME Cautious PROVE Spec => TokensGrow
<1>1. TokenInv /\ [Next]_vars => TokenInv'
  BY TypeInvNext, ExclusionNext, GrantOrderNext, TokenOrderNext DEF TokenInv, LockInv
<1>2. Spec => []TokenInv
  BY <1>1, LockInvInit, PTL DEF Spec
<1> QED
  BY <1>2, GrantTakesGreaterToken, PTL DEF Spec, TokensGrow
-----------------------------------------------------------------------------
(* Refinement *)

\* The protocols' initial states map to the atomic lock's.
LEMMA LockInitMaps == Init => Lock!Init
BY DEF Init, NoLock, Lock!Init, Holding

\* Every request maps to a step of the atomic lock or to a stutter.
LEMMA LockStepMaps == LockInv /\ [Next]_vars => [Lock!Next]_(Lock!vars)
<1> SUFFICES ASSUME LockInv, [Next]_vars
             PROVE  [Lock!Next]_(Lock!vars)
  OBVIOUS
<1> DEFINE owner == IF lock.grant = 0 THEN NoOwner ELSE lock.owner
           handle == [p \in Writers |-> IF pc[p] \in Holding THEN grant[p] ELSE 0]
<1> USE RemoteLockAssumptions DEF LockInv, TypeInv, RemoteTypeOK, Goto, observers
<1>1. ASSUME NEW p \in Writers, Quiet(p)
      PROVE  UNCHANGED Lock!vars \/ Lock!Abandon(p)
  <2>1. owner' = owner /\ grants' = grants
    BY <1>1 DEF Quiet
  <2>2. CASE pc'[p] \in Holding
    <3>1. pc[p] \in Holding
      BY <1>1, <2>2 DEF Quiet
    <3>2. handle' = handle
      BY <1>1, <2>2, <3>1 DEF Quiet
    <3> QED
      BY <2>1, <3>2 DEF Lock!vars
  <2>3. CASE pc'[p] \notin Holding
    <3>1. handle' = [handle EXCEPT ![p] = 0]
      BY <1>1, <2>3 DEF Quiet
    <3> QED
      BY <2>1, <3>1 DEF Lock!Abandon
  <2> QED
    BY <2>2, <2>3
<1>2. ASSUME NEW p \in Writers,
             \/ CreateLock(p) \/ CreateAnswerLost(p) \/ ReadToken(p) \/ TokenUnreadable(p)
             \/ WriteToken(p) \/ InsertToken(p) \/ AcquireFails(p)
      PROVE  UNCHANGED Lock!vars
  <2>1. lock' = lock \/ (lock.grant = 0 /\ lock'.grant = 0)
    BY <1>2 DEF CreateLock, CreateAnswerLost, CanCreate, ReadToken, TokenUnreadable, WriteToken,
                InsertToken, AcquireFails, NoLock, Fresh, GrantOrder, Acquiring
  <2>2. owner' = owner
    BY <2>1
  <2>3. /\ pc[p] \notin Holding /\ pc'[p] \notin Holding
        /\ \A q \in Writers \ {p} : pc'[q] = pc[q]
        /\ grant' = grant /\ grants' = grants
    BY <1>2 DEF CreateLock, CreateAnswerLost, ReadToken, TokenUnreadable, WriteToken, InsertToken,
                AcquireFails, AfterError, Acquiring, Holding
  <2>4. handle' = handle
    BY <2>3
  <2> QED
    BY <2>2, <2>3, <2>4 DEF Lock!vars
<1>3. ASSUME NEW p \in Writers, WriteRecord(p)
      PROVE  Lock!Acquire(p)
  <2>1. Using(p) /\ lock # NoLock
    BY <1>3, UserIsAlone DEF WriteRecord, Using, Acquiring
  <2>2. handle[p] = 0 /\ owner = NoOwner /\ grants + 1 \in 1..MaxGrants /\ grants + 1 > grants
    BY <1>3 DEF WriteRecord, GrantOrder, Acquiring, Holding, Numbered
  <2>3. handle' = [handle EXCEPT ![p] = grants + 1]
    BY <1>3 DEF WriteRecord, Holding
  <2>4. owner' = p /\ grants' = grants + 1
    BY <1>3, <2>1 DEF WriteRecord, Fresh
  <2> QED
    BY <2>2, <2>3, <2>4 DEF Lock!Acquire
<1>4. ASSUME NEW p \in Writers, RemoveLock(p) \/ ReleaseRow(p)
      PROVE  Lock!Release(p) \/ Lock!Abandon(p)
  <2>1. pc[p] \in Holding /\ pc'[p] \notin Holding /\ UNCHANGED <<grants, grant>>
        /\ \A q \in Writers \ {p} : pc'[q] = pc[q]
    BY <1>4 DEF RemoveLock, ReleaseRow, Holding
  <2>2. handle' = [handle EXCEPT ![p] = 0]
    BY <1>4 DEF RemoveLock, ReleaseRow, Holding
  <2>3. CASE lock' = lock
    BY <2>1, <2>2, <2>3 DEF Lock!Abandon
  <2>4. CASE lock' = NoLock
    <3>1. lock.owner = p
      BY <2>1, UserIsAlone DEF Using
    <3>2. owner = p /\ handle[p] = grants
      BY <2>1, <3>1 DEF GrantOrder
    <3>3. owner' = NoOwner
      BY <2>4 DEF NoLock
    <3> QED
      BY <2>1, <2>2, <3>2, <3>3 DEF Lock!Release
  <2> QED
    BY <1>4, <2>3, <2>4 DEF RemoveLock, ReleaseRow
<1>5. ASSUME NEW p \in Writers, BreakLock(p)
      PROVE  UNCHANGED Lock!vars \/ Lock!Break
  <2>1. pc[p] \notin Holding /\ pc'[p] \notin Holding /\ UNCHANGED <<grants, grant>>
        /\ \A q \in Writers \ {p} : pc'[q] = pc[q]
    BY <1>5 DEF BreakLock, Holding
  <2>2. handle' = handle
    BY <2>1
  <2>3. CASE lock' = lock \/ owner = NoOwner
    <3>1. owner' = owner
      BY <1>5, <2>3 DEF BreakLock, NoLock
    <3> QED
      BY <2>1, <2>2, <3>1 DEF Lock!vars
  <2>4. CASE lock' = NoLock /\ owner # NoOwner
    <3>1. owner \in Writers /\ ~Using(owner)
      BY <1>5, <2>4 DEF BreakLock, Exclusion, UserOwnsRecord, BreakerFacesStale, LockRecords
    <3>2. handle[owner] = 0
      BY <3>1 DEF Using
    <3>3. owner' = NoOwner
      BY <2>4 DEF NoLock
    <3> QED
      BY <2>1, <2>2, <2>4, <3>2, <3>3 DEF Lock!Break
  <2> QED
    BY <1>5, <2>3, <2>4 DEF BreakLock
<1>6. CASE Age
  <2>1. owner' = owner /\ handle' = handle /\ grants' = grants
    BY <1>6 DEF Age, LockRecords
  <2> QED
    BY <2>1 DEF Lock!vars
<1>7. CASE UNCHANGED vars
  BY <1>7 DEF vars, Lock!vars
<1> QED
  BY <1>1, <1>2, <1>3, <1>4, <1>5, <1>6, <1>7, QuietSteps DEF Next, Lock!Next

\* The requests of the three targets amount to an atomic lock that one writer holds,
\* grant after grant.
THEOREM RemoteLockImplementsWriterLock == ASSUME Cautious PROVE Spec => ImplementsWriterLock
<1>1. LockInv /\ [Next]_vars => [Lock!Next]_(Lock!vars)
  BY LockStepMaps
<1> QED
  BY <1>1, LockInvAlways, LockInitMaps, PTL DEF Spec, ImplementsWriterLock, Lock!Spec
=============================================================================
