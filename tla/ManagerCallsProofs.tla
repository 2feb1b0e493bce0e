------------------------- MODULE ManagerCallsProofs -------------------------
(***************************************************************************)
(* Proofs about ManagerCalls, for any set of calls of any kinds, nested    *)
(* and ordered in any way: sections do not overlap, failed calls leave no  *)
(* trace, acknowledged ones stay, joined updates share the fate of their   *)
(* transaction, the schema version fits the root as long as migrations do  *)
(* not overlap, and shutdown() leaves no lock behind.                      *)
(***************************************************************************)
EXTENDS ManagerCalls, SequenceTheorems, FiniteSetTheorems, TLAPS

Section == {"working", "storing", "publishing"}
Points == Section \cup {"idle", "queued", "retrying", "between", "done"}
Roots == [edits : SUBSET (Calls \cup {Foreign}), applied : [Migrations -> Int]]
MigrationSteps == [version : Nat, from : Nat, to : Nat]

\* TypeOK, with the types of what it leaves open.
TypeInv ==
    /\ chain \in Seq(Calls)
    /\ pc \in [Calls -> Points] /\ outcome \in [Calls -> {"none", "ok", "failed", "rejected"}]
    /\ host \in [Calls -> Calls \cup {NoCall}]
    /\ plan \in [Calls -> Seq(MigrationSteps)] /\ attempt \in [Calls -> Nat]
    /\ handle \in [Calls -> {"none", "startup", "own"}]
    /\ root \in Roots /\ envelope \in Roots
    /\ rollback \in [root : Roots, schema : Nat]
    /\ durable \in [root : Roots, schema : Nat, txn : Nat]
    /\ schemaVersion \in Nat /\ transactionId \in Nat /\ foreignCommits \in Nat

\* Where a call may be, and what it has with it.
CallInv ==
    /\ \A c \in Calls : pc[c] = "done" <=> outcome[c] # "none"
    /\ \A c \in Calls : pc[c] = "between" => Kind[c] = "migrate"
    /\ \A c \in Calls : pc[c] = "retrying" => Kind[c] = "optimistic" /\ attempt[c] < MaxRetries
    /\ \A c \in Calls : attempt[c] <= MaxRetries
    /\ \A c \in Calls : Kind[c] = "migrate" /\ pc[c] \notin {"idle", "done"} => plan[c] # <<>>

\* A call whose work runs as a transaction.
InScope(c) == pc[c] = "working" /\ Kind[c] \in Transactional

\* The section that runs belongs to the first of the chain; transactionDepth is 1
\* exactly while it is a transaction's work.
SectionInv ==
    /\ \A c \in Calls : pc[c] \in Section => chain # <<>> /\ Head(chain) = c
    /\ transactionDepth = IF \E c \in Calls : InScope(c) THEN 1 ELSE 0

\* Only a section holds a lock; an update and an optimistic transaction take it
\* when their work is done.
HandleInv ==
    /\ \A c \in Calls : handle[c] # "none" =>
         /\ pc[c] \in Section
         /\ pc[c] = "working" => Kind[c] \in {"pessimistic", "migrate"}
    /\ ~started => ~startupLock

\* An update() that joined a transaction is done.
HostInv ==
    \A c \in Calls : host[c] # NoCall => pc[c] = "done" /\ Kind[c] = "update" /\ Kind[host[c]] \in Transactional

Publishing == \E d \in Calls : pc[d] = "publishing"

\* The call that commits or rolls back the edit of c: c, or the one it joined.
Owner(c) == IF host[c] = NoCall THEN c ELSE host[c]

Atomic == {"update", "pessimistic", "optimistic"}
Undone(c) == pc[c] \in {"idle", "queued", "retrying"} \/ outcome[c] \in {"failed", "rejected"}

\* The edit of a call that has not begun, or is undone, is nowhere; that of a
\* section is not in what the section would go back to.
Traceless(c) ==
    /\ Undone(Owner(c)) =>
         /\ c \notin root.edits /\ c \notin rollback.root.edits /\ c \notin durable.root.edits
         /\ Publishing => c \notin envelope.edits
    /\ pc[Owner(c)] \in Section => c \notin rollback.root.edits /\ c \notin durable.root.edits

TraceInv == \A c \in Calls : Kind[c] \in Atomic /\ Kind[Owner(c)] \in Atomic => Traceless(c)

\* What has been acknowledged, by this manager and by others.
Acknowledged ==
    {c \in Calls : Kind[c] \in Atomic \cup {"gvql"} /\ Alone(c) /\ outcome[c] = "ok"}
        \cup (IF foreignCommits > 0 THEN {Foreign} ELSE {})

\* The section that runs can go back to its copy of the root.
MayRollBack == \E c \in Calls : pc[c] \in Section /\ Kind[c] \notin {"put", "gvql"}

\* A manager that knows the last transaction has all acknowledged edits, and who
\* holds a valid lock knows it.
AckInv ==
    /\ Acknowledged \subseteq durable.root.edits
    /\ transactionId <= durable.txn
    /\ startupLock => transactionId = durable.txn
    /\ \A c \in Calls : handle[c] = "own" => transactionId = durable.txn
    /\ transactionId = durable.txn =>
         /\ Acknowledged \subseteq root.edits
         /\ MayRollBack => Acknowledged \subseteq rollback.root.edits
         /\ Publishing => Acknowledged \subseteq envelope.edits
    /\ \A c \in Calls : Kind[c] \in Atomic \cup {"gvql"} /\ pc[c] \in Section =>
         /\ c \in root.edits
         /\ pc[c] = "publishing" => c \in envelope.edits
-----------------------------------------------------------------------------
(* The data of the calls. *)

\* An edit adds its call to the content of a root, and nothing else.
LEMMA EditedRoot ==
    ASSUME NEW r \in Roots, NEW c \in Calls \cup {Foreign}
    PROVE  Edited(r, c) \in Roots /\ Edited(r, c).edits = r.edits \cup {c}
BY DEF Edited, Roots

\* A migration changes how often migrations have been applied, and nothing else.
LEMMA MigratedRoot ==
    ASSUME NEW r \in Roots, NEW s \in MigrationSteps
    PROVE  Migrated(r, s) \in Roots /\ Migrated(r, s).edits = r.edits
<1>1. Migrated(r, s).edits = r.edits
  BY DEF Migrated, Roots
<1>2. Migrated(r, s) \in Roots
  BY DEF Migrated, Roots, MigrationSteps
<1> QED
  BY <1>1, <1>2

\* The steps of a plan, up or down.
LEMMA PlanIsSequence ==
    ASSUME NEW v \in Nat, NEW t \in Nat
    PROVE  MigrationPlan(v, t) \in Seq(MigrationSteps)
<1>1. CASE t > v
  <2>1. t - v \in Nat
    BY <1>1
  <2>2. \A i \in 1..(t - v) : Step(v + i, v + i - 1, v + i) \in MigrationSteps
    BY <2>1 DEF Step, MigrationSteps
  <2>3. UpPlan(v, t) \in [1..(t - v) -> MigrationSteps]
    BY <2>2 DEF UpPlan
  <2> QED
    BY <1>1, <2>1, <2>3 DEF MigrationPlan, UpPlan
<1>2. CASE ~(t > v)
  <2>1. v - t \in Nat
    BY <1>2
  <2>2. \A i \in 1..(v - t) : Step(v - i + 1, v - i + 1, v - i) \in MigrationSteps
    BY <2>1 DEF Step, MigrationSteps
  <2>3. DownPlan(v, t) \in [1..(v - t) -> MigrationSteps]
    BY <2>2 DEF DownPlan
  <2> QED
    BY <1>2, <2>1, <2>3 DEF MigrationPlan, DownPlan
<1> QED
  BY <1>1, <1>2

\* What the mutex does to its chain.
LEMMA ChainOperations ==
    ASSUME chain \in Seq(Calls), NEW c \in Calls
    PROVE  /\ Append(chain, c) \in Seq(Calls) /\ Append(chain, c) # <<>>
           /\ chain # <<>> => /\ Tail(chain) \in Seq(Calls) /\ Head(chain) \in Calls
                              /\ Head(Append(chain, c)) = Head(chain)
<1>1. Append(chain, c) \in Seq(Calls) /\ Append(chain, c) # <<>>
  BY AppendProperties, LenProperties, EmptySeq
<1>2. chain # <<>> => Tail(chain) \in Seq(Calls) /\ Head(chain) \in Calls
  BY HeadTailProperties
<1>3. chain # <<>> => Head(Append(chain, c)) = Head(chain)
  BY AppendProperties, LenProperties, EmptySeq, HeadTailProperties
<1> QED
  BY <1>1, <1>2, <1>3

\* A plan loses its first step when the step is published.
LEMMA PlanOperations ==
    ASSUME NEW p \in Seq(MigrationSteps), p # <<>>
    PROVE  /\ Tail(p) \in Seq(MigrationSteps) /\ Head(p) \in MigrationSteps
           /\ Len(p) > 1 => Tail(p) # <<>>
OBVIOUS
-----------------------------------------------------------------------------
(* Types *)

\* The invariants on types and on where calls may be hold initially.
LEMMA InitKeeps == Init => TypeInv /\ CallInv /\ SectionInv /\ HandleInv
<1> SUFFICES ASSUME Init
             PROVE  TypeInv /\ CallInv /\ SectionInv /\ HandleInv
  OBVIOUS
<1> USE CallsAssumption DEF Init
<1>1. root \in Roots /\ envelope = root /\ rollback.root = root /\ durable.root = root
  BY DEF Roots
<1>2. TypeInv
  BY <1>1 DEF TypeInv, Points, Section
<1>3. CallInv /\ SectionInv /\ HandleInv
  BY DEF CallInv, SectionInv, HandleInv, InScope, Section
<1> QED
  BY <1>2, <1>3

\* Every step of the calls keeps the types.
LEMMA TypeInvNext == TypeInv /\ CallInv /\ SectionInv /\ [Next]_vars => TypeInv'
<1> SUFFICES ASSUME TypeInv, CallInv, SectionInv, [Next]_vars
             PROVE  TypeInv'
  OBVIOUS
<1> USE CallsAssumption
    DEF TypeInv, Ends, TakeTail, Release, callVars, liveVars, lockVars, Points, Section
<1>1. ASSUME NEW c \in Calls, Issue(c)
      PROVE  TypeInv'
  <2>1. CASE RejectCall(c)
    BY <2>1, EditedRoot DEF RejectCall
  <2>2. CASE JoinTransaction(c)
    <3>1. chain # <<>>
      BY <2>2 DEF JoinTransaction, SectionInv, InScope
    <3> QED
      BY <2>2, <3>1, EditedRoot, ChainOperations DEF JoinTransaction
  <2>3. CASE IssueCall(c)
    BY <2>3, EditedRoot, ChainOperations DEF IssueCall, PutEdit
  <2>4. CASE MigrateTo(c)
    <3>1. MigrationPlan(schemaVersion, Target[c]) \in Seq(MigrationSteps)
      BY <2>4, PlanIsSequence DEF MigrateTo
    <3> QED
      BY <2>4, <3>1, ChainOperations DEF MigrateTo
  <2> QED
    BY <1>1, <2>1, <2>2, <2>3, <2>4 DEF Issue
<1>2. ASSUME NEW c \in Calls, Begin(c)
      PROVE  TypeInv'
  <2>0. chain # <<>>
    BY <1>2 DEF Begin, BeginStore, BeginGvql, BeginUpdate, BeginTransaction, Collect, Turn
  <2>1. CASE BeginStore(c)
    BY <2>0, <2>1, ChainOperations DEF BeginStore, Fails, LeavesLock, TakesLock
  <2>2. CASE BeginGvql(c)
    <3>1. root' \in Roots /\ envelope' \in Roots /\ schemaVersion' \in Nat
      BY <2>2, EditedRoot DEF BeginGvql, Fails
    <3>2. chain' \in Seq(Calls) /\ pc' \in [Calls -> Points] /\ handle' \in [Calls -> {"none", "startup", "own"}]
          /\ outcome' \in [Calls -> {"none", "ok", "failed", "rejected"}]
      BY <2>0, <2>2, ChainOperations DEF BeginGvql, Fails, LeavesLock, TakesLock
    <3> QED
      BY <2>2, <3>1, <3>2 DEF BeginGvql
  <2>3. CASE BeginUpdate(c)
    <3>1. root' \in Roots /\ rollback' \in [root : Roots, schema : Nat]
      BY <2>3, EditedRoot DEF BeginUpdate, Live
    <3>2. chain' \in Seq(Calls) /\ pc' \in [Calls -> Points]
          /\ outcome' \in [Calls -> {"none", "ok", "failed", "rejected"}]
      BY <2>0, <2>3, ChainOperations DEF BeginUpdate
    <3> QED
      BY <2>3, <3>1, <3>2 DEF BeginUpdate
  <2>4. CASE BeginTransaction(c)
    <3>1. Kind[c] = "migrate" => Head(plan[c]) \in MigrationSteps
      BY <2>4, PlanOperations DEF BeginTransaction, CallInv, Turn
    <3>2. root' \in Roots /\ schemaVersion' \in Nat
      BY <2>4, <3>1, EditedRoot, MigratedRoot DEF BeginTransaction, MigrationSteps
    <3>3. chain' \in Seq(Calls) /\ pc' \in [Calls -> Points]
          /\ outcome' \in [Calls -> {"none", "ok", "failed", "rejected"}]
      <4>1. \/ pc' = [pc EXCEPT ![c] = "working"] /\ UNCHANGED <<chain, outcome>>
            \/ Ends(c, "failed") /\ Release
        BY <2>4 DEF BeginTransaction
      <4> QED
        BY <2>0, <4>1, ChainOperations
    <3>4. handle' \in [Calls -> {"none", "startup", "own"}]
      BY <2>4 DEF BeginTransaction, TakesLock
    <3>5. rollback' \in [root : Roots, schema : Nat] /\ transactionId' \in Nat
      BY <2>4 DEF BeginTransaction
    <3> QED
      BY <2>4, <3>2, <3>3, <3>4, <3>5 DEF BeginTransaction
  <2>5. CASE Collect(c)
    BY <2>0, <2>5, ChainOperations DEF Collect
  <2> QED
    BY <1>2, <2>1, <2>2, <2>3, <2>4, <2>5 DEF Begin
<1>3. ASSUME NEW c \in Calls, Continue(c)
      PROVE  TypeInv'
  <2>0. pc[c] \in Section => chain # <<>>
    BY DEF SectionInv
  <2>1. CASE WorkThrows(c) \/ WorkIsRefused(c) \/ CommitFails(c)
    BY <2>0, <2>1, ChainOperations DEF WorkThrows, WorkIsRefused, CommitFails, CallbackIsDone, Fails, LeavesLock
  <2>2. CASE WorkEnds(c)
    BY <2>2 DEF WorkEnds, TakesLock
  <2>3. CASE WorkRetries(c)
    BY <2>0, <2>3, ChainOperations DEF WorkRetries, CallbackIsDone
  <2>4. CASE Retry(c)
    BY <2>4, ChainOperations DEF Retry
  <2>5. CASE Serialize(c)
    BY <2>5 DEF Serialize
  <2>6. CASE Publish(c)
    <3>1. Kind[c] = "migrate" => Tail(plan[c]) \in Seq(MigrationSteps)
      BY <2>6, PlanOperations DEF Publish, CallInv
    <3>2. durable' \in [root : Roots, schema : Nat, txn : Nat] /\ transactionId' \in Nat
      BY <2>6 DEF Publish
    <3>3. chain' \in Seq(Calls) /\ pc' \in [Calls -> Points]
          /\ outcome' \in [Calls -> {"none", "ok", "failed", "rejected"}]
      BY <2>0, <2>6, ChainOperations DEF Publish
    <3>4. handle' \in [Calls -> {"none", "startup", "own"}] /\ plan' \in [Calls -> Seq(MigrationSteps)]
      <4>1. handle' \in [Calls -> {"none", "startup", "own"}]
        BY <2>6 DEF Publish, LeavesLock
      <4>2. plan' \in [Calls -> Seq(MigrationSteps)]
        BY <2>6, <3>1 DEF Publish
      <4> QED
        BY <4>1, <4>2
    <3> QED
      BY <2>6, <3>1, <3>2, <3>3, <3>4 DEF Publish
  <2>7. CASE NextMigration(c)
    BY <2>7, ChainOperations DEF NextMigration
  <2> QED
    BY <1>3, <2>1, <2>2, <2>3, <2>4, <2>5, <2>6, <2>7 DEF Continue
<1>4. CASE ShutdownReleases \/ ShutdownEnds
  BY <1>4 DEF ShutdownReleases, ShutdownEnds
<1>5. CASE ForeignCommit
  <2>1. Edited(durable.root, Foreign) \in Roots
    BY EditedRoot
  <2>2. durable' \in [root : Roots, schema : Nat, txn : Nat]
    <3>1. durable' = [root |-> Edited(durable.root, Foreign), schema |-> durable.schema, txn |-> durable.txn + 1]
      BY <1>5 DEF ForeignCommit
    <3> QED
      BY <2>1, <3>1
  <2> QED
    BY <1>5, <2>2 DEF ForeignCommit
<1>6. CASE UNCHANGED vars
  BY <1>6 DEF vars
<1> QED
  BY <1>1, <1>2, <1>3, <1>4, <1>5, <1>6 DEF Next, Quiet
-----------------------------------------------------------------------------
(* Sections *)

\* How a step of a call moves it through the mutex and through its transaction.
Moves(c, s) == pc' = [pc EXCEPT ![c] = s]

Outside(c) == /\ pc[c] \notin Section /\ \E s \in Points \ Section : Moves(c, s)
              /\ chain' \in {chain, Append(chain, c)} /\ transactionDepth' = transactionDepth

Enters(c) == /\ Turn(c) /\ chain' = chain
             /\ \E s \in Section : /\ Moves(c, s)
                                  /\ transactionDepth' = IF s = "working" /\ Kind[c] \in Transactional
                                                            THEN transactionDepth + 1 ELSE transactionDepth

Passes(c) == Turn(c) /\ Moves(c, "done") /\ chain' = Tail(chain) /\ transactionDepth' = transactionDepth

Stays(c) == /\ pc[c] \in Section /\ \E s \in {"storing", "publishing"} : Moves(c, s)
            /\ chain' = chain
            /\ transactionDepth' = IF InScope(c) THEN transactionDepth - 1 ELSE transactionDepth

Leaves(c) == /\ pc[c] \in Section /\ \E s \in {"done", "retrying", "between"} : Moves(c, s)
             /\ chain' = Tail(chain)
             /\ transactionDepth' = IF InScope(c) THEN transactionDepth - 1 ELSE transactionDepth

Elsewhere == UNCHANGED <<chain, pc, transactionDepth>>

\* Every step is one of these moves of one call, or moves none.
LEMMA SectionMoves ==
    [Next]_vars => Elsewhere \/ \E c \in Calls : Outside(c) \/ Enters(c) \/ Passes(c) \/ Stays(c) \/ Leaves(c)
<1> SUFFICES ASSUME [Next]_vars
             PROVE  Elsewhere \/ \E c \in Calls : Outside(c) \/ Enters(c) \/ Passes(c) \/ Stays(c) \/ Leaves(c)
  OBVIOUS
<1> USE DEF Moves, Ends, TakeTail, Release, callVars, liveVars, lockVars, Points, Section
<1>1. ASSUME NEW c \in Calls, Issue(c)
      PROVE  Outside(c)
  BY <1>1 DEF Issue, RejectCall, JoinTransaction, IssueCall, MigrateTo, MayIssue, Outside
<1>2. ASSUME NEW c \in Calls, Begin(c)
      PROVE  Enters(c) \/ Passes(c)
  <2>1. CASE BeginStore(c) \/ BeginGvql(c)
    BY <2>1 DEF BeginStore, BeginGvql, Fails, Enters, Passes
  <2>2. CASE BeginUpdate(c)
    BY <2>2 DEF BeginUpdate, Enters, Passes, Transactional
  <2>3. CASE BeginTransaction(c)
    BY <2>3 DEF BeginTransaction, Enters, Passes
  <2>4. CASE Collect(c)
    BY <2>4 DEF Collect, Passes
  <2> QED
    BY <1>2, <2>1, <2>2, <2>3, <2>4 DEF Begin
<1>3. ASSUME NEW c \in Calls, Continue(c)
      PROVE  Outside(c) \/ Stays(c) \/ Leaves(c)
  <2>1. CASE WorkThrows(c) \/ WorkIsRefused(c) \/ WorkRetries(c)
    BY <2>1 DEF WorkThrows, WorkIsRefused, WorkRetries, CallbackIsDone, LeavesScope, Fails, Leaves, InScope
  <2>2. CASE WorkEnds(c)
    BY <2>2 DEF WorkEnds, CallbackIsDone, LeavesScope, Stays, InScope
  <2>3. CASE Retry(c) \/ NextMigration(c)
    BY <2>3 DEF Retry, NextMigration, Outside
  <2>4. CASE Serialize(c)
    BY <2>4 DEF Serialize, Stays, InScope
  <2>5. CASE Publish(c) \/ CommitFails(c)
    BY <2>5 DEF Publish, CommitFails, Fails, Leaves, InScope
  <2> QED
    BY <1>3, <2>1, <2>2, <2>3, <2>4, <2>5 DEF Continue
<1>4. CASE ShutdownReleases \/ ShutdownEnds \/ ForeignCommit \/ UNCHANGED vars
  BY <1>4 DEF ShutdownReleases, ShutdownEnds, ForeignCommit, vars, Elsewhere
<1> QED
  BY <1>1, <1>2, <1>3, <1>4 DEF Next, Quiet

\* When a call has its turn no section runs; while one runs no other does.
LEMMA SectionIsAlone ==
    ASSUME SectionInv, NEW c \in Calls
    PROVE  /\ Turn(c) => \A d \in Calls : pc[d] \notin Section
           /\ pc[c] \in Section => \A d \in Calls : pc[d] \in Section => d = c
BY DEF SectionInv, Turn, Section

\* Every step keeps the sections apart and the depth right.
LEMMA SectionInvNext == TypeInv /\ SectionInv /\ [Next]_vars => SectionInv'
<1> SUFFICES ASSUME TypeInv, SectionInv, [Next]_vars
             PROVE  SectionInv'
  OBVIOUS
<1>0. chain \in Seq(Calls) /\ pc \in [Calls -> Points]
  BY DEF TypeInv
<1>1. ASSUME NEW c \in Calls, Outside(c)
      PROVE  SectionInv'
  <2>1. \A d \in Calls : pc'[d] = pc[d] \/ (pc[d] \notin Section /\ pc'[d] \notin Section)
    <3>1. PICK s \in Points \ Section : Moves(c, s)
      BY <1>1 DEF Outside
    <3> QED
      BY <1>0, <1>1, <3>1 DEF Outside, Moves
  <2>2. chain # <<>> => chain' # <<>> /\ Head(chain') = Head(chain)
    BY <1>0, <1>1, ChainOperations DEF Outside
  <2>3. \A d \in Calls : InScope(d)' <=> InScope(d)
    BY <2>1 DEF InScope, Section
  <2>4. \A d \in Calls : pc'[d] \in Section => chain' # <<>> /\ Head(chain') = d
    BY <2>1, <2>2 DEF SectionInv
  <2>5. (\E d \in Calls : InScope(d))' <=> \E d \in Calls : InScope(d)
    BY <2>3
  <2> QED
    BY <1>1, <2>4, <2>5 DEF SectionInv, Outside
<1>2. ASSUME NEW c \in Calls, Enters(c)
      PROVE  SectionInv'
  <2>1. \A d \in Calls : pc[d] \notin Section
    BY <1>2, SectionIsAlone DEF Enters
  <2>2. \A d \in Calls : pc'[d] \in Section <=> d = c
    BY <1>0, <1>2, <2>1 DEF Enters, Moves
  <2>3. \A d \in Calls : InScope(d)' <=> d = c /\ pc'[c] = "working" /\ Kind[c] \in Transactional
    BY <2>2 DEF InScope, Section
  <2>4. transactionDepth = 0
    BY <2>1 DEF SectionInv, InScope, Section
  <2>5. transactionDepth' = IF pc'[c] = "working" /\ Kind[c] \in Transactional THEN 1 ELSE 0
    BY <1>0, <1>2, <2>4 DEF Enters, Moves
  <2> QED
    BY <1>2, <2>2, <2>3, <2>5 DEF SectionInv, Enters, Turn
<1>3. ASSUME NEW c \in Calls, Passes(c)
      PROVE  SectionInv'
  <2>1. \A d \in Calls : pc[d] \notin Section
    BY <1>3, SectionIsAlone DEF Passes
  <2>2. \A d \in Calls : pc'[d] \notin Section
    BY <1>0, <1>3, <2>1 DEF Passes, Moves, Section
  <2> QED
    BY <1>3, <2>1, <2>2 DEF SectionInv, Passes, InScope, Section
<1>4. ASSUME NEW c \in Calls, Stays(c) \/ Leaves(c)
      PROVE  SectionInv'
  <2>1. \A d \in Calls : pc[d] \in Section <=> d = c
    BY <1>4, SectionIsAlone DEF Stays, Leaves
  <2>2. \A d \in Calls : InScope(d) <=> d = c /\ InScope(c)
    BY <2>1 DEF InScope, Section
  <2>3. pc'[c] # "working" /\ \A d \in Calls \ {c} : pc'[d] = pc[d]
    BY <1>0, <1>4 DEF Stays, Leaves, Moves
  <2>4. \A d \in Calls : ~InScope(d)'
    BY <2>1, <2>3 DEF InScope, Section
  <2>5. transactionDepth' = 0
    BY <1>4, <2>2 DEF SectionInv, Stays, Leaves
  <2>6. \A d \in Calls : pc'[d] \in Section => d = c /\ chain' = chain
    BY <1>0, <1>4, <2>1, <2>3 DEF Stays, Leaves, Moves, Section
  <2> QED
    BY <2>1, <2>4, <2>5, <2>6 DEF SectionInv
<1>5. CASE Elsewhere
  BY <1>5 DEF Elsewhere, SectionInv, InScope
<1> QED
  BY <1>1, <1>2, <1>3, <1>4, <1>5, SectionMoves

\* A step of a call that only changes where it is and how it ended.
OnlyMoves(c) ==
    /\ \E s \in Points \ {"between", "retrying"} :
         /\ Moves(c, s)
         /\ s = "done" <=> outcome'[c] # "none"
         /\ pc[c] = "idle" /\ Kind[c] = "migrate" => s = "done"
    /\ \A d \in Calls \ {c} : outcome'[d] = outcome[d]
    /\ UNCHANGED <<plan, attempt>>

\* Every step keeps what is known of where the calls are.
LEMMA CallInvNext == TypeInv /\ CallInv /\ [Next]_vars => CallInv'
<1> SUFFICES ASSUME TypeInv, CallInv, [Next]_vars
             PROVE  CallInv'
  OBVIOUS
<1> USE CallsAssumption DEF TypeInv, Moves, callVars, liveVars, lockVars
<1>1. ASSUME NEW c \in Calls, OnlyMoves(c), pc[c] # "done"
      PROVE  CallInv'
  BY <1>1 DEF OnlyMoves, CallInv, Points, Section
<1>2. ASSUME NEW c \in Calls, Issue(c)
      PROVE  CallInv'
  <2>1. CASE RejectCall(c) \/ JoinTransaction(c)
    <3>1. pc[c] = "idle" /\ UNCHANGED <<plan, attempt>>
      BY <2>1 DEF RejectCall, JoinTransaction, MayIssue
    <3>2. \E result \in {"rejected", "ok", "failed"} : Ends(c, result)
      BY <2>1 DEF RejectCall, JoinTransaction
    <3>3. OnlyMoves(c)
      BY <3>1, <3>2 DEF Ends, OnlyMoves, Points, Section
    <3> QED
      BY <1>1, <3>1, <3>3
  <2>2. CASE IssueCall(c)
    BY <2>2 DEF IssueCall, MayIssue, CallInv
  <2>3. CASE MigrateTo(c)
    <3>1. pc[c] = "idle" /\ UNCHANGED attempt /\ Kind[c] = "migrate"
      BY <2>3 DEF MigrateTo, MayIssue
    <3>2. CASE Ends(c, "ok") /\ plan' = [plan EXCEPT ![c] = <<>>]
      BY <3>1, <3>2 DEF Ends, CallInv
    <3>3. CASE Moves(c, "queued") /\ outcome' = outcome /\ plan'[c] # <<>>
               /\ \A d \in Calls \ {c} : plan'[d] = plan[d]
      BY <3>1, <3>3 DEF CallInv
    <3>4. \/ Ends(c, "ok") /\ plan' = [plan EXCEPT ![c] = <<>>]
          \/ Moves(c, "queued") /\ outcome' = outcome /\ plan'[c] # <<>>
             /\ \A d \in Calls \ {c} : plan'[d] = plan[d]
      BY <2>3 DEF MigrateTo
    <3> QED
      BY <3>2, <3>3, <3>4
  <2> QED
    BY <1>2, <2>1, <2>2, <2>3 DEF Issue
<1>3. ASSUME NEW c \in Calls, Begin(c)
      PROVE  CallInv'
  <2>1. pc[c] = "queued" /\ outcome[c] = "none"
    BY <1>3 DEF Begin, BeginStore, BeginGvql, BeginUpdate, BeginTransaction, Collect, Turn, CallInv
  <2>2. CASE BeginStore(c) \/ BeginGvql(c)
    <3>1. OnlyMoves(c)
      BY <2>1, <2>2 DEF BeginStore, BeginGvql, Fails, Ends, OnlyMoves, Points, Section
    <3> QED
      BY <1>1, <2>1, <3>1
  <2>3. CASE BeginUpdate(c) \/ Collect(c)
    <3>1. OnlyMoves(c)
      BY <2>1, <2>3 DEF BeginUpdate, Collect, Ends, OnlyMoves, Points, Section
    <3> QED
      BY <1>1, <2>1, <3>1
  <2>4. CASE BeginTransaction(c)
    <3>1. OnlyMoves(c)
      BY <2>1, <2>4 DEF BeginTransaction, Ends, OnlyMoves, Points, Section
    <3> QED
      BY <1>1, <2>1, <3>1
  <2> QED
    BY <1>3, <2>2, <2>3, <2>4 DEF Begin
<1>4. ASSUME NEW c \in Calls, Continue(c)
      PROVE  CallInv'
  <2>1. CASE WorkThrows(c) \/ WorkIsRefused(c) \/ CommitFails(c)
    <3>1. OnlyMoves(c) /\ pc[c] # "done"
      BY <2>1 DEF WorkThrows, WorkIsRefused, CommitFails, CallbackIsDone, Fails, Ends, OnlyMoves, Points, Section
    <3> QED
      BY <1>1, <3>1
  <2>2. CASE WorkEnds(c) \/ Serialize(c)
    <3>1. OnlyMoves(c) /\ pc[c] # "done"
      BY <2>2 DEF WorkEnds, Serialize, CallbackIsDone, CallInv, OnlyMoves, Points, Section
    <3> QED
      BY <1>1, <3>1
  <2>3. CASE WorkRetries(c)
    BY <2>3 DEF WorkRetries, CallbackIsDone, MayRetry, CallInv
  <2>4. CASE Retry(c)
    BY <2>4 DEF Retry, CallInv
  <2>5. CASE Publish(c)
    <3>1. /\ pc[c] = "publishing" /\ UNCHANGED attempt
          /\ \A d \in Calls \ {c} : plan'[d] = plan[d]
      BY <2>5 DEF Publish
    <3>2. CASE Kind[c] = "migrate" /\ Len(plan[c]) > 1
      <4>1. plan[c] # <<>>
        BY <3>1, <3>2 DEF CallInv
      <4>2. Tail(plan[c]) # <<>>
        BY <3>2, <4>1, PlanOperations
      <4>3. Moves(c, "between") /\ outcome' = outcome /\ plan'[c] # <<>>
        BY <2>5, <3>2, <4>2 DEF Publish
      <4> QED
        BY <3>1, <3>2, <4>3 DEF CallInv
    <3>3. CASE Ends(c, "ok")
      BY <3>1, <3>3 DEF Ends, CallInv
    <3> QED
      BY <2>5, <3>2, <3>3 DEF Publish
  <2>6. CASE NextMigration(c)
    <3>1. CASE Moves(c, "queued") /\ outcome' = outcome
      BY <2>6, <3>1 DEF NextMigration, CallInv
    <3>2. CASE Ends(c, "failed")
      BY <2>6, <3>2 DEF NextMigration, Ends, CallInv
    <3> QED
      BY <2>6, <3>1, <3>2 DEF NextMigration
  <2> QED
    BY <1>4, <2>1, <2>2, <2>3, <2>4, <2>5, <2>6 DEF Continue
<1>5. CASE ShutdownReleases \/ ShutdownEnds \/ ForeignCommit \/ UNCHANGED vars
  BY <1>5 DEF ShutdownReleases, ShutdownEnds, ForeignCommit, vars, CallInv
<1> QED
  BY <1>2, <1>3, <1>4, <1>5 DEF Next, Quiet

\* A step of a call that leaves the others' locks, and has one of its own as it may.
KeepsLocks(c) ==
    /\ UNCHANGED <<started, startupLock>>
    /\ \A d \in Calls \ {c} : pc'[d] = pc[d] /\ handle'[d] = handle[d]
    /\ handle'[c] # "none" =>
         /\ pc'[c] \in Section
         /\ pc'[c] = "working" => Kind[c] \in {"pessimistic", "migrate"}

\* Every step keeps the locks with the sections.
LEMMA HandleInvNext == TypeInv /\ HandleInv /\ [Next]_vars => HandleInv'
<1> SUFFICES ASSUME TypeInv, HandleInv, [Next]_vars
             PROVE  HandleInv'
  OBVIOUS
<1> USE DEF Ends, callVars, liveVars, lockVars
<1>0. pc \in [Calls -> Points] /\ handle \in [Calls -> {"none", "startup", "own"}]
  BY DEF TypeInv
<1>1. ASSUME NEW c \in Calls, KeepsLocks(c)
      PROVE  HandleInv'
  BY <1>1 DEF KeepsLocks, HandleInv
<1>2. ASSUME NEW c \in Calls, pc[c] \notin Section
      PROVE  handle[c] = "none"
  BY <1>2 DEF HandleInv
<1>3. ASSUME NEW c \in Calls, Issue(c)
      PROVE  KeepsLocks(c)
  <2>1. handle[c] = "none"
    BY <1>2, <1>3 DEF Issue, RejectCall, JoinTransaction, IssueCall, MigrateTo, MayIssue, Section
  <2> QED
    BY <1>0, <1>3, <2>1 DEF Issue, RejectCall, JoinTransaction, IssueCall, MigrateTo, KeepsLocks
<1>4. ASSUME NEW c \in Calls, Begin(c)
      PROVE  KeepsLocks(c)
  <2>0. handle[c] = "none"
    BY <1>2, <1>4 DEF Begin, BeginStore, BeginGvql, BeginUpdate, BeginTransaction, Collect, Turn, Section
  <2>1. CASE BeginStore(c)
    BY <1>0, <2>0, <2>1 DEF BeginStore, Fails, LeavesLock, TakesLock, KeepsLocks, Section
  <2>2. CASE BeginGvql(c)
    BY <1>0, <2>0, <2>2 DEF BeginGvql, Fails, LeavesLock, TakesLock, KeepsLocks, Section
  <2>3. CASE BeginUpdate(c)
    BY <1>0, <2>0, <2>3 DEF BeginUpdate, KeepsLocks
  <2>4. CASE Collect(c)
    BY <1>0, <2>0, <2>4 DEF Collect, KeepsLocks
  <2>5. CASE BeginTransaction(c)
    BY <1>0, <2>0, <2>5 DEF BeginTransaction, TakesLock, Transactional, KeepsLocks, Section
  <2> QED
    BY <1>4, <2>1, <2>2, <2>3, <2>4, <2>5 DEF Begin
<1>5. ASSUME NEW c \in Calls, Continue(c)
      PROVE  KeepsLocks(c)
  <2>1. CASE WorkThrows(c) \/ WorkIsRefused(c) \/ CommitFails(c)
    <3>1. /\ UNCHANGED <<started, startupLock>> /\ pc' = [pc EXCEPT ![c] = "done"]
          /\ handle' = [handle EXCEPT ![c] = "none"]
      BY <2>1 DEF WorkThrows, WorkIsRefused, CommitFails, Fails, LeavesLock
    <3> QED
      BY <1>0, <3>1 DEF KeepsLocks
  <2>2. CASE WorkEnds(c)
    BY <1>0, <2>2 DEF WorkEnds, TakesLock, KeepsLocks, Section
  <2>3. CASE WorkRetries(c)
    <3>1. handle[c] = "none"
      BY <1>0, <2>3 DEF WorkRetries, CallbackIsDone, MayRetry, HandleInv
    <3> QED
      BY <1>0, <2>3, <3>1 DEF WorkRetries, KeepsLocks
  <2>4. CASE Retry(c) \/ NextMigration(c)
    <3>1. handle[c] = "none"
      BY <1>2, <2>4 DEF Retry, NextMigration, Section
    <3> QED
      BY <1>0, <2>4, <3>1 DEF Retry, NextMigration, KeepsLocks
  <2>5. CASE Serialize(c)
    BY <1>0, <2>5 DEF Serialize, KeepsLocks, Section
  <2>6. CASE Publish(c)
    BY <1>0, <2>6 DEF Publish, LeavesLock, KeepsLocks
  <2> QED
    BY <1>5, <2>1, <2>2, <2>3, <2>4, <2>5, <2>6 DEF Continue
<1>6. CASE ShutdownReleases \/ ShutdownEnds \/ ForeignCommit \/ UNCHANGED vars
  BY <1>6 DEF ShutdownReleases, ShutdownEnds, ForeignCommit, vars, HandleInv
<1> QED
  BY <1>1, <1>3, <1>4, <1>5, <1>6 DEF Next, Quiet

BaseInv == TypeInv /\ CallInv /\ SectionInv /\ HandleInv

\* These invariants hold in every behaviour.
LEMMA BaseInvAlways == Spec => []BaseInv
<1>1. Init => BaseInv
  BY InitKeeps DEF BaseInv
<1>2. BaseInv /\ [Next]_vars => BaseInv'
  BY TypeInvNext, CallInvNext, SectionInvNext, HandleInvNext DEF BaseInv
<1> QED
  BY <1>1, <1>2, PTL DEF Spec

\* Every variable keeps its shape, the depth of transactions is 0 or 1, and no
\* transaction retries more often than it may (optimisticTransaction).
THEOREM CallsTypeCorrect == Spec => []TypeOK
<1>1. BaseInv => TypeOK
  <2> SUFFICES ASSUME BaseInv
               PROVE  TypeOK
    OBVIOUS
  <2>1. root \in Roots /\ envelope \in Roots /\ durable.root \in Roots /\ rollback.root \in Roots
    BY DEF BaseInv, TypeInv
  <2>2. \A r \in {root, envelope, durable.root, rollback.root} :
            r.edits \subseteq Calls \cup {Foreign} /\ r.applied \in [Migrations -> Int]
    BY <2>1 DEF Roots
  <2>3. transactionDepth \in 0..1
    BY DEF BaseInv, SectionInv
  <2> QED
    BY <2>2, <2>3 DEF BaseInv, TypeInv, CallInv, TypeOK, Points, Section
<1> QED
  BY <1>1, BaseInvAlways, PTL

\* Sections never overlap, however calls are nested, retried, refused or cut short,
\* and transactionDepth is that of the section that runs (AsyncMutex.runExclusive,
\* runInTransactionScope).
THEOREM SectionsExclude == Spec => []OneSection
<1>1. BaseInv => OneSection
  <2> SUFFICES ASSUME BaseInv
               PROVE  OneSection
    OBVIOUS
  <2> DEFINE scopes == {c \in Calls : pc[c] = "working" /\ Kind[c] \in Transactional}
  <2>1. \A c, d \in scopes : c = d
    BY DEF BaseInv, SectionInv, Section
  <2>2. CASE scopes = {}
    <3>1. transactionDepth = 0
      BY <2>2 DEF BaseInv, SectionInv, InScope
    <3> QED
      BY <2>2, <3>1, FS_EmptySet DEF BaseInv, SectionInv, OneSection, InSection, Section
  <2>3. ASSUME NEW c \in scopes
        PROVE  OneSection
    <3>1. scopes = {c}
      BY <2>1, <2>3
    <3>2. Cardinality(scopes) = 1
      BY <3>1, FS_Singleton
    <3>3. transactionDepth = 1
      BY <2>3 DEF BaseInv, SectionInv, InScope
    <3> QED
      BY <3>2, <3>3 DEF BaseInv, SectionInv, OneSection, InSection, Section
  <2> QED
    BY <2>2, <2>3
<1> QED
  BY <1>1, BaseInvAlways, PTL

\* After shutdown() and the last queued call the manager holds no writer lock, even
\* if calls were in flight or took locks of their own meanwhile.
THEOREM ShutdownLeavesNoLock == Spec => []ShutdownFreesTheLock
<1>1. BaseInv => ShutdownFreesTheLock
  BY DEF BaseInv, SectionInv, HandleInv, ShutdownFreesTheLock
<1> QED
  BY <1>1, BaseInvAlways, PTL
-----------------------------------------------------------------------------
(* Where the edits of calls are. *)

\* A step of one call that has not ended.
StepOf(c) == /\ pc[c] # "done" /\ pc' \in [Calls -> Points]
             /\ \A d \in Calls \ {c} : pc'[d] = pc[d] /\ outcome'[d] = outcome[d]

\* The call is issued or waits again; only PersistentCache.set edits the root here.
Waits(c) ==
    /\ StepOf(c) /\ host' = host
    /\ pc[c] \notin Section /\ pc'[c] \notin Section
    /\ Kind[c] \in Atomic => pc[c] \in {"idle", "retrying"}
    /\ Kind[c] \in Atomic \cup {"gvql"} => outcome'[c] # "ok"
    /\ root'.edits = root.edits \/ (Kind[c] = "put" /\ root'.edits = root.edits \cup {c})
    /\ UNCHANGED <<rollback, envelope, durable, handle, transactionId, startupLock, foreignCommits>>

\* The update joins the transaction that works.
Joins(c) ==
    /\ StepOf(c) /\ pc[c] = "idle" /\ pc'[c] = "done" /\ Kind[c] = "update"
    /\ \E h \in Calls : pc[h] = "working" /\ Kind[h] \in Transactional /\ host' = [host EXCEPT ![c] = h]
    /\ root'.edits = root.edits \cup {c}
    /\ UNCHANGED <<rollback, envelope, durable, handle, transactionId, startupLock, foreignCommits>>

\* A section begins, from the live root or from the files, or is refused at once.
Starts(c) ==
    /\ StepOf(c) /\ host' = host /\ Turn(c)
    /\ \/ pc'[c] \in Section
       \/ pc'[c] = "done" /\ (Kind[c] \in Atomic \cup {"gvql"} => outcome'[c] = "failed")
    /\ LET own == IF pc'[c] \in Section THEN {c} ELSE {}
       IN  \/ /\ transactionId' = transactionId
              /\ root'.edits \in {root.edits, root.edits \cup own}
              /\ rollback' = rollback \/ rollback'.root = root
              /\ pc'[c] \in Section /\ Kind[c] \notin {"put", "gvql"} => rollback'.root = root
           \/ /\ transactionId' = durable.txn
              /\ root'.edits \in {durable.root.edits, durable.root.edits \cup own}
              /\ rollback'.root = durable.root
    /\ pc'[c] \in Section /\ Kind[c] \in Atomic \cup {"gvql"} => c \in root'.edits
    /\ pc'[c] = "publishing" => envelope' = root'
    /\ handle'[c] = "own" => transactionId' = durable.txn
    /\ \A d \in Calls \ {c} : handle'[d] = handle[d]
    /\ UNCHANGED <<durable, startupLock, foreignCommits>>

\* The section goes on to store, or to publish what it has serialised.
GoesOn(c) ==
    /\ StepOf(c) /\ host' = host
    /\ pc[c] \in {"working", "storing"} /\ pc'[c] \in {"storing", "publishing"} /\ outcome'[c] = outcome[c]
    /\ pc'[c] = "publishing" => envelope' = root
    /\ handle'[c] = "own" => handle[c] = "own" \/ transactionId = durable.txn
    /\ \A d \in Calls \ {c} : handle'[d] = handle[d]
    /\ UNCHANGED <<root, rollback, durable, transactionId, startupLock, foreignCommits>>

\* The section throws, or gives up an attempt.
GivesUp(c) ==
    /\ StepOf(c) /\ host' = host
    /\ pc[c] \in Section /\ pc'[c] \in {"done", "retrying"} /\ outcome'[c] # "ok"
    /\ root' = IF Kind[c] \in {"put", "gvql"} THEN root ELSE rollback.root
    /\ handle'[c] = "none" /\ \A d \in Calls \ {c} : handle'[d] = handle[d]
    /\ UNCHANGED <<rollback, envelope, durable, transactionId, startupLock, foreignCommits>>

\* The section publishes.
Commits(c) ==
    /\ StepOf(c) /\ host' = host
    /\ pc[c] = "publishing" /\ Valid(c)
    /\ \/ pc'[c] = "done" /\ outcome'[c] = "ok"
       \/ pc'[c] = "between" /\ Kind[c] = "migrate" /\ outcome'[c] = outcome[c]
    /\ durable'.root = envelope /\ durable'.txn = transactionId + 1 /\ transactionId' = transactionId + 1
    /\ handle'[c] = "none" /\ \A d \in Calls \ {c} : handle'[d] = handle[d]
    /\ UNCHANGED <<root, rollback, startupLock, foreignCommits>>

\* Nothing that the edits depend on changes, except that shutdown() gives the lock away.
Rests ==
    /\ UNCHANGED <<pc, outcome, host, root, rollback, envelope, durable, handle, transactionId, foreignCommits>>
    /\ startupLock' => startupLock

\* Every step has one of these shapes.
LEMMA StepShapes ==
    BaseInv /\ [Next]_vars =>
        Rests \/ ForeignCommit
        \/ \E c \in Calls : Waits(c) \/ Joins(c) \/ Starts(c) \/ GoesOn(c) \/ GivesUp(c) \/ Commits(c)
<1> SUFFICES ASSUME BaseInv, [Next]_vars
             PROVE  Rests \/ ForeignCommit
                    \/ \E c \in Calls : Waits(c) \/ Joins(c) \/ Starts(c) \/ GoesOn(c) \/ GivesUp(c) \/ Commits(c)
  OBVIOUS
<1> USE DEF Ends, callVars, liveVars, lockVars
<1>0. /\ pc \in [Calls -> Points] /\ outcome \in [Calls -> {"none", "ok", "failed", "rejected"}]
      /\ handle \in [Calls -> {"none", "startup", "own"}] /\ host \in [Calls -> Calls \cup {NoCall}]
      /\ pc' \in [Calls -> Points]
      /\ root \in Roots /\ durable.root \in Roots
  BY TypeInvNext DEF BaseInv, TypeInv
<1>1. \A c \in Calls : pc[c] # "done" => outcome[c] = "none"
  BY <1>0 DEF BaseInv, CallInv
<1>2. ASSUME NEW c \in Calls, Issue(c)
      PROVE  Waits(c) \/ Joins(c)
  <2>0. pc[c] = "idle" /\ StepOf(c)
    BY <1>0, <1>2 DEF Issue, RejectCall, JoinTransaction, IssueCall, MigrateTo, MayIssue, StepOf
  <2>1. CASE RejectCall(c)
    <3>1. root'.edits = root.edits \/ (Kind[c] = "put" /\ root'.edits = root.edits \cup {c})
      BY <1>0, <2>1, EditedRoot DEF RejectCall
    <3> QED
      BY <1>0, <2>0, <2>1, <3>1 DEF RejectCall, Waits, Section
  <2>2. CASE JoinTransaction(c)
    <3>1. PICK h \in Calls : InScope(h)
      BY <2>2 DEF JoinTransaction, BaseInv, SectionInv
    <3>2. Head(chain) = h
      BY <3>1 DEF BaseInv, SectionInv, InScope, Section
    <3>3. root'.edits = root.edits \cup {c}
      BY <1>0, <2>2, EditedRoot DEF JoinTransaction
    <3>4. pc[h] = "working" /\ Kind[h] \in Transactional /\ host' = [host EXCEPT ![c] = h]
      BY <2>2, <3>1, <3>2 DEF JoinTransaction, InScope
    <3>5. pc'[c] = "done" /\ Kind[c] = "update"
      BY <1>0, <2>2 DEF JoinTransaction
    <3> QED
      BY <2>0, <2>2, <3>3, <3>4, <3>5 DEF JoinTransaction, Joins
  <2>3. CASE IssueCall(c)
    <3>1. root'.edits = root.edits \/ (Kind[c] = "put" /\ root'.edits = root.edits \cup {c})
      BY <1>0, <2>3, EditedRoot DEF IssueCall, PutEdit
    <3> QED
      BY <1>0, <1>1, <2>0, <2>3, <3>1 DEF IssueCall, Waits, Section
  <2>4. CASE MigrateTo(c)
    <3>1. pc'[c] \in {"done", "queued"}
      BY <1>0, <2>4 DEF MigrateTo
    <3> QED
      BY <1>0, <2>0, <2>4, <3>1 DEF MigrateTo, Waits, Section, Atomic
  <2> QED
    BY <1>2, <2>1, <2>2, <2>3, <2>4 DEF Issue
<1>3. ASSUME NEW c \in Calls, Begin(c)
      PROVE  Starts(c)
  <2>0. Turn(c) /\ pc[c] = "queued" /\ StepOf(c)
    BY <1>0, <1>3 DEF Begin, BeginStore, BeginGvql, BeginUpdate, BeginTransaction, Collect, Turn, StepOf, Fails
  <2>1. CASE BeginStore(c)
    BY <1>0, <2>0, <2>1 DEF BeginStore, Conflict, Fails, LeavesLock, TakesLock, Starts, Section, Atomic
  <2>2. CASE BeginGvql(c)
    <3>1. CASE Conflict
      BY <1>0, <2>0, <2>2, <3>1 DEF BeginGvql, Fails, LeavesLock, Starts, Section
    <3>2. CASE ~Conflict
      <4>1. root'.edits = root.edits \cup {c} /\ envelope' = root'
        BY <1>0, <2>2, <3>2, EditedRoot DEF BeginGvql
      <4>2. pc'[c] = "publishing" /\ Kind[c] = "gvql"
        BY <1>0, <2>2, <3>2 DEF BeginGvql
      <4>3. handle'[c] = "own" => transactionId = durable.txn
        BY <1>0, <2>2, <3>2 DEF BeginGvql, TakesLock, Conflict
      <4>4. \A d \in Calls \ {c} : handle'[d] = handle[d]
        BY <1>0, <2>2, <3>2 DEF BeginGvql, TakesLock
      <4> QED
        BY <2>0, <2>2, <4>1, <4>2, <4>3, <4>4 DEF BeginGvql, Starts, Section
    <3> QED
      BY <3>1, <3>2
  <2>3. CASE BeginUpdate(c)
    <3>1. handle' = handle /\ handle[c] = "none"
      BY <1>0, <2>0, <2>3 DEF BeginUpdate, BaseInv, HandleInv, Section
    <3>2. CASE started
      <4>1. root'.edits = root.edits \cup {c} /\ rollback'.root = root /\ pc'[c] = "working"
        BY <1>0, <2>3, <3>2, EditedRoot DEF BeginUpdate, Live
      <4> QED
        BY <2>0, <2>3, <3>1, <4>1 DEF BeginUpdate, Starts, Section
    <3>3. CASE ~started
      BY <1>0, <2>0, <2>3, <3>1, <3>3 DEF BeginUpdate, Starts, Section
    <3> QED
      BY <3>2, <3>3
  <2>4. CASE BeginTransaction(c)
    <3>1. /\ transactionId' = durable.txn /\ rollback'.root = durable.root
          /\ Kind[c] \in Transactional
      BY <2>4 DEF BeginTransaction
    <3>2. CASE started
      <4>1. Kind[c] = "migrate" => root'.edits = durable.root.edits
        <5> SUFFICES ASSUME Kind[c] = "migrate" PROVE root'.edits = durable.root.edits
          OBVIOUS
        <5>1. Head(plan[c]) \in MigrationSteps
          BY <2>0, PlanOperations DEF BaseInv, TypeInv, CallInv
        <5>2. root' = Migrated(durable.root, Head(plan[c]))
          BY <2>4, <3>2 DEF BeginTransaction
        <5> QED
          BY <1>0, <5>1, <5>2, MigratedRoot
      <4>2. Kind[c] # "migrate" => root'.edits = durable.root.edits \cup {c}
        BY <1>0, <2>4, <3>2, EditedRoot DEF BeginTransaction
      <4>3. /\ root'.edits \in {durable.root.edits, durable.root.edits \cup {c}}
            /\ Kind[c] \in Atomic \cup {"gvql"} => c \in root'.edits
        BY <4>1, <4>2 DEF Atomic
      <4>4. pc'[c] = "working" /\ \A d \in Calls \ {c} : handle'[d] = handle[d]
        BY <1>0, <2>4, <3>2 DEF BeginTransaction, TakesLock
      <4> QED
        BY <2>0, <2>4, <3>1, <4>3, <4>4 DEF BeginTransaction, Starts, Section
    <3>3. CASE ~started
      BY <1>0, <2>0, <2>4, <3>1, <3>3 DEF BeginTransaction, Starts, Section
    <3> QED
      BY <3>2, <3>3
  <2>5. CASE Collect(c)
    <3>1. handle' = handle /\ handle[c] = "none"
      BY <1>0, <2>0, <2>5 DEF Collect, BaseInv, HandleInv, Section
    <3> QED
      BY <1>0, <2>0, <2>5, <3>1 DEF Collect, Starts, Section, Atomic
  <2> QED
    BY <1>3, <2>1, <2>2, <2>3, <2>4, <2>5 DEF Begin
<1>4. ASSUME NEW c \in Calls, Continue(c)
      PROVE  Waits(c) \/ GoesOn(c) \/ GivesUp(c) \/ Commits(c)
  <2>1. CASE WorkThrows(c) \/ WorkIsRefused(c) \/ CommitFails(c)
    <3>1. /\ pc[c] \in Section /\ Fails(c)
          /\ UNCHANGED <<host, rollback, envelope, durable, transactionId, startupLock, foreignCommits>>
      BY <2>1 DEF WorkThrows, WorkIsRefused, CommitFails, CallbackIsDone, Section
    <3>2. StepOf(c)
      BY <1>0, <3>1 DEF Fails, StepOf, Section
    <3>3. /\ pc'[c] = "done" /\ outcome'[c] # "ok" /\ handle'[c] = "none"
          /\ \A d \in Calls \ {c} : handle'[d] = handle[d]
      BY <1>0, <3>1 DEF Fails, LeavesLock
    <3>4. root' = IF Kind[c] \in {"put", "gvql"} THEN root ELSE rollback.root
      BY <3>1 DEF Fails
    <3> QED
      BY <3>1, <3>2, <3>3, <3>4 DEF GivesUp
  <2>2. CASE WorkEnds(c)
    <3>1. /\ pc[c] = "working" /\ pc'[c] = "storing" /\ outcome' = outcome
          /\ UNCHANGED <<host, root, rollback, durable, transactionId, startupLock, foreignCommits>>
      BY <1>0, <2>2 DEF WorkEnds, CallbackIsDone
    <3>2. /\ StepOf(c)
          /\ \A d \in Calls \ {c} : handle'[d] = handle[d]
      BY <1>0, <2>2 DEF WorkEnds, CallbackIsDone, TakesLock, StepOf
    <3>3. handle'[c] = "own" => handle[c] = "own" \/ transactionId = durable.txn
      BY <1>0, <2>2 DEF WorkEnds, FindsConflict, Conflict, TakesLock
    <3> QED
      BY <3>1, <3>2, <3>3 DEF GoesOn
  <2>3. CASE WorkRetries(c)
    <3>1. handle' = handle /\ handle[c] = "none"
      BY <1>0, <2>3 DEF WorkRetries, CallbackIsDone, MayRetry, BaseInv, HandleInv
    <3>2. StepOf(c) /\ pc[c] = "working" /\ pc'[c] = "retrying" /\ outcome' = outcome /\ outcome[c] = "none"
      BY <1>0, <1>1, <2>3 DEF WorkRetries, CallbackIsDone, StepOf
    <3>3. root' = rollback.root /\ Kind[c] = "optimistic"
      BY <2>3 DEF WorkRetries, MayRetry
    <3> QED
      BY <2>3, <3>1, <3>2, <3>3 DEF WorkRetries, GivesUp, Section
  <2>4. CASE Retry(c)
    BY <1>0, <1>1, <2>4 DEF Retry, Waits, StepOf, Section
  <2>5. CASE NextMigration(c)
    <3>1. Kind[c] = "migrate" /\ pc[c] = "between"
      BY <2>5 DEF NextMigration, BaseInv, CallInv
    <3>2. StepOf(c) /\ pc'[c] \in {"queued", "done"}
      BY <1>0, <2>5 DEF NextMigration, StepOf
    <3> QED
      BY <2>5, <3>1, <3>2 DEF NextMigration, Waits, Section, Atomic
  <2>6. CASE Serialize(c)
    BY <1>0, <2>6 DEF Serialize, GoesOn, StepOf
  <2>7. CASE Publish(c)
    <3>1. /\ pc[c] = "publishing" /\ Valid(c)
          /\ durable'.root = envelope /\ durable'.txn = transactionId + 1 /\ transactionId' = transactionId + 1
          /\ UNCHANGED <<host, root, rollback, startupLock, foreignCommits>>
      BY <2>7 DEF Publish
    <3>2. handle'[c] = "none" /\ \A d \in Calls \ {c} : handle'[d] = handle[d]
      BY <1>0, <2>7 DEF Publish, LeavesLock
    <3>3. \/ Kind[c] = "migrate" /\ pc' = [pc EXCEPT ![c] = "between"] /\ outcome' = outcome
          \/ Ends(c, "ok")
      BY <2>7 DEF Publish
    <3>4. /\ StepOf(c)
          /\ \/ pc'[c] = "done" /\ outcome'[c] = "ok"
             \/ pc'[c] = "between" /\ Kind[c] = "migrate" /\ outcome'[c] = outcome[c]
      BY <1>0, <3>1, <3>3 DEF StepOf
    <3> QED
      BY <3>1, <3>2, <3>4 DEF Commits
  <2> QED
    BY <1>4, <2>1, <2>2, <2>3, <2>4, <2>5, <2>6, <2>7 DEF Continue
<1>5. CASE ShutdownReleases \/ ShutdownEnds \/ UNCHANGED vars
  BY <1>5 DEF ShutdownReleases, ShutdownEnds, vars, Rests
<1> QED
  BY <1>2, <1>3, <1>4, <1>5 DEF Next, Quiet

\* Every step keeps the joined updates as they are.
LEMMA HostInvNext == BaseInv /\ HostInv /\ [Next]_vars => HostInv'
<1> SUFFICES ASSUME BaseInv, HostInv, [Next]_vars
             PROVE  HostInv'
  OBVIOUS
<1>0. /\ pc \in [Calls -> Points] /\ host \in [Calls -> Calls \cup {NoCall}]
      /\ NoCall \notin Calls
  BY CallsAssumption DEF BaseInv, TypeInv
<1>1. CASE UNCHANGED <<pc, host>>
  BY <1>1 DEF HostInv
<1>2. ASSUME NEW c \in Calls, StepOf(c), host' = host
      PROVE  HostInv'
  BY <1>2 DEF StepOf, HostInv
<1>3. ASSUME NEW c \in Calls, Joins(c)
      PROVE  HostInv'
  <2>1. PICK h \in Calls : Kind[h] \in Transactional /\ host' = [host EXCEPT ![c] = h]
    BY <1>3 DEF Joins
  <2>2. pc'[c] = "done" /\ Kind[c] = "update" /\ host'[c] = h
    BY <1>0, <1>3, <2>1 DEF Joins
  <2>3. \A d \in Calls \ {c} : host'[d] = host[d] /\ pc'[d] = pc[d]
    BY <1>0, <1>3, <2>1 DEF Joins, StepOf
  <2> QED
    BY <2>1, <2>2, <2>3 DEF HostInv
<1>4. Rests \/ ForeignCommit => UNCHANGED <<pc, host>>
  BY DEF Rests, ForeignCommit, callVars
<1>5. \A c \in Calls : Waits(c) \/ Starts(c) \/ GoesOn(c) \/ GivesUp(c) \/ Commits(c) => StepOf(c) /\ host' = host
  BY DEF Waits, Starts, GoesOn, GivesUp, Commits
<1> QED
  BY <1>1, <1>2, <1>3, <1>4, <1>5, StepShapes

\* While a call has its turn, and after a section has ended, nobody publishes.
LEMMA PublishingIsAlone ==
    ASSUME SectionInv, NEW c \in Calls, StepOf(c), Turn(c) \/ pc[c] \in Section
    PROVE  /\ \A d \in Calls \ {c} : pc[d] \notin Section /\ pc'[d] \notin Section
           /\ Publishing' => pc'[c] = "publishing"
<1>1. \A d \in Calls \ {c} : pc[d] \notin Section
  BY SectionIsAlone
<1>2. \A d \in Calls \ {c} : pc'[d] \notin Section
  BY <1>1 DEF StepOf
<1> QED
  BY <1>1, <1>2 DEF Publishing, Section

\* No step brings an edit that is undone back.
LEMMA TraceInvNext == BaseInv /\ HostInv /\ TraceInv /\ [Next]_vars => TraceInv'
<1> SUFFICES ASSUME BaseInv, HostInv, TraceInv, [Next]_vars,
                    NEW d \in Calls, Kind[d] \in Atomic, Kind[Owner(d)'] \in Atomic
             PROVE  Traceless(d)'
  BY DEF TraceInv
<1> DEFINE o == Owner(d)
<1>0. /\ SectionInv /\ NoCall \notin Calls /\ Foreign \notin Calls
      /\ host \in [Calls -> Calls \cup {NoCall}] /\ o \in Calls
      /\ \A c \in Calls : pc[c] # "done" => outcome[c] = "none"
  BY CallsAssumption DEF BaseInv, TypeInv, CallInv, Owner
\* The owner stays, unless d joins a transaction; only the call that steps edits.
<1>1. host'[d] = host[d] => Owner(d)' = o /\ Kind[o] \in Atomic /\ Traceless(d)
  BY DEF Owner, TraceInv
<1>2. ASSUME NEW c \in Calls, StepOf(c), o # c
      PROVE  pc'[o] = pc[o] /\ outcome'[o] = outcome[o] /\ d # c
  <2>1. host[d] # NoCall => d # c
    BY <1>2 DEF HostInv, StepOf
  <2> QED
    BY <1>0, <1>2, <2>1 DEF StepOf, Owner
<1>3. ASSUME NEW c \in Calls, Waits(c)
      PROVE  Traceless(d)'
  <2>0. StepOf(c) /\ UNCHANGED <<host, rollback, envelope, durable>>
    BY <1>3 DEF Waits
  <2>1. Owner(d)' = o /\ Kind[o] \in Atomic /\ Traceless(d)
    BY <1>1, <2>0
  <2>2. Publishing' => Publishing
    BY <1>3 DEF Waits, StepOf, Publishing, Section
  <2>3. CASE o = c
    <3>1. Undone(o) /\ pc'[o] \notin Section
      BY <1>3, <2>1, <2>3 DEF Waits, Undone
    <3>2. root'.edits = root.edits
      BY <1>3, <2>1, <2>3 DEF Waits, Atomic
    <3> QED
      BY <2>0, <2>1, <2>2, <3>1, <3>2 DEF Traceless
  <2>4. CASE o # c
    <3>1. pc'[o] = pc[o] /\ outcome'[o] = outcome[o] /\ d # c
      BY <1>2, <2>0, <2>4
    <3>2. d \notin root.edits => d \notin root'.edits
      BY <1>3, <3>1 DEF Waits
    <3> QED
      BY <2>0, <2>1, <2>2, <3>1, <3>2 DEF Traceless, Undone
  <2> QED
    BY <2>3, <2>4
<1>4. ASSUME NEW c \in Calls, Joins(c)
      PROVE  Traceless(d)'
  <2>0. /\ StepOf(c) /\ UNCHANGED <<rollback, envelope, durable>>
        /\ pc[c] = "idle" /\ pc'[c] = "done" /\ Kind[c] = "update" /\ root'.edits = root.edits \cup {c}
    BY <1>4 DEF Joins
  <2>1. PICK h \in Calls : pc[h] = "working" /\ Kind[h] \in Transactional /\ host' = [host EXCEPT ![c] = h]
    BY <1>4 DEF Joins
  <2>2. CASE d = c
    <3>1. host[d] = NoCall
      BY <2>0, <2>2 DEF HostInv
    <3>2. o = d /\ Undone(o)
      BY <2>0, <2>2, <3>1 DEF Owner, Undone
    <3>3. d \notin rollback.root.edits /\ d \notin durable.root.edits
      BY <3>2 DEF TraceInv, Traceless
    <3>4. Owner(d)' = h
      BY <1>0, <2>1, <2>2 DEF Owner
    <3>5. pc'[h] = "working" /\ outcome'[h] = "none"
      BY <1>0, <2>0, <2>1 DEF StepOf
    <3> QED
      BY <2>0, <3>3, <3>4, <3>5 DEF Traceless, Undone
  <2>3. CASE d # c
    <3>1. Owner(d)' = o /\ Kind[o] \in Atomic /\ Traceless(d)
      BY <1>0, <1>1, <2>1, <2>3
    <3>2. o # c
      BY <2>0, <2>3 DEF Owner, HostInv, Transactional
    <3>3. pc'[o] = pc[o] /\ outcome'[o] = outcome[o]
      BY <1>2, <2>0, <3>2
    <3>4. Publishing' => Publishing
      BY <2>0 DEF StepOf, Publishing
    <3> QED
      BY <2>0, <2>3, <3>1, <3>3, <3>4 DEF Traceless, Undone
  <2> QED
    BY <2>2, <2>3
<1>5. ASSUME NEW c \in Calls, Starts(c)
      PROVE  Traceless(d)'
  <2>0. StepOf(c) /\ Turn(c) /\ pc[c] = "queued" /\ host' = host /\ durable' = durable
    BY <1>5 DEF Starts, Turn
  <2>1. Owner(d)' = o /\ Kind[o] \in Atomic /\ Traceless(d)
    BY <1>1, <2>0
  <2>2. Publishing' => pc'[c] = "publishing"
    BY <1>0, <2>0, PublishingIsAlone
  <2>3. ASSUME d \notin root.edits, d \notin rollback.root.edits, d \notin durable.root.edits
        PROVE  /\ d \notin rollback'.root.edits
               /\ d # c \/ pc'[c] \notin Section => d \notin root'.edits
    BY <1>5, <2>3 DEF Starts
  <2>4. CASE o = c
    <3>1. Undone(o)
      BY <2>0, <2>4 DEF Undone
    <3>2. /\ d \notin rollback'.root.edits /\ d \notin durable.root.edits
          /\ d # c \/ pc'[c] \notin Section => d \notin root'.edits
      BY <2>1, <2>3, <3>1 DEF Traceless
    <3>3. CASE pc'[c] = "done"
      BY <2>0, <2>1, <2>2, <2>4, <3>2, <3>3 DEF Traceless, Section
    <3>4. CASE pc'[c] \in Section
      <4>1. outcome'[c] = "none"
        BY <3>4, CallInvNext, TypeInvNext DEF BaseInv, CallInv, Section
      <4> QED
        BY <2>0, <2>1, <2>4, <3>2, <3>4, <4>1 DEF Traceless, Undone, Section
    <3> QED
      BY <1>5, <3>3, <3>4 DEF Starts
  <2>5. CASE o # c
    <3>1. pc'[o] = pc[o] /\ outcome'[o] = outcome[o] /\ d # c /\ pc[o] \notin Section
      BY <1>0, <1>2, <2>0, <2>5, SectionIsAlone
    <3>2. pc'[c] = "publishing" => envelope' = root'
      BY <1>5 DEF Starts
    <3> QED
      BY <2>0, <2>1, <2>2, <2>3, <3>1, <3>2 DEF Traceless, Undone
  <2> QED
    BY <2>4, <2>5
<1>6. ASSUME NEW c \in Calls, GoesOn(c)
      PROVE  Traceless(d)'
  <2>0. /\ StepOf(c) /\ UNCHANGED <<host, root, rollback, durable>> /\ pc[c] \in Section
        /\ pc'[c] \in {"storing", "publishing"} /\ outcome'[c] = outcome[c]
        /\ pc'[c] = "publishing" => envelope' = root
    BY <1>6 DEF GoesOn, Section
  <2>1. Owner(d)' = o /\ Kind[o] \in Atomic /\ Traceless(d)
    BY <1>1, <2>0
  <2>2. Publishing' => pc'[c] = "publishing"
    BY <1>0, <2>0, PublishingIsAlone
  <2>3. /\ Undone(Owner(d))' => Undone(o)
        /\ pc'[o] \in Section => pc[o] \in Section
    <3>1. CASE o = c
      BY <2>0, <2>1, <3>1 DEF Undone, Section
    <3>2. CASE o # c
      BY <1>2, <2>0, <2>1, <3>2 DEF Undone
    <3> QED
      BY <3>1, <3>2
  <2> QED
    BY <2>0, <2>1, <2>2, <2>3 DEF Traceless
<1>7. ASSUME NEW c \in Calls, GivesUp(c)
      PROVE  Traceless(d)'
  <2>0. /\ StepOf(c) /\ UNCHANGED <<host, rollback, durable>> /\ pc[c] \in Section
        /\ pc'[c] \in {"done", "retrying"}
        /\ root' = IF Kind[c] \in {"put", "gvql"} THEN root ELSE rollback.root
    BY <1>7 DEF GivesUp
  <2>1. Owner(d)' = o /\ Kind[o] \in Atomic /\ Traceless(d)
    BY <1>1, <2>0
  <2>2. ~Publishing'
    BY <1>0, <2>0, PublishingIsAlone
  <2>3. CASE o = c
    <3>1. root' = rollback.root
      BY <2>0, <2>1, <2>3 DEF Atomic
    <3> QED
      BY <2>0, <2>1, <2>2, <2>3, <3>1 DEF Traceless
  <2>4. CASE o # c
    <3>1. pc'[o] = pc[o] /\ outcome'[o] = outcome[o]
      BY <1>2, <2>0, <2>4
    <3> QED
      BY <2>0, <2>1, <2>2, <3>1 DEF Traceless, Undone
  <2> QED
    BY <2>3, <2>4
<1>8. ASSUME NEW c \in Calls, Commits(c)
      PROVE  Traceless(d)'
  <2>0. /\ StepOf(c) /\ UNCHANGED <<host, root, rollback>> /\ pc[c] = "publishing"
        /\ durable'.root = envelope
        /\ \/ pc'[c] = "done" /\ outcome'[c] = "ok"
           \/ pc'[c] = "between" /\ Kind[c] = "migrate"
    BY <1>8 DEF Commits
  <2>1. Owner(d)' = o /\ Kind[o] \in Atomic /\ Traceless(d)
    BY <1>1, <2>0
  <2>2. ~Publishing' /\ Publishing /\ (o # c => pc[o] \notin Section)
    BY <1>0, <2>0, PublishingIsAlone DEF Publishing, Section
  <2>3. CASE o = c
    <3>1. pc'[c] = "done" /\ outcome'[c] = "ok"
      BY <2>0, <2>1, <2>3 DEF Atomic
    <3> QED
      BY <2>1, <2>3, <3>1 DEF Traceless, Undone, Section
  <2>4. CASE o # c
    <3>1. pc'[o] = pc[o] /\ outcome'[o] = outcome[o]
      BY <1>2, <2>0, <2>4
    <3> QED
      BY <2>0, <2>1, <2>2, <3>1 DEF Traceless, Undone
  <2> QED
    BY <2>3, <2>4
<1>9. CASE Rests
  BY <1>1, <1>9 DEF Rests, Traceless, Undone, Publishing
<1>10. CASE ForeignCommit
  <2>1. UNCHANGED <<pc, outcome, host, root, rollback, envelope>>
    BY <1>10 DEF ForeignCommit, callVars, liveVars
  <2>2. durable'.root.edits = durable.root.edits \cup {Foreign}
    <3>1. durable.root \in Roots /\ durable \in [root : Roots, schema : Nat, txn : Nat]
      BY DEF BaseInv, TypeInv
    <3>2. durable'.root = Edited(durable.root, Foreign)
      BY <1>10, <3>1 DEF ForeignCommit
    <3> QED
      BY <3>1, <3>2, EditedRoot
  <2> QED
    BY <1>0, <1>1, <2>1, <2>2 DEF Traceless, Undone, Publishing
<1> QED
  BY <1>3, <1>4, <1>5, <1>6, <1>7, <1>8, <1>9, <1>10, StepShapes

TracesInv == BaseInv /\ HostInv /\ TraceInv

\* The undone edits stay away in every behaviour.
LEMMA TracesInvAlways == Spec => []TracesInv
<1>1. Init => TracesInv
  <2> SUFFICES ASSUME Init
               PROVE  HostInv /\ TraceInv
    BY InitKeeps DEF TracesInv, BaseInv
  <2>1. /\ \A c \in Calls : host[c] = NoCall
        /\ root.edits = {} /\ durable.root.edits = {} /\ rollback.root.edits = {} /\ envelope.edits = {}
    BY DEF Init
  <2> QED
    BY <2>1 DEF HostInv, TraceInv, Traceless
<1>2. TracesInv /\ [Next]_vars => TracesInv'
  BY TypeInvNext, CallInvNext, SectionInvNext, HandleInvNext, HostInvNext, TraceInvNext DEF TracesInv, BaseInv
<1> QED
  BY <1>1, <1>2, PTL DEF Spec

\* An update() or a transaction that threw has left no edit behind, whatever ran
\* before, after or inside it (updateUnlocked, transaction, optimisticTransaction).
THEOREM FailureLeavesNoTrace == Spec => []FailedCallsLeaveNoTrace
<1>1. TracesInv => FailedCallsLeaveNoTrace
  BY DEF TracesInv, TraceInv, Traceless, FailedCallsLeaveNoTrace, Alone, Owner, Undone, Atomic
<1> QED
  BY <1>1, TracesInvAlways, PTL

\* Nothing but the transaction it joined commits an update's edit (update,
\* runInTransactionScope).
THEOREM JoinedIsCommittedByItsHost == Spec => []JoinedUpdatesShareTheFate
<1>1. TracesInv => JoinedUpdatesShareTheFate
  <2> SUFFICES ASSUME TracesInv, NEW c \in Calls, host[c] # NoCall, c \in durable.root.edits,
                      Kind[host[c]] # "migrate"
               PROVE  outcome[host[c]] = "ok"
    BY DEF JoinedUpdatesShareTheFate
  <2> DEFINE h == host[c]
  <2>1. /\ h \in Calls /\ pc[h] \in Points /\ outcome[h] \in {"none", "ok", "failed", "rejected"}
        /\ (pc[h] = "done" <=> outcome[h] # "none") /\ (pc[h] = "between" => Kind[h] = "migrate")
    BY DEF TracesInv, BaseInv, TypeInv, CallInv
  <2>2. Kind[c] \in Atomic /\ Owner(c) = h /\ Kind[h] \in Atomic
    BY DEF TracesInv, HostInv, Atomic, Transactional, Owner
  <2>3. ~Undone(h) /\ pc[h] \notin Section
    BY <2>2 DEF TracesInv, TraceInv, Traceless
  <2> QED
    BY <2>1, <2>3 DEF Undone, Points, Section
<1> QED
  BY <1>1, TracesInvAlways, PTL
-----------------------------------------------------------------------------
(* Acknowledged edits. *)

\* Only a commit acknowledges.
LEMMA AcknowledgedGrowsByCommits ==
    ASSUME BaseInv, [Next]_vars, NEW c \in Calls, StepOf(c), foreignCommits' = foreignCommits,
           NEW X, Acknowledged \subseteq X,
           \/ host' = host /\ (Kind[c] \in Atomic \cup {"gvql"} /\ outcome'[c] = "ok" => c \in X)
           \/ \E h \in Calls : host' = [host EXCEPT ![c] = h]
    PROVE  Acknowledged' \subseteq X
<1>0. host \in [Calls -> Calls \cup {NoCall}] /\ NoCall \notin Calls
  BY CallsAssumption DEF BaseInv, TypeInv
<1>1. ASSUME NEW d \in Calls, Kind[d] \in Atomic \cup {"gvql"}, Alone(d)', outcome'[d] = "ok"
      PROVE  d \in X
  <2>1. CASE d # c
    <3>1. host'[d] = host[d] /\ outcome'[d] = outcome[d]
      BY <1>0, <2>1 DEF StepOf
    <3> QED
      BY <1>1, <3>1 DEF Acknowledged, Alone
  <2>2. CASE d = c
    BY <1>0, <1>1, <2>2 DEF Alone
  <2> QED
    BY <2>1, <2>2
<1>2. foreignCommits' > 0 => Foreign \in X
  BY DEF Acknowledged
<1> QED
  BY <1>1, <1>2 DEF Acknowledged

\* Every step keeps what has been acknowledged.
LEMMA AckInvNext == BaseInv /\ AckInv /\ [Next]_vars => AckInv'
<1> SUFFICES ASSUME BaseInv, AckInv, [Next]_vars
             PROVE  AckInv'
  OBVIOUS
<1>0. /\ SectionInv /\ transactionId \in Nat /\ durable.txn \in Nat
      /\ \A c \in Calls : handle[c] # "none" => pc[c] \in Section
      /\ \A c \in Calls : pc'[c] = "done" <=> outcome'[c] # "none"
  BY TypeInvNext, CallInvNext DEF BaseInv, TypeInv, HandleInv, CallInv
<1>1. ASSUME NEW c \in Calls, StepOf(c), pc[c] \notin Section, pc'[c] \notin Section,
             root.edits \subseteq root'.edits, Acknowledged' \subseteq Acknowledged,
             UNCHANGED <<rollback, envelope, durable, handle, transactionId, startupLock>>
      PROVE  AckInv'
  <2>1. \A d \in Calls : pc'[d] \in Section => pc'[d] = pc[d]
    BY <1>1 DEF StepOf
  <2>2. (MayRollBack' => MayRollBack) /\ (Publishing' => Publishing)
    BY <2>1 DEF MayRollBack, Publishing, Section
  <2> QED
    BY <1>1, <2>1, <2>2 DEF AckInv
<1>2. ASSUME NEW c \in Calls, Waits(c)
      PROVE  AckInv'
  <2>1. Acknowledged' \subseteq Acknowledged
    BY <1>2, AcknowledgedGrowsByCommits DEF Waits
  <2> QED
    BY <1>1, <1>2, <2>1 DEF Waits
<1>3. ASSUME NEW c \in Calls, Joins(c)
      PROVE  AckInv'
  <2>1. Acknowledged' \subseteq Acknowledged
    BY <1>3, AcknowledgedGrowsByCommits DEF Joins
  <2> QED
    BY <1>1, <1>3, <2>1 DEF Joins, Section
<1>4. ASSUME NEW c \in Calls, Starts(c)
      PROVE  AckInv'
  <2>0. StepOf(c) /\ Turn(c) /\ host' = host /\ UNCHANGED <<durable, startupLock, foreignCommits>>
    BY <1>4 DEF Starts
  <2>1. \A d \in Calls \ {c} : pc[d] \notin Section /\ pc'[d] \notin Section
    BY <1>0, <2>0, PublishingIsAlone
  <2>2. /\ MayRollBack' => pc'[c] \in Section /\ Kind[c] \notin {"put", "gvql"}
        /\ Publishing' => pc'[c] = "publishing" /\ envelope' = root'
    BY <1>4, <2>1 DEF MayRollBack, Publishing, Section, Starts
  <2>3. Acknowledged' \subseteq Acknowledged
    <3>1. Kind[c] \in Atomic \cup {"gvql"} => outcome'[c] # "ok"
      BY <1>0, <1>4 DEF Starts, Section
    <3> QED
      BY <2>0, <3>1, AcknowledgedGrowsByCommits
  <2>4. \A d \in Calls : handle'[d] = "own" => transactionId' = durable.txn
    BY <1>0, <1>4, <2>1 DEF Starts
  <2>5. \A d \in Calls : Kind[d] \in Atomic \cup {"gvql"} /\ pc'[d] \in Section =>
            d \in root'.edits /\ (pc'[d] = "publishing" => d \in envelope'.edits)
    BY <1>4, <2>1 DEF Starts
  <2>6. CASE /\ transactionId' = transactionId
             /\ root.edits \subseteq root'.edits
             /\ pc'[c] \in Section /\ Kind[c] \notin {"put", "gvql"} => rollback'.root = root
    <3>1. transactionId' = durable'.txn =>
            /\ Acknowledged' \subseteq root'.edits
            /\ MayRollBack' => Acknowledged' \subseteq rollback'.root.edits
            /\ Publishing' => Acknowledged' \subseteq envelope'.edits
      BY <2>0, <2>2, <2>3, <2>6 DEF AckInv
    <3>2. /\ Acknowledged' \subseteq durable'.root.edits /\ transactionId' <= durable'.txn
          /\ startupLock' => transactionId' = durable'.txn
      BY <2>0, <2>3, <2>6 DEF AckInv
    <3> QED
      BY <2>0, <2>4, <2>5, <3>1, <3>2 DEF AckInv
  <2>7. CASE /\ transactionId' = durable.txn
             /\ durable.root.edits \subseteq root'.edits
             /\ rollback'.root = durable.root
    <3>1. /\ Acknowledged' \subseteq durable.root.edits /\ Acknowledged' \subseteq root'.edits
          /\ Acknowledged' \subseteq rollback'.root.edits
      BY <2>3, <2>7 DEF AckInv
    <3>2. Publishing' => Acknowledged' \subseteq envelope'.edits
      BY <2>2, <3>1
    <3> QED
      BY <1>0, <2>0, <2>4, <2>5, <2>7, <3>1, <3>2 DEF AckInv
  <2> QED
    BY <1>4, <2>6, <2>7 DEF Starts
<1>5. ASSUME NEW c \in Calls, GoesOn(c)
      PROVE  AckInv'
  <2>0. /\ StepOf(c) /\ pc[c] \in Section /\ pc'[c] \in Section /\ outcome'[c] = outcome[c]
        /\ pc'[c] = "publishing" => envelope' = root
        /\ UNCHANGED <<host, root, rollback, durable, transactionId, startupLock, foreignCommits>>
    BY <1>5 DEF GoesOn, Section
  <2>1. \A d \in Calls \ {c} : pc[d] \notin Section /\ pc'[d] \notin Section
    BY <1>0, <2>0, PublishingIsAlone
  <2>2. /\ MayRollBack' => MayRollBack
        /\ Publishing' => envelope' = root
    BY <2>0, <2>1 DEF MayRollBack, Publishing, Section
  <2>3. Acknowledged' \subseteq Acknowledged
    BY <1>0, <2>0, AcknowledgedGrowsByCommits DEF Section
  <2>4. \A d \in Calls : handle'[d] = "own" => transactionId = durable.txn
    BY <1>5 DEF GoesOn, AckInv
  <2>5. \A d \in Calls : Kind[d] \in Atomic \cup {"gvql"} /\ pc'[d] \in Section =>
            d \in root'.edits /\ (pc'[d] = "publishing" => d \in envelope'.edits)
    BY <2>0, <2>1 DEF AckInv
  <2> QED
    BY <2>0, <2>2, <2>3, <2>4, <2>5 DEF AckInv
<1>6. ASSUME NEW c \in Calls, GivesUp(c)
      PROVE  AckInv'
  <2>0. /\ StepOf(c) /\ pc[c] \in Section /\ pc'[c] \notin Section /\ outcome'[c] # "ok"
        /\ root' = IF Kind[c] \in {"put", "gvql"} THEN root ELSE rollback.root
        /\ \A d \in Calls : handle'[d] = "own" => handle[d] = "own"
        /\ UNCHANGED <<host, rollback, durable, transactionId, startupLock, foreignCommits>>
    BY <1>6 DEF GivesUp, Section
  <2>1. \A d \in Calls : pc'[d] \notin Section
    BY <1>0, <2>0, PublishingIsAlone
  <2>2. ~MayRollBack' /\ ~Publishing' /\ (Kind[c] \notin {"put", "gvql"} => MayRollBack)
    BY <2>0, <2>1 DEF MayRollBack, Publishing, Section
  <2>3. Acknowledged' \subseteq Acknowledged
    BY <2>0, AcknowledgedGrowsByCommits
  <2> QED
    BY <2>0, <2>1, <2>2, <2>3 DEF AckInv
<1>7. ASSUME NEW c \in Calls, Commits(c)
      PROVE  AckInv'
  <2>0. /\ StepOf(c) /\ pc[c] = "publishing" /\ pc'[c] \notin Section /\ Valid(c)
        /\ durable'.root = envelope /\ durable'.txn = transactionId + 1 /\ transactionId' = transactionId + 1
        /\ UNCHANGED <<host, root, rollback, startupLock, foreignCommits>>
    BY <1>7 DEF Commits, Section
  <2>1. \A d \in Calls : pc'[d] \notin Section
    BY <1>0, <2>0, PublishingIsAlone DEF Section
  <2>2. ~MayRollBack' /\ ~Publishing' /\ Publishing
    BY <2>0, <2>1 DEF MayRollBack, Publishing, Section
  <2>3. transactionId = durable.txn
    BY <2>0 DEF Valid, AckInv
  <2>4. Acknowledged \subseteq envelope.edits \cap root.edits
    BY <2>2, <2>3 DEF AckInv
  <2>5. Kind[c] \in Atomic \cup {"gvql"} => c \in envelope.edits \cap root.edits
    BY <2>0 DEF AckInv, Section
  <2>6. Acknowledged' \subseteq envelope.edits \cap root.edits
    BY <2>0, <2>4, <2>5, AcknowledgedGrowsByCommits
  <2> QED
    BY <1>0, <2>0, <2>1, <2>2, <2>6 DEF AckInv
<1>8. CASE Rests
  <2>1. Acknowledged' = Acknowledged /\ (MayRollBack' <=> MayRollBack) /\ (Publishing' <=> Publishing)
    BY <1>8 DEF Rests, Acknowledged, Alone, MayRollBack, Publishing
  <2> QED
    BY <1>8, <2>1 DEF Rests, AckInv
<1>9. CASE ForeignCommit
  <2>1. /\ ~startupLock' /\ \A c \in Calls : handle'[c] # "own"
        /\ UNCHANGED <<pc, outcome, host, root, rollback, envelope, transactionId>>
    BY <1>9 DEF ForeignCommit, callVars, liveVars, lockVars
  <2>2. durable'.root.edits = durable.root.edits \cup {Foreign} /\ durable'.txn = durable.txn + 1
    <3>1. durable.root \in Roots /\ durable \in [root : Roots, schema : Nat, txn : Nat]
      BY DEF BaseInv, TypeInv
    <3>2. durable'.root = Edited(durable.root, Foreign) /\ durable'.txn = durable.txn + 1
      BY <1>9, <3>1 DEF ForeignCommit
    <3> QED
      BY <3>1, <3>2, EditedRoot
  <2>3. transactionId' < durable'.txn
    BY <1>0, <2>1, <2>2 DEF AckInv
  <2>4. Acknowledged' \subseteq Acknowledged \cup {Foreign}
    BY <2>1 DEF Acknowledged, Alone
  <2> QED
    BY <1>0, <2>1, <2>2, <2>3, <2>4 DEF AckInv
<1> QED
  BY <1>2, <1>3, <1>4, <1>5, <1>6, <1>7, <1>8, <1>9, StepShapes

\* What has been acknowledged is durable in every behaviour.
LEMMA AckInvAlways == Spec => [](BaseInv /\ AckInv)
<1>1. Init => BaseInv /\ AckInv
  <2> SUFFICES ASSUME Init
               PROVE  AckInv
    BY InitKeeps DEF BaseInv
  <2>1. /\ foreignCommits = 0 /\ transactionId = 1 /\ durable.txn = 1
        /\ \A c \in Calls : outcome[c] = "none" /\ handle[c] = "none" /\ pc[c] = "idle"
    BY DEF Init
  <2>2. Acknowledged = {}
    BY <2>1 DEF Acknowledged
  <2> QED
    BY <2>1, <2>2 DEF AckInv, Section
<1>2. (BaseInv /\ AckInv) /\ [Next]_vars => (BaseInv /\ AckInv)'
  BY TypeInvNext, CallInvNext, SectionInvNext, HandleInvNext, AckInvNext DEF BaseInv
<1> QED
  BY <1>1, <1>2, PTL DEF Spec

\* What a call reported as committed, and what another process committed, is in the
\* store ever after (writeWithConflictCheck, reloadLatestLocked, shutdown).
THEOREM AcknowledgedStays == Spec => []AcknowledgedIsDurable
<1>1. AckInv => AcknowledgedIsDurable
  BY DEF AckInv, Acknowledged, Atomic, AcknowledgedIsDurable
<1> QED
  BY <1>1, AckInvAlways, PTL
-----------------------------------------------------------------------------
(* The schema version. *)

\* No two migrateTo() calls are under way at once.
MigrationsAlone ==
    \A c, d \in Calls : Kind[c] = "migrate" /\ Kind[d] = "migrate" /\ c # d
                            => pc[c] \in {"idle", "done"} \/ pc[d] \in {"idle", "done"}

Applied(s) == [v \in Migrations |-> IF v <= s THEN 1 ELSE 0]
Migrating == \E c \in Calls : Kind[c] = "migrate" /\ pc[c] \in Section

\* A plan that goes step by step, up or down, from version s.
GoodPlan(p, s) ==
    \/ \A i \in 1..Len(p) : p[i] = Step(s + i, s + i - 1, s + i)
    \/ \A i \in 1..Len(p) : p[i] = Step(s - i + 1, s - i + 1, s - i)

\* Each root fits the version beside it, and the plans go on from the store's version.
SchemaInv ==
    /\ durable.root.applied = Applied(durable.schema)
    /\ root.applied = Applied(schemaVersion)
    /\ MayRollBack => rollback.root.applied = Applied(rollback.schema) /\ rollback.schema = durable.schema
    /\ Publishing => envelope.applied = Applied(schemaVersion)
    /\ ~Migrating => schemaVersion = durable.schema
    /\ \A c \in Calls : Kind[c] = "migrate" /\ pc[c] \notin {"idle", "done"} => GoodPlan(plan[c], durable.schema)
    /\ \A c \in Calls : Kind[c] = "migrate" /\ pc[c] \in Section => schemaVersion = Head(plan[c]).to

\* migrateTo() plans a step for each version on the way.
LEMMA PlanIsGood ==
    ASSUME NEW v \in Nat, NEW t \in Nat
    PROVE  GoodPlan(MigrationPlan(v, t), v)
<1>1. CASE t > v
  <2>1. t - v \in Nat /\ MigrationPlan(v, t) = [i \in 1..(t - v) |-> Step(v + i, v + i - 1, v + i)]
    BY <1>1 DEF MigrationPlan, UpPlan
  <2>2. Len(MigrationPlan(v, t)) = t - v
    BY <2>1
  <2> QED
    BY <2>1, <2>2 DEF GoodPlan
<1>2. CASE ~(t > v)
  <2>1. v - t \in Nat /\ MigrationPlan(v, t) = [i \in 1..(v - t) |-> Step(v - i + 1, v - i + 1, v - i)]
    BY <1>2 DEF MigrationPlan, DownPlan
  <2>2. Len(MigrationPlan(v, t)) = v - t
    BY <2>1
  <2> QED
    BY <2>1, <2>2 DEF GoodPlan
<1> QED
  BY <1>1, <1>2

\* The rest of a plan goes on from where its first step leads.
LEMMA PlanGoesOn ==
    ASSUME NEW p \in Seq(MigrationSteps), NEW s \in Nat, GoodPlan(p, s), p # <<>>
    PROVE  GoodPlan(Tail(p), Head(p).to)
<1>1. /\ Len(p) \in Nat \ {0} /\ Head(p) = p[1] /\ Len(Tail(p)) = Len(p) - 1
      /\ \A i \in 1..Len(Tail(p)) : Tail(p)[i] = p[i + 1] /\ i + 1 \in 1..Len(p)
  OBVIOUS
<1>2. CASE \A i \in 1..Len(p) : p[i] = Step(s + i, s + i - 1, s + i)
  <2>1. Head(p).to = s + 1
    BY <1>1, <1>2 DEF Step
  <2>2. \A i \in 1..Len(Tail(p)) : Tail(p)[i] = Step(s + (i + 1), s + (i + 1) - 1, s + (i + 1))
    BY <1>1, <1>2
  <2>3. \A i \in 1..Len(Tail(p)) : Tail(p)[i] = Step((s + 1) + i, (s + 1) + i - 1, (s + 1) + i)
    <3> SUFFICES ASSUME NEW i \in 1..Len(Tail(p))
                 PROVE  Tail(p)[i] = Step((s + 1) + i, (s + 1) + i - 1, (s + 1) + i)
      OBVIOUS
    <3>1. s + (i + 1) = (s + 1) + i /\ s + (i + 1) - 1 = (s + 1) + i - 1
      OBVIOUS
    <3> QED
      BY <2>2, <3>1
  <2> QED
    BY <2>1, <2>3 DEF GoodPlan
<1>3. CASE \A i \in 1..Len(p) : p[i] = Step(s - i + 1, s - i + 1, s - i)
  <2>1. Head(p).to = s - 1
    BY <1>1, <1>3 DEF Step
  <2>2. \A i \in 1..Len(Tail(p)) : Tail(p)[i] = Step(s - (i + 1) + 1, s - (i + 1) + 1, s - (i + 1))
    BY <1>1, <1>3
  <2>3. \A i \in 1..Len(Tail(p)) : Tail(p)[i] = Step((s - 1) - i + 1, (s - 1) - i + 1, (s - 1) - i)
    <3> SUFFICES ASSUME NEW i \in 1..Len(Tail(p))
                 PROVE  Tail(p)[i] = Step((s - 1) - i + 1, (s - 1) - i + 1, (s - 1) - i)
      OBVIOUS
    <3>1. s - (i + 1) + 1 = (s - 1) - i + 1 /\ s - (i + 1) = (s - 1) - i
      OBVIOUS
    <3> QED
      BY <2>2, <3>1
  <2> QED
    BY <2>1, <2>3 DEF GoodPlan
<1> QED
  BY <1>2, <1>3 DEF GoodPlan

\* The first step of a plan brings a root that fits version s to one that fits the
\* step's target.
LEMMA StepFits ==
    ASSUME NEW p \in Seq(MigrationSteps), NEW s \in Nat, GoodPlan(p, s), p # <<>>,
           NEW r \in Roots, r.applied = Applied(s)
    PROVE  Migrated(r, Head(p)).applied = Applied(Head(p).to)
<1> DEFINE h == Head(p)
<1>1. h = p[1] /\ 1 \in 1..Len(p) /\ h \in MigrationSteps
  OBVIOUS
<1>2. Migrated(r, h).applied = [r.applied EXCEPT ![h.version] = IF h.to > h.from THEN @ + 1 ELSE @ - 1]
  BY DEF Migrated, Roots
<1>3. \/ h.version = s + 1 /\ h.from = s /\ h.to = s + 1
      \/ h.version = s /\ h.from = s /\ h.to = s - 1
  <2>1. h = Step(s + 1, s + 1 - 1, s + 1) \/ h = Step(s - 1 + 1, s - 1 + 1, s - 1)
    BY <1>1 DEF GoodPlan
  <2> QED
    BY <2>1 DEF Step
<1>4. ASSUME NEW v \in Migrations
      PROVE  Migrated(r, h).applied[v] = IF v <= h.to THEN 1 ELSE 0
  <2>1. v \in Nat /\ r.applied[v] = IF v <= s THEN 1 ELSE 0
    BY CallsAssumption DEF Applied
  <2>2. r.applied \in [Migrations -> Int]
    BY DEF Roots
  <2>3. CASE v # h.version
    <3>1. Migrated(r, h).applied[v] = r.applied[v]
      BY <1>2, <2>2, <2>3
    <3> QED
      BY <1>3, <2>1, <2>3, <3>1
  <2>4. CASE v = h.version
    <3>1. Migrated(r, h).applied[v] = IF h.to > h.from THEN r.applied[v] + 1 ELSE r.applied[v] - 1
      BY <1>2, <2>2, <2>4
    <3>2. CASE h.version = s + 1 /\ h.from = s /\ h.to = s + 1
      BY <2>1, <2>4, <3>1, <3>2
    <3>3. CASE h.version = s /\ h.from = s /\ h.to = s - 1
      BY <2>1, <2>4, <3>1, <3>3
    <3> QED
      BY <1>3, <3>2, <3>3
  <2> QED
    BY <2>3, <2>4
<1>5. Migrated(r, h).applied = [v \in Migrations |-> Migrated(r, h).applied[v]]
  BY <1>2 DEF Roots
<1> QED
  BY <1>4, <1>5 DEF Applied

\* An edit leaves the migrations of a root alone.
LEMMA EditKeepsMigrations ==
    ASSUME NEW r \in Roots, NEW c
    PROVE  Edited(r, c).applied = r.applied
BY DEF Edited, Roots

\* Only the call c moves; the others keep their plans.
Alters(c) == \A d \in Calls \ {c} : pc'[d] = pc[d] /\ plan'[d] = plan[d]

\* The four ways in which a step can touch a schema version or a plan keep SchemaInv:
\* a call moves outside of sections,
LEMMA SchemaKeptOutside ==
    ASSUME SchemaInv, NEW c \in Calls, Alters(c), pc[c] \notin Section, pc'[c] \notin Section,
           UNCHANGED <<rollback, envelope, durable, schemaVersion>>, root'.applied = root.applied,
           Kind[c] = "migrate" /\ pc'[c] \notin {"idle", "done"} => GoodPlan(plan'[c], durable.schema)
    PROVE  SchemaInv'
<1>1. \A d \in Calls : pc'[d] \in Section \/ pc[d] \in Section => d # c /\ pc'[d] = pc[d] /\ plan'[d] = plan[d]
  BY DEF Alters
<1>2. (MayRollBack' => MayRollBack) /\ (Publishing' => Publishing) /\ (Migrating => Migrating')
  BY <1>1 DEF MayRollBack, Publishing, Migrating, Section
<1>3. \A d \in Calls : Kind[d] = "migrate" /\ pc'[d] \notin {"idle", "done"} => GoodPlan(plan'[d], durable.schema)
  BY DEF SchemaInv, Alters
<1>4. \A d \in Calls : Kind[d] = "migrate" /\ pc'[d] \in Section => schemaVersion = Head(plan'[d]).to
  BY <1>1 DEF SchemaInv
<1> QED
  BY <1>2, <1>3, <1>4 DEF SchemaInv

\* a section begins or goes on,
LEMMA SchemaKeptInside ==
    ASSUME SchemaInv, NEW c \in Calls, Alters(c), plan' = plan, durable' = durable,
           \A d \in Calls \ {c} : pc[d] \notin Section, pc[c] \notin {"idle", "done"}, pc'[c] \in Section,
           root'.applied = Applied(schemaVersion'),
           Kind[c] \notin {"put", "gvql"} =>
               rollback'.root.applied = Applied(rollback'.schema) /\ rollback'.schema = durable.schema,
           pc'[c] = "publishing" => envelope'.applied = root'.applied,
           schemaVersion' = IF Kind[c] = "migrate" THEN Head(plan[c]).to ELSE durable.schema
    PROVE  SchemaInv'
<1>1. \A d \in Calls : pc'[d] \in Section => d = c
  BY DEF Alters
<1>2. /\ MayRollBack' => Kind[c] \notin {"put", "gvql"}
      /\ Publishing' => pc'[c] = "publishing"
      /\ ~Migrating' => Kind[c] # "migrate"
  BY <1>1 DEF MayRollBack, Publishing, Migrating, Section
<1>3. \A d \in Calls : Kind[d] = "migrate" /\ pc'[d] \notin {"idle", "done"} => GoodPlan(plan'[d], durable.schema)
  BY DEF SchemaInv, Alters
<1>4. \A d \in Calls : Kind[d] = "migrate" /\ pc'[d] \in Section => schemaVersion' = Head(plan'[d]).to
  BY <1>1
<1> QED
  BY <1>2, <1>3, <1>4 DEF SchemaInv

\* or a section ends and leaves the live root at the version of the store.
LEMMA SchemaKeptAfter ==
    ASSUME NEW c \in Calls, Alters(c),
           \A d \in Calls \ {c} : pc[d] \notin Section, pc'[c] \notin Section,
           durable'.root.applied = Applied(durable'.schema),
           root'.applied = Applied(schemaVersion'), schemaVersion' = durable'.schema,
           \A d \in Calls : Kind[d] = "migrate" /\ pc'[d] \notin {"idle", "done"} => GoodPlan(plan'[d], durable'.schema)
    PROVE  SchemaInv'
<1>1. \A d \in Calls : pc'[d] \notin Section
  BY DEF Alters
<1>2. ~MayRollBack' /\ ~Publishing'
  BY <1>1 DEF MayRollBack, Publishing, Section
<1> QED
  BY <1>1, <1>2 DEF SchemaInv

\* Every step keeps the versions and the roots together.
LEMMA SchemaInvNext == BaseInv /\ SchemaInv /\ MigrationsAlone /\ MigrationsAlone' /\ [Next]_vars => SchemaInv'
<1> SUFFICES ASSUME BaseInv, SchemaInv, MigrationsAlone, MigrationsAlone', [Next]_vars
             PROVE  SchemaInv'
  OBVIOUS
<1> USE DEF Ends, callVars, liveVars, lockVars
<1>0. /\ pc \in [Calls -> Points] /\ plan \in [Calls -> Seq(MigrationSteps)]
      /\ root \in Roots /\ durable.root \in Roots /\ durable \in [root : Roots, schema : Nat, txn : Nat]
      /\ durable.schema \in Nat /\ schemaVersion \in Nat /\ SectionInv
      /\ \A c \in Calls : Kind[c] = "migrate" /\ pc[c] \notin {"idle", "done"} => plan[c] # <<>>
      /\ \A c \in Calls : pc[c] = "between" => Kind[c] = "migrate"
      /\ \A c \in Calls : pc[c] = "retrying" => Kind[c] = "optimistic"
  BY DEF BaseInv, TypeInv, CallInv
<1>1. ASSUME NEW c \in Calls
      PROVE  /\ pc[c] \in Section => \A d \in Calls \ {c} : pc[d] \notin Section
             /\ Turn(c) => ~Migrating /\ \A d \in Calls : pc[d] \notin Section
             /\ pc[c] \in Section /\ Kind[c] # "migrate" => ~Migrating
  BY <1>0, SectionIsAlone DEF Migrating
<1>2. ASSUME NEW c \in Calls, Issue(c)
      PROVE  SchemaInv'
  <2>0. /\ pc[c] = "idle" /\ pc'[c] \in {"queued", "done"} /\ \A d \in Calls \ {c} : pc'[d] = pc[d]
        /\ UNCHANGED <<rollback, envelope, durable, schemaVersion>>
    BY <1>0, <1>2 DEF Issue, RejectCall, JoinTransaction, IssueCall, MigrateTo, MayIssue
  <2>1. root'.applied = root.applied
    BY <1>0, <1>2, EditKeepsMigrations DEF Issue, RejectCall, JoinTransaction, IssueCall, MigrateTo, PutEdit
  <2>2. CASE RejectCall(c) \/ JoinTransaction(c) \/ IssueCall(c)
    <3>1. plan' = plan /\ (Kind[c] = "migrate" => pc'[c] = "done")
      BY <1>0, <2>2 DEF RejectCall, JoinTransaction, IssueCall
    <3> QED
      BY <2>0, <2>1, <3>1, SchemaKeptOutside DEF Alters, Section
  <2>3. CASE MigrateTo(c)
    <3> DEFINE p == MigrationPlan(schemaVersion, Target[c])
    <3>1. plan' = [plan EXCEPT ![c] = p] /\ Kind[c] = "migrate" /\ Target[c] \in Nat
      BY <2>3, CallsAssumption DEF MigrateTo
    <3>2. GoodPlan(plan'[c], schemaVersion)
      BY <1>0, <3>1, PlanIsGood
    <3>3. CASE pc'[c] = "queued"
      <4>1. ~Migrating
        BY <2>0, <3>1, <3>3 DEF MigrationsAlone, Migrating, Section
      <4> QED
        BY <1>0, <2>0, <2>1, <3>1, <3>2, <3>3, <4>1, SchemaKeptOutside DEF SchemaInv, Alters, Section
    <3>4. CASE pc'[c] = "done"
      BY <1>0, <2>0, <2>1, <3>1, <3>4, SchemaKeptOutside DEF Alters, Section
    <3> QED
      BY <2>0, <3>3, <3>4
  <2> QED
    BY <1>2, <2>2, <2>3 DEF Issue
<1>3. ASSUME NEW c \in Calls, Begin(c)
      PROVE  SchemaInv'
  <2>0. /\ Turn(c) /\ pc[c] = "queued" /\ plan' = plan /\ durable' = durable
        /\ \A d \in Calls \ {c} : pc'[d] = pc[d]
    BY <1>0, <1>3 DEF Begin, BeginStore, BeginGvql, BeginUpdate, BeginTransaction, Collect, Turn, Fails
  <2>1. /\ \A d \in Calls : pc[d] \notin Section
        /\ Alters(c) /\ ~Migrating /\ schemaVersion = durable.schema
    BY <1>1, <2>0 DEF SchemaInv, Alters
  <2>2. CASE BeginStore(c)
    <3>1. /\ Kind[c] = "put" /\ pc'[c] \in {"done", "storing"}
          /\ UNCHANGED <<root, schemaVersion, rollback, envelope>>
      BY <1>0, <2>2 DEF BeginStore, Fails
    <3>2. CASE pc'[c] = "done"
      BY <2>0, <2>1, <3>1, <3>2, SchemaKeptOutside DEF Section
    <3>3. CASE pc'[c] = "storing"
      <4>1. root'.applied = Applied(schemaVersion')
        BY <3>1 DEF SchemaInv
      <4> QED
        BY <2>0, <2>1, <3>1, <3>3, <4>1, SchemaKeptInside DEF Section
    <3> QED
      BY <3>1, <3>2, <3>3
  <2>3. CASE BeginGvql(c)
    <3>1. Kind[c] = "gvql" /\ UNCHANGED <<schemaVersion, rollback>>
      BY <2>3 DEF BeginGvql, Fails
    <3>2. CASE Conflict
      BY <1>0, <2>0, <2>1, <2>3, <3>1, <3>2, SchemaKeptOutside DEF BeginGvql, Fails, Section
    <3>3. CASE ~Conflict
      <4>1. pc'[c] = "publishing" /\ envelope' = root' /\ root'.applied = root.applied
        BY <1>0, <2>3, <3>3, EditKeepsMigrations DEF BeginGvql
      <4>2. root'.applied = Applied(schemaVersion')
        BY <3>1, <4>1 DEF SchemaInv
      <4> QED
        BY <2>0, <2>1, <3>1, <4>1, <4>2, SchemaKeptInside DEF Section
    <3> QED
      BY <3>2, <3>3
  <2>4. CASE BeginUpdate(c)
    <3>1. Kind[c] = "update" /\ UNCHANGED <<schemaVersion, envelope>>
      BY <2>4 DEF BeginUpdate
    <3>2. CASE started
      <4>1. pc'[c] = "working" /\ rollback' = Live /\ root'.applied = root.applied
        BY <1>0, <2>4, <3>2, EditKeepsMigrations DEF BeginUpdate
      <4>2. /\ root'.applied = Applied(schemaVersion')
            /\ rollback'.root.applied = Applied(rollback'.schema) /\ rollback'.schema = durable.schema
        BY <2>1, <3>1, <4>1 DEF SchemaInv, Live
      <4> QED
        BY <2>0, <2>1, <3>1, <4>1, <4>2, SchemaKeptInside DEF Section
    <3>3. CASE ~started
      BY <1>0, <2>0, <2>1, <2>4, <3>1, <3>3, SchemaKeptOutside DEF BeginUpdate, Section
    <3> QED
      BY <3>2, <3>3
  <2>5. CASE BeginTransaction(c)
    <3>1. /\ rollback'.root = durable.root /\ rollback'.schema = durable.schema /\ Kind[c] \in Transactional
          /\ durable.root.applied = Applied(durable.schema)
      BY <2>5 DEF BeginTransaction, SchemaInv
    <3>2. CASE started /\ Kind[c] = "migrate"
      <4>1. /\ pc'[c] = "working" /\ root' = Migrated(durable.root, Head(plan[c]))
            /\ schemaVersion' = Head(plan[c]).to
        BY <1>0, <2>5, <3>2 DEF BeginTransaction
      <4>2. GoodPlan(plan[c], durable.schema) /\ plan[c] # <<>> /\ plan[c] \in Seq(MigrationSteps)
        BY <1>0, <2>0, <3>2 DEF SchemaInv
      <4>3. root'.applied = Applied(schemaVersion')
        BY <1>0, <3>1, <4>1, <4>2, StepFits
      <4> QED
        BY <2>0, <2>1, <3>1, <3>2, <4>1, <4>3, SchemaKeptInside DEF Section
    <3>3. CASE started /\ Kind[c] # "migrate"
      <4>1. /\ pc'[c] = "working" /\ root'.applied = durable.root.applied
            /\ schemaVersion' = durable.schema
        BY <1>0, <2>5, <3>3, EditKeepsMigrations DEF BeginTransaction
      <4> QED
        BY <2>0, <2>1, <3>1, <3>3, <4>1, SchemaKeptInside DEF Section
    <3>4. CASE ~started
      <4>1. pc'[c] = "done" /\ root' = durable.root /\ schemaVersion' = durable.schema
        BY <1>0, <2>5, <3>4 DEF BeginTransaction
      <4>2. \A d \in Calls : Kind[d] = "migrate" /\ pc'[d] \notin {"idle", "done"} => GoodPlan(plan'[d], durable'.schema)
        BY <2>0, <4>1 DEF SchemaInv
      <4> QED
        BY <2>0, <2>1, <3>1, <4>1, <4>2, SchemaKeptAfter DEF Section
    <3> QED
      BY <3>2, <3>3, <3>4
  <2>6. CASE Collect(c)
    BY <1>0, <2>0, <2>1, <2>6, SchemaKeptOutside DEF Collect, Section
  <2> QED
    BY <1>3, <2>2, <2>3, <2>4, <2>5, <2>6 DEF Begin
<1>4. ASSUME NEW c \in Calls, Continue(c)
      PROVE  SchemaInv'
  <2>1. CASE WorkThrows(c) \/ WorkIsRefused(c) \/ CommitFails(c) \/ WorkRetries(c)
    <3>1. /\ pc[c] \in Section /\ UNCHANGED <<plan, durable>>
          /\ \A d \in Calls \ {c} : pc'[d] = pc[d]
          /\ pc'[c] = "done" \/ (pc'[c] = "retrying" /\ Kind[c] = "optimistic")
          /\ IF Kind[c] \in {"put", "gvql"} THEN UNCHANGED <<root, schemaVersion>>
                                            ELSE root' = rollback.root /\ schemaVersion' = rollback.schema
      BY <1>0, <2>1 DEF WorkThrows, WorkIsRefused, CommitFails, WorkRetries, MayRetry, Fails, CallbackIsDone, Section
    <3>2. root'.applied = Applied(schemaVersion') /\ schemaVersion' = durable.schema
      <4>1. CASE Kind[c] \in {"put", "gvql"}
        BY <1>1, <3>1, <4>1 DEF SchemaInv
      <4>2. CASE Kind[c] \notin {"put", "gvql"}
        BY <3>1, <4>2 DEF SchemaInv, MayRollBack
      <4> QED
        BY <4>1, <4>2
    <3>3. \A d \in Calls : Kind[d] = "migrate" /\ pc'[d] \notin {"idle", "done"} => GoodPlan(plan'[d], durable'.schema)
      BY <3>1 DEF SchemaInv
    <3>4. durable'.root.applied = Applied(durable'.schema)
      BY <3>1 DEF SchemaInv
    <3> QED
      BY <1>1, <3>1, <3>2, <3>3, <3>4, SchemaKeptAfter DEF Alters, Section
  <2>2. CASE WorkEnds(c) \/ Serialize(c)
    <3>1. /\ pc[c] \in Section /\ pc'[c] \in {"storing", "publishing"}
          /\ \A d \in Calls \ {c} : pc'[d] = pc[d]
          /\ UNCHANGED <<root, schemaVersion, rollback, durable, plan>>
          /\ pc'[c] = "publishing" => envelope' = root
      BY <1>0, <2>2 DEF WorkEnds, Serialize, CallbackIsDone, Section
    <3>2. /\ root'.applied = Applied(schemaVersion')
          /\ schemaVersion' = IF Kind[c] = "migrate" THEN Head(plan[c]).to ELSE durable.schema
          /\ Kind[c] \notin {"put", "gvql"} =>
               rollback'.root.applied = Applied(rollback'.schema) /\ rollback'.schema = durable.schema
      BY <1>1, <3>1 DEF SchemaInv, MayRollBack
    <3> QED
      BY <1>1, <3>1, <3>2, SchemaKeptInside DEF Alters, Section
  <2>3. CASE Retry(c) \/ NextMigration(c)
    <3>1. /\ pc[c] \in {"retrying", "between"} /\ pc'[c] \in {"queued", "done"}
          /\ \A d \in Calls \ {c} : pc'[d] = pc[d]
          /\ UNCHANGED <<root, schemaVersion, rollback, durable, plan, envelope>>
      BY <1>0, <2>3 DEF Retry, NextMigration
    <3>2. Kind[c] = "migrate" => GoodPlan(plan'[c], durable.schema)
      BY <3>1 DEF SchemaInv
    <3> QED
      BY <3>1, <3>2, SchemaKeptOutside DEF Alters, Section
  <2>4. CASE Publish(c)
    <3>1. /\ pc[c] = "publishing" /\ pc'[c] \in {"between", "done"}
          /\ \A d \in Calls \ {c} : pc'[d] = pc[d] /\ plan'[d] = plan[d]
          /\ durable'.root = envelope /\ durable'.schema = schemaVersion /\ UNCHANGED <<root, schemaVersion>>
          /\ Kind[c] # "migrate" => plan' = plan /\ pc'[c] = "done"
          /\ Kind[c] = "migrate" => plan'[c] = Tail(plan[c])
      BY <1>0, <2>4 DEF Publish
    <3>2. durable'.root.applied = Applied(durable'.schema) /\ root'.applied = Applied(schemaVersion')
      BY <3>1 DEF SchemaInv, Publishing
    <3>3. \A d \in Calls : Kind[d] = "migrate" /\ pc'[d] \notin {"idle", "done"} => GoodPlan(plan'[d], durable'.schema)
      <4>1. CASE Kind[c] = "migrate"
        <5>1. GoodPlan(plan[c], durable.schema) /\ schemaVersion = Head(plan[c]).to /\ plan[c] # <<>>
          BY <1>0, <3>1, <4>1 DEF SchemaInv, Section
        <5>2. GoodPlan(plan'[c], durable'.schema)
          <6>1. plan[c] \in Seq(MigrationSteps) /\ durable.schema \in Nat
            BY <1>0
          <6>2. GoodPlan(Tail(plan[c]), Head(plan[c]).to)
            BY <5>1, <6>1, PlanGoesOn
          <6> QED
            BY <3>1, <4>1, <5>1, <6>2
        <5>3. \A d \in Calls \ {c} : Kind[d] = "migrate" => pc'[d] \in {"idle", "done"}
          BY <3>1, <4>1 DEF MigrationsAlone
        <5> QED
          BY <5>2, <5>3
      <4>2. CASE Kind[c] # "migrate"
        <5>1. durable'.schema = durable.schema
          BY <1>1, <3>1, <4>2 DEF SchemaInv, Section
        <5> QED
          BY <3>1, <4>2, <5>1 DEF SchemaInv
      <4> QED
        BY <4>1, <4>2
    <3> QED
      BY <1>1, <3>1, <3>2, <3>3, SchemaKeptAfter DEF Alters, Section
  <2> QED
    BY <1>4, <2>1, <2>2, <2>3, <2>4 DEF Continue
<1>5. CASE ShutdownReleases \/ ShutdownEnds \/ ForeignCommit \/ UNCHANGED vars
  <2>1. UNCHANGED <<pc, plan, root, schemaVersion, rollback, envelope>>
    BY <1>5 DEF ShutdownReleases, ShutdownEnds, ForeignCommit, vars
  <2>2. durable'.schema = durable.schema /\ durable'.root.applied = durable.root.applied
    <3>1. CASE ForeignCommit
      BY <1>0, <3>1, EditKeepsMigrations DEF ForeignCommit
    <3>2. CASE ShutdownReleases \/ ShutdownEnds \/ UNCHANGED vars
      BY <3>2 DEF ShutdownReleases, ShutdownEnds, vars
    <3> QED
      BY <1>5, <3>1, <3>2
  <2> QED
    BY <2>1, <2>2 DEF SchemaInv, MayRollBack, Publishing, Migrating
<1> QED
  BY <1>2, <1>3, <1>4, <1>5 DEF Next, Quiet

\* The schema version of the store says which migrations its root has been through, as
\* long as no two migrateTo() calls are under way at once (migrateTo, runMigration).
THEOREM VersionFitsRoot == Spec /\ []MigrationsAlone => []SchemaMatchesRoot
<1>1. Init => BaseInv /\ SchemaInv
  <2> SUFFICES ASSUME Init
               PROVE  SchemaInv
    BY InitKeeps DEF BaseInv
  <2>1. /\ root.applied = Applied(InitialVersion) /\ durable.root = root
        /\ schemaVersion = InitialVersion /\ durable.schema = InitialVersion
        /\ \A c \in Calls : pc[c] = "idle"
    BY DEF Init, Applied
  <2> QED
    BY <2>1 DEF SchemaInv, MayRollBack, Publishing, Section
<1>2. (BaseInv /\ SchemaInv) /\ MigrationsAlone /\ MigrationsAlone' /\ [Next]_vars => (BaseInv /\ SchemaInv)'
  BY TypeInvNext, CallInvNext, SectionInvNext, HandleInvNext, SchemaInvNext DEF BaseInv
<1>3. BaseInv /\ SchemaInv => SchemaMatchesRoot
  BY DEF SchemaInv, SchemaMatchesRoot, Applied
<1> QED
  BY <1>1, <1>2, <1>3, PTL DEF Spec
=============================================================================
