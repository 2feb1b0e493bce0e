------------------------ MODULE GraphStoreSharedProofs ------------------------
(***************************************************************************)
(* Theorems about a store that several managers have open: the write lock  *)
(* is taken for each operation (lockStrategy "pessimistic" or              *)
(* "optimistic") and everything else is done without it.                   *)
(***************************************************************************)
EXTENDS GraphStoreStartupProofs

\* The commit marker of a commit is written, its transaction record is not.
PublishWindow == {"fencePublish", "record"}

\* The lock of a live process is not broken, there is a WAL, and commits are whole
\* graphs.  A writer that stops between the commit marker and the transaction record
\* hides its commit from the managers that have loaded already: either it does not,
\* or it does so while nobody works optimistically, and the other writers load the
\* last commit under the lock.
SharedOnly ==
    /\ Strategy # "startup"
    /\ StaleLocks # "live"
    /\ \A o \in Options : o.wal
    /\ "storeAll" \notin Ops
    /\ \/ PublishWindow \cap (CrashAt \cup FailsAt) = {}
       \/ Ops \subseteq TransactionOps /\ PublishWindow \subseteq QuietAt

-----------------------------------------------------------------------------
(* The inductive invariant: k is the last durable commit *)

\* A manifest that was published, now or earlier, is that of a commit and shows it.
Published(man, k) ==
    \/ man = NoManifest
    \/ /\ man.tid \in 1..k
       /\ man.vers = AllAt(history[man.tid].graph, man.tid)
       /\ txns[man.tid] # NoEnvelope

\* No transaction record has a higher id.
NewestRecord(l) ==
    /\ l > 0 => txns[l] # NoEnvelope
    /\ \A t \in Tids : txns[t] # NoEnvelope => t <= l

\* The WAL holds every commit, and so do the records and the snapshots.  The files
\* that publish a commit may be behind, but they belong to one.
StoreInv(k) ==
    /\ options.wal
    /\ TopIs(k)
    /\ markers = 1..k
    /\ \A t \in 1..k : prepares[t] = history[t].graph
    /\ \A t \in 1..k : \A o \in DOMAIN history[t].graph : records[o][t] = <<history[t].graph[o]>>
    /\ options.snapshots => \A t \in 1..k : snapshots[t] = history[t].graph
    /\ ~options.snapshots => \A t \in Tids : snapshots[t] = NoEnvelope
    /\ \E l \in 0..k : NewestRecord(l)
    /\ \A t \in Tids : txns[t] # NoEnvelope => txns[t] = history[t].graph
    /\ current <= k
    /\ current > 0 => options.snapshots /\ txns[current] # NoEnvelope
    /\ Published(manifest, k)
    /\ index.tid <= k
    /\ index.tid > 0 => index.env = history[index.tid].graph

\* What a manager does under the write lock.
InSection(m) ==
    \/ pc[m] \in {"listWal", "recover", "check", "serialize", "release"}
    \/ pc[m] \in Committing /\ job[m].kind # "repair"
    \/ pc[m] \in Loading \cup {"work"} /\ job[m].kind = "pessimistic"

SectionInv(m) ==
    /\ held[m] <=> InSection(m)
    /\ held[m] => lock = m

\* Which operation is at which control point.
KindInv(m) ==
    /\ job[m].kind \in {"none"} \cup StartOps \cup Ops
    /\ pc[m] \in {"down", "idle"} => job[m].kind = "none"
    /\ pc[m] \in {"listWal", "recover"} => job[m].kind = "start"
    /\ pc[m] = "release" => job[m].kind \in {"none", "start"}
    /\ pc[m] = "acquire" => job[m].kind \in {"start"} \cup Ops
    /\ pc[m] \in Loading => job[m].kind \in {"start"} \cup TransactionOps
    /\ pc[m] \in {"work", "check", "serialize"} => job[m].kind \in Ops
    /\ pc[m] = "check" => job[m].kind # "pessimistic"
    /\ pc[m] \in Committing => job[m].kind \notin {"none", "start"}

\* What a load has read was published, and a load under the lock finds the last commit.
ReadInv(m, k) ==
    /\ pc[m] \in {"readWal", "readObjects"} => Published(job[m].man, k)
    /\ pc[m] = "readObjects" /\ job[m].kind = "pessimistic" => job[m].man.tid = k
    /\ pc[m] = "work" /\ job[m].kind = "pessimistic" => tid[m] = k
    /\ pc[m] = "serialize" => tid[m] = k

\* A commit that has begun: the files it has written before it is durable, and what
\* it still publishes afterwards.
BegunInv(m, k) == pc[m] \in Committing /\ job[m].kind \notin StartOps =>
    /\ job[m].env = Serialize(heap[m])
    /\ Unborn(m) =>
         /\ job[m].t = k + 1 /\ tid[m] = k
         /\ pc[m] # "prepare" => prepares[k + 1] = job[m].env
         /\ \A o \in DOMAIN job[m].env \ job[m].todo : records[o][k + 1] = <<job[m].env[o]>>
         /\ options.snapshots /\ pc[m] \in {"fenceCommit", "marker"} => snapshots[k + 1] = job[m].env
    /\ ~Unborn(m) => job[m].t = k /\ job[m].env = history[k].graph

\* A commit that recovery or the repair of a start publishes again.
AgainInv(m, k) == pc[m] \in Committing /\ job[m].kind \in StartOps =>
    /\ job[m].t <= k
    /\ job[m].env = history[job[m].t].graph
    /\ pc[m] \notin {"prepare", "fenceCommit", "marker"}
    /\ job[m].kind = "repair" =>
         /\ pc[m] \in {"objects", "manifest", "index"}
         /\ txns[job[m].t] # NoEnvelope
         /\ tid[m] = job[m].t
         /\ heap[m] = Deserialize(job[m].env)

PublishInv(m) ==
    /\ pc[m] \in AfterRecord => txns[job[m].t] # NoEnvelope
    /\ pc[m] \in {"snapshot", "fenceCurrent", "current"} => options.snapshots

\* Somebody is about to write the transaction record of the last commit.
Publishing == \E m \in Managers : held[m] /\ job[m].kind \notin StartOps /\ pc[m] \in PublishWindow

\* If a writer has stopped before it, whoever works optimistically has the commit.
Hidden(k) ==
    /\ Ops \subseteq TransactionOps
    /\ \A m \in Managers : job[m].kind = "optimistic" =>
         /\ pc[m] # "readObjects"
         /\ pc[m] \in {"work", "acquire", "check"} => tid[m] = k

WindowInv(k) == k = 0 \/ txns[k] # NoEnvelope \/ Publishing \/ Hidden(k)

ManagerInv(m, k) ==
    /\ SectionInv(m) /\ KindInv(m) /\ ReadInv(m, k)
    /\ BegunInv(m, k) /\ AgainInv(m, k) /\ PublishInv(m)

SharedInv ==
    /\ WholeInv /\ HistoryInv
    /\ \E k \in 0..MaxTid : StoreInv(k) /\ WindowInv(k) /\ \A m \in Managers : ManagerInv(m, k)

-----------------------------------------------------------------------------
(* What the files of such a store say *)

\* A commit of the history has a graph that is closed and not empty.
LEMMA CommitGraph ==
    ASSUME HistoryInv, NEW k \in 0..MaxTid, TopIs(k), NEW t \in 1..k
    PROVE  /\ t \in Tids /\ history[t] # NoCommit
           /\ Generated(history[t].graph) /\ history[t].stored = history[t].graph
           /\ Closed(history[t].graph) /\ history[t].graph \in Envelopes
           /\ history[t].graph # NoEnvelope
<1>1. t \in Tids /\ t <= k
  BY StoreAssumptions DEF Tids
<1>2. history[t] # NoCommit
  BY <1>1 DEF TopIs
<1>3. Generated(history[t].graph) /\ history[t].stored = history[t].graph
  BY <1>1, <1>2 DEF HistoryInv
<1> QED
  BY <1>1, <1>2, <1>3, GeneratedIsClosed

\* The WAL entries that have both files are the commits.
LEMMA WalIsHistory ==
    ASSUME HistoryInv, NEW k \in 0..MaxTid, StoreInv(k)
    PROVE  CommittedWal = 1..k
<1>1. \A t \in 1..k : prepares[t] # NoEnvelope
  BY CommitGraph DEF StoreInv
<1> QED
  BY <1>1 DEF CommittedWal, StoreInv

\* The newest transaction record belongs to a commit, seldom to the last one.
LEMMA NewestIs ==
    ASSUME NEW k \in 0..MaxTid, StoreInv(k)
    PROVE  /\ LatestTxn \in 0..k /\ NewestRecord(LatestTxn)
           /\ k > 0 /\ txns[k] # NoEnvelope => LatestTxn = k
<1>0. k \in Int /\ MaxTid \in Nat
  BY StoreAssumptions
<1>1. PICK l \in 0..k : NewestRecord(l)
  BY DEF StoreInv
<1>2. LatestTxn = l
  <2>1. l \in 0..MaxTid /\ \A t \in Tids : t > l => txns[t] = NoEnvelope
    BY <1>0, <1>1 DEF NewestRecord, Tids
  <2>2. l > 0 => txns[l] # NoEnvelope
    BY <1>1 DEF NewestRecord
  <2> QED
    BY <2>1, <2>2, LatestIs
<1>3. k > 0 => k \in Tids
  BY <1>0 DEF Tids
<1> QED
  BY <1>0, <1>1, <1>2, <1>3 DEF NewestRecord

\* A published manifest is readable and shows the graph of its commit.
LEMMA PublishedShows ==
    ASSUME TypeInv, HistoryInv, NEW k \in 0..MaxTid, StoreInv(k), NEW man, Published(man, k)
    PROVE  /\ man.tid \in 0..k
           /\ man.tid = 0 => man = NoManifest
           /\ man.tid > 0 => /\ man.tid \in Tids /\ man.tid <= LatestTxn
                             /\ man.vers = AllAt(history[man.tid].graph, man.tid)
                             /\ Readable(man)
                             /\ EnvelopeFromManifest(man) = history[man.tid].graph
<1>0. k \in Int /\ MaxTid \in Nat
  BY StoreAssumptions
<1>1. CASE man = NoManifest
  BY <1>0, <1>1 DEF NoManifest
<1>2. CASE man # NoManifest
  <2> DEFINE t == man.tid
             g == history[t].graph
  <2>1. t \in 1..k /\ t \in Tids /\ man.vers = AllAt(g, t) /\ txns[t] # NoEnvelope
    BY <1>0, <1>2 DEF Published, Tids
  <2>2. t <= LatestTxn
    BY <2>1, NewestIs DEF NewestRecord
  <2>3. g \in Envelopes
    BY <2>1, CommitGraph DEF StoreInv
  <2>4. \A o \in DOMAIN g : records[o][t] = <<g[o]>>
    BY <2>1 DEF StoreInv
  <2> HIDE DEF g, t
  <2>5. DOMAIN man.vers = DOMAIN g /\ \A o \in DOMAIN g : man.vers[o] = t
    BY <2>1 DEF AllAt
  <2>6. Readable(man)
    BY <2>4, <2>5, OneRecord DEF Readable
  <2>7. EnvelopeFromManifest(man) = [o \in DOMAIN g |-> g[o]]
    BY <2>4, <2>5 DEF EnvelopeFromManifest
  <2>8. g = [o \in DOMAIN g |-> g[o]]
    BY <2>3 DEF Envelopes
  <2> QED
    BY <1>0, <2>1, <2>2, <2>6, <2>7, <2>8 DEF t, g
<1> QED
  BY <1>1, <1>2

\* Wherever the writers are, a start without failures loads the last commit.
LEMMA LastCommitIsFound ==
    ASSUME TypeInv, HistoryInv, NEW k \in 0..MaxTid, StoreInv(k)
    PROVE  /\ HistoryTop = k
           /\ k = 0 => Recoverable = NoEnvelope
           /\ k > 0 => Recoverable = history[k].graph
<1>0. k \in Int /\ MaxTid \in Nat
  BY StoreAssumptions
<1>1. HistoryTop = k
  BY TopIsHistoryTop DEF StoreInv
<1>2. CommittedWal = 1..k
  BY WalIsHistory
<1>3. Published(manifest, k)
  BY DEF StoreInv
<1>4. manifest.tid \in 0..k
  BY <1>3, PublishedShows
<1>5. CASE k = 0
  <2>1. PendingWal = {} /\ manifest.tid = 0
    BY <1>0, <1>2, <1>4, <1>5 DEF PendingWal
  <2>2. current \in 0..MaxTid /\ current <= 0
    BY <1>5 DEF StoreInv, TypeInv, TypeOK
  <2>3. ~(current > 0) /\ ~(manifest.tid > 0)
    BY <1>0, <2>1, <2>2
  <2> QED
    BY <1>0, <1>1, <1>5, <2>1, <2>3 DEF Recoverable
<1>6. CASE k > 0 /\ manifest.tid < k
  <2>1. k \in PendingWal /\ PendingWal \subseteq 1..k
    BY <1>0, <1>2, <1>6 DEF PendingWal
  <2>2. Max(PendingWal) = k
    <3>1. PendingWal \in SUBSET Int /\ \A y \in PendingWal : y <= k
      BY <1>0, <2>1
    <3> QED
      BY <2>1, <3>1, MaxIs
  <2>3. Recoverable = prepares[k]
    BY <2>1, <2>2 DEF Recoverable
  <2>4. prepares[k] = history[k].graph
    BY <1>0, <1>6 DEF StoreInv
  <2> QED
    BY <1>0, <1>1, <1>6, <2>3, <2>4
<1>7. CASE k > 0 /\ ~(manifest.tid < k)
  <2>1. manifest.tid = k
    BY <1>0, <1>4, <1>7
  <2>2. Readable(manifest) /\ EnvelopeFromManifest(manifest) = history[k].graph /\ LatestTxn >= k
    BY <1>0, <1>3, <1>7, <2>1, PublishedShows
  <2>3. LatestTxn = k
    BY <1>0, <2>2, NewestIs
  <2>4. PendingWal = {}
    BY <1>0, <1>2, <2>1, <2>3 DEF PendingWal
  <2> QED
    BY <1>0, <1>1, <1>7, <2>1, <2>2, <2>3, <2>4 DEF Recoverable
<1> QED
  BY <1>0, <1>5, <1>6, <1>7

\* The invariant holds of a store that was never opened.
LEMMA SharedInit ==
    ASSUME SharedOnly
    PROVE  Init => SharedInv
<1> SUFFICES ASSUME Init PROVE SharedInv
  OBVIOUS
<1>0. MaxTid \in Nat /\ 0 \in 0..MaxTid /\ Tids = 1..MaxTid
  BY StoreAssumptions DEF Tids
<1>1. HistoryInv
  BY DEF Init, HistoryInv
<1>2. StoreInv(0)
  <2>1. \A t \in Tids : txns[t] = NoEnvelope /\ snapshots[t] = NoEnvelope /\ history[t] = NoCommit
    BY DEF Init
  <2>2. TopIs(0) /\ NewestRecord(0)
    BY <1>0, <2>1 DEF TopIs, NewestRecord
  <2>3. options.wal /\ markers = {} /\ current = 0 /\ manifest = NoManifest /\ index.tid = 0
    BY DEF Init, SharedOnly, NoIndex
  <2>4. 0 \in 0..0 /\ 1..0 = {}
    OBVIOUS
  <2> QED
    BY <1>0, <2>1, <2>2, <2>3, <2>4 DEF StoreInv, Published
<1>3. WindowInv(0)
  BY DEF WindowInv
<1>4. ASSUME NEW m \in Managers PROVE ManagerInv(m, 0)
  <2>1. pc[m] = "down" /\ job[m].kind = "none" /\ ~held[m]
    BY DEF Init, NoJob
  <2> QED
    BY <2>1 DEF ManagerInv, SectionInv, InSection, KindInv, ReadInv, BegunInv, AgainInv, PublishInv, Committing,
       Writes, Fences, Loading, AfterRecord
<1> QED
  BY <1>0, <1>1, <1>2, <1>3, <1>4, WholeInit DEF SharedInv

-----------------------------------------------------------------------------
(* What a step does to the other managers *)

\* The memory of a manager.
Untouched(n) ==
    /\ pc'[n] = pc[n] /\ job'[n] = job[n] /\ held'[n] = held[n]
    /\ heap'[n] = heap[n] /\ tid'[n] = tid[n]

\* A step belongs to one manager.
LEMMA StepTouchesOne ==
    ASSUME TypeInv, NEW m \in Managers, StepOf(m)
    PROVE  \A n \in Managers \ {m} : Untouched(n)
<1>0. /\ pc \in [Managers -> Steps] /\ job \in [Managers -> Jobs]
      /\ held \in [Managers -> BOOLEAN]
  BY DEF TypeInv, TypeOK
<1> DEFINE Stays == \A n \in Managers \ {m} : pc'[n] = pc[n] /\ job'[n] = job[n] /\ held'[n] = held[n]
<1> SUFFICES Stays
  BY OthersRemember DEF Untouched
<1>1. CASE Throw(m)
  BY <1>0, <1>1 DEF Throw, Forget, Goto
<1>2. CASE Start(m) \/ BeginUpdate(m)
  BY <1>0, <1>2 DEF Start, BeginUpdate, Goto, memVars
<1>3. CASE BeginStore(m) \/ BeginTransaction(m)
  <2>1. PICK kind : WithWriteLock(m, kind) \/ Goto(m, "readManifest")
    BY <1>3 DEF BeginStore, BeginTransaction
  <2>2. \A n \in Managers \ {m} : pc'[n] = pc[n]
    BY <1>0, <2>1 DEF WithWriteLock, Goto
  <2>3. \A n \in Managers \ {m} : job'[n] = job[n]
    BY <1>0, <1>3 DEF BeginStore, BeginTransaction
  <2> QED
    BY <1>3, <2>2, <2>3 DEF BeginStore, BeginTransaction, memVars
<1>4. CASE Edit(m) \/ Crash(m) \/ Shutdown(m)
  BY <1>0, <1>4 DEF Edit, Crash, Shutdown, Forget, Goto
<1>5. CASE Acquire(m) \/ Release(m) \/ AssertValid(m) \/ ListWal(m) \/ ReadManifest(m) \/ EndWork(m)
           \/ (CheckConflict(m) /\ ~Throw(m))
  BY <1>0, <1>5 DEF Acquire, Release, AssertValid, ListWal, ReadManifest, EndWork, CheckConflict, WithWriteLock,
     Goto, memVars
<1>6. CASE Recover(m)
  BY <1>0, <1>6 DEF Recover, Goto, memVars
<1>7. CASE (ReadWal(m) \/ ReadObjects(m)) /\ ~Throw(m)
  <2>1. ASSUME NEW env, NEW t, NEW versions, NEW source, Adopt(m, env, t, versions, source)
        PROVE  Stays
    BY <1>0, <2>1 DEF Adopt, Goto
  <2>2. CASE Goto(m, "readObjects") /\ UNCHANGED <<memVars, job>>
    BY <1>0, <2>2 DEF Goto, memVars
  <2> QED
    BY <1>7, <2>1, <2>2 DEF ReadWal, ReadObjects, Load
<1>8. CASE CommitEnvelope(m) \/ WriteWalPrepare(m) \/ WriteObjectRecords(m) \/ WriteSnapshot(m) \/ WriteWalCommit(m)
  BY <1>0, <1>8 DEF CommitEnvelope, WriteWalPrepare, WriteObjectRecords, WriteSnapshot, WriteWalCommit, Goto, memVars
<1>9. CASE WriteTransactionRecord(m) \/ WritePersistentIndex(m) \/ WriteCurrent(m) \/ WriteManifest(m) \/ CommitState(m)
  BY <1>0, <1>9 DEF WriteTransactionRecord, WritePersistentIndex, WriteCurrent, WriteManifest, CommitState, Goto,
     memVars
<1> QED
  BY <1>1, <1>2, <1>3, <1>4, <1>5, <1>6, <1>7, <1>8, <1>9
     DEF StepOf, Progress, AcquireTimeout, LockLost, AbortWork, RejectCommit, TargetFails

\* Nobody else is under the write lock with its holder.
LEMMA OneSectionAtATime ==
    ASSUME NEW m \in Managers, NEW n \in Managers \ {m}, SectionInv(m), SectionInv(n), held[m]
    PROVE  ~held[n] /\ ~InSection(n)
BY DEF SectionInv

\* The files that commits have need not change for the others to go on: those of the
\* last commits stay, and a manager without the lock has begun nothing.
LEMMA OthersKeep ==
    ASSUME TypeInv, NEW k \in 0..MaxTid, NEW l \in 0..MaxTid, l \in {k, k + 1}, TopIs(k),
           NEW n \in Managers, ManagerInv(n, k), Untouched(n), options' = options, options.wal,
           \A t \in 1..k : history'[t] = history[t] /\ (txns[t] # NoEnvelope => txns'[t] # NoEnvelope),
           \/ ~held[n]
           \/ /\ l = k
              /\ k + 1 \in Tids => /\ prepares'[k + 1] = prepares[k + 1] /\ snapshots'[k + 1] = snapshots[k + 1]
                                   /\ \A o \in Objects : records'[o][k + 1] = records[o][k + 1],
           held[n] => lock' = n
    PROVE  ManagerInv(n, l)'
<1>0. k \in Int /\ l \in Int /\ k <= l /\ MaxTid \in Nat /\ pc[n] \in Steps /\ job[n] \in Jobs
  BY StoreAssumptions DEF TypeInv, TypeOK
<1>1. pc'[n] = pc[n] /\ job'[n] = job[n] /\ held'[n] = held[n] /\ heap'[n] = heap[n] /\ tid'[n] = tid[n]
  BY DEF Untouched
<1>2. (InSection(n)' <=> InSection(n)) /\ (Unborn(n)' <=> Unborn(n))
  BY <1>1 DEF InSection, Unborn
<1>3. SectionInv(n)' /\ KindInv(n)'
  BY <1>1, <1>2 DEF ManagerInv, SectionInv, KindInv
<1>4. ASSUME NEW man, Published(man, k)
      PROVE  Published(man, l)'
  BY <1>0, <1>4 DEF Published
<1>5. ReadInv(n, l)'
  <2>1. CASE held[n]
    BY <1>1, <1>4, <2>1 DEF ManagerInv, ReadInv
  <2>2. CASE ~held[n]
    <3>1. pc[n] # "serialize" /\ ~(pc[n] \in {"readObjects", "work"} /\ job[n].kind = "pessimistic")
      BY <2>2 DEF ManagerInv, SectionInv, InSection, Loading
    <3> QED
      BY <1>1, <1>4, <3>1 DEF ManagerInv, ReadInv
  <2> QED
    BY <2>1, <2>2
<1>6. pc[n] \in Committing => /\ job[n].t \in Tids
                              /\ DOMAIN job[n].env \subseteq Objects
                              /\ (job[n].t <= k => job[n].t \in 1..k)
  BY <1>0, EnvelopeElim DEF TypeInv, JobShape, Tids, Jobs
<1>7. BegunInv(n, l)'
  <2>1. CASE held[n] /\ pc[n] \in Committing /\ job[n].kind \notin StartOps
    <3>1. k + 1 \in Tids \/ ~Unborn(n)
      BY <1>6, <2>1 DEF ManagerInv, BegunInv
    <3>2. ~Unborn(n) => job[n].env = history'[k].graph
      <4>1. ~Unborn(n) => k \in 1..k
        BY <1>6, <2>1 DEF ManagerInv, BegunInv
      <4> QED
        BY <2>1, <4>1 DEF ManagerInv, BegunInv
    <3> QED
      BY <1>1, <1>2, <1>6, <2>1, <3>1, <3>2 DEF ManagerInv, BegunInv
  <2>2. CASE ~(held[n] /\ pc[n] \in Committing /\ job[n].kind \notin StartOps)
    <3>1. ~(pc[n] \in Committing /\ job[n].kind \notin StartOps)
      BY <2>2 DEF ManagerInv, SectionInv, InSection, StartOps
    <3> QED
      BY <1>1, <3>1 DEF BegunInv
  <2> QED
    BY <2>1, <2>2
<1>8. AgainInv(n, l)'
  <2>1. CASE pc[n] \in Committing /\ job[n].kind \in StartOps
    BY <1>0, <1>1, <1>6, <2>1 DEF ManagerInv, AgainInv
  <2>2. CASE ~(pc[n] \in Committing /\ job[n].kind \in StartOps)
    BY <1>1, <2>2 DEF AgainInv
  <2> QED
    BY <2>1, <2>2
<1>9. PublishInv(n)'
  <2>1. pc[n] \in AfterRecord => pc[n] \in Committing /\ ~Unborn(n)
    BY DEF AfterRecord, Committing, Writes, Fences, Unborn
  <2>2. pc[n] \in AfterRecord => job[n].t \in 1..k
    <3>1. pc[n] \in AfterRecord => job[n].t <= k
      BY <1>0, <2>1 DEF ManagerInv, BegunInv, AgainInv
    <3> QED
      BY <1>6, <2>1, <3>1
  <2> QED
    BY <1>1, <2>2 DEF ManagerInv, PublishInv
<1> QED
  BY <1>3, <1>5, <1>7, <1>8, <1>9 DEF ManagerInv

\* The lock of a manager that holds a handle stays its own.
LEMMA LockKept ==
    ASSUME SharedOnly, NEW m \in Managers, NEW n \in Managers \ {m}, SectionInv(n), held[n], StepOf(m)
    PROVE  lock' = n
<1>1. lock = n /\ n # NoOwner /\ n # m
  BY StoreAssumptions DEF SectionInv
<1>2. CASE Throw(m)
  BY <1>1, <1>2 DEF Throw
<1>3. CASE Acquire(m)
  BY <1>1, <1>3 DEF Acquire, Stale, SharedOnly
<1>4. CASE Release(m) \/ Shutdown(m)
  BY <1>1, <1>4 DEF Release, Shutdown
<1>5. CASE ~Throw(m) /\ ~Acquire(m) /\ ~Release(m) /\ Progress(m)
  BY <1>1, <1>5 DEF Progress, AssertValid, AcquireTimeout, LockLost, ListWal, Recover,
     ReadManifest, ReadWal, ReadObjects, Load, Adopt, EndWork, CheckConflict, CommitEnvelope,
     WriteWalPrepare, WriteObjectRecords, WriteSnapshot, WriteWalCommit, WriteTransactionRecord,
     WritePersistentIndex, WriteCurrent, WriteManifest, CommitState
<1>6. CASE ~Throw(m) /\ ~Shutdown(m) /\ ~Progress(m)
  BY <1>1, <1>6 DEF StepOf, Start, Edit, BeginStore, BeginUpdate, BeginTransaction, AbortWork, RejectCommit,
     TargetFails, Crash
<1> QED
  BY <1>2, <1>3, <1>4, <1>5, <1>6

\* How a manager comes to work optimistically, or to go on with it.
LEMMA OptimisticStep ==
    ASSUME TypeInv, NEW m \in Managers, StepOf(m), job'[m].kind = "optimistic",
           pc'[m] \in {"readObjects", "work", "acquire", "check"}
    PROVE  \/ (ReadWal(m) \/ ReadObjects(m)) /\ job[m].kind = "optimistic"
           \/ job[m].kind = "optimistic" /\ tid'[m] = tid[m] /\ pc[m] \in {"work", "acquire", "check"}
<1>0. /\ pc \in [Managers -> Steps] /\ job \in [Managers -> Jobs] /\ job[m] \in Jobs
  BY DEF TypeInv, TypeOK
<1>1. ~Throw(m) /\ ~Crash(m) /\ ~Shutdown(m)
  BY <1>0 DEF Throw, Crash, Shutdown, Forget, NoJob
<1>2. CASE Edit(m) \/ Acquire(m) \/ EndWork(m) \/ CheckConflict(m)
  <2>1. pc[m] \in {"idle", "work", "acquire", "check"} /\ job' = job /\ tid' = tid
    BY <1>1, <1>2, StoreAssumptions DEF Edit, Acquire, EndWork, CheckConflict, memVars
  <2>2. pc[m] # "idle"
    <3>1. CASE Edit(m)
      BY <3>1 DEF Edit
    <3>2. CASE ~Edit(m)
      BY <1>2, <3>2 DEF Acquire, EndWork, CheckConflict
    <3> QED
      BY <3>1, <3>2
  <2> QED
    BY <2>1, <2>2
<1>3. CASE Release(m) \/ ListWal(m) \/ ReadManifest(m) \/ AssertValid(m)
  BY <1>0, <1>3 DEF Release, ListWal, ReadManifest, AssertValid, AfterFence, Fences, Goto
<1>4. CASE Recover(m)
  BY <1>0, <1>4 DEF Recover, Goto
<1>5. CASE ReadWal(m) \/ ReadObjects(m)
  <2>1. job[m].kind = "optimistic"
    <3>1. CASE job' = job
      BY <3>1
    <3>2. ASSUME NEW env, NEW t, NEW versions, NEW source, Adopt(m, env, t, versions, source)
          PROVE  job[m].kind = "optimistic"
      <4>1. CASE job[m].kind = "start"
        BY <1>0, <3>2, <4>1 DEF Adopt, NoJob, Goto, Jobs
      <4>2. CASE job[m].kind # "start"
        BY <1>0, <3>2, <4>2 DEF Adopt, Jobs
      <4> QED
        BY <4>1, <4>2
    <3> QED
      BY <1>1, <1>5, <3>1, <3>2 DEF ReadWal, ReadObjects, Load
  <2> QED
    BY <1>5, <2>1
<1>6. CASE CommitEnvelope(m) \/ WriteWalPrepare(m) \/ WriteSnapshot(m) \/ WriteWalCommit(m)
           \/ WriteTransactionRecord(m) \/ WriteCurrent(m) \/ WriteManifest(m)
  BY <1>0, <1>6 DEF CommitEnvelope, WriteWalPrepare, WriteSnapshot, WriteWalCommit, WriteTransactionRecord,
     WriteCurrent, WriteManifest, Goto
<1>7. CASE WriteObjectRecords(m)
  BY <1>0, <1>7 DEF WriteObjectRecords, AfterObjects, Goto
<1>8. CASE WritePersistentIndex(m) \/ CommitState(m)
  BY <1>0, <1>8 DEF WritePersistentIndex, CommitState, Finished, Goto, NoJob
<1>9. CASE Start(m) \/ BeginUpdate(m)
  BY <1>0, <1>9 DEF Start, BeginUpdate, Goto, Jobs
<1>10. CASE BeginStore(m)
  <2>1. PICK kind \in {"storeRoot", "storeAll"} :
          \E targets : job' = [job EXCEPT ![m].kind = kind, ![m].targets = targets]
    BY <1>10 DEF BeginStore
  <2>2. job'[m].kind = kind
    BY <1>0, <2>1 DEF Jobs
  <2> QED
    BY <1>0, <2>2
<1>11. CASE BeginTransaction(m)
  <2>1. PICK kind \in TransactionOps : /\ job' = [job EXCEPT ![m].kind = kind, ![m].undo = heap[m]]
                                       /\ kind # "pessimistic" => Goto(m, "readManifest")
    BY <1>11 DEF BeginTransaction
  <2>2. kind = "optimistic"
    BY <1>0, <2>1 DEF Jobs
  <2> QED
    BY <1>0, <2>1, <2>2 DEF Goto
<1> QED
  BY <1>1, <1>2, <1>3, <1>4, <1>5, <1>6, <1>7, <1>8, <1>9, <1>10, <1>11
     DEF StepOf, Progress, AcquireTimeout, LockLost, AbortWork, RejectCommit, TargetFails

\* A load reads the WAL up to the last commit, and takes it unless the manifest shows it.
LEMMA WalShows ==
    ASSUME TypeInv, HistoryInv, NEW k \in 0..MaxTid, StoreInv(k), NEW m \in Managers,
           Published(job[m].man, k), ReadWal(m)
    PROVE  \/ /\ k > job[m].man.tid
              /\ Adopt(m, history[k].graph, k, AllAt(history[k].graph, k), "wal")
           \/ /\ job[m].man.tid = k
              /\ Goto(m, "readObjects")
              /\ UNCHANGED <<diskVars, lock, memVars, job, history>>
<1>0. k \in Int /\ MaxTid \in Nat
  BY StoreAssumptions
<1>1. CommittedWal = 1..k
  BY WalIsHistory
<1>2. job[m].man.tid \in 0..k
  BY PublishedShows
<1>3. PICK last \in {0} \cup CommittedWal :
          /\ \A t \in CommittedWal : t <= last
          /\ IF last > job[m].man.tid
             THEN Load(m, prepares[last], last, AllAt(prepares[last], last), "wal")
             ELSE /\ Goto(m, "readObjects")
                  /\ UNCHANGED <<diskVars, lock, memVars, job, history>>
  BY DEF ReadWal
<1>4. last = k
  BY <1>0, <1>1, <1>3
<1>5. CASE k > job[m].man.tid
  <2>1. k \in 1..k
    BY <1>0, <1>2, <1>5
  <2>2. prepares[k] = history[k].graph /\ Closed(history[k].graph)
    BY <2>1, CommitGraph DEF StoreInv
  <2> QED
    BY <1>3, <1>4, <1>5, <2>2 DEF Load
<1>6. CASE ~(k > job[m].man.tid)
  BY <1>0, <1>2, <1>3, <1>4, <1>6
<1> QED
  BY <1>5, <1>6

\* Whoever stops in the window hides the commit from nobody who works optimistically,
\* and who loads afterwards takes it from the WAL.
LEMMA WindowStays ==
    ASSUME SharedOnly, TypeInv, HistoryInv, NEW k \in 0..MaxTid, StoreInv(k), WindowInv(k),
           \A n \in Managers : ManagerInv(n, k), NEW m \in Managers, StepOf(m),
           \A t \in Tids : txns[t] # NoEnvelope => txns'[t] # NoEnvelope,
           ~WriteWalCommit(m),
           WriteTransactionRecord(m) /\ job[m].kind \notin StartOps => txns'[k] # NoEnvelope
    PROVE  WindowInv(k)'
<1>0. /\ pc \in [Managers -> Steps] /\ job \in [Managers -> Jobs] /\ job[m] \in Jobs
      /\ held \in [Managers -> BOOLEAN] /\ tid \in [Managers -> 0..MaxTid]
      /\ k \in Int /\ MaxTid \in Nat
  BY StoreAssumptions DEF TypeInv, TypeOK
<1>1. \A n \in Managers \ {m} : Untouched(n)
  BY StepTouchesOne
<1>2. CASE k = 0 \/ txns[k] # NoEnvelope
  BY <1>0, <1>2 DEF WindowInv, Tids
<1>3. CASE Publishing
  <2>1. PICK n \in Managers : held[n] /\ job[n].kind \notin StartOps /\ pc[n] \in PublishWindow
    BY <1>3 DEF Publishing
  <2>2. CASE n # m
    BY <1>1, <2>1, <2>2 DEF WindowInv, Publishing, Untouched
  <2>3. CASE n = m
    <3>1. lock = m
      BY <2>1, <2>3 DEF ManagerInv, SectionInv
    <3>2. (AssertValid(m) /\ pc[m] = "fencePublish") \/ WriteTransactionRecord(m) \/ TargetFails(m) \/ Crash(m)
      <4>1. pc[m] \in {"fencePublish", "record"}
        BY <2>1, <2>3 DEF PublishWindow
      <4>2. CASE Progress(m)
        BY <3>1, <4>1, <4>2
           DEF Progress, Acquire, AcquireTimeout, Release, AssertValid, LockLost, ListWal, Recover, ReadManifest,
               ReadWal, ReadObjects, EndWork, CheckConflict, CommitEnvelope, WriteWalPrepare, WriteObjectRecords,
               WriteSnapshot, WriteWalCommit, WriteTransactionRecord, WritePersistentIndex, WriteCurrent,
               WriteManifest, CommitState, Fences
      <4>3. CASE ~Progress(m)
        BY <4>1, <4>3, StoreAssumptions DEF StepOf, Start, Edit, BeginStore, BeginUpdate, BeginTransaction,
           AbortWork, RejectCommit, Shutdown
      <4> QED
        BY <4>2, <4>3
    <3>3. CASE AssertValid(m) /\ pc[m] = "fencePublish"
      <4>1. held'[m] /\ job'[m].kind \notin StartOps /\ pc'[m] = "record"
        BY <1>0, <2>1, <2>3, <3>3 DEF AssertValid, AfterFence, Goto, memVars
      <4> QED
        BY <4>1 DEF WindowInv, Publishing, PublishWindow
    <3>4. CASE WriteTransactionRecord(m)
      BY <2>1, <2>3, <3>4 DEF WindowInv
    <3>5. CASE TargetFails(m) \/ Crash(m)
      <4>1. pc[m] \in CrashAt \cup FailsAt /\ (pc[m] \in QuietAt => \A o \in Managers : job[o].kind # "optimistic")
        BY <3>5 DEF TargetFails, Crash, StopsAt
      <4>2. Ops \subseteq TransactionOps /\ \A o \in Managers : job[o].kind # "optimistic"
        BY <2>1, <2>3, <4>1 DEF SharedOnly
      <4>3. job'[m].kind = "none"
        BY <1>0, <3>5 DEF TargetFails, Throw, Crash, Forget, NoJob
      <4>4. \A o \in Managers : job'[o].kind # "optimistic"
        BY <1>1, <4>2, <4>3 DEF Untouched
      <4> QED
        BY <4>2, <4>4 DEF WindowInv, Hidden
    <3> QED
      BY <3>2, <3>3, <3>4, <3>5
  <2> QED
    BY <2>2, <2>3
<1>4. CASE k > 0 /\ txns[k] = NoEnvelope /\ Hidden(k)
  <2>1. ASSUME NEW n \in Managers, job'[n].kind = "optimistic"
        PROVE  pc'[n] # "readObjects" /\ (pc'[n] \in {"work", "acquire", "check"} => tid'[n] = k)
    <3>1. CASE n # m
      BY <1>1, <1>4, <2>1, <3>1 DEF Untouched, Hidden
    <3>2. CASE n = m
      <4> SUFFICES ASSUME pc'[m] \in {"readObjects", "work", "acquire", "check"}
                   PROVE  pc'[m] # "readObjects" /\ tid'[m] = k
        BY <3>2
      <4>1. \/ (ReadWal(m) \/ ReadObjects(m)) /\ job[m].kind = "optimistic"
            \/ job[m].kind = "optimistic" /\ tid'[m] = tid[m] /\ pc[m] \in {"work", "acquire", "check"}
        BY <2>1, <3>2, OptimisticStep
      <4>2. CASE ReadWal(m) /\ job[m].kind = "optimistic"
        <5>1. pc[m] = "readWal" /\ Published(job[m].man, k)
          BY <4>2 DEF ReadWal, ManagerInv, ReadInv
        <5>2. job[m].man.tid # k
          BY <1>4, <5>1 DEF Published, NoManifest
        <5>3. Adopt(m, history[k].graph, k, AllAt(history[k].graph, k), "wal")
          BY <4>2, <5>1, <5>2, WalShows
        <5>4. tid'[m] = k /\ pc'[m] = "work"
          BY <1>0, <4>2, <5>3 DEF Adopt, Goto
        <5> QED
          BY <5>4
      <4>3. CASE ReadObjects(m) /\ job[m].kind = "optimistic"
        BY <1>4, <4>3 DEF Hidden, ReadObjects
      <4>4. CASE job[m].kind = "optimistic" /\ tid'[m] = tid[m] /\ pc[m] \in {"work", "acquire", "check"}
        <5>1. tid'[m] = k
          BY <1>4, <4>4 DEF Hidden
        <5>2. ~ReadWal(m)
          BY <4>4 DEF ReadWal
        <5>3. pc'[m] # "readObjects"
          <6>1. CASE Throw(m) \/ Crash(m) \/ Shutdown(m)
            BY <1>0, <2>1, <3>2, <6>1 DEF Throw, Crash, Shutdown, Forget, NoJob
          <6>2. CASE ~Throw(m) /\ Progress(m)
            BY <1>0, <4>4, <6>2
             DEF Progress, Acquire, AcquireTimeout, Release, AssertValid, LockLost, ListWal, Recover, ReadManifest,
               ReadWal, ReadObjects, EndWork, CheckConflict, CommitEnvelope, WriteWalPrepare, WriteObjectRecords,
               WriteSnapshot, WriteWalCommit, WriteTransactionRecord, WritePersistentIndex, WriteCurrent,
               WriteManifest, CommitState, Fences, WithWriteLock, Locked, Goto
          <6>3. CASE ~Throw(m) /\ ~Crash(m) /\ ~Shutdown(m) /\ ~Progress(m)
            BY <1>0, <4>4, <6>3 DEF StepOf, Start, Edit, BeginStore, BeginUpdate, BeginTransaction, AbortWork,
               RejectCommit, TargetFails
          <6> QED
            BY <6>1, <6>2, <6>3
        <5> QED
          BY <5>1, <5>3
      <4> QED
        BY <4>1, <4>2, <4>3, <4>4
    <3> QED
      BY <3>1, <3>2
  <2> QED
    BY <1>4, <2>1 DEF WindowInv, Hidden
<1> QED
  BY <1>0, <1>2, <1>3, <1>4 DEF WindowInv

\* What is to be shown of a step that does not make a commit durable.
LEMMA SharedStep ==
    ASSUME SharedOnly, WholeInv, WholeInv', HistoryInv, NEW k \in 0..MaxTid, StoreInv(k), WindowInv(k),
           \A n \in Managers : ManagerInv(n, k), NEW m \in Managers, StepOf(m), ~WriteWalCommit(m),
           history' = history, options' = options, StoreInv(k)', ManagerInv(m, k)',
           \A t \in Tids : txns[t] # NoEnvelope => txns'[t] # NoEnvelope,
           WriteTransactionRecord(m) /\ job[m].kind \notin StartOps => txns'[k] # NoEnvelope,
           \/ held[m]
           \/ k + 1 \in Tids => /\ prepares'[k + 1] = prepares[k + 1] /\ snapshots'[k + 1] = snapshots[k + 1]
                                /\ \A o \in Objects : records'[o][k + 1] = records[o][k + 1]
    PROVE  SharedInv'
<1>0. TypeInv /\ TypeInv' /\ options.wal /\ TopIs(k)
  BY DEF WholeInv, StoreInv
<1>1. HistoryInv'
  BY DEF HistoryInv
<1>2. WindowInv(k)'
  BY <1>0, WindowStays
<1>3. ASSUME NEW n \in Managers, n # m PROVE ManagerInv(n, k)'
  <2>1. Untouched(n)
    BY <1>0, <1>3, StepTouchesOne
  <2>2. held[n] => lock' = n
    BY <1>3, LockKept DEF ManagerInv
  <2>3. \A t \in 1..k : history'[t] = history[t] /\ (txns[t] # NoEnvelope => txns'[t] # NoEnvelope)
    BY StoreAssumptions DEF Tids
  <2>4. held[n] => ~held[m]
    BY <1>3, OneSectionAtATime DEF ManagerInv
  <2> HIDE DEF ManagerInv, StoreInv, WindowInv
  <2> QED
    BY <1>0, <2>1, <2>2, <2>3, <2>4, OthersKeep
<1> QED
  BY <1>1, <1>2, <1>3 DEF SharedInv

\* And of one that does not write files.
LEMMA QuietShared ==
    ASSUME SharedOnly, WholeInv, WholeInv', HistoryInv, NEW k \in 0..MaxTid, StoreInv(k), WindowInv(k),
           \A n \in Managers : ManagerInv(n, k), NEW m \in Managers, StepOf(m),
           UNCHANGED <<diskVars, history>>, ~WriteWalCommit(m), ~WriteTransactionRecord(m),
           ManagerInv(m, k)'
    PROVE  SharedInv'
<1>1. StoreInv(k)'
  BY DEF diskVars, StoreInv, TopIs, Published, NewestRecord
<1> QED
  BY <1>1, SharedStep DEF diskVars

-----------------------------------------------------------------------------
(* Steps outside the commit path *)

\* What is to be shown of a manager that is not in a commit.
LEMMA OutsideCommit ==
    ASSUME NEW m \in Managers, NEW k \in 0..MaxTid, pc'[m] \notin Committing,
           SectionInv(m)', KindInv(m)', ReadInv(m, k)'
    PROVE  ManagerInv(m, k)'
BY DEF ManagerInv, BegunInv, AgainInv, PublishInv, AfterRecord, Committing, Writes, Fences

\* A manager that forgets everything is as at the beginning.
LEMMA ForgetShared ==
    ASSUME TypeInv, NEW k \in 0..MaxTid, NEW m \in Managers, Forget(m)
    PROVE  ManagerInv(m, k)'
<1>1. pc'[m] = "down" /\ job'[m].kind = "none" /\ ~held'[m]
  BY DEF Forget, Goto, NoJob, TypeInv, TypeOK
<1>2. pc'[m] \notin Committing /\ SectionInv(m)' /\ KindInv(m)' /\ ReadInv(m, k)'
  BY <1>1 DEF SectionInv, InSection, KindInv, ReadInv, Committing, Writes, Fences, Loading
<1> QED
  BY <1>2, OutsideCommit

\* A manager that throws gives its handle back, if it has one, or is down.
LEMMA ThrowShared ==
    ASSUME SharedOnly, TypeInv, NEW k \in 0..MaxTid, NEW m \in Managers, ManagerInv(m, k), Throw(m)
    PROVE  ManagerInv(m, k)'
<1>1. CASE job[m].kind \in StartOps
  BY <1>1, ForgetShared DEF Throw
<1>2. CASE job[m].kind \notin StartOps
  <2>1. /\ pc'[m] = IF held[m] THEN "release" ELSE "idle"
        /\ job'[m].kind = "none" /\ held' = held /\ lock' = lock
    BY <1>2 DEF Throw, Goto, Finished, NoJob, SharedOnly, TypeInv, TypeOK
  <2>2. held[m] \in BOOLEAN
    BY DEF TypeInv, TypeOK
  <2>3. SectionInv(m)'
    BY <2>1, <2>2 DEF ManagerInv, SectionInv, InSection, Committing, Writes, Fences, Loading
  <2>4. pc'[m] \notin Committing /\ KindInv(m)' /\ ReadInv(m, k)'
    BY <2>1 DEF KindInv, ReadInv, Committing, Writes, Fences, Loading
  <2> QED
    BY <2>3, <2>4, OutsideCommit
<1> QED
  BY <1>1, <1>2

\* An operation begins.
LEMMA BeginShared ==
    ASSUME SharedOnly, TypeInv, NEW k \in 0..MaxTid, StoreInv(k), NEW m \in Managers, ManagerInv(m, k),
           Start(m) \/ BeginStore(m) \/ BeginUpdate(m) \/ BeginTransaction(m)
    PROVE  ManagerInv(m, k)'
<1>0. /\ pc \in [Managers -> Steps] /\ job \in [Managers -> Jobs] /\ job[m] \in Jobs
      /\ pc[m] \in {"down", "idle"} /\ held' = held /\ lock' = lock
  BY DEF Start, BeginStore, BeginUpdate, BeginTransaction, memVars, TypeInv, TypeOK
<1>1. ~held[m] /\ ~held'[m]
  BY <1>0 DEF ManagerInv, SectionInv, InSection, Committing, Writes, Fences, Loading
<1>2. \/ pc'[m] = "acquire" /\ job'[m].kind \in {"start"} \cup Ops
      \/ pc'[m] = "work" /\ job'[m].kind = "update" /\ "update" \in Ops
      \/ pc'[m] = "readManifest" /\ job'[m].kind = "optimistic" /\ "optimistic" \in Ops
  <2>1. CASE Start(m)
    BY <1>0, <2>1 DEF Start, Goto, StoreInv, Jobs
  <2>2. CASE BeginStore(m)
    <3>1. PICK kind \in Ops \cap {"storeRoot", "storeAll"} : \E targets :
            /\ job' = [job EXCEPT ![m].kind = kind, ![m].targets = targets]
            /\ WithWriteLock(m, kind)
      BY <2>2 DEF BeginStore
    <3> QED
      BY <1>0, <1>1, <3>1 DEF WithWriteLock, Goto, Jobs
  <2>3. CASE BeginUpdate(m)
    BY <1>0, <2>3 DEF BeginUpdate, Goto, Jobs
  <2>4. CASE BeginTransaction(m)
    <3>1. PICK kind \in Ops \cap TransactionOps :
            /\ job' = [job EXCEPT ![m].kind = kind, ![m].undo = heap[m]]
            /\ IF kind = "pessimistic" THEN WithWriteLock(m, kind) ELSE Goto(m, "readManifest")
      BY <2>4 DEF BeginTransaction
    <3>2. job'[m].kind = kind
      BY <1>0, <3>1 DEF Jobs
    <3>3. pc'[m] = IF kind = "pessimistic" THEN "acquire" ELSE "readManifest"
      BY <1>0, <1>1, <3>1 DEF WithWriteLock, Goto
    <3> QED
      BY <3>2, <3>3 DEF TransactionOps
  <2> QED
    BY <2>1, <2>2, <2>3, <2>4
<1>3. pc'[m] \notin Committing /\ SectionInv(m)'
  BY <1>1, <1>2 DEF SectionInv, InSection, Committing, Writes, Fences, Loading
<1>4. KindInv(m)'
  BY <1>2 DEF KindInv, Committing, Writes, Fences, Loading, TransactionOps, StartOps
<1>5. ReadInv(m, k)'
  BY <1>2 DEF ReadInv
<1> QED
  BY <1>3, <1>4, <1>5, OutsideCommit

\* The write lock is taken and given back.
LEMMA LockShared ==
    ASSUME SharedOnly, TypeInv, NEW k \in 0..MaxTid, StoreInv(k), NEW m \in Managers, ManagerInv(m, k),
           Acquire(m) \/ Release(m)
    PROVE  ManagerInv(m, k)'
<1>0. /\ pc \in [Managers -> Steps] /\ held \in [Managers -> BOOLEAN]
      /\ job' = job /\ tid' = tid /\ KindInv(m)
  BY DEF Acquire, Release, TypeInv, TypeOK, ManagerInv
<1>1. CASE Acquire(m)
  <2>1. /\ held'[m] /\ lock' = m /\ pc[m] = "acquire"
        /\ pc'[m] = IF job[m].kind = "start" THEN "listWal"
                    ELSE IF job[m].kind = "pessimistic" THEN "readManifest" ELSE "check"
    BY <1>0, <1>1 DEF Acquire, Goto, Locked, SharedOnly
  <2>2. job[m].kind \in {"start"} \cup Ops
    BY <1>0, <2>1 DEF KindInv
  <2>3. pc'[m] \notin Committing /\ SectionInv(m)'
    BY <1>0, <2>1, <2>2 DEF SectionInv, InSection, Committing, Writes, Fences, Loading
  <2>4. KindInv(m)' /\ ReadInv(m, k)'
    BY <1>0, <2>1, <2>2 DEF KindInv, ReadInv, Committing, Writes, Fences, Loading, TransactionOps, StartOps
  <2> QED
    BY <2>3, <2>4, OutsideCommit
<1>2. CASE Release(m)
  <2>1. /\ ~held'[m] /\ pc[m] = "release"
        /\ pc'[m] = IF job[m].kind = "start" THEN "readManifest" ELSE "idle"
    BY <1>0, <1>2 DEF Release, Goto
  <2>2. job[m].kind \in {"none", "start"}
    BY <1>0, <2>1 DEF KindInv
  <2>3. pc'[m] \notin Committing /\ SectionInv(m)'
    BY <1>0, <2>1, <2>2 DEF SectionInv, InSection, Committing, Writes, Fences, Loading
  <2>4. KindInv(m)' /\ ReadInv(m, k)'
    BY <1>0, <2>1, <2>2 DEF KindInv, ReadInv, Committing, Writes, Fences, Loading, TransactionOps, StartOps
  <2> QED
    BY <2>3, <2>4, OutsideCommit
<1> QED
  BY <1>1, <1>2

\* The application edits its graph, and ends its work.
LEMMA WorkShared ==
    ASSUME SharedOnly, TypeInv, NEW k \in 0..MaxTid, StoreInv(k), NEW m \in Managers, ManagerInv(m, k),
           Edit(m) \/ EndWork(m)
    PROVE  ManagerInv(m, k)'
<1>0. /\ pc \in [Managers -> Steps] /\ job' = job /\ tid' = tid /\ held' = held /\ lock' = lock /\ history' = history
      /\ txns' = txns
      /\ KindInv(m) /\ SectionInv(m) /\ ReadInv(m, k) /\ pc[m] \in {"idle", "work"}
  BY StoreAssumptions DEF Edit, EndWork, TypeInv, TypeOK, ManagerInv, memVars, diskVars
<1>1. CASE Edit(m)
  <2>1. pc'[m] = pc[m]
    BY <1>1 DEF Edit
  <2>2. pc'[m] \notin Committing /\ SectionInv(m)' /\ KindInv(m)' /\ ReadInv(m, k)'
    BY <1>0, <2>1 DEF SectionInv, InSection, KindInv, ReadInv, Published, Committing, Writes, Fences, Loading
  <2> QED
    BY <2>2, OutsideCommit
<1>2. CASE EndWork(m)
  <2>1. /\ pc[m] = "work" /\ job[m].kind \in Ops
        /\ held[m] <=> job[m].kind = "pessimistic"
    BY <1>0, <1>2 DEF EndWork, KindInv, SectionInv, InSection, Committing, Writes, Fences
  <2>2. pc'[m] = IF job[m].kind = "pessimistic" THEN "serialize" ELSE "acquire"
    BY <1>0, <1>2, <2>1 DEF EndWork, WithWriteLock, Goto
  <2>3. pc'[m] \notin Committing /\ SectionInv(m)' /\ KindInv(m)' /\ ReadInv(m, k)'
    BY <1>0, <2>1, <2>2
       DEF SectionInv, InSection, KindInv, ReadInv, Committing, Writes, Fences, Loading, StartOps
  <2> QED
    BY <2>3, OutsideCommit
<1> QED
  BY <1>1, <1>2

\* Recovery lists the WAL, takes the entries that need it and ends.
LEMMA RecoverShared ==
    ASSUME SharedOnly, TypeInv, HistoryInv, NEW k \in 0..MaxTid, StoreInv(k),
           NEW m \in Managers, ManagerInv(m, k), ListWal(m) \/ Recover(m)
    PROVE  ManagerInv(m, k)'
<1>a. /\ pc \in [Managers -> Steps] /\ job \in [Managers -> Jobs] /\ job[m] \in Jobs /\ k \in Int
  BY StoreAssumptions DEF TypeInv, TypeOK
<1>b. /\ held' = held /\ lock' = lock /\ history' = history /\ options' = options
      /\ pc[m] \in {"listWal", "recover"}
  <2>1. CASE ListWal(m)
    BY <2>1 DEF ListWal, memVars, diskVars
  <2>2. CASE Recover(m)
    BY <2>2 DEF Recover, memVars, diskVars
  <2> QED
    BY <2>1, <2>2
<1>0. /\ pc \in [Managers -> Steps] /\ job \in [Managers -> Jobs] /\ job[m] \in Jobs
      /\ held' = held /\ lock' = lock /\ history' = history /\ k \in Int
      /\ pc[m] \in {"listWal", "recover"} /\ options' = options
  BY <1>a, <1>b
<1>1. job[m].kind = "start" /\ held[m] /\ lock = m
  BY <1>0 DEF ManagerInv, KindInv, SectionInv, InSection
<1>2. CASE /\ pc'[m] \in {"recover", "release"} /\ job'[m].kind = "start"
  <2>1. pc'[m] \notin Committing /\ SectionInv(m)' /\ KindInv(m)' /\ ReadInv(m, k)'
    BY <1>0, <1>1, <1>2 DEF SectionInv, InSection, KindInv, ReadInv, Committing, Writes, Fences, Loading, StartOps
  <2> QED
    BY <2>1, OutsideCommit
<1>3. CASE ListWal(m)
  <2>1. pc'[m] = "recover" /\ job'[m].kind = "start"
    BY <1>0, <1>1, <1>3 DEF ListWal, Goto, Jobs
  <2> QED
    BY <1>2, <2>1
<1>4. CASE Recover(m) /\ job' = [job EXCEPT ![m] = [NoJob EXCEPT !.kind = "start"]]
           /\ Goto(m, IF Strategy = "startup" THEN "readManifest" ELSE "release")
  <2>1. pc'[m] = "release" /\ job'[m].kind = "start"
    BY <1>0, <1>4 DEF Goto, NoJob, SharedOnly
  <2> QED
    BY <1>2, <2>1
<1>5. ASSUME NEW t \in PendingWal,
             job' = [job EXCEPT ![m].kind = "recover", ![m].wal = {u \in @ : t < u},
                                ![m].t = t, ![m].env = prepares[t],
                                ![m].vers = AllAt(prepares[t], t),
                                ![m].todo = DOMAIN prepares[t]],
             Goto(m, "objects")
      PROVE  ManagerInv(m, k)'
  <2>1. t \in 1..k
    BY <1>5, WalIsHistory DEF PendingWal
  <2>2. prepares[t] = history[t].graph
    BY <2>1 DEF StoreInv
  <2>3. /\ job'[m].kind = "recover" /\ job'[m].t = t /\ job'[m].env = history[t].graph
        /\ pc'[m] = "objects"
    BY <1>0, <1>5, <2>2 DEF Goto, Jobs
  <2>4. SectionInv(m)' /\ KindInv(m)' /\ ReadInv(m, k)' /\ PublishInv(m)'
    BY <1>0, <1>1, <2>3 DEF SectionInv, InSection, KindInv, ReadInv, PublishInv, Committing, Writes, Fences, Loading,
       StartOps, AfterRecord
  <2>5. BegunInv(m, k)'
    BY <2>3 DEF BegunInv, StartOps
  <2>6. AgainInv(m, k)'
    BY <1>0, <2>1, <2>3 DEF AgainInv
  <2> QED
    BY <2>4, <2>5, <2>6 DEF ManagerInv
<1>6. CASE Recover(m)
  BY <1>4, <1>5, <1>6 DEF Recover
<1> QED
  BY <1>0, <1>3, <1>6

\* A load has the manifest that is there, or none when it could not read it.
LEMMA ReadManifestShared ==
    ASSUME SharedOnly, TypeInv, NEW k \in 0..MaxTid, StoreInv(k),
           NEW m \in Managers, ManagerInv(m, k), ReadManifest(m)
    PROVE  ManagerInv(m, k)'
<1>0. /\ pc \in [Managers -> Steps] /\ job \in [Managers -> Jobs] /\ job[m] \in Jobs
      /\ held' = held /\ lock' = lock /\ history' = history /\ txns' = txns
      /\ pc[m] = "readManifest" /\ pc'[m] = "readWal"
  BY DEF ReadManifest, TypeInv, TypeOK, memVars, diskVars, Goto
<1>1. PICK man \in {manifest, NoManifest} : job' = [job EXCEPT ![m].man = man]
  BY DEF ReadManifest
<1>2. job'[m].man = man /\ job'[m].kind = job[m].kind
  BY <1>0, <1>1 DEF Jobs
<1>3. Published(man, k)
  BY <1>1 DEF StoreInv, Published
<1>4. Published(man, k)'
  BY <1>0, <1>3 DEF Published
<1>5. SectionInv(m)'
  BY <1>0, <1>2 DEF ManagerInv, SectionInv, InSection, Committing, Writes, Fences, Loading
<1>6. pc'[m] \notin Committing /\ KindInv(m)' /\ ReadInv(m, k)'
  BY <1>0, <1>2, <1>4 DEF ManagerInv, KindInv, ReadInv, Committing, Writes, Fences, Loading
<1> QED
  BY <1>5, <1>6, OutsideCommit

\* A loaded graph is that of a commit; from a snapshot it is published again.
LEMMA AdoptShared ==
    ASSUME SharedOnly, TypeInv, HistoryInv, NEW k \in 0..MaxTid, StoreInv(k),
           NEW m \in Managers, ManagerInv(m, k), pc[m] \in {"readWal", "readObjects"},
           NEW env, NEW t \in 0..k, NEW versions, NEW source, Adopt(m, env, t, versions, source),
           job[m].kind = "pessimistic" => t = k,
           source = "snapshot" => t > 0 /\ env = history[t].graph /\ txns[t] # NoEnvelope
    PROVE  ManagerInv(m, k)'
<1>0. /\ pc \in [Managers -> Steps] /\ job \in [Managers -> Jobs] /\ job[m] \in Jobs
      /\ heap \in [Managers -> Heaps] /\ tid \in [Managers -> 0..MaxTid]
      /\ held' = held /\ lock' = lock /\ history' = history /\ txns' = txns /\ options' = options
      /\ heap'[m] = Deserialize(env) /\ tid'[m] = t
  BY DEF Adopt, TypeInv, TypeOK, diskVars
<1>1. job[m].kind \in {"start"} \cup TransactionOps /\ SectionInv(m) /\ KindInv(m)
  BY DEF ManagerInv, KindInv, Loading
<1>2. held[m] <=> job[m].kind = "pessimistic"
  BY <1>1 DEF SectionInv, InSection, Committing, Writes, Fences, Loading
<1>3. CASE job[m].kind = "start" /\ source = "snapshot"
  <2>1. job'[m].kind = "repair" /\ job'[m].t = t /\ job'[m].env = env /\ pc'[m] = "objects"
    BY <1>0, <1>3 DEF Adopt, Goto, Jobs
  <2>2. SectionInv(m)' /\ KindInv(m)' /\ ReadInv(m, k)' /\ PublishInv(m)' /\ BegunInv(m, k)'
    BY <1>0, <1>2, <1>3, <2>1
       DEF SectionInv, InSection, KindInv, ReadInv, PublishInv, BegunInv, Committing, Writes, Fences, Loading,
           StartOps, AfterRecord
  <2>3. t \in Int /\ k \in Int /\ t <= k
    BY StoreAssumptions
  <2>4. AgainInv(m, k)'
    BY <1>0, <1>3, <2>1, <2>3 DEF AgainInv
  <2> QED
    BY <2>2, <2>4 DEF ManagerInv
<1>4. CASE job[m].kind = "start" /\ source # "snapshot"
  <2>1. job'[m].kind = "none" /\ pc'[m] = "idle"
    BY <1>0, <1>4 DEF Adopt, Goto, NoJob
  <2>2. pc'[m] \notin Committing /\ SectionInv(m)' /\ KindInv(m)' /\ ReadInv(m, k)'
    BY <1>0, <1>2, <1>4, <2>1
       DEF SectionInv, InSection, KindInv, ReadInv, Committing, Writes, Fences, Loading
  <2> QED
    BY <2>2, OutsideCommit
<1>5. CASE job[m].kind # "start"
  <2>1. job'[m].kind = job[m].kind /\ pc'[m] = "work"
    BY <1>0, <1>5 DEF Adopt, Goto, Jobs
  <2>2. job[m].kind \in Ops
    BY <1>1, <1>5 DEF KindInv, TransactionOps, StartOps
  <2>3. pc'[m] \notin Committing /\ SectionInv(m)'
    BY <1>0, <1>1, <1>2, <2>1 DEF SectionInv, InSection, Committing, Writes, Fences, Loading
  <2>4. KindInv(m)' /\ ReadInv(m, k)'
    BY <1>0, <1>1, <2>1, <2>2 DEF KindInv, ReadInv, Committing, Writes, Fences, Loading
  <2> QED
    BY <2>3, <2>4, OutsideCommit
<1> QED
  BY <1>3, <1>4, <1>5

\* The WAL is read up to the last commit.
LEMMA ReadWalShared ==
    ASSUME SharedOnly, TypeInv, HistoryInv, NEW k \in 0..MaxTid, StoreInv(k),
           NEW m \in Managers, ManagerInv(m, k), ReadWal(m)
    PROVE  ManagerInv(m, k)'
<1>0. k \in Int /\ pc[m] = "readWal" /\ Published(job[m].man, k) /\ pc \in [Managers -> Steps]
  BY StoreAssumptions DEF ReadWal, ManagerInv, ReadInv, TypeInv, TypeOK
<1>1. CASE /\ k > job[m].man.tid
           /\ Adopt(m, history[k].graph, k, AllAt(history[k].graph, k), "wal")
  <2>1. k \in 0..k
    BY <1>0
  <2> QED
    BY <1>0, <1>1, <2>1, AdoptShared
<1>2. CASE /\ job[m].man.tid = k
           /\ Goto(m, "readObjects")
           /\ UNCHANGED <<diskVars, lock, memVars, job, history>>
  <2>1. pc'[m] = "readObjects" /\ job' = job /\ held' = held /\ lock' = lock /\ Published(job[m].man, k)'
    BY <1>0, <1>2 DEF Goto, memVars, diskVars, Published
  <2>2. pc'[m] \notin Committing /\ SectionInv(m)' /\ KindInv(m)'
    BY <1>0, <2>1 DEF ManagerInv, SectionInv, InSection, KindInv, Committing, Writes, Fences, Loading
  <2>3. ReadInv(m, k)'
    BY <1>0, <1>2, <2>1 DEF ReadInv
  <2> QED
    BY <2>2, <2>3, OutsideCommit
<1> QED
  BY <1>0, <1>1, <1>2, WalShows

\* What a load without the WAL finds is an earlier commit, or nothing.
LEMMA ObjectsShow ==
    ASSUME TypeInv, HistoryInv, NEW k \in 0..MaxTid, StoreInv(k), NEW m \in Managers, ManagerInv(m, k),
           ReadObjects(m)
    PROVE  \E env \in Envelopes, t \in 0..k : \E versions, source :
              /\ Adopt(m, env, t, versions, source)
              /\ t > 0 => env = history[t].graph
              /\ t = 0 => env = NoEnvelope
              /\ job[m].kind = "pessimistic" => t = k
              /\ source = "snapshot" => t > 0 /\ txns[t] # NoEnvelope
<1> DEFINE man == job[m].man
<1>0. /\ k \in Int /\ pc[m] = "readObjects" /\ Published(man, k) /\ current \in 0..MaxTid
      /\ job[m].kind = "pessimistic" => man.tid = k
  BY StoreAssumptions DEF ReadObjects, ManagerInv, ReadInv, TypeInv, TypeOK
<1>1. /\ man.tid \in 0..k
      /\ man.tid > 0 => /\ man.tid \in Tids /\ man.tid <= LatestTxn
                        /\ Readable(man)
                        /\ EnvelopeFromManifest(man) = history[man.tid].graph
  BY <1>0, PublishedShows
<1>2. CASE man.tid > 0 /\ LatestTxn <= man.tid /\ Readable(man)
  <2>1. man.tid \in 1..k
    BY <1>0, <1>1, <1>2
  <2>2. Closed(history[man.tid].graph) /\ history[man.tid].graph \in Envelopes
    BY <2>1, CommitGraph DEF StoreInv
  <2>3. Adopt(m, history[man.tid].graph, man.tid, man.vers, "manifest")
    BY <1>1, <1>2, <2>2 DEF ReadObjects, Load
  <2> QED
    BY <1>0, <1>1, <1>2, <2>2, <2>3
<1>3. CASE ~(man.tid > 0 /\ LatestTxn <= man.tid /\ Readable(man)) /\ current > 0
  <2>1. current \in 1..k /\ options.snapshots /\ txns[current] # NoEnvelope
    BY <1>0, <1>3 DEF StoreInv
  <2>2. snapshots[current] = history[current].graph
    BY <2>1 DEF StoreInv
  <2>3. Closed(history[current].graph) /\ history[current].graph \in Envelopes
    BY <2>1, CommitGraph DEF StoreInv
  <2>4. Adopt(m, history[current].graph, current, AllAt(history[current].graph, current), "snapshot")
    BY <1>3, <2>2, <2>3 DEF ReadObjects, Load
  <2>5. job[m].kind # "pessimistic"
    <3>1. SUFFICES ASSUME job[m].kind = "pessimistic" PROVE FALSE
      OBVIOUS
    <3>2. man.tid = k /\ man.tid > 0
      BY <1>0, <2>1, <3>1
    <3>3. LatestTxn \in 0..k /\ LatestTxn <= man.tid
      BY <1>0, <3>2, NewestIs
    <3> QED
      BY <1>1, <1>3, <3>2, <3>3
  <2>6. current \in 0..k
    BY <1>0, <2>1
  <2> QED
    BY <1>0, <2>1, <2>3, <2>4, <2>5, <2>6
<1>4. CASE ~(man.tid > 0 /\ LatestTxn <= man.tid /\ Readable(man)) /\ ~(current > 0)
  <2>1. Adopt(m, NoEnvelope, 0, NoVersions, "empty")
    BY <1>4 DEF ReadObjects
  <2>2. job[m].kind = "pessimistic" => k = 0
    <3>1. SUFFICES ASSUME job[m].kind = "pessimistic", k > 0 PROVE FALSE
      BY <1>0
    <3>2. man.tid = k /\ man.tid > 0
      BY <1>0, <3>1
    <3>3. LatestTxn \in 0..k /\ LatestTxn <= man.tid
      BY <1>0, <3>2, NewestIs
    <3> QED
      BY <1>1, <1>4, <3>2, <3>3
  <2>3. 0 \in 0..k
    BY <1>0
  <2> QED
    BY <1>0, <2>1, <2>2, <2>3, EmptyTypes
<1> QED
  BY <1>2, <1>3, <1>4

\* A load without the WAL.
LEMMA ReadObjectsShared ==
    ASSUME SharedOnly, TypeInv, HistoryInv, NEW k \in 0..MaxTid, StoreInv(k),
           NEW m \in Managers, ManagerInv(m, k), ReadObjects(m)
    PROVE  ManagerInv(m, k)'
<1>1. PICK env \in Envelopes, t \in 0..k : \E versions, source :
              /\ Adopt(m, env, t, versions, source)
              /\ t > 0 => env = history[t].graph
              /\ job[m].kind = "pessimistic" => t = k
              /\ source = "snapshot" => t > 0 /\ txns[t] # NoEnvelope
  BY ObjectsShow
<1>2. pc[m] \in {"readWal", "readObjects"}
  BY DEF ReadObjects
<1> QED
  BY <1>1, <1>2, AdoptShared

\* Under the lock the ids on the target tell whether the manager has the last commit.
LEMMA CheckFindsLast ==
    ASSUME SharedOnly, TypeInv, HistoryInv, NEW k \in 0..MaxTid, StoreInv(k), WindowInv(k),
           \A n \in Managers : ManagerInv(n, k), NEW m \in Managers, pc[m] = "check", CurrentTransactionId = tid[m]
    PROVE  tid[m] = k
<1>0. k \in Int /\ Published(manifest, k) /\ LatestTxn \in 0..k /\ KindInv(m) /\ held[m]
  BY NewestIs, StoreAssumptions DEF StoreInv, ManagerInv, SectionInv, InSection
<1>1. manifest.tid \in 0..k
  BY <1>0, PublishedShows
<1>2. CASE k = 0 \/ (k > 0 /\ txns[k] # NoEnvelope)
  <2>1. LatestTxn = k
    BY <1>0, <1>2, NewestIs
  <2>2. {manifest.tid, LatestTxn} \in SUBSET Int /\ \A y \in {manifest.tid, LatestTxn} : y <= k
    BY <1>0, <1>1
  <2>3. Max({manifest.tid, LatestTxn}) = k
    BY <2>1, <2>2, MaxIs
  <2> QED
    BY <2>3 DEF CurrentTransactionId
<1>3. CASE Publishing
  <2>1. PICK n \in Managers : held[n] /\ pc[n] \in PublishWindow
    BY <1>3 DEF Publishing
  <2>2. n = m
    BY <1>0, <2>1, OneSectionAtATime DEF ManagerInv
  <2> QED
    BY <2>1, <2>2 DEF PublishWindow
<1>4. CASE Hidden(k)
  <2>1. job[m].kind \in Ops /\ job[m].kind # "pessimistic"
    BY <1>0 DEF KindInv
  <2>2. job[m].kind = "optimistic"
    BY <1>4, <2>1 DEF Hidden, TransactionOps
  <2> QED
    BY <1>4, <2>2 DEF Hidden
<1> QED
  BY <1>0, <1>2, <1>3, <1>4 DEF WindowInv

\* A commit begins on top of the last one.
LEMMA CheckShared ==
    ASSUME SharedOnly, TypeInv, HistoryInv, NEW k \in 0..MaxTid, StoreInv(k), WindowInv(k),
           \A n \in Managers : ManagerInv(n, k), NEW m \in Managers, CheckConflict(m)
    PROVE  ManagerInv(m, k)'
<1>1. CASE Throw(m)
  BY <1>1, ThrowShared
<1>2. CASE ~Throw(m)
  <2>1. /\ pc[m] = "check" /\ CurrentTransactionId = tid[m] /\ pc'[m] = "serialize"
        /\ job' = job /\ held' = held /\ lock' = lock /\ tid' = tid
    BY <1>2 DEF CheckConflict, Goto, memVars, TypeInv, TypeOK
  <2>2. tid'[m] = k
    BY <2>1, CheckFindsLast
  <2>3. pc'[m] \notin Committing /\ SectionInv(m)' /\ KindInv(m)' /\ ReadInv(m, k)'
    BY <2>1, <2>2 DEF ManagerInv, SectionInv, InSection, KindInv, ReadInv, Committing, Writes, Fences, Loading
  <2> QED
    BY <2>3, OutsideCommit
<1> QED
  BY <1>1, <1>2

\* A commit takes its whole graph and the next id.
LEMMA CommitEnvelopeShared ==
    ASSUME SharedOnly, TypeInv, NEW k \in 0..MaxTid, StoreInv(k), NEW m \in Managers, ManagerInv(m, k),
           job[m].kind # "storeAll", CommitEnvelope(m)
    PROVE  ManagerInv(m, k)'
<1> DEFINE env == Serialize(heap[m])
<1>0. /\ pc \in [Managers -> Steps] /\ job \in [Managers -> Jobs] /\ job[m] \in Jobs
      /\ KindInv(m) /\ SectionInv(m) /\ ReadInv(m, k)
  BY DEF TypeInv, TypeOK, ManagerInv
<1>1. /\ held' = held /\ lock' = lock /\ tid' = tid /\ heap' = heap /\ options' = options
      /\ pc[m] = "serialize" /\ pc'[m] = "prepare"
  BY <1>0 DEF CommitEnvelope, StoreInv, Goto, memVars, diskVars
<1>2. PICK todo, versions :
        /\ job' = [job EXCEPT ![m].t = NextTransactionId(m), ![m].env = env, ![m].todo = todo, ![m].vers = versions]
        /\ todo = DOMAIN env \cup (DOMAIN env \ DOMAIN vers[m])
  BY DEF CommitEnvelope, ObjectIdsToWrite
<1>3. tid[m] = k /\ held[m] /\ lock = m /\ job[m].kind \in Ops
  BY <1>0, <1>1 DEF ReadInv, KindInv, SectionInv, InSection
<1> HIDE DEF env
<1>4. job'[m].kind = job[m].kind /\ job'[m].t = k + 1 /\ job'[m].env = env /\ job'[m].todo = DOMAIN env
  BY <1>0, <1>2, <1>3 DEF Jobs, NextTransactionId
<1>5. job[m].kind \notin StartOps \cup {"none"}
  BY <1>3, StoreAssumptions DEF StartOps, DirectOps, TransactionOps
<1>6. SectionInv(m)' /\ KindInv(m)' /\ ReadInv(m, k)' /\ PublishInv(m)' /\ AgainInv(m, k)'
  BY <1>0, <1>1, <1>3, <1>4, <1>5
     DEF SectionInv, InSection, KindInv, ReadInv, PublishInv, AgainInv, Committing, Writes, Fences, Loading,
         StartOps, AfterRecord
<1>7. BegunInv(m, k)'
  <2>1. Unborn(m)'
    BY <1>1 DEF Unborn, StoreInv
  <2>2. DOMAIN env \ DOMAIN env = {}
    OBVIOUS
  <2> QED
    BY <1>1, <1>3, <1>4, <2>1, <2>2 DEF BegunInv, env
<1> QED
  BY <1>6, <1>7 DEF ManagerInv

\* A fence passes.
LEMMA AssertValidShared ==
    ASSUME SharedOnly, TypeInv, NEW k \in 0..MaxTid, StoreInv(k), NEW m \in Managers, ManagerInv(m, k),
           AssertValid(m)
    PROVE  ManagerInv(m, k)'
<1>0. /\ pc \in [Managers -> Steps] /\ job' = job
      /\ held' = held /\ lock' = lock /\ tid' = tid /\ heap' = heap /\ options' = options /\ history' = history
      /\ prepares' = prepares /\ snapshots' = snapshots /\ txns' = txns /\ records' = records
      /\ pc[m] \in Fences /\ options.wal
  BY DEF AssertValid, TypeInv, TypeOK, memVars, diskVars, StoreInv
<1>1. \/ pc[m] = "fenceCommit" /\ pc'[m] = "marker"
      \/ pc[m] = "fencePublish" /\ pc'[m] = "record"
      \/ pc[m] = "fenceIndex" /\ pc'[m] = "index"
      \/ pc[m] = "fenceCurrent" /\ pc'[m] = "current"
  BY <1>0 DEF AssertValid, AfterFence, Goto, Fences
<1>2. /\ pc[m] \in Committing /\ pc'[m] \in Committing
      /\ Unborn(m)' <=> Unborn(m)
      /\ pc'[m] \in AfterRecord <=> pc[m] \in AfterRecord
  BY <1>0, <1>1 DEF Committing, Writes, Fences, Unborn, AfterRecord
<1>3. SectionInv(m)'
  BY <1>0, <1>1, <1>2 DEF ManagerInv, SectionInv, InSection, Loading
<1>4. KindInv(m)' /\ ReadInv(m, k)'
  BY <1>0, <1>1, <1>2 DEF ManagerInv, KindInv, ReadInv, Loading
<1>5. BegunInv(m, k)'
  BY <1>0, <1>1, <1>2 DEF ManagerInv, BegunInv
<1>6. AgainInv(m, k)'
  BY <1>0, <1>1, <1>2 DEF ManagerInv, AgainInv
<1>7. PublishInv(m)'
  BY <1>0, <1>1, <1>2 DEF ManagerInv, PublishInv
<1> QED
  BY <1>3, <1>4, <1>5, <1>6, <1>7 DEF ManagerInv

\* A commit is reported, and recovery goes on.
LEMMA CommitStateShared ==
    ASSUME SharedOnly, TypeInv, NEW k \in 0..MaxTid, StoreInv(k), NEW m \in Managers, ManagerInv(m, k),
           CommitState(m)
    PROVE  ManagerInv(m, k)'
<1>0. /\ pc \in [Managers -> Steps] /\ job \in [Managers -> Jobs] /\ job[m] \in Jobs
      /\ held' = held /\ lock' = lock /\ pc[m] = "commitState" /\ pc[m] \in Committing
  BY DEF CommitState, TypeInv, TypeOK, Committing
<1>1. job[m].kind # "repair"
  BY <1>0 DEF ManagerInv, AgainInv, StartOps
<1>2. held[m] /\ lock = m
  BY <1>0, <1>1 DEF ManagerInv, SectionInv, InSection
<1>3. \/ pc'[m] = "recover" /\ job'[m].kind = "start"
      \/ pc'[m] = "release" /\ job'[m].kind = "none"
  <2>1. CASE job[m].kind = "recover"
    BY <1>0, <2>1 DEF CommitState, Goto, NoJob
  <2>2. CASE job[m].kind # "recover"
    BY <1>0, <1>2, <2>2 DEF CommitState, Goto, NoJob, Finished, SharedOnly
  <2> QED
    BY <2>1, <2>2
<1>4. pc'[m] \notin Committing /\ SectionInv(m)' /\ KindInv(m)' /\ ReadInv(m, k)'
  BY <1>0, <1>2, <1>3 DEF SectionInv, InSection, KindInv, ReadInv, Committing, Writes, Fences, Loading, StartOps
<1> QED
  BY <1>4, OutsideCommit

\* A step that writes a file of a commit.
WriterStep(m) ==
    \/ WriteWalPrepare(m) \/ WriteObjectRecords(m) \/ WriteSnapshot(m) \/ WriteWalCommit(m)
    \/ WriteTransactionRecord(m) \/ WritePersistentIndex(m) \/ WriteCurrent(m) \/ WriteManifest(m)

\* Every other step keeps the invariant.
LEMMA QuietNext ==
    ASSUME SharedOnly, SharedInv, WholeInv', NEW m \in Managers, StepOf(m), ~WriterStep(m)
    PROVE  SharedInv'
<1>1. PICK k \in 0..MaxTid : StoreInv(k) /\ WindowInv(k) /\ \A n \in Managers : ManagerInv(n, k)
  BY DEF SharedInv
<1>2. /\ WholeInv /\ HistoryInv /\ TypeInv /\ ManagerInv(m, k) /\ job[m].kind # "storeAll"
      /\ ~WriteWalCommit(m) /\ ~WriteTransactionRecord(m)
  BY <1>1 DEF SharedInv, WholeInv, WriterStep
<1>3. ASSUME UNCHANGED <<diskVars, history>>, ManagerInv(m, k)'
      PROVE  SharedInv'
  <2> HIDE DEF ManagerInv, StoreInv, WindowInv
  <2> QED
    BY <1>1, <1>2, <1>3, QuietShared
<1>4. CASE Throw(m)
  BY <1>2, <1>3, <1>4, ThrowShared DEF Throw
<1>5. CASE Crash(m) \/ Shutdown(m)
  BY <1>2, <1>3, <1>5, ForgetShared DEF Crash, Shutdown
<1>6. CASE Start(m) \/ BeginStore(m) \/ BeginUpdate(m) \/ BeginTransaction(m)
  BY <1>1, <1>2, <1>3, <1>6, BeginShared DEF Start, BeginStore, BeginUpdate, BeginTransaction
<1>7. CASE Acquire(m) \/ Release(m)
  BY <1>1, <1>2, <1>3, <1>7, LockShared DEF Acquire, Release
<1>8. CASE Edit(m) \/ EndWork(m)
  BY <1>1, <1>2, <1>3, <1>8, WorkShared DEF Edit, EndWork
<1>9. CASE ListWal(m) \/ Recover(m)
  BY <1>1, <1>2, <1>3, <1>9, RecoverShared DEF ListWal, Recover
<1>10. CASE ReadManifest(m)
  BY <1>1, <1>2, <1>3, <1>10, ReadManifestShared DEF ReadManifest
<1>11. CASE ReadWal(m)
  <2>1. UNCHANGED <<diskVars, history>>
    BY <1>11 DEF ReadWal, Load, Adopt, Throw
  <2> QED
    BY <1>1, <1>2, <1>3, <1>11, <2>1, ReadWalShared
<1>12. CASE ReadObjects(m)
  <2>1. UNCHANGED <<diskVars, history>>
    BY <1>12 DEF ReadObjects, Load, Adopt, Throw
  <2> QED
    BY <1>1, <1>2, <1>3, <1>12, <2>1, ReadObjectsShared
<1>13. CASE CheckConflict(m)
  <2>1. UNCHANGED <<diskVars, history>>
    BY <1>13 DEF CheckConflict, Throw
  <2> QED
    BY <1>1, <1>2, <1>3, <1>13, <2>1, CheckShared
<1>14. CASE CommitEnvelope(m)
  BY <1>1, <1>2, <1>3, <1>14, CommitEnvelopeShared DEF CommitEnvelope
<1>15. CASE AssertValid(m)
  BY <1>1, <1>2, <1>3, <1>15, AssertValidShared DEF AssertValid
<1>16. CASE CommitState(m)
  BY <1>1, <1>2, <1>3, <1>16, CommitStateShared DEF CommitState
<1> QED
  BY <1>2, <1>4, <1>5, <1>6, <1>7, <1>8, <1>9, <1>10, <1>11, <1>12, <1>13, <1>14, <1>15, <1>16
     DEF StepOf, Progress, WriterStep, AcquireTimeout, LockLost, AbortWork, RejectCommit, TargetFails

-----------------------------------------------------------------------------
(* The writes of a commit *)

\* A commit of m that no start would find yet.
Fresh(m) == Unborn(m) /\ job[m].kind \notin StartOps

\* What a manager writes is its next commit, or a commit that the WAL has.
LEMMA JobFacts ==
    ASSUME WholeInv, NEW k \in 0..MaxTid, StoreInv(k), NEW m \in Managers, ManagerInv(m, k), pc[m] \in Committing
    PROVE  /\ job[m].t \in Tids /\ job[m].env \in Envelopes
           /\ DOMAIN job[m].env \subseteq Objects /\ job[m].todo \subseteq DOMAIN job[m].env
           /\ job[m].vers = AllAt(job[m].env, job[m].t)
           /\ Fresh(m) => job[m].t = k + 1 /\ k + 1 \in Tids
           /\ ~Fresh(m) => job[m].t \in 1..k /\ job[m].env = history[job[m].t].graph
           /\ job[m].kind # "repair" => held[m] /\ lock = m
           /\ job[m].kind \in {"recover", "repair"} \cup Ops
           /\ job[m].kind \in StartOps => job[m].kind \in {"recover", "repair"}
<1>0. /\ TypeInv /\ k \in Int /\ MaxTid \in Nat /\ job[m] \in Jobs
  BY StoreAssumptions DEF WholeInv, TypeInv, TypeOK
<1>1. /\ job[m].t \in Tids /\ job[m].env \in Envelopes /\ job[m].todo \subseteq DOMAIN job[m].env
      /\ DOMAIN job[m].env \subseteq Objects
      /\ job[m].vers \in Versions /\ DOMAIN job[m].vers = DOMAIN job[m].env
  BY <1>0, EnvelopeElim DEF TypeInv, JobShape, Jobs
<1>2. job[m].vers = AllAt(job[m].env, job[m].t)
  <2>1. \A o \in DOMAIN job[m].env : job[m].vers[o] = job[m].t
    BY DEF WholeInv, Whole
  <2>2. job[m].vers = [o \in DOMAIN job[m].vers |-> job[m].vers[o]]
    BY <1>1 DEF Versions
  <2>3. [o \in DOMAIN job[m].vers |-> job[m].vers[o]] = [o \in DOMAIN job[m].env |-> job[m].t]
    BY <1>1, <2>1
  <2> QED
    BY <2>2, <2>3 DEF AllAt
<1>3. /\ job[m].kind \in {"recover", "repair"} \cup Ops
      /\ job[m].kind \in StartOps => job[m].kind \in {"recover", "repair"}
  BY DEF ManagerInv, KindInv, StartOps
<1>4. Fresh(m) => job[m].t = k + 1
  BY DEF Fresh, ManagerInv, BegunInv
<1>5. ~Fresh(m) => job[m].t <= k /\ job[m].env = history[job[m].t].graph
  BY <1>0 DEF Fresh, ManagerInv, BegunInv, AgainInv
<1>6. job[m].t <= k => job[m].t \in 1..k
  BY <1>0, <1>1 DEF Tids
<1>7. job[m].kind # "repair" => held[m] /\ lock = m
  BY DEF ManagerInv, SectionInv, InSection
<1> QED
  BY <1>1, <1>2, <1>3, <1>4, <1>5, <1>6, <1>7

\* A write leaves its manager in the commit.
LEMMA CommitGoesOn ==
    ASSUME TypeInv, NEW k \in 0..MaxTid, StoreInv(k), NEW m \in Managers, ManagerInv(m, k),
           pc[m] \in Committing, pc'[m] \in Committing,
           UNCHANGED <<job, held, lock, tid, heap, history, options>>,
           Unborn(m)' <=> Unborn(m),
           job[m].kind \in StartOps => pc'[m] \notin {"prepare", "fenceCommit", "marker"},
           job[m].kind = "repair" => /\ pc'[m] \in {"objects", "manifest", "index"}
                                     /\ txns'[job[m].t] # NoEnvelope,
           Fresh(m) => /\ prepares'[k + 1] = job[m].env
                       /\ \A o \in DOMAIN job[m].env : records'[o][k + 1] = records[o][k + 1]
                       /\ options.snapshots /\ pc'[m] \in {"fenceCommit", "marker"} =>
                              snapshots'[k + 1] = job[m].env,
           pc'[m] \in AfterRecord => txns'[job[m].t] # NoEnvelope,
           pc'[m] \in {"snapshot", "fenceCurrent", "current"} => options.snapshots
    PROVE  ManagerInv(m, k)'
<1>1. SectionInv(m)'
  BY DEF ManagerInv, SectionInv, InSection, Committing, Writes, Fences, Loading
<1>2. KindInv(m)' /\ ReadInv(m, k)'
  BY DEF ManagerInv, KindInv, ReadInv, Committing, Writes, Fences, Loading
<1>3. BegunInv(m, k)'
  BY DEF ManagerInv, BegunInv, Fresh
<1>4. AgainInv(m, k)'
  BY DEF ManagerInv, AgainInv, StartOps
<1>5. PublishInv(m)'
  BY DEF PublishInv
<1> QED
  BY <1>1, <1>2, <1>3, <1>4, <1>5 DEF ManagerInv

\* The WAL entry of a commit.
LEMMA WriteWalPrepareShared ==
    ASSUME SharedOnly, SharedInv, WholeInv', NEW m \in Managers, WriteWalPrepare(m)
    PROVE  SharedInv'
<1>1. PICK k \in 0..MaxTid : StoreInv(k) /\ WindowInv(k) /\ \A n \in Managers : ManagerInv(n, k)
  BY DEF SharedInv
<1>0. /\ WholeInv /\ HistoryInv /\ TypeInv /\ ManagerInv(m, k) /\ StepOf(m) /\ k \in Int /\ MaxTid \in Nat
      /\ pc \in [Managers -> Steps] /\ prepares \in [Tids -> Envelopes]
      /\ pc[m] = "prepare" /\ pc[m] \in Committing /\ ~WriteWalCommit(m) /\ ~WriteTransactionRecord(m)
  BY <1>1, StoreAssumptions DEF SharedInv, WholeInv, TypeInv, TypeOK, StepOf, Progress, WriteWalPrepare, Committing, Writes,
     WriteWalCommit, WriteTransactionRecord
<1>2. /\ job[m].t = k + 1 /\ k + 1 \in Tids /\ job[m].kind \notin StartOps /\ held[m]
  <2>1. job[m].kind \notin StartOps
    BY <1>0 DEF ManagerInv, AgainInv
  <2>2. Fresh(m) /\ job[m].kind # "repair"
    BY <1>0, <1>1, <2>1 DEF Fresh, Unborn, StoreInv, StartOps
  <2> QED
    BY <1>0, <1>1, <2>1, <2>2, JobFacts
<1>3. /\ UNCHANGED <<options, records, markers, txns, snapshots, current, index, manifest, lock, job, history>>
      /\ UNCHANGED <<held, tid, heap>>
      /\ prepares' = [prepares EXCEPT ![k + 1] = job[m].env]
      /\ pc'[m] = "objects"
  BY <1>0, <1>2 DEF WriteWalPrepare, Goto, memVars
<1>4. prepares'[k + 1] = job[m].env /\ \A t \in 1..k : prepares'[t] = prepares[t]
  BY <1>0, <1>2, <1>3 DEF Tids
<1>5. StoreInv(k)'
  BY <1>1, <1>3, <1>4 DEF StoreInv, TopIs, Published, NewestRecord
<1>6. ManagerInv(m, k)'
  <2>1. pc'[m] \in Committing /\ (Unborn(m)' <=> Unborn(m)) /\ pc'[m] \notin AfterRecord
    BY <1>0, <1>1, <1>3 DEF Unborn, StoreInv, Committing, Writes, AfterRecord
  <2>2. job[m].kind # "repair"
    BY <1>2 DEF StartOps
  <2> QED
    BY <1>0, <1>1, <1>2, <1>3, <1>4, <2>1, <2>2, CommitGoesOn
<1> HIDE DEF ManagerInv, StoreInv, WindowInv
<1> QED
  BY <1>0, <1>1, <1>2, <1>3, <1>5, <1>6, SharedStep

\* The snapshot of a commit.
LEMMA WriteSnapshotShared ==
    ASSUME SharedOnly, SharedInv, WholeInv', NEW m \in Managers, WriteSnapshot(m)
    PROVE  SharedInv'
<1>1. PICK k \in 0..MaxTid : StoreInv(k) /\ WindowInv(k) /\ \A n \in Managers : ManagerInv(n, k)
  BY DEF SharedInv
<1>0. /\ WholeInv /\ HistoryInv /\ TypeInv /\ ManagerInv(m, k) /\ StepOf(m) /\ k \in Int /\ MaxTid \in Nat
      /\ pc \in [Managers -> Steps] /\ snapshots \in [Tids -> Envelopes]
      /\ pc[m] = "snapshot" /\ pc[m] \in Committing /\ ~WriteWalCommit(m) /\ ~WriteTransactionRecord(m)
  BY <1>1, StoreAssumptions DEF SharedInv, WholeInv, TypeInv, TypeOK, StepOf, Progress, WriteSnapshot, Committing, Writes,
     WriteWalCommit, WriteTransactionRecord
<1>2. /\ job[m].t \in Tids /\ job[m].kind # "repair" /\ held[m] /\ options.snapshots
      /\ Fresh(m) => job[m].t = k + 1
      /\ ~Fresh(m) => job[m].t \in 1..k /\ job[m].env = history[job[m].t].graph
      /\ job[m].kind \in StartOps => job[m].kind = "recover"
      /\ job[m].kind = "recover" => ~Fresh(m)
  <2>1. job[m].kind # "repair" /\ options.snapshots
    BY <1>0 DEF ManagerInv, AgainInv, PublishInv, StartOps
  <2> QED
    BY <1>0, <1>1, <2>1, JobFacts DEF Fresh, StartOps
<1>3. /\ UNCHANGED <<options, records, markers, txns, prepares, current, index, manifest, lock, job, history>>
      /\ UNCHANGED <<held, tid, heap>>
      /\ snapshots' = [snapshots EXCEPT ![job[m].t] = job[m].env]
      /\ pc'[m] = IF job[m].kind = "recover" THEN "fencePublish" ELSE "fenceCommit"
  BY <1>0, <1>2 DEF WriteSnapshot, Goto, memVars
<1>4. \A t \in 1..k : snapshots'[t] = history[t].graph
  BY <1>0, <1>1, <1>2, <1>3 DEF Tids, StoreInv
<1>5. Fresh(m) => snapshots'[k + 1] = job[m].env
  BY <1>0, <1>2, <1>3
<1>6. StoreInv(k)'
  BY <1>1, <1>2, <1>3, <1>4 DEF StoreInv, TopIs, Published, NewestRecord
<1>7. ManagerInv(m, k)'
  <2>1. pc'[m] \in Committing /\ pc'[m] \notin AfterRecord
        /\ pc'[m] \notin {"prepare", "marker", "snapshot", "fenceCurrent", "current"}
    BY <1>3 DEF Committing, Fences, AfterRecord
  <2>2. CASE job[m].kind \in StartOps
    <3>1. pc'[m] = "fencePublish" /\ job[m].kind = "recover" /\ ~Fresh(m)
      BY <1>2, <1>3, <2>2
    <3>2. SectionInv(m)' /\ KindInv(m)' /\ ReadInv(m, k)' /\ PublishInv(m)'
      BY <1>0, <1>3, <2>1, <3>1 DEF ManagerInv, SectionInv, InSection, KindInv, ReadInv, PublishInv, Loading
    <3>3. BegunInv(m, k)' /\ AgainInv(m, k)'
      BY <1>0, <1>3, <2>2, <3>1 DEF ManagerInv, BegunInv, AgainInv, StartOps
    <3> QED
      BY <3>2, <3>3 DEF ManagerInv
  <2>3. CASE job[m].kind \notin StartOps
    <3>1. (Unborn(m)' <=> Unborn(m)) /\ Fresh(m)
      BY <1>0, <1>1, <1>2, <1>3, <2>3 DEF Unborn, Fresh, StoreInv, StartOps
    <3>2. prepares'[k + 1] = job[m].env
      BY <1>0, <1>3, <2>3, <3>1 DEF ManagerInv, BegunInv, Fresh
    <3> QED
      BY <1>0, <1>1, <1>2, <1>3, <1>5, <2>1, <2>3, <3>1, <3>2, CommitGoesOn
  <2> QED
    BY <2>2, <2>3
<1> HIDE DEF ManagerInv, StoreInv, WindowInv
<1> QED
  BY <1>0, <1>1, <1>2, <1>3, <1>6, <1>7, SharedStep

\* The object records of a commit: new ones, or once more what is there.
LEMMA WriteObjectRecordsShared ==
    ASSUME SharedOnly, SharedInv, WholeInv', NEW m \in Managers, WriteObjectRecords(m)
    PROVE  SharedInv'
<1>1. PICK k \in 0..MaxTid : StoreInv(k) /\ WindowInv(k) /\ \A n \in Managers : ManagerInv(n, k)
  BY DEF SharedInv
<1>a. /\ WholeInv /\ HistoryInv /\ TypeInv /\ ManagerInv(m, k) /\ StepOf(m) /\ k \in Int /\ MaxTid \in Nat
      /\ pc[m] = "objects" /\ pc[m] \in Committing /\ ~WriteWalCommit(m) /\ ~WriteTransactionRecord(m)
  <2>1. pc[m] = "objects"
    BY DEF WriteObjectRecords
  <2>2. StepOf(m)
    BY DEF StepOf, Progress
  <2> QED
    BY <1>1, <2>1, <2>2, StoreAssumptions
       DEF SharedInv, WholeInv, Committing, Writes, WriteWalCommit, WriteTransactionRecord
<1>b. /\ pc \in [Managers -> Steps] /\ job \in [Managers -> Jobs] /\ job[m] \in Jobs
      /\ records \in [Objects -> [Tids -> {<<>>} \cup {<<c>> : c \in Contents}]]
  BY <1>a DEF TypeInv, TypeOK
<1>c. PICK o \in job[m].todo :
         /\ records' = [records EXCEPT ![o][job[m].t] = <<job[m].env[o]>>]
         /\ job' = [job EXCEPT ![m].todo = @ \ {o}]
         /\ Goto(m, IF LastRecord(m, o) THEN AfterObjects(m) ELSE "objects")
  BY DEF WriteObjectRecords
<1>2. /\ job[m].t \in Tids /\ DOMAIN job[m].env \subseteq Objects /\ job[m].todo \subseteq DOMAIN job[m].env
      /\ Fresh(m) => job[m].t = k + 1
      /\ ~Fresh(m) => job[m].t \in 1..k /\ job[m].env = history[job[m].t].graph
      /\ job[m].kind # "repair" => held[m]
      /\ job[m].kind \in {"recover", "repair"} \cup Ops
      /\ job[m].kind \in StartOps => job[m].kind \in {"recover", "repair"}
  BY <1>a, <1>1, JobFacts
<1>3. /\ UNCHANGED <<options, prepares, snapshots, markers, txns, current, index, manifest, lock, history>>
      /\ UNCHANGED <<held, tid, heap>>
  BY DEF WriteObjectRecords, memVars
<1>4. /\ job'[m].kind = job[m].kind /\ job'[m].t = job[m].t /\ job'[m].env = job[m].env
      /\ job'[m].todo = job[m].todo \ {o}
  BY <1>b, <1>c DEF Jobs
<1>5. pc'[m] = IF job[m].todo = {o}
               THEN IF job[m].kind = "repair" THEN "manifest"
                    ELSE IF options.snapshots THEN "snapshot"
                    ELSE IF job[m].kind = "recover" THEN "fencePublish" ELSE "fenceCommit"
               ELSE "objects"
  BY <1>b, <1>c DEF Goto, LastRecord, AfterObjects
<1>6. /\ records'[o][job[m].t] = <<job[m].env[o]>>
      /\ \A p \in Objects, t \in Tids : p # o \/ t # job[m].t => records'[p][t] = records[p][t]
  BY <1>b, <1>c, <1>2
<1>7. StoreInv(k)'
  <2>1. ASSUME NEW t \in 1..k, NEW p \in DOMAIN history[t].graph
        PROVE  records'[p][t] = <<history[t].graph[p]>>
    <3>1. t \in Tids /\ history[t].graph \in Envelopes /\ records[p][t] = <<history[t].graph[p]>>
      BY <1>a, <1>1, CommitGraph DEF StoreInv
    <3>2. p \in Objects
      BY <3>1, EnvelopeElim
    <3>3. CASE t = job[m].t /\ p = o
      <4>1. ~Fresh(m)
        BY <1>a, <1>2, <3>3
      <4> QED
        BY <1>2, <1>6, <3>3, <4>1
    <3>4. CASE ~(t = job[m].t /\ p = o)
      BY <1>6, <3>1, <3>2, <3>4
    <3> QED
      BY <3>3, <3>4
  <2> QED
    BY <1>1, <1>3, <2>1 DEF StoreInv, TopIs, Published, NewestRecord
<1>8. ManagerInv(m, k)'
  <2>1. pc'[m] \in Committing /\ pc'[m] \notin AfterRecord \ {"manifest"}
        /\ pc'[m] \notin {"prepare", "marker", "fenceCurrent", "current"} \cup Loading
    BY <1>5 DEF Committing, Writes, Fences, AfterRecord, Loading
  <2>2. SectionInv(m)'
    BY <1>a, <1>3, <1>4, <1>5, <2>1 DEF ManagerInv, SectionInv, InSection, Committing, Writes, Fences, Loading
  <2>3. KindInv(m)' /\ ReadInv(m, k)'
    BY <1>a, <1>4, <1>5, <2>1 DEF ManagerInv, KindInv, ReadInv, Loading
  <2>4. CASE job[m].kind \in StartOps
    <3>1. ~Fresh(m) /\ job'[m].kind \in StartOps
      BY <1>4, <2>4 DEF Fresh
    <3>2. pc'[m] # "fenceCommit" /\ (job[m].kind = "repair" => pc'[m] \in {"objects", "manifest"})
      BY <1>2, <1>5, <2>4
    <3>3. pc'[m] = "manifest" => job[m].kind = "repair"
      BY <1>5
    <3>4. BegunInv(m, k)'
      BY <3>1 DEF BegunInv
    <3>5. AgainInv(m, k)'
      BY <1>a, <1>3, <1>4, <2>1, <2>4, <3>1, <3>2 DEF ManagerInv, AgainInv
    <3>6. PublishInv(m)'
      BY <1>a, <1>3, <1>4, <1>5, <2>1, <2>4, <3>3 DEF ManagerInv, AgainInv, PublishInv, AfterRecord
    <3> QED
      BY <2>2, <2>3, <3>4, <3>5, <3>6 DEF ManagerInv
  <2>5. CASE job[m].kind \notin StartOps
    <3>1. Fresh(m) /\ Unborn(m) /\ job'[m].kind \notin StartOps
      BY <1>a, <1>1, <1>4, <2>5 DEF Fresh, Unborn, StoreInv
    <3>2. job[m].kind \notin {"repair", "recover"}
      BY <2>5 DEF StartOps
    <3>3. pc'[m] \in {"objects", "snapshot", "fenceCommit"} /\ (pc'[m] = "snapshot" => options.snapshots)
          /\ (pc'[m] = "fenceCommit" => ~options.snapshots)
      BY <1>5, <3>2
    <3>4. Unborn(m)'
      BY <1>1, <1>3, <3>3 DEF Unborn, StoreInv
    <3>5. \A p \in DOMAIN job'[m].env \ job'[m].todo : records'[p][k + 1] = <<job'[m].env[p]>>
      <4>1. ASSUME NEW p \in DOMAIN job[m].env, p \notin job[m].todo \ {o}
            PROVE  records'[p][k + 1] = <<job[m].env[p]>>
        <5>1. CASE p = o
          BY <1>2, <1>6, <3>1, <5>1
        <5>2. CASE p # o
          <6>1. records[p][k + 1] = <<job[m].env[p]>>
            BY <1>a, <2>5, <3>1, <4>1, <5>2 DEF ManagerInv, BegunInv
          <6> QED
            BY <1>2, <1>6, <3>1, <4>1, <5>2, <6>1
        <5> QED
          BY <5>1, <5>2
      <4> QED
        BY <1>4, <4>1
    <3>6. BegunInv(m, k)'
      BY <1>a, <1>3, <1>4, <2>5, <3>1, <3>3, <3>4, <3>5 DEF ManagerInv, BegunInv
    <3>7. AgainInv(m, k)' /\ PublishInv(m)'
      BY <1>3, <3>1, <3>3 DEF AgainInv, PublishInv, AfterRecord
    <3> QED
      BY <2>2, <2>3, <3>6, <3>7 DEF ManagerInv
  <2> QED
    BY <2>4, <2>5
<1>9. \/ held[m]
      \/ k + 1 \in Tids => \A p \in Objects : records'[p][k + 1] = records[p][k + 1]
  <2>1. CASE job[m].kind = "repair"
    <3>1. job[m].t # k + 1
      BY <1>a, <1>2, <2>1 DEF Fresh, StartOps
    <3> QED
      BY <1>6, <3>1
  <2> QED
    BY <1>2, <2>1
<1> HIDE DEF ManagerInv, StoreInv, WindowInv
<1> QED
  BY <1>a, <1>1, <1>3, <1>7, <1>8, <1>9, SharedStep

\* The transaction record of a commit, which the newest one may already be.
LEMMA WriteTransactionRecordShared ==
    ASSUME SharedOnly, SharedInv, WholeInv', NEW m \in Managers, WriteTransactionRecord(m)
    PROVE  SharedInv'
<1>1. PICK k \in 0..MaxTid : StoreInv(k) /\ WindowInv(k) /\ \A n \in Managers : ManagerInv(n, k)
  BY DEF SharedInv
<1>0. /\ WholeInv /\ HistoryInv /\ TypeInv /\ ManagerInv(m, k) /\ StepOf(m) /\ k \in Int /\ MaxTid \in Nat
      /\ pc \in [Managers -> Steps] /\ txns \in [Tids -> Envelopes]
      /\ pc[m] = "record" /\ pc[m] \in Committing /\ ~WriteWalCommit(m)
  BY <1>1, StoreAssumptions DEF SharedInv, WholeInv, TypeInv, TypeOK, StepOf, Progress, WriteTransactionRecord,
     Committing, Writes, WriteWalCommit
<1>t. PICK t \in Tids : t = job[m].t
  BY <1>0, <1>1, JobFacts
<1>2. /\ t \in Tids /\ t \in 1..k /\ job[m].kind # "repair" /\ held[m] /\ ~Fresh(m) /\ ~Unborn(m)
      /\ job[m].env = history[t].graph
      /\ job[m].kind \notin StartOps => t = k
  <2>1. ~Fresh(m) /\ ~Unborn(m)
    BY <1>0, <1>1 DEF Fresh, Unborn, StoreInv
  <2>2. job[m].kind # "repair"
    BY <1>0 DEF ManagerInv, AgainInv, StartOps
  <2>3. job[m].kind \notin StartOps => t = k
    BY <1>0, <1>t, <2>1 DEF ManagerInv, BegunInv
  <2> QED
    BY <1>0, <1>1, <1>t, <2>1, <2>2, <2>3, JobFacts
<1>3. /\ UNCHANGED <<options, records, prepares, snapshots, markers, current, index, manifest, lock, job, history>>
      /\ UNCHANGED <<held, tid, heap>>
      /\ txns' = IF LatestTxn = t THEN txns ELSE [txns EXCEPT ![t] = job[m].env]
      /\ pc'[m] = "fenceIndex"
  BY <1>0, <1>t DEF WriteTransactionRecord, Goto, memVars
<1>4. history[t].graph # NoEnvelope
  BY <1>0, <1>1, <1>2, CommitGraph DEF StoreInv
<1>5. PICK l \in 0..k : NewestRecord(l) /\ l = LatestTxn
  BY <1>1, NewestIs
<1>6. /\ txns'[t] # NoEnvelope
      /\ \A u \in Tids \ {t} : txns'[u] = txns[u]
      /\ \A u \in Tids : txns'[u] # NoEnvelope => txns'[u] = history[u].graph
  <2>1. CASE l = t
    <3>1. txns' = txns /\ txns[t] # NoEnvelope
      BY <1>0, <1>2, <1>3, <1>5, <2>1 DEF NewestRecord
    <3> QED
      BY <1>1, <3>1 DEF StoreInv
  <2>2. CASE l # t
    <3>1. txns' = [txns EXCEPT ![t] = history[t].graph]
      BY <1>2, <1>3, <1>5, <2>2
    <3>2. txns'[t] = history[t].graph /\ \A u \in Tids \ {t} : txns'[u] = txns[u]
      BY <1>0, <1>2, <3>1
    <3> QED
      BY <1>1, <1>4, <3>2 DEF StoreInv
  <2> QED
    BY <2>1, <2>2
<1>7. \A u \in Tids : txns[u] # NoEnvelope => txns'[u] # NoEnvelope
  BY <1>6
<1>8. StoreInv(k)'
  <2>1. \E u \in 0..k : NewestRecord(u)'
    <3>1. CASE t <= l
      <4>1. NewestRecord(l)'
        <5>1. l > 0 => l \in Tids
          BY <1>0, <1>5 DEF Tids
        <5>2. \A u \in Tids : txns'[u] # NoEnvelope => u <= l
          BY <1>5, <1>6, <3>1 DEF NewestRecord
        <5> QED
          BY <1>5, <1>7, <5>1, <5>2 DEF NewestRecord
      <4> QED
        BY <1>5, <4>1
    <3>2. CASE ~(t <= l)
      <4>1. NewestRecord(t)'
        <5>1. \A u \in Tids : txns'[u] # NoEnvelope => u <= t
          <6>1. \A u \in Tids : txns[u] # NoEnvelope => u <= l /\ u \in Int
            BY <1>5 DEF NewestRecord, Tids
          <6>2. t \in Int /\ l \in Int /\ l < t
            BY <1>0, <1>2, <1>5, <3>2
          <6> QED
            BY <1>6, <6>1, <6>2
        <5> QED
          BY <1>6, <5>1 DEF NewestRecord
      <4>2. t \in 0..k
        BY <1>0, <1>2
      <4> QED
        BY <4>1, <4>2
    <3> QED
      BY <3>1, <3>2
  <2>2. current > 0 => txns'[current] # NoEnvelope
    <3>1. current > 0 => current \in Tids
      BY <1>0 DEF TypeInv, TypeOK, Tids
    <3> QED
      BY <1>1, <1>7, <3>1 DEF StoreInv
  <2>3. Published(manifest, k)'
    <3>1. manifest # NoManifest => manifest.tid \in Tids
      BY <1>0, <1>1 DEF StoreInv, Published, Tids
    <3> QED
      BY <1>1, <1>3, <1>7, <3>1 DEF StoreInv, Published
  <2> QED
    BY <1>1, <1>3, <1>6, <2>1, <2>2, <2>3 DEF StoreInv, TopIs
<1>9. ManagerInv(m, k)'
  <2>1. pc'[m] \in Committing /\ (Unborn(m)' <=> Unborn(m))
        /\ pc'[m] \notin {"prepare", "fenceCommit", "marker", "snapshot", "fenceCurrent", "current"}
    BY <1>0, <1>1, <1>2, <1>3 DEF Unborn, StoreInv, Committing, Fences
  <2> QED
    BY <1>0, <1>1, <1>2, <1>3, <1>6, <1>t, <2>1, CommitGoesOn
<1>10. job[m].kind \notin StartOps => txns'[k] # NoEnvelope
  BY <1>2, <1>6
<1> HIDE DEF ManagerInv, StoreInv, WindowInv
<1> QED
  BY <1>0, <1>1, <1>2, <1>3, <1>7, <1>8, <1>9, <1>10, SharedStep

\* The files that name the published commit.
LEMMA WriteNamesShared ==
    ASSUME SharedOnly, SharedInv, WholeInv', NEW m \in Managers,
           WritePersistentIndex(m) \/ WriteCurrent(m) \/ WriteManifest(m)
    PROVE  SharedInv'
<1>1. PICK k \in 0..MaxTid : StoreInv(k) /\ WindowInv(k) /\ \A n \in Managers : ManagerInv(n, k)
  BY DEF SharedInv
<1>0. /\ WholeInv /\ HistoryInv /\ TypeInv /\ ManagerInv(m, k) /\ StepOf(m) /\ k \in Int /\ MaxTid \in Nat
      /\ pc \in [Managers -> Steps] /\ job \in [Managers -> Jobs] /\ options.wal
      /\ pc[m] \in {"index", "current", "manifest"} /\ pc[m] \in Committing /\ pc[m] \in AfterRecord
      /\ ~WriteWalCommit(m) /\ ~WriteTransactionRecord(m)
  <2>1. pc[m] \in {"index", "current", "manifest"}
    BY DEF WritePersistentIndex, WriteCurrent, WriteManifest
  <2>2. StepOf(m)
    BY DEF StepOf, Progress
  <2>3. WholeInv /\ HistoryInv /\ TypeInv /\ ManagerInv(m, k) /\ k \in Int /\ MaxTid \in Nat /\ options.wal
    BY <1>1, StoreAssumptions DEF SharedInv, WholeInv, StoreInv
  <2>4. pc \in [Managers -> Steps] /\ job \in [Managers -> Jobs]
    BY <2>3 DEF TypeInv, TypeOK
  <2>5. /\ pc[m] \in Committing /\ pc[m] \in AfterRecord
        /\ ~WriteWalCommit(m) /\ ~WriteTransactionRecord(m)
    BY <2>1 DEF Committing, Writes, AfterRecord, WriteWalCommit, WriteTransactionRecord
  <2> QED
    BY <2>1, <2>2, <2>3, <2>4, <2>5
<1> DEFINE t == job[m].t
<1>2. /\ t \in 1..k /\ ~Fresh(m) /\ ~Unborn(m) /\ txns[t] # NoEnvelope
      /\ job[m].env = history[t].graph /\ job[m].vers = AllAt(history[t].graph, t)
      /\ job[m].kind # "repair" => held[m]
  <2>1. ~Fresh(m) /\ ~Unborn(m)
    BY <1>0 DEF Fresh, Unborn
  <2>2. txns[t] # NoEnvelope
    BY <1>0 DEF ManagerInv, PublishInv
  <2> QED
    BY <1>0, <1>1, <2>1, <2>2, JobFacts
<1>3. /\ UNCHANGED <<options, records, prepares, snapshots, markers, txns, lock>>
      /\ UNCHANGED <<held, tid, heap>>
      /\ history' = history
  <2>1. CASE WritePersistentIndex(m)
    BY <2>1 DEF WritePersistentIndex, memVars
  <2>2. CASE WriteCurrent(m) \/ WriteManifest(m)
    BY <1>0, <2>2 DEF WriteCurrent, WriteManifest, RecordHistory, DurableStep, memVars
  <2> QED
    BY <2>1, <2>2
<1>4. t \in Int /\ t <= k /\ t > 0
  BY <1>0, <1>2
<1>5. CASE WritePersistentIndex(m)
  <2>1. index' = [tid |-> t, env |-> history[t].graph] /\ current' = current /\ manifest' = manifest /\ pc[m] = "index"
    BY <1>2, <1>5 DEF WritePersistentIndex, IndexRecord
  <2>2. StoreInv(k)'
    BY <1>1, <1>3, <1>4, <2>1 DEF StoreInv, TopIs, Published, NewestRecord
  <2>3. ManagerInv(m, k)'
    <3>1. CASE job[m].kind = "repair"
      <4>1. pc'[m] = "idle" /\ job'[m].kind = "none"
        BY <1>0, <1>5, <3>1 DEF WritePersistentIndex, Goto, NoJob
      <4>2. ~held[m]
        BY <1>0, <2>1, <3>1 DEF ManagerInv, SectionInv, InSection, Loading
      <4>3. pc'[m] \notin Committing /\ SectionInv(m)' /\ KindInv(m)' /\ ReadInv(m, k)'
        BY <1>3, <4>1, <4>2 DEF SectionInv, InSection, KindInv, ReadInv, Committing, Writes, Fences, Loading
      <4> QED
        BY <4>3, OutsideCommit
    <3>2. CASE job[m].kind # "repair"
      <4>1. job' = job /\ pc'[m] = IF options.snapshots THEN "fenceCurrent" ELSE "manifest"
        BY <1>0, <1>5, <3>2 DEF WritePersistentIndex, Goto
      <4>2. pc'[m] \in Committing /\ ~Unborn(m)' /\ pc'[m] \notin {"prepare", "fenceCommit", "marker"}
            /\ (pc'[m] \in {"snapshot", "fenceCurrent", "current"} => options.snapshots)
        BY <1>0, <1>3, <4>1 DEF Unborn, Committing, Writes, Fences
      <4> QED
        BY <1>0, <1>1, <1>2, <1>3, <3>2, <4>1, <4>2, CommitGoesOn
    <3> QED
      BY <3>1, <3>2
  <2> HIDE DEF ManagerInv, StoreInv, WindowInv
  <2> QED
    BY <1>0, <1>1, <1>3, <2>2, <2>3, SharedStep
<1>6. CASE WriteCurrent(m)
  <2>1. /\ current' = t /\ index' = index /\ manifest' = manifest /\ pc[m] = "current"
        /\ job' = job /\ pc'[m] = "manifest" /\ options.snapshots
    BY <1>0, <1>6 DEF WriteCurrent, Goto, ManagerInv, PublishInv
  <2>2. StoreInv(k)'
    BY <1>1, <1>2, <1>3, <1>4, <2>1 DEF StoreInv, TopIs, Published, NewestRecord
  <2>3. ManagerInv(m, k)'
    <3>1. job[m].kind # "repair"
      BY <1>0, <2>1 DEF ManagerInv, AgainInv, StartOps
    <3>2. pc'[m] \in Committing /\ ~Unborn(m)'
      BY <1>0, <1>3, <2>1 DEF Unborn, Committing, Writes
    <3> QED
      BY <1>0, <1>1, <1>2, <1>3, <2>1, <3>1, <3>2, CommitGoesOn
  <2> HIDE DEF ManagerInv, StoreInv, WindowInv
  <2> QED
    BY <1>0, <1>1, <1>3, <2>2, <2>3, SharedStep
<1>7. CASE WriteManifest(m)
  <2>1. /\ manifest' = [tid |-> t, vers |-> AllAt(history[t].graph, t)] /\ index' = index /\ current' = current
        /\ job' = job /\ pc'[m] = IF job[m].kind = "repair" THEN "index" ELSE "commitState"
    BY <1>0, <1>2, <1>7 DEF WriteManifest, Goto
  <2>2. manifest'.tid = t /\ manifest'.vers = AllAt(history[t].graph, t)
    BY <2>1
  <2>3. Published(manifest, k)'
    BY <1>2, <1>3, <2>2 DEF Published
  <2>4. StoreInv(k)'
    BY <1>1, <1>3, <2>1, <2>3 DEF StoreInv, TopIs, NewestRecord
  <2>5. ManagerInv(m, k)'
    <3>1. pc'[m] \in Committing /\ ~Unborn(m)' /\ pc'[m] \notin {"prepare", "fenceCommit", "marker", "snapshot", "fenceCurrent", "current"}
      BY <1>0, <1>3, <2>1 DEF Unborn, Committing, Writes
    <3>2. job[m].kind = "repair" => pc'[m] = "index"
      BY <2>1
    <3> QED
      BY <1>0, <1>1, <1>2, <1>3, <2>1, <3>1, <3>2, CommitGoesOn
  <2> HIDE DEF ManagerInv, StoreInv, WindowInv
  <2> QED
    BY <1>0, <1>1, <1>3, <2>4, <2>5, SharedStep
<1> QED
  BY <1>5, <1>6, <1>7

\* The commit marker makes the next commit durable: whose holder had the last one.
LEMMA MarkerFacts ==
    ASSUME SharedOnly, WholeInv, HistoryInv, NEW k \in 0..MaxTid, StoreInv(k), NEW m \in Managers, ManagerInv(m, k),
           WriteWalCommit(m)
    PROVE  /\ k + 1 \in Tids /\ job[m].t = k + 1 /\ tid[m] = k /\ held[m] /\ lock = m
           /\ job[m].kind \in Ops /\ job[m].kind \notin StartOps /\ Fresh(m)
           /\ job[m].env = Serialize(heap[m]) /\ Generated(job[m].env) /\ job[m].todo = {}
           /\ \A t \in Tids : t # k + 1 => history'[t] = history[t]
           /\ history'[k + 1] = [graph |-> job[m].env, stored |-> job[m].env]
           /\ \A t \in Tids : history'[t] # NoCommit <=> t <= k + 1
           /\ markers' = markers \cup {k + 1}
           /\ pc'[m] = "fencePublish"
<1>0. /\ pc[m] = "marker" /\ pc[m] \in Committing /\ TypeInv /\ options.wal /\ TopIs(k)
      /\ k \in Int /\ MaxTid \in Nat
  BY StoreAssumptions DEF WriteWalCommit, Committing, Writes, WholeInv, StoreInv
<1>1. job[m].kind \notin StartOps
  BY <1>0 DEF ManagerInv, AgainInv
<1>2. Fresh(m) /\ job[m].kind # "repair"
  BY <1>0, <1>1 DEF Fresh, Unborn, StartOps
<1>3. /\ k + 1 \in Tids /\ job[m].t = k + 1 /\ held[m] /\ lock = m /\ job[m].env \in Envelopes
      /\ job[m].kind \in Ops
  BY <1>0, <1>1, <1>2, JobFacts DEF StartOps
<1>4. tid[m] = k /\ job[m].env = Serialize(heap[m])
  BY <1>0, <1>1, <1>2 DEF ManagerInv, BegunInv, Fresh
<1>5. Generated(job[m].env)
  BY <1>0, <1>4 DEF Generated, TypeInv, TypeOK
<1>6. job[m].todo = {} /\ job[m].kind # "storeAll"
  BY <1>0 DEF WholeInv, Whole
<1>7. job[m].env = [o \in DOMAIN job[m].env |-> job[m].env[o]]
  BY <1>3 DEF Envelopes
<1>8. history' = [history EXCEPT ![k + 1] = [graph |-> job[m].env, stored |-> job[m].env]]
  BY <1>0, <1>1, <1>3, <1>6, <1>7 DEF WriteWalCommit, RecordHistory, DurableStep
<1>9. history \in [Tids -> [graph : Envelopes, stored : Envelopes]]
  BY <1>0 DEF TypeInv, TypeOK
<1>10. /\ history'[k + 1] = [graph |-> job[m].env, stored |-> job[m].env]
       /\ \A t \in Tids : t # k + 1 => history'[t] = history[t]
  BY <1>3, <1>8, <1>9
<1>11. job[m].env # NoEnvelope
  BY <1>5, GeneratedIsClosed
<1>12. history'[k + 1] # NoCommit
  <2>1. history'[k + 1].graph # NoCommit.graph
    BY <1>10, <1>11 DEF NoCommit
  <2> QED
    BY <2>1
<1>13. \A t \in Tids : history'[t] # NoCommit <=> t <= k + 1
  <2>1. \A t \in Tids : t \in Int
    BY DEF Tids
  <2> QED
    BY <1>0, <1>3, <1>10, <1>12, <2>1 DEF TopIs
<1>14. markers' = markers \cup {k + 1} /\ pc'[m] = "fencePublish"
  BY <1>0, <1>3 DEF WriteWalCommit, Goto, TypeInv, TypeOK
<1> QED
  BY <1>1, <1>2, <1>3, <1>4, <1>5, <1>6, <1>10, <1>13, <1>14

\* With its marker a commit becomes the last one, and its record is on the way.
LEMMA WriteWalCommitShared ==
    ASSUME SharedOnly, SharedInv, WholeInv', NEW m \in Managers, WriteWalCommit(m)
    PROVE  SharedInv'
<1>1. PICK k \in 0..MaxTid : StoreInv(k) /\ WindowInv(k) /\ \A n \in Managers : ManagerInv(n, k)
  BY DEF SharedInv
<1>0. /\ WholeInv /\ HistoryInv /\ TypeInv /\ ManagerInv(m, k) /\ StepOf(m) /\ k \in Int /\ MaxTid \in Nat
      /\ pc[m] = "marker" /\ pc[m] \in Committing /\ options.wal /\ TopIs(k)
      /\ KindInv(m) /\ SectionInv(m) /\ BegunInv(m, k)
  BY <1>1, StoreAssumptions DEF SharedInv, WholeInv, StepOf, Progress, WriteWalCommit, Committing, Writes, StoreInv,
     ManagerInv
<1>2. /\ k + 1 \in Tids /\ job[m].t = k + 1 /\ tid[m] = k /\ held[m] /\ lock = m
      /\ job[m].kind \in Ops /\ job[m].kind \notin StartOps /\ Fresh(m)
      /\ job[m].env = Serialize(heap[m]) /\ Generated(job[m].env) /\ job[m].todo = {}
      /\ \A t \in Tids : t # k + 1 => history'[t] = history[t]
      /\ history'[k + 1] = [graph |-> job[m].env, stored |-> job[m].env]
      /\ \A t \in Tids : history'[t] # NoCommit <=> t <= k + 1
      /\ markers' = markers \cup {k + 1}
      /\ pc'[m] = "fencePublish"
  BY <1>0, <1>1, MarkerFacts
<1>3. /\ UNCHANGED <<options, records, prepares, snapshots, txns, current, index, manifest, lock, job>>
      /\ UNCHANGED <<held, tid, heap>>
  BY DEF WriteWalCommit, memVars
<1>4. /\ k + 1 \in 0..MaxTid /\ \A t \in 1..k : t \in Tids /\ t # k + 1 /\ t \in 1..(k + 1)
      /\ 1..(k + 1) = 1..k \cup {k + 1}
  BY <1>0, <1>2 DEF Tids
<1>5. HistoryInv'
  <2>1. ASSUME NEW t \in Tids, history'[t] # NoCommit
        PROVE  Generated(history'[t].graph) /\ history'[t].stored = history'[t].graph
    BY <1>0, <1>2, <2>1 DEF HistoryInv
  <2>2. \A env : Generated(env)' <=> Generated(env)
    BY DEF Generated, Serialize, Closure
  <2> QED
    BY <2>1, <2>2 DEF HistoryInv
<1>6. /\ prepares[k + 1] = job[m].env
      /\ \A o \in DOMAIN job[m].env : records[o][k + 1] = <<job[m].env[o]>>
      /\ options.snapshots => snapshots[k + 1] = job[m].env
  BY <1>0, <1>2 DEF BegunInv, Fresh
<1>7. StoreInv(k + 1)'
  <2> DEFINE l == k + 1
  <2>1. \A t \in 1..l : t = k + 1 \/ (t \in 1..k /\ history'[t] = history[t])
    BY <1>2, <1>4
  <2>2. markers' = 1..l
    BY <1>1, <1>2, <1>4 DEF StoreInv
  <2>3. \A t \in 1..l : prepares'[t] = history'[t].graph
    BY <1>1, <1>2, <1>3, <1>6, <2>1 DEF StoreInv
  <2>4. \A t \in 1..l : \A o \in DOMAIN history'[t].graph : records'[o][t] = <<history'[t].graph[o]>>
    BY <1>1, <1>2, <1>3, <1>6, <2>1 DEF StoreInv
  <2>5. options'.snapshots => \A t \in 1..l : snapshots'[t] = history'[t].graph
    BY <1>1, <1>2, <1>3, <1>6, <2>1 DEF StoreInv
  <2>6. \E u \in 0..l : NewestRecord(u)'
    <3>1. PICK u \in 0..k : NewestRecord(u)
      BY <1>1 DEF StoreInv
    <3>2. u \in 0..l /\ NewestRecord(u)'
      BY <1>0, <1>3, <3>1 DEF NewestRecord
    <3> QED
      BY <3>2
  <2>7. \A t \in Tids : txns'[t] # NoEnvelope => txns'[t] = history'[t].graph
    <3>1. ASSUME NEW t \in Tids, txns[t] # NoEnvelope
          PROVE  txns[t] = history'[t].graph
      <4>1. PICK u \in 0..k : NewestRecord(u)
        BY <1>1 DEF StoreInv
      <4>2. t <= u /\ t \in Int
        BY <3>1, <4>1 DEF NewestRecord, Tids
      <4>3. t # k + 1
        BY <1>0, <4>1, <4>2
      <4> QED
        BY <1>1, <1>2, <3>1, <4>3 DEF StoreInv
    <3> QED
      BY <1>3, <3>1
  <2>8. current' <= l /\ index'.tid <= l
    <3>1. current \in Int /\ index.tid \in Int
      BY <1>0 DEF TypeInv, TypeOK
    <3> QED
      BY <1>0, <1>1, <1>3, <3>1 DEF StoreInv
  <2>9. index'.tid > 0 => index'.env = history'[index'.tid].graph
    <3>1. index.tid \in 0..MaxTid /\ index.tid <= k
      BY <1>0, <1>1 DEF TypeInv, TypeOK, StoreInv
    <3>2. index.tid > 0 => index.tid \in 1..k
      BY <1>0, <3>1
    <3> QED
      BY <1>1, <1>2, <1>3, <1>4, <3>2 DEF StoreInv
  <2>10. Published(manifest, l)'
    BY <1>1, <1>2, <1>3, <1>4 DEF StoreInv, Published
  <2>11. TopIs(l)'
    BY <1>2 DEF TopIs
  <2> HIDE DEF l
  <2>12. StoreInv(l)'
    <3>1. l' = l
      BY DEF l
    <3> QED
      BY <1>0, <1>1, <1>3, <2>2, <2>3, <2>4, <2>5, <2>6, <2>7, <2>8, <2>9, <2>10, <2>11, <3>1 DEF StoreInv
  <2> QED
    BY <2>12 DEF l
<1>8. WindowInv(k + 1)'
  BY <1>2, <1>3 DEF WindowInv, Publishing, PublishWindow
<1>9. ManagerInv(m, k + 1)'
  <2>1. pc'[m] \in Committing /\ ~Unborn(m)' /\ pc'[m] \notin AfterRecord
    BY <1>0, <1>2, <1>3 DEF Committing, Fences, Unborn, AfterRecord
  <2>2. SectionInv(m)' /\ KindInv(m)' /\ ReadInv(m, k + 1)' /\ PublishInv(m)' /\ AgainInv(m, k + 1)'
    BY <1>0, <1>2, <1>3, <2>1
       DEF SectionInv, InSection, KindInv, ReadInv, PublishInv, AgainInv, StartOps, Loading
  <2>3. BegunInv(m, k + 1)'
    BY <1>2, <1>3, <2>1 DEF BegunInv
  <2> QED
    BY <2>2, <2>3 DEF ManagerInv
<1>10. ASSUME NEW n \in Managers, n # m PROVE ManagerInv(n, k + 1)'
  <2>1. Untouched(n)
    BY <1>0, <1>10, StepTouchesOne
  <2>2. ~held[n]
    BY <1>1, <1>2, <1>10, OneSectionAtATime DEF ManagerInv
  <2>3. \A t \in 1..k : history'[t] = history[t] /\ (txns[t] # NoEnvelope => txns'[t] # NoEnvelope)
    BY <1>2, <1>3, <1>4
  <2>4. ManagerInv(n, k)
    BY <1>1
  <2> HIDE DEF ManagerInv
  <2> QED
    BY <1>0, <1>3, <1>4, <2>1, <2>2, <2>3, <2>4, OthersKeep
<1> HIDE DEF ManagerInv, StoreInv, WindowInv
<1> QED
  BY <1>4, <1>5, <1>7, <1>8, <1>9, <1>10 DEF SharedInv

-----------------------------------------------------------------------------
(* The invariant holds in every behaviour *)

\* Every step preserves the invariant.
LEMMA SharedNext == SharedOnly /\ SharedInv /\ [Next]_vars => SharedInv'
<1> SUFFICES ASSUME SharedOnly, SharedInv, [Next]_vars PROVE SharedInv'
  OBVIOUS
<1>1. WholeInv'
  BY WholeNext DEF SharedOnly, SharedInv
<1>2. CASE UNCHANGED vars
  <2>1. PICK k \in 0..MaxTid : StoreInv(k) /\ WindowInv(k) /\ \A n \in Managers : ManagerInv(n, k)
    BY DEF SharedInv
  <2>2. StoreInv(k)' /\ HistoryInv'
    BY <1>2, <2>1 DEF vars, diskVars, StoreInv, TopIs, Published, NewestRecord, SharedInv, HistoryInv
  <2>3. WindowInv(k)'
    BY <1>2, <2>1 DEF vars, diskVars, memVars, WindowInv, Publishing, Hidden
  <2>4. ASSUME NEW n \in Managers PROVE ManagerInv(n, k)'
    <3>1. UNCHANGED <<options, records, prepares, snapshots, txns, history, lock, pc, held, tid, heap, job>>
      BY <1>2 DEF vars, diskVars, memVars
    <3>2. (InSection(n)' <=> InSection(n)) /\ (Unborn(n)' <=> Unborn(n))
      BY <3>1 DEF InSection, Unborn
    <3>3. SectionInv(n)' /\ KindInv(n)' /\ ReadInv(n, k)' /\ AgainInv(n, k)' /\ PublishInv(n)'
      BY <2>1, <3>1, <3>2 DEF ManagerInv, SectionInv, KindInv, ReadInv, Published, AgainInv, PublishInv
    <3>4. BegunInv(n, k)'
      BY <2>1, <3>1, <3>2 DEF ManagerInv, BegunInv
    <3> QED
      BY <3>3, <3>4 DEF ManagerInv
  <2> QED
    BY <1>1, <2>2, <2>3, <2>4 DEF SharedInv
<1>3. CASE Next
  <2>1. PICK m \in Managers : StepOf(m)
    BY <1>3 DEF Next, StepOf
  <2> QED
    BY <1>1, <2>1, QuietNext, WriteWalPrepareShared, WriteObjectRecordsShared, WriteSnapshotShared,
       WriteWalCommitShared, WriteTransactionRecordShared, WriteNamesShared DEF WriterStep
<1> QED
  BY <1>2, <1>3

\* The invariant of a shared store holds in every behaviour.
LEMMA SharedAlways ==
    ASSUME SharedOnly
    PROVE  Spec => []SharedInv
<1>1. SharedInv /\ [Next]_vars => SharedInv'
  BY SharedNext
<1> QED
  BY <1>1, SharedInit, PTL DEF Spec

-----------------------------------------------------------------------------
(* What the managers find on the target *)

\* Whoever works, dies or fails on the shared store, what a start would load is
\* the last durable commit: the WAL entry, the manifest or the snapshot of it.
THEOREM SharedDurableIsRecoverable ==
    ASSUME SharedOnly
    PROVE  Spec => []DurableIsRecoverable
<1>1. SharedInv => DurableIsRecoverable
  <2> SUFFICES ASSUME SharedInv PROVE DurableIsRecoverable
    OBVIOUS
  <2>1. PICK k \in 0..MaxTid : StoreInv(k)
    BY DEF SharedInv
  <2>2. /\ HistoryTop = k
        /\ k = 0 => Recoverable = NoEnvelope
        /\ k > 0 => Recoverable = history[k].graph
    BY <2>1, LastCommitIsFound DEF SharedInv, WholeInv
  <2>3. k = 0 \/ k > 0
    BY StoreAssumptions
  <2> QED
    BY <2>2, <2>3 DEF DurableIsRecoverable
<1> QED
  BY <1>1, SharedAlways, PTL

\* An index sidecar with the manifest's id describes the manifest's graph, also
\* between the writes of one manager's publication and another's repair.
THEOREM SharedIndexMatchesManifest ==
    ASSUME SharedOnly
    PROVE  Spec => []IndexMatchesManifest
<1>1. SharedInv => IndexMatchesManifest
  <2> SUFFICES ASSUME SharedInv, manifest.tid > 0, index.tid = manifest.tid
               PROVE  index.env = EnvelopeFromManifest(manifest)
    BY DEF IndexMatchesManifest
  <2>1. PICK k \in 0..MaxTid : StoreInv(k)
    BY DEF SharedInv
  <2>2. Published(manifest, k) /\ (index.tid > 0 => index.env = history[index.tid].graph)
    BY <2>1 DEF StoreInv
  <2>3. EnvelopeFromManifest(manifest) = history[manifest.tid].graph
    BY <2>1, <2>2, PublishedShows DEF SharedInv, WholeInv
  <2> QED
    BY <2>2, <2>3
<1> QED
  BY <1>1, SharedAlways, PTL

\* The manifest shows a whole graph.
LEMMA SharedManifestClosed == SharedInv => ManifestGraphIsClosed
<1> SUFFICES ASSUME SharedInv, manifest.tid > 0
             PROVE  Closed(EnvelopeFromManifest(manifest))
  BY DEF ManifestGraphIsClosed
<1>1. PICK k \in 0..MaxTid : StoreInv(k)
  BY DEF SharedInv
<1>2. Published(manifest, k) /\ TopIs(k)
  BY <1>1 DEF StoreInv
<1>3. /\ EnvelopeFromManifest(manifest) = history[manifest.tid].graph
      /\ manifest.tid \in 0..k
  BY <1>1, <1>2, PublishedShows DEF SharedInv, WholeInv
<1>4. manifest.tid \in 1..k
  BY <1>3
<1> QED
  BY <1>2, <1>3, <1>4, CommitGraph DEF SharedInv

\* verify() run on a shared store finds no error: a manifest that is behind is
\* explained by the WAL, its records are there, and the hashes match.
THEOREM SharedVerifyFindsNoError ==
    ASSUME SharedOnly
    PROVE  Spec => []VerifyFindsNoError
<1>1. SharedInv => VerifyFindsNoError
  <2> SUFFICES ASSUME SharedInv, HistoryTop > 0 PROVE VerifyFindsNoError
    BY DEF VerifyFindsNoError
  <2>1. PICK k \in 0..MaxTid : StoreInv(k)
    BY DEF SharedInv
  <2>2. HistoryTop = k /\ k \in Int /\ markers = 1..k /\ Published(manifest, k)
    BY <2>1, LastCommitIsFound, StoreAssumptions DEF SharedInv, WholeInv, StoreInv
  <2>3. manifest.tid \in 0..k /\ LatestTxn \in 0..k
    BY <2>1, <2>2, PublishedShows, NewestIs DEF SharedInv, WholeInv
  <2>4. manifest.tid = 0 \/ LatestTxn > manifest.tid => {t \in markers : t > manifest.tid} # {}
    <3>1. CASE manifest.tid = 0 \/ LatestTxn > manifest.tid
      <4>1. k \in markers /\ k > manifest.tid
        BY <2>2, <2>3, <3>1
      <4> QED
        BY <4>1
    <3> QED
      BY <3>1
  <2>5. ASSUME NEW t \in Tids, txns[t] # NoEnvelope, snapshots[t] # NoEnvelope
        PROVE  txns[t] = snapshots[t]
    <3>1. options.snapshots /\ txns[t] = history[t].graph
      BY <2>1, <2>5 DEF StoreInv
    <3>2. t <= LatestTxn /\ t \in Int /\ t > 0
      BY <2>1, <2>5, NewestIs DEF NewestRecord, Tids
    <3>3. t \in 1..k
      BY <2>2, <2>3, <3>2
    <3> QED
      BY <2>1, <3>1, <3>3 DEF StoreInv
  <2>6. ManifestVersionsExist /\ ManifestGraphIsClosed
    BY SharedManifestClosed DEF SharedInv, WholeInv
  <2> QED
    BY <2>4, <2>5, <2>6 DEF VerifyFindsNoError
<1> QED
  BY <1>1, SharedAlways, PTL

-----------------------------------------------------------------------------
(* What a step may never do *)

\* A record that the manifest shows is written again only with what it holds.
LEMMA ShownRecordsStay ==
    ASSUME SharedInv, NEW m \in Managers, WriteObjectRecords(m), manifest.tid > 0
    PROVE  \A p \in DOMAIN manifest.vers : records'[p][manifest.vers[p]] = records[p][manifest.vers[p]]
<1>1. PICK k \in 0..MaxTid : StoreInv(k) /\ \A n \in Managers : ManagerInv(n, k)
  BY DEF SharedInv
<1>0. /\ WholeInv /\ TypeInv /\ HistoryInv /\ Published(manifest, k) /\ k \in Int
      /\ pc[m] \in Committing /\ manifest.vers \in Versions
      /\ records \in [Objects -> [Tids -> {<<>>} \cup {<<c>> : c \in Contents}]]
  BY <1>1, StoreAssumptions
     DEF SharedInv, WholeInv, StoreInv, WriteObjectRecords, Committing, Writes, TypeInv, TypeOK
<1>2. PICK o \in job[m].todo : records' = [records EXCEPT ![o][job[m].t] = <<job[m].env[o]>>]
  BY DEF WriteObjectRecords
<1>3. /\ job[m].t \in Tids /\ o \in DOMAIN job[m].env /\ o \in Objects
      /\ Fresh(m) => job[m].t = k + 1
      /\ ~Fresh(m) => job[m].t \in 1..k /\ job[m].env = history[job[m].t].graph
  BY <1>0, <1>1, <1>2, JobFacts
<1>4. /\ manifest.tid \in Tids /\ manifest.tid \in 0..k
      /\ manifest.vers = AllAt(history[manifest.tid].graph, manifest.tid)
  BY <1>0, <1>1, PublishedShows
<1>5. \A p \in DOMAIN manifest.vers : p \in Objects /\ manifest.vers[p] = manifest.tid
  BY <1>0, <1>4, VersionsElim DEF AllAt
<1>6. CASE Fresh(m)
  BY <1>0, <1>2, <1>3, <1>4, <1>5, <1>6
<1>7. CASE ~Fresh(m)
  <2>1. records[o][job[m].t] = <<job[m].env[o]>>
    BY <1>1, <1>3, <1>7 DEF StoreInv
  <2>2. records' = records
    BY <1>0, <1>2, <1>3, <2>1
  <2> QED
    BY <2>2
<1> QED
  BY <1>6, <1>7

\* What other writers, recoveries and repairs do never changes the graph that the
\* present manifest shows, so that a manager can load it without the lock.
THEOREM SharedManifestIsolation ==
    ASSUME SharedOnly
    PROVE  Spec => ManifestIsolation
<1> DEFINE A == manifest.tid > 0 /\ manifest' = manifest /\ Readable(manifest) =>
                  EnvelopeFromManifest(manifest)' = EnvelopeFromManifest(manifest)
<1>1. SharedInv /\ [Next]_vars => [A]_vars
  <2> SUFFICES ASSUME SharedInv, Next, manifest.tid > 0, manifest' = manifest
               PROVE  EnvelopeFromManifest(manifest)' = EnvelopeFromManifest(manifest)
    OBVIOUS
  <2>1. PICK m \in Managers : StepOf(m)
    BY DEF Next, StepOf
  <2>2. \A p \in DOMAIN manifest.vers : records'[p][manifest.vers[p]] = records[p][manifest.vers[p]]
    BY <2>1, RecordsStayPut, ShownRecordsStay DEF StepOf
  <2> QED
    BY <2>2 DEF EnvelopeFromManifest
<1> QED
  BY <1>1, SharedAlways, PTL DEF Spec, ManifestIsolation

\* A commit becomes durable with its marker.
LEMMA SharedDurable ==
    ASSUME SharedInv, NEW m \in Managers, StepOf(m), history' # history
    PROVE  WriteWalCommit(m)
<1>1. options.wal
  BY DEF SharedInv, StoreInv
<1>2. CASE WriteCurrent(m) \/ WriteManifest(m)
  BY <1>1, <1>2 DEF WriteCurrent, WriteManifest, RecordHistory, DurableStep
<1> QED
  BY <1>2, HistoryStays DEF StepOf

\* However the managers interleave, a durable commit takes the id after the last
\* one and replaces none.
THEOREM SharedCommitsAreSerial ==
    ASSUME SharedOnly
    PROVE  Spec => CommitsAreSerial
<1> DEFINE A == history' # history => \E t \in Tids :
                    /\ t = HistoryTop + 1
                    /\ \A u \in Tids \ {t} : history'[u] = history[u]
<1>1. SharedInv /\ [Next]_vars => [A]_vars
  <2> SUFFICES ASSUME SharedInv, Next, history' # history PROVE A
    BY DEF vars
  <2>1. PICK m \in Managers : StepOf(m)
    BY DEF Next, StepOf
  <2>2. WriteWalCommit(m)
    BY <2>1, SharedDurable
  <2>3. PICK k \in 0..MaxTid : StoreInv(k) /\ \A n \in Managers : ManagerInv(n, k)
    BY DEF SharedInv
  <2>4. k + 1 \in Tids /\ \A t \in Tids : t # k + 1 => history'[t] = history[t]
    BY <2>2, <2>3, MarkerFacts DEF SharedInv
  <2>5. HistoryTop = k
    BY <2>3, TopIsHistoryTop DEF StoreInv
  <2> QED
    BY <2>4, <2>5
<1> QED
  BY <1>1, SharedAlways, PTL DEF Spec, CommitsAreSerial

-----------------------------------------------------------------------------
(* A shared store is a sequence of graphs *)

\* What a start would load is the last commit.
SharedMap ==
    /\ HistoryTop \in 0..MaxTid
    /\ Visible = LastGraph

\* The files show the last commit, whichever of them are behind.
LEMMA LastGraphVisible == SharedInv => SharedMap
<1> SUFFICES ASSUME SharedInv PROVE SharedMap
  OBVIOUS
<1>1. PICK k \in 0..MaxTid : StoreInv(k)
  BY DEF SharedInv
<1>2. /\ HistoryTop = k
      /\ k = 0 => Recoverable = NoEnvelope
      /\ k > 0 => Recoverable = history[k].graph
  BY <1>1, LastCommitIsFound DEF SharedInv, WholeInv
<1>3. k > 0 => history[k].graph # NoEnvelope
  <2>1. ASSUME k > 0 PROVE k \in 1..k
    BY <2>1
  <2> QED
    BY <1>1, <2>1, CommitGraph DEF SharedInv, StoreInv
<1>4. k = 0 \/ k > 0
  BY StoreAssumptions
<1> QED
  BY <1>2, <1>3, <1>4 DEF SharedMap, Visible, LastGraph

\* A loaded copy of a commit serializes to it again.
LEMMA CopyOfCommit ==
    ASSUME HistoryInv, NEW k \in 0..MaxTid, TopIs(k), NEW m \in Managers, NEW t \in 0..k, NEW env,
           tid'[m] = t, heap'[m] = Deserialize(env),
           t > 0 => env = history[t].graph, t = 0 => env = NoEnvelope
    PROVE  TakesCommitted(m)
<1>1. HistoryTop = k
  BY TopIsHistoryTop
<1>2. CASE t = 0
  BY <1>1, <1>2, DeserializeNothing DEF TakesCommitted, FactoryGraph
<1>3. CASE t # 0
  <2>1. t \in 1..k /\ t > 0
    BY <1>3, StoreAssumptions
  <2>2. Generated(history[t].graph)
    BY <2>1, CommitGraph
  <2> QED
    BY <1>1, <1>3, <2>1, <2>2, SerializeAgain DEF TakesCommitted
<1> QED
  BY <1>2, <1>3

\* A load takes a commit: with the lock the last one, without it any that was published.
LEMMA SharedLoadTakes ==
    ASSUME TypeInv, HistoryInv, NEW k \in 0..MaxTid, StoreInv(k), NEW m \in Managers, ManagerInv(m, k),
           ReadWal(m) \/ ReadObjects(m)
    PROVE  KeepsBase(m) \/ TakesCommitted(m)
<1>0. TopIs(k) /\ k \in Int /\ heap \in [Managers -> Heaps] /\ tid \in [Managers -> 0..MaxTid]
  BY StoreAssumptions DEF StoreInv, TypeInv, TypeOK
<1>1. ASSUME NEW env, NEW t \in 0..k, NEW versions, NEW source, Adopt(m, env, t, versions, source),
             t > 0 => env = history[t].graph, t = 0 => env = NoEnvelope
      PROVE  TakesCommitted(m)
  <2>1. heap'[m] = Deserialize(env) /\ tid'[m] = t
    BY <1>0, <1>1 DEF Adopt
  <2> QED
    BY <1>0, <1>1, <2>1, CopyOfCommit
<1>2. CASE ReadObjects(m)
  BY <1>1, <1>2, ObjectsShow
<1>3. CASE ReadWal(m)
  <2>1. Published(job[m].man, k)
    BY <1>3 DEF ReadWal, ManagerInv, ReadInv
  <2>2. CASE k > job[m].man.tid /\ Adopt(m, history[k].graph, k, AllAt(history[k].graph, k), "wal")
    <3>1. k > 0
      BY <1>0, <2>1, <2>2, PublishedShows
    <3> QED
      BY <1>0, <1>1, <2>2, <3>1
  <2>3. CASE Goto(m, "readObjects") /\ UNCHANGED <<diskVars, lock, memVars, job, history>>
    BY <1>3, <2>3 DEF ReadWal, Goto, memVars, KeepsBase, Started
  <2> QED
    BY <1>3, <2>1, <2>2, <2>3, WalShows
<1> QED
  BY <1>2, <1>3

\* A commit that is reported is the one that the manager made durable.
LEMMA SharedCommitTakes ==
    ASSUME SharedOnly, WholeInv, HistoryInv, NEW k \in 0..MaxTid, StoreInv(k), NEW m \in Managers,
           ManagerInv(m, k), CommitState(m)
    PROVE  KeepsBase(m) \/ TakesCommitted(m)
<1>0. /\ pc[m] = "commitState" /\ pc[m] \in Committing /\ TopIs(k) /\ k \in Int
      /\ tid' = [tid EXCEPT ![m] = job[m].t] /\ heap' = heap
      /\ job \in [Managers -> Jobs] /\ tid \in [Managers -> 0..MaxTid]
  BY StoreAssumptions DEF CommitState, Committing, StoreInv, WholeInv, TypeInv, TypeOK
<1>1. tid'[m] = job[m].t
  BY <1>0
<1>2. CASE job[m].kind \in StartOps
  <2>1. job[m].kind = "recover"
    BY <1>0, <1>2, JobFacts DEF ManagerInv, AgainInv
  <2>2. job'[m].kind = "start"
    BY <1>0, <2>1 DEF CommitState, NoJob
  <2> QED
    BY <2>2 DEF KeepsBase, Started, StartOps
<1>3. CASE job[m].kind \notin StartOps
  <2>1. ~Unborn(m)
    BY <1>0 DEF Unborn
  <2>2. job[m].t = k /\ job[m].env = history[k].graph /\ job[m].env = Serialize(heap[m])
    BY <1>0, <1>3, <2>1 DEF ManagerInv, BegunInv
  <2>3. k # 0
    BY <1>0, <2>2, JobFacts DEF Tids
  <2>4. HistoryTop = k
    BY <1>0, TopIsHistoryTop
  <2>5. k \in 0..k
    BY <1>0
  <2> QED
    BY <1>0, <1>1, <2>2, <2>3, <2>4, <2>5 DEF TakesCommitted
<1> QED
  BY <1>2, <1>3

\* A start that has repaired the object store has the commit of the snapshot.
LEMMA SharedRepairTakes ==
    ASSUME WholeInv, HistoryInv, NEW k \in 0..MaxTid, StoreInv(k), NEW m \in Managers,
           ManagerInv(m, k), WritePersistentIndex(m)
    PROVE  KeepsBase(m) \/ TakesCommitted(m)
<1>0. /\ pc[m] = "index" /\ pc[m] \in Committing /\ TopIs(k) /\ k \in Int
      /\ tid' = tid /\ heap' = heap
  BY StoreAssumptions DEF WritePersistentIndex, Committing, Writes, StoreInv, memVars
<1>1. CASE job[m].kind = "repair"
  <2>1. /\ job[m].t <= k /\ job[m].env = history[job[m].t].graph
        /\ tid[m] = job[m].t /\ heap[m] = Deserialize(job[m].env)
    BY <1>0, <1>1 DEF ManagerInv, AgainInv, StartOps
  <2>2. PICK t \in Tids : t = job[m].t
    BY <1>0, JobFacts
  <2>3. t \in 0..k /\ t > 0
    BY <1>0, <2>1, <2>2 DEF Tids
  <2> QED
    BY <1>0, <2>1, <2>2, <2>3, CopyOfCommit
<1>2. CASE job[m].kind # "repair"
  BY <1>0, <1>2 DEF WritePersistentIndex, KeepsBase, Started, Goto, WholeInv, TypeInv, TypeOK
<1> QED
  BY <1>1, <1>2

\* The commit marker appends the copy of the manager that holds the lock.
LEMMA SharedCommitMaps ==
    ASSUME SharedOnly, SharedInv, SharedMap', NEW m \in Managers, WriteWalCommit(m)
    PROVE  AppendsCopy(m)
<1>1. PICK k \in 0..MaxTid : StoreInv(k) /\ \A n \in Managers : ManagerInv(n, k)
  BY DEF SharedInv
<1>2. /\ k + 1 \in Tids /\ tid[m] = k /\ job[m].kind \notin StartOps
      /\ job[m].env = Serialize(heap[m])
      /\ \A t \in Tids : t # k + 1 => history'[t] = history[t]
      /\ history'[k + 1] = [graph |-> job[m].env, stored |-> job[m].env]
      /\ \A t \in Tids : history'[t] # NoCommit <=> t <= k + 1
      /\ pc'[m] = "fencePublish"
  BY <1>1, MarkerFacts DEF SharedInv
<1>3. HistoryTop = k /\ k \in Int
  BY <1>1, TopIsHistoryTop, StoreAssumptions DEF StoreInv
<1>4. HistoryTop' = k + 1
  <2> DEFINE S == {0} \cup {t \in Tids : history'[t] # NoCommit}
  <2>1. S \in SUBSET Int /\ k + 1 \in S /\ \A y \in S : y <= k + 1
    BY <1>2, <1>3, StoreAssumptions DEF Tids
  <2> HIDE DEF S
  <2>2. Max(S) = k + 1
    BY <2>1, MaxIs
  <2> QED
    BY <2>2 DEF HistoryTop, S
<1>5. tid' = tid /\ heap' = heap /\ job' = job /\ pc[m] = "marker"
  BY DEF WriteWalCommit, memVars
<1>6. Started(m) /\ Started(m)'
  BY <1>2, <1>5 DEF Started
<1>7. \A t \in 1..k : t \in Tids /\ t # k + 1
  BY <1>2, <1>3, StoreAssumptions DEF Tids
<1>8. Visible' = history'[k + 1].graph
  BY <1>3, <1>4 DEF SharedMap, LastGraph
<1> QED
  BY <1>2, <1>3, <1>4, <1>5, <1>6, <1>7, <1>8 DEF Base, AppendsCopy

\* Every step of a shared store maps to a step of the sequence of graphs or to a
\* stutter.
LEMMA SharedStepMaps ==
    ASSUME SharedOnly
    PROVE  SharedInv /\ SharedInv' /\ SharedMap /\ SharedMap' /\ [Next]_vars => [Serial!Next]_(Serial!vars)
<1> SUFFICES ASSUME SharedInv, SharedInv', SharedMap, SharedMap', [Next]_vars
             PROVE  [Serial!Next]_(Serial!vars)
  OBVIOUS
<1>1. ASSUME NEW m \in Managers, StepOf(m) PROVE Serial!Next
  <2>1. PICK k \in 0..MaxTid : StoreInv(k) /\ \A n \in Managers : ManagerInv(n, k)
    BY DEF SharedInv
  <2>2. /\ TypeInv /\ TypeInv' /\ WholeInv /\ HistoryInv /\ HistoryTop \in 0..MaxTid /\ ManagerInv(m, k)
    BY <2>1 DEF SharedInv, WholeInv, SharedMap
  <2>3. CopiesStay(m)
    BY <1>1, <2>2, StepTouchesOne DEF Untouched, CopiesStay, Started
  <2>4. CASE WriteWalCommit(m)
    BY <2>2, <2>3, <2>4, SharedCommitMaps, StepMaps
  <2>5. CASE ~WriteWalCommit(m)
    <3>1. history' = history
      BY <1>1, <2>5, SharedDurable
    <3>2. HistoryTop' = HistoryTop
      BY <3>1 DEF HistoryTop
    <3>3. Commits' = Commits /\ Visible' = Visible
      BY <3>1, <3>2 DEF Commits, SharedMap, LastGraph
    <3>4. pc[m] = "idle" => job[m].kind = "none"
      BY <2>2 DEF ManagerInv, KindInv
    <3> HIDE DEF ManagerInv, StoreInv
    <3>5. KeepsBase(m) \/ TakesCommitted(m)
      BY <1>1, <2>1, <2>2, <3>4, BaseStays, SharedLoadTakes, SharedCommitTakes, SharedRepairTakes
    <3>6. KeepsBase(m) \/ (Started(m)' /\ TakesCommitted(m))
      BY <3>5 DEF KeepsBase
    <3> QED
      BY <2>2, <2>3, <3>1, <3>3, <3>6, StepMaps
  <2> QED
    BY <2>4, <2>5
<1>2. CASE Next
  BY <1>1, <1>2 DEF Next, StepOf
<1>3. CASE UNCHANGED vars
  <2>1. HistoryTop' = HistoryTop /\ Recoverable' = Recoverable
    BY <1>3 DEF vars, diskVars, HistoryTop, Recoverable, PendingWal, CommittedWal, LatestTxn, Readable,
       EnvelopeFromManifest
  <2>2. \A m \in Managers : (Started(m)' <=> Started(m)) /\ heap' = heap /\ tid' = tid
    BY <1>3 DEF vars, memVars, Started
  <2>3. history' = history
    BY <1>3 DEF vars
  <2> QED
    BY <2>1, <2>2, <2>3 DEF Serial!vars
<1> QED
  BY <1>2, <1>3

\* Several managers that share a store, with or without the lock, work on a sequence
\* of graphs: the files, the fences, the recoveries and the repairs of all of them
\* amount to one atomic Commit, allowed only on a copy of the last commit, and a
\* load takes a whole commit, never parts of two.
THEOREM SharedImplementsSerialGraph ==
    ASSUME SharedOnly
    PROVE  Spec => ImplementsSerialGraph
<1>1. SharedInv /\ SharedInv' /\ SharedMap /\ SharedMap' /\ [Next]_vars => [Serial!Next]_(Serial!vars)
  BY SharedStepMaps
<1>2. SharedInv => SharedMap
  BY LastGraphVisible
<1> QED
  BY <1>1, <1>2, SharedAlways, SerialInitMaps, PTL DEF Spec, ImplementsSerialGraph, Serial!Spec
=============================================================================
