------------------------ MODULE GraphStoreStartupProofs ------------------------
(***************************************************************************)
(* Theorems about a store with lockStrategy "startup": whichever manager   *)
(* has started holds the storage lock until it stops, so that one manager  *)
(* at a time works on the files.  Stores of chosen targets are included in *)
(* the first part.  The second part is about stores whose commits write    *)
(* the whole graph: they implement SerialGraph, and their index sidecars,  *)
(* transaction records and snapshots agree with the graph they belong to.  *)
(***************************************************************************)
EXTENDS GraphStoreProofs, GraphStoreSerial

\* The lock of a live process is not broken, writes fail before their commit is
\* durable or not at all, and there is a WAL, snapshots, or both.
StartupOnly ==
    /\ Strategy = "startup"
    /\ StaleLocks # "live"
    /\ FailsAt \subseteq {"prepare", "objects", "snapshot", "marker"}
    /\ \A o \in Options : o.wal \/ o.snapshots

-----------------------------------------------------------------------------
(* The inductive invariant: k is the last durable commit *)

TopIs(k) == \A t \in Tids : history[t] # NoCommit <=> t <= k

\* The records that versions select hold this graph.
Shows(versions, graph) ==
    /\ DOMAIN versions = DOMAIN graph
    /\ \A o \in DOMAIN versions : records[o][versions[o]] = <<graph[o]>>

\* The files that make commits durable hold them.
CommitsInv(k) ==
    /\ TopIs(k)
    /\ \A t \in 1..k : DOMAIN history[t].graph # {} /\ DOMAIN history[t].stored = DOMAIN history[t].graph
    /\ markers = IF options.wal THEN 1..k ELSE {}
    /\ options.wal => \A t \in 1..k : prepares[t] = history[t].graph
    /\ options.snapshots => \A t \in 1..k : snapshots[t] = history[t].graph

\* How far behind, or ahead, the files that publish a commit may be.
PublishedInv(k) ==
    /\ \A t \in Tids : t < k => txns[t] # NoEnvelope
    /\ \A t \in Tids : t > k + 1 => txns[t] = NoEnvelope
    /\ options.wal => \A t \in Tids : t > k => txns[t] = NoEnvelope
    /\ k > 0 /\ (~options.wal \/ manifest.tid = k) => txns[k] # NoEnvelope
    /\ IF options.wal THEN current <= k ELSE current = k

\* The manifest is that of the last commit or of the one before, and shows it whole.
ManifestInv(k) ==
    /\ manifest.tid \in {k - 1, k}
    /\ manifest.tid = 0 => manifest = NoManifest
    /\ manifest.tid > 0 =>
         /\ \/ Shows(manifest.vers, history[manifest.tid].graph)
            \/ Shows(manifest.vers, history[manifest.tid].stored)
         /\ \A o \in DOMAIN manifest.vers :
              /\ manifest.vers[o] <= manifest.tid
              /\ manifest.vers[o] = manifest.tid =>
                   records[o][manifest.tid] = <<history[manifest.tid].graph[o]>>

FilesInv(k) == CommitsInv(k) /\ PublishedInv(k) /\ ManifestInv(k)

\* A manager that has the store for itself.
Active(m) == pc[m] \notin {"down", "acquire"}

LockInv ==
    /\ \A m \in Managers : held[m] <=> Active(m)
    /\ \A m \in Managers : held[m] => lock = m
    /\ \A m \in Managers : pc[m] = "down" => job[m].kind = "none"
    /\ \A m \in Managers : pc[m] = "acquire" => job[m].kind = "start"

Loading == {"readManifest", "readWal", "readObjects"}
AfterRecord == {"fenceIndex", "index", "fenceCurrent", "current", "manifest", "commitState"}

\* A commit of m is ahead of the write that makes it durable.
Unborn(m) ==
    pc[m] \in IF options.wal THEN {"prepare", "objects", "snapshot", "fenceCommit", "marker"}
              ELSE Committing \ {"prepare", "marker", "manifest", "commitState"}

\* What a manager needs for the next commit: the id of the last one, and versions
\* that have their records, also those that a load takes from a snapshot because
\* of a transaction record without a commit.
Ready(m, k) ==
    /\ manifest.tid = k
    /\ tid[m] = k
    /\ \A o \in DOMAIN vers[m] : vers[m][o] <= k /\ records[o][vers[m][o]] # <<>>
    /\ \A t \in Tids : pc[m] \notin AfterRecord /\ t = k + 1 /\ k > 0 /\ txns[t] # NoEnvelope =>
         \A o \in DOMAIN history[k].graph : records[o][k] # <<>>

ReadyInv(m, k) ==
    job[m].kind \notin StartOps /\ (pc[m] \in Committing => Unborn(m)) => Ready(m, k)

\* Recovery comes before the load, and what a load has read is still there.
LoadInv(m, k) ==
    /\ pc[m] \in {"listWal", "recover"} => job[m].kind = "start"
    /\ pc[m] = "recover" /\ options.wal /\ manifest.tid < k => k \in job[m].wal
    /\ pc[m] \in Loading => /\ job[m].kind \in {"start"} \cup TransactionOps
                            /\ options.wal => manifest.tid = k
    /\ pc[m] \in {"readWal", "readObjects"} => job[m].man = manifest
    /\ pc[m] = "idle" => job[m].kind = "none"
    /\ pc[m] \in {"work", "check", "serialize"} => job[m].kind \in DirectOps \cup TransactionOps
    /\ pc[m] # "release"

\* Objects that need not be written any more have their records, and objects that
\* a targeted store leaves alone have older ones.
WrittenInv(m) == pc[m] \in Committing =>
    /\ DOMAIN job[m].env # {}
    /\ job[m].kind \notin {"none", "start"}
    /\ \A o \in DOMAIN job[m].env \ job[m].todo :
         job[m].vers[o] = job[m].t => records[o][job[m].t] = <<job[m].env[o]>>
    /\ \A o \in DOMAIN job[m].env :
         \/ job[m].vers[o] = job[m].t
         \/ /\ job[m].kind = "storeAll"
            /\ job[m].vers[o] < job[m].t
            /\ records[o][job[m].vers[o]] # <<>>
    /\ pc[m] \notin {"prepare", "objects"} => job[m].todo = {}
    /\ pc[m] \in {"prepare", "marker"} => options.wal

\* Recovery and the repair of a start publish the last commit again.
RecoverInv(m, k) == pc[m] \in Committing /\ job[m].kind \in {"recover", "repair"} =>
    /\ job[m].t = k
    /\ job[m].env = history[k].graph
    /\ job[m].kind = "recover" =>
         /\ options.wal
         /\ pc[m] \notin {"prepare", "fenceCommit", "marker"}
         /\ manifest.tid = IF pc[m] = "commitState" THEN k ELSE k - 1
         /\ pc[m] \in AfterRecord => txns[k] # NoEnvelope
    /\ job[m].kind = "repair" =>
         /\ ~options.wal
         /\ pc[m] \in {"objects", "manifest", "index"}
         /\ tid[m] = k /\ vers[m] = job[m].vers
         /\ pc[m] = "index" => manifest.tid = k

\* The files that a commit has written before it is durable.
UnbornInv(m, k) == pc[m] \in Committing /\ job[m].kind \notin StartOps /\ Unborn(m) =>
    /\ job[m].t = k + 1
    /\ options.wal /\ pc[m] # "prepare" => prepares[k + 1] = job[m].env
    /\ options.snapshots /\ pc[m] \notin {"prepare", "objects", "snapshot"} => snapshots[k + 1] = job[m].env
    /\ ~options.wal /\ pc[m] \in AfterRecord => txns[k + 1] # NoEnvelope

\* A durable commit on its way to the manifest.
DurableInv(m, k) == pc[m] \in Committing /\ job[m].kind \notin StartOps /\ ~Unborn(m) =>
    /\ job[m].t = k
    /\ job[m].env = history[k].graph
    /\ manifest.tid = IF pc[m] = "commitState" THEN k ELSE k - 1
    /\ Shows(job[m].vers, history[k].stored)
    /\ pc[m] \in AfterRecord => txns[k] # NoEnvelope
    /\ pc[m] = "commitState" => manifest.vers = job[m].vers
    /\ \A t \in Tids : t > k => txns[t] = NoEnvelope

JobInv(m, k) ==
    /\ LoadInv(m, k) /\ WrittenInv(m) /\ RecoverInv(m, k)
    /\ UnbornInv(m, k) /\ DurableInv(m, k) /\ ReadyInv(m, k)

StartupInv ==
    /\ TypeInv
    /\ LockInv
    /\ \E k \in 0..MaxTid : FilesInv(k) /\ \A m \in Managers : Active(m) => JobInv(m, k)

-----------------------------------------------------------------------------
(* Facts about the operators *)

\* Max is an element that bounds the set.
LEMMA MaxIs ==
    ASSUME NEW S \in SUBSET Int, NEW x \in S, \A y \in S : y <= x
    PROVE  Max(S) = x
<1>1. \E z \in S : \A y \in S : z >= y
  OBVIOUS
<1> DEFINE z == Max(S)
<1>2. z \in S /\ \A y \in S : z >= y
  BY <1>1 DEF Max
<1> HIDE DEF z
<1>3. z >= x /\ z <= x /\ z \in Int
  BY <1>2
<1>4. z = x
  BY <1>3
<1> QED
  BY <1>4 DEF z

\* A record that is there differs from none.
LEMMA OneRecord == \A x : <<x>> # <<>>
OBVIOUS

\* The last commit of the history.
LEMMA TopIsHistoryTop ==
    ASSUME NEW k \in 0..MaxTid, TopIs(k)
    PROVE  HistoryTop = k
<1> DEFINE S == {0} \cup {t \in Tids : history[t] # NoCommit}
<1>1. S \in SUBSET Int /\ k \in S /\ \A y \in S : y <= k
  BY StoreAssumptions DEF TopIs, Tids
<1> HIDE DEF S
<1>2. Max(S) = k
  BY <1>1, MaxIs
<1> QED
  BY <1>2 DEF HistoryTop, S

\* The newest transaction record.
LEMMA LatestIs ==
    ASSUME NEW l \in 0..MaxTid, l > 0 => txns[l] # NoEnvelope,
           \A t \in Tids : t > l => txns[t] = NoEnvelope
    PROVE  LatestTxn = l
<1> DEFINE S == {0} \cup {t \in Tids : txns[t] # NoEnvelope}
<1>1. S \in SUBSET Int /\ l \in S /\ \A y \in S : y <= l
  BY StoreAssumptions DEF Tids
<1> HIDE DEF S
<1>2. Max(S) = l
  BY <1>1, MaxIs
<1> QED
  BY <1>2 DEF LatestTxn, S

\* An envelope always holds the root, and so is not NoEnvelope.
LEMMA SerializeHoldsRoot ==
    ASSUME NEW h
    PROVE  Root \in DOMAIN Serialize(h)
BY StoreAssumptions DEF Serialize, Closure

\* The newest transaction record is that of the last commit, of the one before, or
\* without a WAL of one that a crash has cut off.
LEMMA LatestAround ==
    ASSUME TypeInv, NEW k \in 0..MaxTid, CommitsInv(k), PublishedInv(k)
    PROVE  /\ LatestTxn \in {k - 1, k, k + 1} \cap 0..MaxTid
           /\ LatestTxn > 0 => txns[LatestTxn] # NoEnvelope
           /\ LatestTxn = k + 1 => ~options.wal /\ k + 1 \in Tids /\ txns[k + 1] # NoEnvelope
           /\ LatestTxn = k - 1 => options.wal /\ manifest.tid # k
           /\ \A t \in Tids : t = k + 1 /\ txns[t] # NoEnvelope => LatestTxn = k + 1
<1>0. k \in Int /\ MaxTid \in Nat
  BY StoreAssumptions
<1>1. CASE k + 1 \in Tids /\ txns[k + 1] # NoEnvelope
  <2>1. LatestTxn = k + 1
    <3>1. k + 1 \in 0..MaxTid
      BY <1>0, <1>1 DEF Tids
    <3>2. \A t \in Tids : t > k + 1 => txns[t] = NoEnvelope
      BY DEF PublishedInv
    <3> QED
      BY <3>1, <3>2, <1>1, LatestIs
  <2>2. ~options.wal
    BY <1>0, <1>1 DEF PublishedInv, Tids
  <2> QED
    BY <1>0, <1>1, <2>1, <2>2 DEF Tids
<1>2. CASE ~(k + 1 \in Tids /\ txns[k + 1] # NoEnvelope)
  <2>1. \A t \in Tids : t > k => txns[t] = NoEnvelope
    BY <1>0, <1>2 DEF PublishedInv, Tids
  <2>2. CASE k = 0 \/ txns[k] # NoEnvelope
    <3>1. LatestTxn = k
      BY <2>1, <2>2, <1>0, LatestIs
    <3> QED
      BY <1>0, <1>2, <2>2, <3>1
  <2>3. CASE k > 0 /\ txns[k] = NoEnvelope
    <3>1. \A t \in Tids : t > k - 1 => txns[t] = NoEnvelope
      BY <1>0, <2>1, <2>3 DEF Tids
    <3>2. k - 1 > 0 => txns[k - 1] # NoEnvelope
      BY <1>0 DEF PublishedInv, Tids
    <3>3. LatestTxn = k - 1
      BY <1>0, <2>3, <3>1, <3>2, LatestIs
    <3>4. options.wal /\ manifest.tid # k
      BY <2>3 DEF PublishedInv
    <3> QED
      BY <1>0, <1>2, <2>3, <3>2, <3>3, <3>4
  <2> QED
    BY <1>0, <2>2, <2>3
<1> QED
  BY <1>1, <1>2

\* The WAL holds the commits so far.
LEMMA WalIs ==
    ASSUME NEW k \in 0..MaxTid, CommitsInv(k)
    PROVE  CommittedWal = IF options.wal THEN 1..k ELSE {}
<1>1. \A t \in 1..k : options.wal => prepares[t] # NoEnvelope
  BY EmptyTypes DEF CommitsInv
<1> QED
  BY <1>1 DEF CommittedWal, CommitsInv

\* At most the last commit waits for its publication.
LEMMA PendingIs ==
    ASSUME TypeInv, NEW k \in 0..MaxTid, FilesInv(k)
    PROVE  PendingWal = IF options.wal /\ manifest.tid < k THEN {k} ELSE {}
<1>0. k \in Int /\ CommitsInv(k) /\ PublishedInv(k)
  BY DEF FilesInv
<1>1. CommittedWal = IF options.wal THEN 1..k ELSE {}
  BY <1>0, WalIs
<1>2. LatestTxn \in {k - 1, k, k + 1} /\ (LatestTxn = k - 1 => manifest.tid # k)
  BY <1>0, LatestAround
<1>3. manifest.tid \in {k - 1, k} /\ manifest.tid \in 0..MaxTid
  BY DEF FilesInv, ManifestInv, TypeInv, TypeOK
<1>4. CASE options.wal
  <2>1. \A t \in 1..k : (manifest.tid < t \/ LatestTxn < t) <=> t = k /\ manifest.tid < k
    BY <1>0, <1>2, <1>3
  <2>2. PendingWal = {t \in 1..k : manifest.tid < t \/ LatestTxn < t}
    BY <1>1, <1>4 DEF PendingWal
  <2>3. manifest.tid < k => k \in 1..k
    BY <1>0, <1>3
  <2> QED
    BY <1>0, <1>4, <2>1, <2>2, <2>3
<1>5. CASE ~options.wal
  BY <1>1, <1>5 DEF PendingWal
<1> QED
  BY <1>4, <1>5

\* The manifest's records are there.
LEMMA ManifestIsReadable ==
    ASSUME NEW k, ManifestInv(k), TypeInv
    PROVE  Readable(manifest)
<1>1. manifest.tid = 0 \/ manifest.tid > 0
  BY StoreAssumptions DEF TypeInv, TypeOK
<1>2. CASE manifest.tid = 0
  BY <1>2, EmptyTypes DEF ManifestInv, Readable, NoManifest
<1>3. CASE manifest.tid > 0
  <2>1. PICK graph : Shows(manifest.vers, graph)
    BY <1>3 DEF ManifestInv
  <2>2. \A o \in DOMAIN manifest.vers : records[o][manifest.vers[o]] = <<graph[o]>>
    BY <2>1 DEF Shows
  <2>3. \A o \in DOMAIN manifest.vers : records[o][manifest.vers[o]] # <<>>
    BY <2>2, OneRecord
  <2> QED
    BY <2>3 DEF Readable
<1> QED
  BY <1>1, <1>2, <1>3

\* The manifest shows what its commit has stored, or the graph it stored it from.
LEMMA ManifestShows ==
    ASSUME NEW k, ManifestInv(k), manifest.tid > 0, TypeInv, NEW j \in 0..MaxTid, CommitsInv(j), manifest.tid <= j
    PROVE  EnvelopeFromManifest(manifest) \in {history[manifest.tid].graph, history[manifest.tid].stored}
<1>1. manifest.tid \in Tids
  BY DEF TypeInv, TypeOK, Tids
<1>2. history[manifest.tid].graph \in Envelopes /\ history[manifest.tid].stored \in Envelopes
  BY <1>1 DEF TypeInv, TypeOK
<1>3. ASSUME NEW env \in Envelopes, Shows(manifest.vers, env)
      PROVE  EnvelopeFromManifest(manifest) = env
  <2>1. env = [o \in DOMAIN env |-> env[o]]
    BY DEF Envelopes
  <2>2. \A o \in DOMAIN env : records[o][manifest.vers[o]][1] = env[o]
    BY <1>3 DEF Shows
  <2> QED
    BY <1>3, <2>1, <2>2 DEF EnvelopeFromManifest, Shows
<1> QED
  BY <1>2, <1>3 DEF ManifestInv

-----------------------------------------------------------------------------
(* What steps leave alone *)

\* The invariant holds of a store that was never opened.
LEMMA StartupInit == Init => StartupInv
<1> SUFFICES ASSUME Init PROVE StartupInv
  OBVIOUS
<1>1. LockInv
  BY DEF Init, LockInv, Active, NoJob
<1>2. 0 \in 0..MaxTid /\ MaxTid \in Nat
  BY StoreAssumptions
<1>3. FilesInv(0)
  <2>1. CommitsInv(0)
    BY <1>2 DEF Init, CommitsInv, TopIs, Tids
  <2>2. PublishedInv(0)
    BY <1>2 DEF Init, PublishedInv, Tids
  <2>3. ManifestInv(0)
    BY <1>2 DEF Init, ManifestInv, NoManifest
  <2> QED
    BY <2>1, <2>2, <2>3 DEF FilesInv
<1>4. \A m \in Managers : ~Active(m)
  BY DEF Init, Active
<1> QED
  BY <1>1, <1>2, <1>3, <1>4, TypeInit DEF StartupInv

\* Files that do not change stay as they are.
LEMMA FilesStay ==
    ASSUME NEW k, FilesInv(k), UNCHANGED <<diskVars, history>>
    PROVE  FilesInv(k)'
<1>1. CommitsInv(k)'
  BY DEF FilesInv, CommitsInv, TopIs, diskVars
<1>2. PublishedInv(k)'
  BY DEF FilesInv, PublishedInv, diskVars
<1>3. ManifestInv(k)'
  BY DEF FilesInv, ManifestInv, Shows, diskVars
<1> QED
  BY <1>1, <1>2, <1>3 DEF FilesInv

\* One manager at a time has the store.
LEMMA OneActive ==
    ASSUME LockInv, NEW m \in Managers, Active(m), NEW n \in Managers, Active(n)
    PROVE  n = m
BY DEF LockInv

\* A step of the manager that has the store and goes on with it.
LEMMA ActiveStep ==
    ASSUME StartupInv, TypeInv', NEW m \in Managers, Active(m), Active(m)', OnlyMoves(m),
           UNCHANGED <<held, lock>>,
           NEW k \in 0..MaxTid, FilesInv(k)', JobInv(m, k)'
    PROVE  StartupInv'
<1>1. ASSUME NEW n \in Managers, n # m
      PROVE  pc'[n] = pc[n] /\ job'[n] = job[n] /\ ~Active(n)
  BY <1>1, OneActive DEF OnlyMoves, StartupInv
<1>2. LockInv'
  BY <1>1 DEF StartupInv, LockInv, Active
<1>3. \A n \in Managers : Active(n)' => n = m
  BY <1>1 DEF Active
<1> QED
  BY <1>2, <1>3 DEF StartupInv

\* A manager that waits for the store, or is not started, changes nothing in it.
LEMMA OutsideStep ==
    ASSUME StartupInv, TypeInv', NEW m \in Managers, ~Active(m), ~Active(m)', OnlyMoves(m),
           UNCHANGED <<diskVars, history, held, lock>>,
           pc'[m] = "down" => job'[m].kind = "none", pc'[m] = "acquire" => job'[m].kind = "start",
           \A n \in Managers \ {m} : tid'[n] = tid[n] /\ vers'[n] = vers[n]
    PROVE  StartupInv'
<1>1. PICK k \in 0..MaxTid : FilesInv(k) /\ \A n \in Managers : Active(n) => JobInv(n, k)
  BY DEF StartupInv
<1>2. FilesInv(k)'
  BY <1>1, FilesStay
<1>3. LockInv'
  BY DEF StartupInv, LockInv, Active, OnlyMoves
<1>4. ASSUME NEW n \in Managers, Active(n)'
      PROVE  JobInv(n, k)'
  <2>1. n # m /\ pc'[n] = pc[n] /\ job'[n] = job[n] /\ tid'[n] = tid[n] /\ vers'[n] = vers[n]
    BY <1>4 DEF OnlyMoves
  <2>2. JobInv(n, k)
    BY <1>1, <1>4, <2>1 DEF Active
  <2>3. LoadInv(n, k)' /\ WrittenInv(n)' /\ RecoverInv(n, k)'
    BY <2>1, <2>2 DEF JobInv, LoadInv, WrittenInv, RecoverInv, diskVars
  <2>4. UnbornInv(n, k)' /\ DurableInv(n, k)' /\ ReadyInv(n, k)'
    BY <2>1, <2>2 DEF JobInv, UnbornInv, DurableInv, ReadyInv, Ready, Unborn, Shows, diskVars
  <2> QED
    BY <2>3, <2>4 DEF JobInv
<1> QED
  BY <1>1, <1>2, <1>3, <1>4 DEF StartupInv

\* A process that stops leaves the files as they are, and the lock to nobody alive.
LEMMA ForgetStep ==
    ASSUME StartupInv, TypeInv', NEW m \in Managers, Forget(m),
           UNCHANGED <<diskVars, history>>,
           lock' = lock \/ (held[m] /\ lock' = NoOwner)
    PROVE  StartupInv'
<1>1. PICK k \in 0..MaxTid : FilesInv(k) /\ \A n \in Managers : Active(n) => JobInv(n, k)
  BY DEF StartupInv
<1>2. /\ pc'[m] = "down" /\ held'[m] = FALSE /\ job'[m] = NoJob
      /\ \A n \in Managers \ {m} : /\ pc'[n] = pc[n] /\ held'[n] = held[n] /\ job'[n] = job[n]
                                   /\ tid'[n] = tid[n] /\ vers'[n] = vers[n]
  BY DEF Forget, Goto, StartupInv, TypeInv, TypeOK
<1>3. FilesInv(k)'
  BY <1>1, FilesStay
<1>4. LockInv'
  BY <1>2 DEF StartupInv, LockInv, Active, NoJob
<1>5. ASSUME NEW n \in Managers, Active(n)'
      PROVE  JobInv(n, k)'
  <2>1. n # m /\ pc'[n] = pc[n] /\ job'[n] = job[n] /\ tid'[n] = tid[n] /\ vers'[n] = vers[n]
    BY <1>2, <1>5 DEF Active
  <2>2. JobInv(n, k)
    BY <1>1, <1>5, <2>1 DEF Active
  <2>3. LoadInv(n, k)' /\ WrittenInv(n)' /\ RecoverInv(n, k)'
    BY <2>1, <2>2 DEF JobInv, LoadInv, WrittenInv, RecoverInv, diskVars
  <2>4. UnbornInv(n, k)' /\ DurableInv(n, k)' /\ ReadyInv(n, k)'
    BY <2>1, <2>2 DEF JobInv, UnbornInv, DurableInv, ReadyInv, Ready, Unborn, Shows, diskVars
  <2> QED
    BY <2>3, <2>4 DEF JobInv
<1> QED
  BY <1>1, <1>3, <1>4, <1>5 DEF StartupInv

\* The manager that has the store goes on to a step outside a commit: files and,
\* if it runs an operation of the application, its readiness for a commit stay.
LEMMA QuietActive ==
    ASSUME StartupInv, TypeInv', NEW m \in Managers, Active(m), OnlyMoves(m),
           UNCHANGED <<diskVars, history, held, lock>>,
           NEW k \in 0..MaxTid, FilesInv(k),
           pc'[m] \notin Committing \cup {"down", "acquire"},
           LoadInv(m, k)', job'[m].kind \notin StartOps => Ready(m, k)'
    PROVE  StartupInv'
<1>1. FilesInv(k)'
  BY FilesStay
<1>2. JobInv(m, k)'
  BY DEF JobInv, WrittenInv, RecoverInv, UnbornInv, DurableInv, ReadyInv
<1>3. Active(m)'
  BY DEF Active
<1> QED
  BY <1>1, <1>2, <1>3, ActiveStep

\* Readiness depends on the files and on the id and versions in memory.
LEMMA StaysReady ==
    ASSUME NEW m \in Managers, NEW k, Ready(m, k), UNCHANGED <<diskVars, history>>,
           tid'[m] = tid[m], vers'[m] = vers[m], pc[m] \in AfterRecord => pc'[m] \in AfterRecord
    PROVE  Ready(m, k)'
BY DEF Ready, diskVars

\* An error before the commit is durable, or in a start.
LEMMA ThrowStep ==
    ASSUME StartupOnly, StartupInv, TypeInv', NEW m \in Managers, Throw(m), pc[m] # "down",
           job[m].kind \notin StartOps => (pc[m] \in Committing => Unborn(m)) /\ pc[m] \notin AfterRecord
    PROVE  StartupInv'
<1>1. PICK k \in 0..MaxTid : FilesInv(k) /\ \A n \in Managers : Active(n) => JobInv(n, k)
  BY DEF StartupInv
<1>2. CASE job[m].kind \in StartOps
  <2>1. Forget(m) /\ lock' = lock /\ UNCHANGED <<diskVars, history>>
    BY <1>2 DEF Throw, StartupOnly
  <2> QED
    BY <2>1, ForgetStep
<1>3. CASE job[m].kind \notin StartOps
  <2>1. Active(m)
    BY <1>3 DEF StartupInv, LockInv, Active, StartOps
  <2>2. /\ pc' = [pc EXCEPT ![m] = "idle"] /\ job' = [job EXCEPT ![m] = NoJob]
        /\ UNCHANGED <<lock, held, tid, vers, diskVars, history>>
    BY <1>3 DEF Throw, Goto, Finished, StartupOnly
  <2>3. pc'[m] = "idle" /\ job'[m] = NoJob /\ OnlyMoves(m)
    BY <2>2 DEF OnlyMoves, StartupInv, TypeInv, TypeOK
  <2>4. Ready(m, k)
    BY <1>1, <1>3, <2>1 DEF JobInv, ReadyInv
  <2>5. Ready(m, k)'
    BY <1>3, <2>2, <2>4, StaysReady
  <2>6. LoadInv(m, k)'
    BY <2>3 DEF LoadInv, NoJob, Loading
  <2>7. pc'[m] \notin Committing \cup {"down", "acquire"}
    BY <2>3 DEF Committing, Writes, Fences
  <2> QED
    BY <1>1, <2>1, <2>2, <2>3, <2>5, <2>6, <2>7, QuietActive
<1> QED
  BY <1>2, <1>3

-----------------------------------------------------------------------------
(* Steps outside a commit *)

\* A start begins by waiting for the lock.
LEMMA StartStarts ==
    ASSUME StartupOnly, StartupInv, TypeInv', NEW m \in Managers, Start(m)
    PROVE  StartupInv'
<1>1. /\ pc[m] = "down" /\ pc' = [pc EXCEPT ![m] = "acquire"]
      /\ job' = [job EXCEPT ![m].kind = "start"]
      /\ UNCHANGED <<diskVars, lock, memVars, history>>
  BY DEF Start, Goto, StartupOnly
<1>2. pc'[m] = "acquire" /\ job'[m].kind = "start" /\ OnlyMoves(m)
  BY <1>1 DEF OnlyMoves, StartupInv, TypeInv, TypeOK, Jobs
<1> QED
  BY <1>1, <1>2, OutsideStep DEF Active, memVars

\* A lock is acquired when nobody has the store.
LEMMA AcquireStarts ==
    ASSUME StartupOnly, StartupInv, TypeInv', NEW m \in Managers, Acquire(m)
    PROVE  StartupInv'
<1>1. PICK k \in 0..MaxTid : FilesInv(k) /\ \A n \in Managers : Active(n) => JobInv(n, k)
  BY DEF StartupInv
<1>2. pc[m] = "acquire" /\ job[m].kind = "start"
  BY DEF Acquire, StartupInv, LockInv
<1>3. \A n \in Managers : ~Active(n)
  BY StoreAssumptions DEF Acquire, Stale, StartupOnly, StartupInv, LockInv
<1>4. /\ pc' = [pc EXCEPT ![m] = "listWal"] /\ held' = [held EXCEPT ![m] = TRUE]
      /\ lock' = m /\ job' = job /\ UNCHANGED <<diskVars, history>>
  BY <1>2 DEF Acquire, Goto, Locked
<1>5. /\ pc'[m] = "listWal" /\ held'[m] /\ job'[m] = job[m]
      /\ \A n \in Managers \ {m} : pc'[n] = pc[n] /\ held'[n] = held[n] /\ job'[n] = job[n]
  BY <1>4 DEF StartupInv, TypeInv, TypeOK
<1>6. LockInv'
  BY <1>3, <1>4, <1>5 DEF StartupInv, LockInv, Active
<1>7. FilesInv(k)'
  BY <1>1, <1>4, FilesStay
<1>8. ASSUME NEW n \in Managers, Active(n)'
      PROVE  JobInv(n, k)'
  <2>1. n = m
    BY <1>3, <1>5, <1>8 DEF Active
  <2>2. pc'[n] = "listWal" /\ job'[n].kind = "start"
    BY <1>2, <1>5, <2>1
  <2> QED
    BY <2>2 DEF JobInv, LoadInv, WrittenInv, RecoverInv, UnbornInv, DurableInv, ReadyInv,
                Loading, StartOps, Committing, Writes, Fences
<1> QED
  BY <1>1, <1>6, <1>7, <1>8 DEF StartupInv

\* The markers are listed once nobody else can write any.
LEMMA ListWalStarts ==
    ASSUME StartupInv, TypeInv', NEW m \in Managers, ListWal(m)
    PROVE  StartupInv'
<1>1. PICK k \in 0..MaxTid : FilesInv(k) /\ \A n \in Managers : Active(n) => JobInv(n, k)
  BY DEF StartupInv
<1>2. Active(m) /\ pc[m] = "listWal"
  BY DEF ListWal, Active
<1>3. job[m].kind = "start" /\ job[m] \in Jobs
  BY <1>1, <1>2 DEF JobInv, LoadInv, StartupInv, TypeInv, TypeOK
<1>4. /\ OnlyMoves(m) /\ pc'[m] = "recover" /\ job'[m].kind = "start"
      /\ job'[m].wal = IF options.wal THEN markers ELSE {}
      /\ UNCHANGED <<diskVars, history, held, lock>>
  BY <1>3 DEF ListWal, Goto, OnlyMoves, memVars, StartupInv, TypeInv, TypeOK, Jobs
<1>5. LoadInv(m, k)'
  <2>1. options' = options /\ manifest' = manifest
    BY <1>4 DEF diskVars
  <2>2. options.wal => markers = 1..k
    BY <1>1 DEF FilesInv, CommitsInv
  <2>3. options.wal /\ manifest.tid < k => k \in 1..k
    <3>1. manifest.tid \in 0..MaxTid /\ k \in 0..MaxTid
      BY DEF StartupInv, TypeInv, TypeOK
    <3> QED
      BY <3>1
  <2> QED
    BY <1>4, <2>1, <2>2, <2>3 DEF LoadInv, Loading
<1>6. pc'[m] \notin Committing \cup {"down", "acquire"} /\ job'[m].kind \in StartOps
  BY <1>4 DEF Committing, Writes, Fences, StartOps
<1> QED
  BY <1>1, <1>2, <1>4, <1>5, <1>6, QuietActive

\* The end of recovery: nothing waits for publication, with a WAL the manifest is
\* that of the last commit.
LEMMA EndRecoveryStarts ==
    ASSUME StartupOnly, StartupInv, TypeInv', NEW m \in Managers, pc[m] = "recover",
           job[m].wal \cap PendingWal = {},
           job' = [job EXCEPT ![m] = [NoJob EXCEPT !.kind = "start"]],
           pc' = [pc EXCEPT ![m] = "readManifest"],
           UNCHANGED <<diskVars, lock, memVars, history>>
    PROVE  StartupInv'
<1>1. PICK k \in 0..MaxTid : FilesInv(k) /\ \A n \in Managers : Active(n) => JobInv(n, k)
  BY DEF StartupInv
<1>2. Active(m)
  BY DEF Active
<1>3. OnlyMoves(m) /\ pc'[m] = "readManifest" /\ job'[m].kind = "start"
  BY DEF OnlyMoves, NoJob, StartupInv, TypeInv, TypeOK
<1>4. options.wal => manifest.tid = k
  <2>1. PendingWal = IF options.wal /\ manifest.tid < k THEN {k} ELSE {}
    BY <1>1, PendingIs DEF StartupInv
  <2>2. options.wal /\ manifest.tid < k => k \in job[m].wal
    BY <1>1, <1>2 DEF JobInv, LoadInv
  <2>3. manifest.tid \in {k - 1, k} /\ k \in Int
    BY <1>1 DEF FilesInv, ManifestInv
  <2> QED
    BY <2>1, <2>2, <2>3
<1>5. LoadInv(m, k)'
  BY <1>3, <1>4 DEF LoadInv, Loading, diskVars
<1>6. pc'[m] \notin Committing \cup {"down", "acquire"} /\ job'[m].kind \in StartOps
  BY <1>3 DEF Committing, Writes, Fences, StartOps
<1> QED
  BY <1>1, <1>2, <1>3, <1>5, <1>6, QuietActive DEF memVars

\* Recovery takes up the last commit, whose manifest is missing.
LEMMA RecoverStarts ==
    ASSUME StartupOnly, StartupInv, TypeInv', NEW m \in Managers, Recover(m)
    PROVE  StartupInv'
<1>1. PICK k \in 0..MaxTid : FilesInv(k) /\ \A n \in Managers : Active(n) => JobInv(n, k)
  BY DEF StartupInv
<1>2. pc[m] = "recover" /\ Active(m) /\ UNCHANGED <<diskVars, lock, memVars, history>>
  BY DEF Recover, Active
<1>3. CASE job[m].wal \cap PendingWal = {} /\ pc'[m] # "objects"
  BY <1>2, <1>3, EndRecoveryStarts DEF Recover, Goto, StartupOnly, StartupInv, TypeInv, TypeOK
<1>4. ASSUME NEW t \in job[m].wal \cap PendingWal,
             job' = [job EXCEPT ![m].kind = "recover", ![m].wal = {u \in @ : t < u},
                                ![m].t = t, ![m].env = prepares[t],
                                ![m].vers = AllAt(prepares[t], t),
                                ![m].todo = DOMAIN prepares[t]],
             Goto(m, "objects")
      PROVE  StartupInv'
  <2>1. t = k /\ options.wal /\ manifest.tid < k
    BY <1>1, <1>4, PendingIs DEF StartupInv
  <2>2. k \in 1..k /\ manifest.tid = k - 1 /\ k \in Int /\ k > 0
    BY <1>1, <2>1 DEF FilesInv, ManifestInv, StartupInv, TypeInv, TypeOK
  <2>3. /\ pc'[m] = "objects" /\ OnlyMoves(m)
        /\ job'[m].kind = "recover" /\ job'[m].t = k /\ job'[m].env = prepares[k]
        /\ job'[m].vers = AllAt(prepares[k], k) /\ job'[m].todo = DOMAIN prepares[k]
    <3>1. job[m] \in Jobs /\ job \in [Managers -> Jobs] /\ pc \in [Managers -> Steps]
      BY DEF StartupInv, TypeInv, TypeOK
    <3> QED
      BY <1>4, <2>1, <3>1 DEF Goto, OnlyMoves, Jobs
  <2>4. prepares[k] = history[k].graph /\ DOMAIN prepares[k] # {}
    BY <1>1, <2>1, <2>2 DEF FilesInv, CommitsInv
  <2>5. FilesInv(k)'
    BY <1>1, <1>2, FilesStay
  <2>6. \A o \in DOMAIN prepares[k] : AllAt(prepares[k], k)[o] = k
    BY DEF AllAt
  <2>7. UNCHANGED <<prepares, options, manifest, history, records>>
    BY <1>2 DEF diskVars
  <2>8. LoadInv(m, k)' /\ WrittenInv(m)' /\ UnbornInv(m, k)' /\ DurableInv(m, k)' /\ ReadyInv(m, k)'
    BY <2>3, <2>4, <2>6, <2>7 DEF LoadInv, WrittenInv, UnbornInv, DurableInv, ReadyInv, StartOps, Loading
  <2>9. RecoverInv(m, k)'
    BY <2>1, <2>2, <2>3, <2>4, <2>7 DEF RecoverInv, AfterRecord
  <2>10. Active(m)' /\ UNCHANGED <<held, lock>>
    BY <1>2, <2>3 DEF Active, memVars
  <2> QED
    BY <1>2, <2>3, <2>5, <2>8, <2>9, <2>10, ActiveStep DEF JobInv
<1> QED
  BY <1>2, <1>3, <1>4 DEF Recover, Goto, StartupInv, TypeInv, TypeOK

\* The manifest is read when nobody else can write it.
LEMMA ReadManifestStarts ==
    ASSUME StartupOnly, StartupInv, TypeInv', NEW m \in Managers, ReadManifest(m)
    PROVE  StartupInv'
<1>1. PICK k \in 0..MaxTid : FilesInv(k) /\ \A n \in Managers : Active(n) => JobInv(n, k)
  BY DEF StartupInv
<1>2. Active(m) /\ pc[m] = "readManifest" /\ UNCHANGED <<diskVars, lock, memVars, history>>
  BY DEF ReadManifest, Active
<1>3. job' = [job EXCEPT ![m].man = manifest]
  BY DEF ReadManifest, StartupOnly
<1>4. /\ OnlyMoves(m) /\ pc'[m] = "readWal" /\ job'[m].kind = job[m].kind /\ job'[m].man = manifest
  BY <1>3 DEF ReadManifest, Goto, OnlyMoves, StartupInv, TypeInv, TypeOK, Jobs
<1>5. job[m].kind \in {"start"} \cup TransactionOps /\ (options.wal => manifest.tid = k)
  BY <1>1, <1>2 DEF JobInv, LoadInv, Loading
<1>6. LoadInv(m, k)'
  BY <1>2, <1>4, <1>5 DEF LoadInv, Loading, diskVars
<1>7. pc'[m] \notin Committing \cup {"down", "acquire"}
  BY <1>4 DEF Committing, Writes, Fences
<1>8. job'[m].kind \notin StartOps => Ready(m, k)'
  <2>1. pc[m] \notin Committing
    BY <1>2 DEF Committing, Writes, Fences
  <2>2. job'[m].kind \notin StartOps => Ready(m, k)
    BY <1>1, <1>2, <1>4, <2>1 DEF JobInv, ReadyInv
  <2> QED
    BY <1>2, <2>2, StaysReady DEF memVars, AfterRecord
<1> QED
  BY <1>1, <1>2, <1>4, <1>6, <1>7, <1>8, QuietActive DEF memVars

\* The WAL is not ahead of the manifest any more, so that a load goes on to the objects.
LEMMA ReadWalStarts ==
    ASSUME StartupInv, TypeInv', NEW m \in Managers, ReadWal(m)
    PROVE  StartupInv'
<1>1. PICK k \in 0..MaxTid : FilesInv(k) /\ \A n \in Managers : Active(n) => JobInv(n, k)
  BY DEF StartupInv
<1>2. Active(m) /\ pc[m] = "readWal" /\ pc[m] \notin Committing
  BY DEF ReadWal, Active, Committing, Writes, Fences
<1>3. job[m].man = manifest /\ (options.wal => manifest.tid = k)
      /\ job[m].kind \in {"start"} \cup TransactionOps
  BY <1>1, <1>2 DEF JobInv, LoadInv, Loading
<1>4. \A last \in {0} \cup CommittedWal : ~(last > manifest.tid)
  <2>1. manifest.tid \in 0..MaxTid /\ k \in 0..MaxTid
    BY DEF StartupInv, TypeInv, TypeOK
  <2>2. CommittedWal = IF options.wal THEN 1..k ELSE {}
    BY <1>1, WalIs DEF FilesInv
  <2> QED
    BY <1>3, <2>1, <2>2
<1>5. Goto(m, "readObjects") /\ UNCHANGED <<diskVars, lock, memVars, job, history>>
  BY <1>3, <1>4 DEF ReadWal
<1>6. OnlyMoves(m) /\ pc'[m] = "readObjects" /\ job'[m] = job[m]
  BY <1>5 DEF Goto, OnlyMoves, StartupInv, TypeInv, TypeOK
<1>7. LoadInv(m, k)'
  BY <1>3, <1>5, <1>6 DEF LoadInv, Loading, diskVars
<1>8. pc'[m] \notin Committing \cup {"down", "acquire"}
  BY <1>6 DEF Committing, Writes, Fences
<1>9. job'[m].kind \notin StartOps => Ready(m, k)'
  BY <1>1, <1>2, <1>5, <1>6, StaysReady DEF AfterRecord, JobInv, ReadyInv, memVars
<1> QED
  BY <1>1, <1>2, <1>5, <1>6, <1>7, <1>8, <1>9, QuietActive DEF memVars

\* A loaded graph is that of the last commit, and its versions have their records.
LEMMA AdoptStarts ==
    ASSUME StartupInv, TypeInv', NEW m \in Managers, pc[m] = "readObjects",
           NEW k \in 0..MaxTid, FilesInv(k), JobInv(m, k),
           NEW env, NEW versions, NEW source,
           ~(job[m].kind = "start" /\ source = "snapshot"),
           manifest.tid = k,
           \A o \in DOMAIN versions : versions[o] <= k /\ records[o][versions[o]] # <<>>,
           \A t \in Tids : t = k + 1 /\ k > 0 /\ txns[t] # NoEnvelope =>
              \A o \in DOMAIN history[k].graph : records[o][k] # <<>>,
           Adopt(m, env, k, versions, source)
    PROVE  StartupInv'
<1>1. Active(m) /\ job[m].kind \in {"start"} \cup TransactionOps
  BY DEF Active, JobInv, LoadInv, Loading
<1>2. /\ OnlyMoves(m) /\ tid'[m] = k /\ vers'[m] = versions
      /\ \/ pc'[m] = "idle" /\ job'[m] = NoJob
         \/ pc'[m] = "work" /\ job'[m].kind = job[m].kind /\ job[m].kind \in TransactionOps
      /\ UNCHANGED <<diskVars, lock, held, history>>
  <2>1. /\ job \in [Managers -> Jobs] /\ pc \in [Managers -> Steps] /\ job[m] \in Jobs
        /\ tid \in [Managers -> 0..MaxTid] /\ vers \in [Managers -> Versions]
    BY DEF StartupInv, TypeInv, TypeOK
  <2> QED
    BY <1>1, <2>1 DEF Adopt, Goto, OnlyMoves, Jobs
<1>3. Ready(m, k)'
  BY <1>2 DEF Ready, diskVars
<1>4. LoadInv(m, k)'
  BY <1>2 DEF LoadInv, NoJob, Loading
<1>5. pc'[m] \notin Committing \cup {"down", "acquire"}
  BY <1>2 DEF Committing, Writes, Fences
<1> QED
  BY <1>1, <1>2, <1>3, <1>4, <1>5, QuietActive

\* A start from a snapshot begins to publish the last commit again.
LEMMA RepairStarts ==
    ASSUME StartupInv, TypeInv', NEW m \in Managers, pc[m] = "readObjects",
           job[m].kind = "start", ~options.wal,
           NEW k \in 0..MaxTid, FilesInv(k), k > 0,
           Adopt(m, history[k].graph, k, AllAt(history[k].graph, k), "snapshot")
    PROVE  StartupInv'
<1> DEFINE env == history[k].graph
           versions == AllAt(env, k)
<1>1. /\ OnlyMoves(m) /\ tid'[m] = k /\ vers'[m] = versions
      /\ pc'[m] = "objects" /\ job'[m].kind = "repair" /\ job'[m].t = k /\ job'[m].env = env
      /\ job'[m].vers = versions /\ job'[m].todo = DOMAIN env
      /\ UNCHANGED <<diskVars, lock, held, history>>
  <2>1. /\ job \in [Managers -> Jobs] /\ pc \in [Managers -> Steps] /\ job[m] \in Jobs
        /\ tid \in [Managers -> 0..MaxTid] /\ vers \in [Managers -> Versions]
    BY DEF StartupInv, TypeInv, TypeOK
  <2> QED
    BY <2>1 DEF Adopt, Goto, OnlyMoves, Jobs
<1>2. \A o \in DOMAIN env : versions[o] = k
  BY DEF AllAt
<1>3. DOMAIN env # {}
  BY DEF FilesInv, CommitsInv
<1>4. FilesInv(k)'
  BY <1>1, FilesStay
<1>5. UNCHANGED <<options, history, manifest>> /\ env' = env
  BY <1>1 DEF diskVars
<1> HIDE DEF env, versions
<1>6. LoadInv(m, k)' /\ WrittenInv(m)' /\ UnbornInv(m, k)' /\ DurableInv(m, k)' /\ ReadyInv(m, k)'
  BY <1>1, <1>2, <1>3, <1>5 DEF LoadInv, WrittenInv, UnbornInv, DurableInv, ReadyInv, StartOps, Loading
<1>7. RecoverInv(m, k)'
  BY <1>1, <1>5 DEF RecoverInv, env
<1>8. Active(m) /\ Active(m)'
  BY <1>1 DEF Active
<1> QED
  BY <1>1, <1>4, <1>6, <1>7, <1>8, ActiveStep DEF JobInv

\* The objects, a snapshot or nothing: what a load finds is the last commit.
LEMMA ReadObjectsStarts ==
    ASSUME StartupOnly, StartupInv, TypeInv', NEW m \in Managers, ReadObjects(m)
    PROVE  StartupInv'
<1>1. PICK k \in 0..MaxTid : FilesInv(k) /\ \A n \in Managers : Active(n) => JobInv(n, k)
  BY DEF StartupInv
<1>2. /\ Active(m) /\ pc[m] = "readObjects" /\ pc[m] \notin Committing
      /\ k \in Int /\ manifest.tid \in 0..MaxTid /\ 0 \in 0..MaxTid /\ current \in 0..MaxTid
  BY StoreAssumptions DEF ReadObjects, Active, Committing, Writes, Fences, StartupInv, TypeInv, TypeOK
<1>3. /\ job[m].man = manifest /\ (options.wal => manifest.tid = k)
      /\ job[m].kind \in {"start"} \cup TransactionOps
      /\ job[m].kind # "start" => Ready(m, k)
      /\ JobInv(m, k)
  BY <1>1, <1>2 DEF JobInv, LoadInv, Loading, ReadyInv, StartOps, TransactionOps
<1>4. Readable(manifest)
  BY <1>1, ManifestIsReadable DEF FilesInv, StartupInv
<1>5. /\ LatestTxn \in {k - 1, k, k + 1}
      /\ LatestTxn = k + 1 => ~options.wal /\ k + 1 \in Tids /\ txns[k + 1] # NoEnvelope
      /\ LatestTxn = k - 1 => options.wal /\ manifest.tid # k
      /\ \A t \in Tids : t = k + 1 /\ txns[t] # NoEnvelope => LatestTxn = k + 1
  BY <1>1, LatestAround DEF FilesInv, StartupInv
<1>6. manifest.tid \in {k - 1, k} /\ IF options.wal THEN current <= k ELSE current = k
  BY <1>1 DEF FilesInv, ManifestInv, PublishedInv
<1>7. ASSUME Throw(m) PROVE StartupInv'
  BY <1>2, <1>7, ThrowStep DEF AfterRecord
<1>8. CASE manifest.tid > 0 /\ LatestTxn <= manifest.tid
  <2>1. manifest.tid = k
    BY <1>2, <1>5, <1>6, <1>8, <1>3
  <2>2. \A o \in DOMAIN manifest.vers : manifest.vers[o] <= k /\ records[o][manifest.vers[o]] # <<>>
    BY <1>1, <1>4, <1>8, <2>1 DEF FilesInv, ManifestInv, Readable
  <2>3. \A t \in Tids : ~(t = k + 1 /\ txns[t] # NoEnvelope)
    BY <1>2, <1>5, <1>8, <2>1
  <2>4. Load(m, EnvelopeFromManifest(manifest), k, manifest.vers, "manifest")
    BY <1>3, <1>4, <1>8, <2>1 DEF ReadObjects
  <2> QED
    BY <1>1, <1>2, <1>3, <1>7, <2>1, <2>2, <2>3, <2>4, AdoptStarts DEF Load
<1>9. CASE ~(manifest.tid > 0 /\ LatestTxn <= manifest.tid)
  <2>1. options.wal => k = 0
    BY <1>2, <1>3, <1>5, <1>9
  <2>2. CASE current > 0
    <3>1. ~options.wal /\ current = k /\ k > 0
      BY <1>2, <1>6, <2>1, <2>2
    <3>2. options.snapshots /\ k \in 1..k
      BY <3>1, <1>2 DEF StartupOnly, StartupInv, TypeInv, TypeOK
    <3>3. snapshots[k] = history[k].graph
      BY <1>1, <3>2 DEF FilesInv, CommitsInv
    <3> DEFINE env == history[k].graph
    <3>4. Load(m, env, k, AllAt(env, k), "snapshot")
      BY <1>3, <1>9, <2>2, <3>1, <3>3 DEF ReadObjects
    <3>5. CASE job[m].kind = "start" /\ Adopt(m, env, k, AllAt(env, k), "snapshot")
      BY <1>1, <1>2, <3>1, <3>5, RepairStarts
    <3>6. CASE job[m].kind # "start" /\ Adopt(m, env, k, AllAt(env, k), "snapshot")
      <4>1. Ready(m, k)
        BY <1>3, <3>6
      <4>2. manifest.tid = k
        BY <4>1 DEF Ready
      <4>3. LatestTxn = k + 1
        BY <1>2, <1>5, <1>9, <3>1, <4>2
      <4>4. \A o \in DOMAIN env : records[o][k] # <<>>
        BY <1>2, <1>5, <3>1, <4>1, <4>3 DEF Ready, AfterRecord
      <4>5. \A o \in DOMAIN AllAt(env, k) : AllAt(env, k)[o] = k /\ o \in DOMAIN env
        BY DEF AllAt
      <4> HIDE DEF env
      <4>6. \A o \in DOMAIN AllAt(env, k) :
                AllAt(env, k)[o] <= k /\ records[o][AllAt(env, k)[o]] # <<>>
        BY <1>2, <4>4, <4>5
      <4>7. \A t \in Tids : t = k + 1 /\ k > 0 /\ txns[t] # NoEnvelope =>
              \A o \in DOMAIN history[k].graph : records[o][k] # <<>>
        BY <1>2, <4>1 DEF Ready, AfterRecord
      <4> QED
        BY <1>1, <1>2, <1>3, <3>6, <4>2, <4>6, <4>7, AdoptStarts
    <3> QED
      BY <1>7, <3>4, <3>5, <3>6 DEF Load
  <2>3. CASE ~(current > 0)
    <3>1. k = 0 /\ manifest.tid = k
      BY <1>2, <1>6, <2>1, <2>3
    <3>2. Adopt(m, NoEnvelope, k, NoVersions, "empty")
      BY <1>3, <1>9, <2>3, <3>1 DEF ReadObjects
    <3>3. \A o \in DOMAIN NoVersions : NoVersions[o] <= k /\ records[o][NoVersions[o]] # <<>>
      BY EmptyTypes
    <3> QED
      BY <1>1, <1>2, <1>3, <3>1, <3>2, <3>3, AdoptStarts
  <2> QED
    BY <2>2, <2>3
<1> QED
  BY <1>8, <1>9

-----------------------------------------------------------------------------
(* Operations of the application *)

\* Between operations, and before an operation commits, the application's steps
\* change its graph and the control point only.
LEMMA WorkStep ==
    ASSUME StartupInv, TypeInv', NEW m \in Managers, Active(m), OnlyMoves(m),
           pc[m] \notin Committing, job[m].kind \notin StartOps,
           UNCHANGED <<diskVars, lock, held, tid, vers, history>>,
           pc'[m] \in {"idle", "readManifest", "work", "check", "serialize"},
           pc'[m] = "idle" => job'[m].kind = "none",
           pc'[m] = "readManifest" => job'[m].kind \in TransactionOps,
           pc'[m] \in {"work", "check", "serialize"} => job'[m].kind \in DirectOps \cup TransactionOps
    PROVE  StartupInv'
<1>1. PICK k \in 0..MaxTid : FilesInv(k) /\ \A n \in Managers : Active(n) => JobInv(n, k)
  BY DEF StartupInv
<1>2. Ready(m, k)
  BY <1>1 DEF JobInv, ReadyInv
<1>3. Ready(m, k)'
  BY <1>2, StaysReady DEF AfterRecord, Committing, Writes, Fences
<1>4. LoadInv(m, k)'
  BY <1>3 DEF LoadInv, Loading, Ready
<1>5. pc'[m] \notin Committing \cup {"down", "acquire"}
  BY DEF Committing, Writes, Fences
<1> QED
  BY <1>1, <1>3, <1>4, <1>5, QuietActive

\* The manager that has the store need not wait for the lock.
LEMMA GoesOn ==
    ASSUME StartupOnly, StartupInv, NEW m \in Managers, Active(m), NEW kind, WithWriteLock(m, kind)
    PROVE  pc'[m] = IF kind = "start" THEN "listWal" ELSE IF kind = "pessimistic" THEN "readManifest"
                    ELSE IF kind = "optimistic" THEN "check" ELSE "serialize"
<1>1. held[m]
  BY DEF StartupInv, LockInv
<1>2. pc' = [pc EXCEPT ![m] = Locked(kind)]
  BY <1>1 DEF WithWriteLock, Goto
<1>3. pc'[m] = Locked(kind)
  BY <1>2 DEF StartupInv, TypeInv, TypeOK
<1> QED
  BY <1>3 DEF Locked, StartupOnly

\* What the application calls, edits and returns from keeps the invariant.
LEMMA WorkStarts ==
    ASSUME StartupOnly, StartupInv, TypeInv', NEW m \in Managers,
           Edit(m) \/ BeginStore(m) \/ BeginUpdate(m) \/ BeginTransaction(m) \/ EndWork(m)
    PROVE  StartupInv'
<1>1. PICK k \in 0..MaxTid : FilesInv(k) /\ \A n \in Managers : Active(n) => JobInv(n, k)
  BY DEF StartupInv
<1>2. /\ pc[m] \in {"idle", "work"} /\ Active(m) /\ pc[m] \notin Committing
      /\ UNCHANGED <<diskVars, lock, held, tid, vers, history>>
  BY StoreAssumptions DEF Edit, BeginStore, BeginUpdate, BeginTransaction, EndWork, Active, memVars,
     Committing, Writes, Fences
<1>3. /\ pc[m] = "idle" => job[m].kind = "none"
      /\ pc[m] = "work" => job[m].kind \in DirectOps \cup TransactionOps
      /\ job[m].kind \notin StartOps
  BY <1>1, <1>2 DEF JobInv, LoadInv, StartOps, DirectOps, TransactionOps
<1>4. job \in [Managers -> Jobs] /\ pc \in [Managers -> Steps] /\ job[m] \in Jobs
  BY DEF StartupInv, TypeInv, TypeOK
<1>5. CASE Edit(m)
  <2>1. OnlyMoves(m) /\ pc'[m] = pc[m] /\ job'[m] = job[m]
    BY <1>5 DEF Edit, OnlyMoves
  <2> QED
    BY <1>2, <1>3, <2>1, WorkStep
<1>6. CASE BeginStore(m)
  <2>1. PICK kind \in {"storeRoot", "storeAll"}, targets \in TargetLists \cup {<<>>} :
            /\ job' = [job EXCEPT ![m].kind = kind, ![m].targets = targets]
            /\ WithWriteLock(m, kind)
    BY <1>6 DEF BeginStore
  <2>2. pc'[m] = "serialize"
    BY <1>2, <2>1, GoesOn
  <2>3. OnlyMoves(m) /\ job'[m].kind = kind
    BY <1>4, <2>1 DEF OnlyMoves, WithWriteLock, Goto, Jobs
  <2> QED
    BY <1>2, <1>3, <2>2, <2>3, WorkStep DEF DirectOps
<1>7. CASE BeginUpdate(m)
  <2>1. OnlyMoves(m) /\ pc'[m] = "work" /\ job'[m].kind = "update"
    BY <1>4, <1>7 DEF BeginUpdate, OnlyMoves, Goto, Jobs
  <2> QED
    BY <1>2, <1>3, <2>1, WorkStep DEF DirectOps
<1>8. CASE BeginTransaction(m)
  <2>1. PICK kind \in TransactionOps :
            /\ job' = [job EXCEPT ![m].kind = kind, ![m].undo = heap[m]]
            /\ IF kind = "pessimistic" THEN WithWriteLock(m, kind) ELSE Goto(m, "readManifest")
    BY <1>8 DEF BeginTransaction
  <2>2. OnlyMoves(m) /\ job'[m].kind = kind
    BY <1>4, <2>1 DEF OnlyMoves, WithWriteLock, Goto, Jobs
  <2>3. pc'[m] = "readManifest"
    <3>1. CASE kind = "pessimistic"
      BY <1>2, <2>1, <3>1, GoesOn
    <3>2. CASE kind # "pessimistic"
      BY <1>4, <2>1, <3>2 DEF Goto
    <3> QED
      BY <3>1, <3>2
  <2> QED
    BY <1>2, <1>3, <2>2, <2>3, WorkStep
<1>9. CASE EndWork(m)
  <2>1. job' = job /\ pc[m] = "work"
    BY <1>9 DEF EndWork
  <2>2. pc'[m] \in {"check", "serialize"} /\ OnlyMoves(m)
    <3>1. CASE job[m].kind = "pessimistic"
      BY <1>4, <1>9, <2>1, <3>1 DEF EndWork, Goto, OnlyMoves
    <3>2. CASE job[m].kind # "pessimistic"
      <4>1. WithWriteLock(m, job[m].kind)
        BY <1>9, <3>2 DEF EndWork
      <4>2. pc'[m] \in {"check", "serialize"}
        BY <1>2, <1>3, <2>1, <3>2, <4>1, GoesOn DEF StartOps
      <4> QED
        BY <1>4, <2>1, <4>1, <4>2 DEF WithWriteLock, Goto, OnlyMoves
    <3> QED
      BY <3>1, <3>2
  <2> QED
    BY <1>2, <1>3, <2>1, <2>2, WorkStep
<1> QED
  BY <1>5, <1>6, <1>7, <1>8, <1>9

\* The conflict check passes or throws.
LEMMA CheckConflictStarts ==
    ASSUME StartupOnly, StartupInv, TypeInv', NEW m \in Managers, CheckConflict(m)
    PROVE  StartupInv'
<1>1. PICK k \in 0..MaxTid : FilesInv(k) /\ \A n \in Managers : Active(n) => JobInv(n, k)
  BY DEF StartupInv
<1>2. Active(m) /\ pc[m] = "check" /\ pc[m] \notin Committing
  BY DEF CheckConflict, Active, Committing, Writes, Fences
<1>3. job[m].kind \in DirectOps \cup TransactionOps
  BY <1>1, <1>2 DEF JobInv, LoadInv
<1>4. CASE CurrentTransactionId = tid[m]
  <2>1. /\ OnlyMoves(m) /\ pc'[m] = "serialize" /\ job'[m] = job[m]
        /\ UNCHANGED <<diskVars, lock, held, tid, vers, history>>
    BY <1>4 DEF CheckConflict, Goto, OnlyMoves, memVars, StartupInv, TypeInv, TypeOK
  <2> QED
    BY <1>2, <1>3, <2>1, WorkStep DEF StartOps, DirectOps, TransactionOps
<1>5. CASE CurrentTransactionId # tid[m]
  BY <1>2, <1>5, ThrowStep DEF CheckConflict, AfterRecord
<1> QED
  BY <1>4, <1>5

\* A commit takes the next id; what it does not write has an older record.
LEMMA CommitEnvelopeStarts ==
    ASSUME StartupOnly, StartupInv, TypeInv', NEW m \in Managers, CommitEnvelope(m)
    PROVE  StartupInv'
<1>1. PICK k \in 0..MaxTid : FilesInv(k) /\ \A n \in Managers : Active(n) => JobInv(n, k)
  BY DEF StartupInv
<1>2. Active(m) /\ pc[m] = "serialize" /\ pc[m] \notin Committing /\ k \in Int
  BY DEF CommitEnvelope, Active, Committing, Writes, Fences
<1>3. job[m].kind \in DirectOps \cup TransactionOps /\ Ready(m, k)
  BY <1>1, <1>2 DEF JobInv, LoadInv, ReadyInv, StartOps, DirectOps, TransactionOps
<1> DEFINE env == Serialize(heap[m])
           nodes == DOMAIN env
           requested == IF job[m].kind = "storeAll"
                        THEN CollectObjectIds(heap[m], job[m].targets, DOMAIN vers[m])
                        ELSE nodes
           written == ObjectIdsToWrite(m, nodes, requested)
           next == NextObjectVersions(m, nodes, written)
<1>4. tid[m] = k /\ NextTransactionId(m) = k + 1
  BY <1>3 DEF Ready, NextTransactionId
<1>5. nodes # {}
  BY SerializeHoldsRoot
<1>6. \A o \in nodes : next[o] = IF o \in written \/ o \notin DOMAIN vers[m] THEN k + 1 ELSE vers[m][o]
  BY <1>4 DEF NextObjectVersions
<1>7. \A o \in nodes \ written : next[o] # k + 1
  <2>1. \A o \in nodes \ written : o \in DOMAIN vers[m]
    BY DEF ObjectIdsToWrite
  <2>2. \A o \in DOMAIN vers[m] : vers[m][o] \in Int /\ vers[m][o] <= k
    BY <1>3, VersionsElim DEF Ready, StartupInv, TypeInv, TypeOK, Tids
  <2>3. \A o \in nodes \ written : next[o] = vers[m][o]
    BY <1>6, <2>1
  <2> HIDE DEF next, nodes, written
  <2> QED
    BY <1>2, <2>1, <2>2, <2>3
<1>8. \A o \in nodes : \/ next[o] = k + 1
                       \/ /\ job[m].kind = "storeAll"
                          /\ next[o] < k + 1 /\ records[o][next[o]] # <<>>
  <2>1. CASE job[m].kind # "storeAll"
    <3>1. nodes \subseteq written
      BY <2>1 DEF ObjectIdsToWrite
    <3> QED
      BY <1>6, <3>1
  <2>2. CASE job[m].kind = "storeAll"
    <3>1. \A o \in DOMAIN vers[m] : vers[m][o] \in Int /\ vers[m][o] <= k /\ records[o][vers[m][o]] # <<>>
      BY <1>3, VersionsElim DEF Ready, StartupInv, TypeInv, TypeOK, Tids
    <3> HIDE DEF next, nodes, written
    <3> QED
      BY <1>2, <1>6, <2>2, <3>1
  <2> QED
    BY <2>1, <2>2
<1>9. /\ job' = [job EXCEPT ![m].t = k + 1, ![m].env = env, ![m].todo = written, ![m].vers = next]
      /\ pc' = [pc EXCEPT ![m] = IF options.wal THEN "prepare" ELSE "objects"]
      /\ UNCHANGED <<diskVars, lock, memVars, history>>
  BY <1>4 DEF CommitEnvelope, Goto
<1>9a. nodes = DOMAIN env
  OBVIOUS
<1> HIDE DEF env, nodes, written, next
<1>10. /\ job'[m].kind = job[m].kind /\ job'[m].t = k + 1 /\ job'[m].env = env
       /\ job'[m].todo = written /\ job'[m].vers = next /\ OnlyMoves(m)
       /\ pc'[m] = IF options.wal THEN "prepare" ELSE "objects"
  <2>1. job \in [Managers -> Jobs] /\ pc \in [Managers -> Steps] /\ job[m] \in Jobs
    BY DEF StartupInv, TypeInv, TypeOK
  <2> QED
    BY <1>9, <2>1 DEF OnlyMoves, Jobs
<1>11. FilesInv(k)'
  BY <1>1, <1>9, FilesStay
<1>12. Ready(m, k)'
  BY <1>2, <1>3, <1>9, StaysReady DEF memVars, AfterRecord
<1>13. WrittenInv(m)'
  <2>1. DOMAIN job'[m].env # {} /\ job'[m].kind \notin {"none", "start"}
    BY <1>3, <1>5, <1>9a, <1>10 DEF DirectOps, TransactionOps
  <2>2. \A o \in DOMAIN job'[m].env \ job'[m].todo : job'[m].vers[o] # job'[m].t
    BY <1>7, <1>9a, <1>10
  <2>3. \A o \in DOMAIN job'[m].env :
          \/ job'[m].vers[o] = job'[m].t
          \/ /\ job'[m].kind = "storeAll"
             /\ job'[m].vers[o] < job'[m].t
             /\ records[o][job'[m].vers[o]] # <<>>
    BY <1>8, <1>9a, <1>10
  <2>4. records' = records /\ options' = options
    BY <1>9 DEF diskVars
  <2>5. pc'[m] \in {"prepare", "objects"} /\ (pc'[m] = "prepare" => options.wal)
    BY <1>10
  <2> QED
    BY <2>1, <2>2, <2>3, <2>4, <2>5 DEF WrittenInv
<1>14. LoadInv(m, k)' /\ RecoverInv(m, k)'
  BY <1>3, <1>10 DEF LoadInv, RecoverInv, Loading, DirectOps, TransactionOps
<1>15. Unborn(m)'
  BY <1>9, <1>10 DEF Unborn, Committing, Writes, Fences, diskVars
<1>16. UnbornInv(m, k)' /\ DurableInv(m, k)' /\ ReadyInv(m, k)'
  BY <1>9, <1>10, <1>12, <1>15 DEF UnbornInv, DurableInv, ReadyInv, AfterRecord, diskVars
<1>17. Active(m)' /\ UNCHANGED <<held, lock>>
  BY <1>9, <1>10 DEF Active, memVars
<1> QED
  BY <1>2, <1>10, <1>11, <1>13, <1>14, <1>16, <1>17, ActiveStep DEF JobInv


-----------------------------------------------------------------------------
(* Steps of a commit *)

\* What holds of the manager that is committing.
LEMMA CommitFacts ==
    ASSUME StartupInv, NEW m \in Managers, pc[m] \in Committing
    PROVE  /\ Active(m) /\ held[m] /\ lock = m
           /\ pc[m] \in Steps
           /\ job \in [Managers -> Jobs] /\ pc \in [Managers -> Steps] /\ job[m] \in Jobs
           /\ job[m].t \in Tids /\ job[m].env \in Envelopes /\ job[m].env # NoEnvelope
           /\ DOMAIN job[m].vers = DOMAIN job[m].env /\ job[m].todo \subseteq DOMAIN job[m].env
           /\ job[m].kind \in DirectOps \cup TransactionOps \cup {"recover", "repair"}
           /\ DOMAIN job[m].env # {}
<1>1. PICK k \in 0..MaxTid : FilesInv(k) /\ \A n \in Managers : Active(n) => JobInv(n, k)
  BY DEF StartupInv
<1>2. Active(m)
  BY DEF Active, Committing, Writes, Fences
<1>3. held[m] /\ lock = m
  BY <1>2 DEF StartupInv, LockInv
<1>4. /\ job \in [Managers -> Jobs] /\ pc \in [Managers -> Steps] /\ job[m] \in Jobs
      /\ job[m].t \in Tids /\ DOMAIN job[m].vers = DOMAIN job[m].env
      /\ job[m].todo \subseteq DOMAIN job[m].env
  BY DEF StartupInv, TypeInv, TypeOK, JobShape
<1>5. DOMAIN job[m].env # {} /\ job[m].kind \notin {"none", "start"}
  BY <1>1, <1>2 DEF JobInv, WrittenInv
<1>6. job[m].env \in Envelopes /\ job[m].kind \in DirectOps \cup TransactionOps \cup {"recover", "repair"}
  BY <1>4, <1>5 DEF Jobs, StartOps
<1>7. job[m].env # NoEnvelope
  BY <1>5, EmptyTypes
<1> QED
  BY <1>2, <1>3, <1>4, <1>5, <1>6, <1>7

\* A step within a commit.
LEMMA CommitStep ==
    ASSUME StartupInv, TypeInv', NEW m \in Managers, pc[m] \in Committing,
           OnlyMoves(m), pc'[m] \in Committing, UNCHANGED <<held, lock>>,
           NEW k \in 0..MaxTid, FilesInv(k)',
           WrittenInv(m)', RecoverInv(m, k)', UnbornInv(m, k)', DurableInv(m, k)', ReadyInv(m, k)'
    PROVE  StartupInv'
<1>1. Active(m) /\ Active(m)'
  BY DEF Active, Committing, Writes, Fences
<1>2. LoadInv(m, k)'
  BY DEF LoadInv, Loading, Committing, Writes, Fences
<1> QED
  BY <1>1, <1>2, ActiveStep DEF JobInv

\* A fence passes.
LEMMA AssertValidStarts ==
    ASSUME StartupInv, TypeInv', NEW m \in Managers, AssertValid(m)
    PROVE  StartupInv'
<1>1. PICK k \in 0..MaxTid : FilesInv(k) /\ \A n \in Managers : Active(n) => JobInv(n, k)
  BY DEF StartupInv
<1>2. pc[m] \in Fences /\ pc[m] \in Committing
  BY DEF AssertValid, Committing
<1>3. Active(m) /\ pc \in [Managers -> Steps]
  BY <1>2, CommitFacts
<1>4. JobInv(m, k)
  BY <1>1, <1>3
<1>5. /\ pc' = [pc EXCEPT ![m] = AfterFence(m)]
      /\ UNCHANGED <<diskVars, lock, memVars, job, history>>
  BY DEF AssertValid, Goto
<1>6. pc'[m] = AfterFence(m)
  BY <1>3, <1>5
<1>7. \/ pc[m] = "fenceCommit" /\ options.wal /\ pc'[m] = "marker"
      \/ pc[m] = "fenceCommit" /\ ~options.wal /\ pc'[m] = "fencePublish"
      \/ pc[m] = "fencePublish" /\ pc'[m] = "record"
      \/ pc[m] = "fenceIndex" /\ pc'[m] = "index"
      \/ pc[m] = "fenceCurrent" /\ pc'[m] = "current"
  BY <1>2, <1>6 DEF AfterFence, Fences
<1>8. OnlyMoves(m)
  BY <1>3, <1>5 DEF OnlyMoves
<1>9. FilesInv(k)'
  BY <1>1, <1>5, FilesStay
<1>10. pc'[m] \in Committing
  BY <1>7 DEF Committing, Writes, Fences
<1>11. UNCHANGED <<options, records, prepares, txns, snapshots, manifest, history, job, tid, vers, held, lock>>
  BY <1>5 DEF diskVars, memVars
<1>12. Unborn(m)' <=> Unborn(m)
  BY <1>7, <1>11 DEF Unborn, Committing, Writes, Fences
<1>13. pc[m] \in AfterRecord <=> pc'[m] \in AfterRecord
  BY <1>7 DEF AfterRecord
<1>14. WrittenInv(m)'
  BY <1>2, <1>4, <1>7, <1>11 DEF JobInv, WrittenInv
<1>15. RecoverInv(m, k)'
  BY <1>2, <1>4, <1>7, <1>11, <1>13 DEF JobInv, RecoverInv
<1>16. UnbornInv(m, k)'
  BY <1>2, <1>4, <1>7, <1>11, <1>12, <1>13 DEF JobInv, UnbornInv
<1>17. DurableInv(m, k)'
  BY <1>2, <1>4, <1>7, <1>11, <1>12, <1>13 DEF JobInv, DurableInv, Shows
<1>18. ReadyInv(m, k)'
  BY <1>2, <1>4, <1>7, <1>10, <1>11, <1>12, <1>13 DEF JobInv, ReadyInv, Ready
<1> QED
  BY <1>1, <1>2, <1>8, <1>9, <1>10, <1>11, <1>14, <1>15, <1>16, <1>17, <1>18, CommitStep

\* The prepare file of the next commit.
LEMMA WriteWalPrepareStarts ==
    ASSUME StartupInv, TypeInv', NEW m \in Managers, WriteWalPrepare(m)
    PROVE  StartupInv'
<1>1. PICK k \in 0..MaxTid : FilesInv(k) /\ \A n \in Managers : Active(n) => JobInv(n, k)
  BY DEF StartupInv
<1>2. pc[m] = "prepare" /\ pc[m] \in Committing /\ k \in Int /\ MaxTid \in Nat
  BY StoreAssumptions DEF WriteWalPrepare, Committing, Writes
<1>3. /\ Active(m) /\ pc \in [Managers -> Steps] /\ job[m].t \in Tids
      /\ job[m].kind \in DirectOps \cup TransactionOps \cup {"recover", "repair"}
  BY <1>2, CommitFacts
<1>4. JobInv(m, k)
  BY <1>1, <1>3
<1>5. options.wal /\ job[m].kind \notin {"recover", "repair"}
  BY <1>2, <1>4 DEF JobInv, WrittenInv, RecoverInv
<1>6. job[m].kind \notin StartOps /\ Unborn(m)
  BY <1>2, <1>3, <1>5 DEF StartOps, Unborn, DirectOps, TransactionOps
<1>7. job[m].t = k + 1 /\ Ready(m, k)
  BY <1>2, <1>4, <1>6 DEF JobInv, UnbornInv, ReadyInv
<1>8. /\ prepares' = [prepares EXCEPT ![k + 1] = job[m].env]
      /\ pc' = [pc EXCEPT ![m] = "objects"] /\ pc'[m] = "objects" /\ OnlyMoves(m)
      /\ UNCHANGED <<options, records, markers, txns, snapshots, current, index, manifest, lock, held, tid,
                     vers, job, history>>
  BY <1>3, <1>7 DEF WriteWalPrepare, Goto, memVars, OnlyMoves
<1>9. prepares'[k + 1] = job[m].env /\ \A t \in 1..k : prepares'[t] = prepares[t]
  BY <1>2, <1>3, <1>7, <1>8 DEF StartupInv, TypeInv, TypeOK, Tids
<1>10. FilesInv(k)'
  <2>1. CommitsInv(k)'
    BY <1>1, <1>8, <1>9 DEF FilesInv, CommitsInv, TopIs
  <2>2. PublishedInv(k)'
    BY <1>1, <1>8 DEF FilesInv, PublishedInv
  <2>3. ManifestInv(k)'
    BY <1>1, <1>8 DEF FilesInv, ManifestInv, Shows
  <2> QED
    BY <2>1, <2>2, <2>3 DEF FilesInv
<1>11. WrittenInv(m)'
  BY <1>2, <1>4, <1>8 DEF JobInv, WrittenInv
<1>12. RecoverInv(m, k)'
  BY <1>5, <1>8 DEF RecoverInv
<1>13. Unborn(m)' /\ pc'[m] \in Committing
  BY <1>8 DEF Unborn, Committing, Writes, Fences
<1>14. UnbornInv(m, k)' /\ DurableInv(m, k)'
  BY <1>7, <1>8, <1>9, <1>13 DEF UnbornInv, DurableInv, AfterRecord
<1>15. ReadyInv(m, k)'
  BY <1>2, <1>7, <1>8 DEF ReadyInv, Ready, AfterRecord
<1> QED
  BY <1>1, <1>2, <1>8, <1>10, <1>11, <1>12, <1>13, <1>14, <1>15, CommitStep

\* An object record is written under a version that the manifest does not select,
\* or says again what it says.
LEMMA RecordsIsolated ==
    ASSUME StartupInv, NEW m \in Managers, pc[m] = "objects", NEW k \in 0..MaxTid,
           FilesInv(k), JobInv(m, k), NEW o \in job[m].todo,
           records' = [records EXCEPT ![o][job[m].t] = <<job[m].env[o]>>]
    PROVE  /\ \A p \in DOMAIN manifest.vers :
                records'[p][manifest.vers[p]] = records[p][manifest.vers[p]]
           /\ \A p \in Objects, t \in Tids :
                /\ p = o /\ t = job[m].t => records'[p][t] = <<job[m].env[o]>>
                /\ ~(p = o /\ t = job[m].t) => records'[p][t] = records[p][t]
                /\ records[p][t] # <<>> => records'[p][t] # <<>>
<1>1. /\ pc[m] \in Committing /\ k \in Int /\ manifest.tid \in 0..MaxTid
      /\ manifest.vers \in Versions /\ records \in [Objects -> [Tids -> {<<>>} \cup {<<c>> : c \in Contents}]]
  BY DEF Committing, Writes, StartupInv, TypeInv, TypeOK
<1>2. /\ job[m].t \in Tids /\ job[m].todo \subseteq DOMAIN job[m].env /\ job[m].env \in Envelopes
      /\ job[m].kind \in DirectOps \cup TransactionOps \cup {"recover", "repair"}
  BY <1>1, CommitFacts
<1>3. o \in Objects /\ o \in DOMAIN job[m].env
  BY <1>2, EnvelopeElim
<1>4. \A p \in Objects, t \in Tids :
          records'[p][t] = IF p = o /\ t = job[m].t THEN <<job[m].env[o]>> ELSE records[p][t]
  <2> DEFINE x == <<job[m].env[o]>>
             d == job[m].t
             R == {<<>>} \cup {<<c>> : c \in Contents}
  <2>1. records' = [records EXCEPT ![o][d] = x] /\ d \in Tids /\ records \in [Objects -> [Tids -> R]]
    BY <1>1, <1>2
  <2> HIDE DEF x, d, R
  <2>2. \A p \in Objects, t \in Tids : records'[p][t] = IF p = o /\ t = d THEN x ELSE records[p][t]
    BY <1>3, <2>1
  <2> QED
    BY <2>2 DEF x, d
<1>5. DOMAIN manifest.vers \subseteq Objects /\ \A p \in DOMAIN manifest.vers : manifest.vers[p] \in Tids
  BY <1>1, VersionsElim
<1>6. \A p \in DOMAIN manifest.vers : manifest.tid > 0 /\ manifest.vers[p] <= manifest.tid
  BY <1>1, EmptyTypes DEF FilesInv, ManifestInv, NoManifest
<1>7. ASSUME o \in DOMAIN manifest.vers, manifest.vers[o] = job[m].t
      PROVE  records[o][manifest.vers[o]] = <<job[m].env[o]>>
  <2>1. CASE job[m].kind \notin {"recover", "repair"}
    <3>1. job[m].t = k + 1
      BY <1>1, <1>2, <2>1 DEF JobInv, UnbornInv, Unborn, StartOps, DirectOps, TransactionOps, Committing,
         Writes, Fences
    <3>2. manifest.tid <= k
      BY <1>1 DEF FilesInv, ManifestInv
    <3> QED
      BY <1>1, <1>6, <1>7, <3>1, <3>2
  <2>2. CASE job[m].kind = "recover"
    <3>1. job[m].t = k /\ manifest.tid = k - 1
      BY <1>1, <2>2 DEF JobInv, RecoverInv
    <3> QED
      BY <1>1, <1>6, <1>7, <3>1
  <2>3. CASE job[m].kind = "repair"
    <3>1. job[m].t = k /\ job[m].env = history[k].graph
      BY <1>1, <2>3 DEF JobInv, RecoverInv
    <3>2. manifest.tid = k
      BY <1>1, <1>6, <1>7, <3>1 DEF FilesInv, ManifestInv
    <3> QED
      BY <1>6, <1>7, <3>1, <3>2 DEF FilesInv, ManifestInv
  <2> QED
    BY <2>1, <2>2, <2>3
<1>8. \A p \in DOMAIN manifest.vers : records'[p][manifest.vers[p]] = records[p][manifest.vers[p]]
  BY <1>4, <1>5, <1>7
<1> QED
  BY <1>4, <1>8, OneRecord

\* Files of other kinds depend on the records through the manifest only.
LEMMA RecordsFiles ==
    ASSUME NEW k, FilesInv(k),
           UNCHANGED <<options, prepares, markers, txns, snapshots, current, manifest, history>>,
           \A p \in DOMAIN manifest.vers : records'[p][manifest.vers[p]] = records[p][manifest.vers[p]]
    PROVE  FilesInv(k)'
<1>1. CommitsInv(k)'
  BY DEF FilesInv, CommitsInv, TopIs
<1>2. PublishedInv(k)'
  BY DEF FilesInv, PublishedInv
<1>3. ManifestInv(k)'
  BY DEF FilesInv, ManifestInv, Shows
<1> QED
  BY <1>1, <1>2, <1>3 DEF FilesInv

\* The records of a commit, one by one.
LEMMA WriteObjectRecordsStarts ==
    ASSUME StartupInv, TypeInv', NEW m \in Managers, WriteObjectRecords(m)
    PROVE  StartupInv'
<1>1. PICK k \in 0..MaxTid : FilesInv(k) /\ \A n \in Managers : Active(n) => JobInv(n, k)
  BY DEF StartupInv
<1>2. pc[m] = "objects" /\ pc[m] \in Committing /\ k \in Int /\ MaxTid \in Nat
  BY StoreAssumptions DEF WriteObjectRecords, Committing, Writes
<1>3. /\ Active(m) /\ pc \in [Managers -> Steps] /\ job[m].t \in Tids
      /\ job \in [Managers -> Jobs] /\ job[m] \in Jobs /\ job[m].env \in Envelopes
      /\ DOMAIN job[m].vers = DOMAIN job[m].env /\ job[m].vers \in Versions
      /\ job[m].kind \in DirectOps \cup TransactionOps \cup {"recover", "repair"}
  BY <1>2, CommitFacts DEF Jobs
<1>4. JobInv(m, k)
  BY <1>1, <1>3
<1>5. PICK o \in job[m].todo :
         /\ records' = [records EXCEPT ![o][job[m].t] = <<job[m].env[o]>>]
         /\ job' = [job EXCEPT ![m].todo = @ \ {o}]
         /\ Goto(m, IF LastRecord(m, o) THEN AfterObjects(m) ELSE "objects")
  BY DEF WriteObjectRecords
<1>6. UNCHANGED <<options, prepares, markers, txns, snapshots, current, index, manifest, lock, held, tid,
                  vers, history>>
  BY DEF WriteObjectRecords, memVars
<1>7. /\ \A p \in DOMAIN manifest.vers : records'[p][manifest.vers[p]] = records[p][manifest.vers[p]]
      /\ \A p \in Objects, t \in Tids :
           /\ p = o /\ t = job[m].t => records'[p][t] = <<job[m].env[o]>>
           /\ ~(p = o /\ t = job[m].t) => records'[p][t] = records[p][t]
           /\ records[p][t] # <<>> => records'[p][t] # <<>>
  BY <1>1, <1>2, <1>4, <1>5, RecordsIsolated
<1>8. /\ job'[m].kind = job[m].kind /\ job'[m].t = job[m].t /\ job'[m].env = job[m].env
      /\ job'[m].vers = job[m].vers /\ job'[m].todo = job[m].todo \ {o} /\ OnlyMoves(m)
      /\ pc'[m] = IF LastRecord(m, o) THEN AfterObjects(m) ELSE "objects"
  BY <1>3, <1>5 DEF Goto, OnlyMoves, Jobs
<1>9. /\ pc'[m] # "objects" => job[m].todo = {o}
      /\ pc'[m] \in {"objects", "manifest", "snapshot", "fencePublish", "fenceCommit"}
      /\ pc'[m] = "manifest" => job[m].kind = "repair"
      /\ pc'[m] = "fencePublish" => job[m].kind = "recover"
      /\ job[m].kind = "repair" => pc'[m] \in {"objects", "manifest"}
      /\ job[m].kind = "recover" => pc'[m] \in {"objects", "snapshot", "fencePublish"}
      /\ options.snapshots => pc'[m] # "fenceCommit"
  BY <1>8 DEF LastRecord, AfterObjects
<1>10. FilesInv(k)'
  BY <1>1, <1>6, <1>7, RecordsFiles
<1>11. DOMAIN job[m].env \subseteq Objects /\ \A p \in DOMAIN job[m].env : job[m].vers[p] \in Tids
  BY <1>3, EnvelopeElim, VersionsElim
<1>12. WrittenInv(m)'
  <2>1. WrittenInv(m)
    BY <1>4 DEF JobInv
  <2>2. \A p \in DOMAIN job'[m].env \ job'[m].todo :
          job'[m].vers[p] = job'[m].t => records'[p][job'[m].t] = <<job'[m].env[p]>>
    BY <1>2, <1>3, <1>7, <1>8, <1>11, <2>1 DEF WrittenInv
  <2>3. \A p \in DOMAIN job'[m].env :
         \/ job'[m].vers[p] = job'[m].t
         \/ /\ job'[m].kind = "storeAll"
            /\ job'[m].vers[p] < job'[m].t
            /\ records'[p][job'[m].vers[p]] # <<>>
    BY <1>2, <1>7, <1>8, <1>11, <2>1 DEF WrittenInv
  <2> QED
    BY <1>2, <1>6, <1>8, <1>9, <2>1, <2>2, <2>3 DEF WrittenInv
<1>13. pc'[m] \in Committing /\ pc'[m] \notin {"commitState", "prepare", "marker", "index"}
  BY <1>9 DEF Committing, Writes, Fences
<1>14. RecoverInv(m, k)'
  <2>1. pc'[m] = "manifest" \/ pc'[m] \notin AfterRecord
    BY <1>9 DEF AfterRecord
  <2> QED
    BY <1>2, <1>4, <1>6, <1>8, <1>9, <1>13, <2>1 DEF JobInv, RecoverInv
<1>15. job[m].kind \notin StartOps => Unborn(m) /\ Unborn(m)' /\ pc'[m] \notin AfterRecord
  BY <1>2, <1>6, <1>9 DEF StartOps, Unborn, AfterRecord, Committing, Writes, Fences
<1>16. UnbornInv(m, k)'
  BY <1>2, <1>4, <1>6, <1>8, <1>9, <1>15 DEF JobInv, UnbornInv, StartOps
<1>17. DurableInv(m, k)'
  BY <1>8, <1>15 DEF DurableInv
<1>18. ReadyInv(m, k)'
  <2>1. SUFFICES ASSUME job[m].kind \notin StartOps PROVE Ready(m, k)'
    BY <1>8 DEF ReadyInv
  <2>2. Ready(m, k) /\ pc[m] \notin AfterRecord
    BY <1>2, <1>4, <1>15, <2>1 DEF JobInv, ReadyInv, AfterRecord
  <2>3. \A p \in DOMAIN vers[m] : p \in Objects /\ vers[m][p] \in Tids
    BY VersionsElim DEF StartupInv, TypeInv, TypeOK
  <2>4. \A p \in DOMAIN vers[m] : vers[m][p] <= k /\ records'[p][vers[m][p]] # <<>>
    BY <1>7, <2>2, <2>3 DEF Ready
  <2>5. \A t \in Tids : t = k + 1 /\ k > 0 /\ txns[t] # NoEnvelope =>
            \A p \in DOMAIN history[k].graph : records'[p][k] # <<>>
    <3>1. k > 0 => k \in Tids
      BY <1>2 DEF Tids
    <3>2. k > 0 => DOMAIN history[k].graph \subseteq Objects
      BY <3>1, EnvelopeElim DEF StartupInv, TypeInv, TypeOK
    <3> QED
      BY <1>7, <2>2, <3>1, <3>2 DEF Ready
  <2> QED
    BY <1>6, <2>2, <2>4, <2>5 DEF Ready
<1> QED
  BY <1>1, <1>2, <1>6, <1>8, <1>10, <1>12, <1>13, <1>14, <1>16, <1>17, <1>18, CommitStep

\* The snapshot of the next commit, or again of the last one.
LEMMA WriteSnapshotStarts ==
    ASSUME StartupInv, TypeInv', NEW m \in Managers, WriteSnapshot(m)
    PROVE  StartupInv'
<1>1. PICK k \in 0..MaxTid : FilesInv(k) /\ \A n \in Managers : Active(n) => JobInv(n, k)
  BY DEF StartupInv
<1>2. pc[m] = "snapshot" /\ pc[m] \in Committing /\ k \in Int /\ MaxTid \in Nat
  BY StoreAssumptions DEF WriteSnapshot, Committing, Writes
<1>3. /\ Active(m) /\ pc \in [Managers -> Steps] /\ job[m].t \in Tids
      /\ job[m].kind \in DirectOps \cup TransactionOps \cup {"recover", "repair"}
  BY <1>2, CommitFacts
<1>4. JobInv(m, k) /\ job[m].kind # "repair"
  BY <1>1, <1>2, <1>3 DEF JobInv, RecoverInv
<1>5. /\ snapshots' = [snapshots EXCEPT ![job[m].t] = job[m].env] /\ OnlyMoves(m)
      /\ pc'[m] = IF job[m].kind = "recover" THEN "fencePublish" ELSE "fenceCommit"
      /\ UNCHANGED <<options, records, prepares, markers, txns, current, index, manifest, lock, held, tid,
                     vers, job, history>>
  BY <1>3 DEF WriteSnapshot, Goto, memVars, OnlyMoves
<1>6. job[m].kind \notin StartOps => Unborn(m) /\ Unborn(m)' /\ job[m].t = k + 1 /\ Ready(m, k)
  BY <1>2, <1>4, <1>5 DEF StartOps, Unborn, Committing, Writes, Fences, JobInv, UnbornInv, ReadyInv
<1>7. job[m].kind = "recover" => job[m].t = k /\ job[m].env = history[k].graph
  BY <1>2, <1>4 DEF JobInv, RecoverInv
<1>8. \A t \in Tids : snapshots'[t] = IF t = job[m].t THEN job[m].env ELSE snapshots[t]
  BY <1>3, <1>5 DEF StartupInv, TypeInv, TypeOK
<1>9. FilesInv(k)'
  <2>1. options.snapshots => \A t \in 1..k : snapshots'[t] = history[t].graph
    <3>1. \A t \in 1..k : t \in Tids /\ t # k + 1
      BY <1>2 DEF Tids
    <3>2. job[m].kind \in StartOps => job[m].kind = "recover"
      BY <1>3, <1>4 DEF StartOps, DirectOps, TransactionOps
    <3> QED
      BY <1>1, <1>6, <1>7, <1>8, <3>1, <3>2 DEF FilesInv, CommitsInv
  <2>2. CommitsInv(k)'
    BY <1>1, <1>5, <2>1 DEF FilesInv, CommitsInv, TopIs
  <2>3. PublishedInv(k)'
    BY <1>1, <1>5 DEF FilesInv, PublishedInv
  <2>4. ManifestInv(k)'
    BY <1>1, <1>5 DEF FilesInv, ManifestInv, Shows
  <2> QED
    BY <2>2, <2>3, <2>4 DEF FilesInv
<1>10. pc'[m] \in {"fencePublish", "fenceCommit"} /\ pc'[m] \in Committing
  BY <1>5 DEF Committing, Fences
<1>11. WrittenInv(m)'
  BY <1>2, <1>4, <1>5, <1>10 DEF JobInv, WrittenInv
<1>12. RecoverInv(m, k)'
  BY <1>2, <1>4, <1>5, <1>10 DEF JobInv, RecoverInv, AfterRecord
<1>13. UnbornInv(m, k)' /\ DurableInv(m, k)'
  <2>1. job[m].kind \notin StartOps => snapshots'[k + 1] = job[m].env
    BY <1>3, <1>6, <1>8
  <2> QED
    BY <1>2, <1>4, <1>5, <1>6, <1>10, <2>1 DEF JobInv, UnbornInv, DurableInv, AfterRecord
<1>14. ReadyInv(m, k)'
  BY <1>2, <1>5, <1>6 DEF ReadyInv, Ready, AfterRecord
<1> QED
  BY <1>1, <1>2, <1>5, <1>9, <1>10, <1>11, <1>12, <1>13, <1>14, CommitStep

\* The write that makes commit k + 1 durable adds it to the history, and what the
\* versions of the commit select is what it is recorded to store.
LEMMA HistoryGrows ==
    ASSUME StartupInv, NEW m \in Managers, pc[m] = DurableStep, job[m].kind \notin StartOps,
           pc[m] \in Committing, RecordHistory(m),
           NEW k \in 0..MaxTid, FilesInv(k), JobInv(m, k), job[m].t = k + 1
    PROVE  /\ k + 1 \in Tids /\ k + 1 \in 0..MaxTid
           /\ \A t \in Tids : t # k + 1 => history'[t] = history[t]
           /\ \A t \in Tids : history'[t] # NoCommit <=> t <= k + 1
           /\ history'[k + 1].graph = job[m].env
           /\ DOMAIN history'[k + 1].stored = DOMAIN job[m].env
           /\ DOMAIN job[m].vers = DOMAIN history'[k + 1].stored
           /\ \A o \in DOMAIN job[m].vers :
                 records[o][job[m].vers[o]] = <<history'[k + 1].stored[o]>>
           /\ \A o \in DOMAIN job[m].vers : job[m].vers[o] <= k + 1 /\ job[m].vers[o] \in Tids
<1> DEFINE older(o) == records[o][job[m].vers[o]]
           stored == [o \in DOMAIN job[m].env |->
              IF job[m].kind # "storeAll" \/ job[m].vers[o] = job[m].t \/ older(o) = <<>>
              THEN job[m].env[o] ELSE older(o)[1]]
<1>1. /\ job[m].t \in Tids /\ job[m].env # NoEnvelope /\ job[m].env \in Envelopes
      /\ DOMAIN job[m].vers = DOMAIN job[m].env /\ k \in Int /\ MaxTid \in Nat /\ job[m].vers \in Versions
  BY StoreAssumptions, CommitFacts DEF Jobs
<1>2. k + 1 \in Tids /\ k + 1 \in 0..MaxTid
  BY <1>1 DEF Tids
<1>3. history' = [history EXCEPT ![k + 1] = [graph |-> job[m].env, stored |-> stored]]
  BY DEF RecordHistory
<1>4. history \in [Tids -> [graph : Envelopes, stored : Envelopes]]
  BY DEF StartupInv, TypeInv, TypeOK
<1> HIDE DEF stored
<1>5. /\ history'[k + 1] = [graph |-> job[m].env, stored |-> stored]
      /\ \A t \in Tids : t # k + 1 => history'[t] = history[t]
  BY <1>2, <1>3, <1>4
<1>6. history'[k + 1] # NoCommit
  BY <1>1, <1>5 DEF NoCommit
<1>7. \A t \in Tids : history'[t] # NoCommit <=> t <= k + 1
  BY <1>1, <1>2, <1>5, <1>6 DEF FilesInv, CommitsInv, TopIs, Tids
<1>8. DOMAIN stored = DOMAIN job[m].env
  BY DEF stored
<1>9. WrittenInv(m) /\ job[m].todo = {}
  BY DEF JobInv, WrittenInv, DurableStep
<1>10. ASSUME NEW o \in DOMAIN job[m].vers
       PROVE  /\ records[o][job[m].vers[o]] = <<stored[o]>>
              /\ job[m].vers[o] <= k + 1 /\ job[m].vers[o] \in Tids
  <2>1. o \in Objects /\ job[m].vers[o] \in Tids /\ o \in DOMAIN job[m].env
    BY <1>1, VersionsElim
  <2>2. CASE job[m].vers[o] = job[m].t
    <3>1. records[o][job[m].vers[o]] = <<job[m].env[o]>>
      BY <1>9, <2>1, <2>2 DEF WrittenInv
    <3>2. stored[o] = job[m].env[o]
      BY <2>1, <2>2 DEF stored
    <3> QED
      BY <1>1, <2>1, <2>2, <3>1, <3>2
  <2>3. CASE job[m].vers[o] # job[m].t
    <3>1. job[m].kind = "storeAll" /\ job[m].vers[o] < k + 1 /\ older(o) # <<>>
      BY <1>9, <2>1, <2>3 DEF WrittenInv
    <3>2. older(o) \in {<<>>} \cup {<<c>> : c \in Contents}
      BY <2>1 DEF StartupInv, TypeInv, TypeOK
    <3>3. older(o) = <<older(o)[1]>>
      BY <3>1, <3>2
    <3>4. stored[o] = older(o)[1]
      BY <2>1, <2>3, <3>1 DEF stored
    <3> QED
      BY <1>1, <2>1, <3>1, <3>3, <3>4 DEF Tids
  <2> QED
    BY <2>2, <2>3
<1> QED
  BY <1>1, <1>2, <1>5, <1>7, <1>8, <1>10

\* The files of a commit that has become durable.
LEMMA CommitsGrow ==
    ASSUME StartupInv, NEW m \in Managers, NEW k \in 0..MaxTid, CommitsInv(k),
           pc[m] \in Committing, WrittenInv(m), job[m].t = k + 1, k + 1 \in Tids,
           \A t \in Tids : t # k + 1 => history'[t] = history[t],
           \A t \in Tids : history'[t] # NoCommit <=> t <= k + 1,
           history'[k + 1].graph = job[m].env,
           DOMAIN history'[k + 1].stored = DOMAIN job[m].env,
           UNCHANGED <<options, prepares, snapshots>>,
           markers' = IF options.wal THEN markers \cup {k + 1} ELSE markers,
           options.wal => prepares[k + 1] = job[m].env,
           options.snapshots => snapshots[k + 1] = job[m].env
    PROVE  CommitsInv(k + 1)'
<1>1. k \in Int /\ MaxTid \in Nat
  BY StoreAssumptions
<1>2. \A t \in 1..(k + 1) : t \in Tids /\ (t = k + 1 \/ t \in 1..k)
  BY <1>1 DEF Tids
<1>3. \A t \in 1..k : t \in Tids /\ t # k + 1
  BY <1>1, <1>2 DEF Tids
<1>4. \A t \in 1..(k + 1) : /\ DOMAIN history'[t].graph # {}
                            /\ DOMAIN history'[t].stored = DOMAIN history'[t].graph
  BY <1>2, <1>3 DEF CommitsInv, WrittenInv
<1>5. options.wal => \A t \in 1..(k + 1) : prepares[t] = history'[t].graph
  BY <1>2, <1>3 DEF CommitsInv
<1>6. options.snapshots => \A t \in 1..(k + 1) : snapshots[t] = history'[t].graph
  BY <1>2, <1>3 DEF CommitsInv
<1>7. markers' = IF options.wal THEN 1..(k + 1) ELSE {}
  <2>1. \A t \in 1..k : t \in 1..(k + 1)
    BY <1>1
  <2>2. k + 1 \in 1..(k + 1)
    BY <1>1
  <2>3. (1..k) \cup {k + 1} = 1..(k + 1)
    BY <1>2, <2>1, <2>2
  <2>4. markers = IF options.wal THEN 1..k ELSE {}
    BY DEF CommitsInv
  <2> QED
    BY <2>3, <2>4
<1> QED
  BY <1>4, <1>5, <1>6, <1>7 DEF CommitsInv, TopIs

\* The manifest of the store does not change with the history of a later commit.
LEMMA ManifestFallsBehind ==
    ASSUME TypeInv, NEW k \in 0..MaxTid, ManifestInv(k), manifest.tid = k, k + 1 \in 0..MaxTid,
           UNCHANGED <<records, manifest>>,
           \A t \in Tids : t # k + 1 => history'[t] = history[t]
    PROVE  ManifestInv(k + 1)'
<1>1. k \in Int /\ (k > 0 => k \in Tids /\ k # k + 1)
  BY StoreAssumptions DEF Tids
<1>2. k > 0 => history'[k] = history[k]
  BY <1>1
<1>3. manifest'.tid \in {(k + 1) - 1, k + 1}
  BY <1>1
<1> QED
  BY <1>1, <1>2, <1>3 DEF ManifestInv, Shows

\* With a WAL the commit marker is what makes a commit durable.
LEMMA WriteWalCommitStarts ==
    ASSUME StartupInv, TypeInv', NEW m \in Managers, WriteWalCommit(m)
    PROVE  StartupInv'
<1>1. PICK k \in 0..MaxTid : FilesInv(k) /\ \A n \in Managers : Active(n) => JobInv(n, k)
  BY DEF StartupInv
<1>2. pc[m] = "marker" /\ pc[m] \in Committing /\ k \in Int /\ MaxTid \in Nat
  BY StoreAssumptions DEF WriteWalCommit, Committing, Writes
<1>3. /\ Active(m) /\ pc \in [Managers -> Steps] /\ job[m].t \in Tids
      /\ job[m].kind \in DirectOps \cup TransactionOps \cup {"recover", "repair"}
      /\ DOMAIN job[m].vers = DOMAIN job[m].env
  BY <1>2, CommitFacts
<1>4. JobInv(m, k)
  BY <1>1, <1>3
<1>5. options.wal /\ job[m].kind \notin {"recover", "repair"}
  BY <1>2, <1>4 DEF JobInv, WrittenInv, RecoverInv
<1>6. job[m].kind \notin StartOps /\ Unborn(m)
  BY <1>2, <1>3, <1>5 DEF StartOps, Unborn, DirectOps, TransactionOps
<1>7. job[m].t = k + 1 /\ Ready(m, k) /\ manifest.tid = k
      /\ prepares[k + 1] = job[m].env /\ (options.snapshots => snapshots[k + 1] = job[m].env)
  BY <1>2, <1>4, <1>5, <1>6 DEF JobInv, UnbornInv, ReadyInv, Ready
<1>8. /\ markers' = markers \cup {k + 1} /\ RecordHistory(m)
      /\ pc'[m] = "fencePublish" /\ OnlyMoves(m)
      /\ UNCHANGED <<options, records, prepares, txns, snapshots, current, index, manifest, lock, held, tid,
                     vers, job>>
  BY <1>3, <1>7 DEF WriteWalCommit, Goto, memVars, OnlyMoves
<1>9. /\ k + 1 \in Tids /\ k + 1 \in 0..MaxTid
      /\ \A t \in Tids : t # k + 1 => history'[t] = history[t]
      /\ \A t \in Tids : history'[t] # NoCommit <=> t <= k + 1
      /\ history'[k + 1].graph = job[m].env
      /\ DOMAIN history'[k + 1].stored = DOMAIN job[m].env
      /\ DOMAIN job[m].vers = DOMAIN history'[k + 1].stored
      /\ \A o \in DOMAIN job[m].vers : records[o][job[m].vers[o]] = <<history'[k + 1].stored[o]>>
  <2>1. pc[m] = DurableStep
    BY <1>2, <1>5 DEF DurableStep
  <2> QED
    BY <1>1, <1>2, <1>4, <1>6, <1>7, <1>8, <2>1, HistoryGrows
<1>10. FilesInv(k + 1)'
  <2>1. CommitsInv(k + 1)'
    BY <1>1, <1>2, <1>4, <1>5, <1>7, <1>8, <1>9, CommitsGrow DEF FilesInv, JobInv
  <2>2. PublishedInv(k + 1)'
    <3>1. PublishedInv(k) /\ current \in 0..MaxTid
      BY <1>1 DEF FilesInv, StartupInv, TypeInv, TypeOK
    <3>2. \A t \in Tids : t < k + 1 => txns[t] # NoEnvelope
      BY <1>2, <1>7, <3>1 DEF PublishedInv, Tids
    <3>3. \A t \in Tids : t > k + 1 => txns[t] = NoEnvelope
      BY <1>2, <3>1 DEF PublishedInv, Tids
    <3>4. manifest.tid # k + 1 /\ current <= k + 1
      BY <1>2, <1>5, <1>7, <3>1 DEF PublishedInv
    <3> QED
      BY <1>2, <1>5, <1>8, <3>2, <3>3, <3>4 DEF PublishedInv, Tids
  <2>3. ManifestInv(k + 1)'
    BY <1>1, <1>7, <1>8, <1>9, ManifestFallsBehind DEF FilesInv, StartupInv
  <2> QED
    BY <2>1, <2>2, <2>3 DEF FilesInv
<1>11. WrittenInv(m)'
  BY <1>2, <1>4, <1>8 DEF JobInv, WrittenInv
<1>12. ~Unborn(m)' /\ pc'[m] \in Committing
  BY <1>5, <1>8 DEF Unborn, Committing, Fences
<1>13. RecoverInv(m, k + 1)' /\ UnbornInv(m, k + 1)' /\ ReadyInv(m, k + 1)'
  BY <1>5, <1>8, <1>12 DEF RecoverInv, UnbornInv, ReadyInv
<1>14. DurableInv(m, k + 1)'
  <2>1. \A t \in Tids : t > k + 1 => txns'[t] = NoEnvelope
    BY <1>1, <1>8 DEF FilesInv, PublishedInv
  <2>2. Shows(job[m].vers, history[k + 1].stored)'
    BY <1>8, <1>9 DEF Shows
  <2>3. manifest'.tid = (k + 1) - 1
    BY <1>2, <1>7, <1>8
  <2> QED
    BY <1>7, <1>8, <1>9, <2>1, <2>2, <2>3 DEF DurableInv, AfterRecord
<1> QED
  BY <1>2, <1>8, <1>9, <1>10, <1>11, <1>12, <1>13, <1>14, CommitStep

\* Without a WAL the name of the current snapshot is.
LEMMA WriteCurrentStarts ==
    ASSUME StartupOnly, StartupInv, TypeInv', NEW m \in Managers, WriteCurrent(m)
    PROVE  StartupInv'
<1>1. PICK k \in 0..MaxTid : FilesInv(k) /\ \A n \in Managers : Active(n) => JobInv(n, k)
  BY DEF StartupInv
<1>2. pc[m] = "current" /\ pc[m] \in Committing /\ k \in Int /\ MaxTid \in Nat
  BY StoreAssumptions DEF WriteCurrent, Committing, Writes
<1>3. /\ Active(m) /\ pc \in [Managers -> Steps] /\ job[m].t \in Tids
      /\ job[m].kind \in DirectOps \cup TransactionOps \cup {"recover", "repair"}
      /\ DOMAIN job[m].vers = DOMAIN job[m].env
  BY <1>2, CommitFacts
<1>4. JobInv(m, k) /\ job[m].kind # "repair" /\ (job[m].kind = "recover" => options.wal)
  BY <1>1, <1>2, <1>3 DEF JobInv, RecoverInv
<1>5. /\ current' = job[m].t /\ RecordHistory(m)
      /\ pc'[m] = "manifest" /\ OnlyMoves(m)
      /\ UNCHANGED <<options, records, prepares, markers, txns, snapshots, index, manifest, lock, held, tid,
                     vers, job>>
  BY <1>3 DEF WriteCurrent, Goto, memVars, OnlyMoves
<1>6. ~Unborn(m)' /\ pc'[m] \in Committing
  BY <1>5 DEF Unborn, Committing, Writes
<1>7. WrittenInv(m)'
  BY <1>2, <1>4, <1>5 DEF JobInv, WrittenInv
<1>8. CASE options.wal
  <2>1. history' = history
    BY <1>2, <1>5, <1>8 DEF RecordHistory, DurableStep
  <2>2. job[m].t = k
    <3>1. job[m].kind \in StartOps => job[m].kind = "recover"
      BY <1>3, <1>4 DEF StartOps, DirectOps, TransactionOps
    <3>2. ~Unborn(m)
      BY <1>2, <1>8 DEF Unborn
    <3> QED
      BY <1>2, <1>4, <3>1, <3>2 DEF JobInv, RecoverInv, DurableInv
  <2>3. FilesInv(k)'
    <3>1. CommitsInv(k)'
      BY <1>1, <1>5, <2>1 DEF FilesInv, CommitsInv, TopIs
    <3>2. PublishedInv(k)'
      BY <1>1, <1>2, <1>5, <1>8, <2>2 DEF FilesInv, PublishedInv
    <3>3. ManifestInv(k)'
      BY <1>1, <1>5, <2>1 DEF FilesInv, ManifestInv, Shows
    <3> QED
      BY <3>1, <3>2, <3>3 DEF FilesInv
  <2>4. RecoverInv(m, k)'
    BY <1>2, <1>4, <1>5, <2>1 DEF JobInv, RecoverInv, AfterRecord
  <2>5. DurableInv(m, k)'
    BY <1>2, <1>4, <1>5, <1>8, <2>1 DEF JobInv, DurableInv, Shows, Unborn, AfterRecord
  <2>6. UnbornInv(m, k)' /\ ReadyInv(m, k)'
    BY <1>6 DEF UnbornInv, ReadyInv
  <2> QED
    BY <1>1, <1>2, <1>5, <1>6, <1>7, <2>3, <2>4, <2>5, <2>6, CommitStep
<1>9. CASE ~options.wal
  <2>1. options.snapshots
    BY <1>9 DEF StartupOnly, StartupInv, TypeInv, TypeOK
  <2>2. job[m].kind \notin StartOps /\ Unborn(m)
    BY <1>2, <1>3, <1>4, <1>9 DEF StartOps, DirectOps, TransactionOps, Unborn, Committing, Writes
  <2>3. /\ job[m].t = k + 1 /\ Ready(m, k) /\ manifest.tid = k
        /\ snapshots[k + 1] = job[m].env /\ txns[k + 1] # NoEnvelope
    BY <1>2, <1>4, <1>9, <2>1, <2>2 DEF JobInv, UnbornInv, ReadyInv, Ready, AfterRecord
  <2>4. /\ k + 1 \in Tids /\ k + 1 \in 0..MaxTid
        /\ \A t \in Tids : t # k + 1 => history'[t] = history[t]
        /\ \A t \in Tids : history'[t] # NoCommit <=> t <= k + 1
        /\ history'[k + 1].graph = job[m].env
        /\ DOMAIN history'[k + 1].stored = DOMAIN job[m].env
        /\ DOMAIN job[m].vers = DOMAIN history'[k + 1].stored
        /\ \A o \in DOMAIN job[m].vers : records[o][job[m].vers[o]] = <<history'[k + 1].stored[o]>>
    <3>1. pc[m] = DurableStep
      BY <1>2, <1>9, <2>1 DEF DurableStep
    <3> QED
      BY <1>1, <1>2, <1>4, <1>5, <2>2, <2>3, <3>1, HistoryGrows
  <2>5. FilesInv(k + 1)'
    <3>1. CommitsInv(k + 1)'
      BY <1>1, <1>2, <1>4, <1>5, <1>9, <2>1, <2>3, <2>4, CommitsGrow DEF FilesInv, JobInv
    <3>2. PublishedInv(k + 1)'
      <4>1. PublishedInv(k)
        BY <1>1 DEF FilesInv
      <4>2. \A t \in Tids : t < k + 1 => txns[t] # NoEnvelope
        BY <1>2, <1>9, <4>1 DEF PublishedInv, Tids
      <4>3. \A t \in Tids : t > k + 1 => txns[t] = NoEnvelope
        BY <1>2, <4>1 DEF PublishedInv, Tids
      <4> QED
        BY <1>2, <1>5, <1>9, <2>3, <4>2, <4>3 DEF PublishedInv, Tids
    <3>3. ManifestInv(k + 1)'
      BY <1>1, <1>5, <2>3, <2>4, ManifestFallsBehind DEF FilesInv, StartupInv
    <3> QED
      BY <3>1, <3>2, <3>3 DEF FilesInv
  <2>6. RecoverInv(m, k + 1)' /\ UnbornInv(m, k + 1)' /\ ReadyInv(m, k + 1)'
    BY <1>4, <1>5, <1>6, <1>9 DEF RecoverInv, UnbornInv, ReadyInv
  <2>7. DurableInv(m, k + 1)'
    <3>1. \A t \in Tids : t > k + 1 => txns'[t] = NoEnvelope
      BY <1>1, <1>5 DEF FilesInv, PublishedInv
    <3>2. Shows(job[m].vers, history[k + 1].stored)'
      BY <1>5, <2>4 DEF Shows
    <3>3. manifest'.tid = (k + 1) - 1
      BY <1>2, <1>5, <2>3
    <3> QED
      BY <1>5, <2>3, <2>4, <3>1, <3>2, <3>3 DEF DurableInv
  <2> QED
    BY <1>2, <1>5, <1>6, <1>7, <2>4, <2>5, <2>6, <2>7, CommitStep
<1> QED
  BY <1>8, <1>9

\* The transaction record of a commit.
LEMMA WriteTransactionRecordStarts ==
    ASSUME StartupInv, TypeInv', NEW m \in Managers, WriteTransactionRecord(m)
    PROVE  StartupInv'
<1>1. PICK k \in 0..MaxTid : FilesInv(k) /\ \A n \in Managers : Active(n) => JobInv(n, k)
  BY DEF StartupInv
<1>2. pc[m] = "record" /\ pc[m] \in Committing /\ k \in Int /\ MaxTid \in Nat
  BY StoreAssumptions DEF WriteTransactionRecord, Committing, Writes
<1>3. /\ Active(m) /\ pc \in [Managers -> Steps] /\ job[m].t \in Tids
      /\ job[m].kind \in DirectOps \cup TransactionOps \cup {"recover", "repair"}
      /\ job[m].env # NoEnvelope
  BY <1>2, CommitFacts
<1>4. /\ JobInv(m, k) /\ job[m].kind # "repair"
      /\ job[m].kind = "recover" => options.wal /\ job[m].t = k
  BY <1>1, <1>2, <1>3 DEF JobInv, RecoverInv
<1>5. /\ pc'[m] = "fenceIndex" /\ OnlyMoves(m)
      /\ txns' = IF LatestTxn = job[m].t THEN txns ELSE [txns EXCEPT ![job[m].t] = job[m].env]
      /\ UNCHANGED <<options, records, prepares, markers, snapshots, current, index, manifest, lock, held,
                     tid, vers, job, history>>
  BY <1>3 DEF WriteTransactionRecord, Goto, memVars, OnlyMoves
<1>6. job[m].kind \notin StartOps /\ ~options.wal => Unborn(m) /\ Unborn(m)' /\ job[m].t = k + 1
  BY <1>2, <1>4, <1>5 DEF Unborn, Committing, Writes, Fences, JobInv, UnbornInv
<1>7. job[m].kind \notin StartOps /\ options.wal => ~Unborn(m) /\ ~Unborn(m)' /\ job[m].t = k
  BY <1>2, <1>4, <1>5 DEF Unborn, JobInv, DurableInv
<1>8. job[m].kind \in StartOps => job[m].kind = "recover"
  BY <1>3, <1>4 DEF StartOps, DirectOps, TransactionOps
<1>9. /\ txns'[job[m].t] # NoEnvelope
      /\ \A t \in Tids : t # job[m].t => txns'[t] = txns[t]
      /\ \A t \in Tids : txns[t] # NoEnvelope => txns'[t] # NoEnvelope
  <2>1. CASE LatestTxn = job[m].t
    <3>1. LatestTxn > 0 => txns[LatestTxn] # NoEnvelope
      BY <1>1, LatestAround DEF FilesInv, StartupInv
    <3> QED
      BY <1>2, <1>3, <1>5, <2>1, <3>1 DEF Tids
  <2>2. CASE LatestTxn # job[m].t
    BY <1>3, <1>5, <2>2 DEF StartupInv, TypeInv, TypeOK
  <2> QED
    BY <2>1, <2>2
<1>10. FilesInv(k)'
  <2>1. CommitsInv(k)'
    BY <1>1, <1>5 DEF FilesInv, CommitsInv, TopIs
  <2>2. PublishedInv(k)'
    <3>1. PublishedInv(k)
      BY <1>1 DEF FilesInv
    <3>2. job[m].t <= k + 1 /\ (options.wal => job[m].t = k)
      BY <1>2, <1>4, <1>6, <1>7, <1>8
    <3>3. \A t \in Tids : t > k + 1 => txns'[t] = NoEnvelope
      BY <1>2, <1>3, <1>9, <3>1, <3>2 DEF PublishedInv, Tids
    <3>4. options.wal => \A t \in Tids : t > k => txns'[t] = NoEnvelope
      BY <1>2, <1>3, <1>9, <3>1, <3>2 DEF PublishedInv, Tids
    <3>5. k > 0 => k \in Tids
      BY <1>2 DEF Tids
    <3> QED
      BY <1>5, <1>9, <3>1, <3>3, <3>4, <3>5 DEF PublishedInv
  <2>3. ManifestInv(k)'
    BY <1>1, <1>5 DEF FilesInv, ManifestInv, Shows
  <2> QED
    BY <2>1, <2>2, <2>3 DEF FilesInv
<1>11. WrittenInv(m)'
  BY <1>2, <1>4, <1>5 DEF JobInv, WrittenInv
<1>12. RecoverInv(m, k)'
  BY <1>2, <1>4, <1>5, <1>9 DEF JobInv, RecoverInv
<1>13. UnbornInv(m, k)' /\ DurableInv(m, k)' /\ ReadyInv(m, k)'
  <2>1. options.wal => \A t \in Tids : t > k => txns'[t] = NoEnvelope
    BY <1>5, <1>10 DEF FilesInv, PublishedInv
  <2>2. UnbornInv(m, k)'
    BY <1>2, <1>4, <1>5, <1>6, <1>7, <1>9 DEF JobInv, UnbornInv
  <2>3. DurableInv(m, k)'
    BY <1>2, <1>4, <1>5, <1>6, <1>7, <1>9, <2>1 DEF JobInv, DurableInv, Shows
  <2>4. ReadyInv(m, k)'
    BY <1>2, <1>4, <1>5, <1>6, <1>7 DEF JobInv, ReadyInv, Ready, AfterRecord, Committing, Fences
  <2> QED
    BY <2>2, <2>3, <2>4
<1>14. pc'[m] \in Committing
  BY <1>5 DEF Committing, Fences
<1> QED
  BY <1>1, <1>2, <1>5, <1>10, <1>11, <1>12, <1>13, <1>14, CommitStep

\* The index sidecars; a repair ends with them, its records all written again.
LEMMA WritePersistentIndexStarts ==
    ASSUME StartupOnly, StartupInv, TypeInv', NEW m \in Managers, WritePersistentIndex(m)
    PROVE  StartupInv'
<1>1. PICK k \in 0..MaxTid : FilesInv(k) /\ \A n \in Managers : Active(n) => JobInv(n, k)
  BY DEF StartupInv
<1>2. pc[m] = "index" /\ pc[m] \in Committing /\ k \in Int /\ MaxTid \in Nat
  BY StoreAssumptions DEF WritePersistentIndex, Committing, Writes
<1>3. /\ Active(m) /\ pc \in [Managers -> Steps] /\ job \in [Managers -> Jobs] /\ job[m].t \in Tids
      /\ DOMAIN job[m].vers = DOMAIN job[m].env
      /\ job[m].kind \in DirectOps \cup TransactionOps \cup {"recover", "repair"}
  BY <1>2, CommitFacts
<1>4. JobInv(m, k)
  BY <1>1, <1>3
<1>5. UNCHANGED <<options, records, prepares, markers, txns, snapshots, current, manifest, lock, held, tid,
                  vers, history>>
  BY DEF WritePersistentIndex, memVars
<1>6. FilesInv(k)'
  <2>1. CommitsInv(k)'
    BY <1>1, <1>5 DEF FilesInv, CommitsInv, TopIs
  <2>2. PublishedInv(k)'
    BY <1>1, <1>5 DEF FilesInv, PublishedInv
  <2>3. ManifestInv(k)'
    BY <1>1, <1>5 DEF FilesInv, ManifestInv, Shows
  <2> QED
    BY <2>1, <2>2, <2>3 DEF FilesInv
<1>7. CASE job[m].kind = "repair"
  <2>1. pc'[m] = "idle" /\ job'[m] = NoJob /\ OnlyMoves(m)
    BY <1>3, <1>7 DEF WritePersistentIndex, Goto, OnlyMoves
  <2>2. /\ job[m].t = k /\ job[m].env = history[k].graph
        /\ tid[m] = k /\ vers[m] = job[m].vers /\ manifest.tid = k
    BY <1>2, <1>4, <1>7 DEF JobInv, RecoverInv
  <2>3. \A o \in DOMAIN job[m].env : job[m].vers[o] = k /\ records[o][k] = <<job[m].env[o]>>
    BY <1>2, <1>4, <1>7, <2>2 DEF JobInv, WrittenInv
  <2>4. Ready(m, k)'
    <3>1. \A o \in DOMAIN vers[m] : vers[m][o] <= k /\ records[o][vers[m][o]] # <<>>
      <4>1. \A o \in DOMAIN vers[m] : vers[m][o] = k /\ records[o][vers[m][o]] = <<job[m].env[o]>>
        BY <1>3, <2>2, <2>3
      <4>2. \A o \in DOMAIN vers[m] : records[o][vers[m][o]] # <<>>
        BY <4>1, OneRecord
      <4> QED
        BY <1>2, <4>1, <4>2
    <3>2. \A o \in DOMAIN history[k].graph : records[o][k] # <<>>
      BY <2>2, <2>3, OneRecord
    <3> QED
      BY <1>5, <2>2, <3>1, <3>2 DEF Ready
  <2>5. JobInv(m, k)'
    BY <2>1, <2>4 DEF JobInv, LoadInv, WrittenInv, RecoverInv, UnbornInv, DurableInv, ReadyInv, Loading,
       NoJob, Committing, Writes, Fences
  <2> QED
    BY <1>1, <1>3, <1>5, <1>6, <2>1, <2>5, ActiveStep DEF Active
<1>8. CASE job[m].kind # "repair"
  <2>1. /\ job' = job /\ OnlyMoves(m)
        /\ pc'[m] = IF options.snapshots THEN "fenceCurrent" ELSE "manifest"
    BY <1>3, <1>8 DEF WritePersistentIndex, Goto, OnlyMoves
  <2>2. options.wal \/ options.snapshots
    BY DEF StartupOnly, StartupInv, TypeInv, TypeOK
  <2>3. pc'[m] \in Committing \ {"commitState", "prepare", "marker", "objects"} /\ pc'[m] \in AfterRecord
    BY <2>1 DEF Committing, Writes, Fences, AfterRecord
  <2>4. Unborn(m) <=> Unborn(m)'
    BY <1>2, <1>5, <2>1, <2>2 DEF Unborn, Committing, Writes, Fences
  <2>5. pc[m] \in AfterRecord
    BY <1>2 DEF AfterRecord
  <2>6. WrittenInv(m)'
    BY <1>2, <1>4, <1>5, <2>1, <2>3 DEF JobInv, WrittenInv
  <2>7. RecoverInv(m, k)'
    <3>1. pc'[m] \notin {"prepare", "fenceCommit", "marker"}
      BY <2>1
    <3> QED
      BY <1>2, <1>4, <1>5, <1>8, <2>1, <2>3, <2>5, <3>1 DEF JobInv, RecoverInv
  <2>8. UnbornInv(m, k)' /\ DurableInv(m, k)'
    BY <1>2, <1>4, <1>5, <2>1, <2>3, <2>4, <2>5 DEF JobInv, UnbornInv, DurableInv, Shows
  <2>9. ReadyInv(m, k)'
    BY <1>2, <1>4, <1>5, <2>1, <2>3, <2>4, <2>5 DEF JobInv, ReadyInv, Ready
  <2> QED
    BY <1>1, <1>2, <1>5, <1>6, <2>1, <2>3, <2>6, <2>7, <2>8, <2>9, CommitStep
<1> QED
  BY <1>7, <1>8

\* The manifest publishes the last commit; the records it selects are there.
LEMMA WriteManifestStarts ==
    ASSUME StartupOnly, StartupInv, TypeInv', NEW m \in Managers, WriteManifest(m)
    PROVE  StartupInv'
<1>1. PICK k \in 0..MaxTid : FilesInv(k) /\ \A n \in Managers : Active(n) => JobInv(n, k)
  BY DEF StartupInv
<1>2. pc[m] = "manifest" /\ pc[m] \in Committing /\ k \in Int /\ MaxTid \in Nat
  BY StoreAssumptions DEF WriteManifest, Committing, Writes
<1>3. /\ Active(m) /\ pc \in [Managers -> Steps] /\ job[m].t \in Tids
      /\ DOMAIN job[m].vers = DOMAIN job[m].env /\ job[m].vers \in Versions
      /\ job[m].kind \in DirectOps \cup TransactionOps \cup {"recover", "repair"}
  BY <1>2, CommitFacts DEF Jobs
<1>4. JobInv(m, k)
  BY <1>1, <1>3
<1>5. options.wal \/ options.snapshots
  BY DEF StartupOnly, StartupInv, TypeInv, TypeOK
<1>6. history' = history
  BY <1>2, <1>5 DEF WriteManifest, RecordHistory, DurableStep
<1>7. /\ manifest' = [tid |-> job[m].t, vers |-> job[m].vers] /\ OnlyMoves(m)
      /\ pc'[m] = IF job[m].kind = "repair" THEN "index" ELSE "commitState"
      /\ UNCHANGED <<options, records, prepares, markers, txns, snapshots, current, index, lock, held, tid,
                     vers, job>>
  BY <1>3 DEF WriteManifest, Goto, memVars, OnlyMoves
<1>8. ~Unborn(m) /\ (job[m].kind \notin StartOps => ~Unborn(m)')
  BY <1>2, <1>7 DEF Unborn, StartOps
<1>9. job[m].t = k /\ job[m].env = history[k].graph /\ k > 0 /\ txns[k] # NoEnvelope
  <2>1. job[m].t = k /\ job[m].env = history[k].graph
    BY <1>2, <1>3, <1>4, <1>8 DEF JobInv, RecoverInv, DurableInv, StartOps, DirectOps, TransactionOps
  <2>2. k > 0
    BY <1>2, <1>3, <2>1 DEF Tids
  <2>3. CASE job[m].kind = "repair"
    BY <1>1, <1>2, <1>4, <2>2, <2>3 DEF JobInv, RecoverInv, FilesInv, PublishedInv
  <2>4. CASE job[m].kind # "repair"
    BY <1>2, <1>3, <1>4, <1>8, <2>1, <2>2, <2>4
       DEF JobInv, RecoverInv, DurableInv, StartOps, AfterRecord, DirectOps, TransactionOps
  <2> QED
    BY <2>1, <2>2, <2>3, <2>4
<1>10. \A o \in DOMAIN job[m].vers :
          /\ job[m].vers[o] <= k
          /\ job[m].vers[o] = k => records[o][k] = <<history[k].graph[o]>>
  <2>1. WrittenInv(m) /\ job[m].todo = {}
    BY <1>2, <1>4 DEF JobInv, WrittenInv
  <2>2. \A o \in DOMAIN job[m].vers : job[m].vers[o] \in Int
    BY <1>3, VersionsElim DEF Tids
  <2> QED
    BY <1>2, <1>3, <1>9, <2>1, <2>2 DEF WrittenInv
<1>11. Shows(job[m].vers, history[k].graph) \/ Shows(job[m].vers, history[k].stored)
  <2>1. CASE job[m].kind \in {"recover", "repair"}
    <3>1. \A o \in DOMAIN job[m].env : job[m].vers[o] = k
      BY <1>2, <1>3, <1>4, <1>9, <2>1 DEF JobInv, WrittenInv
    <3> QED
      BY <1>3, <1>9, <1>10, <3>1 DEF Shows
  <2>2. CASE job[m].kind \notin {"recover", "repair"}
    BY <1>2, <1>3, <1>4, <1>8, <2>2 DEF JobInv, DurableInv, StartOps, DirectOps, TransactionOps
  <2> QED
    BY <2>1, <2>2
<1>12. FilesInv(k)'
  <2>1. CommitsInv(k)'
    BY <1>1, <1>6, <1>7 DEF FilesInv, CommitsInv, TopIs
  <2>2. PublishedInv(k)'
    BY <1>1, <1>7, <1>9 DEF FilesInv, PublishedInv
  <2>3. ManifestInv(k)'
    <3>1. manifest'.tid = k /\ manifest'.vers = job[m].vers
      BY <1>7, <1>9
    <3>2. \/ Shows(manifest'.vers, history[k].graph)
          \/ Shows(manifest'.vers, history[k].stored)
      BY <1>11, <3>1
    <3>3. Shows(manifest.vers, history[manifest.tid].graph)' \/ Shows(manifest.vers, history[manifest.tid].stored)'
      BY <1>6, <1>7, <3>1, <3>2 DEF Shows
    <3> QED
      BY <1>6, <1>7, <1>9, <1>10, <3>1, <3>3 DEF ManifestInv
  <2> QED
    BY <2>1, <2>2, <2>3 DEF FilesInv
<1>13. pc'[m] \in Committing /\ pc'[m] \in {"index", "commitState"}
  BY <1>7 DEF Committing, Writes
<1>14. WrittenInv(m)'
  BY <1>2, <1>4, <1>7, <1>13 DEF JobInv, WrittenInv
<1>15. RecoverInv(m, k)'
  BY <1>2, <1>4, <1>6, <1>7, <1>9 DEF JobInv, RecoverInv
<1>16. DurableInv(m, k)'
  BY <1>2, <1>4, <1>6, <1>7, <1>8, <1>9 DEF JobInv, DurableInv, Shows, StartOps
<1>17. job[m].kind \in StartOps \/ pc'[m] = "commitState"
  BY <1>7 DEF StartOps
<1>18. UnbornInv(m, k)' /\ ReadyInv(m, k)'
  BY <1>7, <1>8, <1>13 DEF UnbornInv, ReadyInv
<1> QED
  BY <1>1, <1>2, <1>7, <1>12, <1>13, <1>14, <1>15, <1>16, <1>18, CommitStep

\* The commit is reported: what the manager keeps in memory is what it published.
LEMMA CommitStateStarts ==
    ASSUME StartupOnly, StartupInv, TypeInv', NEW m \in Managers, CommitState(m)
    PROVE  StartupInv'
<1>1. PICK k \in 0..MaxTid : FilesInv(k) /\ \A n \in Managers : Active(n) => JobInv(n, k)
  BY DEF StartupInv
<1>2. pc[m] = "commitState" /\ pc[m] \in Committing /\ k \in Int /\ MaxTid \in Nat
  BY StoreAssumptions DEF CommitState, Committing
<1>3. /\ Active(m) /\ pc \in [Managers -> Steps] /\ job \in [Managers -> Jobs] /\ job[m].t \in Tids
      /\ tid \in [Managers -> 0..MaxTid] /\ vers \in [Managers -> Versions]
      /\ job[m].kind \in DirectOps \cup TransactionOps \cup {"recover", "repair"}
  BY <1>2, CommitFacts DEF StartupInv, TypeInv, TypeOK
<1>4. JobInv(m, k) /\ job[m].kind # "repair" /\ ~Unborn(m)
  BY <1>1, <1>2, <1>3 DEF JobInv, RecoverInv, Unborn
<1>5. UNCHANGED <<diskVars, lock, held, history>>
  BY DEF CommitState
<1>6. OnlyMoves(m) /\ tid'[m] = job[m].t /\ vers'[m] = job[m].vers
  BY <1>3 DEF CommitState, Goto, OnlyMoves
<1>7. CASE job[m].kind = "recover"
  <2>1. pc'[m] = "recover" /\ job'[m].kind = "start"
    BY <1>3, <1>7 DEF CommitState, Goto, NoJob
  <2>2. manifest.tid = k
    BY <1>2, <1>4, <1>7 DEF JobInv, RecoverInv
  <2>3. LoadInv(m, k)'
    BY <1>2, <1>5, <2>1, <2>2 DEF LoadInv, Loading, diskVars
  <2>4. pc'[m] \notin Committing \cup {"down", "acquire"} /\ job'[m].kind \in StartOps
    BY <2>1 DEF Committing, Writes, Fences, StartOps
  <2> QED
    BY <1>1, <1>3, <1>5, <1>6, <2>3, <2>4, QuietActive
<1>8. CASE job[m].kind # "recover"
  <2>1. pc'[m] = "idle" /\ job'[m] = NoJob
    BY <1>3, <1>8 DEF CommitState, Goto, Finished, StartupOnly
  <2>2. /\ job[m].t = k /\ manifest.tid = k /\ manifest.vers = job[m].vers
        /\ \A t \in Tids : t > k => txns[t] = NoEnvelope
    BY <1>2, <1>3, <1>4, <1>8 DEF JobInv, DurableInv, StartOps, DirectOps, TransactionOps
  <2>3. k > 0
    BY <1>2, <1>3, <2>2 DEF Tids
  <2>4. Readable(manifest)
    BY <1>1, ManifestIsReadable DEF FilesInv, StartupInv
  <2>5. \A o \in DOMAIN vers'[m] : vers'[m][o] <= k /\ records[o][vers'[m][o]] # <<>>
    BY <1>1, <1>6, <2>2, <2>3, <2>4 DEF Readable, FilesInv, ManifestInv
  <2>6. \A t \in Tids : t = k + 1 => txns[t] = NoEnvelope
    BY <1>2, <2>2
  <2>7. Ready(m, k)'
    BY <1>5, <1>6, <2>2, <2>5, <2>6 DEF Ready, diskVars
  <2>8. LoadInv(m, k)'
    BY <2>1 DEF LoadInv, NoJob, Loading
  <2>9. pc'[m] \notin Committing \cup {"down", "acquire"}
    BY <2>1 DEF Committing, Writes, Fences
  <2> QED
    BY <1>1, <1>3, <1>5, <1>6, <2>7, <2>8, <2>9, QuietActive
<1> QED
  BY <1>7, <1>8

\* Errors, and processes that die or stop.
LEMMA StopStarts ==
    ASSUME StartupOnly, StartupInv, TypeInv', NEW m \in Managers,
           \/ AcquireTimeout(m) \/ LockLost(m) \/ AbortWork(m) \/ RejectCommit(m) \/ TargetFails(m)
           \/ Crash(m) \/ Shutdown(m)
    PROVE  StartupInv'
<1>1. CASE AcquireTimeout(m)
  <2>1. pc[m] = "acquire" /\ job[m].kind \in StartOps
    BY <1>1 DEF AcquireTimeout, StartupInv, LockInv, StartOps
  <2> QED
    BY <1>1, <2>1, ThrowStep DEF AcquireTimeout
<1>2. CASE LockLost(m)
  BY <1>2, CommitFacts DEF LockLost, Committing
<1>3. CASE AbortWork(m)
  BY <1>3, ThrowStep DEF AbortWork, AfterRecord, Committing, Writes, Fences
<1>4. CASE RejectCommit(m)
  BY <1>4, ThrowStep DEF RejectCommit, AfterRecord, Committing, Writes, Fences
<1>5. CASE TargetFails(m)
  <2>1. pc[m] \in {"prepare", "objects", "snapshot", "marker"} /\ pc[m] \in Committing /\ Throw(m)
    BY <1>5 DEF TargetFails, StopsAt, StartupOnly, Committing, Writes
  <2>2. PICK k \in 0..MaxTid : \A n \in Managers : Active(n) => JobInv(n, k)
    BY DEF StartupInv
  <2>3. pc[m] = "prepare" \/ pc[m] = "marker" => options.wal
    BY <2>1, <2>2, CommitFacts DEF JobInv, WrittenInv
  <2>4. Unborn(m)
    BY <2>1, <2>3 DEF Unborn, Committing, Writes, Fences
  <2> QED
    BY <2>1, <2>4, ThrowStep DEF AfterRecord
<1>6. CASE Crash(m)
  BY <1>6, ForgetStep DEF Crash
<1>7. CASE Shutdown(m)
  BY <1>7, ForgetStep DEF Shutdown
<1> QED
  BY <1>1, <1>2, <1>3, <1>4, <1>5, <1>6, <1>7

\* Nobody releases the lock between operations.
LEMMA NoRelease ==
    ASSUME StartupInv, NEW m \in Managers
    PROVE  ~Release(m)
<1>1. PICK k \in 0..MaxTid : \A n \in Managers : Active(n) => JobInv(n, k)
  BY DEF StartupInv
<1> QED
  BY <1>1 DEF Release, Active, JobInv, LoadInv

\* Every step keeps the invariant.
LEMMA StartupNext == StartupOnly /\ StartupInv /\ [Next]_vars => StartupInv'
<1> SUFFICES ASSUME StartupOnly, StartupInv, [Next]_vars PROVE StartupInv'
  OBVIOUS
<1>1. TypeInv'
  BY TypeNext DEF StartupInv
<1>2. CASE UNCHANGED vars
  <2>1. PICK k \in 0..MaxTid : FilesInv(k) /\ \A n \in Managers : Active(n) => JobInv(n, k)
    BY DEF StartupInv
  <2>2. UNCHANGED <<diskVars, lock, pc, held, heap, tid, vers, job, history>>
    BY <1>2 DEF vars, memVars
  <2>3. FilesInv(k)'
    BY <2>1, <2>2, FilesStay
  <2>4. LockInv'
    BY <2>2 DEF StartupInv, LockInv, Active
  <2>5. ASSUME NEW n \in Managers, Active(n)'
        PROVE  JobInv(n, k)'
    <3>1. JobInv(n, k)
      BY <2>1, <2>2, <2>5 DEF Active
    <3>2. LoadInv(n, k)' /\ WrittenInv(n)' /\ RecoverInv(n, k)'
      BY <2>2, <3>1 DEF JobInv, LoadInv, WrittenInv, RecoverInv, diskVars
    <3>3. UnbornInv(n, k)' /\ DurableInv(n, k)' /\ ReadyInv(n, k)'
      BY <2>2, <3>1 DEF JobInv, UnbornInv, DurableInv, ReadyInv, Ready, Unborn, Shows, diskVars
    <3> QED
      BY <3>2, <3>3 DEF JobInv
  <2> QED
    BY <1>1, <2>1, <2>3, <2>4, <2>5 DEF StartupInv
<1>3. CASE Next
  <2>1. PICK m \in Managers :
          \/ Progress(m)
          \/ Start(m) \/ Edit(m) \/ BeginStore(m) \/ BeginUpdate(m) \/ BeginTransaction(m)
          \/ AbortWork(m) \/ RejectCommit(m) \/ TargetFails(m) \/ Crash(m) \/ Shutdown(m)
    BY <1>3 DEF Next
  <2>2. CASE Progress(m)
    BY <1>1, <2>2, AcquireStarts, StopStarts, NoRelease, AssertValidStarts, ListWalStarts, RecoverStarts,
       ReadManifestStarts, ReadWalStarts, ReadObjectsStarts, WorkStarts, CheckConflictStarts,
       CommitEnvelopeStarts, WriteWalPrepareStarts, WriteObjectRecordsStarts, WriteSnapshotStarts,
       WriteWalCommitStarts, WriteTransactionRecordStarts, WritePersistentIndexStarts,
       WriteCurrentStarts, WriteManifestStarts, CommitStateStarts DEF Progress
  <2> QED
    BY <1>1, <2>1, <2>2, StartStarts, WorkStarts, StopStarts
<1> QED
  BY <1>2, <1>3

-----------------------------------------------------------------------------
(* What follows for the last durable commit *)

\* The invariant holds in every state of a store with lockStrategy "startup".
LEMMA StartupAlways ==
    ASSUME StartupOnly
    PROVE  Spec => []StartupInv
<1>1. StartupInv /\ [Next]_vars => StartupInv'
  BY StartupNext
<1> QED
  BY <1>1, StartupInit, PTL DEF Spec

\* A start that meets no failure loads the last commit, or nothing before the first.
LEMMA LastCommitIsRecoverable ==
    ASSUME StartupOnly, StartupInv, NEW k \in 0..MaxTid, FilesInv(k)
    PROVE  /\ HistoryTop = k
           /\ k = 0 => Recoverable = NoEnvelope
           /\ k > 0 => Recoverable \in {history[k].graph, history[k].stored}
<1>0. /\ k \in Int /\ manifest.tid \in 0..MaxTid /\ current \in 0..MaxTid /\ MaxTid \in Nat /\ TypeInv
      /\ CommitsInv(k) /\ PublishedInv(k) /\ ManifestInv(k) /\ (options.wal \/ options.snapshots)
  BY StoreAssumptions DEF StartupOnly, StartupInv, TypeInv, TypeOK, FilesInv
<1>1. HistoryTop = k
  BY <1>0, TopIsHistoryTop DEF CommitsInv
<1>2. PendingWal = IF options.wal /\ manifest.tid < k THEN {k} ELSE {}
  BY <1>0, PendingIs
<1>3. /\ LatestTxn \in {k - 1, k, k + 1}
      /\ LatestTxn = k + 1 => ~options.wal
      /\ LatestTxn = k - 1 => options.wal /\ manifest.tid # k
  BY <1>0, LatestAround
<1>4. manifest.tid \in {k - 1, k} /\ IF options.wal THEN current <= k ELSE current = k
  BY <1>0 DEF ManifestInv, PublishedInv
<1>5. CASE k = 0
  BY <1>0, <1>1, <1>2, <1>4, <1>5 DEF Recoverable
<1>6. CASE k > 0 /\ options.wal /\ manifest.tid < k
  <2>1. Max({k}) = k
    BY <1>0, MaxIs
  <2>2. Recoverable = prepares[k]
    BY <1>2, <1>6, <2>1 DEF Recoverable
  <2>3. k \in 1..k
    BY <1>0, <1>6
  <2> QED
    BY <1>0, <1>1, <1>6, <2>2, <2>3 DEF CommitsInv
<1>7. CASE k > 0 /\ ~(options.wal /\ manifest.tid < k)
  <2>1. PendingWal = {}
    BY <1>2, <1>7
  <2>2. Readable(manifest)
    BY <1>0, ManifestIsReadable
  <2>3. CASE manifest.tid > 0 /\ LatestTxn <= manifest.tid
    <3>1. manifest.tid = k
      BY <1>0, <1>3, <1>4, <1>7, <2>3
    <3>2. EnvelopeFromManifest(manifest) \in {history[k].graph, history[k].stored}
      BY <1>0, <1>7, <3>1, ManifestShows
    <3> QED
      BY <1>1, <1>7, <2>1, <2>2, <2>3, <3>2 DEF Recoverable
  <2>4. CASE ~(manifest.tid > 0 /\ LatestTxn <= manifest.tid)
    <3>1. ~options.wal /\ current = k /\ options.snapshots
      BY <1>0, <1>3, <1>4, <1>7, <2>4
    <3>2. snapshots[k] = history[k].graph
      BY <1>0, <1>7, <3>1 DEF CommitsInv
    <3> QED
      BY <1>1, <1>7, <2>1, <2>4, <3>1, <3>2 DEF Recoverable
  <2> QED
    BY <2>3, <2>4
<1> QED
  BY <1>0, <1>5, <1>6, <1>7

\* A crash at any point leaves files from which a start loads exactly the last
\* durable commit, with a WAL, with snapshots, or with both, and for stores of
\* chosen targets too: recovery takes up the commit whose manifest is missing, and
\* the load falls back to the snapshot that CURRENT names.
THEOREM StartupDurableIsRecoverable ==
    ASSUME StartupOnly
    PROVE  Spec => []DurableIsRecoverable
<1>1. StartupInv => DurableIsRecoverable
  <2> SUFFICES ASSUME StartupInv PROVE DurableIsRecoverable
    OBVIOUS
  <2>1. PICK k \in 0..MaxTid : FilesInv(k)
    BY DEF StartupInv
  <2>2. /\ HistoryTop = k
        /\ k = 0 => Recoverable = NoEnvelope
        /\ k > 0 => Recoverable \in {history[k].graph, history[k].stored}
    BY <2>1, LastCommitIsRecoverable
  <2>3. k = 0 \/ k > 0
    BY StoreAssumptions
  <2> QED
    BY <2>2, <2>3 DEF DurableIsRecoverable
<1> QED
  BY <1>1, StartupAlways, PTL

\* The object versions that the manifest selects have their records, for stores
\* of chosen targets too.
THEOREM StartupManifestComplete ==
    ASSUME StartupOnly
    PROVE  Spec => []ManifestVersionsExist
<1>1. StartupInv => ManifestVersionsExist
  BY ManifestIsReadable DEF StartupInv, FilesInv, ManifestVersionsExist
<1> QED
  BY <1>1, StartupAlways, PTL

-----------------------------------------------------------------------------
(* Commits are serial *)

\* Only the three writes that may make a commit durable change the history.
LEMMA HistoryStays ==
    ASSUME NEW m \in Managers,
           \/ Progress(m)
           \/ Start(m) \/ Edit(m) \/ BeginStore(m) \/ BeginUpdate(m) \/ BeginTransaction(m)
           \/ AbortWork(m) \/ RejectCommit(m) \/ TargetFails(m) \/ Crash(m) \/ Shutdown(m),
           ~WriteWalCommit(m), ~WriteCurrent(m), ~WriteManifest(m)
    PROVE  history' = history
<1>1. CASE Throw(m)
  BY <1>1 DEF Throw
<1>2. CASE ~Throw(m) /\ Progress(m)
  BY <1>2 DEF Progress, Acquire, AcquireTimeout, Release, AssertValid, LockLost, ListWal, Recover,
     ReadManifest, ReadWal, ReadObjects, Load, Adopt, EndWork, CheckConflict, CommitEnvelope,
     WriteWalPrepare, WriteObjectRecords, WriteSnapshot, WriteTransactionRecord, WritePersistentIndex,
     CommitState
<1>3. CASE ~Throw(m) /\ ~Progress(m)
  BY <1>3 DEF Start, Edit, BeginStore, BeginUpdate, BeginTransaction, AbortWork, RejectCommit, TargetFails,
     Crash, Shutdown
<1> QED
  BY <1>1, <1>2, <1>3

\* The commit that becomes durable is the next one.
LEMMA NextCommit ==
    ASSUME StartupOnly, StartupInv, NEW m \in Managers,
           WriteWalCommit(m) \/ WriteCurrent(m) \/ WriteManifest(m), history' # history
    PROVE  \E k \in 0..MaxTid :
              /\ FilesInv(k) /\ JobInv(m, k)
              /\ pc[m] \in Committing /\ pc[m] = DurableStep /\ RecordHistory(m)
              /\ job[m].kind \notin StartOps /\ job[m].t = k + 1 /\ Unborn(m)
<1>1. PICK k \in 0..MaxTid : FilesInv(k) /\ \A n \in Managers : Active(n) => JobInv(n, k)
  BY DEF StartupInv
<1>2. pc[m] \in Committing /\ RecordHistory(m)
  BY DEF WriteWalCommit, WriteCurrent, WriteManifest, Committing, Writes
<1>3. pc[m] = DurableStep /\ job[m].kind \notin StartOps
  BY <1>2 DEF RecordHistory
<1>4. options.wal \/ options.snapshots
  BY DEF StartupOnly, StartupInv, TypeInv, TypeOK
<1>5. Unborn(m)
  BY <1>3, <1>4 DEF DurableStep, Unborn, Committing, Writes
<1>6. JobInv(m, k)
  BY <1>1, <1>2, CommitFacts
<1>7. job[m].t = k + 1
  BY <1>2, <1>3, <1>5, <1>6 DEF JobInv, UnbornInv
<1> QED
  BY <1>1, <1>2, <1>3, <1>5, <1>6, <1>7

\* A durable commit always takes the id after the last one and replaces none: the
\* store of one manager at a time is a sequence of commits.
THEOREM StartupCommitsAreSerial ==
    ASSUME StartupOnly
    PROVE  Spec => CommitsAreSerial
<1> DEFINE A == history' # history => \E t \in Tids :
                    /\ t = HistoryTop + 1
                    /\ \A u \in Tids \ {t} : history'[u] = history[u]
<1>1. StartupInv /\ [Next]_vars => [A]_vars
  <2> SUFFICES ASSUME StartupInv, Next, history' # history PROVE A
    BY DEF vars
  <2>1. PICK m \in Managers :
          \/ Progress(m)
          \/ Start(m) \/ Edit(m) \/ BeginStore(m) \/ BeginUpdate(m) \/ BeginTransaction(m)
          \/ AbortWork(m) \/ RejectCommit(m) \/ TargetFails(m) \/ Crash(m) \/ Shutdown(m)
    BY DEF Next
  <2>2. WriteWalCommit(m) \/ WriteCurrent(m) \/ WriteManifest(m)
    BY <2>1, HistoryStays
  <2>3. PICK k \in 0..MaxTid :
              /\ FilesInv(k) /\ JobInv(m, k)
              /\ pc[m] \in Committing /\ pc[m] = DurableStep /\ RecordHistory(m)
              /\ job[m].kind \notin StartOps /\ job[m].t = k + 1
    BY <2>2, NextCommit
  <2>4. k + 1 \in Tids /\ \A t \in Tids : t # k + 1 => history'[t] = history[t]
    BY <2>3, HistoryGrows
  <2>5. HistoryTop = k
    BY <2>3, TopIsHistoryTop DEF FilesInv, CommitsInv
  <2> QED
    BY <2>4, <2>5
<1>2. Spec => []StartupInv
  BY StartupAlways
<1> QED
  BY <1>1, <1>2, PTL DEF Spec, CommitsAreSerial

-----------------------------------------------------------------------------
(* What the manifest shows *)

\* Records are written by one action only.
LEMMA RecordsStayPut ==
    ASSUME NEW m \in Managers,
           \/ Progress(m)
           \/ Start(m) \/ Edit(m) \/ BeginStore(m) \/ BeginUpdate(m) \/ BeginTransaction(m)
           \/ AbortWork(m) \/ RejectCommit(m) \/ TargetFails(m) \/ Crash(m) \/ Shutdown(m),
           ~WriteObjectRecords(m)
    PROVE  records' = records
<1>1. CASE Throw(m)
  BY <1>1 DEF Throw, diskVars
<1>2. CASE ~Throw(m) /\ Progress(m)
  BY <1>2 DEF Progress, Acquire, AcquireTimeout, Release, AssertValid, LockLost, ListWal, Recover,
     ReadManifest, ReadWal, ReadObjects, Load, Adopt, EndWork, CheckConflict, CommitEnvelope,
     WriteWalPrepare, WriteSnapshot, WriteWalCommit, WriteTransactionRecord, WritePersistentIndex,
     WriteCurrent, WriteManifest, CommitState, diskVars
<1>3. CASE ~Throw(m) /\ ~Progress(m)
  BY <1>3 DEF Start, Edit, BeginStore, BeginUpdate, BeginTransaction, AbortWork, RejectCommit, TargetFails,
     Crash, Shutdown, diskVars
<1> QED
  BY <1>1, <1>2, <1>3

\* Whatever a commit, a recovery or a repair writes on its way to its own manifest,
\* the graph that the present manifest shows does not change.
THEOREM StartupManifestIsolation ==
    ASSUME StartupOnly
    PROVE  Spec => ManifestIsolation
<1> DEFINE A == manifest.tid > 0 /\ manifest' = manifest /\ Readable(manifest) =>
                  EnvelopeFromManifest(manifest)' = EnvelopeFromManifest(manifest)
<1>1. StartupInv /\ [Next]_vars => [A]_vars
  <2> SUFFICES ASSUME StartupInv, Next, manifest' = manifest
               PROVE  EnvelopeFromManifest(manifest)' = EnvelopeFromManifest(manifest)
    OBVIOUS
  <2>1. PICK m \in Managers :
          \/ Progress(m)
          \/ Start(m) \/ Edit(m) \/ BeginStore(m) \/ BeginUpdate(m) \/ BeginTransaction(m)
          \/ AbortWork(m) \/ RejectCommit(m) \/ TargetFails(m) \/ Crash(m) \/ Shutdown(m)
    BY DEF Next
  <2>2. \A p \in DOMAIN manifest.vers : records'[p][manifest.vers[p]] = records[p][manifest.vers[p]]
    <3>1. CASE ~WriteObjectRecords(m)
      BY <2>1, <3>1, RecordsStayPut
    <3>2. CASE WriteObjectRecords(m)
      <4>1. PICK k \in 0..MaxTid : FilesInv(k) /\ \A n \in Managers : Active(n) => JobInv(n, k)
        BY DEF StartupInv
      <4>2. pc[m] = "objects" /\ Active(m)
        BY <3>2 DEF WriteObjectRecords, Active
      <4>3. PICK o \in job[m].todo : records' = [records EXCEPT ![o][job[m].t] = <<job[m].env[o]>>]
        BY <3>2 DEF WriteObjectRecords
      <4> QED
        BY <4>1, <4>2, <4>3, RecordsIsolated
    <3> QED
      BY <3>1, <3>2
  <2> QED
    BY <2>2 DEF EnvelopeFromManifest
<1>2. Spec => []StartupInv
  BY StartupAlways
<1> QED
  BY <1>1, <1>2, PTL DEF Spec, ManifestIsolation

\* No argument of storeAll is reached from an earlier one.
TargetsApart ==
    \A list \in TargetLists, h \in Heaps : \A j \in DOMAIN list : \A i \in 1..(j - 1) :
        list[j] \notin Closure(h, {list[i]})

\* The objects that storeAll was asked for are written under the commit's own id.
TargetsWritten(m) == pc[m] \in Committing /\ job[m].kind = "storeAll" =>
    \A i \in DOMAIN job[m].targets :
        job[m].targets[i] \in DOMAIN job[m].env => job[m].vers[job[m].targets[i]] = job[m].t

TargetsInv == StartupInv /\ \A m \in Managers : TargetsWritten(m)

\* The choice of objects includes every target that the root reaches.
LEMMA TargetsChosen ==
    ASSUME TargetsApart, NEW h \in Heaps, NEW list \in TargetLists \cup {<<>>}, NEW persisted,
           NEW i \in DOMAIN list, list[i] \in Closure(h, {Root})
    PROVE  list[i] \in CollectObjectIds(h, list, persisted)
<1> DEFINE nodes == Closure(h, {Root})
           forced == {list[j] : j \in {j \in DOMAIN list :
                          \A k \in 1..(j - 1) : list[j] \notin Closure(h, {list[k]})}}
           met == Closure(h, {list[j] : j \in DOMAIN list})
           requested == nodes \cap (forced \cup (met \ persisted))
<1>1. \A k \in 1..(i - 1) : list[i] \notin Closure(h, {list[k]})
  BY DEF TargetsApart
<1>2. list[i] \in forced
  BY <1>1
<1>3. list[i] \in requested
  BY <1>2
<1> QED
  BY <1>3 DEF CollectObjectIds

\* What the steps of a manager do to its commit.
LEMMA CommitContinues ==
    ASSUME StartupInv, NEW m \in Managers,
           \/ Progress(m)
           \/ Start(m) \/ Edit(m) \/ BeginStore(m) \/ BeginUpdate(m) \/ BeginTransaction(m)
           \/ AbortWork(m) \/ RejectCommit(m) \/ TargetFails(m) \/ Crash(m) \/ Shutdown(m),
           ~CommitEnvelope(m)
    PROVE  /\ OnlyMoves(m)
           /\ \/ pc'[m] \notin Committing
              \/ job'[m].kind \in StartOps /\ (Recover(m) \/ ReadWal(m) \/ ReadObjects(m))
              \/ /\ pc[m] \in Committing /\ heap' = heap
                 /\ job'[m].kind = job[m].kind /\ job'[m].targets = job[m].targets
                 /\ job'[m].t = job[m].t /\ job'[m].env = job[m].env /\ job'[m].vers = job[m].vers
<1>0. pc \in [Managers -> Steps] /\ job \in [Managers -> Jobs] /\ job[m] \in Jobs
  BY DEF StartupInv, TypeInv, TypeOK
<1>1. CASE Throw(m)
  BY <1>0, <1>1 DEF Throw, Forget, Goto, Finished, OnlyMoves, Committing, Writes, Fences
<1>2. CASE Start(m) \/ Edit(m) \/ BeginStore(m) \/ BeginUpdate(m) \/ BeginTransaction(m)
  <2>1. CASE Start(m) \/ BeginUpdate(m)
    BY <1>0, <2>1 DEF Start, BeginUpdate, Goto, OnlyMoves, Committing, Writes, Fences
  <2>2. CASE Edit(m)
    BY <1>0, <2>2, StoreAssumptions DEF Edit, OnlyMoves, Committing, Writes, Fences
  <2>3. CASE BeginStore(m)
    <3>1. PICK kind, targets : /\ job' = [job EXCEPT ![m].kind = kind, ![m].targets = targets]
                               /\ WithWriteLock(m, kind)
      BY <2>3 DEF BeginStore
    <3> QED
      BY <1>0, <3>1 DEF WithWriteLock, Locked, Goto, OnlyMoves, Committing, Writes, Fences
  <2>4. CASE BeginTransaction(m)
    <3>1. PICK kind : /\ job' = [job EXCEPT ![m].kind = kind, ![m].undo = heap[m]]
                      /\ WithWriteLock(m, kind) \/ Goto(m, "readManifest")
      BY <2>4 DEF BeginTransaction
    <3> QED
      BY <1>0, <3>1 DEF WithWriteLock, Locked, Goto, OnlyMoves, Committing, Writes, Fences
  <2> QED
    BY <1>2, <2>1, <2>2, <2>3, <2>4
<1>3. CASE Crash(m) \/ Shutdown(m)
  BY <1>0, <1>3 DEF Crash, Shutdown, Forget, Goto, OnlyMoves, Committing, Writes, Fences
<1>4. CASE Acquire(m) \/ Release(m) \/ ListWal(m) \/ ReadManifest(m) \/ EndWork(m) \/ (CheckConflict(m) /\ ~Throw(m))
  BY <1>0, <1>4 DEF Acquire, Release, ListWal, ReadManifest, EndWork, CheckConflict, WithWriteLock, Locked,
     Goto, OnlyMoves, Committing, Writes, Fences
<1>5. CASE Recover(m)
  <2>1. CASE Goto(m, IF Strategy = "startup" THEN "readManifest" ELSE "release")
             /\ job' = [job EXCEPT ![m] = [NoJob EXCEPT !.kind = "start"]]
    BY <1>0, <2>1 DEF Goto, OnlyMoves, Committing, Writes, Fences
  <2>2. ASSUME NEW t,
               job' = [job EXCEPT ![m].kind = "recover", ![m].wal = {u \in @ : t < u},
                                  ![m].t = t, ![m].env = prepares[t],
                                  ![m].vers = AllAt(prepares[t], t),
                                  ![m].todo = DOMAIN prepares[t]],
               Goto(m, "objects")
        PROVE  OnlyMoves(m) /\ job'[m].kind \in StartOps
    <3>1. job'[m].kind = "recover"
      BY <1>0, <2>2 DEF Jobs
    <3>2. OnlyMoves(m)
      BY <1>0, <2>2 DEF Goto, OnlyMoves
    <3> QED
      BY <3>1, <3>2 DEF StartOps
  <2> QED
    BY <1>5, <2>1, <2>2 DEF Recover
<1>6. CASE (ReadWal(m) \/ ReadObjects(m)) /\ ~Throw(m)
  <2>1. ASSUME NEW env, NEW t, NEW versions, NEW source, Adopt(m, env, t, versions, source)
        PROVE  /\ OnlyMoves(m)
               /\ pc'[m] \notin Committing \/ job'[m].kind \in StartOps
    <3>1. CASE job[m].kind = "start" /\ source = "snapshot"
      BY <1>0, <2>1, <3>1 DEF Adopt, Goto, OnlyMoves, Jobs, StartOps
    <3>2. CASE ~(job[m].kind = "start" /\ source = "snapshot")
      BY <1>0, <2>1, <3>2 DEF Adopt, Goto, OnlyMoves, Committing, Writes, Fences
    <3> QED
      BY <3>1, <3>2
  <2>2. CASE job' = job /\ Goto(m, "readObjects")
    BY <1>0, <2>2 DEF Goto, OnlyMoves, Committing, Writes, Fences
  <2> QED
    BY <1>6, <2>1, <2>2 DEF ReadWal, ReadObjects, Load
<1>7. CASE AssertValid(m) \/ WriteWalPrepare(m) \/ WriteSnapshot(m) \/ WriteWalCommit(m)
           \/ WriteTransactionRecord(m) \/ WriteCurrent(m) \/ WriteManifest(m)
  BY <1>0, <1>7 DEF AssertValid, WriteWalPrepare, WriteSnapshot, WriteWalCommit, WriteTransactionRecord,
     WriteCurrent, WriteManifest, memVars, Goto, OnlyMoves, Committing, Writes
<1>8. CASE WriteObjectRecords(m)
  BY <1>0, <1>8 DEF WriteObjectRecords, memVars, Goto, OnlyMoves, Jobs, Committing, Writes
<1>9. CASE WritePersistentIndex(m) \/ CommitState(m)
  BY <1>0, <1>9 DEF WritePersistentIndex, CommitState, Finished, memVars, Goto, OnlyMoves, Committing, Writes, Fences
<1> QED
  BY <1>1, <1>2, <1>3, <1>4, <1>5, <1>6, <1>7, <1>8, <1>9
     DEF Progress, AcquireTimeout, LockLost, AbortWork, RejectCommit, TargetFails

\* The invariant for the targets is inductive.
LEMMA TargetsNext == StartupOnly /\ TargetsApart /\ TargetsInv /\ [Next]_vars => TargetsInv'
<1> SUFFICES ASSUME StartupOnly, TargetsApart, TargetsInv, [Next]_vars PROVE TargetsInv'
  OBVIOUS
<1>1. StartupInv' /\ StartupInv
  BY StartupNext DEF TargetsInv
<1>2. CASE UNCHANGED vars
  BY <1>1, <1>2 DEF TargetsInv, TargetsWritten, vars
<1>3. CASE Next
  <2>1. PICK m \in Managers :
          \/ Progress(m)
          \/ Start(m) \/ Edit(m) \/ BeginStore(m) \/ BeginUpdate(m) \/ BeginTransaction(m)
          \/ AbortWork(m) \/ RejectCommit(m) \/ TargetFails(m) \/ Crash(m) \/ Shutdown(m)
    BY <1>3 DEF Next
  <2>2. CASE ~CommitEnvelope(m)
    <3>1. OnlyMoves(m)
      BY <1>1, <2>1, <2>2, CommitContinues
    <3>2. \A n \in Managers \ {m} : TargetsWritten(n)'
      BY <3>1 DEF OnlyMoves, TargetsInv, TargetsWritten
    <3>3. TargetsWritten(m)'
      BY <1>1, <2>1, <2>2, CommitContinues DEF TargetsInv, TargetsWritten, StartOps
    <3> QED
      BY <1>1, <3>2, <3>3 DEF TargetsInv
  <2>3. CASE CommitEnvelope(m)
    <3> DEFINE env == Serialize(heap[m])
               nodes == DOMAIN env
               requested == IF job[m].kind = "storeAll"
                            THEN CollectObjectIds(heap[m], job[m].targets, DOMAIN vers[m])
                            ELSE nodes
               written == ObjectIdsToWrite(m, nodes, requested)
               next == NextObjectVersions(m, nodes, written)
               d == NextTransactionId(m)
    <3>1. /\ job' = [job EXCEPT ![m].t = d, ![m].env = env, ![m].todo = written, ![m].vers = next]
          /\ pc' = [pc EXCEPT ![m] = IF options.wal THEN "prepare" ELSE "objects"]
      BY <2>3 DEF CommitEnvelope, Goto
    <3>2. ASSUME job[m].kind = "storeAll", NEW i \in DOMAIN job[m].targets, job[m].targets[i] \in nodes
          PROVE  next[job[m].targets[i]] = d
      <4>1. heap[m] \in Heaps /\ job[m].targets \in TargetLists \cup {<<>>}
        BY <1>1 DEF StartupInv, TypeInv, TypeOK, Jobs
      <4>2. nodes = Closure(heap[m], {Root})
        BY DEF Serialize
      <4>3. job[m].targets[i] \in written
        BY <3>2, <4>1, <4>2, TargetsChosen DEF ObjectIdsToWrite
      <4> QED
        BY <3>2, <4>3 DEF NextObjectVersions
    <3>3. nodes = DOMAIN env
      OBVIOUS
    <3> HIDE DEF env, nodes, written, next, d
    <3>4. /\ OnlyMoves(m)
          /\ job'[m].kind = job[m].kind /\ job'[m].targets = job[m].targets
          /\ job'[m].t = d /\ job'[m].env = env /\ job'[m].vers = next
      <4>1. pc \in [Managers -> Steps] /\ job \in [Managers -> Jobs] /\ job[m] \in Jobs
        BY <1>1 DEF StartupInv, TypeInv, TypeOK
      <4> QED
        BY <3>1, <4>1 DEF OnlyMoves, Jobs
    <3>5. TargetsWritten(m)'
      BY <3>2, <3>3, <3>4 DEF TargetsWritten
    <3>6. \A n \in Managers \ {m} : TargetsWritten(n)'
      BY <3>4 DEF OnlyMoves, TargetsInv, TargetsWritten
    <3> QED
      BY <1>1, <3>5, <3>6 DEF TargetsInv
  <2> QED
    BY <2>2, <2>3
<1> QED
  BY <1>2, <1>3

\* When a store call succeeds, the manifest shows every object it was asked to
\* store as the application had it, as long as no argument of storeAll is reached
\* from an earlier one: such an argument is not forced (see the README).
THEOREM StartupStoredTargetsArePublished ==
    ASSUME StartupOnly, TargetsApart
    PROVE  Spec => []StoredTargetsArePublished
<1>1. Init => TargetsInv
  BY StartupInit DEF Init, TargetsInv, TargetsWritten, Committing, Writes, Fences
<1>2. TargetsInv /\ [Next]_vars => TargetsInv'
  BY TargetsNext
<1>3. TargetsInv => StoredTargetsArePublished
  <2> SUFFICES ASSUME TargetsInv, NEW m \in Managers, pc[m] = "commitState", job[m].kind \in DirectOps
               PROVE  /\ manifest.tid = job[m].t
                      /\ \A o \in DOMAIN job[m].env :
                            (job[m].kind = "storeAll" => o \in {job[m].targets[i] : i \in DOMAIN job[m].targets})
                            => records[o][manifest.vers[o]] = <<job[m].env[o]>>
    BY DEF StoredTargetsArePublished
  <2>1. PICK k \in 0..MaxTid : FilesInv(k) /\ \A n \in Managers : Active(n) => JobInv(n, k)
    BY DEF TargetsInv, StartupInv
  <2>2. JobInv(m, k) /\ pc[m] \in Committing
    BY <2>1 DEF Active, Committing
  <2>3. ~Unborn(m) /\ job[m].kind \notin StartOps
    BY DEF Unborn, StartOps, DirectOps
  <2>4. manifest.tid = job[m].t /\ manifest.vers = job[m].vers
    BY <2>2, <2>3 DEF JobInv, DurableInv
  <2>5. ASSUME NEW o \in DOMAIN job[m].env,
               job[m].kind = "storeAll" => o \in {job[m].targets[i] : i \in DOMAIN job[m].targets}
        PROVE  records[o][manifest.vers[o]] = <<job[m].env[o]>>
    <3>1. job[m].vers[o] = job[m].t
      BY <2>2, <2>5 DEF JobInv, WrittenInv, TargetsInv, TargetsWritten
    <3>2. o \notin job[m].todo
      BY <2>2 DEF JobInv, WrittenInv
    <3> QED
      BY <2>2, <2>4, <2>5, <3>1, <3>2 DEF JobInv, WrittenInv
  <2> QED
    BY <2>4, <2>5
<1> QED
  BY <1>1, <1>2, <1>3, PTL DEF Spec

-----------------------------------------------------------------------------
(* Second part: commits of the whole graph *)

\* No store of chosen targets.
WholeOnly == StartupOnly /\ "storeAll" \notin Ops

-----------------------------------------------------------------------------
(* The inductive invariant, on top of StartupInv *)

\* A graph that serialize() may return: every object of it is reached from the root.
Generated(env) == \E h \in Heaps : env = Serialize(h)

\* Commits are whole graphs.
HistoryInv == \A t \in Tids : history[t] # NoCommit =>
    Generated(history[t].graph) /\ history[t].stored = history[t].graph

\* The index, the transaction records and the snapshots of commits are theirs.
\* Without a WAL they may also belong to a commit that never became durable.
SidecarInv ==
    /\ \A t \in Tids : index.tid = t /\ history[t] # NoCommit => index.env = history[t].graph
    /\ options.wal /\ index.tid > 0 => history[index.tid] # NoCommit
    /\ options.wal => \A t \in Tids : txns[t] # NoEnvelope => txns[t] = history[t].graph
    /\ ~options.snapshots => \A t \in Tids : snapshots[t] = NoEnvelope

\* The graph of a commit is that of its manager, the index is written just before
\* the commit becomes durable, and a repair publishes the graph that was loaded.
MemoryInv(m) ==
    /\ pc[m] \in Committing /\ job[m].kind \notin StartOps => job[m].env = Serialize(heap[m])
    /\ pc[m] \in Committing /\ job[m].kind = "repair" => heap[m] = Deserialize(job[m].env)
    /\ pc[m] = "snapshot" => options.snapshots
    /\ ~options.wal /\ pc[m] \in {"fenceCurrent", "current"} => index = IndexRecord(m)

SerialInv == StartupInv /\ WholeInv /\ HistoryInv /\ SidecarInv /\ \A m \in Managers : MemoryInv(m)

-----------------------------------------------------------------------------
(* Graphs *)

\* What the walk meets contains its start and the references of its objects.
LEMMA ClosureClosed ==
    ASSUME NEW h \in Heaps, NEW from \in SUBSET Objects
    PROVE  /\ Closure(h, from) \subseteq Objects
           /\ from \subseteq Closure(h, from)
           /\ \A o \in Closure(h, from) : Refs[h[o]] \subseteq Closure(h, from)
<1>1. Closure(h, from) \subseteq Objects /\ from \subseteq Closure(h, from)
  BY DEF Closure
<1>2. ASSUME NEW o \in Closure(h, from), NEW p \in Refs[h[o]]
      PROVE  p \in Closure(h, from)
  <2>1. p \in Objects
    BY <1>1, <1>2, StoreAssumptions DEF Heaps
  <2>2. ASSUME NEW S \in SUBSET Objects, from \subseteq S, \A q \in S : Refs[h[q]] \subseteq S
        PROVE  p \in S
    BY <1>2, <2>2 DEF Closure
  <2> QED
    BY <2>1, <2>2 DEF Closure
<1> QED
  BY <1>1, <1>2

\* It meets nothing else.
LEMMA ClosureLeast ==
    ASSUME NEW h, NEW from, NEW S \in SUBSET Objects, from \subseteq S,
           \A q \in S : Refs[h[q]] \subseteq S
    PROVE  Closure(h, from) \subseteq S
BY DEF Closure

\* A graph that was serialized deserializes to one that serializes to the same.
LEMMA SerializeAgain ==
    ASSUME NEW env, Generated(env)
    PROVE  Serialize(Deserialize(env)) = env
<1>1. PICK h \in Heaps : env = Serialize(h)
  BY DEF Generated
<1> DEFINE h2 == Deserialize(env)
           C == Closure(h, {Root})
           D == Closure(h2, {Root})
<1>2. {Root} \in SUBSET Objects
  BY StoreAssumptions
<1>3. DOMAIN env = C /\ (\A o \in C : env[o] = h[o]) /\ env \in Envelopes
  BY <1>1, SerializeType DEF Serialize
<1>4. h2 \in Heaps
  BY <1>3, DeserializeType
<1>5. C \subseteq Objects /\ Root \in C /\ \A o \in C : Refs[h[o]] \subseteq C
  BY <1>2, ClosureClosed
<1>6. D \subseteq Objects /\ Root \in D /\ \A o \in D : Refs[h2[o]] \subseteq D
  BY <1>2, <1>4, ClosureClosed
<1>7. \A o \in C : h2[o] = h[o]
  BY <1>3, <1>5 DEF Deserialize
<1> HIDE DEF h2, C, D
<1>8. D \subseteq C
  BY <1>2, <1>5, <1>7, ClosureLeast DEF D
<1>9. \A o \in D : Refs[h[o]] \subseteq D
  BY <1>6, <1>7, <1>8
<1>10. C \subseteq D
  BY <1>2, <1>6, <1>9, ClosureLeast DEF C
<1>11. Serialize(h2) = [o \in D |-> h2[o]]
  BY DEF Serialize, D
<1>12. env = [o \in C |-> h[o]]
  BY <1>1 DEF Serialize, C
<1>13. D = C
  BY <1>8, <1>10
<1>14. [o \in D |-> h2[o]] = [o \in C |-> h[o]]
  BY <1>7, <1>13
<1> QED
  BY <1>11, <1>12, <1>14 DEF h2

\* Without an envelope the factory's graph is taken.
LEMMA DeserializeNothing == Deserialize(NoEnvelope) = FactoryHeap
<1>1. FactoryHeap = [o \in Objects |-> FactoryHeap[o]]
  BY StoreAssumptions DEF Heaps
<1> QED
  BY <1>1, EmptyTypes DEF Deserialize

\* No reference of a serialized graph dangles.
LEMMA GeneratedIsClosed ==
    ASSUME NEW env, Generated(env)
    PROVE  Closed(env) /\ env \in Envelopes /\ env # NoEnvelope
<1>1. PICK h \in Heaps : env = Serialize(h)
  BY DEF Generated
<1>2. {Root} \in SUBSET Objects
  BY StoreAssumptions
<1>3. Closure(h, {Root}) \subseteq Objects /\ Root \in Closure(h, {Root})
      /\ \A o \in Closure(h, {Root}) : Refs[h[o]] \subseteq Closure(h, {Root})
  BY <1>2, ClosureClosed
<1>4. DOMAIN env = Closure(h, {Root}) /\ \A o \in Closure(h, {Root}) : env[o] = h[o]
  BY <1>1 DEF Serialize
<1>5. env \in Envelopes
  BY <1>1, SerializeType
<1> QED
  BY <1>3, <1>4, <1>5, EmptyTypes DEF Closed

-----------------------------------------------------------------------------
(* What steps do to the memory of managers *)

StepOf(m) ==
    \/ Progress(m)
    \/ Start(m) \/ Edit(m) \/ BeginStore(m) \/ BeginUpdate(m) \/ BeginTransaction(m)
    \/ AbortWork(m) \/ RejectCommit(m) \/ TargetFails(m) \/ Crash(m) \/ Shutdown(m)

\* A step belongs to one manager, the others keep their graphs and ids.
LEMMA OthersRemember ==
    ASSUME TypeInv, NEW m \in Managers, StepOf(m)
    PROVE  \A n \in Managers \ {m} : heap'[n] = heap[n] /\ tid'[n] = tid[n]
<1>0. heap \in [Managers -> Heaps] /\ tid \in [Managers -> 0..MaxTid]
  BY DEF TypeInv, TypeOK
<1>1. CASE Throw(m)
  BY <1>0, <1>1 DEF Throw, Forget
<1>2. CASE Edit(m)
  BY <1>0, <1>2 DEF Edit
<1>3. CASE Crash(m) \/ Shutdown(m)
  BY <1>0, <1>3 DEF Crash, Shutdown, Forget
<1>4. CASE (ReadWal(m) \/ ReadObjects(m)) /\ ~Throw(m)
  <2>1. ASSUME NEW env, NEW t, NEW versions, NEW source, Adopt(m, env, t, versions, source)
        PROVE  \A n \in Managers \ {m} : heap'[n] = heap[n] /\ tid'[n] = tid[n]
    BY <1>0, <2>1 DEF Adopt
  <2> QED
    BY <1>4, <2>1 DEF ReadWal, ReadObjects, Load, memVars
<1>5. CASE CommitState(m)
  BY <1>0, <1>5 DEF CommitState
<1>6. CASE /\ Progress(m)
           /\ ~Throw(m) /\ ~ReadWal(m) /\ ~ReadObjects(m) /\ ~CommitState(m)
  BY <1>6 DEF Progress, Acquire, AcquireTimeout, Release, AssertValid, LockLost, ListWal, Recover,
     ReadManifest, EndWork, CheckConflict, CommitEnvelope,
     WriteWalPrepare, WriteObjectRecords, WriteSnapshot, WriteWalCommit, WriteTransactionRecord,
     WritePersistentIndex, WriteCurrent, WriteManifest, memVars
<1>7. CASE Start(m) \/ BeginStore(m) \/ BeginUpdate(m) \/ BeginTransaction(m)
  BY <1>7 DEF Start, BeginStore, BeginUpdate, BeginTransaction, memVars
<1> QED
  BY <1>1, <1>2, <1>3, <1>4, <1>5, <1>6, <1>7 DEF StepOf, AbortWork, RejectCommit, TargetFails

\* A loaded envelope becomes the graph of the manager.
LEMMA AdoptedGraph ==
    ASSUME StartupInv, NEW m \in Managers, NEW env, NEW t, NEW versions, NEW source,
           Adopt(m, env, t, versions, source)
    PROVE  /\ heap'[m] = Deserialize(env) /\ tid'[m] = t
           /\ \/ pc'[m] \in {"idle", "work"}
              \/ pc'[m] = "objects" /\ job'[m].kind = "repair" /\ job'[m].env = env
<1>0. /\ pc \in [Managers -> Steps] /\ job \in [Managers -> Jobs] /\ job[m] \in Jobs
      /\ heap \in [Managers -> Heaps] /\ tid \in [Managers -> 0..MaxTid]
  BY DEF StartupInv, TypeInv, TypeOK
<1>1. heap'[m] = Deserialize(env) /\ tid'[m] = t
  BY <1>0 DEF Adopt
<1>2. CASE job[m].kind = "start" /\ source = "snapshot"
  BY <1>0, <1>1, <1>2 DEF Adopt, Goto, Jobs
<1>3. CASE ~(job[m].kind = "start" /\ source = "snapshot")
  BY <1>0, <1>1, <1>3 DEF Adopt, Goto
<1> QED
  BY <1>2, <1>3

\* Where a commit goes from its records and from its index.
LEMMA CommitPoints ==
    ASSUME StartupInv, NEW m \in Managers, StepOf(m)
    PROVE  /\ pc'[m] = "snapshot" => WriteObjectRecords(m) /\ options.snapshots
           /\ pc'[m] \in {"fenceCurrent", "current"} =>
                  WritePersistentIndex(m) \/ (AssertValid(m) /\ pc[m] = "fenceCurrent")
<1> DEFINE P == {"snapshot", "fenceCurrent", "current"}
<1>0. /\ pc \in [Managers -> Steps] /\ job \in [Managers -> Jobs] /\ job[m] \in Jobs
  BY DEF StartupInv, TypeInv, TypeOK
<1>1. CASE Throw(m)
  BY <1>0, <1>1 DEF Throw, Forget, Goto, Finished
<1>2. CASE Start(m) \/ Edit(m) \/ BeginStore(m) \/ BeginUpdate(m) \/ BeginTransaction(m)
  <2>1. CASE Start(m) \/ BeginUpdate(m)
    BY <1>0, <2>1 DEF Start, BeginUpdate, Goto
  <2>2. CASE Edit(m)
    BY <1>0, <2>2, StoreAssumptions DEF Edit
  <2>3. CASE BeginStore(m) \/ BeginTransaction(m)
    <3>1. PICK kind : WithWriteLock(m, kind) \/ Goto(m, "readManifest")
      BY <2>3 DEF BeginStore, BeginTransaction
    <3> QED
      BY <1>0, <3>1 DEF WithWriteLock, Locked, Goto
  <2> QED
    BY <1>2, <2>1, <2>2, <2>3
<1>3. CASE Crash(m) \/ Shutdown(m)
  BY <1>0, <1>3 DEF Crash, Shutdown, Forget, Goto
<1>4. CASE Acquire(m) \/ Release(m) \/ ListWal(m) \/ ReadManifest(m) \/ EndWork(m) \/ (CheckConflict(m) /\ ~Throw(m))
  BY <1>0, <1>4 DEF Acquire, Release, ListWal, ReadManifest, EndWork, CheckConflict, WithWriteLock, Locked, Goto
<1>5. CASE Recover(m)
  BY <1>0, <1>5 DEF Recover, Goto
<1>6. CASE (ReadWal(m) \/ ReadObjects(m)) /\ ~Throw(m)
  <2>1. CASE Goto(m, "readObjects")
    BY <1>0, <2>1 DEF Goto
  <2>2. CASE \E env, t, versions, source : Adopt(m, env, t, versions, source)
    BY <2>2, AdoptedGraph
  <2> QED
    BY <1>6, <2>1, <2>2 DEF ReadWal, ReadObjects, Load
<1>7. CASE CommitEnvelope(m) \/ WriteWalPrepare(m) \/ WriteSnapshot(m) \/ WriteWalCommit(m)
           \/ WriteTransactionRecord(m) \/ WriteCurrent(m) \/ WriteManifest(m)
  BY <1>0, <1>7 DEF CommitEnvelope, WriteWalPrepare, WriteSnapshot, WriteWalCommit, WriteTransactionRecord,
     WriteCurrent, WriteManifest, Goto
<1>8. CASE WriteObjectRecords(m)
  BY <1>0, <1>8 DEF WriteObjectRecords, AfterObjects, Goto
<1>9. CASE WritePersistentIndex(m) \/ CommitState(m)
  BY <1>0, <1>9 DEF WritePersistentIndex, CommitState, Finished, Goto
<1>10. CASE AssertValid(m)
  BY <1>0, <1>10 DEF AssertValid, AfterFence, Fences, Goto
<1> QED
  BY <1>1, <1>2, <1>3, <1>4, <1>5, <1>6, <1>7, <1>8, <1>9, <1>10
     DEF StepOf, Progress, AcquireTimeout, LockLost, AbortWork, RejectCommit, TargetFails

\* Each sidecar file has one action that writes it.
LEMMA SidecarsStay ==
    ASSUME NEW m \in Managers, StepOf(m)
    PROVE  /\ options' = options
           /\ WritePersistentIndex(m) \/ index' = index
           /\ WriteTransactionRecord(m) \/ txns' = txns
           /\ WriteSnapshot(m) \/ snapshots' = snapshots
<1>1. CASE Throw(m)
  BY <1>1 DEF Throw, diskVars
<1>2. CASE ~Throw(m) /\ Progress(m)
  BY <1>2 DEF Progress, Acquire, AcquireTimeout, Release, AssertValid, LockLost, ListWal, Recover,
     ReadManifest, ReadWal, ReadObjects, Load, Adopt, EndWork, CheckConflict, CommitEnvelope,
     WriteWalPrepare, WriteObjectRecords, WriteSnapshot, WriteWalCommit, WriteTransactionRecord,
     WritePersistentIndex, WriteCurrent, WriteManifest, CommitState, diskVars
<1>3. CASE ~Throw(m) /\ ~Progress(m)
  BY <1>3 DEF StepOf, Start, Edit, BeginStore, BeginUpdate, BeginTransaction, AbortWork, RejectCommit,
     TargetFails, Crash, Shutdown, diskVars
<1> QED
  BY <1>1, <1>2, <1>3

\* What a commit of the whole graph is recorded to store.
LEMMA WholeHistory ==
    ASSUME WholeOnly, SerialInv, NEW m \in Managers, NEW k \in 0..MaxTid,
           FilesInv(k), JobInv(m, k), pc[m] \in Committing, pc[m] = DurableStep, RecordHistory(m),
           job[m].kind \notin StartOps, job[m].t = k + 1
    PROVE  /\ k + 1 \in Tids
           /\ \A t \in Tids : t # k + 1 => history'[t] = history[t]
           /\ history'[k + 1] = [graph |-> job[m].env, stored |-> job[m].env]
           /\ \A t \in Tids : history[t] # NoCommit <=> t <= k
           /\ \A t \in Tids : history'[t] # NoCommit <=> t <= k + 1
<1>1. StartupInv /\ job[m].kind # "storeAll"
  BY DEF SerialInv, WholeInv
<1>2. /\ k + 1 \in Tids
      /\ \A t \in Tids : t # k + 1 => history'[t] = history[t]
      /\ \A t \in Tids : history'[t] # NoCommit <=> t <= k + 1
  BY <1>1, HistoryGrows
<1>3. job[m].env = [o \in DOMAIN job[m].env |-> job[m].env[o]]
  BY <1>1, CommitFacts DEF Envelopes
<1>4. history' = [history EXCEPT ![k + 1] = [graph |-> job[m].env, stored |-> job[m].env]]
  <2>1. \A o \in DOMAIN job[m].env :
          job[m].kind # "storeAll" \/ job[m].vers[o] = job[m].t \/ records[o][job[m].vers[o]] = <<>>
    BY <1>1
  <2> QED
    BY <1>3, <2>1 DEF RecordHistory
<1>5. history \in [Tids -> [graph : Envelopes, stored : Envelopes]]
  BY <1>1 DEF StartupInv, TypeInv, TypeOK
<1>6. history'[k + 1] = [graph |-> job[m].env, stored |-> job[m].env]
  BY <1>2, <1>4, <1>5
<1> QED
  BY <1>2, <1>6 DEF FilesInv, CommitsInv, TopIs

\* A whole-graph commit in a step that changes the history.
LEMMA DurableWhole ==
    ASSUME WholeOnly, SerialInv, NEW m \in Managers, StepOf(m), history' # history
    PROVE  \E k \in 0..MaxTid :
              /\ FilesInv(k) /\ JobInv(m, k)
              /\ pc[m] \in Committing /\ pc[m] = DurableStep /\ Unborn(m)
              /\ job[m].kind \notin StartOps /\ job[m].t = k + 1
              /\ WriteWalCommit(m) \/ WriteCurrent(m) \/ WriteManifest(m)
              /\ k + 1 \in Tids
              /\ \A t \in Tids : t # k + 1 => history'[t] = history[t]
              /\ history'[k + 1] = [graph |-> job[m].env, stored |-> job[m].env]
              /\ \A t \in Tids : history[t] # NoCommit <=> t <= k
              /\ \A t \in Tids : history'[t] # NoCommit <=> t <= k + 1
<1>1. WriteWalCommit(m) \/ WriteCurrent(m) \/ WriteManifest(m)
  BY HistoryStays DEF StepOf
<1>2. PICK k \in 0..MaxTid :
              /\ FilesInv(k) /\ JobInv(m, k)
              /\ pc[m] \in Committing /\ pc[m] = DurableStep /\ RecordHistory(m)
              /\ job[m].kind \notin StartOps /\ job[m].t = k + 1 /\ Unborn(m)
  BY <1>1, NextCommit DEF WholeOnly, SerialInv
<1> QED
  BY <1>1, <1>2, WholeHistory

\* Commits are whole graphs.
LEMMA HistoryStep ==
    ASSUME WholeOnly, SerialInv, NEW m \in Managers, StepOf(m)
    PROVE  HistoryInv'
<1>1. CASE history' = history
  BY <1>1 DEF SerialInv, HistoryInv
<1>2. CASE history' # history
  <2>1. PICK k \in 0..MaxTid :
              /\ pc[m] \in Committing /\ job[m].kind \notin StartOps /\ k + 1 \in Tids
              /\ \A t \in Tids : t # k + 1 => history'[t] = history[t]
              /\ history'[k + 1] = [graph |-> job[m].env, stored |-> job[m].env]
    BY <1>2, DurableWhole
  <2>2. Generated(job[m].env)
    BY <2>1 DEF SerialInv, MemoryInv, Generated, StartupInv, TypeInv, TypeOK
  <2> QED
    BY <2>1, <2>2 DEF SerialInv, HistoryInv
<1> QED
  BY <1>1, <1>2

\* Where a commit stands when it writes a sidecar.
LEMMA SidecarJob ==
    ASSUME StartupInv, NEW m \in Managers, pc[m] \in {"record", "index"}
    PROVE  \E k \in 0..MaxTid :
              /\ FilesInv(k) /\ job[m].t \in Tids
              /\ \A t \in Tids : history[t] # NoCommit <=> t <= k
              /\ \/ job[m].t = k /\ job[m].env = history[k].graph
                 \/ job[m].t = k + 1 /\ ~options.wal
<1>1. PICK k \in 0..MaxTid : FilesInv(k) /\ \A n \in Managers : Active(n) => JobInv(n, k)
  BY DEF StartupInv
<1>2. pc[m] \in Committing
  BY DEF Committing, Writes
<1>3. JobInv(m, k) /\ job[m].t \in Tids
  BY <1>1, <1>2, CommitFacts
<1>4. CASE job[m].kind \in StartOps
  BY <1>1, <1>2, <1>3, <1>4, CommitFacts
     DEF JobInv, RecoverInv, StartOps, DirectOps, TransactionOps, FilesInv, CommitsInv, TopIs
<1>5. CASE job[m].kind \notin StartOps /\ Unborn(m)
  <2>1. ~options.wal
    BY <1>5 DEF Unborn
  <2> QED
    BY <1>1, <1>2, <1>3, <1>5, <2>1 DEF JobInv, UnbornInv, FilesInv, CommitsInv, TopIs
<1>6. CASE job[m].kind \notin StartOps /\ ~Unborn(m)
  BY <1>1, <1>2, <1>3, <1>6 DEF JobInv, DurableInv, FilesInv, CommitsInv, TopIs
<1> QED
  BY <1>4, <1>5, <1>6

\* The sidecars of commits are theirs.
LEMMA SidecarStep ==
    ASSUME WholeOnly, SerialInv, NEW m \in Managers, StepOf(m)
    PROVE  SidecarInv'
<1>0. /\ StartupInv /\ SidecarInv /\ MemoryInv(m) /\ options' = options
      /\ index.tid \in 0..MaxTid /\ MaxTid \in Nat
      /\ txns \in [Tids -> Envelopes] /\ snapshots \in [Tids -> Envelopes]
  BY SidecarsStay, StoreAssumptions DEF SerialInv, StartupInv, TypeInv, TypeOK
<1>1. CASE history' # history
  <2>1. PICK k \in 0..MaxTid :
              /\ FilesInv(k)
              /\ pc[m] = DurableStep /\ Unborn(m)
              /\ WriteWalCommit(m) \/ WriteCurrent(m) \/ WriteManifest(m)
              /\ job[m].t = k + 1 /\ k + 1 \in Tids
              /\ \A t \in Tids : t # k + 1 => history'[t] = history[t]
              /\ history'[k + 1] = [graph |-> job[m].env, stored |-> job[m].env]
              /\ \A t \in Tids : history[t] # NoCommit <=> t <= k
              /\ \A t \in Tids : history'[t] # NoCommit <=> t <= k + 1
    BY <1>1, DurableWhole
  <2>2. UNCHANGED <<index, txns, snapshots>>
    BY <2>1 DEF WriteWalCommit, WriteCurrent, WriteManifest
  <2>3. k \in Int
    OBVIOUS
  <2>4. \A t \in Tids : history[t] # NoCommit => history'[t] = history[t] /\ history'[t] # NoCommit
    BY <2>1, <2>3 DEF Tids
  <2>5. index.tid = k + 1 => index.env = job[m].env
    <3>1. CASE options.wal
      <4>1. index.tid > 0 => history[index.tid] # NoCommit
        BY <1>0, <3>1 DEF SidecarInv
      <4> QED
        BY <1>0, <2>1, <2>3, <4>1 DEF Tids
    <3>2. CASE ~options.wal
      <4>1. pc[m] = "current"
        <5>1. options.snapshots
          BY <1>0, <3>2 DEF WholeOnly, StartupOnly, StartupInv, TypeInv, TypeOK
        <5> QED
          BY <2>1, <3>2, <5>1 DEF DurableStep
      <4> QED
        BY <1>0, <3>2, <4>1 DEF MemoryInv, IndexRecord
    <3> QED
      BY <3>1, <3>2
  <2>6. options.wal => \A t \in Tids : txns[t] # NoEnvelope => t # k + 1
    BY <2>1, <2>3 DEF FilesInv, PublishedInv
  <2>7. \A t \in Tids : index.tid = t /\ history'[t] # NoCommit => index.env = history'[t].graph
    <3>1. ASSUME NEW t \in Tids, index.tid = t, history'[t] # NoCommit, t # k + 1
          PROVE  index.env = history'[t].graph
      BY <1>0, <2>1, <2>3, <3>1 DEF SidecarInv
    <3> QED
      BY <2>1, <2>5, <3>1
  <2>8. options.wal /\ index.tid > 0 => history'[index.tid] # NoCommit
    BY <1>0, <2>4 DEF SidecarInv, Tids
  <2>9. options.wal => \A t \in Tids : txns[t] # NoEnvelope => txns[t] = history'[t].graph
    BY <1>0, <2>1, <2>6 DEF SidecarInv
  <2> QED
    BY <1>0, <2>2, <2>7, <2>8, <2>9 DEF SidecarInv
<1>2. CASE history' = history /\ WritePersistentIndex(m)
  <2>1. pc[m] = "index" /\ index' = [tid |-> job[m].t, env |-> job[m].env] /\ UNCHANGED <<txns, snapshots>>
    BY <1>2 DEF WritePersistentIndex, IndexRecord
  <2>2. PICK k \in 0..MaxTid :
              /\ FilesInv(k) /\ job[m].t \in Tids
              /\ \A t \in Tids : history[t] # NoCommit <=> t <= k
              /\ \/ job[m].t = k /\ job[m].env = history[k].graph
                 \/ job[m].t = k + 1 /\ ~options.wal
    BY <1>0, <2>1, SidecarJob
  <2>3. \A t \in Tids : index'.tid = t /\ history[t] # NoCommit => index'.env = history[t].graph
    BY <2>1, <2>2 DEF Tids
  <2>4. options.wal => history[index'.tid] # NoCommit
    BY <2>1, <2>2 DEF Tids
  <2> QED
    BY <1>0, <1>2, <2>1, <2>3, <2>4 DEF SidecarInv
<1>3. CASE history' = history /\ WriteTransactionRecord(m)
  <2>1. /\ pc[m] = "record" /\ UNCHANGED <<index, snapshots>>
        /\ txns' = IF LatestTxn = job[m].t THEN txns ELSE [txns EXCEPT ![job[m].t] = job[m].env]
    BY <1>3 DEF WriteTransactionRecord
  <2>2. PICK k \in 0..MaxTid :
              /\ job[m].t \in Tids
              /\ \/ job[m].t = k /\ job[m].env = history[k].graph
                 \/ job[m].t = k + 1 /\ ~options.wal
    BY <1>0, <2>1, SidecarJob
  <2>3. options.wal => \A t \in Tids : txns'[t] # NoEnvelope => txns'[t] = history[t].graph
    BY <1>0, <2>1, <2>2 DEF SidecarInv
  <2> QED
    BY <1>0, <1>3, <2>1, <2>3 DEF SidecarInv
<1>4. CASE history' = history /\ WriteSnapshot(m)
  <2>1. pc[m] = "snapshot" /\ UNCHANGED <<index, txns>>
    BY <1>4 DEF WriteSnapshot
  <2>2. options.snapshots
    BY <1>0, <2>1 DEF MemoryInv
  <2> QED
    BY <1>0, <1>4, <2>1, <2>2 DEF SidecarInv
<1>5. CASE history' = history /\ ~WritePersistentIndex(m) /\ ~WriteTransactionRecord(m) /\ ~WriteSnapshot(m)
  <2>1. UNCHANGED <<index, txns, snapshots>>
    BY <1>5, SidecarsStay
  <2> QED
    BY <1>0, <1>5, <2>1 DEF SidecarInv
<1> QED
  BY <1>1, <1>2, <1>3, <1>4, <1>5

\* What the acting manager's memory holds after its step.
LEMMA ActorMemory ==
    ASSUME WholeOnly, SerialInv, NEW m \in Managers, StepOf(m)
    PROVE  MemoryInv(m)'
<1>0. /\ StartupInv /\ MemoryInv(m) /\ options' = options
      /\ pc \in [Managers -> Steps] /\ job \in [Managers -> Jobs] /\ job[m] \in Jobs
  BY SidecarsStay DEF SerialInv, StartupInv, TypeInv, TypeOK
<1>1. pc'[m] = "snapshot" => options.snapshots
  BY <1>0, CommitPoints
<1>2. ~options.wal /\ pc'[m] \in {"fenceCurrent", "current"} => index' = IndexRecord(m)'
  <2>1. CASE WritePersistentIndex(m)
    <3>1. CASE job[m].kind = "repair"
      BY <1>0, <2>1, <3>1 DEF WritePersistentIndex, Goto
    <3>2. CASE job[m].kind # "repair"
      BY <2>1, <3>2 DEF WritePersistentIndex, IndexRecord
    <3> QED
      BY <3>1, <3>2
  <2>2. CASE ~WritePersistentIndex(m) /\ AssertValid(m) /\ pc[m] = "fenceCurrent"
    BY <1>0, <2>2 DEF AssertValid, MemoryInv, IndexRecord, diskVars
  <2> QED
    BY <1>0, <2>1, <2>2, CommitPoints
<1>3. CASE CommitEnvelope(m)
  <2> DEFINE env == Serialize(heap[m])
             written == ObjectIdsToWrite(m, DOMAIN env, IF job[m].kind = "storeAll"
                                  THEN CollectObjectIds(heap[m], job[m].targets, DOMAIN vers[m])
                                  ELSE DOMAIN env)
             next == NextObjectVersions(m, DOMAIN env, written)
             d == NextTransactionId(m)
  <2>1. /\ job' = [job EXCEPT ![m].t = d, ![m].env = env, ![m].todo = written, ![m].vers = next]
        /\ heap' = heap /\ pc[m] = "serialize"
    BY <1>3 DEF CommitEnvelope, memVars
  <2>2. env = Serialize(heap[m])
    OBVIOUS
  <2> HIDE DEF env, written, next, d
  <2>3. job'[m].env = env /\ job'[m].kind = job[m].kind
    BY <1>0, <2>1 DEF Jobs
  <2>4. job[m].kind # "repair"
    <3>1. Active(m)
      BY <2>1 DEF Active
    <3>2. PICK k \in 0..MaxTid : JobInv(m, k)
      BY <1>0, <3>1 DEF StartupInv
    <3> QED
      BY <2>1, <3>2 DEF JobInv, LoadInv, DirectOps, TransactionOps
  <2> QED
    BY <1>1, <1>2, <1>0, <2>1, <2>2, <2>3, <2>4 DEF MemoryInv
<1>4. CASE ~CommitEnvelope(m)
  <2>1. /\ pc'[m] \in Committing /\ job'[m].kind \notin StartOps => job'[m].env = Serialize(heap'[m])
        /\ pc'[m] \in Committing /\ job'[m].kind = "repair" => heap'[m] = Deserialize(job'[m].env)
    <3>1. CASE pc'[m] \notin Committing
      BY <3>1
    <3>2. CASE job'[m].kind \in StartOps /\ Recover(m)
      <4>1. job'[m].kind # "repair"
        <5>1. CASE job' = [job EXCEPT ![m] = [NoJob EXCEPT !.kind = "start"]]
          BY <1>0, <5>1 DEF NoJob
        <5>2. ASSUME NEW t, job' = [job EXCEPT ![m].kind = "recover", ![m].wal = {u \in @ : t < u},
                                  ![m].t = t, ![m].env = prepares[t],
                                  ![m].vers = AllAt(prepares[t], t),
                                  ![m].todo = DOMAIN prepares[t]]
              PROVE  job'[m].kind = "recover"
          BY <1>0, <5>2 DEF Jobs
        <5> QED
          BY <3>2, <5>1, <5>2 DEF Recover
      <4> QED
        BY <3>2, <4>1
    <3>3. CASE job'[m].kind \in StartOps /\ (ReadWal(m) \/ ReadObjects(m))
      <4>1. CASE Throw(m)
        BY <1>0, <4>1 DEF Throw, Forget, Goto, Finished, Committing, Writes, Fences
      <4>2. CASE Goto(m, "readObjects")
        BY <1>0, <4>2 DEF Goto, Committing, Writes, Fences
      <4>3. CASE \E env, t, versions, source : Adopt(m, env, t, versions, source)
        BY <1>0, <3>3, <4>3, AdoptedGraph DEF Committing, Writes, Fences
      <4> QED
        BY <3>3, <4>1, <4>2, <4>3 DEF ReadWal, ReadObjects, Load
    <3>4. CASE /\ pc[m] \in Committing /\ heap' = heap
               /\ job'[m].kind = job[m].kind /\ job'[m].env = job[m].env
      BY <1>0, <3>4 DEF MemoryInv
    <3> QED
      BY <1>0, <1>4, <3>1, <3>2, <3>3, <3>4, CommitContinues DEF StepOf
  <2> QED
    BY <1>0, <1>1, <1>2, <2>1 DEF MemoryInv
<1> QED
  BY <1>3, <1>4

\* A step moves one manager.
LEMMA OthersStay ==
    ASSUME StartupInv, NEW m \in Managers, StepOf(m)
    PROVE  OnlyMoves(m)
<1>1. CASE CommitEnvelope(m)
  BY <1>1 DEF CommitEnvelope, Goto, OnlyMoves, StartupInv, TypeInv, TypeOK
<1> QED
  BY <1>1, CommitContinues DEF StepOf

\* What every manager's memory holds after a step.
LEMMA MemoryStep ==
    ASSUME WholeOnly, SerialInv, NEW m \in Managers, StepOf(m)
    PROVE  \A n \in Managers : MemoryInv(n)'
<1>0. StartupInv /\ options' = options
  BY SidecarsStay DEF SerialInv
<1>1. ASSUME NEW n \in Managers, n # m
      PROVE  MemoryInv(n)'
  <2>1. pc'[n] = pc[n] /\ job'[n] = job[n] /\ heap'[n] = heap[n] /\ MemoryInv(n)
    BY <1>0, <1>1, OthersStay, OthersRemember DEF OnlyMoves, StartupInv, SerialInv
  <2>2. pc[n] \in {"fenceCurrent", "current"} => index' = index
    <3>1. CASE WritePersistentIndex(m)
      <4>1. pc[n] \notin {"fenceCurrent", "current"}
        BY <1>0, <1>1, <3>1, OneActive DEF WritePersistentIndex, Active, StartupInv
      <4> QED
        BY <4>1
    <3> QED
      BY <3>1, SidecarsStay
  <2> QED
    BY <1>0, <2>1, <2>2 DEF MemoryInv, IndexRecord
<1> QED
  BY <1>1, ActorMemory

\* The invariant holds of a store that was never opened.
LEMMA SerialInit == Init => SerialInv
<1> SUFFICES ASSUME Init PROVE SerialInv
  OBVIOUS
<1>1. HistoryInv
  BY DEF Init, HistoryInv
<1>2. SidecarInv
  BY StoreAssumptions DEF Init, SidecarInv, NoIndex, Tids
<1>3. \A m \in Managers : MemoryInv(m)
  BY DEF Init, MemoryInv, Committing, Writes, Fences
<1> QED
  BY <1>1, <1>2, <1>3, StartupInit, WholeInit DEF SerialInv

\* Every step preserves the invariant.
LEMMA SerialNext == WholeOnly /\ SerialInv /\ [Next]_vars => SerialInv'
<1> SUFFICES ASSUME WholeOnly, SerialInv, [Next]_vars PROVE SerialInv'
  OBVIOUS
<1>1. StartupInv' /\ WholeInv'
  BY StartupNext, WholeNext DEF WholeOnly, SerialInv
<1>2. CASE UNCHANGED vars
  <2>1. HistoryInv' /\ SidecarInv'
    BY <1>2 DEF SerialInv, HistoryInv, SidecarInv, vars, diskVars
  <2>2. \A m \in Managers : MemoryInv(m)'
    BY <1>2 DEF SerialInv, MemoryInv, IndexRecord, vars, diskVars, memVars
  <2> QED
    BY <1>1, <2>1, <2>2 DEF SerialInv
<1>3. CASE Next
  <2>1. PICK m \in Managers : StepOf(m)
    BY <1>3 DEF Next, StepOf
  <2> QED
    BY <1>1, <2>1, HistoryStep, SidecarStep, MemoryStep DEF SerialInv
<1> QED
  BY <1>2, <1>3

\* The invariant holds in every behaviour.
LEMMA SerialAlways ==
    ASSUME WholeOnly
    PROVE  Spec => []SerialInv
<1>1. SerialInv /\ [Next]_vars => SerialInv'
  BY SerialNext
<1> QED
  BY <1>1, SerialInit, PTL DEF Spec

-----------------------------------------------------------------------------
(* Index and verifier *)

\* The graph that the manifest shows is the one its commit made durable.
LEMMA ManifestShowsGraph ==
    ASSUME SerialInv, manifest.tid > 0
    PROVE  \E k \in 0..MaxTid :
              /\ FilesInv(k) /\ manifest.tid \in Tids /\ manifest.tid <= k
              /\ history[manifest.tid] # NoCommit
              /\ EnvelopeFromManifest(manifest) = history[manifest.tid].graph
<1>1. PICK k \in 0..MaxTid : FilesInv(k)
  BY DEF SerialInv, StartupInv
<1>2. manifest.tid \in Tids /\ manifest.tid <= k /\ TypeInv
  BY <1>1, StoreAssumptions DEF SerialInv, StartupInv, TypeInv, TypeOK, Tids, FilesInv, ManifestInv
<1>3. history[manifest.tid] # NoCommit
  BY <1>1, <1>2 DEF FilesInv, CommitsInv, TopIs
<1>4. history[manifest.tid].stored = history[manifest.tid].graph
  BY <1>2, <1>3 DEF SerialInv, HistoryInv
<1>5. EnvelopeFromManifest(manifest) \in {history[manifest.tid].graph, history[manifest.tid].stored}
  BY <1>1, <1>2, ManifestShows DEF FilesInv
<1> QED
  BY <1>1, <1>2, <1>3, <1>4, <1>5

\* An index sidecar with the manifest's transaction id describes the manifest's
\* graph, whether the process died before or after either of them was written.
THEOREM StartupIndexMatchesManifest ==
    ASSUME WholeOnly
    PROVE  Spec => []IndexMatchesManifest
<1>1. SerialInv => IndexMatchesManifest
  BY ManifestShowsGraph DEF SerialInv, SidecarInv, IndexMatchesManifest
<1> QED
  BY <1>1, SerialAlways, PTL

\* No reference of the manifest's graph dangles.
LEMMA ClosedManifest == SerialInv => ManifestGraphIsClosed
<1> SUFFICES ASSUME SerialInv, manifest.tid > 0 PROVE Closed(EnvelopeFromManifest(manifest))
  BY DEF ManifestGraphIsClosed
<1>1. Generated(EnvelopeFromManifest(manifest))
  BY ManifestShowsGraph DEF SerialInv, HistoryInv
<1> QED
  BY <1>1, GeneratedIsClosed

\* Wherever a writer died, verify() finds no error in a store with a WAL: a manifest
\* that is behind has a WAL entry to explain it, its records are there, and the
\* transaction records hash what the snapshots hold.
THEOREM StartupVerifyFindsNoError ==
    ASSUME WholeOnly
    PROVE  Spec => []VerifyFindsNoError
<1>1. SerialInv => VerifyFindsNoError
  <2> SUFFICES ASSUME SerialInv, options.wal, HistoryTop > 0
               PROVE  /\ manifest.tid = 0 \/ LatestTxn > manifest.tid => {t \in markers : t > manifest.tid} # {}
                      /\ ManifestVersionsExist
                      /\ \A t \in Tids : txns[t] # NoEnvelope /\ snapshots[t] # NoEnvelope =>
                            txns[t] = snapshots[t]
    BY ClosedManifest DEF VerifyFindsNoError
  <2>1. PICK k \in 0..MaxTid : FilesInv(k)
    BY DEF SerialInv, StartupInv
  <2>2. /\ TypeInv /\ SidecarInv /\ CommitsInv(k) /\ PublishedInv(k) /\ ManifestInv(k) /\ k \in Int
        /\ manifest.tid \in 0..MaxTid /\ MaxTid \in Nat
    BY <2>1, StoreAssumptions DEF SerialInv, StartupInv, FilesInv, TypeInv, TypeOK
  <2>3. k > 0
    BY <2>2, TopIsHistoryTop DEF CommitsInv
  <2>4. markers = 1..k
    BY <2>2 DEF CommitsInv
  <2>5. LatestTxn <= k /\ LatestTxn \in Int
    BY <2>2, LatestAround
  <2>6. manifest.tid = 0 \/ LatestTxn > manifest.tid => k \in {t \in markers : t > manifest.tid}
    BY <2>2, <2>3, <2>4, <2>5
  <2>7. ManifestVersionsExist
    BY <2>2, ManifestIsReadable DEF ManifestVersionsExist
  <2>8. ASSUME NEW t \in Tids, txns[t] # NoEnvelope, snapshots[t] # NoEnvelope
        PROVE  txns[t] = snapshots[t]
    <3>1. txns[t] = history[t].graph /\ options.snapshots
      BY <2>2, <2>8 DEF SidecarInv
    <3>2. t \in 1..k
      BY <2>2, <2>8 DEF PublishedInv, Tids
    <3> QED
      BY <2>2, <3>1, <3>2 DEF CommitsInv
  <2> QED
    BY <2>6, <2>7, <2>8
<1> QED
  BY <1>1, SerialAlways, PTL

-----------------------------------------------------------------------------
(* The refinement: the store as a sequence of graphs *)

Commits == [t \in 1..HistoryTop |-> history[t].graph]
Visible == IF Recoverable = NoEnvelope THEN FactoryGraph ELSE Recoverable
Base(m) == IF Started(m) THEN tid[m] ELSE 0
Copy(m) == IF Started(m) THEN Serialize(heap[m]) ELSE FactoryGraph
LastGraph == IF HistoryTop = 0 THEN FactoryGraph ELSE history[HistoryTop].graph

\* A manager that is free, or on its way to a commit, took the last commit.
TookLast == \A m \in Managers :
    Started(m) /\ (pc[m] \in Committing => Unborn(m)) => tid[m] = HistoryTop

MapInv ==
    /\ HistoryTop \in 0..MaxTid
    /\ Visible = LastGraph
    /\ LastGraph \in Envelopes
    /\ TookLast

\* What a start would load is the last commit, and its serialization is the same.
LEMMA RecoverableAgain ==
    ASSUME WholeOnly, SerialInv
    PROVE  /\ HistoryTop \in 0..MaxTid /\ FilesInv(HistoryTop)
           /\ \A m \in Managers : Active(m) => JobInv(m, HistoryTop)
           /\ HistoryTop > 0 => /\ HistoryTop \in Tids
                                /\ history[HistoryTop] # NoCommit
                                /\ Generated(history[HistoryTop].graph)
                                /\ Recoverable = history[HistoryTop].graph
           /\ HistoryTop = 0 => Recoverable = NoEnvelope
           /\ Serialize(Deserialize(Recoverable)) = LastGraph
<1>1. PICK k \in 0..MaxTid : FilesInv(k) /\ \A m \in Managers : Active(m) => JobInv(m, k)
  BY DEF SerialInv, StartupInv
<1>2. /\ HistoryTop = k
      /\ k = 0 => Recoverable = NoEnvelope
      /\ k > 0 => Recoverable \in {history[k].graph, history[k].stored}
  BY <1>1, LastCommitIsRecoverable DEF WholeOnly, SerialInv
<1>3. k > 0 => k \in Tids /\ history[k] # NoCommit
  BY <1>1, StoreAssumptions DEF FilesInv, CommitsInv, TopIs, Tids
<1>4. k > 0 => Generated(history[k].graph) /\ Recoverable = history[k].graph
  BY <1>2, <1>3 DEF SerialInv, HistoryInv
<1>5. Serialize(Deserialize(Recoverable)) = LastGraph
  <2>1. CASE k = 0
    BY <1>2, <2>1, DeserializeNothing DEF LastGraph, FactoryGraph
  <2>2. CASE k > 0
    BY <1>2, <1>4, <2>2, SerializeAgain DEF LastGraph
  <2> QED
    BY <2>1, <2>2
<1> QED
  BY <1>1, <1>2, <1>3, <1>4, <1>5

\* The facts about states that the step mapping needs, before and after a step.
LEMMA MapHolds ==
    ASSUME WholeOnly
    PROVE  SerialInv => MapInv
<1> SUFFICES ASSUME SerialInv PROVE MapInv
  OBVIOUS
<1> DEFINE k == HistoryTop
<1>1. /\ k \in 0..MaxTid
      /\ \A m \in Managers : Active(m) => JobInv(m, k)
      /\ k > 0 => Generated(history[k].graph) /\ Recoverable = history[k].graph
      /\ k = 0 => Recoverable = NoEnvelope
  BY RecoverableAgain
<1>2. LastGraph \in Envelopes /\ Visible = LastGraph
  <2>1. CASE k = 0
    BY <1>1, <2>1, StoreAssumptions, SerializeType DEF LastGraph, Visible, FactoryGraph
  <2>2. CASE k > 0
    BY <1>1, <2>2, GeneratedIsClosed DEF LastGraph, Visible
  <2> QED
    BY <1>1, <2>1, <2>2
<1>3. ASSUME NEW m \in Managers, Started(m), pc[m] \in Committing => Unborn(m)
      PROVE  tid[m] = HistoryTop
  <2>1. Active(m)
    BY <1>3 DEF Started, Active, SerialInv, StartupInv, LockInv, StartOps
  <2>2. JobInv(m, k)
    BY <1>1, <2>1
  <2> QED
    BY <1>3, <2>2 DEF Started, JobInv, ReadyInv, Ready
<1> QED
  BY <1>1, <1>2, <1>3 DEF MapInv, TookLast

\* The store that was never opened is the empty sequence.
LEMMA SerialInitMaps == Init => Serial!Init
<1> SUFFICES ASSUME Init PROVE Serial!Init
  OBVIOUS
<1>1. 0 \in 0..MaxTid /\ MaxTid \in Nat
  BY StoreAssumptions
<1>2. HistoryTop = 0
  BY <1>1, TopIsHistoryTop DEF Init, TopIs, Tids
<1>3. Recoverable = NoEnvelope
  BY DEF Init, Recoverable, PendingWal, CommittedWal, NoManifest
<1>4. \A m \in Managers : ~Started(m)
  BY DEF Init, Started
<1>5. [t \in 1..HistoryTop |-> history[t].graph] = <<>>
  BY <1>2
<1> QED
  BY <1>3, <1>4, <1>5 DEF Serial!Init

-----------------------------------------------------------------------------
(* What a step does to its manager's copy *)

\* A manager keeps the commit it took, or is not started after the step.
KeepsBase(m) == ~Started(m)' \/ (Started(m) /\ tid'[m] = tid[m])

\* A manager takes the last commit.
TakesLast(m) == tid'[m] = HistoryTop /\ Serialize(heap'[m]) = LastGraph

\* A manager that waits for the application has no operation in progress.
LEMMA IdleHasNoJob ==
    ASSUME StartupInv, NEW m \in Managers, pc[m] = "idle"
    PROVE  job[m].kind = "none"
BY DEF StartupInv, Active, JobInv, LoadInv

\* Most steps keep the commit that the copy was taken from.
LEMMA BaseStays ==
    ASSUME TypeInv, NEW m \in Managers, StepOf(m), pc[m] = "idle" => job[m].kind = "none",
           Throw(m) \/ ~(ReadWal(m) \/ ReadObjects(m) \/ WritePersistentIndex(m) \/ CommitState(m))
    PROVE  KeepsBase(m)
<1>0. /\ pc \in [Managers -> Steps] /\ job \in [Managers -> Jobs] /\ job[m] \in Jobs
      /\ tid \in [Managers -> 0..MaxTid]
  BY DEF TypeInv, TypeOK
<1>1. CASE pc[m] = "down"
  <2>1. Start(m) \/ Forget(m)
    BY <1>1, StoreAssumptions
       DEF StepOf, Progress, Acquire, AcquireTimeout, Release, AssertValid, LockLost, ListWal, Recover,
           ReadManifest, ReadWal, ReadObjects, EndWork, CheckConflict, CommitEnvelope,
           WriteWalPrepare, WriteObjectRecords, WriteSnapshot, WriteWalCommit, WriteTransactionRecord,
           WritePersistentIndex, WriteCurrent, WriteManifest, CommitState, Fences, Edit, BeginStore,
           BeginUpdate, BeginTransaction, AbortWork, RejectCommit, TargetFails, StopsAt, FallibleSteps,
           Writes, Crash, Shutdown
  <2>2. CASE Start(m)
    BY <1>0, <2>2 DEF Start, KeepsBase, Started, StartOps, Jobs
  <2>3. CASE Forget(m)
    BY <1>0, <2>3 DEF Forget, Goto, KeepsBase, Started
  <2> QED
    BY <2>1, <2>2, <2>3
<1>2. CASE pc[m] # "down" /\ Throw(m)
  BY <1>0, <1>2 DEF Throw, Forget, Goto, KeepsBase, Started
<1>3. CASE pc[m] # "down" /\ ~Throw(m) /\ Progress(m)
  <2>1. CASE Acquire(m) \/ Release(m) \/ AssertValid(m) \/ EndWork(m) \/ CheckConflict(m) \/ WriteWalPrepare(m)
             \/ WriteSnapshot(m) \/ WriteWalCommit(m) \/ WriteTransactionRecord(m) \/ WriteCurrent(m)
             \/ WriteManifest(m)
    BY <1>0, <1>3, <2>1 DEF Acquire, Release, AssertValid, EndWork, CheckConflict, WriteWalPrepare, WriteSnapshot,
       WriteWalCommit, WriteTransactionRecord, WriteCurrent, WriteManifest, memVars, KeepsBase, Started
  <2>2. CASE ListWal(m)
    BY <1>0, <1>3, <2>2 DEF ListWal, memVars, KeepsBase, Started, Jobs
  <2>3. CASE ReadManifest(m) \/ WriteObjectRecords(m)
    <3>1. tid' = tid /\ job'[m].kind = job[m].kind
      BY <1>0, <2>3 DEF ReadManifest, WriteObjectRecords, memVars, Jobs
    <3> QED
      BY <1>3, <3>1 DEF KeepsBase, Started
  <2>4. CASE Recover(m)
    <3>1. CASE job' = [job EXCEPT ![m] = [NoJob EXCEPT !.kind = "start"]]
      BY <1>0, <3>1 DEF NoJob, KeepsBase, Started, StartOps
    <3>2. ASSUME NEW t, job' = [job EXCEPT ![m].kind = "recover", ![m].wal = {u \in @ : t < u},
                              ![m].t = t, ![m].env = prepares[t],
                              ![m].vers = AllAt(prepares[t], t),
                              ![m].todo = DOMAIN prepares[t]]
          PROVE  job'[m].kind = "recover"
      BY <1>0, <3>2 DEF Jobs
    <3> QED
      BY <2>4, <3>1, <3>2 DEF Recover, KeepsBase, Started, StartOps
  <2>5. CASE CommitEnvelope(m)
    <3>1. PICK t, env, todo, versions :
            job' = [job EXCEPT ![m].t = t, ![m].env = env, ![m].todo = todo, ![m].vers = versions]
      BY <2>5 DEF CommitEnvelope
    <3>2. job'[m].kind = job[m].kind
      BY <1>0, <3>1 DEF Jobs
    <3>3. tid' = tid
      BY <2>5 DEF CommitEnvelope, memVars
    <3> QED
      BY <1>3, <3>2, <3>3 DEF KeepsBase, Started
  <2> QED
    BY <1>3, <2>1, <2>2, <2>3, <2>4, <2>5 DEF Progress, AcquireTimeout, LockLost
<1>4. CASE pc[m] # "down" /\ ~Throw(m) /\ ~Progress(m)
  <2>1. CASE Start(m)
    BY <1>4, <2>1 DEF Start
  <2>2. CASE Edit(m)
    BY <1>4, <2>2 DEF Edit, KeepsBase, Started
  <2>3. CASE BeginStore(m) \/ BeginUpdate(m) \/ BeginTransaction(m)
    <3>1. pc[m] = "idle" /\ tid' = tid
      BY <2>3 DEF BeginStore, BeginUpdate, BeginTransaction, memVars
    <3>2. job[m].kind = "none"
      BY <3>1
    <3> QED
      BY <1>4, <3>1, <3>2 DEF KeepsBase, Started, StartOps
  <2>4. CASE Crash(m) \/ Shutdown(m)
    BY <1>0, <2>4 DEF Crash, Shutdown, Forget, Goto, KeepsBase, Started
  <2> QED
    BY <1>4, <2>1, <2>2, <2>3, <2>4 DEF StepOf, AbortWork, RejectCommit, TargetFails
<1> QED
  BY <1>1, <1>2, <1>3, <1>4

\* A load takes what a start would find now.
LEMMA LoadTakes ==
    ASSUME WholeOnly, SerialInv, MapInv', NEW m \in Managers, ReadWal(m) \/ ReadObjects(m),
           history' = history
    PROVE  KeepsBase(m) \/ (Started(m)' /\ TakesLast(m))
<1>1. /\ StartupInv /\ TypeInv /\ FilesInv(HistoryTop) /\ HistoryTop \in 0..MaxTid
      /\ \A n \in Managers : Active(n) => JobInv(n, HistoryTop)
      /\ HistoryTop' = HistoryTop
  BY RecoverableAgain DEF SerialInv, StartupInv, HistoryTop
<1>2. CASE Throw(m)
  BY <1>1, <1>2, BaseStays, IdleHasNoJob DEF StepOf, Progress
<1>3. ASSUME NEW env, NEW t, NEW versions, NEW source, Adopt(m, env, t, versions, source), env = Recoverable
      PROVE  KeepsBase(m) \/ (Started(m)' /\ TakesLast(m))
  <2>1. CASE ~Started(m)'
    BY <2>1 DEF KeepsBase
  <2>2. CASE Started(m)'
    <3>1. heap'[m] = Deserialize(Recoverable)
      BY <1>1, <1>3, AdoptedGraph
    <3>2. pc'[m] \in {"idle", "work"}
      BY <1>1, <1>3, <2>2, AdoptedGraph DEF Started, StartOps
    <3>3. pc'[m] \notin Committing
      BY <3>2 DEF Committing, Writes, Fences
    <3>4. tid'[m] = HistoryTop
      BY <1>1, <2>2, <3>3 DEF MapInv, TookLast
    <3> QED
      BY <2>2, <3>1, <3>4, RecoverableAgain DEF TakesLast
  <2> QED
    BY <2>1, <2>2
<1>4. CASE ReadWal(m) /\ ~Throw(m)
  <2>1. pc[m] = "readWal" /\ Active(m)
    BY <1>4 DEF ReadWal, Active
  <2>2. job[m].man = manifest /\ (options.wal => manifest.tid = HistoryTop)
    BY <1>1, <2>1 DEF JobInv, LoadInv, Loading
  <2>3. CommittedWal = IF options.wal THEN 1..HistoryTop ELSE {}
    BY <1>1, WalIs DEF FilesInv
  <2>4. manifest.tid \in 0..MaxTid
    BY <1>1 DEF TypeInv, TypeOK
  <2>5. \A last \in {0} \cup CommittedWal : ~(last > job[m].man.tid)
    BY <1>1, <2>2, <2>3, <2>4
  <2>6. tid' = tid /\ job' = job
    BY <1>4, <2>5 DEF ReadWal, memVars
  <2> QED
    BY <2>1, <2>6 DEF KeepsBase, Started
<1>5. CASE ReadObjects(m) /\ ~Throw(m)
  <2>1. pc[m] = "readObjects" /\ Active(m)
    BY <1>5 DEF ReadObjects, Active
  <2>2. job[m].man = manifest /\ (options.wal => manifest.tid = HistoryTop)
    BY <1>1, <2>1 DEF JobInv, LoadInv, Loading
  <2>3. PendingWal = {}
    BY <1>1, <2>2, PendingIs
  <2>4. \E env, t, versions, source : Adopt(m, env, t, versions, source) /\ env = Recoverable
    <3>1. CASE manifest.tid > 0 /\ LatestTxn <= manifest.tid /\ Readable(manifest)
      BY <1>5, <2>2, <2>3, <3>1 DEF ReadObjects, Load, Recoverable
    <3>2. CASE ~(manifest.tid > 0 /\ LatestTxn <= manifest.tid /\ Readable(manifest)) /\ current > 0
      BY <1>5, <2>2, <2>3, <3>2 DEF ReadObjects, Load, Recoverable
    <3>3. CASE ~(manifest.tid > 0 /\ LatestTxn <= manifest.tid /\ Readable(manifest)) /\ ~(current > 0)
      BY <1>5, <2>2, <2>3, <3>3 DEF ReadObjects, Recoverable
    <3> QED
      BY <3>1, <3>2, <3>3
  <2> QED
    BY <1>3, <2>4
<1> QED
  BY <1>2, <1>4, <1>5

\* A commit that is reported is the last one, and its manager has just that graph.
LEMMA CommitTakes ==
    ASSUME WholeOnly, SerialInv, NEW m \in Managers, CommitState(m)
    PROVE  KeepsBase(m) \/ (Started(m)' /\ TakesLast(m))
<1>1. /\ StartupInv /\ HistoryTop \in 0..MaxTid
      /\ \A n \in Managers : Active(n) => JobInv(n, HistoryTop)
      /\ pc \in [Managers -> Steps] /\ job \in [Managers -> Jobs] /\ job[m] \in Jobs
      /\ tid \in [Managers -> 0..MaxTid] /\ pc[m] = "commitState" /\ pc[m] \in Committing
  BY RecoverableAgain DEF SerialInv, StartupInv, TypeInv, TypeOK, CommitState, Committing
<1>2. JobInv(m, HistoryTop) /\ job[m].t \in Tids
  BY <1>1, CommitFacts
<1>3. CASE job[m].kind = "recover"
  <2>1. job'[m].kind = "start"
    BY <1>1, <1>3 DEF CommitState, NoJob
  <2> QED
    BY <2>1 DEF KeepsBase, Started, StartOps
<1>4. CASE job[m].kind # "recover"
  <2>1. job[m].kind \notin StartOps
    BY <1>1, <1>2, <1>4 DEF JobInv, RecoverInv, WrittenInv, StartOps
  <2>2. job[m].t = HistoryTop /\ job[m].env = history[HistoryTop].graph
    BY <1>1, <1>2, <2>1 DEF JobInv, DurableInv, Unborn
  <2>3. tid'[m] = HistoryTop /\ heap' = heap
    BY <1>1, <2>2 DEF CommitState
  <2>4. Serialize(heap[m]) = LastGraph
    <3>1. Serialize(heap[m]) = job[m].env
      BY <1>1, <2>1 DEF SerialInv, MemoryInv
    <3>2. HistoryTop # 0
      BY <1>2, <2>2 DEF Tids
    <3> QED
      BY <2>2, <3>1, <3>2 DEF LastGraph
  <2>5. Started(m)'
    BY <1>1, <1>4 DEF CommitState, NoJob, Goto, Finished, Started, StartOps
  <2> QED
    BY <2>3, <2>4, <2>5 DEF TakesLast
<1> QED
  BY <1>3, <1>4

\* A repair ends with the graph it has published.
LEMMA RepairTakes ==
    ASSUME WholeOnly, SerialInv, NEW m \in Managers, WritePersistentIndex(m)
    PROVE  KeepsBase(m) \/ (Started(m)' /\ TakesLast(m))
<1>1. /\ StartupInv /\ HistoryTop \in 0..MaxTid
      /\ \A n \in Managers : Active(n) => JobInv(n, HistoryTop)
      /\ pc \in [Managers -> Steps] /\ job \in [Managers -> Jobs] /\ job[m] \in Jobs
      /\ pc[m] = "index" /\ pc[m] \in Committing /\ tid' = tid /\ heap' = heap
  BY RecoverableAgain
     DEF SerialInv, StartupInv, TypeInv, TypeOK, WritePersistentIndex, Committing, Writes, memVars
<1>2. JobInv(m, HistoryTop) /\ job[m].t \in Tids
  BY <1>1, CommitFacts
<1>3. CASE job[m].kind = "repair"
  <2>1. /\ job[m].t = HistoryTop /\ job[m].env = history[HistoryTop].graph
        /\ tid[m] = HistoryTop
    BY <1>1, <1>2, <1>3 DEF JobInv, RecoverInv
  <2>2. Serialize(heap[m]) = LastGraph
    <3>1. heap[m] = Deserialize(history[HistoryTop].graph)
      BY <1>1, <1>3, <2>1 DEF SerialInv, MemoryInv
    <3>2. HistoryTop > 0
      BY <1>2, <2>1 DEF Tids
    <3> QED
      BY <3>1, <3>2, RecoverableAgain
  <2>3. Started(m)'
    BY <1>1, <1>3 DEF WritePersistentIndex, NoJob, Goto, Started, StartOps
  <2> QED
    BY <1>1, <2>1, <2>2, <2>3 DEF TakesLast
<1>4. CASE job[m].kind # "repair"
  BY <1>1, <1>4 DEF WritePersistentIndex, KeepsBase, Started
<1> QED
  BY <1>3, <1>4

\* A step that is no commit leaves the commits and what a start finds.
LEMMA QuietMaps ==
    ASSUME WholeOnly, SerialInv, SerialInv', MapInv, MapInv', NEW m \in Managers, StepOf(m),
           history' = history
    PROVE  /\ Commits' = Commits /\ Visible' = Visible
           /\ KeepsBase(m) \/ (Started(m)' /\ TakesLast(m))
<1>1. HistoryTop' = HistoryTop
  BY DEF HistoryTop
<1>2. Commits' = Commits
  BY <1>1 DEF Commits
<1>3. Visible' = Visible
  BY <1>1 DEF MapInv, LastGraph
<1>4. StartupInv /\ TypeInv
  BY DEF SerialInv, StartupInv
<1> QED
  BY <1>2, <1>3, <1>4, BaseStays, IdleHasNoJob, LoadTakes, CommitTakes, RepairTakes

\* A step makes a commit durable and appends its manager's copy.
AppendsCopy(m) ==
    /\ Base(m) = HistoryTop /\ HistoryTop' = HistoryTop + 1
    /\ Started(m) /\ Started(m)' /\ tid' = tid /\ heap' = heap
    /\ \A t \in 1..HistoryTop : history'[t] = history[t]
    /\ history'[HistoryTop + 1].graph = Serialize(heap[m])
    /\ Visible' = Serialize(heap[m])

\* The writes of a commit append at one point.
LEMMA CommitMaps ==
    ASSUME WholeOnly, SerialInv, SerialInv', MapInv, MapInv', NEW m \in Managers, StepOf(m),
           history' # history
    PROVE  AppendsCopy(m)
<1>1. PICK k \in 0..MaxTid :
              /\ FilesInv(k) /\ JobInv(m, k)
              /\ pc[m] \in Committing /\ pc[m] = DurableStep /\ Unborn(m)
              /\ job[m].kind \notin StartOps /\ job[m].t = k + 1
              /\ WriteWalCommit(m) \/ WriteCurrent(m) \/ WriteManifest(m)
              /\ k + 1 \in Tids
              /\ \A t \in Tids : t # k + 1 => history'[t] = history[t]
              /\ history'[k + 1] = [graph |-> job[m].env, stored |-> job[m].env]
              /\ \A t \in Tids : history'[t] # NoCommit <=> t <= k + 1
  BY DurableWhole
<1>2. HistoryTop = k /\ k \in Int
  BY <1>1, TopIsHistoryTop DEF FilesInv, CommitsInv
<1>3. HistoryTop' = k + 1
  <2> DEFINE S == {0} \cup {t \in Tids : history'[t] # NoCommit}
  <2>1. S \in SUBSET Int /\ k + 1 \in S /\ \A y \in S : y <= k + 1
    BY <1>1, <1>2, StoreAssumptions DEF Tids
  <2> HIDE DEF S
  <2>2. Max(S) = k + 1
    BY <2>1, MaxIs
  <2> QED
    BY <2>2 DEF HistoryTop, S
<1>4. tid' = tid /\ heap' = heap /\ job' = job
  BY <1>1 DEF WriteWalCommit, WriteCurrent, WriteManifest, memVars
<1>5. Started(m) /\ Started(m)'
  <2>1. pc[m] # "down"
    BY <1>1 DEF Committing, Writes, Fences
  <2>2. pc'[m] # "down"
    BY <1>1 DEF WriteWalCommit, WriteCurrent, WriteManifest, Goto, SerialInv, StartupInv, TypeInv, TypeOK
  <2> QED
    BY <1>1, <1>4, <2>1, <2>2 DEF Started
<1>6. tid[m] = k
  BY <1>1, <1>2, <1>5 DEF MapInv, TookLast
<1>7. job[m].env = Serialize(heap[m])
  BY <1>1 DEF SerialInv, MemoryInv
<1>8. \A t \in 1..k : t \in Tids /\ t # k + 1
  BY <1>2, StoreAssumptions DEF Tids
<1>9. Visible' = history'[k + 1].graph
  BY <1>2, <1>3 DEF MapInv, LastGraph
<1> QED
  BY <1>1, <1>2, <1>3, <1>4, <1>5, <1>6, <1>7, <1>8, <1>9 DEF Base, AppendsCopy

\* A manager takes some commit, or the factory's graph before the first.
TakesCommitted(m) == \E v \in 0..HistoryTop :
    /\ tid'[m] = v
    /\ Serialize(heap'[m]) = IF v = 0 THEN FactoryGraph ELSE history[v].graph

CopiesStay(m) == \A n \in Managers \ {m} :
    /\ Started(n)' <=> Started(n)
    /\ tid'[n] = tid[n] /\ heap'[n] = heap[n]

\* A step that moves one manager's copy, takes a commit or appends one is a step of
\* the sequence of graphs or a stutter.
LEMMA StepMaps ==
    ASSUME TypeInv', NEW m \in Managers, HistoryTop \in 0..MaxTid, CopiesStay(m),
           \/ /\ history' = history /\ Commits' = Commits /\ Visible' = Visible
              /\ KeepsBase(m) \/ (Started(m)' /\ TakesCommitted(m))
           \/ AppendsCopy(m)
    PROVE  Serial!Next
<1> DEFINE visible == IF Recoverable = NoEnvelope THEN FactoryGraph ELSE Recoverable
           commits == [t \in 1..HistoryTop |-> history[t].graph]
           base == [n \in Managers |-> IF Started(n) THEN tid[n] ELSE 0]
           copy == [n \in Managers |-> IF Started(n) THEN Serialize(heap[n]) ELSE FactoryGraph]
<1>1. \A n \in Managers \ {m} :
          /\ Started(n)' <=> Started(n)
          /\ tid'[n] = tid[n] /\ heap'[n] = heap[n]
  BY DEF CopiesStay
<1>2. /\ base' = [base EXCEPT ![m] = IF Started(m)' THEN tid'[m] ELSE 0]
      /\ copy' = [copy EXCEPT ![m] = IF Started(m)' THEN Serialize(heap'[m]) ELSE FactoryGraph]
  BY <1>1
<1>3. Len(commits) = HistoryTop /\ \A v \in 1..HistoryTop : commits[v] = history[v].graph
  OBVIOUS
<1>4. CASE /\ history' = history /\ Commits' = Commits /\ Visible' = Visible
           /\ KeepsBase(m) \/ (Started(m)' /\ TakesCommitted(m))
  <2>1. visible' = visible /\ commits' = commits
    BY <1>4 DEF Commits, Visible
  <2>2. CASE ~Started(m)'
    <3>1. base' = [base EXCEPT ![m] = 0] /\ copy' = [copy EXCEPT ![m] = FactoryGraph]
      BY <1>2, <2>2
    <3>2. 0 \in 0..Len(commits)
      BY <1>3
    <3> QED
      BY <2>1, <3>1, <3>2 DEF Serial!Next, Serial!Take, Serial!Committed
  <2>3. CASE Started(m)' /\ Started(m) /\ tid'[m] = tid[m]
    <3>1. heap'[m] \in Heaps
      BY DEF TypeInv, TypeOK
    <3>2. Serialize(heap'[m]) \in Envelopes
      BY <3>1, SerializeType
    <3>3. base' = base /\ copy' = [copy EXCEPT ![m] = Serialize(heap'[m])]
      BY <1>2, <2>3
    <3> QED
      BY <2>1, <3>2, <3>3 DEF Serial!Next, Serial!Change
  <2>4. CASE Started(m)' /\ TakesCommitted(m)
    <3>1. PICK v \in 0..HistoryTop :
            /\ tid'[m] = v
            /\ Serialize(heap'[m]) = IF v = 0 THEN FactoryGraph ELSE history[v].graph
      BY <2>4 DEF TakesCommitted
    <3>2. Serial!Committed(v) = Serialize(heap'[m]) /\ v \in 0..Len(commits)
      BY <1>3, <3>1 DEF Serial!Committed
    <3>3. /\ base' = [base EXCEPT ![m] = v]
          /\ copy' = [copy EXCEPT ![m] = Serial!Committed(v)]
      BY <1>2, <2>4, <3>1, <3>2
    <3> QED
      BY <2>1, <3>2, <3>3 DEF Serial!Next, Serial!Take
  <2> QED
    BY <1>4, <2>2, <2>3, <2>4 DEF KeepsBase
<1>5. CASE AppendsCopy(m)
  <2>1. /\ Base(m) = HistoryTop /\ HistoryTop' = HistoryTop + 1
        /\ Started(m) /\ Started(m)' /\ tid' = tid /\ heap' = heap
        /\ \A t \in 1..HistoryTop : history'[t] = history[t]
        /\ history'[HistoryTop + 1].graph = Serialize(heap[m])
        /\ Visible' = Serialize(heap[m])
    BY <1>5 DEF AppendsCopy
  <2>2. base' = base /\ copy' = copy
    BY <1>1, <2>1
  <2>3. base[m] = Len(commits) /\ copy[m] = Serialize(heap[m])
    BY <1>3, <2>1 DEF Base
  <2>4. commits' = Append(commits, copy[m])
    <3>1. commits' = [t \in 1..(HistoryTop + 1) |-> history'[t].graph]
      BY <2>1
    <3>2. ASSUME NEW n \in Nat, NEW s, s = [t \in 1..n |-> history[t].graph], NEW x,
                 \A t \in 1..n : history'[t] = history[t], history'[n + 1].graph = x
          PROVE  [t \in 1..(n + 1) |-> history'[t].graph] = Append(s, x)
      BY <3>2
    <3>3. HistoryTop \in Nat
      OBVIOUS
    <3> QED
      BY <2>1, <2>3, <3>1, <3>2, <3>3
  <2>5. visible' = copy[m]
    BY <2>1, <2>3 DEF Visible
  <2> QED
    BY <2>2, <2>3, <2>4, <2>5 DEF Serial!Next, Serial!Commit
<1> QED
  BY <1>4, <1>5

\* Every step of a manager maps to a step of the sequence of graphs or to a stutter.
LEMMA ManagerStepMaps ==
    ASSUME WholeOnly, SerialInv, SerialInv', MapInv, MapInv', NEW m \in Managers, StepOf(m)
    PROVE  Serial!Next
<1>1. StartupInv /\ TypeInv /\ TypeInv' /\ HistoryTop \in 0..MaxTid
  BY DEF SerialInv, StartupInv, MapInv
<1>2. CopiesStay(m)
  BY <1>1, OthersStay, OthersRemember DEF OnlyMoves, Started, CopiesStay
<1>3. TakesLast(m) => TakesCommitted(m)
  BY <1>1 DEF TakesLast, TakesCommitted, LastGraph
<1> QED
  BY <1>1, <1>2, <1>3, QuietMaps, CommitMaps, StepMaps

\* Every step maps to a step of the sequence of graphs or to a stutter.
LEMMA SerialStepMaps ==
    ASSUME WholeOnly
    PROVE  SerialInv /\ SerialInv' /\ MapInv /\ MapInv' /\ [Next]_vars => [Serial!Next]_(Serial!vars)
<1> SUFFICES ASSUME SerialInv, SerialInv', MapInv, MapInv', [Next]_vars
             PROVE  [Serial!Next]_(Serial!vars)
  OBVIOUS
<1>1. CASE Next
  BY <1>1, ManagerStepMaps DEF Next, StepOf
<1>2. CASE UNCHANGED vars
  <2>1. HistoryTop' = HistoryTop /\ Recoverable' = Recoverable
    BY <1>2 DEF vars, diskVars, HistoryTop, Recoverable, PendingWal, CommittedWal, LatestTxn, Readable,
       EnvelopeFromManifest
  <2>2. \A m \in Managers : (Started(m)' <=> Started(m)) /\ heap' = heap /\ tid' = tid /\ history' = history
    BY <1>2 DEF vars, memVars, Started
  <2>3. history' = history
    BY <1>2 DEF vars
  <2> QED
    BY <2>1, <2>2, <2>3 DEF Serial!vars
<1> QED
  BY <1>1, <1>2

\* With lockStrategy "startup" and whole-graph commits the store is a sequence of
\* graphs: the writes of a commit, the recovery that may finish it and the repair
\* of a start amount to one atomic Commit, whose copy was taken from the commit
\* before it, and what a start loads changes at no other step.
THEOREM StartupImplementsSerialGraph ==
    ASSUME WholeOnly
    PROVE  Spec => ImplementsSerialGraph
<1>1. SerialInv /\ SerialInv' /\ MapInv /\ MapInv' /\ [Next]_vars => [Serial!Next]_(Serial!vars)
  BY SerialStepMaps
<1>2. SerialInv => MapInv
  BY MapHolds
<1> QED
  BY <1>1, <1>2, SerialAlways, SerialInitMaps, PTL DEF Spec, ImplementsSerialGraph, Serial!Spec
=============================================================================
