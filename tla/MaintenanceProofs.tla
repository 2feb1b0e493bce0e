-------------------------- MODULE MaintenanceProofs --------------------------
(***************************************************************************)
(* Theorems about Maintenance, for every value of its constants: the types *)
(* of its variables and, for managers that have the store for themselves,  *)
(* that commits, collections, compactions, backups and crashes leave a     *)
(* store, and make copies, that load as the last durable commit.           *)
(***************************************************************************)
EXTENDS Maintenance, FiniteSetTheorems, TLAPS

-----------------------------------------------------------------------------
(* The inductive type invariant *)

Kinds == {"none", "start", "repair", "store", "collect", "backup"}
Committing == Writes \cup {"commitState"}
Files == (Objects \X Tids) \cup Lazies \cup Directories

Jobs == [kind : Kinds, replay : BOOLEAN, t : 0..MaxTid, env : Envelopes, vers : Versions,
         todo : SUBSET Objects, man : Manifests, files : SUBSET Files, copy : Stores]

Sweeps == [step : {"none", "list", "remove"}, current : 0..MaxTid, files : SUBSET Tids]

\* The parts of a job that belong together, at a control point s, for a manager
\* with the transaction id i.
Shape(s, j, i) ==
    /\ DOMAIN j.vers = j.env
    /\ s \in Committing => j.t \in Tids
    /\ s = "gcRemove" => j.files \subseteq Objects \X Tids
    /\ s = "gcRemoveLazy" => j.files \subseteq Lazies
    /\ s = "copy" => j.files \subseteq Directories
    /\ s \in {"check", "payloads"} => j.kind = "store"
    /\ j.kind = "store" /\ s \in {"acquire", "check", "payloads"} => i < MaxTid

JobShape(m) == Shape(pc[m], job[m], tid[m])

FileTypes ==
    /\ options \in Options
    /\ store \in Stores
    /\ lock \in Managers \cup {NoOwner}
    /\ committed \in [tid : 0..MaxTid, env : Envelopes]

MemoryTypes ==
    /\ held \in [Managers -> BOOLEAN]
    /\ graph \in [Managers -> Envelopes]
    /\ loaded \in [Managers -> SUBSET Lazies]
    /\ tid \in [Managers -> 0..MaxTid]
    /\ vers \in [Managers -> Versions]
    /\ sweep \in [Managers -> Sweeps]
    /\ base \in [Managers -> 0..MaxTid]

JobTypes ==
    /\ pc \in [Managers -> Steps]
    /\ job \in [Managers -> Jobs]
    /\ \A m \in Managers : JobShape(m)

TypeInv == FileTypes /\ MemoryTypes /\ JobTypes

-----------------------------------------------------------------------------
(* Facts about the operators *)

\* Max is an element that bounds the set.
LEMMA MaxIs ==
    ASSUME NEW S \in SUBSET Int, NEW x \in S, \A y \in S : y <= x
    PROVE  Max(S) = x
<1>1. \E z \in S : \A y \in S : z >= y
  OBVIOUS
<1> DEFINE z == Max(S)
<1>2. z \in S /\ \A y \in S : z >= y
  BY <1>1 DEF Max
<1> HIDE DEF z
<1>3. z >= x /\ z <= x /\ z \in Int
  BY <1>2
<1>4. z = x
  BY <1>3
<1> QED
  BY <1>4 DEF z

\* Of finitely many numbers one is the largest: the sets of those above a number
\* are ordered by inclusion, and one of them is minimal.
LEMMA MaxExists ==
    ASSUME NEW S \in SUBSET (0..MaxTid), S # {}
    PROVE  Max(S) \in S /\ \A y \in S : y <= Max(S)
<1>1. IsFiniteSet(S)
  <2>1. MaxTid \in Int /\ 0 \in Int
    BY MaintenanceAssumptions
  <2>2. IsFiniteSet(0..MaxTid)
    BY <2>1, FS_Interval
  <2> QED
    BY <2>2, FS_Subset
<1> DEFINE Above(x) == {u \in S : u > x}
           T == {Above(x) : x \in S}
<1>2. IsWellFoundedOn(StrictSubsetOrdering(S), SUBSET S)
  BY <1>1, FS_StrictSubsetOrderingWellFounded, FS_FiniteSubsetsOfFinite
<1>3. T \subseteq SUBSET S /\ T # {}
  OBVIOUS
<1> HIDE DEF T
<1>4. PICK a \in T : \A b \in T : <<b, a>> \notin StrictSubsetOrdering(S)
  BY <1>2, <1>3, WFMin
<1>5. PICK x \in S : a = Above(x)
  BY <1>4 DEF T
<1>6. ASSUME NEW y \in S, y > x
      PROVE  FALSE
  <2>1. Above(y) \in T /\ y \in Above(x) /\ y \notin Above(y) /\ x \in Int /\ y \in Int
    BY <1>6 DEF T
  <2>2. \A u \in S : u > y => u > x
    BY <1>6, <2>1
  <2>3. <<Above(y), Above(x)>> \in StrictSubsetOrdering(S)
    BY <2>1, <2>2 DEF StrictSubsetOrdering
  <2> QED
    BY <1>4, <1>5, <2>1, <2>3
<1>7. S \in SUBSET Int /\ x \in Int /\ \A y \in S : y <= x
  BY <1>6
<1>8. Max(S) = x
  BY <1>7, MaxIs
<1> QED
  BY <1>7, <1>8

\* The larger of two numbers.
LEMMA MaxOfTwo ==
    ASSUME NEW a \in Int, NEW b \in Int
    PROVE  Max({a, b}) = IF a < b THEN b ELSE a
<1>1. CASE a < b
  <2>1. {a, b} \in SUBSET Int /\ b \in {a, b} /\ \A y \in {a, b} : y <= b
    BY <1>1
  <2> QED
    BY <1>1, <2>1, MaxIs
<1>2. CASE ~(a < b)
  <2>1. {a, b} \in SUBSET Int /\ a \in {a, b} /\ \A y \in {a, b} : y <= a
    BY <1>2
  <2> QED
    BY <1>2, <2>1, MaxIs
<1> QED
  BY <1>1, <1>2

\* A function from some objects to transaction ids is a versions map.
LEMMA VersionsIntro ==
    ASSUME NEW S \in SUBSET Objects, NEW f \in [S -> Tids]
    PROVE  f \in Versions
BY DEF Versions

\* A versions map gives some objects transaction ids.
LEMMA VersionsElim ==
    ASSUME NEW v \in Versions
    PROVE  /\ DOMAIN v \in SUBSET Objects
           /\ \A o \in DOMAIN v : v[o] \in Tids
BY DEF Versions

\* The empty versions and the empty manifest.
LEMMA EmptyTypes ==
    /\ NoVersions \in Versions /\ DOMAIN NoVersions = {}
    /\ NoManifest \in Manifests /\ NoManifest.tid = 0 /\ NoManifest.vers = NoVersions
<1>1. NoVersions \in Versions /\ DOMAIN NoVersions = {}
  BY DEF Versions, NoVersions
<1>2. 0 \in 0..MaxTid
  BY MaintenanceAssumptions
<1> QED
  BY <1>1, <1>2 DEF NoManifest, Manifests

\* The store before the first commit, and the job of a manager that does nothing.
LEMMA EmptyStoreType == EmptyStore \in Stores /\ NoJob \in Jobs /\ NoSweep \in Sweeps
<1>1. 0 \in 0..MaxTid /\ {} \in Envelopes
  BY MaintenanceAssumptions DEF Envelopes
<1>2. EmptyStore \in Stores
  BY <1>1, EmptyTypes DEF EmptyStore, Stores
<1>3. NoJob \in Jobs
  BY <1>1, <1>2, EmptyTypes DEF NoJob, Jobs, Kinds
<1>4. NoSweep \in Sweeps
  BY <1>1 DEF NoSweep, Sweeps
<1> QED
  BY <1>2, <1>3, <1>4

\* A job that does nothing has its shape between operations.
LEMMA NoJobShape ==
    ASSUME NEW s \in {"down", "idle", "release"}, NEW i
    PROVE  Shape(s, NoJob, i) /\ s \in Steps
BY EmptyTypes DEF Shape, NoJob, Steps, Committing, Writes

\* AllAt gives every object of the envelope the same version.
LEMMA AllAtType ==
    ASSUME NEW env \in Envelopes, NEW t \in Tids
    PROVE  /\ AllAt(env, t) \in Versions
           /\ DOMAIN AllAt(env, t) = env
           /\ \A o \in env : AllAt(env, t)[o] = t
BY VersionsIntro DEF AllAt, Envelopes

\* The files of a store.
LEMMA StoreParts ==
    ASSUME NEW d \in Stores
    PROVE  /\ d.records \in SUBSET (Objects \X Tids) /\ d.payloads \in SUBSET Lazies
           /\ d.wal \in [Tids -> Envelopes] /\ d.snapshots \in [Tids -> Envelopes]
           /\ d.latest \in 0..MaxTid /\ d.current \in 0..MaxTid
           /\ d.manifest \in Manifests /\ d.manifest.tid \in 0..MaxTid /\ d.manifest.vers \in Versions
BY DEF Stores, Manifests

\* The fields of a job.
LEMMA JobParts ==
    ASSUME NEW j \in Jobs
    PROVE  /\ j.kind \in Kinds /\ j.replay \in BOOLEAN /\ j.t \in 0..MaxTid
           /\ j.env \in Envelopes /\ j.vers \in Versions /\ j.todo \in SUBSET Objects
           /\ j.man \in Manifests /\ j.files \in SUBSET Files /\ j.copy \in Stores
           /\ j.man.tid \in 0..MaxTid /\ j.man.vers \in Versions
BY DEF Jobs, Manifests

-----------------------------------------------------------------------------
(* Types *)

\* The inductive type invariant contains the one that the runs check.
LEMMA TypeInvTypes == TypeInv => MaintenanceTypeOK
<1> SUFFICES ASSUME TypeInv PROVE MaintenanceTypeOK
  OBVIOUS
<1>1. ASSUME NEW m \in Managers
      PROVE  /\ job[m].kind \in {"none", "start", "repair", "store", "collect", "backup"}
             /\ job[m].env \in Envelopes /\ job[m].vers \in Versions
             /\ job[m].t \in 0..MaxTid /\ job[m].man \in Manifests /\ job[m].copy \in Stores
             /\ sweep[m].step \in {"none", "list", "remove"} /\ sweep[m].files \subseteq Tids
  <2>1. job[m] \in Jobs /\ sweep[m] \in Sweeps
    BY DEF TypeInv, MemoryTypes, JobTypes
  <2> QED
    BY <2>1, JobParts DEF Sweeps, Kinds
<1> QED
  BY <1>1 DEF TypeInv, FileTypes, MemoryTypes, JobTypes, MaintenanceTypeOK

\* It holds of a store that was never opened.
LEMMA TypeInit == Init => TypeInv
<1> SUFFICES ASSUME Init PROVE TypeInv
  OBVIOUS
<1>1. FileTypes
  <2>1. store = EmptyStore /\ committed = Nothing /\ 0 \in 0..MaxTid /\ {} \in Envelopes
    BY MaintenanceAssumptions DEF Init, Envelopes
  <2> QED
    BY <2>1, EmptyStoreType DEF Init, FileTypes, Nothing
<1>2. MemoryTypes
  BY MaintenanceAssumptions, EmptyTypes, EmptyStoreType DEF Init, MemoryTypes, Envelopes
<1>3. JobTypes
  BY EmptyStoreType, NoJobShape DEF Init, JobTypes, JobShape
<1> QED
  BY <1>1, <1>2, <1>3 DEF TypeInv

\* The files stay.
LEMMA FileTypesStay ==
    ASSUME TypeInv, UNCHANGED <<options, store, committed>>, lock' \in Managers \cup {NoOwner}
    PROVE  FileTypes'
BY DEF TypeInv, FileTypes

\* A step of the operation of one manager that gives it a job of its shape.
LEMMA JobStep ==
    ASSUME TypeInv, NEW m \in Managers, NEW j \in Jobs, NEW s \in Steps,
           job' = [job EXCEPT ![m] = j], pc' = [pc EXCEPT ![m] = s],
           \A n \in Managers \ {m} : tid'[n] = tid[n],
           Shape(s, j, tid'[m])
    PROVE  JobTypes'
<1>1. pc' \in [Managers -> Steps] /\ job' \in [Managers -> Jobs]
  BY DEF TypeInv, JobTypes
<1>2. ASSUME NEW n \in Managers
      PROVE  JobShape(n)'
  <2>1. CASE n = m
    <3>1. job'[n] = j /\ pc'[n] = s
      BY <2>1 DEF TypeInv, JobTypes
    <3> QED
      BY <2>1, <3>1 DEF JobShape
  <2>2. CASE n # m
    <3>1. job'[n] = job[n] /\ pc'[n] = pc[n] /\ tid'[n] = tid[n]
      BY <2>2 DEF TypeInv, JobTypes
    <3>2. Shape(pc[n], job[n], tid[n])
      BY DEF TypeInv, JobTypes, JobShape
    <3> QED
      BY <3>1, <3>2 DEF JobShape
  <2> QED
    BY <2>1, <2>2
<1> QED
  BY <1>1, <1>2 DEF JobTypes

\* The case of a step that only moves the program counter.
LEMMA PcStep ==
    ASSUME TypeInv, NEW m \in Managers, NEW s \in Steps,
           pc' = [pc EXCEPT ![m] = s], UNCHANGED <<job, tid>>,
           Shape(s, job[m], tid[m])
    PROVE  JobTypes'
<1>1. job[m] \in Jobs /\ job' = [job EXCEPT ![m] = job[m]]
  BY DEF TypeInv, JobTypes
<1> QED
  BY <1>1, JobStep

\* The case of a step that ends the operation, or the process.
LEMMA EndStep ==
    ASSUME TypeInv, NEW m \in Managers,
           NEW s \in {"down", "idle", "release"},
           pc' = [pc EXCEPT ![m] = s], job' = [job EXCEPT ![m] = NoJob],
           \A n \in Managers \ {m} : tid'[n] = tid[n]
    PROVE  JobTypes'
BY EmptyStoreType, NoJobShape, JobStep

\* The job of a manager, with its fields.
LEMMA JobOf ==
    ASSUME TypeInv, NEW m \in Managers
    PROVE  /\ pc[m] \in Steps /\ job[m] \in Jobs /\ Shape(pc[m], job[m], tid[m])
           /\ graph[m] \in Envelopes /\ tid[m] \in 0..MaxTid /\ vers[m] \in Versions
           /\ loaded[m] \in SUBSET Lazies /\ sweep[m] \in Sweeps
BY DEF TypeInv, JobTypes, MemoryTypes, JobShape
\* Steps beside the operations.
LEMMA JobTypesStay ==
    ASSUME TypeInv, UNCHANGED <<pc, job, tid>>
    PROVE  JobTypes'
BY DEF TypeInv, JobTypes, JobShape

\* The memory stays.
LEMMA MemoryStays ==
    ASSUME TypeInv, UNCHANGED <<held, memVars, sweep, base>>
    PROVE  MemoryTypes'
BY DEF TypeInv, MemoryTypes, memVars

\* Control points outside a commit and the removal and copying of files.
Plain == Steps \ (Committing \cup {"gcRemove", "gcRemoveLazy", "copy"})

\* Which control points those are.
LEMMA PlainSteps ==
    /\ {"down", "acquire", "recover", "loadManifest", "load", "idle", "check", "payloads", "release",
        "gcManifest", "gcRecords", "copied"} \subseteq Plain
    /\ Committing \cup {"gcRemove", "gcRemoveLazy", "copy"} \subseteq Steps
BY DEF Plain, Steps, Committing, Writes

\* A process that forgets its memory keeps the types.
LEMMA ForgetType ==
    ASSUME TypeInv, NEW m \in Managers, Forget(m), UNCHANGED base
    PROVE  MemoryTypes' /\ JobTypes'
<1>1. MemoryTypes'
  BY MaintenanceAssumptions, EmptyTypes, EmptyStoreType
     DEF Forget, TypeInv, MemoryTypes, Envelopes
<1>2. JobTypes'
  <2>1. \A n \in Managers \ {m} : tid'[n] = tid[n]
    BY DEF Forget, TypeInv, MemoryTypes
  <2>2. pc' = [pc EXCEPT ![m] = "down"] /\ job' = [job EXCEPT ![m] = NoJob]
    BY DEF Forget, Goto
  <2> QED
    BY <2>1, <2>2, EndStep
<1> QED
  BY <1>1, <1>2

\* The end of an operation keeps the types.
LEMMA FinishType ==
    ASSUME TypeInv, NEW m \in Managers, Finish(m),
           \A n \in Managers \ {m} : tid'[n] = tid[n]
    PROVE  JobTypes'
<1>1. Finished(m) \in {"idle", "release"}
  BY DEF Finished
<1> QED
  BY <1>1, EndStep DEF Finish, Goto

\* An error keeps the types.
LEMMA ThrowType ==
    ASSUME TypeInv, NEW m \in Managers, Throw(m)
    PROVE  TypeInv'
<1>1. CASE job[m].kind \in {"start", "repair"}
  <2>1. lock' \in Managers \cup {NoOwner} /\ Forget(m) /\ UNCHANGED <<options, store, committed, base>>
    BY <1>1 DEF Throw, TypeInv, FileTypes
  <2> QED
    BY <2>1, ForgetType, FileTypesStay DEF TypeInv
<1>2. CASE job[m].kind \notin {"start", "repair"}
  <2>1. Finish(m) /\ UNCHANGED <<options, store, lock, held, memVars, sweep, committed, base>>
    BY <1>2 DEF Throw
  <2>2. FileTypes' /\ MemoryTypes'
    BY <2>1, FileTypesStay, MemoryStays DEF TypeInv, FileTypes
  <2>3. JobTypes'
    BY <2>1, FinishType DEF memVars
  <2> QED
    BY <2>2, <2>3 DEF TypeInv
<1> QED
  BY <1>1, <1>2

\* Acquisition and release of the storage lock.
LEMMA LockType ==
    ASSUME TypeInv, NEW m \in Managers, Acquire(m) \/ Release(m)
    PROVE  TypeInv'
<1>1. FileTypes' /\ MemoryTypes'
  <2>1. lock' \in Managers \cup {NoOwner} /\ held' \in [Managers -> BOOLEAN]
    BY DEF Acquire, Release, TypeInv, FileTypes, MemoryTypes
  <2>2. UNCHANGED <<options, store, committed, memVars, sweep, base>>
    BY DEF Acquire, Release
  <2> QED
    BY <2>1, <2>2, FileTypesStay DEF TypeInv, MemoryTypes, memVars
<1>2. JobTypes'
  <2>1. PICK s \in {"recover", "payloads", "check", "loadManifest", "idle"} :
          /\ pc' = [pc EXCEPT ![m] = s] /\ UNCHANGED <<job, tid>>
          /\ s \in {"payloads", "check"} => pc[m] = "acquire" /\ job[m].kind = "store"
    BY DEF Acquire, Release, Goto, Locked, memVars
  <2>2. Shape(pc[m], job[m], tid[m])
    BY JobOf
  <2>3. s \in Plain
    BY PlainSteps
  <2>4. Shape(s, job[m], tid[m])
    BY <2>1, <2>2, <2>3 DEF Shape, Plain
  <2> QED
    BY <2>1, <2>3, <2>4, PcStep DEF Plain
<1> QED
  BY <1>1, <1>2 DEF TypeInv

\* A start begins, and reads the manifest.
LEMMA StartType ==
    ASSUME TypeInv, NEW m \in Managers, Start(m) \/ LoadManifest(m)
    PROVE  TypeInv'
<1>1. FileTypes' /\ MemoryTypes'
  BY FileTypesStay, MemoryStays DEF Start, LoadManifest, TypeInv, FileTypes
<1>2. JobTypes'
  <2>1. job[m] \in Jobs /\ Shape(pc[m], job[m], tid[m]) /\ store.manifest \in Manifests
    BY JobOf, StoreParts DEF TypeInv, FileTypes
  <2>2. PICK j \in {[job[m] EXCEPT !.kind = "start"], [job[m] EXCEPT !.man = store.manifest]},
             s \in {"acquire", "loadManifest", "load"} :
          /\ job' = [job EXCEPT ![m] = j] /\ pc' = [pc EXCEPT ![m] = s]
          /\ s = "acquire" => j.kind = "start"
    BY <2>1 DEF Start, LoadManifest, Goto, Jobs
  <2>3. j \in Jobs /\ DOMAIN j.vers = j.env
    BY <2>1 DEF Jobs, Kinds, Shape
  <2>4. Shape(s, j, tid'[m]) /\ s \in Plain
    BY <2>2, <2>3, PlainSteps DEF Shape, Plain
  <2> QED
    BY <2>2, <2>3, <2>4, JobStep DEF Start, LoadManifest, Plain, memVars
<1> QED
  BY <1>1, <1>2 DEF TypeInv

\* Recovery takes up a commit, or ends.
LEMMA RecoverType ==
    ASSUME TypeInv, NEW m \in Managers, Recover(m)
    PROVE  TypeInv'
<1>1. FileTypes' /\ MemoryTypes' /\ UNCHANGED tid
  BY FileTypesStay, MemoryStays DEF Recover, TypeInv, FileTypes, memVars
<1>2. job[m] \in Jobs /\ Shape(pc[m], job[m], tid[m]) /\ pc[m] = "recover"
  BY JobOf DEF Recover
<1>3. ASSUME NEW s \in {"loadManifest", "release"}, UNCHANGED job, pc' = [pc EXCEPT ![m] = s]
      PROVE  TypeInv'
  <2>1. Shape(s, job[m], tid[m]) /\ s \in Steps
    BY <1>2, PlainSteps DEF Shape, Plain, Committing, Writes
  <2> QED
    BY <1>1, <1>3, <2>1, PcStep DEF TypeInv
<1>4. CASE job' = [job EXCEPT ![m].files = Directories] /\ pc' = [pc EXCEPT ![m] = "copy"]
  <2> DEFINE j == [job[m] EXCEPT !.files = Directories]
  <2>1. j \in Jobs /\ job' = [job EXCEPT ![m] = j]
    BY <1>2, <1>4 DEF Jobs, Files
  <2>2. Shape("copy", j, tid'[m]) /\ "copy" \in Steps
    BY <1>2, PlainSteps DEF Shape, Jobs, Committing, Writes
  <2> HIDE DEF j
  <2> QED
    BY <1>1, <1>4, <2>1, <2>2, JobStep DEF TypeInv
<1>5. ASSUME NEW t \in Tids,
             job' = [job EXCEPT ![m].replay = TRUE, ![m].t = t, ![m].env = store.wal[t],
                                ![m].vers = AllAt(store.wal[t], t), ![m].todo = store.wal[t]],
             pc' = [pc EXCEPT ![m] = "records"]
      PROVE  TypeInv'
  <2> DEFINE env == store.wal[t]
  <2>1. env \in Envelopes /\ t \in 0..MaxTid
    BY StoreParts, MaintenanceAssumptions DEF TypeInv, FileTypes, Tids
  <2> HIDE DEF env
  <2>2. AllAt(env, t) \in Versions /\ DOMAIN AllAt(env, t) = env
    BY <2>1, AllAtType
  <2> DEFINE v == AllAt(env, t)
  <2> HIDE DEF v
  <2> DEFINE j == [job[m] EXCEPT !.replay = TRUE, !.t = t, !.env = env, !.vers = v, !.todo = env]
  <2>3. j \in Jobs
    BY <1>2, <2>1, <2>2 DEF Jobs, Envelopes, v
  <2>4. job' = [job EXCEPT ![m] = j]
    BY <1>2, <1>5, JobOf DEF TypeInv, JobTypes, env, v
  <2>5. Shape("records", j, tid'[m]) /\ "records" \in Steps
    BY <1>2, <2>2, PlainSteps DEF Shape, Jobs, Committing, Writes, v
  <2> HIDE DEF j
  <2> QED
    BY <1>1, <1>5, <2>3, <2>4, <2>5, JobStep DEF TypeInv
<1> QED
  BY <1>3, <1>4, <1>5 DEF Recover, Goto, PendingWal
\* A start adopts what it has loaded.
LEMMA AdoptType ==
    ASSUME TypeInv, NEW m \in Managers, NEW env \in Envelopes, NEW t \in 0..MaxTid, NEW v \in Versions,
           Adopt(m, env, t, v)
    PROVE  FileTypes' /\ MemoryTypes' /\ \A n \in Managers \ {m} : tid'[n] = tid[n]
BY FileTypesStay DEF Adopt, TypeInv, FileTypes, MemoryTypes

\* The manifest is read, and a start loads from what it says, or from the WAL or a snapshot.
LEMMA LoadType ==
    ASSUME TypeInv, NEW m \in Managers, Load(m)
    PROVE  TypeInv'
<1>1. /\ job[m] \in Jobs /\ Shape(pc[m], job[m], tid[m]) /\ pc[m] = "load"
      /\ job[m].man \in Manifests /\ job[m].man.vers \in Versions /\ job[m].man.tid \in 0..MaxTid
      /\ store.current \in 0..MaxTid /\ store.wal \in [Tids -> Envelopes]
      /\ store.snapshots \in [Tids -> Envelopes] /\ MaxTid \in Nat /\ Root \in Objects
  BY JobOf, JobParts, StoreParts, MaintenanceAssumptions DEF Load, TypeInv, FileTypes
<1>2. ASSUME NEW env \in Envelopes, NEW t \in 0..MaxTid, NEW v \in Versions, AdoptAndFinish(m, env, t, v)
      PROVE  TypeInv'
  <2>1. FileTypes' /\ MemoryTypes' /\ \A n \in Managers \ {m} : tid'[n] = tid[n]
    BY <1>2, AdoptType DEF AdoptAndFinish
  <2>2. pc' = [pc EXCEPT ![m] = "idle"] /\ job' = [job EXCEPT ![m] = NoJob]
    BY <1>2 DEF AdoptAndFinish, Goto
  <2> QED
    BY <2>1, <2>2, EndStep DEF TypeInv
<1>3. ASSUME NEW env \in Envelopes, NEW t \in Tids, AdoptAndRepair(m, env, t)
      PROVE  TypeInv'
  <2>1. AllAt(env, t) \in Versions /\ DOMAIN AllAt(env, t) = env /\ t \in 0..MaxTid
    BY AllAtType, MaintenanceAssumptions DEF Tids
  <2> DEFINE v == AllAt(env, t)
  <2> HIDE DEF v
  <2>2. FileTypes' /\ MemoryTypes' /\ \A n \in Managers \ {m} : tid'[n] = tid[n]
    BY <1>3, <2>1, AdoptType DEF AdoptAndRepair, v
  <2> DEFINE j == [job[m] EXCEPT !.kind = "repair", !.t = t, !.env = env, !.vers = v, !.todo = env]
  <2>3. j \in Jobs
    BY <1>1, <2>1 DEF Jobs, Envelopes, Kinds, v
  <2>4. job' = [job EXCEPT ![m] = j] /\ pc' = [pc EXCEPT ![m] = "records"]
    BY <1>3 DEF AdoptAndRepair, Goto, TypeInv, JobTypes, v
  <2>5. Shape("records", j, tid'[m]) /\ "records" \in Steps
    BY <1>1, <2>1, PlainSteps DEF Shape, Jobs, Committing, Writes, v
  <2> HIDE DEF j
  <2> QED
    BY <2>2, <2>3, <2>4, <2>5, JobStep DEF TypeInv
<1> DEFINE S == {0} \cup {t \in Tids : store.wal[t] # {}}
           l == Max(S)
<1>4. S \in SUBSET (0..MaxTid) /\ S # {}
  BY <1>1 DEF Tids
<1>5. l \in S
  BY <1>4, MaxExists
<1> HIDE DEF l
<1>6. CASE l > job[m].man.tid
  <2>1. l \in Tids /\ l \in 0..MaxTid /\ store.wal[l] \in Envelopes
    BY <1>1, <1>5, <1>6 DEF Tids
  <2>2. AllAt(store.wal[l], l) \in Versions
    BY <2>1, AllAtType
  <2>3. AdoptAndFinish(m, store.wal[l], l, AllAt(store.wal[l], l))
    BY <1>6 DEF Load, l
  <2> QED
    BY <1>2, <2>1, <2>2, <2>3
<1>7. CASE ~(l > job[m].man.tid)
  <2>1. \/ AdoptAndFinish(m, DOMAIN job[m].man.vers, job[m].man.tid, job[m].man.vers)
        \/ AdoptAndFinish(m, {Root}, 0, NoVersions)
        \/ Throw(m)
        \/ store.current # 0 /\ AdoptAndRepair(m, store.snapshots[store.current], store.current)
    BY <1>7 DEF Load, l
  <2>2. CASE AdoptAndFinish(m, DOMAIN job[m].man.vers, job[m].man.tid, job[m].man.vers)
    BY <1>1, <1>2, <2>2, VersionsElim DEF Envelopes
  <2>3. CASE AdoptAndFinish(m, {Root}, 0, NoVersions)
    BY <1>1, <1>2, <2>3, EmptyTypes DEF Envelopes
  <2>4. CASE store.current # 0 /\ AdoptAndRepair(m, store.snapshots[store.current], store.current)
    <3>1. store.current \in Tids /\ store.snapshots[store.current] \in Envelopes
      BY <1>1, <2>4 DEF Tids
    <3> QED
      BY <1>3, <2>4, <3>1
  <2> QED
    BY <2>1, <2>2, <2>3, <2>4, ThrowType
<1> QED
  BY <1>6, <1>7

\* The application's calls and its lazy references.
LEMMA ApplicationType ==
    ASSUME TypeInv, NEW m \in Managers,
           Edit(m) \/ CreateLazyRef(m) \/ LoadLazyRef(m) \/ ClearLazyRef(m)
    PROVE  TypeInv'
<1>1. CASE Edit(m)
  <2>1. FileTypes'
    BY <1>1, FileTypesStay DEF Edit, TypeInv, FileTypes
  <2>2. graph' \in [Managers -> Envelopes] /\ \A n \in Managers \ {m} : graph'[n] = graph[n]
    BY <1>1, JobOf DEF Edit, Envelopes, TypeInv, MemoryTypes
  <2>3. MemoryTypes'
    BY <1>1, <2>2 DEF Edit, TypeInv, MemoryTypes
  <2>4. job[m] \in Jobs /\ Shape("idle", job[m], tid[m]) /\ "idle" \in Steps
    BY <1>1, JobOf, PlainSteps DEF Edit, Shape, Committing, Writes
  <2>5. JobTypes'
    <3>1. job' = [job EXCEPT ![m] = job[m]] /\ pc' = [pc EXCEPT ![m] = "idle"] /\ tid' = tid
      BY <1>1 DEF Edit, TypeInv, JobTypes
    <3> QED
      BY <2>2, <2>4, <3>1, JobStep
  <2> QED
    BY <2>1, <2>3, <2>5 DEF TypeInv
<1>2. CASE CreateLazyRef(m)
  <2>1. PICK o \in Lazies : /\ store' = [store EXCEPT !.payloads = @ \cup {o}]
                            /\ loaded' = [loaded EXCEPT ![m] = @ \cup {o}]
    BY <1>2 DEF CreateLazyRef
  <2>2. store' \in Stores
    BY <2>1 DEF TypeInv, FileTypes, Stores
  <2>3. FileTypes' /\ MemoryTypes'
    BY <1>2, <2>1, <2>2 DEF CreateLazyRef, TypeInv, FileTypes, MemoryTypes
  <2> QED
    BY <1>2, <2>3, JobTypesStay DEF CreateLazyRef, TypeInv
<1>3. CASE LoadLazyRef(m) \/ ClearLazyRef(m)
  <2>1. FileTypes'
    BY <1>3, FileTypesStay DEF LoadLazyRef, ClearLazyRef, TypeInv, FileTypes
  <2>2. MemoryTypes'
    BY <1>3 DEF LoadLazyRef, ClearLazyRef, TypeInv, MemoryTypes
  <2> QED
    BY <1>3, <2>1, <2>2, JobTypesStay DEF LoadLazyRef, ClearLazyRef, TypeInv
<1> QED
  BY <1>1, <1>2, <1>3
\* The operations begin.
LEMMA BeginType ==
    ASSUME TypeInv, NEW m \in Managers, BeginStore(m) \/ BeginCollect(m) \/ BeginBackup(m)
    PROVE  TypeInv'
<1>1. FileTypes' /\ MemoryTypes' /\ UNCHANGED tid
  BY FileTypesStay, MemoryStays
     DEF BeginStore, BeginCollect, BeginBackup, TypeInv, FileTypes, memVars
<1>2. job[m] \in Jobs /\ Shape(pc[m], job[m], tid[m]) /\ graph[m] \in SUBSET Objects
      /\ tid[m] \in 0..MaxTid /\ Root \in Objects
  BY JobOf, MaintenanceAssumptions DEF Envelopes
<1>3. CASE BeginStore(m)
  <2>1. PICK requested \in SUBSET graph[m] :
          job' = [job EXCEPT ![m].kind = "store", ![m].todo = IF requested = {} THEN {Root} ELSE requested]
    BY <1>3 DEF BeginStore
  <2> DEFINE todo == IF requested = {} THEN {Root} ELSE requested
             j == [job[m] EXCEPT !.kind = "store", !.todo = todo]
  <2>2. todo \in SUBSET Objects
    BY <1>2
  <2> HIDE DEF todo
  <2>3. j \in Jobs /\ DOMAIN j.vers = j.env /\ j.kind = "store"
    BY <1>2, <2>2 DEF Jobs, Kinds, Shape
  <2>4. job' = [job EXCEPT ![m] = j]
    BY <2>1 DEF TypeInv, JobTypes, todo
  <2> HIDE DEF j
  <2>5. PICK s \in {"acquire", "payloads", "check"} : pc' = [pc EXCEPT ![m] = s]
    BY <1>3 DEF BeginStore, WithWriteLock, Locked, Goto
  <2>6. s \in Plain /\ Shape(s, j, tid'[m])
    BY <1>1, <1>3, <2>3, PlainSteps DEF Shape, Plain, BeginStore, Committing, Writes
  <2> QED
    BY <1>1, <2>3, <2>4, <2>5, <2>6, JobStep DEF TypeInv, Plain
<1>4. CASE BeginCollect(m) \/ BeginBackup(m)
  <2>1. PICK j \in {[job[m] EXCEPT !.kind = "collect"], [job[m] EXCEPT !.kind = "backup"]},
             s \in {"gcManifest", "acquire", "recover"} :
          job' = [job EXCEPT ![m] = j] /\ pc' = [pc EXCEPT ![m] = s]
    BY <1>4 DEF BeginCollect, BeginBackup, WithWriteLock, Locked, Goto, TypeInv, JobTypes
  <2>2. j \in Jobs /\ DOMAIN j.vers = j.env /\ j.kind # "store"
    BY <1>2 DEF Jobs, Kinds, Shape
  <2>3. s \in Plain /\ Shape(s, j, tid'[m])
    BY <2>2, PlainSteps DEF Shape, Plain
  <2> QED
    BY <1>1, <2>1, <2>2, <2>3, JobStep DEF TypeInv, Plain
<1> QED
  BY <1>3, <1>4

\* The conflict check.
LEMMA CheckConflictType ==
    ASSUME TypeInv, NEW m \in Managers, CheckConflict(m)
    PROVE  TypeInv'
<1>1. CASE Throw(m)
  BY <1>1, ThrowType
<1>2. CASE ~Throw(m)
  <2>1. /\ pc[m] = "check" /\ pc' = [pc EXCEPT ![m] = "payloads"]
        /\ UNCHANGED <<options, store, lock, held, memVars, job, sweep, committed, base>>
    BY <1>2 DEF CheckConflict, Goto
  <2>2. Shape("payloads", job[m], tid[m]) /\ "payloads" \in Steps
    BY <2>1, JobOf, PlainSteps DEF Shape, Plain, Committing, Writes
  <2>3. JobTypes'
    BY <2>1, <2>2, PcStep DEF memVars
  <2> QED
    BY <2>1, <2>3, FileTypesStay, MemoryStays DEF TypeInv, FileTypes
<1> QED
  BY <1>1, <1>2

\* A commit takes its id, its envelope and its versions.
LEMMA StoreLazyRefsType ==
    ASSUME TypeInv, NEW m \in Managers, StoreLazyRefs(m)
    PROVE  TypeInv'
<1> DEFINE env == graph[m]
           t == tid[m] + 1
           written == job[m].todo \cup (env \ DOMAIN vers[m])
           v == [o \in env |-> IF o \in written THEN t ELSE vers[m][o]]
           j == [job[m] EXCEPT !.t = t, !.env = env, !.todo = written, !.vers = v]
<1>1. /\ pc[m] = "payloads" /\ job[m] \in Jobs /\ Shape(pc[m], job[m], tid[m]) /\ env \in Envelopes
      /\ tid[m] \in 0..MaxTid /\ vers[m] \in Versions /\ loaded[m] \in SUBSET Lazies /\ MaxTid \in Nat
  BY JobOf, MaintenanceAssumptions DEF StoreLazyRefs
<1>2. t \in Tids /\ t \in 0..MaxTid
  BY <1>1 DEF Shape, Tids
<1>3. v \in Versions /\ DOMAIN v = env
  <2>1. \A o \in env : v[o] \in Tids
    BY <1>1, <1>2, VersionsElim
  <2> QED
    BY <1>1, <2>1, VersionsIntro DEF Envelopes
<1>4. written \in SUBSET Objects
  BY <1>1, JobParts DEF Envelopes
<1>5. job' = [job EXCEPT ![m] = j] /\ pc' = [pc EXCEPT ![m] = "records"]
  BY DEF StoreLazyRefs, Goto, TypeInv, JobTypes
<1>6. UNCHANGED <<options, lock, held, memVars, sweep, committed, base>>
  BY DEF StoreLazyRefs
<1>7. store' \in Stores
  <2>1. store' = [store EXCEPT !.payloads = @ \cup (loaded[m] \cap graph[m])] /\ store \in Stores
    BY DEF StoreLazyRefs, StoredPayloads, TypeInv, FileTypes
  <2> QED
    BY <1>1, <2>1 DEF Stores, TypeInv, FileTypes
<1> HIDE DEF env, t, written, v
<1>8. j \in Jobs
  BY <1>1, <1>2, <1>3, <1>4 DEF Jobs
<1>9. Shape("records", j, tid'[m]) /\ "records" \in Steps
  BY <1>1, <1>2, <1>3, PlainSteps DEF Shape, Jobs, Committing, Writes
<1> HIDE DEF j
<1>10. JobTypes'
  BY <1>5, <1>6, <1>8, <1>9, JobStep DEF memVars
<1> QED
  BY <1>6, <1>7, <1>10, MemoryStays DEF TypeInv, FileTypes
\* The records of a commit.
LEMMA WriteObjectRecordsType ==
    ASSUME TypeInv, NEW m \in Managers, WriteObjectRecords(m)
    PROVE  TypeInv'
<1>1. PICK o \in job[m].todo :
        /\ store' = [store EXCEPT !.records = @ \cup {<<o, job[m].t>>}]
        /\ job' = [job EXCEPT ![m].todo = @ \ {o}]
        /\ Goto(m, IF job[m].todo = {o} THEN AfterRecords(m) ELSE "records")
  BY DEF WriteObjectRecords
<1>2. /\ pc[m] = "records" /\ job[m] \in Jobs /\ Shape(pc[m], job[m], tid[m])
      /\ UNCHANGED <<options, lock, held, memVars, sweep, committed, base>>
  BY JobOf DEF WriteObjectRecords
<1>3. o \in Objects /\ job[m].t \in Tids
  BY <1>2, JobParts DEF Shape, Committing, Writes
<1>4. store' \in Stores
  BY <1>1, <1>3 DEF Stores, TypeInv, FileTypes
<1> DEFINE j == [job[m] EXCEPT !.todo = @ \ {o}]
<1>5. j \in Jobs /\ job' = [job EXCEPT ![m] = j] /\ j.t = job[m].t /\ DOMAIN j.vers = j.env
  BY <1>1, <1>2 DEF Jobs, Shape, TypeInv, JobTypes
<1> HIDE DEF j
<1>6. PICK s \in Committing : pc' = [pc EXCEPT ![m] = s]
  BY <1>1 DEF Goto, AfterRecords, AfterSnapshot, Committing, Writes
<1>7. Shape(s, j, tid'[m]) /\ s \in Steps
  BY <1>3, <1>5, PlainSteps DEF Shape, Committing, Writes
<1>8. JobTypes'
  BY <1>2, <1>5, <1>6, <1>7, JobStep DEF memVars
<1> QED
  BY <1>2, <1>4, <1>8, MemoryStays DEF TypeInv, FileTypes

\* A write of a commit.
LEMMA WriteType ==
    ASSUME TypeInv, NEW m \in Managers, NEW step \in Committing, NEW files \in Stores,
           NEW next \in Committing, Write(m, step, files, next)
    PROVE  TypeInv'
<1>1. /\ pc[m] = step /\ store' = files /\ pc' = [pc EXCEPT ![m] = next]
      /\ committed' = committed \/ committed' = [tid |-> job[m].t, env |-> job[m].env]
      /\ base' = base \/ base' = [base EXCEPT ![m] = job[m].t]
      /\ UNCHANGED <<options, lock, held, memVars, job, sweep>>
  BY DEF Write, Goto
<1>2. job[m] \in Jobs /\ Shape(pc[m], job[m], tid[m]) /\ job[m].t \in 0..MaxTid /\ job[m].env \in Envelopes
  BY JobOf, JobParts
<1>3. FileTypes' /\ MemoryTypes'
  BY <1>1, <1>2 DEF TypeInv, FileTypes, MemoryTypes, memVars
<1>4. Shape(next, job[m], tid[m]) /\ next \in Steps
  BY <1>1, <1>2, PlainSteps DEF Shape, Committing, Writes
<1>5. JobTypes'
  BY <1>1, <1>4, PcStep DEF memVars
<1> QED
  BY <1>3, <1>5 DEF TypeInv

\* The five writes keep the types.
LEMMA WritesType ==
    ASSUME TypeInv, NEW m \in Managers,
           \/ WriteSnapshot(m) \/ WriteWalCommit(m) \/ WriteTransactionRecord(m)
           \/ WriteCurrent(m) \/ WriteManifest(m)
    PROVE  TypeInv'
<1>1. /\ job[m] \in Jobs /\ Shape(pc[m], job[m], tid[m]) /\ store \in Stores /\ MaxTid \in Nat
      /\ pc[m] \in Committing /\ Writes \subseteq Committing /\ "commitState" \in Committing
  BY JobOf, MaintenanceAssumptions DEF TypeInv, FileTypes, WriteSnapshot, WriteWalCommit,
     WriteTransactionRecord, WriteCurrent, WriteManifest, Write, Committing, Writes
<1>2. /\ job[m].t \in Tids /\ job[m].t \in 0..MaxTid /\ job[m].env \in Envelopes /\ job[m].vers \in Versions
      /\ store.latest \in 0..MaxTid
  BY <1>1, JobParts, StoreParts DEF Shape
<1>3. CASE WriteSnapshot(m)
  <2>1. [store EXCEPT !.snapshots[job[m].t] = job[m].env] \in Stores
    BY <1>1, <1>2 DEF Stores
  <2>2. AfterSnapshot(m) \in Committing
    BY DEF AfterSnapshot, Committing, Writes
  <2> QED
    BY <1>1, <1>3, <2>1, <2>2, WriteType DEF WriteSnapshot, Writes
<1>4. CASE WriteWalCommit(m)
  <2>1. [store EXCEPT !.wal[job[m].t] = job[m].env] \in Stores
    BY <1>1, <1>2 DEF Stores
  <2> QED
    BY <1>1, <1>4, <2>1, WriteType DEF WriteWalCommit, Writes
<1>5. CASE WriteTransactionRecord(m)
  <2>1. Max({store.latest, job[m].t}) \in 0..MaxTid
    BY <1>2, MaxOfTwo
  <2>2. [store EXCEPT !.latest = Max({@, job[m].t})] \in Stores
    BY <1>1, <2>1 DEF Stores
  <2>3. (IF options.snapshots THEN "current" ELSE "manifest") \in Committing
    BY DEF Committing, Writes
  <2> QED
    BY <1>1, <1>5, <2>2, <2>3, WriteType DEF WriteTransactionRecord, Writes
<1>6. CASE WriteCurrent(m)
  <2>1. [store EXCEPT !.current = job[m].t] \in Stores
    BY <1>1, <1>2 DEF Stores
  <2> QED
    BY <1>1, <1>6, <2>1, WriteType DEF WriteCurrent, Writes
<1>7. CASE WriteManifest(m)
  <2>1. [store EXCEPT !.manifest = [tid |-> job[m].t, vers |-> job[m].vers]] \in Stores
    BY <1>1, <1>2 DEF Stores, Manifests
  <2> QED
    BY <1>1, <1>7, <2>1, WriteType DEF WriteManifest, Writes
<1> QED
  BY <1>3, <1>4, <1>5, <1>6, <1>7

\* The end of a commit.
LEMMA CommitStateType ==
    ASSUME TypeInv, NEW m \in Managers, CommitState(m)
    PROVE  TypeInv'
<1>1. job[m] \in Jobs /\ job[m].t \in 0..MaxTid /\ job[m].vers \in Versions /\ job[m].kind \in Kinds
  BY JobOf, JobParts
<1>2. /\ tid' = [tid EXCEPT ![m] = job[m].t] /\ vers' = [vers EXCEPT ![m] = job[m].vers]
      /\ UNCHANGED <<options, store, lock, held, graph, loaded, sweep, committed, base>>
  BY DEF CommitState
<1>3. FileTypes' /\ MemoryTypes' /\ \A n \in Managers \ {m} : tid'[n] = tid[n]
  BY <1>1, <1>2 DEF TypeInv, FileTypes, MemoryTypes
<1>4. CASE Finish(m)
  BY <1>3, <1>4, FinishType DEF TypeInv
<1>5. CASE ~Finish(m)
  <2> DEFINE j == [NoJob EXCEPT !.kind = job[m].kind]
  <2>1. pc' = [pc EXCEPT ![m] = "recover"] /\ job' = [job EXCEPT ![m] = j]
    BY <1>5 DEF CommitState, Goto
  <2>2. j \in Jobs /\ DOMAIN j.vers = j.env
    BY <1>1, EmptyStoreType, EmptyTypes DEF Jobs, NoJob
  <2>3. Shape("recover", j, tid'[m]) /\ "recover" \in Steps
    BY <2>2, PlainSteps DEF Shape, Plain
  <2> HIDE DEF j
  <2> QED
    BY <1>3, <2>1, <2>2, <2>3, JobStep DEF TypeInv
<1> QED
  BY <1>4, <1>5

\* Garbage collection.
LEMMA CollectType ==
    ASSUME TypeInv, NEW m \in Managers,
           \/ CollectManifest(m) \/ CollectRecords(m) \/ RemoveRecord(m) \/ CollectLazies(m)
           \/ RemovePayload(m) \/ EndCollect(m)
    PROVE  TypeInv'
<1>1. /\ job[m] \in Jobs /\ Shape(pc[m], job[m], tid[m]) /\ store \in Stores
      /\ store.manifest \in Manifests /\ store.records \in SUBSET (Objects \X Tids)
      /\ store.payloads \in SUBSET Lazies /\ job[m].files \in SUBSET Files
      /\ {"gcManifest", "gcRecords", "gcRemove", "gcRemoveLazy"} \subseteq Steps
  BY JobOf, JobParts, StoreParts, PlainSteps DEF TypeInv, FileTypes, Plain
<1>2. ASSUME NEW j \in Jobs, NEW s \in Steps, job' = [job EXCEPT ![m] = j], pc' = [pc EXCEPT ![m] = s],
             Shape(s, j, tid[m]), NEW d \in Stores, store' = d,
             UNCHANGED <<options, lock, held, memVars, sweep, committed, base>>
      PROVE  TypeInv'
  <2>1. JobTypes'
    BY <1>2, JobStep DEF memVars
  <2> QED
    BY <1>2, <2>1, MemoryStays DEF TypeInv, FileTypes
<1>3. ASSUME Finish(m), UNCHANGED <<options, store, lock, held, memVars, sweep, committed, base>>
      PROVE  TypeInv'
  <2>1. JobTypes'
    BY <1>3, FinishType DEF memVars
  <2> QED
    BY <1>3, <2>1, MemoryStays, FileTypesStay DEF TypeInv, FileTypes
<1>4. CASE CollectManifest(m)
  <2>1. CASE store.manifest.tid = 0
    BY <1>3, <1>4, <2>1 DEF CollectManifest
  <2>2. CASE store.manifest.tid # 0
    <3> DEFINE j == [job[m] EXCEPT !.man = store.manifest]
    <3>1. job' = [job EXCEPT ![m] = j] /\ pc' = [pc EXCEPT ![m] = "gcRecords"]
      BY <1>4, <2>2 DEF CollectManifest, Goto, TypeInv, JobTypes
    <3>2. j \in Jobs /\ DOMAIN j.vers = j.env
      BY <1>1 DEF Jobs, Shape
    <3>3. Shape("gcRecords", j, tid[m])
      BY <3>2 DEF Shape, Committing, Writes
    <3> HIDE DEF j
    <3> QED
      BY <1>1, <1>2, <1>4, <2>2, <3>1, <3>2, <3>3 DEF CollectManifest
  <2> QED
    BY <2>1, <2>2
<1>5. CASE CollectRecords(m)
  <2>1. CASE ~Readable(store, job[m].man)
    BY <1>5, <2>1, ThrowType DEF CollectRecords
  <2>2. CASE Readable(store, job[m].man)
    <3> DEFINE files == store.records \ LiveRecords(job[m].man)
               j == [job[m] EXCEPT !.files = files]
    <3>1. job' = [job EXCEPT ![m] = j] /\ pc' = [pc EXCEPT ![m] = "gcRemove"]
      BY <1>5, <2>2 DEF CollectRecords, Goto, TypeInv, JobTypes
    <3>2. files \in SUBSET (Objects \X Tids)
      BY <1>1
    <3> HIDE DEF files
    <3>3. j \in Jobs /\ DOMAIN j.vers = j.env /\ j.files = files
      BY <1>1, <3>2 DEF Jobs, Shape, Files
    <3>4. Shape("gcRemove", j, tid[m])
      BY <3>2, <3>3 DEF Shape, Committing, Writes
    <3> HIDE DEF j
    <3> QED
      BY <1>1, <1>2, <1>5, <2>2, <3>1, <3>3, <3>4 DEF CollectRecords
  <2> QED
    BY <2>1, <2>2
<1>6. CASE RemoveRecord(m)
  <2>1. PICK file \in job[m].files : /\ store' = [store EXCEPT !.records = @ \ {file}]
                                     /\ job' = [job EXCEPT ![m].files = @ \ {file}]
    BY <1>6 DEF RemoveRecord
  <2> DEFINE d == [store EXCEPT !.records = @ \ {file}]
             j == [job[m] EXCEPT !.files = @ \ {file}]
  <2>2. d \in Stores
    BY <1>1 DEF Stores
  <2>3. j \in Jobs /\ DOMAIN j.vers = j.env /\ j.files \subseteq job[m].files
    BY <1>1 DEF Jobs, Shape
  <2>4. Shape("gcRemove", j, tid[m])
    BY <1>1, <1>6, <2>3 DEF Shape, Committing, Writes, RemoveRecord
  <2>5. store' = d /\ job' = [job EXCEPT ![m] = j] /\ pc' = [pc EXCEPT ![m] = "gcRemove"]
    BY <1>6, <2>1 DEF RemoveRecord, TypeInv, JobTypes
  <2> HIDE DEF d, j
  <2> QED
    BY <1>1, <1>2, <1>6, <2>2, <2>3, <2>4, <2>5 DEF RemoveRecord
<1>7. CASE CollectLazies(m)
  <2> DEFINE files == store.payloads \ LiveLazies(job[m].man)
             j == [job[m] EXCEPT !.files = files]
  <2>1. job' = [job EXCEPT ![m] = j] /\ pc' = [pc EXCEPT ![m] = "gcRemoveLazy"]
    BY <1>7 DEF CollectLazies, Goto, TypeInv, JobTypes
  <2>2. files \in SUBSET Lazies
    BY <1>1
  <2> HIDE DEF files
  <2>3. j \in Jobs /\ DOMAIN j.vers = j.env /\ j.files = files
    BY <1>1, <2>2 DEF Jobs, Shape, Files
  <2>4. Shape("gcRemoveLazy", j, tid[m])
    BY <2>2, <2>3 DEF Shape, Committing, Writes
  <2> HIDE DEF j
  <2> QED
    BY <1>1, <1>2, <1>7, <2>1, <2>3, <2>4 DEF CollectLazies
<1>8. CASE RemovePayload(m)
  <2>1. PICK o \in job[m].files : /\ store' = [store EXCEPT !.payloads = @ \ {o}]
                                  /\ job' = [job EXCEPT ![m].files = @ \ {o}]
    BY <1>8 DEF RemovePayload
  <2> DEFINE d == [store EXCEPT !.payloads = @ \ {o}]
             j == [job[m] EXCEPT !.files = @ \ {o}]
  <2>2. d \in Stores
    BY <1>1 DEF Stores
  <2>3. j \in Jobs /\ DOMAIN j.vers = j.env /\ j.files \subseteq job[m].files
    BY <1>1 DEF Jobs, Shape
  <2>4. Shape("gcRemoveLazy", j, tid[m])
    BY <1>1, <1>8, <2>3 DEF Shape, Committing, Writes, RemovePayload
  <2>5. store' = d /\ job' = [job EXCEPT ![m] = j] /\ pc' = [pc EXCEPT ![m] = "gcRemoveLazy"]
    BY <1>8, <2>1 DEF RemovePayload, TypeInv, JobTypes
  <2> HIDE DEF d, j
  <2> QED
    BY <1>1, <1>2, <1>8, <2>2, <2>3, <2>4, <2>5 DEF RemovePayload
<1>9. CASE EndCollect(m)
  BY <1>3, <1>9 DEF EndCollect
<1> QED
  BY <1>4, <1>5, <1>6, <1>7, <1>8, <1>9

\* Compaction.
LEMMA CompactType ==
    ASSUME TypeInv, NEW m \in Managers,
           BeginCompact(m) \/ ListSnapshots(m) \/ RemoveSnapshot(m) \/ EndCompact(m)
    PROVE  TypeInv'
<1>1. sweep[m] \in Sweeps /\ store \in Stores /\ store.current \in 0..MaxTid /\ {} \in Envelopes
  BY JobOf, StoreParts DEF TypeInv, FileTypes, Envelopes
<1>2. UNCHANGED <<options, lock, pc, held, memVars, job, committed, base>>
  BY DEF BeginCompact, ListSnapshots, RemoveSnapshot, EndCompact
<1>3. sweep' \in [Managers -> Sweeps]
  <2>1. CASE BeginCompact(m)
    BY <1>1, <2>1 DEF BeginCompact, Sweeps, TypeInv, MemoryTypes
  <2>2. CASE ListSnapshots(m)
    BY <1>1, <2>2 DEF ListSnapshots, Sweeps, TypeInv, MemoryTypes
  <2>3. CASE RemoveSnapshot(m)
    BY <1>1, <2>3 DEF RemoveSnapshot, Sweeps, TypeInv, MemoryTypes
  <2>4. CASE EndCompact(m)
    BY <2>4, EmptyStoreType DEF EndCompact, TypeInv, MemoryTypes
  <2> QED
    BY <2>1, <2>2, <2>3, <2>4
<1>4. store' \in Stores
  <2>1. CASE RemoveSnapshot(m)
    <3>1. PICK t \in sweep[m].files : store' = [store EXCEPT !.snapshots[t] = {}]
      BY <2>1 DEF RemoveSnapshot
    <3>2. t \in Tids
      BY <1>1 DEF Sweeps
    <3> QED
      BY <1>1, <3>1, <3>2 DEF Stores
  <2>2. CASE ~RemoveSnapshot(m)
    BY <1>1, <2>2 DEF BeginCompact, ListSnapshots, EndCompact
  <2> QED
    BY <2>1, <2>2
<1>5. FileTypes' /\ MemoryTypes'
  BY <1>2, <1>3, <1>4 DEF TypeInv, FileTypes, MemoryTypes, memVars
<1> QED
  BY <1>2, <1>5, JobTypesStay DEF TypeInv, memVars

\* A copy of the store with one more directory.
LEMMA CopyType ==
    ASSUME NEW c \in Stores, NEW e \in Stores, NEW d \in Directories
    PROVE  LET f == [c EXCEPT ![d] = e[d]] IN
           /\ f \in Stores
           /\ f.records = IF d = "records" THEN e.records ELSE c.records
           /\ f.payloads = IF d = "payloads" THEN e.payloads ELSE c.payloads
           /\ f.wal = IF d = "wal" THEN e.wal ELSE c.wal
           /\ f.latest = IF d = "latest" THEN e.latest ELSE c.latest
           /\ f.snapshots = IF d = "snapshots" THEN e.snapshots ELSE c.snapshots
           /\ f.current = IF d = "current" THEN e.current ELSE c.current
           /\ f.manifest = IF d = "manifest" THEN e.manifest ELSE c.manifest
<1> DEFINE f == [c EXCEPT ![d] = e[d]]
<1>1. CASE d = "records"
  <2>1. f = [c EXCEPT !.records = e.records]
    BY <1>1
  <2> HIDE DEF f
  <2>2. f \in Stores
    BY <2>1 DEF Stores
  <2> QED
    BY <1>1, <2>1, <2>2 DEF Stores, f
<1>2. CASE d = "payloads"
  <2>1. f = [c EXCEPT !.payloads = e.payloads]
    BY <1>2
  <2> HIDE DEF f
  <2>2. f \in Stores
    BY <2>1 DEF Stores
  <2> QED
    BY <1>2, <2>1, <2>2 DEF Stores, f
<1>3. CASE d = "wal"
  <2>1. f = [c EXCEPT !.wal = e.wal]
    BY <1>3
  <2> HIDE DEF f
  <2>2. f \in Stores
    BY <2>1 DEF Stores
  <2> QED
    BY <1>3, <2>1, <2>2 DEF Stores, f
<1>4. CASE d = "latest"
  <2>1. f = [c EXCEPT !.latest = e.latest]
    BY <1>4
  <2> HIDE DEF f
  <2>2. f \in Stores
    BY <2>1 DEF Stores
  <2> QED
    BY <1>4, <2>1, <2>2 DEF Stores, f
<1>5. CASE d = "snapshots"
  <2>1. f = [c EXCEPT !.snapshots = e.snapshots]
    BY <1>5
  <2> HIDE DEF f
  <2>2. f \in Stores
    BY <2>1 DEF Stores
  <2> QED
    BY <1>5, <2>1, <2>2 DEF Stores, f
<1>6. CASE d = "current"
  <2>1. f = [c EXCEPT !.current = e.current]
    BY <1>6
  <2> HIDE DEF f
  <2>2. f \in Stores
    BY <2>1 DEF Stores
  <2> QED
    BY <1>6, <2>1, <2>2 DEF Stores, f
<1>7. CASE d = "manifest"
  <2>1. f = [c EXCEPT !.manifest = e.manifest]
    BY <1>7
  <2> HIDE DEF f
  <2>2. f \in Stores
    BY <2>1 DEF Stores
  <2> QED
    BY <1>7, <2>1, <2>2 DEF Stores, f
<1> QED
  BY <1>1, <1>2, <1>3, <1>4, <1>5, <1>6, <1>7 DEF Directories

\* Backup.
LEMMA BackupType ==
    ASSUME TypeInv, NEW m \in Managers, CopyDirectory(m) \/ EndBackup(m)
    PROVE  TypeInv'
<1>1. /\ job[m] \in Jobs /\ Shape(pc[m], job[m], tid[m]) /\ store \in Stores /\ job[m].copy \in Stores
  BY JobOf, JobParts DEF TypeInv, FileTypes
<1>2. UNCHANGED <<options, store, lock, held, memVars, sweep, committed, base>>
  BY DEF CopyDirectory, EndBackup
<1>3. FileTypes' /\ MemoryTypes'
  BY <1>2, FileTypesStay, MemoryStays DEF TypeInv, FileTypes
<1>4. CASE EndBackup(m)
  BY <1>2, <1>3, <1>4, FinishType DEF EndBackup, TypeInv, memVars
<1>5. CASE CopyDirectory(m)
  <2>1. PICK d \in job[m].files :
          /\ job' = [job EXCEPT ![m].copy[d] = store[d], ![m].files = @ \ {d}]
          /\ Goto(m, IF job[m].files = {d} THEN "copied" ELSE "copy")
    BY <1>5 DEF CopyDirectory
  <2>2. pc[m] = "copy" /\ job[m].files \subseteq Directories /\ d \in Directories
    BY <1>1, <1>5 DEF CopyDirectory, Shape
  <2> DEFINE f == [job[m].copy EXCEPT ![d] = store[d]]
  <2>3. f \in Stores
    BY <1>1, <2>2, CopyType
  <2> HIDE DEF f
  <2> DEFINE j == [job[m] EXCEPT !.copy = f, !.files = @ \ {d}]
  <2>4. j \in Jobs /\ DOMAIN j.vers = j.env /\ j.files \subseteq Directories
    BY <1>1, <2>2, <2>3 DEF Jobs, Shape
  <2>5. job' = [job EXCEPT ![m] = j]
    BY <1>1, <2>1 DEF TypeInv, JobTypes, Jobs, f
  <2> HIDE DEF j
  <2>6. PICK s \in {"copy", "copied"} : pc' = [pc EXCEPT ![m] = s]
    BY <2>1 DEF Goto
  <2>7. Shape(s, j, tid'[m]) /\ s \in Steps
    BY <2>4, PlainSteps DEF Shape, Plain, Committing, Writes
  <2>8. JobTypes'
    BY <1>2, <2>4, <2>5, <2>6, <2>7, JobStep DEF memVars
  <2> QED
    BY <1>3, <2>8 DEF TypeInv
<1> QED
  BY <1>4, <1>5

\* Failures, and processes that die or stop.
LEMMA StopType ==
    ASSUME TypeInv, NEW m \in Managers,
           AcquireTimeout(m) \/ TargetFails(m) \/ Crash(m) \/ Shutdown(m)
    PROVE  TypeInv'
<1>1. CASE AcquireTimeout(m) \/ TargetFails(m)
  BY <1>1, ThrowType DEF AcquireTimeout, TargetFails
<1>2. CASE Crash(m) \/ Shutdown(m)
  <2>1. /\ Forget(m) /\ lock' \in Managers \cup {NoOwner}
        /\ UNCHANGED <<options, store, committed, base>>
    BY <1>2 DEF Crash, Shutdown, TypeInv, FileTypes
  <2> QED
    BY <2>1, ForgetType, FileTypesStay DEF TypeInv
<1> QED
  BY <1>1, <1>2

\* Every step keeps the types.
LEMMA TypeNext == TypeInv /\ [Next]_vars => TypeInv'
<1> SUFFICES ASSUME TypeInv, [Next]_vars PROVE TypeInv'
  OBVIOUS
<1>1. CASE UNCHANGED vars
  BY <1>1, FileTypesStay, MemoryStays, JobTypesStay DEF vars, memVars, TypeInv, FileTypes
<1>2. CASE Next
  BY <1>2, StartType, LockType, StopType, RecoverType, LoadType, ApplicationType, BeginType,
     CheckConflictType, StoreLazyRefsType, WriteObjectRecordsType, WritesType, CommitStateType,
     CollectType, CompactType, BackupType DEF Next
<1> QED
  BY <1>1, <1>2

\* Whatever the managers do, collect, compact, copy, die or fail, the files and
\* the memory of the managers keep their shape, with every lockStrategy.
THEOREM MaintenanceTypeCorrect == Spec => []MaintenanceTypeOK
<1>1. TypeInv /\ [Next]_vars => TypeInv'
  BY TypeNext
<1> QED
  BY <1>1, TypeInit, TypeInvTypes, PTL DEF Spec

-----------------------------------------------------------------------------
(* Managers that have the store for themselves: the inductive invariant *)

\* Each manager has the store for itself from start() to shutdown(), nothing fails
\* from the write on that makes a commit durable, there is a WAL, snapshots, or
\* both, and a compaction of a store without a WAL keeps two snapshots.
AloneOnly ==
    /\ \A o \in Options :
         /\ o.strategy = "startup"
         /\ o.wal \/ o.snapshots
         /\ o.wal \/ "compact" \notin Ops[o] \/ KeepLatest >= 2
    /\ FailsAt \cap {"down", "txn", "current", "manifest", "commitState"} = {}

\* The files d load as the last durable commit: a WAL holds it, and lacks the
\* publication of no earlier one; without a WAL CURRENT names its snapshot; and a
\* manifest that is not the one before shows it.
LoadsAsLast(d) ==
    /\ \A t \in Tids : d.wal[t] # {} <=> options.wal /\ t <= committed.tid
    /\ options.wal => \A t \in Tids : t = committed.tid => d.wal[t] = committed.env
    /\ d.manifest.tid \in {committed.tid - 1, committed.tid}
    /\ d.manifest.tid = committed.tid =>
         Readable(d, d.manifest) /\ DOMAIN d.manifest.vers = committed.env
    /\ IF options.wal
       THEN /\ d.latest \in {committed.tid - 1, committed.tid}
            /\ d.manifest.tid = committed.tid => d.latest = committed.tid
            /\ d.current <= committed.tid
       ELSE /\ d.latest \in {committed.tid, committed.tid + 1}
            /\ d.current = committed.tid
            /\ \A t \in Tids : t = committed.tid => d.snapshots[t] = committed.env

FilesInv ==
    /\ IF committed.tid = 0 THEN committed = Nothing ELSE Root \in committed.env
    /\ LoadsAsLast(store)
    /\ ~options.wal => \A t \in Tids : t > committed.tid + 1 => store.snapshots[t] = {}
    /\ committed.env \cap Lazies \subseteq store.payloads

\* A manager that has the store.
Active(m) == pc[m] \notin {"down", "acquire"}

LockInv == \A m \in Managers :
    /\ held[m] <=> Active(m)
    /\ held[m] => lock = m
    /\ pc[m] = "down" => job[m] = NoJob
    /\ pc[m] = "acquire" => job[m] = [NoJob EXCEPT !.kind = "start"]

\* Without a WAL compaction removes snapshots older than the one CURRENT names.
SweepInv == \A m \in Managers :
    /\ sweep[m].step # "none" => "compact" \in Ops[options]
    /\ ~options.wal => \A t \in sweep[m].files : t < committed.tid

\* The commit of m has not been made durable.
Unborn(m) == pc[m] \in IF options.wal THEN {"records", "snapshot", "marker"}
                       ELSE {"records", "snapshot", "txn", "current"}

\* What m needs for its next commit: it knows the last one, which it made or
\* loaded, and it has the value of each LazyRef it has added since.
Ready(m) ==
    /\ tid[m] = committed.tid
    /\ base[m] = committed.tid
    /\ store.manifest.tid = committed.tid
    /\ vers[m] = store.manifest.vers
    /\ Root \in graph[m]
    /\ (graph[m] \cap Lazies) \ loaded[m] \subseteq DOMAIN vers[m]

ReadyInv(m) ==
    job[m].kind \notin {"start", "repair"} /\ (pc[m] \in Committing => Unborn(m)) => Ready(m)

Collecting == {"gcManifest", "gcRecords", "gcRemove", "gcRemoveLazy"}

\* Which operation is where, and what a load has read.
PlaceInv(m) ==
    /\ pc[m] = "recover" => job[m].kind \in {"start", "backup"}
    /\ pc[m] \in {"loadManifest", "load"} =>
         job[m].kind = "start" /\ (options.wal => store.manifest.tid = committed.tid)
    /\ pc[m] = "load" => job[m].man = store.manifest
    /\ pc[m] = "idle" => job[m].kind = "none"
    /\ pc[m] = "payloads" => job[m].kind = "store"
    /\ pc[m] \in Collecting => job[m].kind = "collect"
    /\ pc[m] \in {"copy", "copied"} => job[m].kind = "backup"
    /\ pc[m] \notin {"release", "check", "gcLazy"}
    /\ pc[m] \notin Committing => ~job[m].replay

\* A collection works from the manifest that is in force, and keeps what it mentions.
CollectInv(m) ==
    /\ pc[m] \in {"gcRecords", "gcRemove", "gcRemoveLazy"} => job[m].man = store.manifest
    /\ pc[m] = "gcRemove" => job[m].files \cap LiveRecords(store.manifest) = {}
    /\ pc[m] = "gcRemoveLazy" => job[m].files \cap LiveLazies(store.manifest) = {}

\* Records and payloads of a commit are written before it goes on.
WrittenInv(m) == pc[m] \in Committing =>
    /\ job[m].kind \in {"start", "store", "repair"}
    /\ job[m].replay <=> job[m].kind = "start"
    /\ Root \in job[m].env
    /\ job[m].env \cap Lazies \subseteq store.payloads
    /\ \A o \in job[m].env : IF o \in job[m].todo THEN job[m].vers[o] = job[m].t
                             ELSE <<o, job[m].vers[o]>> \in store.records
    /\ pc[m] # "records" => job[m].todo = {}
    /\ pc[m] = "marker" => options.wal
    /\ pc[m] \in {"snapshot", "current"} => options.snapshots

\* A commit ahead of the write that makes it durable.
UnbornInv(m) == pc[m] \in Committing /\ job[m].kind = "store" /\ Unborn(m) =>
    /\ job[m].t = committed.tid + 1
    /\ job[m].env = graph[m]
    /\ ~options.wal /\ pc[m] \in {"txn", "current"} => store.snapshots[job[m].t] = job[m].env
    /\ pc[m] = "current" => store.latest = job[m].t

\* A commit, a recovery or a repair on its way to the manifest.
DurableInv(m) == pc[m] \in Committing /\ ~(job[m].kind = "store" /\ Unborn(m)) =>
    /\ job[m].t = committed.tid
    /\ job[m].env = committed.env
    /\ job[m].kind = "repair" => ~options.wal /\ pc[m] \in {"records", "manifest", "commitState"}
    /\ job[m].kind = "start" => options.wal /\ pc[m] # "marker"
    /\ job[m].kind # "repair" /\ pc[m] # "commitState" => store.manifest.tid = committed.tid - 1
    /\ pc[m] = "commitState" => store.manifest = [tid |-> job[m].t, vers |-> job[m].vers]
    /\ pc[m] \in {"current", "manifest", "commitState"} => store.latest >= committed.tid
    /\ job[m].kind # "start" => graph[m] = job[m].env /\ base[m] = committed.tid

\* What a backup has copied is what a start needs of the store.
CopyInv(m) == pc[m] \in {"copy", "copied"} =>
    LET done == Directories \ job[m].files IN
    /\ "records" \in done => job[m].copy.records = store.records
    /\ "wal" \in done => job[m].copy.wal = store.wal
    /\ "latest" \in done => job[m].copy.latest = store.latest
    /\ "current" \in done => job[m].copy.current = store.current
    /\ "manifest" \in done => job[m].copy.manifest = store.manifest
    /\ "snapshots" \in done /\ ~options.wal =>
         \A t \in Tids : t = committed.tid => job[m].copy.snapshots[t] = committed.env
    /\ "payloads" \in done => committed.env \cap Lazies \subseteq job[m].copy.payloads
    /\ pc[m] = "copied" => job[m].files = {}

JobInv(m) ==
    /\ PlaceInv(m) /\ ReadyInv(m) /\ CollectInv(m) /\ WrittenInv(m)
    /\ UnbornInv(m) /\ DurableInv(m) /\ CopyInv(m)

AloneInv ==
    /\ TypeInv
    /\ LockInv
    /\ FilesInv
    /\ SweepInv
    /\ \A m \in Managers : Active(m) => JobInv(m)

-----------------------------------------------------------------------------
(* What the invariant says of the files *)

\* The types of a state of the invariant.
LEMMA AloneTypes ==
    ASSUME AloneInv
    PROVE  /\ store \in Stores /\ options \in Options
           /\ committed \in [tid : 0..MaxTid, env : Envelopes] /\ committed.tid \in 0..MaxTid
           /\ committed.tid \in Int /\ MaxTid \in Nat /\ committed.env \in SUBSET Objects
           /\ pc \in [Managers -> Steps] /\ job \in [Managers -> Jobs] /\ held \in [Managers -> BOOLEAN]
           /\ graph \in [Managers -> Envelopes] /\ loaded \in [Managers -> SUBSET Lazies]
           /\ tid \in [Managers -> 0..MaxTid] /\ vers \in [Managers -> Versions]
           /\ base \in [Managers -> 0..MaxTid] /\ sweep \in [Managers -> Sweeps]
           /\ \A t \in Tids : t \in Int /\ t > 0 /\ t <= MaxTid
BY MaintenanceAssumptions DEF AloneInv, TypeInv, FileTypes, MemoryTypes, JobTypes, Tids, Envelopes

\* Only the last commit can wait for its publication.
LEMMA PendingIs ==
    ASSUME NEW d \in Stores, committed.tid \in 0..MaxTid, LoadsAsLast(d)
    PROVE  PendingWal(d) = IF options.wal /\ d.manifest.tid < committed.tid THEN {committed.tid} ELSE {}
<1>1. /\ d.manifest.tid \in 0..MaxTid /\ MaxTid \in Nat /\ d.manifest.tid \in {committed.tid - 1, committed.tid}
      /\ d.latest \in 0..MaxTid /\ committed.tid \in Int
      /\ \A t \in Tids : d.wal[t] # {} <=> options.wal /\ t <= committed.tid
  BY MaintenanceAssumptions, StoreParts DEF LoadsAsLast
<1>2. CASE options.wal
  <2>1. /\ d.latest \in {committed.tid - 1, committed.tid}
        /\ d.manifest.tid = committed.tid => d.latest = committed.tid
    BY <1>2 DEF LoadsAsLast
  <2> QED
    BY <1>1, <1>2, <2>1 DEF PendingWal, Tids
<1>3. CASE ~options.wal
  BY <1>1, <1>3 DEF PendingWal
<1> QED
  BY <1>2, <1>3

\* Files like these load as the last commit.
LEMMA FoundIs ==
    ASSUME NEW d \in Stores, committed \in [tid : 0..MaxTid, env : Envelopes],
           committed.tid = 0 => committed = Nothing, LoadsAsLast(d)
    PROVE  Found(d) = committed
<1>1. /\ d.manifest.tid \in 0..MaxTid /\ MaxTid \in Nat /\ d.manifest.tid \in {committed.tid - 1, committed.tid}
      /\ d.latest \in 0..MaxTid /\ d.current \in 0..MaxTid
      /\ committed.tid \in Int /\ committed.tid \in 0..MaxTid
      /\ committed = [tid |-> committed.tid, env |-> committed.env]
  BY MaintenanceAssumptions, StoreParts DEF LoadsAsLast
<1>2. PendingWal(d) = IF options.wal /\ d.manifest.tid < committed.tid THEN {committed.tid} ELSE {}
  BY <1>1, PendingIs
<1>3. CASE options.wal /\ d.manifest.tid < committed.tid
  <2> DEFINE k == committed.tid
  <2>0. {k} \in SUBSET Int /\ k \in {k} /\ \A y \in {k} : y <= k
    BY <1>1
  <2>1. Max({k}) = k
    <3> HIDE DEF k
    <3> QED
      BY <2>0, MaxIs
  <2>2. d.wal[committed.tid] = committed.env
    BY <1>1, <1>3 DEF LoadsAsLast, Tids
  <2>3. Found(d) = [tid |-> committed.tid, env |-> d.wal[committed.tid]]
    BY <1>2, <1>3, <2>1 DEF Found
  <2> QED
    BY <1>1, <2>2, <2>3
<1>4. CASE ~(options.wal /\ d.manifest.tid < committed.tid)
  <2>1. PendingWal(d) = {}
    BY <1>2, <1>4
  <2>2. CASE d.manifest.tid > 0 /\ d.latest <= d.manifest.tid /\ Readable(d, d.manifest)
    <3>1. Found(d) = [tid |-> d.manifest.tid, env |-> DOMAIN d.manifest.vers]
      BY <2>1, <2>2 DEF Found
    <3>2. d.manifest.tid = committed.tid
      BY <1>1, <1>4, <2>2 DEF LoadsAsLast
    <3> QED
      BY <1>1, <3>1, <3>2 DEF LoadsAsLast
  <2>3. CASE ~(d.manifest.tid > 0 /\ d.latest <= d.manifest.tid /\ Readable(d, d.manifest))
    <3>1. Found(d) = IF d.current > 0 THEN [tid |-> d.current, env |-> d.snapshots[d.current]] ELSE Nothing
      BY <2>1, <2>3 DEF Found
    <3>2. CASE committed.tid = 0
      BY <1>1, <3>1, <3>2 DEF LoadsAsLast
    <3>3. CASE committed.tid > 0
      <4>1. ~options.wal
        BY <1>1, <1>4, <2>3, <3>3 DEF LoadsAsLast
      <4>2. d.current = committed.tid /\ d.snapshots[committed.tid] = committed.env
        BY <1>1, <3>3, <4>1 DEF LoadsAsLast, Tids
      <4> QED
        BY <1>1, <3>1, <3>3, <4>2
    <3> QED
      BY <1>1, <3>2, <3>3
  <2> QED
    BY <2>2, <2>3
<1> QED
  BY <1>3, <1>4

-----------------------------------------------------------------------------
(* Steps of the one manager that has the store, and of the others *)

\* The invariant holds of a store that was never opened.
LEMMA AloneInit == Init => AloneInv
<1> SUFFICES ASSUME Init PROVE AloneInv
  OBVIOUS
<1>1. LockInv /\ SweepInv /\ \A m \in Managers : ~Active(m)
  BY DEF Init, LockInv, SweepInv, Active, NoSweep
<1>2. FilesInv
  <2>1. committed.tid = 0 /\ committed = Nothing /\ committed.env = {} /\ store = EmptyStore
    BY DEF Init, Nothing
  <2>2. LoadsAsLast(store)
    <3>1. store.manifest = NoManifest /\ store.manifest.tid = 0 /\ DOMAIN store.manifest.vers = {}
      BY <2>1, EmptyTypes DEF EmptyStore
    <3>2. Readable(store, store.manifest)
      BY <3>1 DEF Readable
    <3>3. \A t \in Tids : t \in Int /\ t > 0
      BY MaintenanceAssumptions DEF Tids
    <3>4. store.latest = 0 /\ store.current = 0 /\ \A t \in Tids : store.wal[t] = {}
      BY <2>1 DEF EmptyStore
    <3> QED
      BY <2>1, <3>1, <3>2, <3>3, <3>4 DEF LoadsAsLast
  <2> QED
    BY <2>1, <2>2 DEF FilesInv, EmptyStore
<1> QED
  BY <1>1, <1>2, TypeInit DEF AloneInv

\* Files that do not change stay as they are.
LEMMA FilesStay ==
    ASSUME FilesInv, UNCHANGED <<options, store, committed>>
    PROVE  FilesInv'
BY DEF FilesInv, LoadsAsLast, Readable

\* So does what compaction will remove.
LEMMA SweepStays ==
    ASSUME SweepInv, UNCHANGED <<options, committed, sweep>>
    PROVE  SweepInv'
BY DEF SweepInv

\* Only m's operation moves.
OnlyMoves(m) == \A n \in Managers \ {m} : pc'[n] = pc[n] /\ job'[n] = job[n]

\* One manager at a time has the store.
LEMMA OneActive ==
    ASSUME LockInv, NEW m \in Managers, Active(m), NEW n \in Managers, Active(n)
    PROVE  n = m
BY DEF LockInv

\* What the job of m has to do with the rest of the state.
LEMMA JobStays ==
    ASSUME NEW m \in Managers, JobInv(m), UNCHANGED <<options, store, committed>>,
           pc'[m] = pc[m], job'[m] = job[m], graph'[m] = graph[m], loaded'[m] = loaded[m],
           tid'[m] = tid[m], vers'[m] = vers[m], base'[m] = base[m]
    PROVE  JobInv(m)'
<1>1. PlaceInv(m)' /\ CollectInv(m)'
  BY DEF JobInv, PlaceInv, CollectInv, LiveRecords, LiveLazies
<1>2. ReadyInv(m)' /\ UnbornInv(m)' /\ DurableInv(m)'
  BY DEF JobInv, ReadyInv, Ready, Unborn, UnbornInv, DurableInv
<1>3. WrittenInv(m)' /\ CopyInv(m)'
  BY DEF JobInv, WrittenInv, CopyInv
<1> QED
  BY <1>1, <1>2, <1>3 DEF JobInv

\* A step of the manager that has the store and goes on with it.
LEMMA ActiveStep ==
    ASSUME AloneInv, TypeInv', NEW m \in Managers, Active(m), Active(m)', OnlyMoves(m),
           UNCHANGED <<held, lock>>, FilesInv', SweepInv', JobInv(m)'
    PROVE  AloneInv'
<1>1. ASSUME NEW n \in Managers, n # m
      PROVE  pc'[n] = pc[n] /\ job'[n] = job[n] /\ ~Active(n)
  BY <1>1, OneActive DEF OnlyMoves, AloneInv
<1>2. LockInv'
  BY <1>1 DEF AloneInv, LockInv, Active
<1>3. \A n \in Managers : Active(n)' => n = m
  BY <1>1 DEF Active
<1> QED
  BY <1>2, <1>3 DEF AloneInv

\* The manager that has the store goes on to a step outside a commit.
LEMMA QuietStep ==
    ASSUME AloneInv, TypeInv', NEW m \in Managers, Active(m), OnlyMoves(m),
           UNCHANGED <<held, lock, options, store, committed, sweep>>,
           pc'[m] \notin Committing \cup {"down", "acquire"},
           PlaceInv(m)', CollectInv(m)', CopyInv(m)',
           job'[m].kind \notin {"start", "repair"} => Ready(m)'
    PROVE  AloneInv'
<1>1. FilesInv' /\ SweepInv' /\ Active(m)'
  BY FilesStay, SweepStays DEF AloneInv, Active
<1>2. JobInv(m)'
  BY DEF JobInv, WrittenInv, UnbornInv, DurableInv, ReadyInv
<1> QED
  BY <1>1, <1>2, ActiveStep

\* It ends its operation, ready for the next one.
LEMMA IdleStep ==
    ASSUME AloneInv, TypeInv', NEW m \in Managers, Active(m),
           pc' = [pc EXCEPT ![m] = "idle"], job' = [job EXCEPT ![m] = NoJob],
           UNCHANGED <<held, lock, options, store, committed, sweep>>, Ready(m)'
    PROVE  AloneInv'
<1>1. pc'[m] = "idle" /\ job'[m] = NoJob /\ OnlyMoves(m)
  BY AloneTypes DEF OnlyMoves
<1>2. PlaceInv(m)' /\ CollectInv(m)' /\ CopyInv(m)'
  BY <1>1 DEF PlaceInv, CollectInv, CopyInv, NoJob, Collecting, Committing, Writes
<1>3. pc'[m] \notin Committing \cup {"down", "acquire"}
  BY <1>1 DEF Committing, Writes
<1> QED
  BY <1>1, <1>2, <1>3, QuietStep

\* A manager that waits for the store, or a process that dies or stops, leaves the
\* files as they are, and the lock to nobody alive.
LEMMA OutsideStep ==
    ASSUME AloneInv, TypeInv', NEW m \in Managers, OnlyMoves(m), ~Active(m)', ~held'[m],
           UNCHANGED <<options, store, committed>>,
           lock' = lock \/ held[m],
           pc'[m] = "down" => job'[m] = NoJob,
           pc'[m] = "acquire" => job'[m] = [NoJob EXCEPT !.kind = "start"],
           sweep'[m] \in {sweep[m], NoSweep},
           \A n \in Managers \ {m} : /\ held'[n] = held[n] /\ graph'[n] = graph[n] /\ loaded'[n] = loaded[n]
                                     /\ tid'[n] = tid[n] /\ vers'[n] = vers[n] /\ base'[n] = base[n]
                                     /\ sweep'[n] = sweep[n]
    PROVE  AloneInv'
<1>1. FilesInv'
  BY FilesStay DEF AloneInv
<1>2. LockInv'
  BY OneActive DEF AloneInv, LockInv, Active, OnlyMoves
<1>3. SweepInv'
  <2>1. SweepInv
    BY DEF AloneInv
  <2>2. \A n \in Managers : sweep'[n] \in {sweep[n], NoSweep}
    OBVIOUS
  <2> QED
    BY <2>1, <2>2 DEF SweepInv, NoSweep
<1>4. ASSUME NEW n \in Managers, Active(n)'
      PROVE  JobInv(n)'
  <2>1. n # m /\ pc'[n] = pc[n] /\ job'[n] = job[n] /\ JobInv(n)
    BY <1>4 DEF OnlyMoves, AloneInv, Active
  <2> QED
    BY <2>1, JobStays
<1> QED
  BY <1>1, <1>2, <1>3, <1>4 DEF AloneInv

\* A process that forgets its memory.
LEMMA ForgetStep ==
    ASSUME AloneInv, TypeInv', NEW m \in Managers, Forget(m),
           UNCHANGED <<options, store, committed, base>>, lock' = lock \/ held[m]
    PROVE  AloneInv'
<1>1. /\ pc'[m] = "down" /\ held'[m] = FALSE /\ job'[m] = NoJob /\ sweep'[m] = NoSweep /\ OnlyMoves(m)
      /\ \A n \in Managers \ {m} : /\ held'[n] = held[n] /\ graph'[n] = graph[n] /\ loaded'[n] = loaded[n]
                                   /\ tid'[n] = tid[n] /\ vers'[n] = vers[n] /\ base'[n] = base[n]
                                   /\ sweep'[n] = sweep[n]
  BY AloneTypes DEF Forget, Goto, OnlyMoves
<1>2. ~Active(m)'
  BY <1>1 DEF Active
<1> QED
  BY <1>1, <1>2, OutsideStep

\* An error before the commit is durable, or in a start.
LEMMA ThrowStep ==
    ASSUME AloneOnly, AloneInv, TypeInv', NEW m \in Managers, Throw(m),
           job[m].kind \notin {"start", "repair"} => pc[m] # "down" /\ (pc[m] \in Committing => Unborn(m))
    PROVE  AloneInv'
<1>0. options.strategy = "startup"
  BY AloneTypes DEF AloneOnly
<1>1. CASE job[m].kind \in {"start", "repair"}
  <2>1. Forget(m) /\ lock' = lock /\ UNCHANGED <<options, store, committed, base>>
    BY <1>0, <1>1 DEF Throw
  <2> QED
    BY <2>1, ForgetStep
<1>2. CASE job[m].kind \notin {"start", "repair"}
  <2>1. Active(m)
    BY <1>2 DEF AloneInv, LockInv, Active, NoJob
  <2>2. /\ pc' = [pc EXCEPT ![m] = "idle"] /\ job' = [job EXCEPT ![m] = NoJob]
        /\ UNCHANGED <<options, store, lock, held, memVars, sweep, committed, base>>
    BY <1>0, <1>2 DEF Throw, Finish, Finished, Goto
  <2>3. Ready(m)
    BY <1>2, <2>1 DEF AloneInv, JobInv, ReadyInv
  <2>4. Ready(m)'
    BY <2>2, <2>3 DEF Ready, memVars
  <2> QED
    BY <2>1, <2>2, <2>4, IdleStep
<1> QED
  BY <1>1, <1>2

\* Failures, and processes that die or stop.
LEMMA StopAlone ==
    ASSUME AloneOnly, AloneInv, TypeInv', NEW m \in Managers,
           AcquireTimeout(m) \/ TargetFails(m) \/ Crash(m) \/ Shutdown(m)
    PROVE  AloneInv'
<1>1. CASE AcquireTimeout(m)
  <2>1. job[m].kind = "start"
    BY <1>1 DEF AcquireTimeout, AloneInv, LockInv, NoJob
  <2> QED
    BY <1>1, <2>1, ThrowStep DEF AcquireTimeout
<1>2. CASE TargetFails(m)
  <2>1. pc[m] \notin {"down", "txn", "current", "manifest", "commitState"} /\ Throw(m)
    BY <1>2 DEF TargetFails, AloneOnly
  <2>2. pc[m] = "marker" => options.wal
    BY DEF AloneInv, Active, JobInv, WrittenInv, Committing, Writes
  <2>3. pc[m] \in Committing => Unborn(m)
    BY <2>1, <2>2 DEF Committing, Writes, Unborn
  <2> QED
    BY <2>1, <2>3, ThrowStep
<1>3. CASE Crash(m)
  BY <1>3, ForgetStep DEF Crash
<1>4. CASE Shutdown(m)
  <2>1. Forget(m) /\ UNCHANGED <<options, store, committed, base>> /\ (lock' = lock \/ held[m])
    BY <1>4 DEF Shutdown
  <2> QED
    BY <2>1, ForgetStep
<1> QED
  BY <1>1, <1>2, <1>3, <1>4

-----------------------------------------------------------------------------
(* start() and recovery *)

\* A start begins by waiting for the lock.
LEMMA StartAlone ==
    ASSUME AloneOnly, AloneInv, TypeInv', NEW m \in Managers, Start(m)
    PROVE  AloneInv'
<1>1. options.strategy = "startup" /\ pc[m] = "down" /\ job[m] = NoJob /\ ~held[m]
  BY AloneTypes DEF AloneOnly, Start, AloneInv, LockInv, Active
<1>2. /\ pc' = [pc EXCEPT ![m] = "acquire"] /\ job' = [job EXCEPT ![m].kind = "start"]
      /\ UNCHANGED <<options, store, lock, held, memVars, sweep, committed, base>>
  BY <1>1 DEF Start, Goto
<1>3. pc'[m] = "acquire" /\ job'[m] = [NoJob EXCEPT !.kind = "start"] /\ OnlyMoves(m)
  BY <1>1, <1>2, AloneTypes DEF OnlyMoves
<1> QED
  BY <1>1, <1>2, <1>3, OutsideStep DEF Active, memVars

\* A lock is acquired when nobody has the store.
LEMMA AcquireAlone ==
    ASSUME AloneInv, TypeInv', NEW m \in Managers, Acquire(m)
    PROVE  AloneInv'
<1>1. pc[m] = "acquire" /\ job[m] = [NoJob EXCEPT !.kind = "start"]
  BY DEF Acquire, AloneInv, LockInv
<1>2. \A n \in Managers : ~Active(n)
  BY MaintenanceAssumptions DEF Acquire, AloneInv, LockInv
<1>3. job[m].kind = "start" /\ job[m].replay = FALSE
  BY <1>1 DEF NoJob
<1>4. /\ pc' = [pc EXCEPT ![m] = "recover"] /\ held' = [held EXCEPT ![m] = TRUE] /\ lock' = m
      /\ UNCHANGED <<options, store, memVars, job, sweep, committed, base>>
  BY <1>3 DEF Acquire, Goto, Locked
<1>5. /\ pc'[m] = "recover" /\ held'[m] = TRUE /\ job'[m] = job[m]
      /\ \A n \in Managers \ {m} : pc'[n] = pc[n] /\ held'[n] = held[n] /\ job'[n] = job[n]
  BY <1>4, AloneTypes
<1>6. FilesInv' /\ SweepInv'
  BY <1>4, FilesStay, SweepStays DEF AloneInv
<1>7. LockInv'
  BY <1>2, <1>4, <1>5 DEF AloneInv, LockInv, Active
<1>8. ASSUME NEW n \in Managers, Active(n)'
      PROVE  JobInv(n)'
  <2>1. n = m
    BY <1>2, <1>5, <1>8 DEF Active
  <2>2. pc'[n] = "recover" /\ job'[n].kind = "start" /\ job'[n].replay = FALSE
    BY <1>3, <1>5, <2>1
  <2>3. PlaceInv(n)' /\ CollectInv(n)' /\ CopyInv(n)'
    BY <2>2 DEF PlaceInv, CollectInv, CopyInv, Collecting
  <2>4. WrittenInv(n)' /\ UnbornInv(n)' /\ DurableInv(n)' /\ ReadyInv(n)'
    BY <2>2 DEF WrittenInv, UnbornInv, DurableInv, ReadyInv, Committing, Writes
  <2> QED
    BY <2>3, <2>4 DEF JobInv
<1> QED
  BY <1>6, <1>7, <1>8 DEF AloneInv

\* Recovery takes up the commit that was not published.
LEMMA ReplayAlone ==
    ASSUME AloneInv, TypeInv', NEW m \in Managers, Active(m), pc[m] = "recover",
           options.wal, store.manifest.tid < committed.tid, NEW t \in Tids, t = committed.tid,
           job' = [job EXCEPT ![m].replay = TRUE, ![m].t = t, ![m].env = store.wal[t],
                              ![m].vers = AllAt(store.wal[t], t), ![m].todo = store.wal[t]],
           pc' = [pc EXCEPT ![m] = "records"],
           UNCHANGED <<options, store, lock, held, memVars, sweep, committed, base>>
    PROVE  AloneInv'
<1>1. job[m] \in Jobs /\ committed.tid \in Int /\ committed.env \in Envelopes /\ store \in Stores /\ t > 0
      /\ JobInv(m)
  BY AloneTypes DEF AloneInv
<1>2. store.wal[t] = committed.env /\ store.manifest.tid = committed.tid - 1 /\ Root \in committed.env
      /\ committed.env \cap Lazies \subseteq store.payloads
  BY <1>1, StoreParts DEF AloneInv, FilesInv, LoadsAsLast
<1>3. job[m].kind = "start"
  BY <1>1, <1>2 DEF JobInv, PlaceInv, ReadyInv, Ready, Committing, Writes
<1>4. \A o \in committed.env : AllAt(committed.env, t)[o] = t
  BY <1>1, AllAtType
<1>5. /\ pc'[m] = "records" /\ job'[m].kind = "start" /\ job'[m].replay = TRUE /\ job'[m].t = t
      /\ job'[m].env = committed.env /\ job'[m].vers = AllAt(committed.env, t)
      /\ job'[m].todo = committed.env /\ OnlyMoves(m)
  BY <1>1, <1>2, <1>3, AloneTypes DEF Jobs, OnlyMoves
<1>6. PlaceInv(m)' /\ CollectInv(m)' /\ CopyInv(m)' /\ ReadyInv(m)' /\ UnbornInv(m)'
  BY <1>5 DEF PlaceInv, CollectInv, CopyInv, ReadyInv, UnbornInv, Collecting, Committing, Writes
<1>7. WrittenInv(m)'
  BY <1>2, <1>4, <1>5 DEF WrittenInv
<1>8. DurableInv(m)'
  BY <1>2, <1>5 DEF DurableInv
<1>9. FilesInv' /\ SweepInv' /\ Active(m)'
  BY <1>5, FilesStay, SweepStays DEF AloneInv, Active
<1> QED
  BY <1>5, <1>6, <1>7, <1>8, <1>9, ActiveStep DEF JobInv

\* Recovery, by a start or by a backup.
LEMMA RecoverAlone ==
    ASSUME AloneOnly, AloneInv, TypeInv', NEW m \in Managers, Recover(m)
    PROVE  AloneInv'
<1> DEFINE pending == IF options.wal THEN PendingWal(store) ELSE {}
<1>1. /\ pc[m] = "recover" /\ Active(m) /\ JobInv(m) /\ job[m] \in Jobs /\ options.strategy = "startup"
      /\ committed.tid \in Int /\ committed.tid \in 0..MaxTid /\ store \in Stores /\ LoadsAsLast(store)
      /\ store.manifest.tid \in 0..MaxTid /\ MaxTid \in Nat
      /\ UNCHANGED <<options, store, lock, held, memVars, sweep, committed, base>>
  BY AloneTypes, StoreParts DEF AloneOnly, AloneInv, Recover, Active, FilesInv
<1>2. pending = IF options.wal /\ store.manifest.tid < committed.tid THEN {committed.tid} ELSE {}
  BY <1>1, PendingIs
<1>3. job[m].kind \in {"start", "backup"} /\ ~job[m].replay
  BY <1>1 DEF JobInv, PlaceInv, Committing, Writes
<1>4. CASE pending = {}
  <2>1. options.wal => store.manifest.tid = committed.tid
    BY <1>1, <1>2, <1>4 DEF LoadsAsLast
  <2>2. CASE job[m].kind = "backup"
    <3>1. pc' = [pc EXCEPT ![m] = "copy"] /\ job' = [job EXCEPT ![m].files = Directories]
      BY <1>1, <1>4, <2>2 DEF Recover, Goto
    <3>2. /\ pc'[m] = "copy" /\ job'[m].kind = "backup" /\ job'[m].replay = job[m].replay
          /\ job'[m].files = Directories /\ OnlyMoves(m)
      BY <1>1, <2>2, <3>1, AloneTypes DEF Jobs, OnlyMoves
    <3>3. PlaceInv(m)' /\ CollectInv(m)' /\ CopyInv(m)'
      BY <1>3, <3>2 DEF PlaceInv, CollectInv, CopyInv, Collecting
    <3>4. Ready(m)
      BY <1>1, <2>2 DEF JobInv, ReadyInv, Committing, Writes
    <3>5. Ready(m)'
      BY <1>1, <3>4 DEF Ready, memVars
    <3>6. pc'[m] \notin Committing \cup {"down", "acquire"}
      BY <3>2 DEF Committing, Writes
    <3> QED
      BY <1>1, <3>2, <3>3, <3>5, <3>6, QuietStep
  <2>3. CASE job[m].kind # "backup"
    <3>1. pc' = [pc EXCEPT ![m] = "loadManifest"] /\ job' = job
      BY <1>1, <1>4, <2>3 DEF Recover, Goto
    <3>2. pc'[m] = "loadManifest" /\ job'[m].kind = "start" /\ job'[m].replay = job[m].replay /\ OnlyMoves(m)
      BY <1>3, <2>3, <3>1, AloneTypes DEF OnlyMoves
    <3>3. PlaceInv(m)' /\ CollectInv(m)' /\ CopyInv(m)'
      BY <1>1, <1>3, <2>1, <3>2 DEF PlaceInv, CollectInv, CopyInv, Collecting
    <3>4. pc'[m] \notin Committing \cup {"down", "acquire"}
      BY <3>2 DEF Committing, Writes
    <3> QED
      BY <1>1, <3>2, <3>3, <3>4, QuietStep
  <2> QED
    BY <2>2, <2>3
<1>5. CASE pending # {}
  <2>1. options.wal /\ store.manifest.tid < committed.tid /\ pending = {committed.tid}
    BY <1>2, <1>5
  <2>2. committed.tid \in Tids
    BY <1>1, <2>1 DEF Tids
  <2>3. \E t \in {committed.tid} :
          /\ job' = [job EXCEPT ![m].replay = TRUE, ![m].t = t, ![m].env = store.wal[t],
                                ![m].vers = AllAt(store.wal[t], t), ![m].todo = store.wal[t]]
          /\ pc' = [pc EXCEPT ![m] = "records"]
    BY <2>1 DEF Recover, Goto
  <2> QED
    BY <1>1, <2>1, <2>2, <2>3, ReplayAlone
<1> QED
  BY <1>4, <1>5

\* The manifest is read.
LEMMA LoadManifestAlone ==
    ASSUME AloneInv, TypeInv', NEW m \in Managers, LoadManifest(m)
    PROVE  AloneInv'
<1>1. /\ pc[m] = "loadManifest" /\ Active(m) /\ JobInv(m) /\ job[m] \in Jobs
      /\ UNCHANGED <<options, store, lock, held, memVars, sweep, committed, base>>
  BY AloneTypes DEF AloneInv, LoadManifest, Active
<1>2. job[m].kind = "start" /\ ~job[m].replay /\ (options.wal => store.manifest.tid = committed.tid)
  BY <1>1 DEF JobInv, PlaceInv, Committing, Writes
<1>3. /\ pc'[m] = "load" /\ job'[m].kind = "start" /\ job'[m].replay = job[m].replay
      /\ job'[m].man = store.manifest /\ OnlyMoves(m)
  BY <1>1, <1>2, AloneTypes DEF LoadManifest, Goto, Jobs, OnlyMoves
<1>4. PlaceInv(m)' /\ CollectInv(m)' /\ CopyInv(m)'
  BY <1>1, <1>2, <1>3 DEF PlaceInv, CollectInv, CopyInv, Collecting
<1>5. pc'[m] \notin Committing \cup {"down", "acquire"}
  BY <1>3 DEF Committing, Writes
<1> QED
  BY <1>1, <1>3, <1>4, <1>5, QuietStep

\* A start that has found the last commit in the manifest, or nothing at all, is
\* ready for the next commit.
LEMMA AdoptAlone ==
    ASSUME AloneInv, TypeInv', NEW m \in Managers, Active(m),
           NEW env, NEW t, NEW v, AdoptAndFinish(m, env, t, v),
           t = committed.tid, store.manifest.tid = committed.tid, v = store.manifest.vers,
           Root \in env, env \cap Lazies \subseteq DOMAIN v
    PROVE  AloneInv'
<1>1. /\ pc' = [pc EXCEPT ![m] = "idle"] /\ job' = [job EXCEPT ![m] = NoJob]
      /\ graph' = [graph EXCEPT ![m] = env] /\ tid' = [tid EXCEPT ![m] = t]
      /\ vers' = [vers EXCEPT ![m] = v] /\ base' = [base EXCEPT ![m] = t]
      /\ UNCHANGED <<options, store, lock, held, loaded, sweep, committed>>
  BY DEF AdoptAndFinish, Adopt, Goto
<1>2. graph'[m] = env /\ tid'[m] = t /\ vers'[m] = v /\ base'[m] = t
  BY <1>1, AloneTypes
<1>3. Ready(m)'
  BY <1>1, <1>2 DEF Ready
<1> QED
  BY <1>1, <1>3, IdleStep

\* A start that has found the last commit in the snapshot that CURRENT names writes
\* its records and its manifest again.
LEMMA RepairAlone ==
    ASSUME AloneInv, TypeInv', NEW m \in Managers, Active(m), pc[m] = "load", ~options.wal,
           NEW t \in Tids, t = committed.tid, AdoptAndRepair(m, committed.env, t)
    PROVE  AloneInv'
<1> DEFINE env == committed.env
<1>1. /\ job[m] \in Jobs /\ env \in Envelopes /\ JobInv(m) /\ committed.tid \in Int /\ t > 0
  BY AloneTypes DEF AloneInv
<1>2. Root \in env /\ env \cap Lazies \subseteq store.payloads
  BY <1>1 DEF AloneInv, FilesInv
<1>3. ~job[m].replay
  BY <1>1 DEF JobInv, PlaceInv, Committing, Writes
<1>4. \A o \in env : AllAt(env, t)[o] = t
  BY <1>1, AllAtType
<1>5. /\ pc' = [pc EXCEPT ![m] = "records"]
      /\ job' = [job EXCEPT ![m].kind = "repair", ![m].t = t, ![m].env = env,
                            ![m].vers = AllAt(env, t), ![m].todo = env]
      /\ graph' = [graph EXCEPT ![m] = env] /\ base' = [base EXCEPT ![m] = t]
      /\ UNCHANGED <<options, store, lock, held, loaded, sweep, committed>>
  BY DEF AdoptAndRepair, Adopt, Goto
<1> DEFINE v == AllAt(env, t)
<1> HIDE DEF v
<1>6. /\ pc'[m] = "records" /\ job'[m].kind = "repair" /\ job'[m].replay = job[m].replay /\ job'[m].t = t
      /\ job'[m].env = env /\ job'[m].vers = v /\ job'[m].todo = env /\ graph'[m] = env
      /\ base'[m] = t /\ OnlyMoves(m)
  BY <1>1, <1>5, AloneTypes DEF Jobs, OnlyMoves, v
<1>7. PlaceInv(m)' /\ CollectInv(m)' /\ CopyInv(m)' /\ ReadyInv(m)' /\ UnbornInv(m)'
  BY <1>6 DEF PlaceInv, CollectInv, CopyInv, ReadyInv, UnbornInv, Collecting, Committing, Writes
<1>8. WrittenInv(m)'
  BY <1>2, <1>3, <1>4, <1>5, <1>6 DEF WrittenInv, v
<1>9. DurableInv(m)'
  BY <1>5, <1>6 DEF DurableInv
<1>10. FilesInv' /\ SweepInv' /\ Active(m)'
  BY <1>5, <1>6, FilesStay, SweepStays DEF AloneInv, Active
<1> QED
  BY <1>5, <1>6, <1>7, <1>8, <1>9, <1>10, ActiveStep DEF JobInv

\* The load of a start.
LEMMA LoadAlone ==
    ASSUME AloneInv, TypeInv', NEW m \in Managers, Load(m)
    PROVE  AloneInv'
<1> DEFINE S == {0} \cup {t \in Tids : store.wal[t] # {}}
           k == committed.tid
<1>1. /\ pc[m] = "load" /\ Active(m) /\ JobInv(m) /\ store \in Stores /\ FilesInv /\ LoadsAsLast(store)
      /\ k \in Int /\ k \in 0..MaxTid /\ MaxTid \in Nat /\ committed.env \in SUBSET Objects
      /\ store.manifest.tid \in 0..MaxTid /\ store.manifest.tid \in {k - 1, k}
      /\ store.manifest.vers \in Versions /\ store.current \in 0..MaxTid /\ store.latest \in 0..MaxTid
      /\ \A t \in Tids : t \in Int /\ t > 0
      /\ \A t \in Tids : store.wal[t] # {} <=> options.wal /\ t <= k
  BY AloneTypes, StoreParts DEF AloneInv, Load, Active, FilesInv, LoadsAsLast
<1>2. job[m].man = store.manifest /\ (options.wal => store.manifest.tid = k)
  BY <1>1 DEF JobInv, PlaceInv
<1>3. Max(S) = IF options.wal THEN k ELSE 0
  <2> DEFINE l == IF options.wal THEN k ELSE 0
  <2>1. S \in SUBSET Int /\ l \in S /\ \A y \in S : y <= l
    BY <1>1 DEF Tids
  <2> HIDE DEF S, l
  <2>2. Max(S) = l
    BY <2>1, MaxIs
  <2> QED
    BY <2>2 DEF l
<1>4. ~(Max(S) > store.manifest.tid)
  BY <1>1, <1>2, <1>3
<1>5. CASE store.manifest.tid > 0 /\ store.latest <= store.manifest.tid /\ Readable(store, store.manifest)
  <2>1. AdoptAndFinish(m, DOMAIN store.manifest.vers, store.manifest.tid, store.manifest.vers)
    BY <1>2, <1>4, <1>5 DEF Load
  <2>2. store.manifest.tid = k /\ k > 0
    BY <1>1, <1>2, <1>5 DEF LoadsAsLast
  <2>3. DOMAIN store.manifest.vers = committed.env /\ Root \in committed.env
    BY <1>1, <2>2 DEF FilesInv, LoadsAsLast
  <2> QED
    BY <1>1, <2>1, <2>2, <2>3, AdoptAlone
<1>6. CASE ~(store.manifest.tid > 0 /\ store.latest <= store.manifest.tid /\ Readable(store, store.manifest))
  <2>1. CASE k = 0
    <3>1. store.manifest.tid = k /\ store.current = 0 /\ committed.env = {}
      BY <1>1, <2>1 DEF FilesInv, LoadsAsLast, Nothing
    <3>2. DOMAIN store.manifest.vers = {}
      BY <1>1, <3>1 DEF LoadsAsLast
    <3>3. store.manifest.vers = NoVersions
      <4>1. PICK D \in SUBSET Objects : store.manifest.vers \in [D -> Tids]
        BY <1>1 DEF Versions
      <4>2. D = {}
        BY <3>2, <4>1
      <4> QED
        BY <4>1, <4>2 DEF NoVersions
    <3>4. AdoptAndFinish(m, {Root}, 0, NoVersions)
      BY <1>2, <1>4, <1>6, <3>1 DEF Load
    <3>5. {Root} \cap Lazies = {}
      BY MaintenanceAssumptions
    <3> QED
      BY <1>1, <2>1, <3>1, <3>3, <3>4, <3>5, AdoptAlone
  <2>2. CASE k > 0
    <3>1. ~options.wal
      BY <1>1, <1>2, <1>6, <2>2 DEF LoadsAsLast
    <3>2. store.current = k /\ k \in Tids /\ store.snapshots[k] = committed.env /\ Root \in committed.env
      BY <1>1, <2>2, <3>1 DEF FilesInv, LoadsAsLast, Tids
    <3>3. AdoptAndRepair(m, committed.env, k)
      BY <1>2, <1>4, <1>6, <2>2, <3>2 DEF Load
    <3> QED
      BY <1>1, <3>1, <3>2, <3>3, RepairAlone
  <2> QED
    BY <1>1, <2>1, <2>2
<1> QED
  BY <1>5, <1>6

-----------------------------------------------------------------------------
(* Steps beside the operations *)

\* Steps that change neither the control points nor what is durable.
LEMMA BesideStep ==
    ASSUME AloneInv, TypeInv', FilesInv', SweepInv',
           UNCHANGED <<options, pc, job, held, lock>>,
           ASSUME NEW n \in Managers, Active(n), JobInv(n) PROVE JobInv(n)'
    PROVE  AloneInv'
<1>1. LockInv'
  BY DEF AloneInv, LockInv, Active
<1>2. ASSUME NEW n \in Managers, Active(n)'
      PROVE  JobInv(n)'
  BY <1>2 DEF AloneInv, Active
<1> QED
  BY <1>1, <1>2 DEF AloneInv

\* The application edits its graph between operations.
LEMMA EditAlone ==
    ASSUME AloneInv, TypeInv', NEW m \in Managers, Edit(m)
    PROVE  AloneInv'
<1>1. /\ pc[m] = "idle" /\ Active(m) /\ JobInv(m)
      /\ UNCHANGED <<options, store, lock, pc, held, loaded, tid, vers, job, sweep, committed, base>>
  BY DEF AloneInv, Edit, Active
<1>2. job[m].kind = "none" /\ Ready(m)
  BY <1>1 DEF JobInv, PlaceInv, ReadyInv, Committing, Writes
<1>3. PICK o \in Objects \ {Root} :
        \/ graph' = [graph EXCEPT ![m] = @ \ {o}]
        \/ (o \in Lazies => o \in loaded[m]) /\ graph' = [graph EXCEPT ![m] = @ \cup {o}]
  BY DEF Edit
<1>4. Root \in graph'[m] /\ (graph'[m] \cap Lazies) \ loaded[m] \subseteq DOMAIN vers[m]
  BY <1>2, <1>3, AloneTypes DEF Ready
<1>5. Ready(m)'
  BY <1>1, <1>2, <1>4 DEF Ready
<1>6. OnlyMoves(m) /\ pc'[m] = "idle" /\ job'[m] = job[m]
  BY <1>1 DEF OnlyMoves
<1>7. PlaceInv(m)' /\ CollectInv(m)' /\ CopyInv(m)'
  BY <1>1, <1>6 DEF JobInv, PlaceInv, CollectInv, CopyInv, Collecting, Committing, Writes
<1>8. pc'[m] \notin Committing \cup {"down", "acquire"}
  BY <1>6 DEF Committing, Writes
<1> QED
  BY <1>1, <1>5, <1>6, <1>7, <1>8, QuietStep

\* Values of LazyRefs come and go, and their payloads are written at once.
LEMMA LazyAlone ==
    ASSUME AloneInv, TypeInv', NEW m \in Managers,
           CreateLazyRef(m) \/ LoadLazyRef(m) \/ ClearLazyRef(m)
    PROVE  AloneInv'
<1>1. UNCHANGED <<options, lock, pc, held, graph, tid, vers, job, sweep, committed, base>>
  BY DEF CreateLazyRef, LoadLazyRef, ClearLazyRef
<1>2. /\ store'.records = store.records /\ store'.wal = store.wal /\ store'.latest = store.latest
      /\ store'.snapshots = store.snapshots /\ store'.current = store.current
      /\ store'.manifest = store.manifest /\ store.payloads \subseteq store'.payloads
  BY AloneTypes DEF CreateLazyRef, LoadLazyRef, ClearLazyRef, Stores
<1>3. \A n \in Managers : loaded[n] \ loaded'[n] \subseteq DOMAIN vers[n]
  BY AloneTypes DEF CreateLazyRef, LoadLazyRef, ClearLazyRef
<1>4. FilesInv' /\ SweepInv'
  BY <1>1, <1>2, SweepStays DEF AloneInv, FilesInv, LoadsAsLast, Readable
<1>5. ASSUME NEW n \in Managers, Active(n), JobInv(n)
      PROVE  JobInv(n)'
  <2>1. PlaceInv(n)' /\ CollectInv(n)' /\ CopyInv(n)'
    BY <1>1, <1>2, <1>5 DEF JobInv, PlaceInv, CollectInv, CopyInv, LiveRecords, LiveLazies
  <2>2. WrittenInv(n)' /\ UnbornInv(n)' /\ DurableInv(n)'
    BY <1>1, <1>2, <1>5 DEF JobInv, WrittenInv, UnbornInv, DurableInv, Unborn
  <2>3. ReadyInv(n)'
    BY <1>1, <1>2, <1>3, <1>5 DEF JobInv, ReadyInv, Ready, Unborn
  <2> QED
    BY <2>1, <2>2, <2>3 DEF JobInv
<1> QED
  BY <1>1, <1>4, <1>5, BesideStep

-----------------------------------------------------------------------------
(* Compaction *)

\* compact(2) and larger arguments keep what is not older than k, if there is at
\* most one snapshot newer than k.
LEMMA KeptAreNewest ==
    ASSUME NEW S \in SUBSET Tids, NEW c, NEW k \in Int, \A u \in S : u <= k + 1,
           KeepLatest >= 2, NEW t \in S \ KeptSnapshots(S, c)
    PROVE  t < k
<1>1. KeepLatest \in Nat /\ \A u \in Tids : u \in Int
  BY MaintenanceAssumptions DEF Tids
<1>2. SUFFICES ASSUME t >= k PROVE FALSE
  BY <1>1
<1> DEFINE N == {u \in S : u > t}
<1>3. N \subseteq {k + 1}
  BY <1>1, <1>2
<1>4. IsFiniteSet({k + 1}) /\ Cardinality({k + 1}) = 1
  BY FS_Singleton
<1>5. Cardinality(N) <= 1 /\ Cardinality(N) \in Nat
  <2> HIDE DEF N
  <2>1. IsFiniteSet(N) /\ Cardinality(N) <= Cardinality({k + 1})
    BY <1>3, <1>4, FS_Subset
  <2> QED
    BY <1>4, <2>1, FS_CardinalityType
<1>6. Cardinality(N) < KeepLatest
  BY <1>1, <1>5
<1> QED
  BY <1>6 DEF KeptSnapshots

\* The files that compaction touches are neither the WAL, nor the manifest, nor,
\* without a WAL, the snapshot of the last commit or of one under way.
LEMMA CompactAlone ==
    ASSUME AloneOnly, AloneInv, TypeInv', NEW m \in Managers,
           BeginCompact(m) \/ ListSnapshots(m) \/ RemoveSnapshot(m) \/ EndCompact(m)
    PROVE  AloneInv'
<1> DEFINE k == committed.tid
<1>1. /\ UNCHANGED <<options, lock, pc, held, memVars, job, committed, base>>
      /\ sweep[m] \in Sweeps /\ store \in Stores /\ k \in Int /\ store.snapshots \in [Tids -> Envelopes]
      /\ SweepInv /\ FilesInv /\ \A t \in Tids : t \in Int
  BY AloneTypes, StoreParts DEF AloneInv, BeginCompact, ListSnapshots, RemoveSnapshot, EndCompact
<1>2. SweepInv'
  <2>1. \A n \in Managers \ {m} : sweep'[n] = sweep[n]
    BY AloneTypes DEF BeginCompact, ListSnapshots, RemoveSnapshot, EndCompact
  <2>2. CASE BeginCompact(m)
    <3>1. sweep'[m].step = "list" /\ sweep'[m].files = {} /\ "compact" \in Ops[options]
      BY <2>2, AloneTypes DEF BeginCompact
    <3> QED
      BY <1>1, <2>1, <3>1 DEF SweepInv
  <2>3. CASE ListSnapshots(m)
    <3> DEFINE S == {t \in Tids : store.snapshots[t] # {}}
    <3>1. /\ sweep[m].step = "list" /\ sweep'[m].step = "remove"
          /\ sweep'[m].files = S \ KeptSnapshots(S, sweep[m].current)
      BY <1>1, <2>3, AloneTypes DEF ListSnapshots, Sweeps
    <3>2. "compact" \in Ops[options]
      BY <1>1, <3>1 DEF SweepInv
    <3>3. ASSUME ~options.wal
          PROVE  \A t \in sweep'[m].files : t < k
      <4>1. KeepLatest >= 2
        BY <3>2, <3>3, AloneTypes DEF AloneOnly
      <4>2. \A u \in S : u <= k + 1
        BY <1>1, <3>3 DEF FilesInv
      <4> HIDE DEF S
      <4>3. S \in SUBSET Tids
        BY DEF S
      <4> QED
        BY <1>1, <3>1, <4>1, <4>2, <4>3, KeptAreNewest
    <3> QED
      BY <1>1, <2>1, <3>1, <3>2, <3>3 DEF SweepInv
  <2>4. CASE RemoveSnapshot(m)
    <3>1. sweep'[m].step = sweep[m].step /\ sweep'[m].files \subseteq sweep[m].files
      BY <1>1, <2>4, AloneTypes DEF RemoveSnapshot, Sweeps
    <3> QED
      BY <1>1, <2>1, <3>1 DEF SweepInv
  <2>5. CASE EndCompact(m)
    <3>1. sweep'[m].step = "none" /\ sweep'[m].files = {}
      BY <2>5, AloneTypes DEF EndCompact, NoSweep
    <3> QED
      BY <1>1, <2>1, <3>1 DEF SweepInv
  <2> QED
    BY <2>2, <2>3, <2>4, <2>5
<1>3. /\ store'.records = store.records /\ store'.wal = store.wal /\ store'.latest = store.latest
      /\ store'.payloads = store.payloads /\ store'.current = store.current
      /\ store'.manifest = store.manifest
      /\ \A t \in Tids : store'.snapshots[t] \in {store.snapshots[t], {}}
      /\ ~options.wal => \A t \in Tids : t >= k => store'.snapshots[t] = store.snapshots[t]
  <2>1. CASE RemoveSnapshot(m)
    <3>1. PICK t \in sweep[m].files : store' = [store EXCEPT !.snapshots[t] = {}]
      BY <2>1 DEF RemoveSnapshot
    <3>2. t \in Tids /\ (~options.wal => t < k)
      BY <1>1 DEF Sweeps, SweepInv
    <3> QED
      BY <1>1, <3>1, <3>2 DEF Stores
  <2>2. CASE ~RemoveSnapshot(m)
    BY <2>2 DEF BeginCompact, ListSnapshots, EndCompact
  <2> QED
    BY <2>1, <2>2
<1>4. FilesInv'
  <2>1. LoadsAsLast(store)'
    BY <1>1, <1>3 DEF FilesInv, LoadsAsLast, Readable
  <2>2. ~options.wal => \A t \in Tids : t > k + 1 => store'.snapshots[t] = {}
    BY <1>1, <1>3 DEF FilesInv
  <2> QED
    BY <1>1, <1>3, <2>1, <2>2 DEF FilesInv
<1>5. ASSUME NEW n \in Managers, Active(n), JobInv(n)
      PROVE  JobInv(n)'
  <2>1. PlaceInv(n)' /\ CollectInv(n)' /\ CopyInv(n)'
    BY <1>1, <1>3, <1>5 DEF JobInv, PlaceInv, CollectInv, CopyInv, LiveRecords, LiveLazies, memVars
  <2>2. WrittenInv(n)' /\ DurableInv(n)' /\ ReadyInv(n)'
    BY <1>1, <1>3, <1>5 DEF JobInv, WrittenInv, DurableInv, ReadyInv, Ready, Unborn, memVars
  <2>3. UnbornInv(n)'
    <3>1. pc[n] \in Committing => job[n].t \in Tids
      BY JobOf DEF AloneInv, Shape
    <3> QED
      BY <1>1, <1>3, <1>5, <3>1 DEF JobInv, UnbornInv, Unborn, memVars
  <2> QED
    BY <2>1, <2>2, <2>3 DEF JobInv
<1> QED
  BY <1>1, <1>2, <1>4, <1>5, BesideStep

-----------------------------------------------------------------------------
(* Commits *)

\* An operation of the application begins.
LEMMA BeginAlone ==
    ASSUME AloneOnly, AloneInv, TypeInv', NEW m \in Managers,
           BeginStore(m) \/ BeginCollect(m) \/ BeginBackup(m)
    PROVE  AloneInv'
<1>1. /\ pc[m] = "idle" /\ Active(m) /\ JobInv(m) /\ held[m] /\ options.strategy = "startup"
      /\ UNCHANGED <<options, store, lock, held, memVars, sweep, committed, base>> /\ job[m] \in Jobs
  BY AloneTypes DEF AloneOnly, AloneInv, LockInv, BeginStore, BeginCollect, BeginBackup, Active
<1>2. Ready(m) /\ ~job[m].replay
  BY <1>1 DEF JobInv, PlaceInv, ReadyInv, Committing, Writes
<1>3. Ready(m)'
  BY <1>1, <1>2 DEF Ready, memVars
<1>4. OnlyMoves(m) /\ job'[m].replay = job[m].replay
      /\ \/ pc'[m] = "payloads" /\ job'[m].kind = "store"
         \/ pc'[m] = "gcManifest" /\ job'[m].kind = "collect"
         \/ pc'[m] = "recover" /\ job'[m].kind = "backup"
  <2>1. CASE BeginStore(m)
    <3>1. PICK requested \in SUBSET graph[m] :
            job' = [job EXCEPT ![m].kind = "store", ![m].todo = IF requested = {} THEN {Root} ELSE requested]
      BY <2>1 DEF BeginStore
    <3>2. pc' = [pc EXCEPT ![m] = "payloads"]
      BY <1>1, <2>1 DEF BeginStore, WithWriteLock, Locked, Goto
    <3>3. job'[m].kind = "store" /\ job'[m].replay = job[m].replay
      BY <1>1, <3>1, AloneTypes DEF Jobs
    <3> QED
      BY <1>1, <3>1, <3>2, <3>3, AloneTypes DEF OnlyMoves
  <2>2. CASE BeginCollect(m)
    BY <1>1, <2>2, AloneTypes DEF BeginCollect, Goto, OnlyMoves, Jobs
  <2>3. CASE BeginBackup(m)
    BY <1>1, <2>3, AloneTypes DEF BeginBackup, WithWriteLock, Locked, Goto, OnlyMoves, Jobs
  <2> QED
    BY <2>1, <2>2, <2>3
<1>5. PlaceInv(m)' /\ CollectInv(m)' /\ CopyInv(m)'
  BY <1>2, <1>4 DEF PlaceInv, CollectInv, CopyInv, Collecting
<1>6. pc'[m] \notin Committing \cup {"down", "acquire"}
  BY <1>4 DEF Committing, Writes
<1> QED
  BY <1>1, <1>3, <1>4, <1>5, <1>6, QuietStep

\* Nobody releases the lock, or checks for conflicts, between start and shutdown.
LEMMA NeverThere ==
    ASSUME AloneInv, NEW m \in Managers
    PROVE  ~Release(m) /\ ~CheckConflict(m)
<1>1. Active(m) => pc[m] \notin {"release", "check"}
  BY DEF AloneInv, JobInv, PlaceInv
<1> QED
  BY <1>1 DEF Release, CheckConflict, Active

\* A commit takes the next id, and writes the payloads of its LazyRefs.
LEMMA StoreLazyRefsAlone ==
    ASSUME AloneInv, TypeInv', NEW m \in Managers, StoreLazyRefs(m)
    PROVE  AloneInv'
<1> DEFINE env == graph[m]
           t == tid[m] + 1
           written == job[m].todo \cup (env \ DOMAIN vers[m])
           v == [o \in env |-> IF o \in written THEN t ELSE vers[m][o]]
<1>1. /\ pc[m] = "payloads" /\ Active(m) /\ JobInv(m) /\ job[m] \in Jobs /\ store \in Stores /\ FilesInv
      /\ loaded[m] \in SUBSET Lazies
      /\ UNCHANGED <<options, lock, held, memVars, sweep, committed, base>>
  BY AloneTypes DEF AloneInv, StoreLazyRefs, Active
<1>2. job[m].kind = "store" /\ Ready(m) /\ ~job[m].replay
  BY <1>1 DEF JobInv, PlaceInv, ReadyInv, Committing, Writes
<1>3. Readable(store, store.manifest) /\ DOMAIN vers[m] = committed.env
  BY <1>1, <1>2 DEF FilesInv, LoadsAsLast, Ready
<1>4. /\ store'.records = store.records /\ store'.wal = store.wal /\ store'.latest = store.latest
      /\ store'.snapshots = store.snapshots /\ store'.current = store.current
      /\ store'.manifest = store.manifest
      /\ store'.payloads = store.payloads \cup (loaded[m] \cap env)
  BY <1>1 DEF StoreLazyRefs, StoredPayloads, Stores
<1>5. /\ job' = [job EXCEPT ![m].t = t, ![m].env = env, ![m].todo = written, ![m].vers = v]
      /\ pc' = [pc EXCEPT ![m] = "records"]
  BY DEF StoreLazyRefs, Goto
<1>6. \A o \in env : IF o \in written THEN v[o] = t ELSE <<o, v[o]>> \in store.records
  BY <1>2, <1>3 DEF Ready, Readable
<1>7. env \cap Lazies \subseteq store'.payloads
  BY <1>1, <1>2, <1>3, <1>4 DEF Ready, FilesInv
<1>8. t = committed.tid + 1 /\ Root \in env
  BY <1>2 DEF Ready
<1> HIDE DEF env, t, written, v
<1>9. /\ pc'[m] = "records" /\ job'[m].kind = "store" /\ job'[m].replay = job[m].replay /\ job'[m].t = t
      /\ job'[m].env = env /\ job'[m].todo = written /\ job'[m].vers = v /\ OnlyMoves(m)
  BY <1>1, <1>2, <1>5, AloneTypes DEF Jobs, OnlyMoves
<1>10. FilesInv' /\ SweepInv' /\ Active(m)'
  BY <1>1, <1>4, <1>9, SweepStays DEF AloneInv, FilesInv, LoadsAsLast, Readable, Active
<1>11. PlaceInv(m)' /\ CollectInv(m)' /\ CopyInv(m)'
  BY <1>9 DEF PlaceInv, CollectInv, CopyInv, Collecting, Committing, Writes
<1>12. WrittenInv(m)'
  BY <1>2, <1>4, <1>6, <1>7, <1>8, <1>9 DEF WrittenInv
<1>13. Unborn(m)' /\ UnbornInv(m)' /\ DurableInv(m)'
  BY <1>1, <1>8, <1>9 DEF Unborn, UnbornInv, DurableInv, memVars, env
<1>14. ReadyInv(m)'
  BY <1>1, <1>2, <1>4 DEF ReadyInv, Ready, memVars
<1> QED
  BY <1>1, <1>9, <1>10, <1>11, <1>12, <1>13, <1>14, ActiveStep DEF JobInv

\* The records of a commit, of a recovery or of a repair.
LEMMA WriteObjectRecordsAlone ==
    ASSUME AloneOnly, AloneInv, TypeInv', NEW m \in Managers, WriteObjectRecords(m)
    PROVE  AloneInv'
<1>1. /\ pc[m] = "records" /\ pc[m] \in Committing /\ Active(m) /\ JobInv(m) /\ job[m] \in Jobs
      /\ store \in Stores /\ FilesInv /\ (options.wal \/ options.snapshots)
      /\ UNCHANGED <<options, lock, held, memVars, sweep, committed, base>>
  BY AloneTypes DEF AloneInv, WriteObjectRecords, Active, Committing, Writes, AloneOnly
<1>2. PICK o \in job[m].todo :
        /\ store' = [store EXCEPT !.records = @ \cup {<<o, job[m].t>>}]
        /\ job' = [job EXCEPT ![m].todo = @ \ {o}]
        /\ pc' = [pc EXCEPT ![m] = IF job[m].todo = {o} THEN AfterRecords(m) ELSE "records"]
  BY DEF WriteObjectRecords, Goto
<1>3. /\ store'.records = store.records \cup {<<o, job[m].t>>}
      /\ store'.wal = store.wal /\ store'.latest = store.latest /\ store'.payloads = store.payloads
      /\ store'.snapshots = store.snapshots /\ store'.current = store.current
      /\ store'.manifest = store.manifest
  BY <1>1, <1>2 DEF Stores
<1>4. /\ job'[m].kind = job[m].kind /\ job'[m].replay = job[m].replay /\ job'[m].t = job[m].t
      /\ job'[m].env = job[m].env /\ job'[m].vers = job[m].vers /\ job'[m].todo = job[m].todo \ {o}
      /\ OnlyMoves(m)
  BY <1>1, <1>2, AloneTypes DEF Jobs, OnlyMoves
<1>5. pc'[m] = IF job[m].todo = {o} THEN AfterRecords(m) ELSE "records"
  BY <1>2, AloneTypes
<1>6. /\ job[m].kind \in {"start", "store", "repair"} /\ (job[m].replay <=> job[m].kind = "start")
      /\ job[m].kind = "start" => options.wal
      /\ job[m].kind = "repair" => ~options.wal
  BY <1>1 DEF JobInv, WrittenInv, DurableInv
<1>7. /\ pc'[m] \in {"records", "snapshot", "marker", "txn", "manifest"}
      /\ pc'[m] # "records" => job'[m].todo = {}
      /\ pc'[m] = "snapshot" => options.snapshots /\ job[m].kind # "repair"
      /\ pc'[m] = "marker" => options.wal /\ job[m].kind = "store"
      /\ pc'[m] = "txn" => job[m].kind = "start"
      /\ pc'[m] = "manifest" => job[m].kind = "repair"
  BY <1>1, <1>4, <1>5, <1>6 DEF AfterRecords, AfterSnapshot
<1>8. pc'[m] \in Committing /\ Active(m)'
  BY <1>7 DEF Committing, Writes, Active
<1>9. FilesInv'
  BY <1>1, <1>3 DEF FilesInv, LoadsAsLast, Readable
<1>10. SweepInv'
  BY <1>1, SweepStays DEF AloneInv
<1>11. PlaceInv(m)' /\ CollectInv(m)' /\ CopyInv(m)'
  BY <1>7 DEF PlaceInv, CollectInv, CopyInv, Collecting, Committing, Writes
<1>12. WrittenInv(m)'
  <2>1. WrittenInv(m)
    BY <1>1 DEF JobInv
  <2>2. \A p \in job[m].env : IF p \in job[m].todo \ {o} THEN job[m].vers[p] = job[m].t
                              ELSE <<p, job[m].vers[p]>> \in store'.records
    BY <1>1, <1>3, <2>1 DEF WrittenInv
  <2> QED
    BY <1>1, <1>3, <1>4, <1>7, <2>1, <2>2 DEF WrittenInv
<1>13. Unborn(m) /\ (job[m].kind = "store" => Unborn(m)')
  BY <1>1, <1>6, <1>7 DEF Unborn
<1>14. ReadyInv(m)'
  BY <1>1, <1>3, <1>4, <1>6, <1>13 DEF JobInv, ReadyInv, Ready, memVars
<1>15. UnbornInv(m)'
  BY <1>1, <1>3, <1>4, <1>6, <1>7, <1>13 DEF JobInv, UnbornInv, memVars
<1>16. DurableInv(m)'
  <2>1. CASE job[m].kind = "store"
    BY <1>4, <1>13, <2>1 DEF DurableInv
  <2>2. CASE job[m].kind # "store"
    <3>1. DurableInv(m)
      BY <1>1 DEF JobInv
    <3>2. pc'[m] = "manifest" => store.latest >= committed.tid
      <4>1. ~options.wal => store.latest \in {committed.tid, committed.tid + 1}
        BY <1>1 DEF FilesInv, LoadsAsLast
      <4> QED
        BY <1>6, <1>7, <4>1, AloneTypes
    <3> QED
      BY <1>1, <1>3, <1>4, <1>6, <1>7, <2>2, <3>1, <3>2 DEF DurableInv, memVars
  <2> QED
    BY <2>1, <2>2
<1> QED
  BY <1>1, <1>4, <1>8, <1>9, <1>10, <1>11, <1>12, <1>14, <1>15, <1>16, ActiveStep DEF JobInv

\* What the invariant says of a commit at a write.
LEMMA WriteFacts ==
    ASSUME AloneOnly, AloneInv, NEW m \in Managers, NEW step \in Committing, pc[m] = step
    PROVE  /\ Active(m) /\ JobInv(m) /\ job[m] \in Jobs /\ job[m].t \in Tids /\ job[m].t \in Int
           /\ job[m].env \in Envelopes /\ DOMAIN job[m].vers = job[m].env
           /\ store \in Stores /\ FilesInv /\ LoadsAsLast(store) /\ SweepInv
           /\ (options.wal \/ options.snapshots)
           /\ committed.tid \in Int /\ committed.tid >= 0
           /\ store.latest \in Int /\ store.current \in Int
           /\ job[m].kind \in {"start", "store", "repair"}
           /\ job[m].kind = "start" => options.wal
           /\ job[m].kind = "repair" => ~options.wal /\ step \in {"records", "manifest", "commitState"}
           /\ Root \in job[m].env
<1>1. Active(m)
  BY DEF Active, Committing, Writes
<1>2. JobInv(m)
  BY <1>1 DEF AloneInv
<1>3. job[m] \in Jobs /\ Shape(step, job[m], tid[m])
  BY JobOf DEF AloneInv
<1>4. /\ job[m].t \in Tids /\ job[m].t \in Int /\ job[m].env \in Envelopes /\ DOMAIN job[m].vers = job[m].env
  BY <1>3, AloneTypes, JobParts DEF Shape
<1>5. store \in Stores /\ store.latest \in Int /\ store.current \in Int
      /\ committed.tid \in Int /\ committed.tid >= 0 /\ (options.wal \/ options.snapshots)
  BY AloneTypes, StoreParts DEF AloneOnly
<1> QED
  BY <1>1, <1>2, <1>3, <1>4, <1>5 DEF AloneInv, FilesInv, JobInv, WrittenInv, DurableInv

\* What a write changes of the manager's memory: nothing but where it is.
LEMMA WriteStep ==
    ASSUME AloneInv, NEW m \in Managers, NEW step, NEW files, NEW next, Write(m, step, files, next)
    PROVE  /\ pc[m] = step /\ store' = files /\ pc'[m] = next /\ OnlyMoves(m)
           /\ job' = job /\ UNCHANGED <<options, lock, held, memVars, sweep>>
           /\ IF step = DurableStep /\ job[m].kind = "store"
              THEN committed' = [tid |-> job[m].t, env |-> job[m].env] /\ base'[m] = job[m].t
              ELSE committed' = committed /\ base' = base
BY AloneTypes DEF Write, Goto, OnlyMoves

\* A write that makes nothing durable goes on to the next.
LEMMA WriteOn ==
    ASSUME AloneInv, TypeInv', NEW m \in Managers, Active(m), JobInv(m), OnlyMoves(m), FilesInv',
           job' = job, UNCHANGED <<options, lock, held, memVars, sweep, committed, base>>,
           pc[m] \in Committing, pc'[m] \in Committing \ {"records"}, job[m].todo = {},
           store'.records = store.records, store'.payloads = store.payloads,
           pc'[m] = "marker" => options.wal,
           pc'[m] \in {"snapshot", "current"} => options.snapshots,
           job[m].kind = "store" => (Unborn(m) <=> Unborn(m)'),
           Unborn(m)' => store'.manifest = store.manifest,
           UnbornInv(m)', DurableInv(m)'
    PROVE  AloneInv'
<1>1. SweepInv' /\ Active(m)'
  BY SweepStays DEF AloneInv, Active, Committing, Writes
<1>2. PlaceInv(m)' /\ CollectInv(m)' /\ CopyInv(m)'
  BY DEF PlaceInv, CollectInv, CopyInv, Collecting, Committing, Writes
<1>3. WrittenInv(m)'
  BY DEF JobInv, WrittenInv
<1>4. ReadyInv(m)'
  <2>1. job[m].kind \in {"start", "store", "repair"}
    BY DEF JobInv, WrittenInv
  <2> QED
    BY <2>1 DEF JobInv, ReadyInv, Ready, memVars
<1> QED
  BY <1>1, <1>2, <1>3, <1>4, ActiveStep DEF JobInv

\* The snapshot.
LEMMA WriteSnapshotAlone ==
    ASSUME AloneOnly, AloneInv, TypeInv', NEW m \in Managers, WriteSnapshot(m)
    PROVE  AloneInv'
<1> DEFINE k == committed.tid
           files == [store EXCEPT !.snapshots[job[m].t] = job[m].env]
<1>1. Write(m, "snapshot", files, AfterSnapshot(m)) /\ "snapshot" \in Committing /\ pc[m] = "snapshot"
  BY DEF WriteSnapshot, Write, Committing, Writes
<1>2. /\ Active(m) /\ JobInv(m) /\ job[m] \in Jobs /\ job[m].t \in Tids /\ job[m].t \in Int
      /\ store \in Stores /\ FilesInv /\ LoadsAsLast(store) /\ (options.wal \/ options.snapshots)
      /\ k \in Int /\ job[m].kind \in {"start", "store"} /\ (job[m].kind = "start" => options.wal)
      /\ \A t \in Tids : t \in Int
  BY <1>1, WriteFacts, AloneTypes
<1>3. job[m].todo = {} /\ (job[m].replay <=> job[m].kind = "start")
  BY <1>1, <1>2 DEF JobInv, WrittenInv
<1>4. DurableStep # "snapshot"
  BY DEF DurableStep
<1>5. /\ store' = files /\ pc'[m] = AfterSnapshot(m) /\ OnlyMoves(m) /\ job' = job
      /\ UNCHANGED <<options, lock, held, memVars, sweep, committed, base>>
  <2> HIDE DEF files
  <2> QED
    BY <1>1, <1>4, WriteStep
<1>6. /\ store'.records = store.records /\ store'.payloads = store.payloads /\ store'.wal = store.wal
      /\ store'.latest = store.latest /\ store'.current = store.current /\ store'.manifest = store.manifest
      /\ \A t \in Tids : store'.snapshots[t] = IF t = job[m].t THEN job[m].env ELSE store.snapshots[t]
  BY <1>2, <1>5 DEF Stores
<1>7. pc'[m] = IF options.wal /\ job[m].kind = "store" THEN "marker" ELSE "txn"
  BY <1>2, <1>3, <1>5 DEF AfterSnapshot
<1>8. Unborn(m) /\ (job[m].kind = "store" => Unborn(m)')
  BY <1>1, <1>5, <1>7 DEF Unborn
<1>9. job[m].kind = "store" => job[m].t = k + 1
  BY <1>1, <1>2, <1>8 DEF JobInv, UnbornInv
<1>10. FilesInv'
  <2>1. LoadsAsLast(store)'
    <3>1. ~options.wal => \A t \in Tids : t = k => store'.snapshots[t] = store.snapshots[t]
      BY <1>2, <1>6, <1>9
    <3> QED
      BY <1>2, <1>5, <1>6, <3>1 DEF LoadsAsLast, Readable
  <2>2. ~options.wal => \A t \in Tids : t > k + 1 => store'.snapshots[t] = store.snapshots[t]
    BY <1>2, <1>6, <1>9
  <2> QED
    BY <1>2, <1>5, <1>6, <2>1, <2>2 DEF FilesInv
<1>11. UnbornInv(m)'
  BY <1>1, <1>2, <1>5, <1>6, <1>7, <1>8 DEF JobInv, UnbornInv, memVars
<1>12. DurableInv(m)'
  BY <1>1, <1>2, <1>5, <1>6, <1>7, <1>8 DEF JobInv, DurableInv, memVars
<1>13. pc'[m] \in Committing \ {"records"} /\ (pc'[m] = "marker" => options.wal)
       /\ pc'[m] \notin {"snapshot", "current"}
  BY <1>7 DEF Committing, Writes
<1> QED
  BY <1>1, <1>2, <1>3, <1>5, <1>6, <1>8, <1>10, <1>11, <1>12, <1>13, WriteOn

\* The write that makes a commit durable.
LEMMA BornStep ==
    ASSUME AloneOnly, AloneInv, TypeInv', NEW m \in Managers, pc[m] \in Committing, pc[m] # "records",
           Unborn(m), job[m].kind = "store", pc[m] = DurableStep,
           committed' = [tid |-> job[m].t, env |-> job[m].env], base'[m] = job[m].t,
           LoadsAsLast(store)', OnlyMoves(m), job' = job,
           UNCHANGED <<options, lock, held, memVars, sweep>>,
           store'.records = store.records, store'.payloads = store.payloads,
           store'.snapshots = store.snapshots, store'.manifest = store.manifest,
           pc'[m] = IF options.wal THEN "txn" ELSE "manifest",
           ~options.wal => store'.latest = store.latest
    PROVE  AloneInv'
<1> DEFINE k == committed.tid
<1>1. /\ Active(m) /\ JobInv(m) /\ job[m].t \in Tids /\ job[m].t \in Int /\ k \in Int /\ k >= 0
      /\ FilesInv /\ SweepInv /\ Root \in job[m].env /\ sweep \in [Managers -> Sweeps]
      /\ (options.wal \/ options.snapshots)
      /\ \A t \in Tids : t \in Int
  BY WriteFacts, AloneTypes
<1>2. job[m].t = k + 1 /\ job[m].env = graph[m] /\ Ready(m)
      /\ (~options.wal => store.latest = k + 1)
  <2>1. UnbornInv(m) /\ ReadyInv(m)
    BY <1>1 DEF JobInv
  <2>2. ~options.wal => pc[m] = "current"
    BY <1>1 DEF DurableStep
  <2> QED
    BY <2>1, <2>2 DEF UnbornInv, ReadyInv
<1>3. committed'.tid = k + 1 /\ committed'.env = job[m].env
  BY <1>2
<1>4. job[m].env \cap Lazies \subseteq store.payloads /\ job[m].todo = {}
      /\ ~job[m].replay
      /\ \A o \in job[m].env : <<o, job[m].vers[o]>> \in store.records
  BY <1>1 DEF JobInv, WrittenInv
<1>5. FilesInv'
  <2>1. ~options.wal => \A t \in Tids : t > k + 2 => store'.snapshots[t] = {}
    BY <1>1 DEF FilesInv
  <2> QED
    BY <1>1, <1>3, <1>4, <2>1 DEF FilesInv
<1>6. SweepInv'
  <2>1. \A n \in Managers : sweep[n].files \subseteq Tids
    BY <1>1 DEF Sweeps
  <2> QED
    BY <1>1, <1>3, <2>1 DEF SweepInv
<1>7. pc'[m] \in {"txn", "manifest"} /\ Active(m)' /\ pc'[m] \in Committing /\ ~Unborn(m)'
  BY DEF Active, Committing, Writes, Unborn
<1>8. PlaceInv(m)' /\ CollectInv(m)' /\ CopyInv(m)'
  BY <1>7 DEF PlaceInv, CollectInv, CopyInv, Collecting
<1>9. WrittenInv(m)'
  BY <1>1, <1>4, <1>7 DEF WrittenInv
<1>10. ReadyInv(m)' /\ UnbornInv(m)'
  BY <1>7 DEF ReadyInv, UnbornInv
<1>11. DurableInv(m)'
  BY <1>1, <1>2, <1>3, <1>7 DEF DurableInv, Ready, memVars
<1> QED
  BY <1>1, <1>5, <1>6, <1>7, <1>8, <1>9, <1>10, <1>11, ActiveStep DEF JobInv

\* The commit marker.
LEMMA WriteWalCommitAlone ==
    ASSUME AloneOnly, AloneInv, TypeInv', NEW m \in Managers, WriteWalCommit(m)
    PROVE  AloneInv'
<1> DEFINE k == committed.tid
           files == [store EXCEPT !.wal[job[m].t] = job[m].env]
<1>1. Write(m, "marker", files, "txn") /\ "marker" \in Committing /\ pc[m] = "marker" /\ pc[m] \in Committing
  BY DEF WriteWalCommit, Write, Committing, Writes
<1>2. /\ Active(m) /\ JobInv(m) /\ job[m] \in Jobs /\ job[m].t \in Tids /\ job[m].t \in Int
      /\ store \in Stores /\ FilesInv /\ LoadsAsLast(store) /\ k \in Int /\ Root \in job[m].env
      /\ job[m].kind \in {"start", "store", "repair"} /\ (job[m].kind = "repair" => ~options.wal)
      /\ \A t \in Tids : t \in Int
  BY <1>1, WriteFacts, AloneTypes
<1>3. options.wal
  BY <1>1, <1>2 DEF JobInv, WrittenInv
<1>4. DurableStep = "marker" /\ Unborn(m)
  BY <1>1, <1>3 DEF DurableStep, Unborn
<1>5. job[m].kind = "store"
  BY <1>1, <1>2, <1>3 DEF JobInv, DurableInv
<1>6. /\ store' = files /\ pc'[m] = "txn" /\ OnlyMoves(m) /\ job' = job
      /\ UNCHANGED <<options, lock, held, memVars, sweep>>
      /\ committed' = [tid |-> job[m].t, env |-> job[m].env] /\ base'[m] = job[m].t
  <2> HIDE DEF files
  <2> QED
    BY <1>1, <1>4, <1>5, WriteStep
<1>7. /\ store'.records = store.records /\ store'.payloads = store.payloads
      /\ store'.latest = store.latest /\ store'.current = store.current /\ store'.manifest = store.manifest
      /\ store'.snapshots = store.snapshots
      /\ \A t \in Tids : store'.wal[t] = IF t = job[m].t THEN job[m].env ELSE store.wal[t]
  BY <1>2, <1>6 DEF Stores
<1>8. job[m].t = k + 1 /\ store.manifest.tid = k
  BY <1>1, <1>2, <1>4, <1>5 DEF JobInv, UnbornInv, ReadyInv, Ready
<1>9. LoadsAsLast(store)'
  <2>1. committed'.tid = k + 1 /\ committed'.env = job[m].env
    BY <1>6, <1>8
  <2>2. \A t \in Tids : store'.wal[t] # {} <=> t <= k + 1
    BY <1>2, <1>3, <1>7, <1>8 DEF LoadsAsLast
  <2>3. store.latest = k /\ store.current <= k
    BY <1>2, <1>3, <1>8 DEF LoadsAsLast
  <2>4. \A t \in Tids : t = k + 1 => store'.wal[t] = job[m].env
    BY <1>7, <1>8
  <2>5. options'.wal /\ store'.manifest.tid = k /\ store'.latest = k /\ store'.current <= k + 1
    BY <1>2, <1>3, <1>6, <1>7, <1>8, <2>3, StoreParts
  <2>6. k = committed'.tid - 1 /\ k # committed'.tid
    BY <1>2, <2>1
  <2> HIDE DEF k
  <2> QED
    BY <2>1, <2>2, <2>4, <2>5, <2>6 DEF LoadsAsLast
<1> QED
  BY <1>1, <1>3, <1>4, <1>5, <1>6, <1>7, <1>9, BornStep

\* The transaction record.
LEMMA WriteTransactionRecordAlone ==
    ASSUME AloneOnly, AloneInv, TypeInv', NEW m \in Managers, WriteTransactionRecord(m)
    PROVE  AloneInv'
<1> DEFINE k == committed.tid
           next == IF options.snapshots THEN "current" ELSE "manifest"
           l == Max({store.latest, job[m].t})
           files == [store EXCEPT !.latest = l]
<1>1. Write(m, "txn", files, next) /\ "txn" \in Committing /\ pc[m] = "txn" /\ pc[m] \in Committing
  BY DEF WriteTransactionRecord, Write, Committing, Writes
<1>2. /\ Active(m) /\ JobInv(m) /\ job[m].t \in Int
      /\ store \in Stores /\ FilesInv /\ LoadsAsLast(store) /\ k \in Int /\ store.latest \in Int
      /\ job[m].kind \in {"start", "store"} /\ (job[m].kind = "start" => options.wal)
      /\ (options.wal \/ options.snapshots)
  BY <1>1, WriteFacts
<1>3. l = IF store.latest < job[m].t THEN job[m].t ELSE store.latest
  BY <1>2, MaxOfTwo
<1> HIDE DEF l
<1>4. DurableStep # "txn"
  BY DEF DurableStep
<1>5. /\ store' = files /\ pc'[m] = next /\ OnlyMoves(m) /\ job' = job
      /\ UNCHANGED <<options, lock, held, memVars, sweep, committed, base>>
  <2> HIDE DEF files, next
  <2> QED
    BY <1>1, <1>4, WriteStep
<1>6. /\ store'.records = store.records /\ store'.payloads = store.payloads /\ store'.wal = store.wal
      /\ store'.latest = l /\ store'.current = store.current /\ store'.manifest = store.manifest
      /\ store'.snapshots = store.snapshots
  BY <1>2, <1>5 DEF Stores
<1>7. Unborn(m) <=> ~options.wal
  BY <1>1 DEF Unborn
<1>8. job[m].kind = "store" => (Unborn(m) <=> Unborn(m)')
  BY <1>2, <1>5, <1>7 DEF Unborn
<1>9. /\ options.wal => job[m].t = k /\ l = k
      /\ ~options.wal => job[m].t = k + 1 /\ l = k + 1
  BY <1>1, <1>2, <1>3, <1>7 DEF JobInv, UnbornInv, DurableInv, LoadsAsLast
<1>10. FilesInv'
  <2>1. LoadsAsLast(store)'
    BY <1>2, <1>5, <1>6, <1>9 DEF LoadsAsLast, Readable
  <2> QED
    BY <1>2, <1>5, <1>6, <2>1 DEF FilesInv
<1>11. UnbornInv(m)'
  BY <1>1, <1>2, <1>5, <1>6, <1>7, <1>8, <1>9 DEF JobInv, UnbornInv, memVars
<1>12. DurableInv(m)'
  BY <1>1, <1>2, <1>5, <1>6, <1>7, <1>8, <1>9 DEF JobInv, DurableInv, memVars
<1>13. pc'[m] \in Committing \ {"records"} /\ pc'[m] \notin {"marker", "snapshot"}
       /\ (pc'[m] = "current" => options.snapshots)
  BY <1>5 DEF Committing, Writes
<1>14. job[m].todo = {}
  BY <1>1, <1>2 DEF JobInv, WrittenInv
<1> QED
  BY <1>1, <1>2, <1>5, <1>6, <1>8, <1>10, <1>11, <1>12, <1>13, <1>14, WriteOn

\* CURRENT: it makes a commit durable where there is no WAL.
LEMMA WriteCurrentAlone ==
    ASSUME AloneOnly, AloneInv, TypeInv', NEW m \in Managers, WriteCurrent(m)
    PROVE  AloneInv'
<1> DEFINE k == committed.tid
           files == [store EXCEPT !.current = job[m].t]
<1>1. Write(m, "current", files, "manifest") /\ "current" \in Committing /\ pc[m] = "current"
      /\ pc[m] \in Committing
  BY DEF WriteCurrent, Write, Committing, Writes
<1>2. /\ Active(m) /\ JobInv(m) /\ job[m].t \in Tids /\ job[m].t \in Int /\ job[m].env \in Envelopes
      /\ store \in Stores /\ FilesInv /\ LoadsAsLast(store) /\ k \in Int /\ k >= 0
      /\ (options.wal \/ options.snapshots)
      /\ job[m].kind \in {"start", "store"} /\ (job[m].kind = "start" => options.wal)
      /\ \A t \in Tids : t \in Int
  BY <1>1, WriteFacts, AloneTypes
<1>3. options.snapshots /\ job[m].todo = {}
  BY <1>1, <1>2 DEF JobInv, WrittenInv
<1>4. /\ store' = files /\ pc'[m] = "manifest" /\ OnlyMoves(m) /\ job' = job
      /\ UNCHANGED <<options, lock, held, memVars, sweep>>
      /\ IF "current" = DurableStep /\ job[m].kind = "store"
         THEN committed' = [tid |-> job[m].t, env |-> job[m].env] /\ base'[m] = job[m].t
         ELSE committed' = committed /\ base' = base
  <2> HIDE DEF files
  <2> QED
    BY <1>1, WriteStep
<1>5. /\ store'.records = store.records /\ store'.payloads = store.payloads /\ store'.wal = store.wal
      /\ store'.latest = store.latest /\ store'.current = job[m].t /\ store'.manifest = store.manifest
      /\ store'.snapshots = store.snapshots
  BY <1>2, <1>4 DEF Stores
<1>6. Unborn(m) <=> ~options.wal
  BY <1>1 DEF Unborn
<1>7. CASE options.wal
  <2>1. committed' = committed /\ base' = base
    BY <1>4, <1>7 DEF DurableStep
  <2>2. job[m].t = k /\ ~Unborn(m) /\ ~Unborn(m)'
    BY <1>1, <1>2, <1>4, <1>6, <1>7 DEF JobInv, DurableInv, Unborn
  <2>3. FilesInv'
    <3>1. LoadsAsLast(store)'
      BY <1>2, <1>4, <1>5, <1>7, <2>1, <2>2 DEF LoadsAsLast, Readable
    <3> QED
      BY <1>2, <1>4, <1>5, <1>7, <2>1, <3>1 DEF FilesInv
  <2>4. UnbornInv(m)' /\ DurableInv(m)'
    BY <1>1, <1>2, <1>4, <1>5, <1>7, <2>1, <2>2 DEF JobInv, UnbornInv, DurableInv, memVars
  <2>5. pc'[m] \in Committing \ {"records"}
    BY <1>4 DEF Committing, Writes
  <2> QED
    BY <1>1, <1>2, <1>3, <1>4, <1>5, <2>1, <2>2, <2>3, <2>4, <2>5, WriteOn
<1>8. CASE ~options.wal
  <2>1. DurableStep = "current" /\ job[m].kind = "store" /\ Unborn(m)
    BY <1>2, <1>3, <1>6, <1>8 DEF DurableStep
  <2>2. committed' = [tid |-> job[m].t, env |-> job[m].env] /\ base'[m] = job[m].t
    BY <1>4, <2>1
  <2>3. /\ job[m].t = k + 1 /\ store.manifest.tid = k /\ store.latest = k + 1
        /\ store.snapshots[job[m].t] = job[m].env
    BY <1>1, <1>2, <1>8, <2>1 DEF JobInv, UnbornInv, ReadyInv, Ready
  <2>4. LoadsAsLast(store)'
    <3>1. committed'.tid = k + 1 /\ committed'.env = job[m].env
      BY <2>2, <2>3
    <3>2. \A t \in Tids : store'.wal[t] = {}
      BY <1>2, <1>5, <1>8 DEF LoadsAsLast
    <3>3. ~options'.wal /\ store'.manifest.tid = k /\ store'.latest = k + 1 /\ store'.current = k + 1
          /\ \A t \in Tids : t = k + 1 => store'.snapshots[t] = job[m].env
      BY <1>4, <1>5, <1>8, <2>3
    <3>4. k = committed'.tid - 1 /\ k # committed'.tid
      BY <1>2, <3>1
    <3> HIDE DEF k
    <3> QED
      BY <3>1, <3>2, <3>3, <3>4 DEF LoadsAsLast
  <2> QED
    BY <1>1, <1>4, <1>5, <1>8, <2>1, <2>2, <2>4, BornStep
<1> QED
  BY <1>7, <1>8

\* The manifest is the last write: no commit without a WAL waits for it, as it has
\* its snapshot.
LEMMA WriteManifestAlone ==
    ASSUME AloneOnly, AloneInv, TypeInv', NEW m \in Managers, WriteManifest(m)
    PROVE  AloneInv'
<1> DEFINE k == committed.tid
           man == [tid |-> job[m].t, vers |-> job[m].vers]
           files == [store EXCEPT !.manifest = man]
<1>1. Write(m, "manifest", files, "commitState") /\ "manifest" \in Committing /\ pc[m] = "manifest"
      /\ pc[m] \in Committing
  BY DEF WriteManifest, Write, Committing, Writes
<1>2. /\ Active(m) /\ JobInv(m) /\ job[m].t \in Int /\ DOMAIN job[m].vers = job[m].env
      /\ store \in Stores /\ FilesInv /\ LoadsAsLast(store) /\ k \in Int /\ store.latest \in Int
      /\ (options.wal \/ options.snapshots) /\ job[m].kind \in {"start", "store", "repair"}
  BY <1>1, WriteFacts
<1>3. job[m].todo = {} /\ \A o \in job[m].env : <<o, job[m].vers[o]>> \in store.records
  BY <1>1, <1>2 DEF JobInv, WrittenInv
<1>4. DurableStep # "manifest" /\ ~Unborn(m)
  BY <1>1, <1>2 DEF DurableStep, Unborn
<1>5. /\ store' = files /\ pc'[m] = "commitState" /\ OnlyMoves(m) /\ job' = job
      /\ UNCHANGED <<options, lock, held, memVars, sweep, committed, base>>
  <2> HIDE DEF files
  <2> QED
    BY <1>1, <1>4, WriteStep
<1>6. /\ store'.records = store.records /\ store'.payloads = store.payloads /\ store'.wal = store.wal
      /\ store'.latest = store.latest /\ store'.current = store.current
      /\ store'.manifest = man /\ store'.snapshots = store.snapshots
  <2> HIDE DEF man
  <2> QED
    BY <1>2, <1>5 DEF Stores
<1>7. job[m].t = k /\ job[m].env = committed.env /\ store.latest >= k
      /\ (job[m].kind # "start" => graph[m] = job[m].env /\ base[m] = k)
      /\ (job[m].kind = "repair" => ~options.wal) /\ (job[m].kind = "start" => options.wal)
  BY <1>1, <1>2, <1>4 DEF JobInv, DurableInv
<1>8. ~Unborn(m)'
  BY <1>5 DEF Unborn
<1>9. FilesInv'
  <2>1. store'.manifest.tid = k /\ DOMAIN store'.manifest.vers = committed.env
        /\ Readable(store', store'.manifest)
    BY <1>2, <1>3, <1>6, <1>7 DEF Readable
  <2>2. LoadsAsLast(store)'
    <3>1. options.wal => store.latest = k
      BY <1>2, <1>7 DEF LoadsAsLast
    <3> QED
      BY <1>2, <1>5, <1>6, <2>1, <3>1 DEF LoadsAsLast
  <2> QED
    BY <1>2, <1>5, <1>6, <2>2 DEF FilesInv
<1>10. UnbornInv(m)'
  BY <1>8 DEF UnbornInv
<1>11. DurableInv(m)'
  BY <1>5, <1>6, <1>7 DEF DurableInv, memVars
<1>12. pc'[m] \in Committing \ {"records"}
  BY <1>5 DEF Committing, Writes
<1> QED
  BY <1>1, <1>2, <1>3, <1>4, <1>5, <1>6, <1>8, <1>9, <1>10, <1>11, <1>12, WriteOn

\* The end of a commit, of a repair or of the replay of a commit.
LEMMA CommitStateAlone ==
    ASSUME AloneOnly, AloneInv, TypeInv', NEW m \in Managers, CommitState(m)
    PROVE  AloneInv'
<1>1. /\ pc[m] = "commitState" /\ pc[m] \in Committing /\ "commitState" \in Committing
      /\ options.strategy = "startup"
      /\ tid' = [tid EXCEPT ![m] = job[m].t] /\ vers' = [vers EXCEPT ![m] = job[m].vers]
      /\ UNCHANGED <<options, store, lock, held, graph, loaded, sweep, committed, base>>
  BY AloneTypes DEF CommitState, Committing, AloneOnly
<1>2. /\ Active(m) /\ JobInv(m) /\ job[m] \in Jobs /\ DOMAIN job[m].vers = job[m].env
      /\ Root \in job[m].env /\ FilesInv /\ LoadsAsLast(store) /\ ~Unborn(m)
  BY <1>1, WriteFacts DEF Unborn
<1>3. /\ job[m].t = committed.tid /\ job[m].env = committed.env
      /\ store.manifest = [tid |-> job[m].t, vers |-> job[m].vers]
      /\ (job[m].kind # "start" => graph[m] = job[m].env /\ base[m] = committed.tid)
      /\ (job[m].replay <=> job[m].kind = "start") /\ (job[m].kind = "start" => options.wal)
  BY <1>1, <1>2 DEF JobInv, DurableInv, WrittenInv
<1>4. CASE job[m].replay
  <2>1. pc' = [pc EXCEPT ![m] = "recover"] /\ job' = [job EXCEPT ![m] = [NoJob EXCEPT !.kind = job[m].kind]]
    BY <1>4 DEF CommitState, Goto
  <2>2. pc'[m] = "recover" /\ job'[m].kind = "start" /\ job'[m].replay = FALSE /\ OnlyMoves(m)
    BY <1>3, <1>4, <2>1, AloneTypes DEF OnlyMoves, NoJob
  <2>3. PlaceInv(m)' /\ CollectInv(m)' /\ CopyInv(m)'
    BY <2>2 DEF PlaceInv, CollectInv, CopyInv, Collecting
  <2>4. pc'[m] \notin Committing \cup {"down", "acquire"}
    BY <2>2 DEF Committing, Writes
  <2> QED
    BY <1>1, <1>2, <2>2, <2>3, <2>4, QuietStep
<1>5. CASE ~job[m].replay
  <2>1. pc' = [pc EXCEPT ![m] = "idle"] /\ job' = [job EXCEPT ![m] = NoJob]
    BY <1>1, <1>5 DEF CommitState, Finish, Finished, Goto
  <2>2. Ready(m)'
    <3>1. tid'[m] = job[m].t /\ vers'[m] = job[m].vers /\ base'[m] = committed.tid /\ graph'[m] = job[m].env
      BY <1>1, <1>3, <1>5, AloneTypes
    <3> QED
      BY <1>1, <1>2, <1>3, <3>1 DEF Ready
  <2> QED
    BY <1>1, <1>2, <2>1, <2>2, IdleStep
<1> QED
  BY <1>4, <1>5

-----------------------------------------------------------------------------
(* Collection *)

\* What the invariant says of a collection: the manifest is that of the last
\* commit, and its records are there.
LEMMA CollectFacts ==
    ASSUME AloneOnly, AloneInv, NEW m \in Managers, pc[m] \in Collecting
    PROVE  /\ Active(m) /\ JobInv(m) /\ job[m] \in Jobs /\ job[m].kind = "collect" /\ ~job[m].replay
           /\ Ready(m) /\ store \in Stores /\ FilesInv /\ LoadsAsLast(store)
           /\ options.strategy = "startup" /\ store.manifest.tid = committed.tid
           /\ DOMAIN store.manifest.vers = committed.env /\ Readable(store, store.manifest)
<1>1. /\ Active(m) /\ job[m] \in Jobs /\ store \in Stores /\ options.strategy = "startup"
      /\ pc[m] \notin Committing
  BY AloneTypes DEF Active, Collecting, Committing, Writes, AloneOnly
<1>2. JobInv(m) /\ job[m].kind = "collect" /\ ~job[m].replay
  BY <1>1 DEF AloneInv, JobInv, PlaceInv
<1>3. Ready(m)
  BY <1>1, <1>2 DEF JobInv, ReadyInv
<1>4. FilesInv /\ LoadsAsLast(store) /\ store.manifest.tid = committed.tid
  BY <1>3 DEF AloneInv, FilesInv, Ready
<1> QED
  BY <1>1, <1>2, <1>3, <1>4 DEF LoadsAsLast

\* A collection reads the manifest, and lists what it does not mention.
LEMMA CollectListAlone ==
    ASSUME AloneOnly, AloneInv, TypeInv', NEW m \in Managers,
           CollectManifest(m) \/ CollectRecords(m) \/ CollectLazies(m)
    PROVE  AloneInv'
<1>1. pc[m] \in Collecting
  BY DEF CollectManifest, CollectRecords, CollectLazies, Collecting
<1>2. /\ Active(m) /\ JobInv(m) /\ job[m] \in Jobs /\ job[m].kind = "collect" /\ ~job[m].replay
      /\ Ready(m) /\ options.strategy = "startup" /\ Readable(store, store.manifest)
  BY <1>1, CollectFacts
<1>3. UNCHANGED <<options, store, lock, held, memVars, sweep, committed, base>>
  BY <1>2 DEF CollectManifest, CollectRecords, CollectLazies, Throw
<1>4. Ready(m)'
  BY <1>2, <1>3 DEF Ready, memVars
<1>5. CASE pc' = [pc EXCEPT ![m] = "idle"] /\ job' = [job EXCEPT ![m] = NoJob]
  BY <1>2, <1>3, <1>4, <1>5, IdleStep
<1>6. ASSUME OnlyMoves(m), job'[m].kind = "collect", job'[m].replay = job[m].replay,
             pc'[m] \in Collecting, CollectInv(m)'
      PROVE  AloneInv'
  <2>1. PlaceInv(m)' /\ CopyInv(m)'
    BY <1>2, <1>6 DEF PlaceInv, CopyInv, Collecting
  <2>2. pc'[m] \notin Committing \cup {"down", "acquire"}
    BY <1>6 DEF Committing, Writes, Collecting
  <2> QED
    BY <1>2, <1>3, <1>4, <1>6, <2>1, <2>2, QuietStep
<1>7. CASE CollectManifest(m)
  <2>1. CASE store.manifest.tid = 0
    BY <1>2, <1>5, <1>7, <2>1 DEF CollectManifest, Finish, Finished, Goto
  <2>2. CASE store.manifest.tid # 0
    <3>1. /\ pc'[m] = "gcRecords" /\ job'[m].man = store.manifest /\ job'[m].kind = "collect"
          /\ job'[m].replay = job[m].replay /\ OnlyMoves(m)
      BY <1>2, <1>7, <2>2, AloneTypes DEF CollectManifest, Goto, OnlyMoves, Jobs
    <3>2. CollectInv(m)' /\ pc'[m] \in Collecting
      BY <1>3, <3>1 DEF CollectInv, Collecting
    <3> QED
      BY <1>6, <3>1, <3>2
  <2> QED
    BY <2>1, <2>2
<1>8. CASE CollectRecords(m)
  <2>1. job[m].man = store.manifest
    BY <1>2, <1>8 DEF CollectRecords, JobInv, CollectInv
  <2>2. /\ pc'[m] = "gcRemove" /\ job'[m].files = store.records \ LiveRecords(store.manifest)
        /\ job'[m].man = job[m].man /\ job'[m].kind = "collect" /\ job'[m].replay = job[m].replay
        /\ OnlyMoves(m)
    BY <1>2, <1>8, <2>1, AloneTypes DEF CollectRecords, Goto, OnlyMoves, Jobs
  <2>3. CollectInv(m)' /\ pc'[m] \in Collecting
    BY <1>3, <2>1, <2>2 DEF CollectInv, Collecting, LiveRecords
  <2> QED
    BY <1>6, <2>2, <2>3
<1>9. CASE CollectLazies(m)
  <2>1. job[m].man = store.manifest
    BY <1>2, <1>9 DEF CollectLazies, JobInv, CollectInv
  <2>2. /\ pc'[m] = "gcRemoveLazy" /\ job'[m].files = store.payloads \ LiveLazies(store.manifest)
        /\ job'[m].man = job[m].man /\ job'[m].kind = "collect" /\ job'[m].replay = job[m].replay
        /\ OnlyMoves(m)
    BY <1>2, <1>9, <2>1, AloneTypes DEF CollectLazies, Goto, OnlyMoves, Jobs
  <2>3. CollectInv(m)' /\ pc'[m] \in Collecting
    BY <1>3, <2>1, <2>2 DEF CollectInv, Collecting, LiveLazies
  <2> QED
    BY <1>6, <2>2, <2>3
<1> QED
  BY <1>7, <1>8, <1>9

\* A collection removes neither a record of the last commit nor its payloads.
LEMMA CollectRemoveAlone ==
    ASSUME AloneOnly, AloneInv, TypeInv', NEW m \in Managers, RemoveRecord(m) \/ RemovePayload(m)
    PROVE  AloneInv'
<1>1. pc[m] \in Collecting
  BY DEF RemoveRecord, RemovePayload, Collecting
<1>2. /\ Active(m) /\ JobInv(m) /\ job[m] \in Jobs /\ job[m].kind = "collect" /\ ~job[m].replay
      /\ Ready(m) /\ store \in Stores /\ FilesInv /\ LoadsAsLast(store)
      /\ DOMAIN store.manifest.vers = committed.env /\ Readable(store, store.manifest)
  BY <1>1, CollectFacts
<1>3. UNCHANGED <<options, lock, pc, held, memVars, sweep, committed, base>>
  BY DEF RemoveRecord, RemovePayload
<1>4. PICK gone :
        /\ gone \in job[m].files
        /\ job' = [job EXCEPT ![m].files = @ \ {gone}]
        /\ \/ pc[m] = "gcRemove" /\ store' = [store EXCEPT !.records = @ \ {gone}]
           \/ pc[m] = "gcRemoveLazy" /\ store' = [store EXCEPT !.payloads = @ \ {gone}]
  <2>1. CASE RemoveRecord(m)
    BY <2>1 DEF RemoveRecord
  <2>2. CASE RemovePayload(m)
    BY <2>2 DEF RemovePayload
  <2> QED
    BY <2>1, <2>2
<1>5. /\ job'[m].files \subseteq job[m].files /\ job'[m].man = job[m].man /\ job'[m].kind = "collect"
      /\ job'[m].replay = job[m].replay /\ OnlyMoves(m)
  BY <1>2, <1>3, <1>4, AloneTypes DEF Jobs, OnlyMoves
<1>6. /\ store'.wal = store.wal /\ store'.latest = store.latest /\ store'.snapshots = store.snapshots
      /\ store'.current = store.current /\ store'.manifest = store.manifest
      /\ store'.records = IF pc[m] = "gcRemove" THEN store.records \ {gone} ELSE store.records
      /\ store'.payloads = IF pc[m] = "gcRemove" THEN store.payloads ELSE store.payloads \ {gone}
  BY <1>2, <1>4 DEF Stores
<1>7. CollectInv(m)
  BY <1>2 DEF JobInv
<1>8. Readable(store, store.manifest)'
  <2>1. pc[m] = "gcRemove" => gone \notin LiveRecords(store.manifest)
    BY <1>4, <1>7 DEF CollectInv
  <2> QED
    BY <1>2, <1>6, <2>1 DEF Readable, LiveRecords
<1>9. committed.env \cap Lazies \subseteq store'.payloads
  <2>1. pc[m] # "gcRemove" => gone \notin LiveLazies(store.manifest)
    BY <1>4, <1>7 DEF CollectInv
  <2> QED
    BY <1>2, <1>6, <2>1 DEF FilesInv, LiveLazies
<1>10. FilesInv'
  <2>1. LoadsAsLast(store)'
    BY <1>2, <1>3, <1>6, <1>8 DEF LoadsAsLast
  <2> QED
    BY <1>2, <1>3, <1>6, <1>9, <2>1 DEF FilesInv
<1>11. SweepInv' /\ Active(m)'
  BY <1>2, <1>3, SweepStays DEF AloneInv, Active
<1>12. PlaceInv(m)' /\ CopyInv(m)'
  BY <1>1, <1>2, <1>3, <1>5 DEF PlaceInv, CopyInv, Collecting
<1>13. CollectInv(m)'
  BY <1>3, <1>5, <1>6, <1>7 DEF CollectInv
<1>14. pc'[m] \notin Committing
  BY <1>1, <1>3 DEF Committing, Writes, Collecting
<1>15. WrittenInv(m)' /\ UnbornInv(m)' /\ DurableInv(m)'
  BY <1>14 DEF WrittenInv, UnbornInv, DurableInv
<1>16. ReadyInv(m)'
  BY <1>2, <1>3, <1>6 DEF Ready, ReadyInv, memVars
<1> QED
  BY <1>2, <1>3, <1>5, <1>10, <1>11, <1>12, <1>13, <1>15, <1>16, ActiveStep DEF JobInv

\* A collection ends.
LEMMA EndCollectAlone ==
    ASSUME AloneOnly, AloneInv, TypeInv', NEW m \in Managers, EndCollect(m)
    PROVE  AloneInv'
<1>1. pc[m] \in Collecting /\ UNCHANGED <<options, store, lock, held, memVars, sweep, committed, base>>
  BY DEF EndCollect, Collecting
<1>2. Active(m) /\ Ready(m) /\ options.strategy = "startup"
  BY <1>1, CollectFacts
<1>3. pc' = [pc EXCEPT ![m] = "idle"] /\ job' = [job EXCEPT ![m] = NoJob]
  BY <1>2 DEF EndCollect, Finish, Finished, Goto
<1>4. Ready(m)'
  BY <1>1, <1>2 DEF Ready, memVars
<1> QED
  BY <1>1, <1>2, <1>3, <1>4, IdleStep

-----------------------------------------------------------------------------
(* Backup *)

\* What the invariant says of a backup that copies.
LEMMA BackupFacts ==
    ASSUME AloneOnly, AloneInv, NEW m \in Managers, pc[m] \in {"copy", "copied"}
    PROVE  /\ Active(m) /\ JobInv(m) /\ job[m] \in Jobs /\ job[m].kind = "backup" /\ ~job[m].replay
           /\ Ready(m) /\ store \in Stores /\ FilesInv /\ LoadsAsLast(store)
           /\ options.strategy = "startup"
           /\ pc[m] = "copy" => job[m].files \subseteq Directories
<1>1. /\ Active(m) /\ job[m] \in Jobs /\ store \in Stores /\ options.strategy = "startup"
      /\ pc[m] \notin Committing
  BY AloneTypes DEF Active, Committing, Writes, AloneOnly
<1>2. JobInv(m) /\ job[m].kind = "backup" /\ ~job[m].replay
  BY <1>1 DEF AloneInv, JobInv, PlaceInv
<1>3. Ready(m)
  BY <1>1, <1>2 DEF JobInv, ReadyInv
<1>4. FilesInv /\ LoadsAsLast(store)
  BY DEF AloneInv, FilesInv
<1>5. pc[m] = "copy" => job[m].files \subseteq Directories
  BY JobOf DEF AloneInv, Shape
<1> QED
  BY <1>1, <1>2, <1>3, <1>4, <1>5

\* A directory is copied.
LEMMA CopyDirectoryAlone ==
    ASSUME AloneOnly, AloneInv, TypeInv', NEW m \in Managers, CopyDirectory(m)
    PROVE  AloneInv'
<1>1. /\ pc[m] = "copy" /\ Active(m) /\ JobInv(m) /\ job[m] \in Jobs /\ job[m].kind = "backup"
      /\ ~job[m].replay /\ Ready(m) /\ store \in Stores /\ FilesInv /\ LoadsAsLast(store)
      /\ job[m].files \subseteq Directories /\ job[m].copy \in Stores
      /\ UNCHANGED <<options, store, lock, held, memVars, sweep, committed, base>>
  BY BackupFacts DEF CopyDirectory, Jobs
<1>2. PICK d \in job[m].files :
        /\ job' = [job EXCEPT ![m].copy[d] = store[d], ![m].files = @ \ {d}]
        /\ pc' = [pc EXCEPT ![m] = IF job[m].files = {d} THEN "copied" ELSE "copy"]
  BY DEF CopyDirectory, Goto
<1> DEFINE c == job[m].copy
           f == [c EXCEPT ![d] = store[d]]
<1>3. /\ f.records = IF d = "records" THEN store.records ELSE c.records
      /\ f.payloads = IF d = "payloads" THEN store.payloads ELSE c.payloads
      /\ f.wal = IF d = "wal" THEN store.wal ELSE c.wal
      /\ f.latest = IF d = "latest" THEN store.latest ELSE c.latest
      /\ f.snapshots = IF d = "snapshots" THEN store.snapshots ELSE c.snapshots
      /\ f.current = IF d = "current" THEN store.current ELSE c.current
      /\ f.manifest = IF d = "manifest" THEN store.manifest ELSE c.manifest
  <2>1. c \in Stores /\ d \in Directories
    BY <1>1, <1>2
  <2> HIDE DEF c
  <2> QED
    BY <1>1, <2>1, CopyType
<1>4. /\ job'[m].kind = "backup" /\ job'[m].replay = job[m].replay /\ job'[m].copy = f
      /\ job'[m].files = job[m].files \ {d}
  BY <1>1, <1>2, AloneTypes DEF Jobs
<1>5. /\ OnlyMoves(m) /\ pc'[m] \in {"copy", "copied"} /\ (pc'[m] = "copied" => job[m].files = {d})
  BY <1>2, AloneTypes DEF OnlyMoves
<1> HIDE DEF f
<1>6. CopyInv(m)'
  <2>1. CopyInv(m)
    BY <1>1 DEF JobInv
  <2> DEFINE done == Directories \ job[m].files
             now == Directories \ (job[m].files \ {d})
  <2>2. \A x \in now : x = d \/ x \in done
    OBVIOUS
  <2>3. /\ "records" \in done => c.records = store.records
        /\ "wal" \in done => c.wal = store.wal
        /\ "latest" \in done => c.latest = store.latest
        /\ "current" \in done => c.current = store.current
        /\ "manifest" \in done => c.manifest = store.manifest
        /\ "snapshots" \in done /\ ~options.wal =>
             \A t \in Tids : t = committed.tid => c.snapshots[t] = committed.env
        /\ "payloads" \in done => committed.env \cap Lazies \subseteq c.payloads
    BY <1>1, <2>1 DEF CopyInv
  <2>4. ~options.wal => \A t \in Tids : t = committed.tid => store.snapshots[t] = committed.env
    BY <1>1 DEF LoadsAsLast
  <2>5. committed.env \cap Lazies \subseteq store.payloads
    BY <1>1 DEF FilesInv
  <2> HIDE DEF done, now, c
  <2>6. /\ "records" \in now => f.records = store.records
        /\ "wal" \in now => f.wal = store.wal
        /\ "latest" \in now => f.latest = store.latest
        /\ "current" \in now => f.current = store.current
        /\ "manifest" \in now => f.manifest = store.manifest
    BY <1>3, <2>2, <2>3
  <2>7. "snapshots" \in now /\ ~options.wal =>
          \A t \in Tids : t = committed.tid => f.snapshots[t] = committed.env
    BY <1>3, <2>2, <2>3, <2>4
  <2>8. "payloads" \in now => committed.env \cap Lazies \subseteq f.payloads
    BY <1>3, <2>2, <2>3, <2>5
  <2>9. pc'[m] = "copied" => job[m].files \ {d} = {}
    BY <1>5
  <2> QED
    BY <1>1, <1>4, <2>6, <2>7, <2>8, <2>9 DEF CopyInv, now
<1>7. PlaceInv(m)' /\ CollectInv(m)'
  BY <1>1, <1>4, <1>5 DEF PlaceInv, CollectInv, Collecting
<1>8. Ready(m)'
  BY <1>1 DEF Ready, memVars
<1>9. pc'[m] \notin Committing \cup {"down", "acquire"}
  BY <1>5 DEF Committing, Writes
<1> QED
  BY <1>1, <1>5, <1>6, <1>7, <1>8, <1>9, QuietStep

\* A backup ends.
LEMMA EndBackupAlone ==
    ASSUME AloneOnly, AloneInv, TypeInv', NEW m \in Managers, EndBackup(m)
    PROVE  AloneInv'
<1>1. pc[m] \in {"copy", "copied"}
      /\ UNCHANGED <<options, store, lock, held, memVars, sweep, committed, base>>
  BY DEF EndBackup
<1>2. Active(m) /\ Ready(m) /\ options.strategy = "startup"
  BY <1>1, BackupFacts
<1>3. pc' = [pc EXCEPT ![m] = "idle"] /\ job' = [job EXCEPT ![m] = NoJob]
  BY <1>2 DEF EndBackup, Finish, Finished, Goto
<1>4. Ready(m)'
  BY <1>1, <1>2 DEF Ready, memVars
<1> QED
  BY <1>1, <1>2, <1>3, <1>4, IdleStep

-----------------------------------------------------------------------------
(* The invariant, and what it shows *)

\* Every step keeps the invariant.
LEMMA AloneNext ==
    ASSUME AloneOnly, AloneInv, [Next]_vars
    PROVE  AloneInv'
<1>1. TypeInv'
  BY TypeNext DEF AloneInv
<1>2. CASE UNCHANGED vars
  <2>1. FilesInv' /\ SweepInv' /\ UNCHANGED <<options, pc, job, held, lock>>
    BY <1>2, FilesStay, SweepStays DEF AloneInv, vars
  <2>2. ASSUME NEW n \in Managers, Active(n), JobInv(n)
        PROVE  JobInv(n)'
    BY <1>2, <2>2, JobStays DEF vars, memVars
  <2> QED
    BY <1>1, <2>1, <2>2, BesideStep
<1>3. CASE Next
  <2>1. PICK m \in Managers :
          \/ Start(m) \/ Acquire(m) \/ AcquireTimeout(m) \/ Release(m)
          \/ Recover(m) \/ LoadManifest(m) \/ Load(m)
          \/ Edit(m) \/ CreateLazyRef(m) \/ LoadLazyRef(m) \/ ClearLazyRef(m)
          \/ BeginStore(m) \/ CheckConflict(m) \/ StoreLazyRefs(m) \/ WriteObjectRecords(m)
          \/ WriteSnapshot(m) \/ WriteWalCommit(m) \/ WriteTransactionRecord(m)
          \/ WriteCurrent(m) \/ WriteManifest(m) \/ CommitState(m)
          \/ BeginCollect(m) \/ CollectManifest(m) \/ CollectRecords(m) \/ RemoveRecord(m)
          \/ CollectLazies(m) \/ RemovePayload(m) \/ EndCollect(m)
          \/ BeginCompact(m) \/ ListSnapshots(m) \/ RemoveSnapshot(m) \/ EndCompact(m)
          \/ BeginBackup(m) \/ CopyDirectory(m) \/ EndBackup(m)
          \/ TargetFails(m) \/ Crash(m) \/ Shutdown(m)
    BY <1>3 DEF Next
  <2>2. CASE Start(m) \/ Acquire(m) \/ Recover(m) \/ LoadManifest(m) \/ Load(m)
    BY <1>1, <2>2, StartAlone, AcquireAlone, RecoverAlone, LoadManifestAlone, LoadAlone
  <2>3. CASE Edit(m) \/ CreateLazyRef(m) \/ LoadLazyRef(m) \/ ClearLazyRef(m)
    BY <1>1, <2>3, EditAlone, LazyAlone
  <2>4. CASE BeginStore(m) \/ BeginCollect(m) \/ BeginBackup(m) \/ StoreLazyRefs(m)
    BY <1>1, <2>4, BeginAlone, StoreLazyRefsAlone
  <2>5. CASE WriteObjectRecords(m) \/ WriteSnapshot(m) \/ WriteWalCommit(m) \/ WriteTransactionRecord(m)
    BY <1>1, <2>5, WriteObjectRecordsAlone, WriteSnapshotAlone, WriteWalCommitAlone,
       WriteTransactionRecordAlone
  <2>6. CASE WriteCurrent(m) \/ WriteManifest(m) \/ CommitState(m)
    BY <1>1, <2>6, WriteCurrentAlone, WriteManifestAlone, CommitStateAlone
  <2>7. CASE \/ CollectManifest(m) \/ CollectRecords(m) \/ RemoveRecord(m)
             \/ CollectLazies(m) \/ RemovePayload(m) \/ EndCollect(m)
    BY <1>1, <2>7, CollectListAlone, CollectRemoveAlone, EndCollectAlone
  <2>8. CASE BeginCompact(m) \/ ListSnapshots(m) \/ RemoveSnapshot(m) \/ EndCompact(m)
    BY <1>1, <2>8, CompactAlone
  <2>9. CASE CopyDirectory(m) \/ EndBackup(m)
    BY <1>1, <2>9, CopyDirectoryAlone, EndBackupAlone
  <2>10. CASE AcquireTimeout(m) \/ TargetFails(m) \/ Crash(m) \/ Shutdown(m)
    BY <1>1, <2>10, StopAlone
  <2>11. CASE Release(m) \/ CheckConflict(m)
    BY <2>11, NeverThere
  <2> QED
    BY <2>1, <2>2, <2>3, <2>4, <2>5, <2>6, <2>7, <2>8, <2>9, <2>10, <2>11
<1> QED
  BY <1>2, <1>3

\* It holds in every state.
LEMMA AloneAlways ==
    ASSUME AloneOnly
    PROVE  Spec => []AloneInv
<1>1. AloneInv /\ [Next]_vars => AloneInv'
  BY AloneNext
<1> QED
  BY <1>1, AloneInit, PTL DEF Spec

\* Of managers that have the store for themselves, whatever they collect, compact,
\* back up or write beside, and wherever they die: a start finds the last durable
\* commit, from its WAL entry, from the manifest and its records, or from the
\* snapshot that CURRENT names.
THEOREM MaintenanceStartFindsLastCommit ==
    ASSUME AloneOnly
    PROVE  Spec => []StartFindsLastCommit
<1>1. AloneInv => StartFindsLastCommit
  <2> SUFFICES ASSUME AloneInv PROVE Found(store) = committed
    BY DEF StartFindsLastCommit
  <2>1. LoadsAsLast(store) /\ (committed.tid = 0 => committed = Nothing)
    BY DEF AloneInv, FilesInv
  <2> QED
    BY <2>1, AloneTypes, FoundIs
<1> QED
  BY <1>1, AloneAlways, PTL

\* The same managers never lose the payload of a LazyRef of that commit: the
\* collection keeps it, and the commit wrote it before the graph that mentions it.
THEOREM MaintenanceLazyPayloadsKept ==
    ASSUME AloneOnly
    PROVE  Spec => []LazyPayloadsKept
<1>1. AloneInv => LazyPayloadsKept
  BY DEF AloneInv, FilesInv, LazyPayloadsKept
<1> QED
  BY <1>1, AloneAlways, PTL

\* A backup of such a manager loads as that commit, with its payloads, although the
\* directories are copied one by one, in any order, beside a compaction and
\* beside lazy references that are written.
THEOREM MaintenanceBackupRestores ==
    ASSUME AloneOnly
    PROVE  Spec => []BackupRestores
<1>1. AloneInv => BackupRestores
  <2> SUFFICES ASSUME AloneInv, NEW m \in Managers, pc[m] = "copied"
               PROVE  /\ Found(job[m].copy) = committed
                      /\ committed.env \cap Lazies \subseteq job[m].copy.payloads
    BY DEF BackupRestores
  <2> DEFINE c == job[m].copy
  <2>1. Active(m) /\ JobInv(m) /\ c \in Stores /\ FilesInv /\ LoadsAsLast(store)
    BY AloneTypes DEF AloneInv, Active, FilesInv, Jobs
  <2>2. job[m].files = {}
    BY <2>1 DEF JobInv, CopyInv
  <2>3. /\ c.records = store.records /\ c.wal = store.wal /\ c.latest = store.latest
        /\ c.current = store.current /\ c.manifest = store.manifest
        /\ ~options.wal => \A t \in Tids : t = committed.tid => c.snapshots[t] = committed.env
        /\ committed.env \cap Lazies \subseteq c.payloads
    BY <2>1, <2>2 DEF JobInv, CopyInv, Directories
  <2> HIDE DEF c
  <2>4. LoadsAsLast(c)
    BY <2>1, <2>3 DEF LoadsAsLast, Readable
  <2>5. Found(c) = committed
    BY <2>1, <2>4, AloneTypes, FoundIs DEF FilesInv
  <2> QED
    BY <2>3, <2>5 DEF c
<1> QED
  BY <1>1, AloneAlways, PTL

\* Only the write that makes a commit durable changes what is durable, and it
\* takes the id after the commit that the manager's graph was made from.
LEMMA CommitBuilds ==
    ASSUME AloneOnly, AloneInv, [Next]_vars, committed' # committed
    PROVE  \E m \in Managers : base'[m] = committed'.tid /\ base[m] = committed.tid
<1>1. PICK m \in Managers :
        \/ WriteSnapshot(m) \/ WriteWalCommit(m) \/ WriteTransactionRecord(m)
        \/ WriteCurrent(m) \/ WriteManifest(m)
  <2>1. committed' # committed
    OBVIOUS
  <2>2. \A m \in Managers :
          ~(\/ Start(m) \/ Acquire(m) \/ AcquireTimeout(m) \/ Release(m)
             \/ TargetFails(m) \/ Crash(m) \/ Shutdown(m))
    BY <2>1 DEF Start, Acquire, AcquireTimeout, Release, TargetFails, Crash, Shutdown, Throw
  <2>3. \A m \in Managers :
          ~(Recover(m) \/ LoadManifest(m) \/ Load(m) \/ CheckConflict(m) \/ CommitState(m))
    BY <2>1 DEF Recover, LoadManifest, Load, AdoptAndFinish, AdoptAndRepair, Adopt, Throw,
       CheckConflict, CommitState
  <2>4. \A m \in Managers :
          ~(\/ Edit(m) \/ CreateLazyRef(m) \/ LoadLazyRef(m) \/ ClearLazyRef(m)
            \/ BeginStore(m) \/ StoreLazyRefs(m) \/ WriteObjectRecords(m))
    BY <2>1 DEF Edit, CreateLazyRef, LoadLazyRef, ClearLazyRef, BeginStore, StoreLazyRefs,
       WriteObjectRecords
  <2>5. \A m \in Managers :
          ~(\/ BeginCollect(m) \/ CollectManifest(m) \/ CollectRecords(m) \/ RemoveRecord(m)
            \/ CollectLazies(m) \/ RemovePayload(m) \/ EndCollect(m))
    BY <2>1 DEF BeginCollect, CollectManifest, CollectRecords, RemoveRecord, CollectLazies,
       RemovePayload, EndCollect, Throw
  <2>6. \A m \in Managers :
          ~(\/ BeginCompact(m) \/ ListSnapshots(m) \/ RemoveSnapshot(m) \/ EndCompact(m)
            \/ BeginBackup(m) \/ CopyDirectory(m) \/ EndBackup(m))
    BY <2>1 DEF BeginCompact, ListSnapshots, RemoveSnapshot, EndCompact, BeginBackup, CopyDirectory,
       EndBackup
  <2>7. Next
    BY <2>1 DEF vars
  <2> QED
    BY <2>2, <2>3, <2>4, <2>5, <2>6, <2>7 DEF Next
<1>2. /\ pc[m] = DurableStep /\ pc[m] \in Writes /\ job[m].kind = "store"
      /\ committed' = [tid |-> job[m].t, env |-> job[m].env] /\ base'[m] = job[m].t
  BY <1>1, AloneTypes DEF WriteSnapshot, WriteWalCommit, WriteTransactionRecord, WriteCurrent,
     WriteManifest, Write, Writes
<1>3. pc[m] \in Committing /\ JobInv(m) /\ (options.wal \/ options.snapshots)
  BY <1>2, WriteFacts DEF Committing
<1>4. Unborn(m)
  BY <1>2, <1>3 DEF DurableStep, Unborn
<1>5. Ready(m)
  BY <1>2, <1>3, <1>4 DEF JobInv, ReadyInv
<1> QED
  BY <1>2, <1>5 DEF Ready

\* The same managers never commit a graph that was made from an older commit than
\* the last one: no commit is lost.
THEOREM MaintenanceCommitsBuildOnTheLast ==
    ASSUME AloneOnly
    PROVE  Spec => CommitsBuildOnTheLast
<1> DEFINE A == committed' # committed =>
                  \E m \in Managers : base'[m] = committed'.tid /\ base[m] = committed.tid
<1>1. AloneInv /\ [Next]_vars => [A]_vars
  BY CommitBuilds
<1> QED
  BY <1>1, AloneAlways, PTL DEF Spec, CommitsBuildOnTheLast

=============================================================================
