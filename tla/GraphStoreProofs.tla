-------------------------- MODULE GraphStoreProofs --------------------------
(***************************************************************************)
(* Theorems about GraphStore, for every value of its constants: the types  *)
(* of its variables, and that the manifest of a store whose commits write  *)
(* the whole graph never selects an object version without a record.       *)
(***************************************************************************)
EXTENDS GraphStore, TLAPS

-----------------------------------------------------------------------------
(* Envelopes and versions *)

\* A function from some objects to contents is an envelope.
LEMMA EnvelopeIntro ==
    ASSUME NEW S \in SUBSET Objects, NEW f \in [S -> Contents]
    PROVE  f \in Envelopes
BY DEF Envelopes

\* An envelope maps some objects to contents.
LEMMA EnvelopeElim ==
    ASSUME NEW env \in Envelopes
    PROVE  /\ DOMAIN env \in SUBSET Objects
           /\ \A o \in DOMAIN env : env[o] \in Contents
BY DEF Envelopes

\* A function from some objects to transaction ids is a versions map.
LEMMA VersionsIntro ==
    ASSUME NEW S \in SUBSET Objects, NEW f \in [S -> Tids]
    PROVE  f \in Versions
BY DEF Versions

\* A versions map gives some objects transaction ids.
LEMMA VersionsElim ==
    ASSUME NEW v \in Versions
    PROVE  /\ DOMAIN v \in SUBSET Objects
           /\ \A o \in DOMAIN v : v[o] \in Tids
BY DEF Versions

\* The empty function is an envelope and a versions map.
LEMMA EmptyTypes ==
    /\ NoEnvelope \in Envelopes
    /\ NoVersions \in Versions
    /\ DOMAIN NoEnvelope = {}
    /\ DOMAIN NoVersions = {}
BY DEF Envelopes, Versions, NoEnvelope, NoVersions

\* serialize() of a live graph is an envelope.
LEMMA SerializeType ==
    ASSUME NEW h \in Heaps
    PROVE  Serialize(h) \in Envelopes
<1>1. Closure(h, {Root}) \in SUBSET Objects
  BY DEF Closure
<1>2. Serialize(h) \in [Closure(h, {Root}) -> Contents]
  BY <1>1 DEF Serialize, Heaps
<1> QED
  BY <1>1, <1>2, EnvelopeIntro

\* deserialize() of an envelope is a live graph.
LEMMA DeserializeType ==
    ASSUME NEW env \in Envelopes
    PROVE  Deserialize(env) \in Heaps
BY StoreAssumptions, EnvelopeElim DEF Deserialize, Heaps

\* AllAt gives every object of the envelope the same version.
LEMMA AllAtType ==
    ASSUME NEW env \in Envelopes, NEW t \in Tids
    PROVE  /\ AllAt(env, t) \in Versions
           /\ DOMAIN AllAt(env, t) = DOMAIN env
           /\ \A o \in DOMAIN env : AllAt(env, t)[o] = t
BY EnvelopeElim, VersionsIntro DEF AllAt

\* A manager that does nothing has a job record of the right type.
LEMMA NoJobType == NoJob \in Jobs
BY StoreAssumptions, EmptyTypes DEF NoJob, Jobs, NoManifest

-----------------------------------------------------------------------------
(* Types *)

\* The control points of a commit, after its envelope is serialized.
Committing == Writes \cup Fences \cup {"commitState"}

\* The parts of a job that the types do not relate.
JobShape(m) ==
    /\ DOMAIN job[m].vers = DOMAIN job[m].env
    /\ job[m].todo \subseteq DOMAIN job[m].env
    /\ pc[m] \in Committing => job[m].t \in Tids

TypeInv == TypeOK /\ \A m \in Managers : JobShape(m)

\* The inductive type invariant holds of a store that was never opened.
LEMMA TypeInit == Init => TypeInv
<1> SUFFICES ASSUME Init PROVE TypeInv
  OBVIOUS
<1>1. TypeOK
  BY StoreAssumptions, EmptyTypes, NoJobType
     DEF Init, TypeOK, Tids, NoCommit, NoIndex, NoManifest, Steps
<1>2. \A m \in Managers : JobShape(m)
  BY EmptyTypes DEF Init, JobShape, NoJob, Committing, Writes, Fences
<1> QED
  BY <1>1, <1>2 DEF TypeInv

\* A process that forgets its memory keeps the types.
LEMMA ForgetType ==
    ASSUME TypeInv, NEW m \in Managers, Forget(m)
    PROVE  /\ pc' \in [Managers -> Steps]
           /\ held' \in [Managers -> BOOLEAN]
           /\ heap' \in [Managers -> Heaps]
           /\ tid' \in [Managers -> 0..MaxTid]
           /\ vers' \in [Managers -> Versions]
           /\ job' \in [Managers -> Jobs]
           /\ \A n \in Managers : JobShape(n)'
<1>1. /\ pc' \in [Managers -> Steps]
      /\ held' \in [Managers -> BOOLEAN]
      /\ heap' \in [Managers -> Heaps]
      /\ tid' \in [Managers -> 0..MaxTid]
      /\ vers' \in [Managers -> Versions]
      /\ job' \in [Managers -> Jobs]
  BY StoreAssumptions, EmptyTypes, NoJobType DEF TypeInv, TypeOK, Forget, Goto, Steps
<1>2. ASSUME NEW n \in Managers
      PROVE  JobShape(n)'
  <2>1. CASE n = m
    <3>1. job'[n] = NoJob /\ pc'[n] = "down"
      BY <2>1 DEF TypeInv, TypeOK, Forget, Goto
    <3> QED
      BY <3>1, EmptyTypes DEF JobShape, NoJob, Committing, Writes, Fences
  <2>2. CASE n # m
    <3>1. job'[n] = job[n] /\ pc'[n] = pc[n]
      BY <2>2 DEF TypeInv, TypeOK, Forget, Goto
    <3> QED
      BY <3>1 DEF TypeInv, JobShape
  <2> QED
    BY <2>1, <2>2
<1> QED
  BY <1>1, <1>2

\* An error, with its rollback or its abandoned start, keeps the types.
LEMMA ThrowType ==
    ASSUME TypeInv, NEW m \in Managers, Throw(m)
    PROVE  TypeInv'
<1>1. CASE job[m].kind \in StartOps
  <2>1. Forget(m)
    BY <1>1 DEF Throw
  <2>2. lock' \in Managers \cup {NoOwner}
    BY <1>1 DEF Throw, TypeInv, TypeOK
  <2> QED
    BY <2>1, <2>2, ForgetType DEF Throw, TypeInv, TypeOK, diskVars
<1>2. CASE job[m].kind \notin StartOps
  <2>1. job[m] \in Jobs
    BY DEF TypeInv, TypeOK
  <2>2. job[m].undo \in Heaps
    BY <2>1 DEF Jobs
  <2>3. /\ pc' = [pc EXCEPT ![m] = Finished(m)]
        /\ job' = [job EXCEPT ![m] = NoJob]
        /\ heap' \in {heap, [heap EXCEPT ![m] = job[m].undo]}
        /\ UNCHANGED <<lock, held, tid, vers, diskVars, history>>
    BY <1>2 DEF Throw, Goto
  <2>4. Finished(m) \in {"release", "idle"}
    BY DEF Finished
  <2>5. TypeOK'
    BY <2>2, <2>3, <2>4, NoJobType DEF TypeInv, TypeOK, Steps, diskVars
  <2>6. ASSUME NEW n \in Managers
        PROVE  JobShape(n)'
    <3>1. CASE n = m
      <4>1. job'[n] = NoJob /\ pc'[n] \in {"release", "idle"}
        BY <3>1, <2>3, <2>4 DEF TypeInv, TypeOK
      <4> QED
        BY <4>1, EmptyTypes DEF JobShape, NoJob, Committing, Writes, Fences
    <3>2. CASE n # m
      <4>1. job'[n] = job[n] /\ pc'[n] = pc[n]
        BY <3>2, <2>3 DEF TypeInv, TypeOK
      <4> QED
        BY <4>1 DEF TypeInv, JobShape
    <3> QED
      BY <3>1, <3>2
  <2> QED
    BY <2>5, <2>6 DEF TypeInv
<1> QED
  BY <1>1, <1>2

\* A step of one operation that gives it a well-formed job keeps the types of pc
\* and job.
LEMMA JobStep ==
    ASSUME TypeInv, NEW m \in Managers, NEW j \in Jobs, NEW s \in Steps,
           job' = [job EXCEPT ![m] = j], pc' = [pc EXCEPT ![m] = s],
           DOMAIN j.vers = DOMAIN j.env, j.todo \subseteq DOMAIN j.env,
           s \in Committing => j.t \in Tids
    PROVE  /\ pc' \in [Managers -> Steps]
           /\ job' \in [Managers -> Jobs]
           /\ \A n \in Managers : JobShape(n)'
<1>1. pc' \in [Managers -> Steps] /\ job' \in [Managers -> Jobs]
  BY DEF TypeInv, TypeOK
<1>2. ASSUME NEW n \in Managers
      PROVE  JobShape(n)'
  <2>1. CASE n = m
    <3>1. job'[n] = j /\ pc'[n] = s
      BY <2>1 DEF TypeInv, TypeOK
    <3> QED
      BY <3>1 DEF JobShape
  <2>2. CASE n # m
    <3>1. job'[n] = job[n] /\ pc'[n] = pc[n]
      BY <2>2 DEF TypeInv, TypeOK
    <3> QED
      BY <3>1 DEF TypeInv, JobShape
  <2> QED
    BY <2>1, <2>2
<1> QED
  BY <1>1, <1>2

\* The case of a step that only moves the program counter.
LEMMA PcStep ==
    ASSUME TypeInv, NEW m \in Managers, NEW s \in Steps,
           pc' = [pc EXCEPT ![m] = s], UNCHANGED job,
           s \in Committing => job[m].t \in Tids
    PROVE  /\ pc' \in [Managers -> Steps]
           /\ job' \in [Managers -> Jobs]
           /\ \A n \in Managers : JobShape(n)'
<1>1. job[m] \in Jobs /\ job' = [job EXCEPT ![m] = job[m]]
  BY DEF TypeInv, TypeOK
<1>2. DOMAIN job[m].vers = DOMAIN job[m].env /\ job[m].todo \subseteq DOMAIN job[m].env
  BY DEF TypeInv, JobShape
<1> QED
  BY <1>1, <1>2, JobStep

\* The case of a step that ends the operation.
LEMMA EndStep ==
    ASSUME TypeInv, NEW m \in Managers, NEW s \in Steps \ Committing,
           pc' = [pc EXCEPT ![m] = s], job' = [job EXCEPT ![m] = NoJob]
    PROVE  /\ pc' \in [Managers -> Steps]
           /\ job' \in [Managers -> Jobs]
           /\ \A n \in Managers : JobShape(n)'
<1>1. DOMAIN NoJob.vers = DOMAIN NoJob.env /\ NoJob.todo \subseteq DOMAIN NoJob.env
  BY EmptyTypes DEF NoJob
<1> QED
  BY <1>1, NoJobType, JobStep

\* After an operation a manager is idle or releases its lock.
LEMMA FinishedType ==
    ASSUME NEW m
    PROVE  Finished(m) \in Steps \ Committing
BY DEF Finished, Steps, Committing, Writes, Fences

\* Acquisition is followed by a control point outside a commit.
LEMMA LockedType ==
    ASSUME NEW kind
    PROVE  Locked(kind) \in Steps \ Committing
BY DEF Locked, Steps, Committing, Writes, Fences

\* Acquire keeps the types.
LEMMA AcquireType ==
    ASSUME TypeInv, NEW m \in Managers, Acquire(m)
    PROVE  TypeInv'
<1> DEFINE s == Locked(job[m].kind)
<1>1. s \in Steps \ Committing /\ pc' = [pc EXCEPT ![m] = s] /\ UNCHANGED job
  BY LockedType DEF Acquire, Goto
<1> HIDE DEF s
<1>2. pc' \in [Managers -> Steps] /\ job' \in [Managers -> Jobs] /\ \A n \in Managers : JobShape(n)'
  BY <1>1, PcStep
<1> QED
  BY <1>2 DEF Acquire, TypeInv, TypeOK, diskVars

\* Release keeps the types.
LEMMA ReleaseType ==
    ASSUME TypeInv, NEW m \in Managers, Release(m)
    PROVE  TypeInv'
<1> DEFINE s == IF job[m].kind = "start" THEN "readManifest" ELSE "idle"
<1>1. s \in Steps \ Committing /\ pc' = [pc EXCEPT ![m] = s] /\ UNCHANGED job
  BY DEF Release, Goto, Steps, Committing, Writes, Fences
<1> HIDE DEF s
<1>2. pc' \in [Managers -> Steps] /\ job' \in [Managers -> Jobs] /\ \A n \in Managers : JobShape(n)'
  BY <1>1, PcStep
<1> QED
  BY <1>2 DEF Release, TypeInv, TypeOK, diskVars

\* AssertValid keeps the types.
LEMMA AssertValidType ==
    ASSUME TypeInv, NEW m \in Managers, AssertValid(m)
    PROVE  TypeInv'
<1> DEFINE s == AfterFence(m)
<1>1. s \in Steps /\ pc' = [pc EXCEPT ![m] = s] /\ UNCHANGED job
  BY DEF AssertValid, Goto, AfterFence, Steps, Writes, Fences
<1>2. job[m].t \in Tids
  BY DEF AssertValid, TypeInv, JobShape, Committing
<1> HIDE DEF s
<1>3. pc' \in [Managers -> Steps] /\ job' \in [Managers -> Jobs] /\ \A n \in Managers : JobShape(n)'
  BY <1>1, <1>2, PcStep
<1> QED
  BY <1>3 DEF AssertValid, TypeInv, TypeOK, diskVars, memVars

\* Start keeps the types.
LEMMA StartType ==
    ASSUME TypeInv, NEW m \in Managers, Start(m)
    PROVE  TypeInv'
<1> DEFINE s == IF options.wal \/ Strategy = "startup" THEN "acquire" ELSE "readManifest"
           j == [job[m] EXCEPT !.kind = "start"]
<1>1. s \in Steps \ Committing /\ pc' = [pc EXCEPT ![m] = s]
  BY DEF Start, Goto, Steps, Committing, Writes, Fences
<1>2. job[m] \in Jobs /\ JobShape(m)
  BY DEF TypeInv, TypeOK
<1>3. /\ j \in Jobs /\ job' = [job EXCEPT ![m] = j]
      /\ DOMAIN j.vers = DOMAIN j.env /\ j.todo \subseteq DOMAIN j.env
  BY <1>2 DEF Start, Jobs, JobShape, StartOps
<1> HIDE DEF s, j
<1>4. pc' \in [Managers -> Steps] /\ job' \in [Managers -> Jobs] /\ \A n \in Managers : JobShape(n)'
  BY <1>1, <1>3, JobStep
<1> QED
  BY <1>4 DEF Start, TypeInv, TypeOK, diskVars, memVars

\* ListWal keeps the types.
LEMMA ListWalType ==
    ASSUME TypeInv, NEW m \in Managers, ListWal(m)
    PROVE  TypeInv'
<1> DEFINE j == [job[m] EXCEPT !.wal = IF options.wal THEN markers ELSE {}]
<1>1. "recover" \in Steps \ Committing /\ pc' = [pc EXCEPT ![m] = "recover"]
  BY DEF ListWal, Goto, Steps, Committing, Writes, Fences
<1>2. job[m] \in Jobs /\ JobShape(m) /\ markers \subseteq Tids
  BY DEF TypeInv, TypeOK
<1>3. /\ j \in Jobs /\ job' = [job EXCEPT ![m] = j]
      /\ DOMAIN j.vers = DOMAIN j.env /\ j.todo \subseteq DOMAIN j.env
  BY <1>2 DEF ListWal, Jobs, JobShape
<1> HIDE DEF j
<1>4. pc' \in [Managers -> Steps] /\ job' \in [Managers -> Jobs] /\ \A n \in Managers : JobShape(n)'
  BY <1>1, <1>3, JobStep
<1> QED
  BY <1>4 DEF ListWal, TypeInv, TypeOK, diskVars, memVars

\* Recover keeps the types.
LEMMA RecoverType ==
    ASSUME TypeInv, NEW m \in Managers, Recover(m)
    PROVE  TypeInv'
<1>1. job[m] \in Jobs /\ JobShape(m)
  BY DEF TypeInv, TypeOK
<1>2. CASE job[m].wal \cap PendingWal = {} /\ pc'[m] # "objects"
  <2> DEFINE s == IF Strategy = "startup" THEN "readManifest" ELSE "release"
             j == [NoJob EXCEPT !.kind = "start"]
  <2>1. /\ s \in Steps \ Committing
        /\ pc' = [pc EXCEPT ![m] = s] /\ job' = [job EXCEPT ![m] = j]
    BY <1>2 DEF Recover, Goto, Steps, Committing, Writes, Fences
  <2>2. /\ j \in Jobs
        /\ DOMAIN j.vers = DOMAIN j.env /\ j.todo \subseteq DOMAIN j.env
    BY NoJobType, EmptyTypes DEF Jobs, NoJob, StartOps
  <2> HIDE DEF s, j
  <2>3. pc' \in [Managers -> Steps] /\ job' \in [Managers -> Jobs] /\ \A n \in Managers : JobShape(n)'
    BY <2>1, <2>2, JobStep
  <2> QED
    BY <2>3 DEF Recover, TypeInv, TypeOK, diskVars, memVars
<1>3. ASSUME NEW t \in job[m].wal \cap PendingWal,
             job' = [job EXCEPT ![m].kind = "recover", ![m].wal = {u \in @ : t < u},
                                ![m].t = t, ![m].env = prepares[t],
                                ![m].vers = AllAt(prepares[t], t),
                                ![m].todo = DOMAIN prepares[t]],
             Goto(m, "objects")
      PROVE  TypeInv'
  <2> DEFINE j == [job[m] EXCEPT !.kind = "recover", !.wal = {u \in @ : t < u},
                                 !.t = t, !.env = prepares[t],
                                 !.vers = AllAt(prepares[t], t), !.todo = DOMAIN prepares[t]]
  <2>1. t \in Tids /\ prepares[t] \in Envelopes /\ t \in 0..MaxTid
    BY <1>1 DEF Jobs, TypeInv, TypeOK, Tids
  <2>2. /\ AllAt(prepares[t], t) \in Versions
        /\ DOMAIN AllAt(prepares[t], t) = DOMAIN prepares[t]
        /\ DOMAIN prepares[t] \in SUBSET Objects
    BY <2>1, AllAtType, EnvelopeElim
  <2>3. /\ j \in Jobs
        /\ DOMAIN j.vers = DOMAIN j.env /\ j.todo \subseteq DOMAIN j.env /\ j.t \in Tids
    BY <1>1, <2>1, <2>2 DEF Jobs, StartOps
  <2>4. /\ job' = [job EXCEPT ![m] = j]
        /\ "objects" \in Steps /\ pc' = [pc EXCEPT ![m] = "objects"]
    BY <1>1, <1>3 DEF TypeInv, TypeOK, Goto, Steps, Writes, Jobs
  <2> HIDE DEF j
  <2>5. pc' \in [Managers -> Steps] /\ job' \in [Managers -> Jobs] /\ \A n \in Managers : JobShape(n)'
    BY <2>3, <2>4, JobStep
  <2> QED
    BY <2>5 DEF Recover, TypeInv, TypeOK, diskVars, memVars
<1> QED
  BY <1>2, <1>3 DEF Recover, Goto, TypeInv, TypeOK

\* ReadManifest keeps the types.
LEMMA ReadManifestType ==
    ASSUME TypeInv, NEW m \in Managers, ReadManifest(m)
    PROVE  TypeInv'
<1>1. PICK man \in {manifest, NoManifest} : job' = [job EXCEPT ![m].man = man]
  BY DEF ReadManifest
<1> DEFINE j == [job[m] EXCEPT !.man = man]
<1>2. man \in [tid : 0..MaxTid, vers : Versions]
  BY <1>1, StoreAssumptions, EmptyTypes DEF TypeInv, TypeOK, NoManifest
<1>3. job[m] \in Jobs /\ JobShape(m)
  BY DEF TypeInv, TypeOK
<1>4. "readWal" \in Steps \ Committing /\ pc' = [pc EXCEPT ![m] = "readWal"]
  BY DEF ReadManifest, Goto, Steps, Committing, Writes, Fences
<1>5. /\ j \in Jobs /\ job' = [job EXCEPT ![m] = j]
      /\ DOMAIN j.vers = DOMAIN j.env /\ j.todo \subseteq DOMAIN j.env
  BY <1>1, <1>2, <1>3 DEF Jobs, JobShape
<1> HIDE DEF j
<1>6. pc' \in [Managers -> Steps] /\ job' \in [Managers -> Jobs] /\ \A n \in Managers : JobShape(n)'
  BY <1>4, <1>5, JobStep
<1> QED
  BY <1>6 DEF ReadManifest, TypeInv, TypeOK, diskVars, memVars

\* Whatever was loaded, taking it over keeps the types.
LEMMA LoadType ==
    ASSUME TypeInv, NEW m \in Managers,
           NEW env \in Envelopes, NEW t \in 0..MaxTid, NEW versions \in Versions, NEW source,
           DOMAIN versions = DOMAIN env, source = "snapshot" => t \in Tids,
           Adopt(m, env, t, versions, source)
    PROVE  TypeInv'
<1>1. job[m] \in Jobs /\ JobShape(m)
  BY DEF TypeInv, TypeOK
<1>2. Deserialize(env) \in Heaps /\ DOMAIN env \in SUBSET Objects
  BY DeserializeType, EnvelopeElim
<1>3. /\ heap' \in [Managers -> Heaps]
      /\ tid' \in [Managers -> 0..MaxTid]
      /\ vers' \in [Managers -> Versions]
  BY <1>2 DEF Adopt, TypeInv, TypeOK
<1>4. pc' \in [Managers -> Steps] /\ job' \in [Managers -> Jobs] /\ \A n \in Managers : JobShape(n)'
  <2>1. CASE job[m].kind = "start" /\ source = "snapshot"
    <3> DEFINE j == [job[m] EXCEPT !.kind = "repair", !.t = t, !.env = env,
                                   !.vers = versions, !.todo = DOMAIN env]
    <3>1. /\ j \in Jobs
          /\ DOMAIN j.vers = DOMAIN j.env /\ j.todo \subseteq DOMAIN j.env /\ j.t \in Tids
      BY <1>1, <1>2, <2>1 DEF Jobs, StartOps
    <3>2. /\ job' = [job EXCEPT ![m] = j]
          /\ "objects" \in Steps /\ pc' = [pc EXCEPT ![m] = "objects"]
      BY <1>1, <2>1 DEF Adopt, TypeInv, TypeOK, Goto, Steps, Writes, Jobs
    <3> HIDE DEF j
    <3> QED
      BY <3>1, <3>2, JobStep
  <2>2. CASE job[m].kind = "start" /\ source # "snapshot"
    <3>1. "idle" \in Steps \ Committing
      BY DEF Steps, Committing, Writes, Fences
    <3> QED
      BY <2>2, <3>1, EndStep DEF Adopt, Goto
  <2>3. CASE job[m].kind # "start"
    <3> DEFINE j == [job[m] EXCEPT !.undo = Deserialize(env), !.man = NoManifest]
    <3>1. NoManifest \in [tid : 0..MaxTid, vers : Versions]
      BY StoreAssumptions, EmptyTypes DEF NoManifest
    <3>2. /\ j \in Jobs
          /\ DOMAIN j.vers = DOMAIN j.env /\ j.todo \subseteq DOMAIN j.env
      BY <1>1, <1>2, <3>1 DEF Jobs, JobShape
    <3>3. /\ job' = [job EXCEPT ![m] = j]
          /\ "work" \in Steps \ Committing /\ pc' = [pc EXCEPT ![m] = "work"]
      BY <1>1, <2>3 DEF Adopt, TypeInv, TypeOK, Goto, Steps, Committing, Writes, Fences, Jobs
    <3> HIDE DEF j
    <3> QED
      BY <3>2, <3>3, JobStep
  <2> QED
    BY <2>1, <2>2, <2>3
<1> QED
  BY <1>3, <1>4 DEF Adopt, TypeInv, TypeOK, diskVars

\* ReadWal keeps the types.
LEMMA ReadWalType ==
    ASSUME TypeInv, NEW m \in Managers, ReadWal(m)
    PROVE  TypeInv'
<1>1. job[m] \in Jobs /\ job[m].man.tid \in 0..MaxTid
  BY DEF TypeInv, TypeOK, Jobs
<1>2. PICK last \in {0} \cup CommittedWal :
          IF last > job[m].man.tid
          THEN Load(m, prepares[last], last, AllAt(prepares[last], last), "wal")
          ELSE /\ Goto(m, "readObjects")
               /\ UNCHANGED <<diskVars, lock, memVars, job, history>>
  BY DEF ReadWal
<1>3. CASE last > job[m].man.tid
  <2>1. last \in Tids /\ prepares[last] \in Envelopes /\ last \in 0..MaxTid
    BY <1>1, <1>2, <1>3, StoreAssumptions DEF CommittedWal, TypeInv, TypeOK, Tids
  <2>2. /\ AllAt(prepares[last], last) \in Versions
        /\ DOMAIN AllAt(prepares[last], last) = DOMAIN prepares[last]
    BY <2>1, AllAtType
  <2> QED
    BY <1>2, <1>3, <2>1, <2>2, LoadType, ThrowType DEF Load
<1>4. CASE ~(last > job[m].man.tid)
  <2>1. "readObjects" \in Steps \ Committing
    BY DEF Steps, Committing, Writes, Fences
  <2>2. pc' \in [Managers -> Steps] /\ job' \in [Managers -> Jobs] /\ \A n \in Managers : JobShape(n)'
    BY <1>2, <1>4, <2>1, PcStep DEF Goto
  <2> QED
    BY <1>2, <1>4, <2>2 DEF TypeInv, TypeOK, diskVars, memVars
<1> QED
  BY <1>3, <1>4

\* A readable manifest denotes an envelope with the manifest's objects.
LEMMA EnvelopeFromManifestType ==
    ASSUME TypeInv, NEW man \in [tid : 0..MaxTid, vers : Versions], Readable(man)
    PROVE  /\ EnvelopeFromManifest(man) \in Envelopes
           /\ DOMAIN EnvelopeFromManifest(man) = DOMAIN man.vers
<1>1. DOMAIN man.vers \in SUBSET Objects /\ \A o \in DOMAIN man.vers : man.vers[o] \in Tids
  BY VersionsElim
<1>2. \A o \in DOMAIN man.vers : records[o][man.vers[o]][1] \in Contents
  BY <1>1 DEF Readable, TypeInv, TypeOK
<1>3. EnvelopeFromManifest(man) \in [DOMAIN man.vers -> Contents]
  BY <1>2 DEF EnvelopeFromManifest
<1> QED
  BY <1>1, <1>3, EnvelopeIntro

\* ReadObjects keeps the types.
LEMMA ReadObjectsType ==
    ASSUME TypeInv, NEW m \in Managers, ReadObjects(m)
    PROVE  TypeInv'
<1> DEFINE man == job[m].man
<1>1. man \in [tid : 0..MaxTid, vers : Versions]
  BY DEF TypeInv, TypeOK, Jobs
<1> HIDE DEF man
<1>2. CASE Readable(man) /\ Load(m, EnvelopeFromManifest(man), man.tid, man.vers, "manifest")
  BY <1>1, <1>2, EnvelopeFromManifestType, LoadType, ThrowType DEF Load
<1>3. CASE /\ current > 0
           /\ Load(m, snapshots[current], current, AllAt(snapshots[current], current), "snapshot")
  <2>1. current \in Tids /\ snapshots[current] \in Envelopes /\ current \in 0..MaxTid
    BY <1>3, StoreAssumptions DEF TypeInv, TypeOK, Tids
  <2>2. /\ AllAt(snapshots[current], current) \in Versions
        /\ DOMAIN AllAt(snapshots[current], current) = DOMAIN snapshots[current]
    BY <2>1, AllAtType
  <2> QED
    BY <1>3, <2>1, <2>2, LoadType, ThrowType DEF Load
<1>4. CASE Adopt(m, NoEnvelope, 0, NoVersions, "empty")
  <2>1. 0 \in 0..MaxTid
    BY StoreAssumptions
  <2> QED
    BY <1>4, <2>1, EmptyTypes, LoadType
<1> QED
  BY <1>2, <1>3, <1>4 DEF ReadObjects, man

\* Edit keeps the types.
LEMMA EditType ==
    ASSUME TypeInv, NEW m \in Managers, Edit(m)
    PROVE  TypeInv'
<1>1. PICK o \in Objects, c \in Contents : heap' = [heap EXCEPT ![m][o] = c]
  BY StoreAssumptions DEF Edit, Closure
<1>2. heap' \in [Managers -> Heaps]
  BY <1>1 DEF TypeInv, TypeOK, Heaps
<1>3. \A n \in Managers : JobShape(n)'
  BY DEF Edit, TypeInv, JobShape
<1> QED
  BY <1>2, <1>3 DEF Edit, TypeInv, TypeOK, diskVars

\* Every operation begins with a job that keeps what the last commit left in it.
LEMMA BeginType ==
    ASSUME TypeInv, NEW m \in Managers, NEW j \in Jobs,
           j.vers = job[m].vers, j.env = job[m].env, j.todo = job[m].todo,
           job' = [job EXCEPT ![m] = j],
           NEW s \in Steps \ Committing, pc' = [pc EXCEPT ![m] = s],
           UNCHANGED <<diskVars, lock, memVars, history>>
    PROVE  TypeInv'
<1>1. DOMAIN j.vers = DOMAIN j.env /\ j.todo \subseteq DOMAIN j.env
  BY DEF TypeInv, JobShape
<1>2. pc' \in [Managers -> Steps] /\ job' \in [Managers -> Jobs] /\ \A n \in Managers : JobShape(n)'
  BY <1>1, JobStep
<1> QED
  BY <1>2 DEF TypeInv, TypeOK, diskVars, memVars

\* WithWriteLock keeps the types.
LEMMA WithWriteLockType ==
    ASSUME NEW m \in Managers, NEW kind, WithWriteLock(m, kind)
    PROVE  \E s \in Steps \ Committing : pc' = [pc EXCEPT ![m] = s]
<1>1. "acquire" \in Steps \ Committing
  BY DEF Steps, Committing, Writes, Fences
<1> QED
  BY <1>1, LockedType DEF WithWriteLock, Goto

\* BeginStore keeps the types.
LEMMA BeginStoreType ==
    ASSUME TypeInv, NEW m \in Managers, BeginStore(m)
    PROVE  TypeInv'
<1>1. job[m] \in Jobs
  BY DEF TypeInv, TypeOK
<1>2. PICK kind \in DirectOps, targets \in TargetLists \cup {<<>>} :
          /\ job' = [job EXCEPT ![m].kind = kind, ![m].targets = targets]
          /\ WithWriteLock(m, kind)
  BY DEF BeginStore, DirectOps
<1> DEFINE j == [job[m] EXCEPT !.kind = kind, !.targets = targets]
<1>3. /\ j \in Jobs /\ job' = [job EXCEPT ![m] = j]
      /\ j.vers = job[m].vers /\ j.env = job[m].env /\ j.todo = job[m].todo
  BY <1>1, <1>2 DEF Jobs, TypeInv, TypeOK
<1>4. PICK s \in Steps \ Committing : pc' = [pc EXCEPT ![m] = s]
  BY <1>2, WithWriteLockType
<1> HIDE DEF j
<1> QED
  BY <1>3, <1>4, BeginType DEF BeginStore

\* BeginUpdate keeps the types.
LEMMA BeginUpdateType ==
    ASSUME TypeInv, NEW m \in Managers, BeginUpdate(m)
    PROVE  TypeInv'
<1> DEFINE undo == Deserialize(Serialize(heap[m]))
<1>1. job[m] \in Jobs /\ heap[m] \in Heaps
  BY DEF TypeInv, TypeOK
<1>2. undo \in Heaps
  BY <1>1, SerializeType, DeserializeType
<1>3. job' = [job EXCEPT ![m].kind = "update", ![m].undo = undo]
  BY DEF BeginUpdate
<1> HIDE DEF undo
<1> DEFINE j == [job[m] EXCEPT !.kind = "update", !.undo = undo]
<1>4. /\ j \in Jobs /\ job' = [job EXCEPT ![m] = j]
      /\ j.vers = job[m].vers /\ j.env = job[m].env /\ j.todo = job[m].todo
  BY <1>1, <1>2, <1>3 DEF Jobs, DirectOps, TypeInv, TypeOK
<1>5. "work" \in Steps \ Committing /\ pc' = [pc EXCEPT ![m] = "work"]
  BY DEF BeginUpdate, Goto, Steps, Committing, Writes, Fences
<1> HIDE DEF j
<1> QED
  BY <1>4, <1>5, BeginType DEF BeginUpdate

\* BeginTransaction keeps the types.
LEMMA BeginTransactionType ==
    ASSUME TypeInv, NEW m \in Managers, BeginTransaction(m)
    PROVE  TypeInv'
<1>1. job[m] \in Jobs /\ heap[m] \in Heaps
  BY DEF TypeInv, TypeOK
<1>2. PICK kind \in TransactionOps :
          /\ job' = [job EXCEPT ![m].kind = kind, ![m].undo = heap[m]]
          /\ IF kind = "pessimistic" THEN WithWriteLock(m, kind) ELSE Goto(m, "readManifest")
  BY DEF BeginTransaction
<1> DEFINE j == [job[m] EXCEPT !.kind = kind, !.undo = heap[m]]
<1>3. /\ j \in Jobs /\ job' = [job EXCEPT ![m] = j]
      /\ j.vers = job[m].vers /\ j.env = job[m].env /\ j.todo = job[m].todo
  BY <1>1, <1>2 DEF Jobs, TypeInv, TypeOK
<1>4. "readManifest" \in Steps \ Committing
  BY DEF Steps, Committing, Writes, Fences
<1>5. PICK s \in Steps \ Committing : pc' = [pc EXCEPT ![m] = s]
  BY <1>2, <1>4, WithWriteLockType DEF Goto
<1> HIDE DEF j
<1> QED
  BY <1>3, <1>5, BeginType DEF BeginTransaction

\* EndWork keeps the types.
LEMMA EndWorkType ==
    ASSUME TypeInv, NEW m \in Managers, EndWork(m)
    PROVE  TypeInv'
<1>1. "serialize" \in Steps \ Committing
  BY DEF Steps, Committing, Writes, Fences
<1>2. PICK s \in Steps \ Committing : pc' = [pc EXCEPT ![m] = s]
  BY <1>1, WithWriteLockType DEF EndWork, Goto
<1>3. pc' \in [Managers -> Steps] /\ job' \in [Managers -> Jobs] /\ \A n \in Managers : JobShape(n)'
  BY <1>2, PcStep DEF EndWork
<1> QED
  BY <1>3 DEF EndWork, TypeInv, TypeOK, diskVars, memVars

\* CheckConflict keeps the types.
LEMMA CheckConflictType ==
    ASSUME TypeInv, NEW m \in Managers, CheckConflict(m)
    PROVE  TypeInv'
<1>1. CASE CurrentTransactionId = tid[m]
  <2>1. "serialize" \in Steps \ Committing
    BY DEF Steps, Committing, Writes, Fences
  <2>2. pc' \in [Managers -> Steps] /\ job' \in [Managers -> Jobs] /\ \A n \in Managers : JobShape(n)'
    BY <1>1, <2>1, PcStep DEF CheckConflict, Goto
  <2> QED
    BY <1>1, <2>2 DEF CheckConflict, TypeInv, TypeOK, diskVars, memVars
<1>2. CASE CurrentTransactionId # tid[m]
  BY <1>2, ThrowType DEF CheckConflict
<1> QED
  BY <1>1, <1>2

\* The versions of a commit cover its envelope, with ids that have been given out.
LEMMA NextObjectVersionsType ==
    ASSUME TypeInv, NEW m \in Managers, NEW nodes \in SUBSET Objects, NEW written,
           NextTransactionId(m) <= MaxTid
    PROVE  /\ NextTransactionId(m) \in Tids
           /\ NextObjectVersions(m, nodes, written) \in Versions
           /\ DOMAIN NextObjectVersions(m, nodes, written) = nodes
<1> DEFINE next == NextObjectVersions(m, nodes, written)
<1>1. tid[m] \in 0..MaxTid /\ vers[m] \in Versions
  BY DEF TypeInv, TypeOK
<1>2. NextTransactionId(m) \in Tids
  BY <1>1, StoreAssumptions DEF NextTransactionId, Tids
<1>3. \A o \in DOMAIN vers[m] : vers[m][o] \in Tids
  BY <1>1, VersionsElim
<1>4. next = [o \in nodes |-> IF o \in written \/ o \notin DOMAIN vers[m]
                              THEN NextTransactionId(m) ELSE vers[m][o]]
  BY DEF NextObjectVersions
<1> HIDE DEF next
<1>5. next \in [nodes -> Tids]
  BY <1>2, <1>3, <1>4
<1> QED
  BY <1>2, <1>4, <1>5, VersionsIntro DEF next

\* The ids that a commit writes are ids of its envelope.
LEMMA WrittenType ==
    ASSUME NEW m \in Managers, NEW h \in Heaps, NEW targets \in TargetLists \cup {<<>>}
    PROVE  LET nodes == DOMAIN Serialize(h)
               requested == IF job[m].kind = "storeAll"
                            THEN CollectObjectIds(h, targets, DOMAIN vers[m]) ELSE nodes
           IN ObjectIdsToWrite(m, nodes, requested) \subseteq nodes
<1> DEFINE nodes == DOMAIN Serialize(h)
<1>1. nodes = Closure(h, {Root})
  BY DEF Serialize
<1>2. Root \in nodes
  BY <1>1, StoreAssumptions DEF Closure
<1>3. CollectObjectIds(h, targets, DOMAIN vers[m]) \subseteq nodes
  BY <1>1, <1>2 DEF CollectObjectIds
<1> QED
  BY <1>3 DEF ObjectIdsToWrite

\* CommitEnvelope keeps the types.
LEMMA CommitEnvelopeType ==
    ASSUME TypeInv, NEW m \in Managers, CommitEnvelope(m)
    PROVE  TypeInv'
<1> DEFINE env == Serialize(heap[m])
           nodes == DOMAIN env
           requested == IF job[m].kind = "storeAll"
                        THEN CollectObjectIds(heap[m], job[m].targets, DOMAIN vers[m])
                        ELSE nodes
           written == ObjectIdsToWrite(m, nodes, requested)
           t == NextTransactionId(m)
           next == NextObjectVersions(m, nodes, written)
           s == IF options.wal THEN "prepare" ELSE "objects"
           j == [job[m] EXCEPT !.t = t, !.env = env, !.todo = written, !.vers = next]
<1>1. job[m] \in Jobs /\ heap[m] \in Heaps /\ job[m].targets \in TargetLists \cup {<<>>}
  BY DEF TypeInv, TypeOK, Jobs
<1>2. env \in Envelopes /\ nodes \in SUBSET Objects
  BY <1>1, SerializeType, EnvelopeElim
<1>3. written \subseteq nodes
  BY <1>1, WrittenType
<1>4. NextTransactionId(m) <= MaxTid
  BY DEF CommitEnvelope
<1>5. t \in Tids /\ next \in Versions /\ DOMAIN next = nodes
  BY <1>2, <1>4, NextObjectVersionsType
<1>6. job' = [job EXCEPT ![m].t = t, ![m].env = env, ![m].todo = written, ![m].vers = next]
  BY DEF CommitEnvelope
<1>7. s \in Steps /\ pc' = [pc EXCEPT ![m] = s]
  BY DEF CommitEnvelope, Goto, Steps, Writes
<1> HIDE DEF env, written, t, next, s
<1>8. /\ j \in Jobs /\ job' = [job EXCEPT ![m] = j]
      /\ DOMAIN j.vers = DOMAIN j.env /\ j.todo \subseteq DOMAIN j.env /\ j.t \in Tids
  <2>1. t \in 0..MaxTid
    BY <1>5, StoreAssumptions DEF Tids
  <2>2. written \in SUBSET Objects
    BY <1>2, <1>3
  <2>3. j \in Jobs
    BY <1>1, <1>2, <1>5, <2>1, <2>2 DEF Jobs
  <2>4. job' = [job EXCEPT ![m] = j]
    BY <1>1, <1>6 DEF Jobs, TypeInv, TypeOK
  <2>5. j.t = t /\ j.env = env /\ j.todo = written /\ j.vers = next
    BY <1>1 DEF Jobs
  <2> QED
    BY <1>3, <1>5, <2>3, <2>4, <2>5
<1> HIDE DEF j
<1>9. pc' \in [Managers -> Steps] /\ job' \in [Managers -> Jobs] /\ \A n \in Managers : JobShape(n)'
  BY <1>7, <1>8, JobStep
<1> QED
  BY <1>9 DEF CommitEnvelope, TypeInv, TypeOK, diskVars, memVars

\* What a committing manager holds.
LEMMA CommittingJob ==
    ASSUME TypeInv, NEW m \in Managers, pc[m] \in Committing
    PROVE  /\ job[m] \in Jobs
           /\ job[m].t \in Tids /\ job[m].t \in 0..MaxTid
           /\ job[m].env \in Envelopes /\ job[m].vers \in Versions
           /\ DOMAIN job[m].env \in SUBSET Objects
           /\ \A o \in DOMAIN job[m].env : job[m].env[o] \in Contents
           /\ DOMAIN job[m].vers = DOMAIN job[m].env
           /\ \A o \in DOMAIN job[m].vers : job[m].vers[o] \in Tids
           /\ job[m].todo \subseteq DOMAIN job[m].env
<1>1. job[m] \in Jobs /\ JobShape(m)
  BY DEF TypeInv, TypeOK
<1>2. /\ job[m].env \in Envelopes /\ job[m].vers \in Versions /\ job[m].t \in 0..MaxTid
      /\ job[m].t \in Tids
  BY <1>1 DEF Jobs, JobShape
<1> QED
  BY <1>1, <1>2, EnvelopeElim, VersionsElim DEF JobShape

\* The observer keeps its type.
LEMMA HistoryType ==
    ASSUME TypeInv, NEW m \in Managers, pc[m] \in Committing, RecordHistory(m)
    PROVE  history' \in [Tids -> [graph : Envelopes, stored : Envelopes]]
<1> DEFINE older(o) == records[o][job[m].vers[o]]
           stored == [o \in DOMAIN job[m].env |->
               IF job[m].kind # "storeAll" \/ job[m].vers[o] = job[m].t \/ older(o) = <<>>
               THEN job[m].env[o] ELSE older(o)[1]]
<1>1. history' \in {history, [history EXCEPT ![job[m].t] =
                                  [graph |-> job[m].env, stored |-> stored]]}
  BY DEF RecordHistory
<1>2. \A o \in DOMAIN job[m].env : older(o) # <<>> => older(o)[1] \in Contents
  BY CommittingJob DEF TypeInv, TypeOK
<1>3. stored \in [DOMAIN job[m].env -> Contents]
  BY <1>2, CommittingJob
<1> HIDE DEF stored
<1>4. stored \in Envelopes
  BY <1>3, CommittingJob, EnvelopeIntro
<1>5. [graph |-> job[m].env, stored |-> stored] \in [graph : Envelopes, stored : Envelopes]
  BY <1>4, CommittingJob
<1> QED
  BY <1>1, <1>5 DEF TypeInv, TypeOK

\* WriteWalPrepare keeps the types.
LEMMA WriteWalPrepareType ==
    ASSUME TypeInv, NEW m \in Managers, WriteWalPrepare(m)
    PROVE  TypeInv'
<1>1. pc[m] \in Committing
  BY DEF WriteWalPrepare, Committing, Writes, Fences
<1>2. PICK s \in Steps : pc' = [pc EXCEPT ![m] = s]
  BY DEF WriteWalPrepare, Goto, Steps, Writes, Fences
<1>3. pc' \in [Managers -> Steps] /\ job' \in [Managers -> Jobs] /\ \A n \in Managers : JobShape(n)'
  BY <1>1, <1>2, CommittingJob, PcStep DEF WriteWalPrepare
<1> QED
  BY <1>1, <1>3, CommittingJob DEF WriteWalPrepare, TypeInv, TypeOK, memVars

\* WriteObjectRecords keeps the types.
LEMMA WriteObjectRecordsType ==
    ASSUME TypeInv, NEW m \in Managers, WriteObjectRecords(m)
    PROVE  TypeInv'
<1>1. pc[m] \in Committing
  BY DEF WriteObjectRecords, Committing, Writes
<1>2. PICK o \in job[m].todo :
          /\ records' = [records EXCEPT ![o][job[m].t] = <<job[m].env[o]>>]
          /\ job' = [job EXCEPT ![m].todo = @ \ {o}]
          /\ Goto(m, IF LastRecord(m, o) THEN AfterObjects(m) ELSE "objects")
  BY DEF WriteObjectRecords
<1>3. o \in Objects /\ job[m].env[o] \in Contents
  BY <1>1, CommittingJob
<1>4. records' \in [Objects -> [Tids -> {<<>>} \cup {<<c>> : c \in Contents}]]
  BY <1>2, <1>3 DEF TypeInv, TypeOK
<1> DEFINE j == [job[m] EXCEPT !.todo = @ \ {o}]
           s == IF LastRecord(m, o) THEN AfterObjects(m) ELSE "objects"
<1>5. s \in Steps /\ pc' = [pc EXCEPT ![m] = s]
  BY <1>2 DEF Goto, AfterObjects, Steps, Writes, Fences
<1>6. job[m] \in Jobs /\ JobShape(m)
  BY DEF TypeInv, TypeOK
<1>7. j \in Jobs /\ job' = [job EXCEPT ![m] = j]
  BY <1>2, <1>6 DEF Jobs, TypeInv, TypeOK
<1>8. DOMAIN j.vers = DOMAIN j.env /\ j.todo \subseteq DOMAIN j.env /\ j.t \in Tids
  BY <1>1, <1>6, CommittingJob DEF Jobs, JobShape
<1> HIDE DEF j, s
<1>9. pc' \in [Managers -> Steps] /\ job' \in [Managers -> Jobs] /\ \A n \in Managers : JobShape(n)'
  BY <1>5, <1>7, <1>8, JobStep
<1> QED
  BY <1>4, <1>9 DEF WriteObjectRecords, TypeInv, TypeOK, memVars

\* WriteSnapshot keeps the types.
LEMMA WriteSnapshotType ==
    ASSUME TypeInv, NEW m \in Managers, WriteSnapshot(m)
    PROVE  TypeInv'
<1>1. pc[m] \in Committing
  BY DEF WriteSnapshot, Committing, Writes, Fences
<1>2. PICK s \in Steps : pc' = [pc EXCEPT ![m] = s]
  BY DEF WriteSnapshot, Goto, Steps, Writes, Fences
<1>3. pc' \in [Managers -> Steps] /\ job' \in [Managers -> Jobs] /\ \A n \in Managers : JobShape(n)'
  BY <1>1, <1>2, CommittingJob, PcStep DEF WriteSnapshot
<1> QED
  BY <1>1, <1>3, CommittingJob DEF WriteSnapshot, TypeInv, TypeOK, memVars

\* WriteWalCommit keeps the types.
LEMMA WriteWalCommitType ==
    ASSUME TypeInv, NEW m \in Managers, WriteWalCommit(m)
    PROVE  TypeInv'
<1>1. pc[m] \in Committing
  BY DEF WriteWalCommit, Committing, Writes, Fences
<1>2. PICK s \in Steps : pc' = [pc EXCEPT ![m] = s]
  BY DEF WriteWalCommit, Goto, Steps, Writes, Fences
<1>3. pc' \in [Managers -> Steps] /\ job' \in [Managers -> Jobs] /\ \A n \in Managers : JobShape(n)'
  BY <1>1, <1>2, CommittingJob, PcStep DEF WriteWalCommit
<1>4. history' \in [Tids -> [graph : Envelopes, stored : Envelopes]]
  BY <1>1, HistoryType DEF WriteWalCommit
<1> QED
  BY <1>1, <1>3, <1>4, CommittingJob DEF WriteWalCommit, TypeInv, TypeOK, memVars

\* WriteTransactionRecord keeps the types.
LEMMA WriteTransactionRecordType ==
    ASSUME TypeInv, NEW m \in Managers, WriteTransactionRecord(m)
    PROVE  TypeInv'
<1>1. pc[m] \in Committing
  BY DEF WriteTransactionRecord, Committing, Writes, Fences
<1>2. PICK s \in Steps : pc' = [pc EXCEPT ![m] = s]
  BY DEF WriteTransactionRecord, Goto, Steps, Writes, Fences
<1>3. pc' \in [Managers -> Steps] /\ job' \in [Managers -> Jobs] /\ \A n \in Managers : JobShape(n)'
  BY <1>1, <1>2, CommittingJob, PcStep DEF WriteTransactionRecord
<1> QED
  BY <1>1, <1>3, CommittingJob DEF WriteTransactionRecord, TypeInv, TypeOK, memVars

\* WritePersistentIndex keeps the types.
LEMMA WritePersistentIndexType ==
    ASSUME TypeInv, NEW m \in Managers, WritePersistentIndex(m)
    PROVE  TypeInv'
<1>1. pc[m] \in Committing
  BY DEF WritePersistentIndex, Committing, Writes
<1>2. index' \in [tid : 0..MaxTid, env : Envelopes]
  BY <1>1, CommittingJob DEF WritePersistentIndex, IndexRecord
<1>3. pc' \in [Managers -> Steps] /\ job' \in [Managers -> Jobs] /\ \A n \in Managers : JobShape(n)'
  <2>1. CASE job[m].kind = "repair"
    <3>1. "idle" \in Steps \ Committing
      BY DEF Steps, Committing, Writes, Fences
    <3> QED
      BY <2>1, <3>1, EndStep DEF WritePersistentIndex, Goto
  <2>2. CASE job[m].kind # "repair"
    <3> DEFINE s == IF options.snapshots THEN "fenceCurrent" ELSE "manifest"
    <3>1. s \in Steps /\ pc' = [pc EXCEPT ![m] = s] /\ UNCHANGED job
      BY <2>2 DEF WritePersistentIndex, Goto, Steps, Writes, Fences
    <3> HIDE DEF s
    <3> QED
      BY <1>1, <3>1, CommittingJob, PcStep
  <2> QED
    BY <2>1, <2>2
<1> QED
  BY <1>2, <1>3 DEF WritePersistentIndex, TypeInv, TypeOK, memVars

\* WriteCurrent keeps the types.
LEMMA WriteCurrentType ==
    ASSUME TypeInv, NEW m \in Managers, WriteCurrent(m)
    PROVE  TypeInv'
<1>1. pc[m] \in Committing
  BY DEF WriteCurrent, Committing, Writes, Fences
<1>2. PICK s \in Steps : pc' = [pc EXCEPT ![m] = s]
  BY DEF WriteCurrent, Goto, Steps, Writes, Fences
<1>3. pc' \in [Managers -> Steps] /\ job' \in [Managers -> Jobs] /\ \A n \in Managers : JobShape(n)'
  BY <1>1, <1>2, CommittingJob, PcStep DEF WriteCurrent
<1>4. history' \in [Tids -> [graph : Envelopes, stored : Envelopes]]
  BY <1>1, HistoryType DEF WriteCurrent
<1> QED
  BY <1>1, <1>3, <1>4, CommittingJob DEF WriteCurrent, TypeInv, TypeOK, memVars

\* WriteManifest keeps the types.
LEMMA WriteManifestType ==
    ASSUME TypeInv, NEW m \in Managers, WriteManifest(m)
    PROVE  TypeInv'
<1>1. pc[m] \in Committing
  BY DEF WriteManifest, Committing, Writes, Fences
<1>2. PICK s \in Steps : pc' = [pc EXCEPT ![m] = s]
  BY DEF WriteManifest, Goto, Steps, Writes, Fences
<1>3. pc' \in [Managers -> Steps] /\ job' \in [Managers -> Jobs] /\ \A n \in Managers : JobShape(n)'
  BY <1>1, <1>2, CommittingJob, PcStep DEF WriteManifest
<1>4. history' \in [Tids -> [graph : Envelopes, stored : Envelopes]]
  BY <1>1, HistoryType DEF WriteManifest
<1> QED
  BY <1>1, <1>3, <1>4, CommittingJob DEF WriteManifest, TypeInv, TypeOK, memVars

\* CommitState keeps the types.
LEMMA CommitStateType ==
    ASSUME TypeInv, NEW m \in Managers, CommitState(m)
    PROVE  TypeInv'
<1>1. pc[m] \in Committing
  BY DEF CommitState, Committing
<1>2. tid' \in [Managers -> 0..MaxTid] /\ vers' \in [Managers -> Versions]
  BY <1>1, CommittingJob DEF CommitState, TypeInv, TypeOK
<1>3. pc' \in [Managers -> Steps] /\ job' \in [Managers -> Jobs] /\ \A n \in Managers : JobShape(n)'
  <2>1. CASE job[m].kind = "recover"
    <3> DEFINE j == [NoJob EXCEPT !.kind = "start", !.wal = job[m].wal]
    <3>1. job[m].wal \in SUBSET Tids
      BY <1>1, CommittingJob DEF Jobs
    <3>2. /\ j \in Jobs
          /\ DOMAIN j.vers = DOMAIN j.env /\ j.todo \subseteq DOMAIN j.env
      BY <3>1, NoJobType, EmptyTypes DEF Jobs, NoJob, StartOps
    <3>3. /\ "recover" \in Steps \ Committing
          /\ pc' = [pc EXCEPT ![m] = "recover"] /\ job' = [job EXCEPT ![m] = j]
      BY <2>1 DEF CommitState, Goto, Steps, Committing, Writes, Fences
    <3> HIDE DEF j
    <3> QED
      BY <3>2, <3>3, JobStep
  <2>2. CASE job[m].kind # "recover"
    BY <2>2, FinishedType, EndStep DEF CommitState, Goto
  <2> QED
    BY <2>1, <2>2
<1> QED
  BY <1>2, <1>3 DEF CommitState, TypeInv, TypeOK, diskVars

\* A process that dies keeps the types.
LEMMA CrashType ==
    ASSUME TypeInv, NEW m \in Managers, Crash(m)
    PROVE  TypeInv'
BY ForgetType DEF Crash, TypeInv, TypeOK, diskVars

\* Shutdown keeps the types.
LEMMA ShutdownType ==
    ASSUME TypeInv, NEW m \in Managers, Shutdown(m)
    PROVE  TypeInv'
BY ForgetType DEF Shutdown, TypeInv, TypeOK, diskVars

\* Every step of the store keeps the inductive type invariant.
LEMMA TypeNext == TypeInv /\ [Next]_vars => TypeInv'
<1> SUFFICES ASSUME TypeInv, [Next]_vars PROVE TypeInv'
  OBVIOUS
<1>1. CASE UNCHANGED vars
  BY <1>1 DEF vars, diskVars, memVars, TypeInv, TypeOK, JobShape
<1>2. ASSUME NEW m \in Managers, Progress(m)
      PROVE  TypeInv'
  BY <1>2, AcquireType, ReleaseType, AssertValidType, ListWalType, RecoverType,
     ReadManifestType, ReadWalType, ReadObjectsType, EndWorkType, CheckConflictType,
     CommitEnvelopeType, WriteWalPrepareType, WriteObjectRecordsType, WriteSnapshotType,
     WriteWalCommitType, WriteTransactionRecordType, WritePersistentIndexType,
     WriteCurrentType, WriteManifestType, CommitStateType, ThrowType
     DEF Progress, AcquireTimeout, LockLost, Throw, diskVars
<1>3. ASSUME NEW m \in Managers,
             \/ Start(m) \/ Edit(m) \/ BeginStore(m) \/ BeginUpdate(m) \/ BeginTransaction(m)
             \/ AbortWork(m) \/ RejectCommit(m) \/ TargetFails(m) \/ Crash(m) \/ Shutdown(m)
      PROVE  TypeInv'
  BY <1>3, StartType, EditType, BeginStoreType, BeginUpdateType, BeginTransactionType,
     CrashType, ShutdownType, ThrowType
     DEF AbortWork, RejectCommit, TargetFails, Throw, diskVars
<1> QED
  BY <1>1, <1>2, <1>3 DEF Next

\* The variables always have the shape of the files and fields they stand for.
THEOREM TypeCorrect == Spec => []TypeOK
<1>1. TypeInv => TypeOK
  BY DEF TypeInv
<1> QED
  BY <1>1, TypeInit, TypeNext, PTL DEF Spec

-----------------------------------------------------------------------------
(* The versions of a manifest exist *)

\* A committing manager writes every object of its envelope at the commit's own id:
\* those it need not write any more are on the target.
Whole(m) ==
    pc[m] \in Committing =>
        /\ \A o \in DOMAIN job[m].env : job[m].vers[o] = job[m].t
        /\ \A o \in DOMAIN job[m].env \ job[m].todo : records[o][job[m].t] # <<>>
        /\ pc[m] \notin {"prepare", "objects"} => job[m].todo = {}

WholeInv ==
    /\ TypeInv
    /\ ManifestVersionsExist
    /\ \A m \in Managers : job[m].kind # "storeAll" /\ Whole(m)

\* What a step of m does to the other managers, and to the records.
OnlyMoves(m) == \A n \in Managers \ {m} : job'[n] = job[n] /\ pc'[n] = pc[n]

RecordsStay == \A o \in Objects, t \in Tids : records[o][t] # <<>> => records'[o][t] # <<>>

\* The inductive invariant for whole-graph commits holds initially.
LEMMA WholeInit == Init => WholeInv
<1> SUFFICES ASSUME Init PROVE WholeInv
  OBVIOUS
<1>1. ManifestVersionsExist
  BY EmptyTypes DEF Init, ManifestVersionsExist, Readable, NoManifest
<1>2. \A m \in Managers : job[m].kind # "storeAll" /\ Whole(m)
  BY DEF Init, Whole, NoJob, Committing, Writes, Fences
<1> QED
  BY <1>1, <1>2, TypeInit DEF WholeInv

\* An old manifest stays readable while records stay.
LEMMA ManifestStays ==
    ASSUME TypeInv, ManifestVersionsExist, RecordsStay, UNCHANGED manifest
    PROVE  ManifestVersionsExist'
<1>1. /\ DOMAIN manifest.vers \in SUBSET Objects
      /\ \A o \in DOMAIN manifest.vers : manifest.vers[o] \in Tids
  BY VersionsElim DEF TypeInv, TypeOK
<1> QED
  BY <1>1 DEF ManifestVersionsExist, Readable, RecordsStay

\* The managers that a step does not move stay whole.
LEMMA OthersStayWhole ==
    ASSUME WholeInv, NEW m \in Managers, OnlyMoves(m), RecordsStay,
           NEW n \in Managers \ {m}
    PROVE  job'[n].kind # "storeAll" /\ Whole(n)'
<1>1. job'[n] = job[n] /\ pc'[n] = pc[n]
  BY DEF OnlyMoves
<1>2. CASE pc[n] \notin Committing
  BY <1>1, <1>2 DEF WholeInv, Whole
<1>3. CASE pc[n] \in Committing
  <2>1. job[n].t \in Tids /\ DOMAIN job[n].env \in SUBSET Objects
    BY <1>3, CommittingJob DEF WholeInv
  <2> QED
    BY <1>1, <1>3, <2>1 DEF WholeInv, Whole, RecordsStay
<1> QED
  BY <1>2, <1>3

\* A step of m keeps the invariant if it keeps the records and the manifest and leaves
\* m itself whole.
LEMMA WholeStep ==
    ASSUME WholeInv, TypeInv', NEW m \in Managers, OnlyMoves(m), RecordsStay,
           job'[m].kind # "storeAll", Whole(m)', UNCHANGED manifest
    PROVE  WholeInv'
<1>1. ManifestVersionsExist'
  BY ManifestStays DEF WholeInv
<1>2. ASSUME NEW n \in Managers PROVE job'[n].kind # "storeAll" /\ Whole(n)'
  <2>1. CASE n = m
    BY <2>1
  <2>2. CASE n # m
    BY <2>2, OthersStayWhole
  <2> QED
    BY <2>1, <2>2
<1> QED
  BY <1>1, <1>2 DEF WholeInv

\* A step that leaves the commit, or never was in one.
LEMMA QuietStep ==
    ASSUME WholeInv, TypeInv', NEW m \in Managers, OnlyMoves(m), UNCHANGED <<records, manifest>>,
           job'[m].kind # "storeAll", pc'[m] \notin Committing
    PROVE  WholeInv'
BY WholeStep DEF Whole, RecordsStay

\* A step of a commit that writes neither records nor the manifest.
LEMMA CommittingStep ==
    ASSUME WholeInv, TypeInv', NEW m \in Managers, NEW s, UNCHANGED <<records, manifest, job>>,
           pc' = [pc EXCEPT ![m] = s], pc[m] \in Committing,
           s \in {"prepare", "objects"} \/ pc[m] \notin {"prepare", "objects"}
    PROVE  WholeInv'
<1>1. OnlyMoves(m) /\ pc'[m] = s
  BY DEF OnlyMoves, WholeInv, TypeInv, TypeOK
<1>2. Whole(m)'
  BY <1>1 DEF WholeInv, Whole
<1>3. RecordsStay /\ job'[m].kind # "storeAll"
  BY DEF RecordsStay, WholeInv
<1> QED
  BY <1>1, <1>2, <1>3, WholeStep

\* An error ends the commit without touching records or manifest.
LEMMA ThrowWhole ==
    ASSUME WholeInv, TypeInv', NEW m \in Managers, Throw(m)
    PROVE  WholeInv'
<1>1. OnlyMoves(m)
  BY DEF OnlyMoves, Throw, Forget, Goto, WholeInv, TypeInv, TypeOK
<1>2. job'[m].kind = "none" /\ pc'[m] \notin Committing
  BY FinishedType DEF Throw, Forget, Goto, NoJob, Committing, Writes, Fences,
                      WholeInv, TypeInv, TypeOK
<1>3. UNCHANGED <<records, manifest>>
  BY DEF Throw, diskVars
<1> QED
  BY <1>1, <1>2, <1>3, QuietStep

\* A manager that adopts a loaded graph is idle, works, or repairs the whole graph.
LEMMA AdoptWhole ==
    ASSUME WholeInv, TypeInv', NEW m \in Managers,
           NEW env \in Envelopes, NEW t \in 0..MaxTid, NEW versions \in Versions, NEW source,
           source = "snapshot" => versions = AllAt(env, t),
           Adopt(m, env, t, versions, source)
    PROVE  WholeInv'
<1>1. OnlyMoves(m) /\ UNCHANGED <<records, manifest>>
  BY DEF OnlyMoves, Adopt, Goto, WholeInv, TypeInv, TypeOK, diskVars
<1>2. job[m] \in Jobs /\ job[m].kind # "storeAll"
  BY DEF WholeInv, TypeInv, TypeOK
<1>3. CASE job[m].kind = "start" /\ source = "snapshot"
  <2>1. /\ job'[m].kind = "repair" /\ job'[m].t = t /\ job'[m].env = env
        /\ job'[m].vers = AllAt(env, t) /\ job'[m].todo = DOMAIN env /\ pc'[m] = "objects"
    BY <1>2, <1>3 DEF Adopt, Goto, Jobs, WholeInv, TypeInv, TypeOK
  <2>2. Whole(m)'
    BY <2>1 DEF Whole, AllAt
  <2> QED
    BY <1>1, <2>1, <2>2, WholeStep DEF RecordsStay
<1>4. CASE ~(job[m].kind = "start" /\ source = "snapshot")
  <2>1. job'[m].kind \in {"none", job[m].kind} /\ pc'[m] \in {"idle", "work"}
    BY <1>2, <1>4 DEF Adopt, Goto, Jobs, NoJob, WholeInv, TypeInv, TypeOK
  <2>2. pc'[m] \notin Committing
    BY <2>1 DEF Committing, Writes, Fences
  <2> QED
    BY <1>1, <1>2, <2>1, <2>2, QuietStep
<1> QED
  BY <1>3, <1>4

\* Steps outside the commit path.
LEMMA IdleWhole ==
    ASSUME WholeInv, TypeInv', NEW m \in Managers, "storeAll" \notin Ops,
           \/ Acquire(m) \/ Release(m) \/ Start(m) \/ ListWal(m) \/ ReadManifest(m)
           \/ Edit(m) \/ BeginStore(m) \/ BeginUpdate(m) \/ BeginTransaction(m) \/ EndWork(m)
           \/ Crash(m) \/ Shutdown(m)
    PROVE  WholeInv'
<1>1. UNCHANGED <<records, manifest>>
  BY DEF Acquire, Release, Start, ListWal, ReadManifest, Edit, BeginStore, BeginUpdate,
         BeginTransaction, EndWork, Crash, Shutdown, diskVars
<1>2. job[m] \in Jobs /\ job[m].kind # "storeAll"
  BY DEF WholeInv, TypeInv, TypeOK
<1>3. CASE Acquire(m) \/ Release(m) \/ Edit(m) \/ EndWork(m)
  <2>1. \E s \in Steps \ Committing : pc' = [pc EXCEPT ![m] = s]
    <3>1. CASE Acquire(m)
      BY <3>1, LockedType DEF Acquire, Goto
    <3>2. CASE Release(m)
      BY <3>2 DEF Release, Goto, Steps, Committing, Writes, Fences
    <3>3. CASE Edit(m)
      <4>1. pc[m] \in Steps \ Committing
        BY <3>3, StoreAssumptions DEF Edit, Steps, Committing, Writes, Fences
      <4>2. pc' = [pc EXCEPT ![m] = pc[m]]
        BY <3>3 DEF Edit, WholeInv, TypeInv, TypeOK
      <4> QED
        BY <4>1, <4>2
    <3>4. CASE EndWork(m)
      <4>1. "serialize" \in Steps \ Committing
        BY DEF Steps, Committing, Writes, Fences
      <4> QED
        BY <3>4, <4>1, WithWriteLockType DEF EndWork, Goto
    <3> QED
      BY <1>3, <3>1, <3>2, <3>3, <3>4
  <2>2. job' = job
    BY <1>3 DEF Acquire, Release, Edit, EndWork
  <2>3. OnlyMoves(m) /\ pc'[m] \notin Committing
    BY <2>1, <2>2 DEF OnlyMoves, WholeInv, TypeInv, TypeOK
  <2> QED
    BY <1>1, <1>2, <2>2, <2>3, QuietStep
<1>4. CASE Start(m) \/ ListWal(m) \/ ReadManifest(m) \/ BeginUpdate(m)
  <2>1. OnlyMoves(m)
    BY <1>4 DEF OnlyMoves, Start, ListWal, ReadManifest, BeginUpdate, Goto,
                WholeInv, TypeInv, TypeOK
  <2>2. pc'[m] \notin Committing
    BY <1>4 DEF Start, ListWal, ReadManifest, BeginUpdate, Goto, WholeInv, TypeInv, TypeOK,
                Committing, Writes, Fences
  <2>3. job'[m].kind \in {"start", "update", job[m].kind}
    BY <1>2, <1>4 DEF Start, ListWal, ReadManifest, BeginUpdate, WholeInv, TypeInv, TypeOK, Jobs
  <2> QED
    BY <1>1, <1>2, <2>1, <2>2, <2>3, QuietStep
<1>5. CASE BeginStore(m)
  <2>1. PICK kind \in Ops \cap {"storeRoot", "storeAll"}, targets \in TargetLists \cup {<<>>} :
            /\ job' = [job EXCEPT ![m].kind = kind, ![m].targets = targets]
            /\ WithWriteLock(m, kind)
    BY <1>5 DEF BeginStore
  <2>2. OnlyMoves(m) /\ job'[m].kind = "storeRoot"
    BY <1>2, <2>1 DEF OnlyMoves, WithWriteLock, Goto, WholeInv, TypeInv, TypeOK, Jobs
  <2>3. pc'[m] \notin Committing
    BY <2>1, WithWriteLockType DEF WholeInv, TypeInv, TypeOK
  <2> QED
    BY <1>1, <2>2, <2>3, QuietStep
<1>6. CASE BeginTransaction(m)
  <2>1. PICK kind \in TransactionOps :
            /\ job' = [job EXCEPT ![m].kind = kind, ![m].undo = heap[m]]
            /\ IF kind = "pessimistic" THEN WithWriteLock(m, kind) ELSE Goto(m, "readManifest")
    BY <1>6 DEF BeginTransaction
  <2>2. OnlyMoves(m) /\ job'[m].kind # "storeAll"
    BY <1>2, <2>1 DEF OnlyMoves, WithWriteLock, Goto, TransactionOps, WholeInv, TypeInv, TypeOK, Jobs
  <2>3. "readManifest" \in Steps \ Committing
    BY DEF Steps, Committing, Writes, Fences
  <2>4. pc'[m] \notin Committing
    BY <2>1, <2>3, WithWriteLockType DEF Goto, WholeInv, TypeInv, TypeOK
  <2> QED
    BY <1>1, <2>2, <2>4, QuietStep
<1>7. CASE Crash(m) \/ Shutdown(m)
  <2>1. Forget(m)
    BY <1>7 DEF Crash, Shutdown
  <2>2. OnlyMoves(m) /\ job'[m].kind = "none" /\ pc'[m] \notin Committing
    BY <2>1 DEF OnlyMoves, Forget, Goto, NoJob, Committing, Writes, Fences,
                WholeInv, TypeInv, TypeOK
  <2> QED
    BY <1>1, <2>2, QuietStep
<1> QED
  BY <1>3, <1>4, <1>5, <1>6, <1>7

\* Recovery commits the whole envelope of a WAL entry, all objects at its id.
LEMMA RecoverWhole ==
    ASSUME WholeInv, TypeInv', NEW m \in Managers, Recover(m)
    PROVE  WholeInv'
<1>1. OnlyMoves(m) /\ UNCHANGED <<records, manifest>>
  BY DEF OnlyMoves, Recover, Goto, WholeInv, TypeInv, TypeOK, diskVars
<1>2. job[m] \in Jobs
  BY DEF WholeInv, TypeInv, TypeOK
<1>3. CASE job' = [job EXCEPT ![m] = [NoJob EXCEPT !.kind = "start"]]
           /\ Goto(m, IF Strategy = "startup" THEN "readManifest" ELSE "release")
  <2>1. job'[m].kind = "start" /\ pc'[m] \notin Committing
    BY <1>3 DEF NoJob, Goto, Committing, Writes, Fences, WholeInv, TypeInv, TypeOK
  <2> QED
    BY <1>1, <2>1, QuietStep
<1>4. ASSUME NEW t \in job[m].wal \cap PendingWal,
             job' = [job EXCEPT ![m].kind = "recover", ![m].wal = {u \in @ : t < u},
                                ![m].t = t, ![m].env = prepares[t],
                                ![m].vers = AllAt(prepares[t], t),
                                ![m].todo = DOMAIN prepares[t]],
             Goto(m, "objects")
      PROVE  WholeInv'
  <2>1. /\ job'[m].kind = "recover" /\ job'[m].t = t /\ job'[m].env = prepares[t]
        /\ job'[m].vers = AllAt(prepares[t], t) /\ job'[m].todo = DOMAIN prepares[t]
        /\ pc'[m] = "objects"
    <3>1. job \in [Managers -> Jobs] /\ pc \in [Managers -> Steps]
      BY DEF WholeInv, TypeInv, TypeOK
    <3>2. pc'[m] = "objects"
      BY <1>4, <3>1 DEF Goto
    <3>3. /\ job'[m].kind = "recover" /\ job'[m].t = t /\ job'[m].env = prepares[t]
          /\ job'[m].vers = AllAt(prepares[t], t) /\ job'[m].todo = DOMAIN prepares[t]
      BY <1>2, <1>4, <3>1 DEF Jobs
    <3> QED
      BY <3>2, <3>3
  <2>2. Whole(m)'
    BY <2>1 DEF Whole, AllAt
  <2> QED
    BY <1>1, <2>1, <2>2, WholeStep DEF RecordsStay
<1> QED
  BY <1>3, <1>4 DEF Recover

\* Each step of a load keeps the invariant.
LEMMA LoadWhole ==
    ASSUME WholeInv, TypeInv', NEW m \in Managers, ReadWal(m) \/ ReadObjects(m)
    PROVE  WholeInv'
<1>1. job[m] \in Jobs /\ job[m].kind # "storeAll"
  BY DEF WholeInv, TypeInv, TypeOK
<1>2. CASE ReadWal(m)
  <2>1. PICK last \in {0} \cup CommittedWal :
            IF last > job[m].man.tid
            THEN Load(m, prepares[last], last, AllAt(prepares[last], last), "wal")
            ELSE /\ Goto(m, "readObjects")
                 /\ UNCHANGED <<diskVars, lock, memVars, job, history>>
    BY <1>2 DEF ReadWal
  <2>2. CASE last > job[m].man.tid
    <3> job[m].man.tid \in 0..MaxTid
      BY <1>1 DEF Jobs
    <3>1. last \in Tids /\ prepares[last] \in Envelopes /\ last \in 0..MaxTid
      <4>1. last = 0 \/ last \in Tids
        BY DEF CommittedWal, WholeInv, TypeInv, TypeOK
      <4>2. last # 0
        BY <2>2
      <4>3. prepares \in [Tids -> Envelopes]
        BY DEF WholeInv, TypeInv, TypeOK
      <4>4. Tids \subseteq 0..MaxTid
        BY StoreAssumptions DEF Tids
      <4> QED
        BY <4>1, <4>2, <4>3, <4>4
    <3>2. AllAt(prepares[last], last) \in Versions
      BY <3>1, AllAtType
    <3> QED
      BY <2>1, <2>2, <3>1, <3>2, AdoptWhole, ThrowWhole DEF Load
  <2>3. CASE ~(last > job[m].man.tid)
    <3>1. OnlyMoves(m) /\ UNCHANGED <<records, manifest, job>> /\ pc'[m] \notin Committing
      BY <2>1, <2>3 DEF OnlyMoves, Goto, diskVars, WholeInv, TypeInv, TypeOK,
                        Committing, Writes, Fences
    <3> QED
      BY <1>1, <3>1, QuietStep
  <2> QED
    BY <2>2, <2>3
<1>3. CASE ReadObjects(m)
  <2> DEFINE man == job[m].man
  <2>1. man \in [tid : 0..MaxTid, vers : Versions]
    BY <1>1 DEF Jobs
  <2> HIDE DEF man
  <2>2. CASE Readable(man) /\ Load(m, EnvelopeFromManifest(man), man.tid, man.vers, "manifest")
    BY <2>1, <2>2, EnvelopeFromManifestType, AdoptWhole, ThrowWhole DEF Load, WholeInv
  <2>3. CASE /\ current > 0
             /\ Load(m, snapshots[current], current, AllAt(snapshots[current], current), "snapshot")
    <3>1. current \in Tids /\ snapshots[current] \in Envelopes /\ current \in 0..MaxTid
      BY <2>3, StoreAssumptions DEF WholeInv, TypeInv, TypeOK, Tids
    <3>2. AllAt(snapshots[current], current) \in Versions
      BY <3>1, AllAtType
    <3> QED
      BY <2>3, <3>1, <3>2, AdoptWhole, ThrowWhole DEF Load
  <2>4. CASE Adopt(m, NoEnvelope, 0, NoVersions, "empty")
    <3>1. 0 \in 0..MaxTid
      BY StoreAssumptions
    <3> QED
      BY <2>4, <3>1, EmptyTypes, AdoptWhole
  <2> QED
    BY <1>3, <2>2, <2>3, <2>4 DEF ReadObjects, man
<1> QED
  BY <1>2, <1>3

\* A commit of the whole graph gives every object the new id and writes them all.
LEMMA CommitEnvelopeWhole ==
    ASSUME WholeInv, TypeInv', NEW m \in Managers, CommitEnvelope(m)
    PROVE  WholeInv'
<1> DEFINE env == Serialize(heap[m])
           nodes == DOMAIN env
           written == ObjectIdsToWrite(m, nodes, nodes)
           t == NextTransactionId(m)
           next == NextObjectVersions(m, nodes, written)
<1>1. job[m] \in Jobs /\ job[m].kind # "storeAll"
  BY DEF WholeInv, TypeInv, TypeOK
<1>2. job' = [job EXCEPT ![m].t = t, ![m].env = env, ![m].todo = written, ![m].vers = next]
  BY <1>1 DEF CommitEnvelope
<1>3. nodes \subseteq written /\ \A o \in nodes : next[o] = t
  BY DEF ObjectIdsToWrite, NextObjectVersions
<1> HIDE DEF env, written, t, next
<1>4. /\ job'[m].kind = job[m].kind /\ job'[m].t = t /\ job'[m].env = env
      /\ job'[m].vers = next /\ job'[m].todo = written
  BY <1>1, <1>2 DEF Jobs, WholeInv, TypeInv, TypeOK
<1>5. /\ OnlyMoves(m) /\ UNCHANGED <<records, manifest>>
      /\ pc'[m] \in {"prepare", "objects"}
  BY <1>2 DEF OnlyMoves, CommitEnvelope, Goto, diskVars, WholeInv, TypeInv, TypeOK
<1>6. Whole(m)'
  BY <1>3, <1>4, <1>5 DEF Whole
<1> QED
  BY <1>1, <1>4, <1>5, <1>6, WholeStep DEF RecordsStay

\* The conflict check keeps the invariant, whether it passes or throws.
LEMMA CheckConflictWhole ==
    ASSUME WholeInv, TypeInv', NEW m \in Managers, CheckConflict(m)
    PROVE  WholeInv'
<1>1. CASE CurrentTransactionId = tid[m]
  <2>1. OnlyMoves(m) /\ UNCHANGED <<records, manifest, job>> /\ pc'[m] \notin Committing
    BY <1>1 DEF CheckConflict, OnlyMoves, Goto, diskVars, WholeInv, TypeInv, TypeOK,
                Committing, Writes, Fences
  <2> QED
    BY <2>1, QuietStep DEF WholeInv
<1>2. CASE CurrentTransactionId # tid[m]
  BY <1>2, ThrowWhole DEF CheckConflict
<1> QED
  BY <1>1, <1>2

\* A record that is written completes its part of the commit and replaces no
\* record by nothing.
LEMMA WriteObjectRecordsWhole ==
    ASSUME WholeInv, TypeInv', NEW m \in Managers, WriteObjectRecords(m)
    PROVE  WholeInv'
<1>1. pc[m] = "objects" /\ pc[m] \in Committing /\ UNCHANGED manifest
  BY DEF WriteObjectRecords, Committing, Writes
<1>2. PICK o \in job[m].todo :
          /\ records' = [records EXCEPT ![o][job[m].t] = <<job[m].env[o]>>]
          /\ job' = [job EXCEPT ![m].todo = @ \ {o}]
          /\ Goto(m, IF LastRecord(m, o) THEN AfterObjects(m) ELSE "objects")
  BY DEF WriteObjectRecords
<1>3. /\ job[m] \in Jobs /\ job[m].t \in Tids /\ job[m].kind # "storeAll"
      /\ job[m].todo \subseteq DOMAIN job[m].env /\ DOMAIN job[m].env \in SUBSET Objects
  BY <1>1, CommittingJob DEF WholeInv
<1>4. \A p \in Objects, t \in Tids :
          records'[p][t] = IF p = o /\ t = job[m].t THEN <<job[m].env[o]>> ELSE records[p][t]
  BY <1>2, <1>3 DEF WholeInv, TypeInv, TypeOK
<1>5. RecordsStay
  BY <1>4 DEF RecordsStay
<1>6. /\ job'[m].kind = job[m].kind /\ job'[m].t = job[m].t /\ job'[m].env = job[m].env
      /\ job'[m].vers = job[m].vers /\ job'[m].todo = job[m].todo \ {o}
  BY <1>2, <1>3 DEF Jobs, WholeInv, TypeInv, TypeOK
<1>7. OnlyMoves(m) /\ (pc'[m] = "objects" \/ job[m].todo = {o})
  BY <1>2 DEF OnlyMoves, Goto, LastRecord, WholeInv, TypeInv, TypeOK
<1>8. Whole(m)'
  <2>1. \A p \in DOMAIN job'[m].env : job'[m].vers[p] = job'[m].t
    BY <1>1, <1>6 DEF WholeInv, Whole
  <2>2. \A p \in DOMAIN job[m].env \ job[m].todo : records[p][job[m].t] # <<>>
    BY <1>1 DEF WholeInv, Whole
  <2>3. \A p \in DOMAIN job'[m].env \ job'[m].todo : records'[p][job'[m].t] # <<>>
    BY <1>3, <1>4, <1>6, <2>2
  <2> QED
    BY <1>6, <1>7, <2>1, <2>3 DEF Whole
<1> QED
  BY <1>1, <1>3, <1>5, <1>6, <1>7, <1>8, WholeStep

\* The manifest is written when every object of its commit has its record.
LEMMA WriteManifestWhole ==
    ASSUME WholeInv, TypeInv', NEW m \in Managers, WriteManifest(m)
    PROVE  WholeInv'
<1>1. pc[m] = "manifest" /\ pc[m] \in Committing /\ UNCHANGED <<records, job>>
  BY DEF WriteManifest, Committing, Writes
<1>2. OnlyMoves(m) /\ pc'[m] \notin {"prepare", "objects"}
  BY DEF OnlyMoves, WriteManifest, Goto, WholeInv, TypeInv, TypeOK
<1>3. /\ \A o \in DOMAIN job[m].env : job[m].vers[o] = job[m].t
      /\ \A o \in DOMAIN job[m].env : records[o][job[m].t] # <<>>
      /\ DOMAIN job[m].vers = DOMAIN job[m].env /\ job[m].todo = {}
  BY <1>1, CommittingJob DEF WholeInv, Whole
<1>4. ManifestVersionsExist'
  BY <1>1, <1>3 DEF WriteManifest, ManifestVersionsExist, Readable
<1>5. ASSUME NEW n \in Managers PROVE job'[n].kind # "storeAll" /\ Whole(n)'
  <2>1. CASE n = m
    BY <1>1, <1>2, <1>3, <2>1 DEF WholeInv, Whole
  <2>2. CASE n # m
    BY <1>1, <2>2, OthersStayWhole, <1>2 DEF RecordsStay
  <2> QED
    BY <2>1, <2>2
<1> QED
  BY <1>4, <1>5 DEF WholeInv

\* The fences, and the writes other than object records and manifest, keep the invariant.
LEMMA PublishWhole ==
    ASSUME WholeInv, TypeInv', NEW m \in Managers,
           \/ AssertValid(m) \/ WriteWalPrepare(m) \/ WriteSnapshot(m) \/ WriteWalCommit(m)
           \/ WriteTransactionRecord(m) \/ WriteCurrent(m)
    PROVE  WholeInv'
<1>1. pc[m] \in Committing /\ UNCHANGED <<records, manifest, job>>
  BY DEF AssertValid, WriteWalPrepare, WriteSnapshot, WriteWalCommit, WriteTransactionRecord,
         WriteCurrent, diskVars, Committing, Writes, Fences
<1>2. PICK s : pc' = [pc EXCEPT ![m] = s] /\ (s = "objects" \/ pc[m] \notin {"prepare", "objects"})
  BY DEF AssertValid, WriteWalPrepare, WriteSnapshot, WriteWalCommit, WriteTransactionRecord,
         WriteCurrent, Goto, Fences
<1> QED
  BY <1>1, <1>2, CommittingStep

\* The end of a commit, or of a recovered WAL entry, keeps the invariant.
LEMMA EndCommitWhole ==
    ASSUME WholeInv, TypeInv', NEW m \in Managers, WritePersistentIndex(m) \/ CommitState(m)
    PROVE  WholeInv'
<1>1. UNCHANGED <<records, manifest>>
  BY DEF WritePersistentIndex, CommitState, diskVars
<1>2. CASE WritePersistentIndex(m) /\ job[m].kind # "repair"
  <2> DEFINE s == IF options.snapshots THEN "fenceCurrent" ELSE "manifest"
  <2>1. /\ pc' = [pc EXCEPT ![m] = s] /\ UNCHANGED job
        /\ pc[m] \in Committing /\ pc[m] \notin {"prepare", "objects"}
    BY <1>2 DEF WritePersistentIndex, Goto, Committing, Writes
  <2> HIDE DEF s
  <2> QED
    BY <1>1, <2>1, CommittingStep
<1>3. CASE (WritePersistentIndex(m) /\ job[m].kind = "repair") \/ CommitState(m)
  <2>1. OnlyMoves(m) /\ pc'[m] \in {"idle", "recover", "release"}
    BY <1>3 DEF OnlyMoves, WritePersistentIndex, CommitState, Goto, Finished,
                WholeInv, TypeInv, TypeOK
  <2>2. PICK j \in {NoJob, [NoJob EXCEPT !.kind = "start", !.wal = job[m].wal]} :
            job' = [job EXCEPT ![m] = j]
    BY <1>3 DEF WritePersistentIndex, CommitState
  <2>3. j.kind \in {"none", "start"}
    <3>1. NoJob.kind = "none"
      BY DEF NoJob
    <3>2. [NoJob EXCEPT !.kind = "start", !.wal = job[m].wal].kind = "start"
      BY NoJobType DEF Jobs
    <3> QED
      BY <2>2, <3>1, <3>2
  <2>4. job'[m].kind # "storeAll"
    BY <2>2, <2>3 DEF WholeInv, TypeInv, TypeOK
  <2>5. pc'[m] \notin Committing
    BY <2>1 DEF Committing, Writes, Fences
  <2> QED
    BY <1>1, <2>1, <2>4, <2>5, QuietStep
<1> QED
  BY <1>2, <1>3

\* Every step keeps the invariant as long as storeAll is not used.
LEMMA WholeNext ==
    ASSUME "storeAll" \notin Ops
    PROVE  WholeInv /\ [Next]_vars => WholeInv'
<1> SUFFICES ASSUME WholeInv, [Next]_vars PROVE WholeInv'
  OBVIOUS
<1>1. TypeInv'
  BY TypeNext DEF WholeInv
<1>2. CASE UNCHANGED vars
  BY <1>1, <1>2 DEF vars, diskVars, memVars, WholeInv, Whole, ManifestVersionsExist, Readable
<1>3. ASSUME NEW m \in Managers, Progress(m)
      PROVE  WholeInv'
  BY <1>1, <1>3, IdleWhole, RecoverWhole, LoadWhole, CheckConflictWhole, CommitEnvelopeWhole,
     WriteObjectRecordsWhole, WriteManifestWhole, PublishWhole, EndCommitWhole, ThrowWhole
     DEF Progress, AcquireTimeout, LockLost
<1>4. ASSUME NEW m \in Managers,
             \/ Start(m) \/ Edit(m) \/ BeginStore(m) \/ BeginUpdate(m) \/ BeginTransaction(m)
             \/ AbortWork(m) \/ RejectCommit(m) \/ TargetFails(m) \/ Crash(m) \/ Shutdown(m)
      PROVE  WholeInv'
  BY <1>1, <1>4, IdleWhole, ThrowWhole DEF AbortWork, RejectCommit, TargetFails
<1> QED
  BY <1>2, <1>3, <1>4 DEF Next

\* When every commit writes the whole graph, each object version that the manifest
\* selects has its record: whatever managers share the store, whichever writes fail,
\* wherever processes die, and whoever breaks whose lock.
THEOREM ManifestComplete ==
    ASSUME "storeAll" \notin Ops
    PROVE  Spec => []ManifestVersionsExist
<1>1. WholeInv => ManifestVersionsExist
  BY DEF WholeInv
<1>2. WholeInv /\ [Next]_vars => WholeInv'
  BY WholeNext
<1> QED
  BY <1>1, <1>2, WholeInit, PTL DEF Spec
=============================================================================
