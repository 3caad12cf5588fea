------------------------- MODULE KubernetesScalerProofs -------------------------
(****************************************************************************)
(* Proofs about KubernetesScaler, for every set of runner names, all limits *)
(* and all bounds on staleness and failures: pods and GitHub registrations  *)
(* end together.                                                            *)
(****************************************************************************)
EXTENDS KubernetesScaler, FiniteSetTheorems, TLAPS

(* The pool of names is finite, and so is whatever is counted of it. *)
LEMMA SubsetCardinality ==
  ASSUME NEW S \in SUBSET Runners
  PROVE  /\ Cardinality(S) \in Nat
         /\ Cardinality(S) = 0 => S = {}
BY FS_Subset, FS_CardinalityType, FS_EmptySet, ScalerAssumption DEF ScalerAssumption

(* A scaler starts without pods, registrations or work. *)
LEMMA LifecycleInit == Init => LifecycleInv
<1> SUFFICES ASSUME Init PROVE LifecycleInv
  OBVIOUS
<1>1. removal \in [Runners -> BOOLEAN] /\ cleanup \in [Runners -> BOOLEAN]
  BY Zenon DEF Init
<1>2. QED
  BY <1>1, ScalerAssumption
  DEF Init, LifecycleInv, TypeOK, OneBatch, Creating, Removing, DeregisteredAfterDeletion,
      ScalerAssumption, Absent, Pod, Phases, Running, Gone

(* Deletions, by whichever path: the pod is terminated and its runner handed
   over, or nothing changes, or the failure is counted. *)
LEMMA DeletionEffect ==
  ASSUME TypeOK, NEW r \in Runners, DeleteSucceeds(r) \/ DeleteFails(r)
  PROVE  /\ pods' \in {pods, Terminated(r)}
         /\ pods' # pods => pods[r].phase # "absent"
         /\ removal' \in {removal, [removal EXCEPT ![r] = TRUE]}
         /\ removal' # removal => pods[r].phase # "absent" /\ pods' = Terminated(r)
         /\ failures' \in 0 .. MaxFailures
         /\ failures' = 0 => failures = 0
         /\ failures' = 0 /\ pods[r].phase # "absent" => removal' = [removal EXCEPT ![r] = TRUE]
BY ScalerAssumption DEF TypeOK, DeleteSucceeds, DeleteFails, Fail, ScalerAssumption

(* deleteRunnerPod keeps the invariant, on every path that calls it. *)
LEMMA DeletionStep ==
  ASSUME LifecycleInv, NEW r \in Runners, DeleteSucceeds(r) \/ DeleteFails(r),
         UNCHANGED <<runner, op, left, todo, jit, cached, rollout, rolled>>,
         message' \in [Runners -> SUBSET {"started", "completed"}],
         cleanup' \in [Runners -> BOOLEAN],
         \/ worker' = worker
         \/ worker[r] = "delete" /\ worker' = [worker EXCEPT ![r] = "none"]
  PROVE  LifecycleInv'
<1> USE DEF LifecycleInv
<1>1. removal' \in [Runners -> BOOLEAN]
  <2>1. removal' \in {removal, [removal EXCEPT ![r] = TRUE]}
    BY DeletionEffect
  <2>2. removal \in [Runners -> BOOLEAN]
    BY DEF TypeOK
  <2>3. QED
    BY <2>1, <2>2, Zenon
<1>2. pods' \in [Runners -> [phase : Phases, label : {"idle", "busy"}]]
  BY DeletionEffect DEF TypeOK, Terminated, Pod, Phases
<1>3. worker' \in [Runners -> {"none", "create", "delete"}]
  BY DEF TypeOK
<1>4. TypeOK'
  BY <1>1, <1>2, <1>3, DeletionEffect DEF TypeOK
<1>5. \A q \in Runners : worker'[q] = "create" => worker[q] = "create"
  BY DEF TypeOK
<1>6. OneBatch'
  BY <1>5 DEF OneBatch
<1>7. \A q \in Runners : q # r => pods'[q] = pods[q] /\ (removal'[q] <=> removal[q])
  BY DeletionEffect DEF TypeOK, Terminated
<1>8. Creating'
  <2> SUFFICES ASSUME NEW q \in Runners, worker'[q] = "create"
               PROVE  pods'[q] = Absent /\ ~removal'[q]
    BY DEF Creating
  <2>1. pods[q] = Absent /\ ~removal[q]
    BY <1>5 DEF Creating
  <2>2. CASE q # r
    BY <1>7, <2>1, <2>2
  <2>3. CASE q = r
    BY <2>1, <2>3, DeletionEffect DEF Absent, Pod
  <2>4. QED
    BY <2>2, <2>3
<1>9. DeregisteredAfterDeletion'
  <2> SUFFICES ASSUME NEW q \in Runners, removal'[q]
               PROVE  pods'[q].phase \in Gone
    BY DEF DeregisteredAfterDeletion
  <2>1. CASE q # r
    BY <1>7, <2>1 DEF DeregisteredAfterDeletion
  <2>2. CASE q = r
    BY <2>2, DeletionEffect DEF DeregisteredAfterDeletion, Terminated, Pod, TypeOK, Gone
  <2>3. QED
    BY <2>1, <2>2
<1>10. Removing'
  <2> SUFFICES ASSUME NEW q \in Runners, failures' = 0, runner[q] = "registered",
                      worker'[q] # "create", pods'[q].phase \in Gone
               PROVE  removal'[q] \/ q \in rolled
    BY DEF Removing
  <2>1. failures = 0
    BY DeletionEffect
  <2>2. worker[q] # "create"
    BY DEF TypeOK
  <2>3. CASE q # r
    BY <1>7, <2>1, <2>2, <2>3 DEF Removing
  <2>4. CASE q = r /\ pods[r].phase # "absent"
    BY <2>4, DeletionEffect DEF TypeOK
  <2>5. CASE q = r /\ pods[r].phase = "absent"
    BY <2>1, <2>2, <2>5, DeletionEffect DEF Removing
  <2>6. QED
    BY <2>3, <2>4, <2>5
<1>11. QED
  BY <1>4, <1>6, <1>8, <1>9, <1>10

(* A list of pods starts a batch of one kind, and no batch is under way then. *)
LEMMA HandleDesiredStep ==
  ASSUME LifecycleInv, NEW n \in 0 .. MaxJobs, HandleDesiredRunnerCount(n)
  PROVE  LifecycleInv'
<1> USE DEF LifecycleInv
<1>1. /\ op = "none" /\ left = 0 /\ jit = 0 /\ todo = {}
      /\ \A r \in Runners : worker[r] # "create"
  BY DEF HandleDesiredRunnerCount, OneBatch, TypeOK
<1>2. Target(n) \in Nat /\ Cardinality(Active) \in Nat
  BY SubsetCardinality, ScalerAssumption DEF Target, Active, ScalerAssumption
<1>3. cleanup' \in [Runners -> BOOLEAN]
  BY Zenon DEF HandleDesiredRunnerCount
<1>4. \/ op' = "create" /\ left' \in Nat /\ todo' = todo
      \/ op' = "delete" /\ left' = left /\ todo' \subseteq Runners
      \/ UNCHANGED <<op, left, todo>>
  BY <1>2 DEF HandleDesiredRunnerCount, ScaleUp, ScaleDown, kSubset, IdlePods, Active
<1>5. UNCHANGED <<pods, cached, runner, message, removal, rollout, rolled, jit, worker, failures>>
  BY DEF HandleDesiredRunnerCount, clusterVars, githubVars, rolloutVars
<1>6. TypeOK' /\ OneBatch'
  BY <1>1, <1>3, <1>4, <1>5 DEF TypeOK, OneBatch
<1>7. Creating' /\ Removing' /\ DeregisteredAfterDeletion'
  BY <1>5 DEF Creating, Removing, DeregisteredAfterDeletion
<1>8. QED
  BY <1>6, <1>7

(* A batch that starts workers, asks for registrations, creates pods, returns. *)
LEMMA BatchStepKeeps ==
  ASSUME LifecycleInv, BatchStep
  PROVE  LifecycleInv'
<1> USE ScalerAssumption DEF LifecycleInv, ScalerAssumption
<1>1. CASE BatchGo
  <2> USE <1>1 DEF BatchGo, clusterVars, githubVars, backgroundVars, rolloutVars
  <2>1. TypeOK' /\ OneBatch'
    BY DEF TypeOK, OneBatch
  <2>2. \A r \in Runners : worker'[r] = "create" <=> worker[r] = "create"
    BY DEF TypeOK, OneBatch
  <2>3. QED
    BY <2>1, <2>2 DEF Creating, Removing, DeregisteredAfterDeletion
<1>2. CASE BatchReturns
  <2> USE <1>2 DEF BatchReturns, clusterVars, githubVars, backgroundVars, rolloutVars
  <2>1. jit = 0 /\ Working = {}
    <3>1. Working \in SUBSET Runners
      BY DEF Working
    <3>2. Cardinality(Working) \in Nat /\ jit \in Nat /\ jit + Cardinality(Working) = 0
      BY <3>1, SubsetCardinality DEF Inflight, TypeOK
    <3>3. jit = 0 /\ Cardinality(Working) = 0
      BY <3>2
    <3>4. QED
      BY <3>1, <3>3, SubsetCardinality, Zenon
  <2>2. TypeOK' /\ OneBatch'
    BY <2>1 DEF TypeOK, OneBatch, Working
  <2>3. QED
    BY <2>2 DEF Creating, Removing, DeregisteredAfterDeletion
<1>3. CASE JitSucceeds
  <2> USE DEF JitSucceeds, clusterVars, backgroundVars, rolloutVars
  <2>1. PICK r \in Unused : /\ runner' = [runner EXCEPT ![r] = "registered"]
                             /\ worker' = [worker EXCEPT ![r] = "create"]
                             /\ rolled' = rolled \ {r}
    BY <1>3
  <2>2. r \in Runners /\ pods[r] = Absent /\ ~removal[r]
    BY DEF Unused
  <2>3. TypeOK' /\ OneBatch'
    <3>1. worker' \in [Runners -> {"none", "create", "delete"}]
      BY <2>1, <2>2 DEF TypeOK
    <3>2. runner' \in [Runners -> {"none", "registered", "busy"}]
      BY <2>1, <2>2 DEF TypeOK
    <3>3. TypeOK'
      BY <1>3, <2>1, <3>1, <3>2 DEF TypeOK
    <3>4. op = "create"
      BY <1>3 DEF OneBatch
    <3>5. QED
      BY <1>3, <2>1, <3>3, <3>4 DEF TypeOK, OneBatch
  <2>4. Creating' /\ DeregisteredAfterDeletion'
    BY <1>3, <2>1, <2>2 DEF Creating, DeregisteredAfterDeletion, TypeOK
  <2>5. Removing'
    BY <1>3, <2>1, <2>2 DEF Removing, TypeOK
  <2>6. QED
    BY <2>3, <2>4, <2>5
<1>4. CASE JitFails
  <2> USE <1>4 DEF JitFails, Fail, clusterVars, backgroundVars, rolloutVars
  <2>1. runner' \in [Runners -> {"none", "registered", "busy"}]
    BY DEF TypeOK, Unused
  <2>2. TypeOK' /\ OneBatch' /\ failures' # 0
    BY <2>1 DEF TypeOK, OneBatch
  <2>3. QED
    BY <2>2 DEF Creating, Removing, DeregisteredAfterDeletion
<1>5. ASSUME NEW r \in Runners, CreateSucceeds(r) \/ CreateFails(r)
      PROVE  LifecycleInv'
  <2> USE <1>5 DEF CreateSucceeds, CreateFails, Fail, githubVars, backgroundVars, rolloutVars
  <2>1. /\ pods' \in {pods, [pods EXCEPT ![r] = Pod("pending", "idle")]}
        /\ pods' # pods \/ failures' # 0
        /\ failures' = 0 => failures = 0
    BY DEF TypeOK, Creating, Absent, Pod
  <2>2. TypeOK'
    <3>1. pods' \in [Runners -> [phase : Phases, label : {"idle", "busy"}]]
      BY <2>1 DEF TypeOK, Pod, Phases
    <3>2. removal' \in [Runners -> BOOLEAN] /\ cleanup' \in [Runners -> BOOLEAN]
      BY DEF TypeOK
    <3>3. failures' \in 0 .. MaxFailures
      BY DEF TypeOK
    <3>4. worker' \in [Runners -> {"none", "create", "delete"}]
      BY DEF TypeOK
    <3>5. QED
      BY <3>1, <3>2, <3>3, <3>4 DEF TypeOK
  <2>3. \A q \in Runners : worker'[q] = "create" => q # r /\ worker[q] = "create"
    BY DEF TypeOK
  <2>4. OneBatch' /\ Creating'
    BY <2>1, <2>3 DEF OneBatch, Creating, TypeOK
  <2>5. DeregisteredAfterDeletion'
    BY <2>1 DEF DeregisteredAfterDeletion, Creating, TypeOK
  <2>6. Removing'
    <3> SUFFICES ASSUME NEW q \in Runners, failures' = 0, runner[q] = "registered",
                        worker'[q] # "create", pods'[q].phase \in Gone
                 PROVE  removal[q] \/ q \in rolled
      BY DEF Removing
    <3>1. CASE q # r
      BY <2>1, <3>1 DEF Removing, TypeOK
    <3>2. CASE q = r
      BY <2>1, <3>2 DEF TypeOK, Pod, Gone
    <3>3. QED
      BY <3>1, <3>2
  <2>7. QED
    BY <2>2, <2>4, <2>5, <2>6
<1>6. ASSUME NEW r \in Runners, BatchDelete(r)
      PROVE  LifecycleInv'
  BY <1>6, DeletionStep DEF BatchDelete, githubVars, rolloutVars, TypeOK
<1>7. QED
  BY <1>1, <1>2, <1>3, <1>4, <1>5, <1>6 DEF BatchStep

(* What GitHub, the kubelet, the informer and the background goroutines do. *)
LEMMA RunnerStepKeeps ==
  ASSUME LifecycleInv, NEW r \in Runners,
         \/ HandleJobStarted(r) \/ HandleJobCompleted(r)
         \/ Background(r) \/ CacheSync(r) \/ Environment(r)
  PROVE  LifecycleInv'
<1> USE ScalerAssumption DEF LifecycleInv, ScalerAssumption, workVars, githubVars, clusterVars,
        backgroundVars, rolloutVars
<1>1. CASE HandleJobStarted(r)
  <2>1. /\ UNCHANGED <<runner, removal, cleanup, rollout, rolled, op, left, todo, jit, worker, cached>>
        /\ message' \in [Runners -> SUBSET {"started", "completed"}]
        /\ failures' \in 0 .. MaxFailures /\ (failures' = 0 => failures = 0)
        /\ \/ pods' = pods
           \/ pods[r].phase \in Running /\ pods' = [pods EXCEPT ![r].label = "busy"]
    BY <1>1 DEF HandleJobStarted, Received, Fail, TypeOK
  <2>2. \A q \in Runners : pods'[q].phase = pods[q].phase
    BY <2>1 DEF TypeOK
  <2>3. pods' \in [Runners -> [phase : Phases, label : {"idle", "busy"}]]
    BY <2>1 DEF TypeOK
  <2>4. TypeOK' /\ OneBatch'
    BY <2>1, <2>3 DEF TypeOK, OneBatch
  <2>5. Removing' /\ DeregisteredAfterDeletion'
    BY <2>1, <2>2 DEF Removing, DeregisteredAfterDeletion
  <2>6. Creating'
    BY <2>1 DEF Creating, TypeOK, Absent, Pod, Running
  <2>7. QED
    BY <2>4, <2>5, <2>6
<1>2. CASE HandleJobCompleted(r)
  <2>1. /\ UNCHANGED <<runner, cleanup, rollout, rolled, op, left, todo, jit, worker, cached>>
        /\ message' \in [Runners -> SUBSET {"started", "completed"}]
    BY <1>2 DEF HandleJobCompleted, Received, TypeOK
  <2>2. CASE cached[r] = Absent
    <3>1. UNCHANGED <<pods, removal, failures>>
      BY <1>2, <2>2 DEF HandleJobCompleted
    <3>2. QED
      BY <2>1, <3>1 DEF TypeOK, OneBatch, Creating, Removing, DeregisteredAfterDeletion
  <2>3. CASE cached[r] # Absent
    <3>1. DeleteSucceeds(r) \/ DeleteFails(r)
      BY <1>2, <2>3 DEF HandleJobCompleted
    <3>2. cleanup' \in [Runners -> BOOLEAN]
      BY <2>1 DEF TypeOK
    <3>3. QED
      BY <2>1, <3>1, <3>2, DeletionStep
  <2>4. QED
    BY <2>2, <2>3
<1>3. CASE CleanupDelete(r)
  <2>1. cleanup' \in [Runners -> BOOLEAN]
    BY <1>3, Zenon DEF CleanupDelete, TypeOK
  <2>2. /\ UNCHANGED <<runner, message, rollout, rolled, op, left, todo, jit, worker, cached>>
        /\ DeleteSucceeds(r) \/ DeleteFails(r)
        /\ message' \in [Runners -> SUBSET {"started", "completed"}]
    BY <1>3 DEF CleanupDelete, TypeOK
  <2>3. QED
    BY <2>1, <2>2, DeletionStep
<1>4. CASE RemoveSucceeds(r) \/ RemoveFails(r)
  <2>1. removal' \in [Runners -> BOOLEAN] /\ removal' = [removal EXCEPT ![r] = FALSE]
    BY <1>4, Zenon DEF RemoveSucceeds, RemoveFails, TypeOK
  <2>2. /\ UNCHANGED <<pods, cached, message, cleanup, rollout, rolled, op, left, todo, jit, worker>>
        /\ runner' \in [Runners -> {"none", "registered", "busy"}]
        /\ failures' \in 0 .. MaxFailures /\ (failures' = 0 => failures = 0)
        /\ failures' = 0 => runner'[r] # "registered"
        /\ \A q \in Runners : q # r => runner'[q] = runner[q]
    BY <1>4 DEF RemoveSucceeds, RemoveFails, Fail, TypeOK
  <2>3. TypeOK' /\ OneBatch'
    BY <2>1, <2>2 DEF TypeOK, OneBatch
  <2>4. \A q \in Runners : (removal'[q] => removal[q]) /\ (q # r => (removal'[q] <=> removal[q]))
    BY <2>1 DEF TypeOK
  <2>5. QED
    BY <2>2, <2>3, <2>4 DEF Creating, Removing, DeregisteredAfterDeletion
<1>5. CASE CacheSync(r)
  <2>1. TypeOK'
    BY <1>5 DEF CacheSync, TypeOK
  <2>2. QED
    BY <1>5, <2>1 DEF CacheSync, OneBatch, Creating, Removing, DeregisteredAfterDeletion
<1>6. ASSUME NEW from, NEW to \in Phases \ Gone, PodAdvances(r, from, to),
             from \cap Gone = {}
      PROVE  LifecycleInv'
  <2>1. /\ UNCHANGED <<cached, runner, message, removal, cleanup, rollout, rolled, op, left, todo, jit, worker, failures>>
        /\ pods[r].phase \notin Gone
        /\ pods' = [pods EXCEPT ![r] = Pod(to, "idle")]
    BY <1>6 DEF PodAdvances
  <2>2. TypeOK' /\ OneBatch'
    BY <1>6, <2>1 DEF TypeOK, OneBatch, Pod
  <2>3. Creating'
    BY <2>1 DEF Creating, Absent, Pod, TypeOK, Gone
  <2>4. ~removal[r]
    BY <2>1 DEF DeregisteredAfterDeletion
  <2>5. Removing' /\ DeregisteredAfterDeletion'
    BY <1>6, <2>1, <2>4 DEF Removing, DeregisteredAfterDeletion, TypeOK, Pod
  <2>6. QED
    BY <2>2, <2>3, <2>5
<1>7. CASE PodStarts(r) \/ PodStartsLate(r) \/ PodGetsStuck(r) \/ PodFinishes(r)
  BY <1>6, <1>7 DEF PodStarts, PodStartsLate, PodGetsStuck, PodFinishes, Phases, Running, Gone
<1>8. CASE PodVanishes(r)
  <2>1. /\ UNCHANGED <<cached, runner, message, removal, cleanup, rollout, rolled, op, left, todo, jit, worker, failures>>
        /\ pods[r].phase = "terminating" /\ pods' = [pods EXCEPT ![r] = Absent]
    BY <1>8 DEF PodVanishes
  <2>2. TypeOK' /\ OneBatch'
    BY <2>1 DEF TypeOK, OneBatch, Absent, Pod, Phases
  <2>3. QED
    BY <2>1, <2>2 DEF Creating, Removing, DeregisteredAfterDeletion, TypeOK, Absent, Pod, Gone
<1>9. CASE JobStarts(r) \/ JobEnds(r) \/ MessageLost(r)
  <2>1. /\ UNCHANGED <<pods, cached, removal, cleanup, rollout, rolled, op, left, todo, jit, worker>>
        /\ \A q \in Runners : runner'[q] = "registered" => runner[q] = "registered"
        /\ failures' = 0 => failures = 0
    BY <1>9 DEF JobStarts, JobEnds, MessageLost, Fail, TypeOK
  <2>2. TypeOK'
    <3>1. message' \in [Runners -> SUBSET {"started", "completed"}]
      <4>1. message[r] \subseteq {"started", "completed"}
        BY DEF TypeOK
      <4>2. PICK m \in SUBSET {"started", "completed"} : message' = [message EXCEPT ![r] = m]
        BY <1>9, <4>1, Zenon DEF JobStarts, JobEnds, MessageLost
      <4>3. QED
        BY <4>2 DEF TypeOK
    <3>2. runner' \in {runner, [runner EXCEPT ![r] = "busy"], [runner EXCEPT ![r] = "none"]}
      BY <1>9 DEF JobStarts, JobEnds, MessageLost
    <3>3. runner' \in [Runners -> {"none", "registered", "busy"}]
      BY <3>2 DEF TypeOK
    <3>4. failures' \in 0 .. MaxFailures
      BY <1>9 DEF JobStarts, JobEnds, MessageLost, Fail, TypeOK
    <3>5. QED
      BY <2>1, <3>1, <3>3, <3>4 DEF TypeOK
  <2>3. QED
    BY <2>1, <2>2 DEF OneBatch, Creating, Removing, DeregisteredAfterDeletion
<1>10. CASE RolloutDelete(r)
  <2>1. /\ UNCHANGED <<cached, runner, message, removal, cleanup, op, left, todo, jit, worker, failures>>
        /\ rollout' \subseteq Runners /\ rolled' \subseteq Runners /\ rolled \subseteq rolled'
        /\ \/ pods' = pods
           \/ /\ pods[r].phase # "absent" /\ pods' = Terminated(r)
              /\ runner[r] = "registered" /\ pods[r].phase # "terminating" => r \in rolled'
    BY <1>10 DEF RolloutDelete, TypeOK
  <2>2. TypeOK' /\ OneBatch'
    <3>1. Pod("terminating", "idle") \in [phase : Phases, label : {"idle", "busy"}]
      BY DEF Pod, Phases
    <3>2. pods' \in [Runners -> [phase : Phases, label : {"idle", "busy"}]]
      BY <2>1, <3>1 DEF TypeOK, Terminated
    <3>3. TypeOK'
      BY <2>1, <3>2 DEF TypeOK
    <3>4. OneBatch'
      BY <2>1 DEF OneBatch
    <3>5. QED
      BY <3>3, <3>4
  <2>3. Creating' /\ DeregisteredAfterDeletion'
    <3>1. \A q \in Runners : \/ pods'[q] = pods[q]
                             \/ pods[q].phase # "absent" /\ pods'[q].phase = "terminating"
      BY <2>1 DEF TypeOK, Terminated, Pod
    <3>2. Absent.phase = "absent"
      BY DEF Absent, Pod
    <3>3. QED
      BY <2>1, <3>1, <3>2 DEF Creating, DeregisteredAfterDeletion, Gone
  <2>4. Removing'
    BY <2>1 DEF Removing, TypeOK, Terminated, Pod, Gone
  <2>5. QED
    BY <2>2, <2>3, <2>4
<1>11. QED
  BY <1>1, <1>2, <1>3, <1>4, <1>5, <1>7, <1>8, <1>9, <1>10 DEF Background, Environment

(* The invariant of the scaler, types included, holds throughout. *)
THEOREM LifecycleInvariant == Spec => []LifecycleInv
<1>1. Init => LifecycleInv
  BY LifecycleInit
<1>2. LifecycleInv /\ [Next]_vars => LifecycleInv'
  <2> SUFFICES ASSUME LifecycleInv, [Next]_vars PROVE LifecycleInv'
    OBVIOUS
  <2>1. CASE UNCHANGED vars
    BY <2>1 DEF vars, clusterVars, githubVars, backgroundVars, rolloutVars, workVars, LifecycleInv, TypeOK,
                OneBatch, Creating, Removing, DeregisteredAfterDeletion
  <2>2. CASE Next /\ ~Rollout
    BY <2>2, HandleDesiredStep, BatchStepKeeps, RunnerStepKeeps DEF Next, HandleDesired
  <2>3. CASE Rollout
    BY <2>3 DEF Rollout, clusterVars, githubVars, workVars, LifecycleInv, TypeOK, OneBatch,
                Creating, Removing, DeregisteredAfterDeletion
  <2>4. QED
    BY <2>1, <2>2, <2>3 DEF Next
<1>3. QED
  BY <1>1, <1>2, PTL DEF Spec

(* The variables keep their types: in particular no batch creates more pods than
   it was asked to, and no worker is counted twice. *)
THEOREM ScalerTypes == Spec => []TypeOK
<1>1. LifecycleInv => TypeOK
  BY DEF LifecycleInv
<1>2. QED
  BY <1>1, LifecycleInvariant, PTL

(* deleteRunnerPod deregisters a runner only when Delete succeeded: whoever is
   about to be removed from GitHub has no pod that could still take a job. *)
THEOREM DeregistrationOrder == Spec => []DeregisteredAfterDeletion
<1>1. LifecycleInv => DeregisteredAfterDeletion
  BY DEF LifecycleInv
<1>2. QED
  BY <1>1, LifecycleInvariant, PTL

(* Whatever the interleaving of batches, cleanup, job messages and removals, a
   registration without a pod is the trace of a call that failed or of a rollout. *)
THEOREM LeaksAreFailures == Spec => []LeakNeedsFailure
<1>1. LifecycleInv => LeakNeedsFailure
  BY ScalerAssumption DEF LifecycleInv, LeakNeedsFailure, Removing, TypeOK, Absent, Pod, Gone, ScalerAssumption
<1>2. QED
  BY <1>1, LifecycleInvariant, PTL

-------------------------------------------------------------------------------
(* maxRunners.  Sets of names are finite, so that counting is monotone. *)
LEMMA Counting ==
  ASSUME NEW S \in SUBSET Runners, NEW T \in SUBSET Runners
  PROVE  /\ Cardinality(S) \in Nat
         /\ S \subseteq T => Cardinality(S) <= Cardinality(T)
         /\ Cardinality(S \cup T) <= Cardinality(S) + Cardinality(T)
<1>1. /\ IsFiniteSet(S) /\ IsFiniteSet(T) /\ IsFiniteSet(S \cap T)
      /\ Cardinality(S) \in Nat /\ Cardinality(T) \in Nat /\ Cardinality(S \cap T) \in Nat
  BY FS_Subset, FS_CardinalityType, ScalerAssumption DEF ScalerAssumption
<1>2. S \subseteq T => Cardinality(S) <= Cardinality(T)
  BY <1>1, FS_Subset
<1>3. Cardinality(S \cup T) = Cardinality(S) + Cardinality(T) - Cardinality(S \cap T)
  BY <1>1, FS_Union
<1>4. QED
  BY <1>1, <1>2, <1>3

(* One more name adds at most one. *)
LEMMA CountingOne ==
  ASSUME NEW S \in SUBSET Runners, NEW r \in Runners
  PROVE  Cardinality(S \cup {r}) <= Cardinality(S) + 1
<1>1. IsFiniteSet(S) /\ Cardinality(S) \in Nat
  BY FS_Subset, FS_CardinalityType, ScalerAssumption DEF ScalerAssumption
<1>2. Cardinality(S \cup {r}) = IF r \in S THEN Cardinality(S) ELSE Cardinality(S) + 1
  BY <1>1, FS_AddElement
<1>3. QED
  BY <1>1, <1>2

(* Whatever starts no batch and adds no pod keeps the count. *)
LEMMA QuietStep ==
  ASSUME TypeOK, TypeOK', CountInv,
         op' = "create" => op = "create", jit' + left' <= jit + left,
         \A r \in Runners : /\ pods'[r].phase \in {"pending", "running"}
                                => pods[r].phase \in {"pending", "running"}
                            /\ worker'[r] = "create" => worker[r] = "create"
  PROVE  CountInv'
<1>1. /\ InTime' \subseteq InTime /\ Expected' \subseteq Expected
      /\ InTime \subseteq Runners /\ Expected \subseteq Runners
  BY DEF InTime, Expected
<1>2. Cardinality(InTime') <= Cardinality(InTime) /\ Cardinality(Expected') <= Cardinality(Expected)
  BY <1>1, Counting
<1>3. /\ Cardinality(InTime) \in Nat /\ Cardinality(Expected) \in Nat
      /\ Cardinality(InTime') \in Nat /\ Cardinality(Expected') \in Nat
  BY <1>1, Counting
<1>4. jit \in Nat /\ left \in Nat /\ jit' \in Nat /\ left' \in Nat
  BY DEF TypeOK
<1>5. Cardinality(InTime') <= MaxRunners + MaxStale
  BY <1>2, <1>3, ScalerAssumption DEF CountInv, ScalerAssumption
<1>6. ASSUME op' = "create"
      PROVE  Cardinality(Expected') + jit' + left' <= MaxRunners + MaxStale
  <2>1. Cardinality(Expected) + jit + left <= MaxRunners + MaxStale
    BY <1>6 DEF CountInv
  <2>2. Cardinality(Expected') + (jit' + left') <= Cardinality(Expected) + (jit + left)
    <3>1. jit' + left' \in Nat /\ jit + left \in Nat
      BY <1>4
    <3>2. \A a, b, c, d \in Nat : a <= b /\ c <= d => a + c <= b + d
      OBVIOUS
    <3>3. QED
      BY <1>2, <1>3, <3>1, <3>2, Zenon
  <2>3. QED
    BY <1>3, <1>4, <2>1, <2>2, ScalerAssumption DEF ScalerAssumption
<1>7. QED
  BY <1>5, <1>6 DEF CountInv

(* A list misses at most MaxStale pods, and a batch fills up the rest. *)
LEMMA ListCounts ==
  ASSUME LifecycleInv, LifecycleInv', CountInv,
         NEW n \in 0 .. MaxJobs, HandleDesiredRunnerCount(n)
  PROVE  CountInv'
<1>1. /\ op = "none" /\ left = 0 /\ jit = 0
      /\ \A r \in Runners : worker[r] # "create"
  BY DEF HandleDesiredRunnerCount, OneBatch, TypeOK, LifecycleInv
<1>2. UNCHANGED <<pods, cached, worker, jit>>
  BY DEF HandleDesiredRunnerCount, clusterVars
<1>3. InTime' = InTime /\ Expected' = InTime
  BY <1>1, <1>2 DEF InTime, Expected
<1>4. /\ InTime \subseteq Active \cup OutOfDate
      /\ InTime \subseteq Runners /\ Active \subseteq Runners /\ OutOfDate \subseteq Runners
  BY DEF InTime, Active, OutOfDate, Running
<1>5. Cardinality(InTime) <= Cardinality(Active \cup OutOfDate)
  BY <1>4, Counting
<1>6. Cardinality(Active \cup OutOfDate) <= Cardinality(Active) + Cardinality(OutOfDate)
  BY <1>4, Counting
<1>7. Cardinality(OutOfDate) <= MaxStale
  BY DEF HandleDesiredRunnerCount
<1>8. /\ Cardinality(InTime) \in Nat /\ Cardinality(Active) \in Nat
      /\ Cardinality(OutOfDate) \in Nat /\ Cardinality(Active \cup OutOfDate) \in Nat
  BY <1>4, Counting
<1>9. op' = "create" => left' = Target(n) - Cardinality(Active)
  BY <1>1 DEF HandleDesiredRunnerCount, ScaleUp, ScaleDown
<1>10. Target(n) \in Nat /\ Target(n) <= MaxRunners
  BY ScalerAssumption DEF Target, ScalerAssumption
<1>11. op' = "create" => Cardinality(InTime) + jit' + left' <= MaxRunners + MaxStale
  BY <1>1, <1>2, <1>5, <1>6, <1>7, <1>8, <1>9, <1>10, ScalerAssumption DEF ScalerAssumption
<1>12. QED
  BY <1>3, <1>11 DEF CountInv

(* A batch creates what it was asked for and no more. *)
LEMMA BatchCounts ==
  ASSUME LifecycleInv, LifecycleInv', CountInv, BatchStep
  PROVE  CountInv'
<1> USE DEF LifecycleInv
<1>1. CASE BatchGo
  <2>1. UNCHANGED <<op, pods>>
    BY <1>1 DEF BatchGo, clusterVars
  <2>2. jit' + left' <= jit + left
    <3>1. jit \in Nat /\ left \in Nat
      BY DEF TypeOK
    <3>2. \/ left' = left - 1 /\ jit' = jit + 1
          \/ UNCHANGED <<left, jit>>
      BY <1>1 DEF BatchGo
    <3>3. QED
      BY <3>1, <3>2
  <2>3. \A r \in Runners : worker'[r] = "create" => worker[r] = "create"
    <3>1. worker' = worker \/ \E r \in todo : worker' = [worker EXCEPT ![r] = "delete"]
      BY <1>1 DEF BatchGo
    <3>2. QED
      BY <3>1 DEF TypeOK
  <2>4. QED
    BY <2>1, <2>2, <2>3, QuietStep
<1>2. CASE BatchReturns
  <2>1. UNCHANGED <<pods, worker, jit>> /\ op' = "none" /\ jit' + left' <= jit + left
    BY <1>2 DEF BatchReturns, TypeOK, clusterVars
  <2>2. QED
    BY <2>1, QuietStep
<1>3. CASE JitSucceeds
  <2>1. PICK r \in Unused : worker' = [worker EXCEPT ![r] = "create"]
    BY <1>3 DEF JitSucceeds
  <2>2. /\ r \in Runners /\ UNCHANGED <<pods, op, left>> /\ op = "create"
        /\ jit > 0 /\ jit' = jit - 1
    BY <1>3 DEF Unused, JitSucceeds, clusterVars, OneBatch
  <2>3. /\ InTime' = InTime /\ Expected' \subseteq Expected \cup {r}
        /\ Expected \subseteq Runners /\ Expected' \subseteq Runners
    BY <2>1, <2>2 DEF InTime, Expected, TypeOK
  <2>4. Cardinality(Expected') <= Cardinality(Expected \cup {r})
    BY <2>2, <2>3, Counting
  <2>5. Cardinality(Expected \cup {r}) <= Cardinality(Expected) + 1
    BY <2>2, <2>3, CountingOne
  <2>6. /\ Cardinality(Expected') \in Nat /\ Cardinality(Expected) \in Nat
        /\ Cardinality(Expected \cup {r}) \in Nat /\ jit \in Nat /\ left \in Nat
    BY <2>2, <2>3, Counting DEF TypeOK
  <2>7. Cardinality(Expected') + jit' + left' <= MaxRunners + MaxStale
    BY <2>2, <2>4, <2>5, <2>6, ScalerAssumption DEF CountInv, ScalerAssumption
  <2>8. QED
    BY <2>3, <2>7 DEF CountInv
<1>4. CASE JitFails
  <2>1. UNCHANGED <<pods, worker, op, left>> /\ jit' + left' <= jit + left
    BY <1>4 DEF JitFails, TypeOK, clusterVars
  <2>2. QED
    BY <2>1, QuietStep
<1>5. ASSUME NEW r \in Runners, CreateSucceeds(r) \/ CreateFails(r)
      PROVE  CountInv'
  <2>1. /\ UNCHANGED <<op, left, jit>> /\ op = "create" /\ worker[r] = "create"
        /\ worker' = [worker EXCEPT ![r] = "none"]
        /\ \E pod : pods' = [pods EXCEPT ![r] = pod]
    BY <1>5 DEF CreateSucceeds, CreateFails, OneBatch
  <2>2. /\ InTime' \subseteq Expected /\ Expected' \subseteq Expected
        /\ Expected \subseteq Runners
    BY <2>1 DEF InTime, Expected, TypeOK
  <2>3. /\ Cardinality(InTime') <= Cardinality(Expected)
        /\ Cardinality(Expected') <= Cardinality(Expected)
        /\ Cardinality(InTime') \in Nat /\ Cardinality(Expected') \in Nat
        /\ Cardinality(Expected) \in Nat /\ jit \in Nat /\ left \in Nat
    BY <2>2, Counting DEF TypeOK
  <2>4. Cardinality(InTime)' = Cardinality(InTime') /\ Cardinality(Expected)' = Cardinality(Expected')
    OBVIOUS
  <2>5. QED
    BY <2>1, <2>3, <2>4, ScalerAssumption DEF CountInv, ScalerAssumption
<1>6. ASSUME NEW r \in Runners, BatchDelete(r)
      PROVE  CountInv'
  <2>1. /\ UNCHANGED <<op, left, jit>>
        /\ worker' = [worker EXCEPT ![r] = "none"]
        /\ pods' \in {pods, Terminated(r)}
    BY <1>6, DeletionEffect DEF BatchDelete
  <2>2. \A q \in Runners : worker'[q] = "create" => worker[q] = "create"
    BY <2>1 DEF TypeOK
  <2>3. jit' + left' <= jit + left
    BY <2>1 DEF TypeOK
  <2>4. \A q \in Runners : pods'[q] = pods[q] \/ pods'[q].phase = "terminating"
    BY <2>1 DEF TypeOK, Terminated, Pod
  <2>5. QED
    BY <2>1, <2>2, <2>3, <2>4, QuietStep
<1>7. QED
  BY <1>1, <1>2, <1>3, <1>4, <1>5, <1>6 DEF BatchStep

(* Nothing else creates a pod or makes one younger. *)
LEMMA RunnerStepAddsNone ==
  ASSUME TypeOK, NEW r \in Runners,
         \/ HandleJobStarted(r) \/ HandleJobCompleted(r)
         \/ Background(r) \/ CacheSync(r) \/ Environment(r)
  PROVE  /\ UNCHANGED <<op, left, jit, worker>>
         /\ \A q \in Runners : pods'[q].phase \in {"pending", "running"}
                               => pods[q].phase \in {"pending", "running"}
<1>1. UNCHANGED <<op, left, jit, worker>>
  BY DEF HandleJobStarted, HandleJobCompleted, Background, CacheSync, Environment, workVars,
         CleanupDelete, RemoveSucceeds, RemoveFails, RolloutDelete, PodStarts, PodStartsLate,
         PodGetsStuck, PodFinishes, PodAdvances, PodVanishes, JobStarts, JobEnds, MessageLost
<1>2. \/ pods' = pods \/ pods' = Terminated(r)
      \/ pods' = [pods EXCEPT ![r].label = "busy"]
      \/ \E phase \in {"late", "stuck", "finished"} : pods' = [pods EXCEPT ![r] = Pod(phase, "idle")]
      \/ pods[r].phase = "pending" /\ pods' = [pods EXCEPT ![r] = Pod("running", "idle")]
      \/ pods' = [pods EXCEPT ![r] = Absent]
  <2>1. CASE HandleJobStarted(r)
    BY <2>1 DEF HandleJobStarted
  <2>2. CASE HandleJobCompleted(r) \/ CleanupDelete(r)
    BY <2>2, DeletionEffect DEF HandleJobCompleted, CleanupDelete
  <2>3. CASE RemoveSucceeds(r) \/ RemoveFails(r) \/ RolloutDelete(r) \/ CacheSync(r)
    BY <2>3 DEF RemoveSucceeds, RemoveFails, RolloutDelete, CacheSync, clusterVars
  <2>4. CASE Environment(r)
    BY <2>4 DEF Environment, PodStarts, PodStartsLate, PodGetsStuck, PodFinishes, PodAdvances,
                PodVanishes, JobStarts, JobEnds, MessageLost, clusterVars
  <2>5. QED
    BY <2>1, <2>2, <2>3, <2>4 DEF Background
<1>3. \A q \in Runners : pods'[q].phase \in {"pending", "running"}
                           => pods[q].phase \in {"pending", "running"}
  <2>1. \A q \in Runners : q # r => pods'[q] = pods[q]
    BY <1>2 DEF TypeOK, Terminated
  <2>2. CASE pods' = [pods EXCEPT ![r].label = "busy"]
    BY <2>1, <2>2 DEF TypeOK
  <2>3. CASE pods' # [pods EXCEPT ![r].label = "busy"]
    <3>1. \/ pods'[r] = pods[r] \/ pods[r].phase = "pending"
          \/ \E phase \in {"terminating", "late", "stuck", "finished", "absent"} :
                pods'[r] = [phase |-> phase, label |-> "idle"]
      BY <1>2, <2>3 DEF TypeOK, Terminated, Pod, Absent
    <3>2. QED
      BY <2>1, <3>1
  <2>4. QED
    BY <2>2, <2>3
<1>4. QED
  BY <1>1, <1>3

LEMMA RunnerStepCounts ==
  ASSUME LifecycleInv, LifecycleInv', CountInv, NEW r \in Runners,
         \/ HandleJobStarted(r) \/ HandleJobCompleted(r)
         \/ Background(r) \/ CacheSync(r) \/ Environment(r)
  PROVE  CountInv'
<1>1. TypeOK /\ TypeOK'
  BY DEF LifecycleInv
<1>2. /\ UNCHANGED <<op, left, jit, worker>>
      /\ \A q \in Runners : pods'[q].phase \in {"pending", "running"}
                            => pods[q].phase \in {"pending", "running"}
  BY <1>1, RunnerStepAddsNone
<1>3. jit' + left' <= jit + left
  BY <1>1, <1>2 DEF TypeOK
<1>4. QED
  BY <1>1, <1>2, <1>3, QuietStep

(* HandleDesiredRunnerCount exceeds maxRunners by at most the pods that one list
   can miss, however many lists, failures and rollouts there were before. *)
THEOREM MaxRunnersHolds == Spec => []MaxRunnersRespected
<1>1. Init => CountInv
  <2> SUFFICES ASSUME Init PROVE CountInv
    OBVIOUS
  <2>1. InTime = {} /\ op # "create"
    BY DEF Init, InTime, Absent, Pod
  <2>2. QED
    BY <2>1, FS_EmptySet, ScalerAssumption DEF CountInv, ScalerAssumption
<1>2. LifecycleInv /\ LifecycleInv' /\ CountInv /\ [Next]_vars => CountInv'
  <2> SUFFICES ASSUME LifecycleInv, LifecycleInv', CountInv, [Next]_vars PROVE CountInv'
    OBVIOUS
  <2>1. CASE Rollout \/ UNCHANGED vars
    <3>1. UNCHANGED <<op, left, jit, worker, pods>>
      BY <2>1 DEF Rollout, vars, clusterVars, workVars
    <3>2. jit' + left' <= jit + left
      BY <3>1 DEF LifecycleInv, TypeOK
    <3>3. QED
      BY <3>1, <3>2, QuietStep DEF LifecycleInv
  <2>2. CASE Next /\ ~Rollout
    BY <2>2, ListCounts, BatchCounts, RunnerStepCounts DEF Next, HandleDesired
  <2>3. QED
    BY <2>1, <2>2 DEF Next
<1>3. CountInv => MaxRunnersRespected
  <2>1. /\ Present \subseteq InTime \cup Late
        /\ InTime \subseteq Runners /\ Late \subseteq Runners /\ Present \subseteq Runners
    BY DEF Present, InTime, Late, Running
  <2>2. /\ Cardinality(Present) <= Cardinality(InTime \cup Late)
        /\ Cardinality(InTime \cup Late) <= Cardinality(InTime) + Cardinality(Late)
    BY <2>1, Counting
  <2>3. /\ Cardinality(Present) \in Nat /\ Cardinality(InTime) \in Nat
        /\ Cardinality(Late) \in Nat /\ Cardinality(InTime \cup Late) \in Nat
    BY <2>1, Counting
  <2>4. QED
    BY <2>2, <2>3, ScalerAssumption DEF CountInv, MaxRunnersRespected, ScalerAssumption
<1>4. QED
  BY <1>1, <1>2, <1>3, LifecycleInvariant, PTL DEF Spec

-------------------------------------------------------------------------------
(* Scale-down.  Whatever picks no further pod and labels none keeps the count of
   busy pods that are picked. *)
LEMMA NoneTurnsBusy ==
  ASSUME BusyInv, TypeOK, Picked' \subseteq Picked,
         \A r \in Picked' : pods'[r].label = "busy" => pods[r].label = "busy"
  PROVE  FewBusyPicked'
<1>1. BusyPicked' \subseteq BusyPicked /\ BusyPicked \subseteq Runners
  BY DEF BusyPicked, Picked, TypeOK
<1>2. Cardinality(BusyPicked') <= Cardinality(BusyPicked)
  BY <1>1, Counting
<1>3. Cardinality(BusyPicked') \in Nat /\ Cardinality(BusyPicked) \in Nat
  BY <1>1, Counting
<1>4. Cardinality(BusyPicked') <= MaxStale
  BY <1>2, <1>3, ScalerAssumption DEF BusyInv, FewBusyPicked, ScalerAssumption
<1>5. QED
  BY <1>4 DEF FewBusyPicked

(* A list picks a busy pod only where it is out of date, and nothing is picked
   before. *)
LEMMA BusyListed ==
  ASSUME LifecycleInv, BusyInv, NEW n \in 0 .. MaxJobs, HandleDesiredRunnerCount(n)
  PROVE  BusyInv'
<1>1. op = "none" /\ todo = {} /\ \A r \in Runners : worker[r] # "delete"
  BY DEF HandleDesiredRunnerCount, LifecycleInv, OneBatch, BusyInv
<1>2. UNCHANGED <<pods, worker>>
  BY DEF HandleDesiredRunnerCount, clusterVars
<1>3. \A r \in todo' : r \in Runners /\ cached[r].label = "idle"
  BY <1>1 DEF HandleDesiredRunnerCount, ScaleUp, ScaleDown, kSubset, IdlePods, Active
<1>4. BusyPicked' \subseteq OutOfDate /\ OutOfDate \subseteq Runners
  BY <1>1, <1>2, <1>3 DEF BusyPicked, Picked, OutOfDate
<1>5. Cardinality(BusyPicked') <= Cardinality(OutOfDate)
  BY <1>4, Counting
<1>6. /\ Cardinality(BusyPicked') \in Nat /\ Cardinality(OutOfDate) \in Nat
      /\ Cardinality(OutOfDate) <= MaxStale
  BY <1>4, Counting DEF HandleDesiredRunnerCount
<1>7. Cardinality(BusyPicked') <= MaxStale
  BY <1>5, <1>6, ScalerAssumption DEF ScalerAssumption
<1>8. QED
  BY <1>1, <1>2, <1>7 DEF BusyInv, FewBusyPicked

(* The workers of a batch delete what it has listed. *)
LEMMA BusyBatch ==
  ASSUME LifecycleInv, BusyInv, BatchStep
  PROVE  BusyInv'
<1> USE DEF LifecycleInv
<1>1. CASE BatchGo
  <2>1. /\ Picked' \subseteq Picked /\ UNCHANGED <<pods, op>>
        /\ \A r \in Runners : worker'[r] = "delete" => worker[r] = "delete" \/ r \in todo
    BY <1>1 DEF BatchGo, Picked, clusterVars, TypeOK
  <2>2. \A r \in Runners : worker'[r] = "delete" => op' = "delete"
    BY <2>1 DEF BusyInv, OneBatch
  <2>3. QED
    BY <2>1, <2>2, NoneTurnsBusy DEF BusyInv
<1>2. CASE BatchReturns
  <2>1. Working = {}
    <3>1. Working \in SUBSET Runners
      BY DEF Working
    <3>2. Cardinality(Working) \in Nat /\ jit \in Nat /\ jit + Cardinality(Working) = 0
      BY <1>2, <3>1, SubsetCardinality DEF BatchReturns, Inflight, TypeOK
    <3>3. Cardinality(Working) = 0
      BY <3>2
    <3>4. QED
      BY <3>1, <3>3, SubsetCardinality, Zenon
  <2>2. Picked' \subseteq Picked /\ UNCHANGED <<pods, worker>>
    BY <1>2 DEF BatchReturns, Picked, clusterVars
  <2>3. \A r \in Runners : worker'[r] # "delete"
    BY <2>1, <2>2 DEF Working
  <2>4. QED
    BY <2>2, <2>3, NoneTurnsBusy DEF BusyInv
<1>3. CASE JitSucceeds \/ JitFails
  <2>1. /\ Picked' \subseteq Picked /\ UNCHANGED <<pods, op>>
        /\ \A r \in Runners : worker'[r] = "delete" => worker[r] = "delete"
    BY <1>3 DEF JitSucceeds, JitFails, Unused, Picked, clusterVars, TypeOK
  <2>2. QED
    BY <2>1, NoneTurnsBusy DEF BusyInv
<1>4. ASSUME NEW r \in Runners, CreateSucceeds(r) \/ CreateFails(r) \/ BatchDelete(r)
      PROVE  BusyInv'
  <2>1. /\ UNCHANGED <<todo, op>> /\ worker' = [worker EXCEPT ![r] = "none"]
        /\ \/ pods' \in {pods, Terminated(r)}
           \/ \E phase \in Phases : pods' = [pods EXCEPT ![r] = Pod(phase, "idle")]
    BY <1>4, DeletionEffect DEF BatchDelete, CreateSucceeds, CreateFails, Absent, Phases
  <2>2. \A q \in Runners : pods'[q].label \in {pods[q].label, "idle"}
    BY <2>1 DEF TypeOK, Terminated, Pod
  <2>3. /\ Picked' \subseteq Picked /\ Picked' \subseteq Runners
        /\ \A q \in Runners : worker'[q] = "delete" => worker[q] = "delete"
    BY <2>1 DEF Picked, TypeOK
  <2>4. QED
    BY <2>1, <2>2, <2>3, NoneTurnsBusy DEF BusyInv
<1>5. QED
  BY <1>1, <1>2, <1>3, <1>4 DEF BatchStep

(* Only HandleJobStarted labels a pod busy, and it waits for the batch to return. *)
LEMMA BusyLabelled ==
  ASSUME LifecycleInv, BusyInv, NEW r \in Runners,
         \/ HandleJobStarted(r) \/ HandleJobCompleted(r)
         \/ Background(r) \/ CacheSync(r) \/ Environment(r)
  PROVE  BusyInv'
<1> USE DEF LifecycleInv
<1>1. UNCHANGED <<op, todo, worker>>
  BY DEF HandleJobStarted, HandleJobCompleted, Background, CacheSync, Environment, workVars,
         CleanupDelete, RemoveSucceeds, RemoveFails, RolloutDelete, PodStarts, PodStartsLate,
         PodGetsStuck, PodFinishes, PodAdvances, PodVanishes, JobStarts, JobEnds, MessageLost
<1>2. Picked' = Picked /\ Picked \subseteq Runners
  BY <1>1 DEF Picked, TypeOK
<1>3. CASE HandleJobStarted(r)
  <2>1. op = "none"
    BY <1>3 DEF HandleJobStarted
  <2>2. Picked = {}
    BY <2>1 DEF Picked, OneBatch, BusyInv
  <2>3. QED
    BY <1>1, <1>2, <2>2, NoneTurnsBusy DEF BusyInv
<1>4. CASE ~HandleJobStarted(r)
  <2>1. \/ pods' = pods \/ pods' = Terminated(r)
        \/ \E phase \in Phases : pods' = [pods EXCEPT ![r] = Pod(phase, "idle")]
    <3>1. CASE HandleJobCompleted(r) \/ CleanupDelete(r)
      BY <3>1, DeletionEffect DEF HandleJobCompleted, CleanupDelete
    <3>2. CASE RemoveSucceeds(r) \/ RemoveFails(r) \/ RolloutDelete(r) \/ CacheSync(r)
      BY <3>2 DEF RemoveSucceeds, RemoveFails, RolloutDelete, CacheSync, clusterVars
    <3>3. CASE Environment(r)
      BY <3>3 DEF Environment, PodStarts, PodStartsLate, PodGetsStuck, PodFinishes, PodAdvances,
                  PodVanishes, JobStarts, JobEnds, MessageLost, clusterVars, Phases, Running, Absent
    <3>4. QED
      BY <1>4, <3>1, <3>2, <3>3 DEF Background
  <2>2. \A q \in Runners : pods'[q].label \in {pods[q].label, "idle"}
    BY <2>1 DEF TypeOK, Terminated, Pod
  <2>3. QED
    BY <1>1, <1>2, <2>2, NoneTurnsBusy DEF BusyInv
<1>5. QED
  BY <1>3, <1>4

(* handleScaleDown, whatever the lag of its list: no more pods of a known job are
   due for deletion than the list had missed, for the whole of the batch. *)
THEOREM BusyPicksBounded == Spec => []FewBusyPicked
<1>1. Init => BusyInv
  <2> SUFFICES ASSUME Init PROVE BusyInv
    OBVIOUS
  <2>1. BusyPicked = {} /\ \A r \in Runners : worker[r] # "delete"
    BY DEF Init, BusyPicked, Picked
  <2>2. QED
    BY <2>1, FS_EmptySet, ScalerAssumption DEF BusyInv, FewBusyPicked, ScalerAssumption
<1>2. LifecycleInv /\ BusyInv /\ [Next]_vars => BusyInv'
  <2> SUFFICES ASSUME LifecycleInv, BusyInv, [Next]_vars PROVE BusyInv'
    OBVIOUS
  <2>1. CASE Rollout \/ UNCHANGED vars
    BY <2>1 DEF Rollout, BusyInv, FewBusyPicked, BusyPicked, Picked, vars, clusterVars, workVars
  <2>2. CASE Next /\ ~Rollout
    BY <2>2, BusyListed, BusyBatch, BusyLabelled DEF Next, HandleDesired
  <2>3. QED
    BY <2>1, <2>2 DEF Next
<1>3. BusyInv => FewBusyPicked
  BY DEF BusyInv
<1>4. QED
  BY <1>1, <1>2, <1>3, LifecycleInvariant, PTL DEF Spec
=================================================================================
