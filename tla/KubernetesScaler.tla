--------------------------- MODULE KubernetesScaler ---------------------------
(****************************************************************************)
(* The scaler (internal/scaler): it lists the runner pods of a scale set    *)
(* from the informer cache, creates or deletes pods in batches until their  *)
(* number is what the queue asks for, labels pods busy when their job       *)
(* starts, deletes them when it completes, and deregisters the runners of   *)
(* deleted pods from GitHub in the background.                              *)
(*                                                                          *)
(* A runner is one name: its pod, its registration with GitHub and its job. *)
(* The scaler reads `cached`, a copy of `pods` that lags behind object by   *)
(* object; it writes `pods`.  A write with an out-of-date object is refused.*)
(* Calls to the API server and to GitHub may fail, with or without having   *)
(* taken effect.  Failures to register, create, delete or deregister are    *)
(* counted, for they can leave something behind, and so can be bounded.     *)
(*                                                                          *)
(* A batch is reduced to what BatchRunner shows of it: at most Limit of its *)
(* items are worked on at a time, it may give up before the last one, and   *)
(* it returns when no worker is left.                                       *)
(*                                                                          *)
(* The listener calls the scaler from one goroutine, and the debouncer in   *)
(* between answers a call when the scaler is done with it, so one handler   *)
(* runs at a time (OneHandler of DebouncedScaler); batch workers, cleanup   *)
(* and deregistration run beside it.  An error of List ends a handler       *)
(* before it changed anything and is a stuttering step here.                *)
(****************************************************************************)
EXTENDS Integers, FiniteSetsExt

CONSTANTS
    Runners,      \* runner names
    MinRunners, MaxRunners,   \* AutoscaleSet spec
    Limit,        \* constants.BatchMaxWorkers
    MaxJobs,      \* bound on the job count that GitHub reports
    MaxBusy,      \* bound on the number of runners that have a job
    MaxStale,     \* bound on the cached pods that are out of date when listed
    MaxStuck,     \* bound on the pods that are or were too long in Pending
    MaxRolled,    \* bound on the runners in rollout and rolled
    MaxFailures   \* bound on the number of failures that are counted

ASSUME ScalerAssumption ==
    /\ IsFiniteSet(Runners)
    /\ MinRunners \in Nat /\ MaxRunners \in Nat /\ MinRunners <= MaxRunners
    /\ MaxJobs \in Nat /\ MaxBusy \in Nat /\ MaxStale \in Nat /\ MaxStuck \in Nat
    /\ MaxRolled \in Nat /\ MaxFailures \in Nat

VARIABLES
    pods,         \* pods[r]: the pod in the API server: phase and state label
    cached,       \* cached[r]: the pod as the informer cache shows it
    runner,       \* runner[r] at GitHub: "none", "registered", "busy"
    message,      \* message[r]: job messages about r not yet handled
    removal,      \* removal[r]: a goroutine is about to deregister r
    cleanup,      \* cleanup[r]: a goroutine is about to delete r's dead pod
    rollout,      \* idle pods that a rollout has listed and not yet deleted
    rolled,       \* waiting runners whose pods were deleted by a rollout
    op,           \* what the handler does: "none", "create", "delete"
    left,         \* number of pods the batch has still to create
    todo,         \* pods the batch has still to delete
    jit,          \* number of workers that ask GitHub for a registration
    worker,       \* worker[r]: "none", "create", "delete"
    failures      \* number of calls that failed, those that only label aside

workVars == <<op, left, todo, jit, worker>>
clusterVars == <<pods, cached>>
githubVars == <<runner, message>>
rolloutVars == <<rollout, rolled>>
backgroundVars == <<removal, cleanup, rolloutVars>>
vars == <<clusterVars, githubVars, backgroundVars, workVars, failures>>

(* "stuck" is Pending for longer than PendingPodCleanupThreshold; "late" is
   Running after that, which the code cannot tell from "running". *)
Running == {"running", "late"}
Phases == {"absent", "pending", "stuck", "finished", "terminating"} \cup Running
Gone == {"terminating", "absent"}
Pod(phase, label) == [phase |-> phase, label |-> label]
Absent == Pod("absent", "idle")

TypeOK ==
    /\ pods \in [Runners -> [phase : Phases, label : {"idle", "busy"}]]
    /\ cached \in [Runners -> [phase : Phases, label : {"idle", "busy"}]]
    /\ runner \in [Runners -> {"none", "registered", "busy"}]
    /\ message \in [Runners -> SUBSET {"started", "completed"}]
    /\ removal \in [Runners -> BOOLEAN] /\ cleanup \in [Runners -> BOOLEAN]
    /\ op \in {"none", "create", "delete"}
    /\ todo \subseteq Runners /\ rollout \subseteq Runners /\ rolled \subseteq Runners
    /\ jit \in Nat /\ left \in Nat /\ failures \in 0 .. MaxFailures
    /\ worker \in [Runners -> {"none", "create", "delete"}]

Init ==
    /\ pods = [r \in Runners |-> Absent] /\ cached = pods
    /\ runner = [r \in Runners |-> "none"]
    /\ message = [r \in Runners |-> {}]
    /\ removal = [r \in Runners |-> FALSE] /\ cleanup = removal
    /\ rollout = {} /\ rolled = {}
    /\ op = "none" /\ left = 0 /\ todo = {} /\ jit = 0
    /\ worker = [r \in Runners |-> "none"]
    /\ failures = 0

Fail == failures < MaxFailures /\ failures' = failures + 1

(* A name that nothing refers to any more can stand for a new runner, whose
   name is a new UUID. *)
Unused == {r \in Runners : /\ pods[r] = Absent /\ cached[r] = Absent
                           /\ runner[r] = "none" /\ message[r] = {}
                           /\ ~removal[r] /\ ~cleanup[r]
                           /\ r \notin todo \cup rollout /\ worker[r] = "none"}

OutOfDate == {r \in Runners : cached[r] # pods[r]}

------------------------------------------------------------------------------
(* getRunnerPods and classifyRunnerPods, on the cache *)

Active == {r \in Runners : cached[r].phase \in {"pending"} \cup Running}

(* Seeded fault: only pods stuck in Pending are handed to the cleanup. *)
StuckPods == {r \in Runners : cached[r].phase = "stuck"}

Dead == {r \in Runners : cached[r].phase \in {"finished", "stuck"}}

(* Seeded fault: the limit is not applied. *)
TargetUnlimited(n) == MinRunners + n

Target(n) == IF MinRunners + n > MaxRunners THEN MaxRunners ELSE MinRunners + n

(* handleScaleUp: the bound on names makes the pool of names large enough. *)
ScaleUp(current, target) ==
    /\ target > current
    /\ target - current <= Cardinality(Unused)
    /\ left' = target - current
    /\ op' = "create"
    /\ UNCHANGED todo

(* Seeded fault: the state label is not looked at. *)
EveryPod == Active

(* filterIdlePods *)
IdlePods == {r \in Active : cached[r].label = "idle"}

(* handleScaleDown: the first idle pods in the order of the list, which is any
   order. *)
ScaleDown(current, target) ==
    /\ target < current
    /\ todo' \in kSubset(Min({current - target, Cardinality(IdlePods)}), IdlePods)
    /\ op' = "delete"
    /\ UNCHANGED left

(* HandleDesiredRunnerCount up to the start of the batch. *)
HandleDesiredRunnerCount(n) ==
    LET current == Cardinality(Active)
        target == Target(n)
    IN  /\ op = "none"
        /\ Cardinality(OutOfDate) <= MaxStale
        /\ \/ ScaleUp(current, target)
           \/ ScaleDown(current, target)
           \/ target = current /\ UNCHANGED <<op, left, todo>>
        /\ cleanup' = [r \in Runners |-> cleanup[r] \/ r \in Dead]
        /\ UNCHANGED <<clusterVars, githubVars, removal, rolloutVars, jit, worker, failures>>

------------------------------------------------------------------------------
(* The batch *)

Working == {r \in Runners : worker[r] # "none"}
Inflight == jit + Cardinality(Working)

(* Seeded fault: one creation too many. *)
BatchGoOnceMore ==
    /\ Inflight < Limit /\ op = "create"
    /\ left >= 0
    /\ left' = left - 1 /\ jit' = jit + 1
    /\ UNCHANGED <<todo, worker>>
    /\ UNCHANGED <<clusterVars, githubVars, backgroundVars, op, failures>>

BatchGo ==
    /\ Inflight < Limit
    /\ \/ /\ left > 0
          /\ left' = left - 1 /\ jit' = jit + 1
          /\ UNCHANGED <<todo, worker>>
       \/ \E r \in todo :
             /\ todo' = todo \ {r}
             /\ worker' = [worker EXCEPT ![r] = "delete"]
             /\ UNCHANGED <<left, jit>>
    /\ UNCHANGED <<clusterVars, githubVars, backgroundVars, op, failures>>

(* The batch returns, with or without having tried everything; an error of the
   handler only makes the listener end. *)
BatchReturns ==
    /\ op # "none" /\ Inflight = 0
    /\ op' = "none" /\ left' = 0 /\ todo' = {}
    /\ UNCHANGED <<clusterVars, githubVars, backgroundVars, jit, worker, failures>>

(* createRunnerPod, first half: generateJITConfig registers the runner.  A
   failing call may have registered it all the same. *)
JitSucceeds ==
    /\ jit > 0
    /\ jit' = jit - 1
    /\ \E r \in Unused : /\ runner' = [runner EXCEPT ![r] = "registered"]
                         /\ worker' = [worker EXCEPT ![r] = "create"]
                         /\ rolled' = rolled \ {r}
    /\ UNCHANGED <<clusterVars, message, removal, cleanup, rollout, op, left, todo, failures>>

JitFails ==
    /\ jit > 0 /\ Fail
    /\ jit' = jit - 1
    /\ \/ \E r \in Unused : /\ runner' = [runner EXCEPT ![r] = "registered"]
                            /\ rolled' = rolled \ {r}
       \/ UNCHANGED <<runner, rolled>>
    /\ UNCHANGED <<clusterVars, message, removal, cleanup, rollout, op, left, todo, worker>>

(* createRunnerPod, second half: the pod.  Nothing takes the registration back
   when this fails. *)
CreateSucceeds(r) ==
    /\ worker[r] = "create"
    /\ pods' = [pods EXCEPT ![r] = Pod("pending", "idle")]
    /\ worker' = [worker EXCEPT ![r] = "none"]
    /\ UNCHANGED <<cached, githubVars, backgroundVars, op, left, todo, jit, failures>>

CreateFails(r) ==
    /\ worker[r] = "create" /\ Fail
    /\ \E created \in {Pod("pending", "idle"), Absent} : pods' = [pods EXCEPT ![r] = created]
    /\ worker' = [worker EXCEPT ![r] = "none"]
    /\ UNCHANGED <<cached, githubVars, backgroundVars, op, left, todo, jit>>

------------------------------------------------------------------------------
(* deleteRunnerPod, used by batches, by the cleanup and by HandleJobCompleted *)

(* The label of a pod is of interest while it runs and is dropped after. *)
Terminated(r) == [pods EXCEPT ![r] = Pod("terminating", "idle")]

(* Seeded fault: the runner is deregistered whatever Delete answers. *)
DeleteFailsRemoving(r) ==
    /\ Fail
    /\ pods' \in {pods, Terminated(r)}
    /\ removal' = [removal EXCEPT ![r] = TRUE]

(* Seeded fault: nobody deregisters the runner. *)
DeleteForgetsRunner(r) ==
    /\ UNCHANGED <<removal, failures>>
    /\ pods' = IF pods[r].phase = "absent" THEN pods ELSE Terminated(r)

(* A pod that is gone needs no deletion and its runner is left to whoever
   deleted it. *)
DeleteSucceeds(r) ==
    /\ UNCHANGED failures
    /\ IF pods[r].phase = "absent"
       THEN UNCHANGED <<pods, removal>>
       ELSE /\ pods' = Terminated(r)
            /\ removal' = [removal EXCEPT ![r] = TRUE]

DeleteFails(r) ==
    /\ pods[r].phase # "absent" /\ Fail
    /\ pods' \in {pods, Terminated(r)}
    /\ UNCHANGED removal

BatchDelete(r) ==
    /\ worker[r] = "delete"
    /\ worker' = [worker EXCEPT ![r] = "none"]
    /\ DeleteSucceeds(r) \/ DeleteFails(r)
    /\ UNCHANGED <<cached, githubVars, cleanup, rolloutVars, op, left, todo, jit>>

(* cleanupTerminatedPodsInBackground, for one of its pods; a goroutine that
   runs out of time drops the rest. *)
CleanupDelete(r) ==
    /\ cleanup[r]
    /\ cleanup' = [cleanup EXCEPT ![r] = FALSE]
    /\ DeleteSucceeds(r) \/ DeleteFails(r)
    /\ UNCHANGED <<cached, githubVars, rolloutVars, workVars>>

(* removeRunnerFromGitHub.  GitHub does not remove a runner that has a job. *)
RemoveSucceeds(r) ==
    /\ removal[r] /\ runner[r] # "busy"
    /\ removal' = [removal EXCEPT ![r] = FALSE]
    /\ runner' = [runner EXCEPT ![r] = "none"]
    /\ UNCHANGED <<clusterVars, message, cleanup, rolloutVars, workVars, failures>>

RemoveFails(r) ==
    /\ removal[r]
    /\ removal' = [removal EXCEPT ![r] = FALSE]
    /\ IF runner[r] = "busy" THEN UNCHANGED failures ELSE Fail
    /\ UNCHANGED <<clusterVars, githubVars, cleanup, rolloutVars, workVars>>

------------------------------------------------------------------------------
(* rolloutRunnerPods of the RunnerSet controller, which runs beside the
   listener and its handlers: every idle pod of the list, whatever its phase.
   (A finished pod has lost its label here and is among them even if it was
   busy; it is on its way out in either case.) *)
Rollout ==
    /\ rollout = {} /\ Cardinality(OutOfDate) <= MaxStale
    /\ rollout' = {r \in Runners : cached[r].phase # "absent" /\ cached[r].label = "idle"}
    /\ Cardinality(rollout' \cup rolled) <= MaxRolled
    /\ UNCHANGED <<clusterVars, githubVars, removal, cleanup, rolled, workVars, failures>>

(* The pod is deleted, whatever it does by now; its runner is not deregistered.
   An error is only logged, so that a call that fails either deletes the pod all
   the same or does nothing. *)
RolloutDelete(r) ==
    /\ r \in rollout
    /\ rollout' = rollout \ {r}
    /\ \/ /\ pods[r].phase # "absent"
          /\ pods' = Terminated(r)
          /\ rolled' = IF runner[r] = "registered" /\ pods[r].phase # "terminating"
                       THEN rolled \cup {r} ELSE rolled
       \/ UNCHANGED <<pods, rolled>>
    /\ UNCHANGED <<cached, githubVars, removal, cleanup, workVars, failures>>

------------------------------------------------------------------------------
(* Job messages *)

(* A message that the listener fails to handle, or that it had taken when it
   was stopped, is not delivered again. *)
Received(r, kind) ==
    /\ kind \in message[r]
    /\ message' = [message EXCEPT ![r] = @ \ {kind}]

(* HandleJobStarted: the pod stays as it is if the call fails, if the update is
   refused because the cached object is out of date, or if there is no cached pod
   to label. *)
HandleJobStarted(r) ==
    /\ op = "none"
    /\ Received(r, "started")
    /\ \/ /\ cached[r] = pods[r] /\ pods[r].phase \in Running
          /\ pods' = [pods EXCEPT ![r].label = "busy"]
       \/ UNCHANGED pods
    /\ UNCHANGED <<cached, runner, backgroundVars, workVars, failures>>

HandleJobCompleted(r) ==
    /\ op = "none"
    /\ "started" \notin message[r] /\ Received(r, "completed")
    /\ IF cached[r] = Absent
       THEN UNCHANGED <<pods, removal, failures>>
       ELSE DeleteSucceeds(r) \/ DeleteFails(r)
    /\ UNCHANGED <<cached, runner, cleanup, rolloutVars, workVars>>

------------------------------------------------------------------------------
(* The environment: the informer, the kubelet and GitHub *)

CacheSync(r) ==
    /\ cached[r] # pods[r]
    /\ cached' = [cached EXCEPT ![r] = pods[r]]
    /\ UNCHANGED <<pods, githubVars, backgroundVars, workVars, failures>>

PodAdvances(r, from, to) ==
    /\ pods[r].phase \in from
    /\ pods' = [pods EXCEPT ![r] = Pod(to, "idle")]
    /\ UNCHANGED <<cached, githubVars, backgroundVars, workVars, failures>>

PodStarts(r) == PodAdvances(r, {"pending"}, "running")
PodStartsLate(r) == PodAdvances(r, {"stuck"}, "late")
PodGetsStuck(r) ==
    /\ Cardinality({q \in Runners : pods[q].phase \in {"stuck", "late"}}) < MaxStuck
    /\ PodAdvances(r, {"pending"}, "stuck")
PodFinishes(r) == runner[r] # "busy" /\ PodAdvances(r, Running, "finished")

PodVanishes(r) ==
    /\ pods[r].phase = "terminating"
    /\ pods' = [pods EXCEPT ![r] = Absent]
    /\ UNCHANGED <<cached, githubVars, backgroundVars, workVars, failures>>

JobStarts(r) ==
    /\ pods[r].phase \in Running /\ runner[r] = "registered"
    /\ Cardinality({b \in Runners : runner[b] = "busy"}) < MaxBusy
    /\ runner' = [runner EXCEPT ![r] = "busy"]
    /\ message' = [message EXCEPT ![r] = @ \cup {"started"}]
    /\ UNCHANGED <<clusterVars, backgroundVars, workVars, failures>>

(* The registration of a just-in-time runner ends with its one job. *)
JobEnds(r) ==
    /\ runner[r] = "busy"
    /\ runner' = [runner EXCEPT ![r] = "none"]
    /\ message' = [message EXCEPT ![r] = @ \cup {"completed"}]
    /\ UNCHANGED <<clusterVars, backgroundVars, workVars, failures>>

(* The listener was stopped, was down, or ended on the error of another
   handler. *)
MessageLost(r) ==
    /\ message[r] # {}
    /\ message' = [message EXCEPT ![r] = {}]
    /\ UNCHANGED <<clusterVars, runner, backgroundVars, workVars, failures>>

------------------------------------------------------------------------------
HandleDesired == \E n \in 0 .. MaxJobs : HandleDesiredRunnerCount(n)

BatchStep ==
    \/ BatchGo \/ BatchReturns
    \/ JitSucceeds \/ JitFails
    \/ \E r \in Runners : CreateSucceeds(r) \/ CreateFails(r) \/ BatchDelete(r)

Background(r) ==
    CleanupDelete(r) \/ RemoveSucceeds(r) \/ RemoveFails(r) \/ RolloutDelete(r)

Environment(r) ==
    \/ PodStarts(r) \/ PodStartsLate(r) \/ PodGetsStuck(r) \/ PodFinishes(r) \/ PodVanishes(r)
    \/ JobStarts(r) \/ JobEnds(r) \/ MessageLost(r)

Next ==
    \/ HandleDesired
    \/ BatchStep \/ Rollout
    \/ \E r \in Runners :
          \/ HandleJobStarted(r) \/ HandleJobCompleted(r)
          \/ Background(r) \/ CacheSync(r) \/ Environment(r)

(* The listener polls GitHub for ever and reports the count after every poll;
   calls return; a cleanup goroutine makes its call; the informer catches up. *)
Fairness ==
    /\ WF_vars(HandleDesired) /\ WF_vars(BatchStep)
    /\ \A r \in Runners : WF_vars(CleanupDelete(r)) /\ WF_vars(CacheSync(r))

Spec == Init /\ [][Next]_vars /\ Fairness

------------------------------------------------------------------------------
(* What classifyRunnerPods would count on a list of the pods as they are. *)
Present == {r \in Runners : pods[r].phase \in {"pending"} \cup Running}
Late == {r \in Runners : pods[r].phase = "late"}

(* maxRunners holds up to the lag of the cache, and the lag does not add up:
   however many calls see an old list, together they exceed the maximum by no
   more than the pods that one list can miss.  On top come only pods that start
   after all when the scaler has given them up for stuck in Pending and has
   replaced them, one by one. *)
MaxRunnersRespected ==
    Cardinality(Present) <= MaxRunners + MaxStale + Cardinality(Late)

(* The inductive invariant behind it: what a batch has still to create counts
   already.  A runner that is being created has no pod yet, so that no pod counts
   twice. *)
InTime == {r \in Runners : pods[r].phase \in {"pending", "running"}}
Expected == InTime \cup {r \in Runners : worker[r] = "create"}

CountInv ==
    /\ Cardinality(InTime) <= MaxRunners + MaxStale
    /\ op = "create" => Cardinality(Expected) + jit + left <= MaxRunners + MaxStale

(* A scale-down picks pods by a label in a list that may be old, and deletes
   them one after the other while jobs start.  Still, of the pods it has picked
   no more are labelled busy than that one list can miss: the error does not grow
   while the batch works. *)
Picked == todo \cup {r \in Runners : worker[r] = "delete"}
BusyPicked == {r \in Picked : pods[r].label = "busy"}
FewBusyPicked == Cardinality(BusyPicked) <= MaxStale

(* The inductive invariant behind it: no job is taken notice of while a batch
   deletes, for both are handlers of one listener. *)
BusyInv ==
    /\ FewBusyPicked
    /\ \A r \in Runners : worker[r] = "delete" => op = "delete"

(* A runner that waits for a job is deregistered only after its pod was
   deleted, so that GitHub and the cluster agree on who can take a job. *)
DeregisteredAfterDeletion ==
    \A r \in Runners : removal[r] => pods[r].phase \in Gone

(* Registrations without a pod come only from calls that failed and from
   rollouts: every other path that deletes a pod hands its runner over for
   removal. *)
LeakNeedsFailure ==
    \A r \in Runners :
        /\ runner[r] = "registered" /\ pods[r] = Absent
        /\ worker[r] = "none" /\ ~removal[r]
        => failures > 0 \/ r \in rolled

(* The inductive invariant behind the last two: a batch is of one kind, a
   runner that is being created has no pod and nobody removes it, and without
   failures the runner of a pod that the scaler deleted is registered only while
   its removal is under way. *)
OneBatch ==
    /\ left > 0 \/ jit > 0 => op = "create"
    /\ \A r \in Runners : worker[r] = "create" => op = "create"
    /\ todo # {} => op = "delete"

Creating ==
    \A r \in Runners : worker[r] = "create" => pods[r] = Absent /\ ~removal[r]

Removing ==
    \A r \in Runners :
        /\ failures = 0 /\ runner[r] = "registered" /\ worker[r] # "create"
        /\ pods[r].phase \in Gone
        => removal[r] \/ r \in rolled

LifecycleInv ==
    TypeOK /\ OneBatch /\ Creating /\ Removing /\ DeregisteredAfterDeletion

(* A pod whose runner has finished does not stay, even if the message about its
   job was lost: the next lists that show it hand it to the cleanup. *)
FinishedPodDeleted ==
    \A r \in Runners : []<>(pods[r].phase # "finished")
==============================================================================
