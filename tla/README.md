# A verification model of the rssc operator

`rssc` is a Kubernetes operator for GitHub Actions runner scale sets. Two
custom resources drive it: an **AutoscaleSet** stands for a scale set at GitHub, a
**RunnerSet** for a listener on that scale set and the runner pods it scales.
These TLA+ modules model the operator's control, TLC checks them on small
instances, and TLAPS proves the safety properties for every value of the
constants. `PROJECT.json` maps every definition to the lines it models.

## 1. The system

| Component (source under `src/`) | State | Operations | Module |
|---|---|---|---|
| Listener manager, runner group listener, shutdown runnable (`internal/listener`) | map key → listener, a goroutine per listener, stop channels, contexts | StartListener, StopListener, HasListener, StopAll, Run, Stop | `ListenerManager` |
| Debounced scaler (`internal/scaler/debounced_scaler.go`) | pending call, timer, latest context, result channels | HandleDesiredRunnerCount, timer callback | `DebouncedScaler`, `LatestCount` |
| Batch operations (`scale_up.go`, `scale_down.go`) | loop index, two atomic counters, worker slots | batchCreateRunnerPods, batchDeleteRunnerPods | `BatchRunner` |
| Kubernetes scaler (`kubernetes_scaler.go`, `pod_lifecycle.go`, `job_handlers.go`) | pods and their labels, the informer's copy, registrations at GitHub, background deletions | HandleDesiredRunnerCount, HandleJobStarted, HandleJobCompleted, cleanup, deregistration; the rollout's deletions | `KubernetesScaler` |
| RunnerSet controller (`controller/runnerset_controller.go`) | RunnerSet objects, request queue, message sessions | Reconcile and its steps | `RunnerSetReconciler` |
| AutoscaleSet controller (`controller/autoscaleset_controller.go`), scale set cache (`client/cache.go`), `client/retry.go` | AutoscaleSet object, the informer's copy, scale sets at GitHub, cached scale sets | Reconcile and its steps, GetScaleSet | `AutoscaleSetReconciler`, `AutoscaleSetLifecycle` |
| Client factory and secret cache (`client/scaleset_client.go`, `client/cache.go`, `client/cache_cleanup.go`) | one entry of credentials per Secret, with a deadline | GetGitHubAppConfig, GetPATConfig, Cleanup | `ClientCache` |
| Pod construction and template merge (`pod_build.go`, part of the RunnerSet controller) | none | pure functions | not modelled |
| Webhooks, API types, indexes, metrics, `cmd/main.go`, generated code | none that is read back | field checks, wiring | not modelled |

How they interact. The AutoscaleSet controller creates the scale set and stores
its ID in the status. The RunnerSet controller waits for that ID, opens a message
session, builds a Kubernetes scaler behind a debouncer, and hands both to the
listener manager, which runs the message loop on a goroutine. The loop calls the
scaler for every message. The scaler creates and deletes pods in batches, and
registers and deregisters their runners at GitHub. When a pod spec changes, the
RunnerSet controller deletes idle pods, stops the listener and starts a new one.
On shutdown a runnable drains the manager.

What is hard, and what makes each part correct:

* **Listener manager.** A stop is a signal, not a wait: goroutines end after
  their entry is gone, and delete "their" entry by key. An entry must stand for a live
  listener; stopped listeners and those overtaken by a shutdown must end.
* **Debouncer.** A timer that has fired and waits for the mutex cannot be
  stopped. Counts must be forwarded in order, at most once, with one live context;
  every caller must return, with its own result or none.
* **Batches.** The loop reads two atomics one after the other while workers change
  them. The result must be final and the number of failures bounded.
* **Scaler.** It reads a cache that lags behind, and works in the background on
  pods that change meanwhile. The maximum must hold up to that lag, a scale-down must
  pick no more busy pods than its list misses, runners must not stay registered without a pod.
* **RunnerSet controller.** Its reconcile has many steps between which users,
  listeners, GitHub and crashes act, and its event filter hides most changes.
  Every way out must lead back in, edits must survive, one listener must serve.
* **AutoscaleSet controller.** The scale set exists at GitHub before the object knows
  it. The finalizer must protect it from the first moment to the last, and the
  RunnerSet controller must be able to rely on the ID it records.
* **Client cache.** Nothing tells the cache that a Secret has changed, calls read
  the Secret without the lock, and the key of an entry is the Secret alone.
  Rotated credentials must no longer be served after the TTL.

## 2. The modules and the code

All modules use one action per critical section or per step between two calls
that others can observe; a mutex is therefore no variable. Time is abstracted:
timers fire, caches expire and sessions end at some point. A call to the API server or
to GitHub fails at most `MaxFailures` times in total, except that job messages get lost and
updates of pod labels are refused any number of times. Logging, metrics and events are
left out. Definitions marked *Seeded fault* are not part of a specification: each
is a plausible bug that a property is known to catch.

**ListenerManager.** `listeners` is `Manager.listeners`; `goroutine[l]` is where
the goroutine of StartListener is (in `Run`, or returned and waiting for the mutex to
delete its entry); `stopCh`, `runCtx`, `mgrCtx` are the stop channel and the two
contexts; `stopAll` is the progress of StopAll. `WatchStop` is the goroutine inside
Run that turns a closed stop channel into a cancelled context. Listener objects
are garbage once their goroutine ended, so identities are reused and behaviours are
unbounded.

**BatchRunner.** `LoadErrors` and `LoadSucceeded` are the two loads of the
threshold test, `Go` blocks while `Limit` workers hold slots, `WaitReturns` is
`g.Wait()`. Batches for creation and for deletion have the same loop; the lines of the one
in `scale_up.go` are mapped, the failing worker from `scale_down.go`.

**DebouncedScaler.** Calls are numbered in the order of the mutex. `timer[c]` runs
from armed through fired (the callback waits for the mutex) to inner (the
wrapped scaler runs) and ended. `forwarded` is a history variable.

**LatestCount** is the debouncer as its callers and the scaler behind it see it: calls are
made, the latest is forwarded once, work is told to stop and finishes, callers are answered. `Working`, `Finished` and
`ToldToStop` of `DebouncedScaler` are the refinement mapping, which forgets timers, callbacks,
the pending call and the channels.

**KubernetesScaler.** A runner is a name with a pod, a registration and a job.
`pods` is the API server, `cached` the informer's copy that the scaler lists;
`CacheSync` brings one object up to date. `MaxStale` bounds how many pods a list may
miss, `MaxStuck` how many pods at a time are or were too long in Pending. `left`, `jit`, `todo` and `worker` are a batch in progress; it
uses what `BatchRunner` establishes: `Limit` workers, an early end, a return after
the last worker. The kubelet, GitHub's job assignment and message delivery are
external actions, unconstrained except that a job runs on a registered runner. A pod that was
`stuck` and starts after all is `late`: the scaler counts it, having replaced it. An error of
List ends a handler before it did anything and is a stuttering step.

Beside the handlers, `Rollout` and `RolloutDelete` are the RunnerSet controller's
`rolloutRunnerPods`, which deletes idle pods by the same cached label and does not
deregister their runners; `rolled` remembers those.

**AutoscaleSetLifecycle** is the abstract view of an AutoscaleSet: its state, its scale
set ID and the version of its spec. It is created, edited, deleted and removed; an ID
that was never used before is recorded at most once per incarnation, or lost.

**RunnerSetReconciler** composes the controller with the listener manager
(`Manager == INSTANCE ListenerManager`) and with the abstract AutoscaleSet
(`Lifecycle == INSTANCE AutoscaleSetLifecycle WITH object <- aset`). Its steps call
`Manager!StartListener` and `Manager!StopListener`, the manager's goroutine steps are steps of
the composition, and the AutoscaleSet changes by steps of the life cycle, which
`AutoscaleSetReconciler` is proved to implement. `snap[rs]` holds the objects a reconcile fetched;
`queued` is the work queue, with delayed requests; `started[l]` is the scale set and the
pod spec a listener was given. A pod spec is the pair of the template versions, on
which the hash is injective. GitHub grants one message session per scale set
(`session[i]`); the model assumes that it does not expire before the goroutine of its listener
has ended, although a listener that was told to stop, and is busy with a last message, no
longer polls. Recording the hash is two steps, the Get of the RunnerSet and its Update, and an
edit between them makes the Update fail. The runner group, and so
the listener key, can be edited, because the operator never registers the webhook
that forbids it (`cmd/main.go:172`). The informer is taken to be up to date here (it
is not in the other two modules that have one): a refused update because of lag has the
same outcome as one because of an edit, which is modelled. A shutdown is not part of this
composition; it is in `ListenerManager`.

**AutoscaleSetReconciler** has the informer (`seen`), the scale sets at GitHub
(`github`, one per name, IDs never reused) and the scale set cache. `work` is the
object in the hands of the reconcile. `BuildLabels`, `Compared` and `LabelsEqual` are
`buildLabels` and `labelsEqual` on sets of labels, and GitHub stores types in
lower case and may filter `self-hosted`, as the code's comments say. What GitHub
answers to the deletion of a scale set that is gone is left open. As the
RunnerSet controller, this one ends the reconcile that adds the finalizer without a
requeue; `SecretEvent`, an edit or a restart gets it going again.

`Visible` and `Counted` are the refinement mapping to `AutoscaleSetLifecycle`: a
scale set counts as assigned when its ID is recorded or lost, not when GitHub creates it.

**ClientCache.** One Secret and its cache entry, as entries do not influence each
other. A worker's call is a lookup under the lock, a read of the Secret without it, and
a store under it. `entry.ttl` is the time an entry has left, in ticks. `age` is a history
variable: how long a value has been out of the Secret. A call that hangs before the read may
take any time; between its read and its store it only waits for the lock, for up to `MaxCall`
ticks (`waited`). Whose client ID and installation ID an entry holds is left out, as a hit does
not look at them. The invalidation operations are called by tests only and are no steps here.

`MCListenerManager` and `MCKubernetesScaler` are the instances for TLC, the latter with a
symmetry set for the runner names, which `scaler_count` uses. The other modules are checked
directly.

## 3. The runs

Passing runs:

| Run | Instance | Shows |
|---|---|---|
| `listener_manager` | 2 keys, 3 listeners | `RegisteredIsLive`: HasListener never answers for a listener that is gone or told to stop. `StoppedListenerEnds`, `ShutdownEndsListeners`: listeners end, although StopAll is called with a context that is already done and signals nobody. |
| `batch_runner` | 3 workers, up to 9 items | `BatchInv` with its consequences: the result is final; failures exceed successes by at most `Limit + 1`; a batch without errors does all of its work, or some of it (`BatchProgress`); the batch returns. |
| `debounced_scaler` | 4 calls | `FollowsLatestCount`, the refinement, `ForwardsLatest`, `OneLiveInner`, `OwnResult`: what each side sees of the other is in order, although timers and inner calls overlap. `CallReturns`, `PendingIsForwarded`, and `DebounceInv` with `NothingLost`: nobody waits for something that will not come. |
| `scaler_jobs` | 2 runners, lists that miss 1 change, lost messages and refused label updates, a rollout of 1 pod at a time, no other failure | `FewBusyPicked`: of the pods that a scale-down has picked no more are busy than its list missed, however long the batch takes. `LeakNeedsFailure`: without failures only rollouts leave registrations behind. `FinishedPodDeleted`: also when the job message is lost. |
| `scaler_count` | 3 runners, maximum 1, lists that miss 1 change, 1 pod at a time that is stuck in Pending and may start late, 1 failure | `MaxRunnersRespected`: the lag does not add up over calls, and late starters come on top one by one. `DeregisteredAfterDeletion`: a runner is taken from GitHub only after its pod is gone, whatever fails. |
| `runner_set` | 1 RunnerSet, 2 runner groups, 1 listener, 1 edit of each template, 1 failure or crash | `NeverForgotten`, `EditsKept`; `CurrentSpecServed`: whatever happened, a listener with the AutoscaleSet's present scale set and template follows; `EditRolledOut`: an edit of the RunnerSet's template that no reconcile overlaps gets a listener with that template or a later one. |
| `runner_set_shared` | 2 RunnerSets with one key, 2 listeners, no edits, no failure | `LastOneStops`, `CurrentSpecServed`, `ServingIsRegistered` with two workers on one listener. |
| `autoscale_set` | 2 scale sets over time, 3 edits, 2 failures or crashes | `CreatedUnderFinalizer`, `RecordedIsDeleted`; `RestsWhenDone`: when there is no request, no reconcile and no event on its way, there is nothing left to do, whichever way the reconciles ended; `LabelsConverge` in spite of a cache that is not invalidated; `FollowsLifecycle`, the refinement. |
| `client_cache` | 2 workers, an App key and a token, TTL of 3 ticks, calls of up to 2 ticks, 3 values | `CredentialsRecent`: rotated credentials are served for less than the TTL and the delay of one call. |

Why the bounds are enough. Two keys and three listeners let a key have a
listener that ends, one that serves and one that is started, while another key is
served. Nine items on three workers fill the pool three times. With four calls a replaced
timer, a waiting callback, an overtaken inner call and a new call coexist. Two runners
let one be deleted while another takes a job. Three runners with a maximum of one let
the maximum be exceeded twice, which the bound forbids. `scaler_jobs` has the jobs, lag, lost
messages and the rollout, `scaler_count` lag, a pod stuck in Pending and a failing call; the
proofs of section 4 have them together. A finished pod whose Delete call fails is in neither: the next
list hands it to the cleanup again. One RunnerSet with one scale set needs one listener object,
since no two listeners are there at a time (`OneListenerPerScaleSet`, which is proved); with
two groups it moves between keys; two RunnerSets meet on one key,
without failures, after which `CurrentSpecServed` claims nothing of two RunnerSets (`Reliable`); the safety of
two RunnerSets under failures and crashes is proved. `MaxIds` is 1 in both,
and `ServingIsRegistered` and `LastOneStops` speak of the time before a second scale set, because
with one they fail, which is what `runner_set_recreated` is about. A TTL of three ticks lets an entry be stored, overwritten and used before it expires, and calls of two ticks let a rotation and another worker's store come between the read and the store. Two scale sets let an AutoscaleSet be created
again, and the third edit restores the first labels while the cache still shows them. One failure
is a failure anywhere, two are a failure of the recovery.

Runs without deadlock check: `debounced_scaler` (callers may stop calling),
the runs on `RunnerSetReconciler` and `autoscale_set` (with all edits made and nothing
queued the operator is idle). All others are checked for deadlock.

Runs that show a disagreement between the code and what it says of itself; the
comments of the properties quote the claim:

* `runner_set_served` (`RunnerSetServed`): a new RunnerSet gets its finalizer
  and is not reconciled again, as the filter hides that update.
* `runner_set_recreated` (`ListenerRestarts`): an AutoscaleSet is deleted and created
  again under a RunnerSet. A rollout stops the old listener and starts one on the new
  scale set; then the goroutine of the *old* listener deletes the entry of the *new* one
  (`manager.go:72`). The new one keeps polling, so that its session never expires, and the RunnerSet
  waits for it for ever. With one scale set, GitHub's single session hides this: a
  successor cannot start before its predecessor's session has expired, which is
  what `ServingIsRegistered` shows and its mutant without that refusal disproves.
* `autoscale_set_leak` (`ScaleSetCleanedUp`): an edit or a deletion while the scale
  set is created makes the update that records its ID fail, and the ID is lost. With
  the ID recorded the cleanup is right (`RecordedIsDeleted`).

Further surprises in the code, without a run of their own. The properties say what
holds in spite of them:

* `scale_up.go:111`: `0 >= 1/2` in integers, so a batch that sees one success and no
  failure stops "due to error threshold". `BatchProgress` is what remains true; GitHub's next
  message asks for the rest.
* `runnerset_controller.go:321`: the hash is recorded from a RunnerSet fetched after the listener
  was started. An edit between the start of that reconcile and this Get is taken for rolled
  out: the listener keeps the old template until the next edit, although `src/README.md:13`
  says "Pod spec changes (via SHA256 hash) trigger idle pod deletion and listener restart."
  `EditRolledOut` is therefore about edits that meet no reconcile, without which condition TLC
  finds the lost edit, and `CurrentSpecServed` about the AutoscaleSet's template.
* `runnerset_controller.go:744`: a rollout deletes pods by a cached label, so that a job that
  has started since is killed, although the comment at line 740 says "Only delete idle pods to
  avoid disrupting running jobs". The same holds of a scale-down, where `FewBusyPicked` bounds it.
* `runnerset_controller.go:746`: rollouts leave registrations behind (`LeakNeedsFailure`).
* `runnerset_controller.go:301`: a failed status update drops the request of a RunnerSet that shares
  its listener (`Reliable` in `NeverForgotten` and `CurrentSpecServed`).
* `cache.go:104`: two AutoscaleSets that name one Secret are served each other's client
  ID and installation ID while an entry lasts, although `src/README.md:45` makes the IDs part of
  each AutoscaleSet's spec. No property is stated, because no weaker guarantee is left.

**Fairness** is weak fairness of what the program itself does and nothing else: of the
goroutines and timers the Go scheduler runs, of the controllers' work queues,
which hand out every request, of informers that catch up, of a cleanup
goroutine that was started, of GitHub's refusal to
serve a scale set that is gone, and of time (sessions and cache entries expire). GitHub's polling makes the listener call the scaler again and
again (`HandleDesired`). Users, failures, crashes, job assignment, kubelet and message loss are
never fair. That a batch worker and the wrapped scaler return rests on the timeouts
of the HTTP clients below them.

## 4. The proofs

Each proof module extends its component's module. The assumptions are those on
the constants: natural-number bounds, a positive worker limit, `NoListener` no
listener. No proof depends on the size of an instance.

* **ListenerManagerProofs.** `TypeCorrect`, `RegistrationCorrect`. `RegisteredIsLive` is not
  inductive, because StopAll's loop could signal a listener that was registered
  after the drain; `RegistrationInv` adds that the loop runs only under a context that is
  done, in which case it returns first.
* **BatchRunnerProofs.** `BatchInvariant`, `ResultFinality`, `FailuresBounded`,
  `ProgressWithoutErrors`. `BatchInv`
  counts every attempt once (succeeded, failed or in flight) and relates the failure count the
  loop read to the real one: while the loop decides, at most `Limit` failures are
  unseen. An item let through adds one. A loop that gave up without an error had seen a
  success, and had attempted at most `Limit + 1` items.
* **DebouncedScalerProofs.** `DebounceInvariant`, `LiveInnerUnique`, `ResultRouting`,
  `ForwardingOrder`, `NoLostWakeup`, `LatestCountFollowed`, `HandlersExclude`. The key facts of `CallInv`: all calls but the latest have a
  context that is done, `pending` is the latest call and not forwarded yet, no two callbacks
  serve one call, and a call that is served has no answer yet. The refinement follows from them with one
  lemma per kind of step; timers that fire and callbacks that find nothing pending are stutters.
  `HandlersExclude` links the debouncer to `KubernetesScaler`, which runs one handler at a time although
  callbacks run on goroutines of their own: if calls follow each other (`OneCaller`, which is how the
  listener's message loop calls), then what runs serves the latest call, and is over when that
  call has its result. `NothingLost` is the safety half of the two liveness properties: a pending
  count has a timer or callback that will take it, and a blocked caller has a context that is
  done, a result, the pending count or an inner call that works for it. Each step hands the
  caller from one of these to the next; `DebounceInv` is the two together.
* **KubernetesScalerProofs.** `LifecycleInvariant`, `ScalerTypes`, `DeregistrationOrder`,
  `LeaksAreFailures`, `MaxRunnersHolds`, `BusyPicksBounded`. A removal under way protects its runner only if nobody recreates it:
  `Creating` says that what is being created has no pod and no removal, `OneBatch` that
  a batch is of one kind, `Removing` that without failures the runner of a deleted pod is
  registered only while its removal is under way, or was rolled out. For the maximum, `CountInv`
  counts in advance: pods that start in time, pods being created and what the batch has still to create
  stay within `MaxRunners + MaxStale` while a batch creates. The start of a batch establishes it,
  because the list it counted misses at most `MaxStale` of them; no other step adds
  to the sum. For the busy pods, `BusyInv` is the bound together with the fact that a worker deletes
  only in a batch of deletions: the pods that the list shows idle and that are busy are out of date in it,
  hence at most `MaxStale`, and none turns busy later, for labels are written by handlers of the
  same listener, which wait for the batch.
* **AutoscaleSetProofs.** `ProtectionInvariant`, `CreationProtected`, `DeletionOrder`,
  `ControllerTypes`, `LifecycleFollowed`.
  `FinalizerSeen` says that the informer shows no finalizer the object has lost,
  `StepProtected` that a reconcile that uses the scale set holds the finalizer in
  place, and that one which deletes works for an object on its way out whose successor has
  no finalizer yet. `DeletedFirst` then makes the update that removes the finalizer safe:
  it succeeds only with the copy that showed what to delete. The refinement rests on `RecordInv`: an ID about to be stored is the last one, an object with an
  ID has the finalizer, and its ID was assigned. Every step then maps to a
  step of the life cycle or to a stutter, by one lemma per kind of step.
  `RestCorrect` is the counterpart of `LabelsConverge` without fairness. `RestsWhenDone` is not inductive: a creation may
  take the labels from a spec that is edited before the ID is stored, and the reconcile then
  ends without a requeue. `CreatesTheSeen` says that such an edit has put the request back by
  then, or has not reached the informer; `SeenBefore` that an edit can
  always be told by its generation; `KeptByFinalizer` that a deletion in progress is never
  taken for one that is over.
* **ClientCacheProofs.** `CacheInvariant`, `CacheTypes`, `RotationTakesEffect`. `EntryRecent` says
  that the time an entry has left and the time its contents have been out of date add up to at
  most the TTL and the delay of a call; `ReadRecent` that a worker about to store holds a value that
  is out of date for no longer than the worker has waited. Neither depends on the order in which
  workers overwrite each other.
* **RunnerSetProofs.** `ReconcilerInvariant`, `ReconcilerTypes`, `ListenersExclude`,
  `ServingCorrect`, `RequestsKept`, `TemplatesKept`, `LastOneCorrect`, for
  any number of RunnerSets, groups, listeners, scale sets, edits and failures. One
  step lemma per invariant, with a case per action of the composition; the manager's
  part, `RegisteredIsLive`, is taken along.
  * `FinalizerFirst`: a reconcile at work has the finalizer in place and a copy whose
    template is not newer than the object's. This gives `EditsKept` and `NeverForgotten`.
  * `SessionInv` ties the sessions to their owners, which `ServingIsRegistered` needs: a session that
    is open belongs to one reconcile about to start a listener (`OneStarter`), one
    that is held to the listener that was started with it, until its goroutine has ended. So two
    listeners never poll one scale set (`OneListenerPerScaleSet`), and a goroutine that
    ends late finds no successor whose entry it could delete, as long as there has been one
    scale set.
  * `NoRival`, for a RunnerSet that is alone: between finding no listener and starting one there
    is none. So the exit at which the manager has a listener already, and which drops the request
    on an error, is never taken (`NeverForgotten`).
  * `KeyKept` and `Attended`: a listener has a RunnerSet of its key that has the finalizer
    and has still to stop it. They hold under `GroupsFixed` (the spec is not edited, or there is one key),
    which `LastOneCorrect` assumes: a RunnerSet that is moved to another group while it starts
    a listener leaves it to a key that is nobody's, and the deletion looks at the new key
    only. `runner_set_shared` has one key.

Every invariant and every action property that a passing run checks is stated by a theorem.
Only model-checked: the liveness properties (`StoppedListenerEnds`, `ShutdownEndsListeners`,
`BatchReturns`, `CallReturns`, `PendingIsForwarded`, `FinishedPodDeleted`, `CurrentSpecServed`,
`EditRolledOut`, `LabelsConverge`), as fairness is out of the prover's reach. `NothingLost`, `NeverForgotten` and
`RestsWhenDone` are what can be proved of three of them: that no wake-up and no request is lost.

## 5. Not modelled

Metrics, events, logs, indexes, generated code and the wiring in `main.go` hold no state
the program reads back. The webhooks are never registered, so they are not part of
the operator that runs. The backoff only delays, and the operator has no rate
limiter. The counts in the status objects are reports; only "more than none" chooses between
two delays of a request. Pod construction and the template merge copy fields from
one object to another; the models need of them that equal templates give equal
pods and different ones different hashes. The scaleset library,
the kubelet, the API server and GitHub are external: they appear as actions, as
permissive as the code's own handling of them allows.

Known gaps, listed as hazards with a note in `PROJECT.json`: several AutoscaleSets (in one
namespace a rollout picks pods by the runner group alone, and cached scale sets
are keyed by ID alone), a pod stuck in Pending that starts and takes a job when the cleanup is
about to delete it, a pod that takes a job while a rollout is about to delete it, an edit
that falls into a reconcile which starts a listener, the identity of the App behind a shared Secret,
and limits that are not part of the hash. A scaling operation that a stopped listener leaves behind has a context that is
done; `KubernetesScaler` takes it for over, and does not run it beside the operations of a successor.

## 6. Plan

1. The RunnerSet's limits, which its hash leaves out, and several AutoscaleSets with one namespace
   or one runner group: the hazards above that need a larger model.
2. `ServingIsRegistered` with a second scale set. Restricted to listeners on the first scale set it
   holds for one RunnerSet and fails for two: one that opened its session early may start its
   listener late, next to the end of a listener on the second. A claim about which
   entries the late end of a listener can delete needs a history of who was started when.
