-------------------------- MODULE RunnerSetReconciler --------------------------
(****************************************************************************)
(* The RunnerSet controller (internal/controller/runnerset_controller.go)   *)
(* together with the listener manager it drives: watch events and requeues  *)
(* become reconcile requests, one worker handles the requests of a          *)
(* RunnerSet one after the other, and a reconcile opens a message session   *)
(* and starts a listener, rolls a changed pod spec out, or stops the        *)
(* listener of a RunnerSet that is being deleted.                           *)
(*                                                                          *)
(* A reconcile is a sequence of steps between which users, listeners,       *)
(* GitHub and other workers act.  It works on the objects it fetched at the *)
(* start (`snap`); an Update with an object that has changed since is       *)
(* refused.  All RunnerSets here refer to one AutoscaleSet, which changes   *)
(* by the steps of AutoscaleSetLifecycle.  A pod spec is a pair of version  *)
(* numbers, those of the AutoscaleSet's and of the RunnerSet's template;    *)
(* computePodSpecHash is injective on such pairs.  The pods themselves, and *)
(* their deletion by a rollout, are in KubernetesScaler.                    *)
(*                                                                          *)
(* The runner group, and with it the listener key, is part of a RunnerSet's *)
(* spec and can be edited: the operator does not register the webhook that  *)
(* would forbid it.                                                         *)
(*                                                                          *)
(* GitHub grants one message session per scale set.  The session outlives   *)
(* its listener and expires on GitHub's side, which takes minutes without a *)
(* poll; the model assumes that it does not expire before the goroutine of  *)
(* its listener has ended, however long that takes.                         *)
(****************************************************************************)
EXTENDS Integers

CONSTANTS
    RunnerSets, Keys, Listeners, NoListener,
    MaxIds,       \* bound on the number of scale sets
    MaxEdits,     \* bound on the version number of a template
    MaxFailures   \* bound on failing calls and operator crashes

ASSUME ReconcilerAssumption ==
    /\ Keys # {} /\ NoListener \notin Listeners
    /\ MaxIds \in Nat /\ MaxEdits \in Nat /\ MaxFailures \in Nat

VARIABLES
    listeners, key, goroutine, stopCh, runCtx, mgrCtx, stopAll,  \* ListenerManager
    started,    \* started[l]: the scale set and pod spec of listener l
    rset,       \* rset[rs]: the RunnerSet object
    aset,       \* the AutoscaleSet object
    assigned,   \* the last scale set ID
    session,    \* session[i]: the message session of scale set i at GitHub
    queued,     \* RunnerSets with a reconcile request, delayed ones included
    pc,         \* pc[rs]: the next step of the reconcile of rs
    snap,       \* snap[rs]: the objects it works on
    failures

managerVars == <<listeners, key, goroutine, stopCh, runCtx, mgrCtx, stopAll>>
asetVars == <<aset, assigned>>
objectVars == <<rset, asetVars>>
workerVars == <<queued, pc, snap>>
vars == <<managerVars, started, objectVars, session, workerVars, failures>>

Manager == INSTANCE ListenerManager
Lifecycle == INSTANCE AutoscaleSetLifecycle WITH object <- aset

Ids == Lifecycle!Ids
NoId == Lifecycle!NoId
Versions == Lifecycle!Versions
PodSpecs == Versions \X Versions
NoSpec == <<>>

RunnerSetObject ==
    [state : {"absent", "present", "deleting"}, key : Keys, finalizer : BOOLEAN,
     template : Versions, hash : PodSpecs \cup {NoSpec}, ready : {"unknown", "true", "false"}]

NoRunnerSet == [state |-> "absent", key |-> CHOOSE k \in Keys : TRUE, finalizer |-> FALSE,
                template |-> 0, hash |-> NoSpec, ready |-> "unknown"]

Snapshot == [rs : RunnerSetObject, as : Lifecycle!AutoscaleSetObject]
NoSnap == [rs |-> NoRunnerSet, as |-> Lifecycle!NoObject]
NotStarted == [id |-> NoId, spec |-> <<0, 0>>]

TypeOK ==
    /\ Manager!TypeOK
    /\ started \in [Listeners -> [id : Ids \cup {NoId}, spec : PodSpecs]]
    /\ rset \in [RunnerSets -> RunnerSetObject]
    /\ aset \in Lifecycle!AutoscaleSetObject /\ assigned \in 0 .. MaxIds
    /\ session \in [Ids -> {"none", "opened", "held", "lingering"}]
    /\ queued \subseteq RunnerSets
    /\ pc \in [RunnerSets -> {"idle", "stop", "record", "session", "start",
                              "annotate", "update", "unfinalize"}]
    /\ snap \in [RunnerSets -> Snapshot]
    /\ failures \in 0 .. MaxFailures

Init ==
    /\ Manager!Init
    /\ started = [l \in Listeners |-> NotStarted]
    /\ rset = [rs \in RunnerSets |-> NoRunnerSet]
    /\ Lifecycle!Init
    /\ session = [i \in Ids |-> "none"]
    /\ queued = {}
    /\ pc = [rs \in RunnerSets |-> "idle"]
    /\ snap = [rs \in RunnerSets |-> NoSnap]
    /\ failures = 0

Fail == failures < MaxFailures /\ failures' = failures + 1

(* Seeded fault: metadata that the controller itself writes is hashed too. *)
HashWithMetadata(as, rs) == <<as.template, rs.template, rs.finalizer>>

(* Seeded fault: the RunnerSet's own template is not hashed. *)
HashOfAutoscaleSet(as, rs) == <<as.template, 0>>

(* computePodSpecHash *)
PodSpecHash(as, rs) == <<as.template, rs.template>>

------------------------------------------------------------------------------
(* How a reconcile proceeds and ends.  A finished reconcile forgets what it
   fetched. *)
Goto(rs, step) == pc' = [pc EXCEPT ![rs] = step]

Return(rs) ==
    /\ Goto(rs, "idle")
    /\ snap' = [snap EXCEPT ![rs] = NoSnap]

Requeue(rs) == queued' = queued \cup {rs}

(* updateStatus and updateStatusError: the Ready condition is set on a freshly
   fetched object, and the request is put back: with a delay, or at once after
   a conflict. *)
ReturnStatus(rs, ready) ==
    /\ rset' = [rset EXCEPT ![rs].ready = ready]
    /\ Return(rs) /\ Requeue(rs)

(* Reconcile up to its first write: the objects are fetched and the case is
   chosen. *)
Fetched(rs) == [rs |-> rset[rs], as |-> aset]
Usable(as) == as.state = "present" /\ as.id # NoId
KeyOf(rs) == rset[rs].key

BeginReconcile(rs) ==
    /\ rs \in queued /\ pc[rs] = "idle"
    /\ queued' = queued \ {rs}

(* The RunnerSet is gone, or going and not ours any more. *)
ReconcileGone(rs) ==
    /\ BeginReconcile(rs)
    /\ rset[rs].state = "absent" \/ (rset[rs].state = "deleting" /\ ~rset[rs].finalizer)
    /\ UNCHANGED <<managerVars, started, objectVars, session, pc, snap, failures>>

(* The finalizer is added and the reconcile ends without a requeue: the event
   of its own update is filtered, as the generation has not changed.  (An
   update that is refused is an error, and the queue retries: no change.) *)
ReconcileAddsFinalizer(rs) ==
    /\ BeginReconcile(rs)
    /\ rset[rs].state = "present" /\ ~rset[rs].finalizer
    /\ rset' = [rset EXCEPT ![rs].finalizer = TRUE]
    /\ UNCHANGED <<managerVars, started, asetVars, session, pc, snap, failures>>

(* No AutoscaleSet, one that is being deleted (both are reported), or one
   without a scale set ID yet (which is not reported): try again later.  A
   listener is left as it is. *)
ReconcileWaits(rs) ==
    /\ rs \in queued /\ pc[rs] = "idle"
    /\ rset[rs].state = "present" /\ rset[rs].finalizer
    /\ ~Usable(aset)
    /\ rset' = [rset EXCEPT ![rs].ready = IF aset.state = "present" THEN @ ELSE "false"]
    /\ UNCHANGED <<managerVars, started, asetVars, session, workerVars, failures>>

(* reconcileExistingListener, when the recorded hash is the current one. *)
ReconcileUpToDate(rs) ==
    /\ rs \in queued /\ pc[rs] = "idle"
    /\ rset[rs].state = "present" /\ rset[rs].finalizer /\ Usable(aset)
    /\ Manager!HasListener(KeyOf(rs))
    /\ rset[rs].hash = PodSpecHash(aset, rset[rs])
    /\ rset' = [rset EXCEPT ![rs].ready = "true"]
    /\ UNCHANGED <<managerVars, started, asetVars, session, workerVars, failures>>

(* Otherwise a changed pod spec is rolled out, or a listener is started. *)
ReconcileContinues(rs) ==
    /\ BeginReconcile(rs)
    /\ rset[rs].state = "present" /\ rset[rs].finalizer /\ Usable(aset)
    /\ snap' = [snap EXCEPT ![rs] = Fetched(rs)]
    /\ \/ /\ Manager!HasListener(KeyOf(rs))
          /\ rset[rs].hash # PodSpecHash(aset, rset[rs])
          /\ Goto(rs, "stop")
       \/ /\ ~Manager!HasListener(KeyOf(rs))
          /\ Goto(rs, "session")
    /\ UNCHANGED <<managerVars, started, objectVars, session, failures>>

(* Seeded fault: the listener is stopped only while the AutoscaleSet stays. *)
DeletesWithReady(rs) ==
    /\ BeginReconcile(rs)
    /\ rset[rs].state = "deleting" /\ rset[rs].finalizer
    /\ snap' = [snap EXCEPT ![rs] = Fetched(rs)]
    /\ Goto(rs, "unfinalize")
    /\ IF Usable(aset) /\ Manager!HasListener(KeyOf(rs))
       THEN Manager!StopListener(KeyOf(rs))
       ELSE UNCHANGED managerVars
    /\ UNCHANGED <<started, objectVars, session, failures>>

(* handleDeletion: the listener is stopped if the AutoscaleSet can still be
   read and has its ID. *)
ReconcileDeletes(rs) ==
    /\ BeginReconcile(rs)
    /\ rset[rs].state = "deleting" /\ rset[rs].finalizer
    /\ snap' = [snap EXCEPT ![rs] = Fetched(rs)]
    /\ Goto(rs, "unfinalize")
    /\ IF aset.id # NoId /\ Manager!HasListener(KeyOf(rs))
       THEN Manager!StopListener(KeyOf(rs))
       ELSE UNCHANGED managerVars
    /\ UNCHANGED <<started, objectVars, session, failures>>

(* A conflict and any other error have the queue retry. *)
Unfinalize(rs) ==
    /\ pc[rs] = "unfinalize"
    /\ Return(rs)
    /\ \/ /\ rset[rs] = snap[rs].rs
          /\ rset' = [rset EXCEPT ![rs] = NoRunnerSet]
          /\ UNCHANGED <<queued, failures>>
       \/ /\ IF rset[rs] = snap[rs].rs THEN Fail ELSE UNCHANGED failures
          /\ UNCHANGED rset /\ Requeue(rs)
    /\ UNCHANGED <<managerVars, started, asetVars, session>>

------------------------------------------------------------------------------
(* reconcileExistingListener: rollout of a changed pod spec, after it has
   deleted idle pods (Rollout of KubernetesScaler), where errors are only
   logged *)

(* The listener may have ended on its own meanwhile; that error is ignored. *)
RolloutStops(rs) ==
    /\ pc[rs] = "stop"
    /\ Goto(rs, "record")
    /\ IF Manager!HasListener(snap[rs].rs.key)
       THEN Manager!StopListener(snap[rs].rs.key)
       ELSE UNCHANGED managerVars
    /\ UNCHANGED <<started, objectVars, session, queued, snap, failures>>

(* Seeded fault: the update is sent without a resource version. *)
RolloutOverwrites(rs) ==
    /\ pc[rs] = "record"
    /\ Goto(rs, "session")
    /\ rset' = [rset EXCEPT ![rs] = [snap[rs].rs EXCEPT
                                       !.hash = PodSpecHash(snap[rs].as, snap[rs].rs)]]
    /\ snap' = [snap EXCEPT ![rs].rs = rset'[rs]]
    /\ UNCHANGED <<managerVars, started, asetVars, session, queued, failures>>

(* An error is logged and the rollout goes on: a conflict, or any other. *)
RolloutRecords(rs) ==
    /\ pc[rs] = "record"
    /\ Goto(rs, "session")
    /\ \/ /\ rset[rs] = snap[rs].rs
          /\ rset' = [rset EXCEPT ![rs].hash = PodSpecHash(snap[rs].as, snap[rs].rs)]
          /\ UNCHANGED failures
       \/ /\ IF rset[rs] = snap[rs].rs THEN Fail ELSE UNCHANGED failures
          /\ UNCHANGED rset
    /\ UNCHANGED <<managerVars, started, asetVars, session, queued, snap>>

------------------------------------------------------------------------------
(* startListener, which works with what was fetched *)
ScaleSetOf(rs) == snap[rs].as.id
WantedKey(rs) == snap[rs].rs.key
SessionBecomes(i, value) == session' = [session EXCEPT ![i] = value]

(* Seeded fault: a conflict is taken for a session of one's own. *)
OpenAnySession(rs) ==
    /\ pc[rs] = "session"
    /\ SessionBecomes(ScaleSetOf(rs), "opened")
    /\ Goto(rs, "start")
    /\ UNCHANGED <<managerVars, started, objectVars, queued, snap, failures>>

(* createMessageSession: GitHub grants one session per scale set, while there
   is such a scale set. *)
OpenSession(rs) ==
    /\ pc[rs] = "session"
    /\ ScaleSetOf(rs) = aset.id /\ session[ScaleSetOf(rs)] = "none"
    /\ SessionBecomes(ScaleSetOf(rs), "opened")
    /\ Goto(rs, "start")
    /\ UNCHANGED <<managerVars, started, objectVars, queued, snap, failures>>

(* Seeded fault: the wait for the old session ends the reconcile for good. *)
SessionConflictDropped(rs) ==
    /\ pc[rs] = "session"
    /\ session[ScaleSetOf(rs)] # "none"
    /\ Return(rs)
    /\ UNCHANGED <<managerVars, started, objectVars, session, queued, failures>>

(* A previous session is still active: wait, unless there is a listener by now,
   which a RunnerSet with the same key has started.  Then updateStatus reports
   it; an error of updateStatus is dropped there, and the request with it. *)
SessionConflict(rs) ==
    /\ pc[rs] = "session"
    /\ session[ScaleSetOf(rs)] # "none"
    /\ IF Manager!HasListener(WantedKey(rs))
       THEN \/ ReturnStatus(rs, "true") /\ UNCHANGED failures
            \/ Return(rs) /\ Fail /\ UNCHANGED <<rset, queued>>
       ELSE Return(rs) /\ Requeue(rs) /\ UNCHANGED <<rset, failures>>
    /\ UNCHANGED <<managerVars, started, asetVars, session>>

(* No client, or no session for another reason: the scale set may be gone. *)
SessionFails(rs) ==
    /\ pc[rs] = "session"
    /\ IF ScaleSetOf(rs) # aset.id \/ aset.state = "deleting" THEN UNCHANGED failures ELSE Fail
    /\ ReturnStatus(rs, "false")
    /\ UNCHANGED <<managerVars, started, asetVars, session>>

(* The scaler is built from the objects as fetched, and the listener started. *)
StartSucceeds(rs) ==
    /\ pc[rs] = "start"
    /\ \E l \in Listeners :
          /\ Manager!StartListener(WantedKey(rs), l)
          /\ started' = [started EXCEPT ![l] =
                            [id |-> ScaleSetOf(rs), spec |-> PodSpecHash(snap[rs].as, snap[rs].rs)]]
    /\ SessionBecomes(ScaleSetOf(rs), "held")
    /\ Goto(rs, "annotate")
    /\ UNCHANGED <<objectVars, queued, snap, failures>>

(* No listener could be made of the session, or the manager has one for the key
   (of an earlier scale set, or whoever has it would hold the session).  The
   session is abandoned. *)
StartFails(rs) ==
    /\ pc[rs] = "start"
    /\ IF Manager!HasListener(WantedKey(rs)) THEN UNCHANGED failures ELSE Fail
    /\ SessionBecomes(ScaleSetOf(rs), "lingering")
    /\ ReturnStatus(rs, "false")
    /\ UNCHANGED <<managerVars, started, asetVars>>

(* setRunnerSetListenerAnnotations fetches the RunnerSet again: the template may
   have been edited since the listener was made. *)
AnnotateFetches(rs) ==
    /\ pc[rs] = "annotate"
    /\ Goto(rs, "update")
    /\ snap' = [snap EXCEPT ![rs].rs = rset[rs]]
    /\ UNCHANGED <<managerVars, started, objectVars, session, queued, failures>>

(* Seeded fault: the AutoscaleSet is fetched again as well. *)
AnnotateCurrent(rs) ==
    /\ pc[rs] = "update"
    /\ rset' = IF rset[rs] = snap[rs].rs
               THEN [rset EXCEPT ![rs] =
                        [@ EXCEPT !.hash = PodSpecHash(aset, snap[rs].rs), !.ready = "true"]]
               ELSE rset
    /\ Return(rs) /\ Requeue(rs)
    /\ UNCHANGED <<managerVars, started, asetVars, session, failures>>

(* It records the hash of the template as it is by now, and updateStatus follows.
   A conflict ends the reconcile with an error, which the work queue retries. *)
AnnotateUpdates(rs) ==
    /\ pc[rs] = "update"
    /\ rset' = IF rset[rs] = snap[rs].rs
               THEN [rset EXCEPT ![rs] =
                        [@ EXCEPT !.hash = PodSpecHash(snap[rs].as, snap[rs].rs), !.ready = "true"]]
               ELSE rset
    /\ Return(rs) /\ Requeue(rs)
    /\ UNCHANGED <<managerVars, started, asetVars, session, failures>>

AnnotateFails(rs) ==
    /\ pc[rs] \in {"annotate", "update"} /\ Fail
    /\ Return(rs) /\ Requeue(rs)
    /\ UNCHANGED <<managerVars, started, objectVars, session>>

------------------------------------------------------------------------------
(* Listeners.  A session is left behind when its listener has ended. *)

ListenerSignals(l) ==
    /\ Manager!WatchStop(l) \/ Manager!RunCancelled(l)
    /\ UNCHANGED <<started, objectVars, session, workerVars, failures>>

ListenerFails(l) ==
    /\ Manager!RunFails(l) /\ Fail
    /\ UNCHANGED <<started, objectVars, session, workerVars>>

(* The scale set of an AutoscaleSet that is gone was deleted before it
   (RecordedIsDeleted of AutoscaleSetReconciler): GitHub refuses the poll. *)
ListenerRefused(l) ==
    /\ Manager!RunFails(l) /\ started[l].id # aset.id
    /\ UNCHANGED <<started, objectVars, session, workerVars, failures>>

ListenerEnds(l) ==
    /\ Manager!Deregister(l)
    /\ SessionBecomes(started[l].id, "lingering")
    /\ started' = [started EXCEPT ![l] = NotStarted]
    /\ UNCHANGED <<objectVars, workerVars, failures>>

SessionExpires(i) ==
    /\ session[i] = "lingering"
    /\ SessionBecomes(i, "none")
    /\ UNCHANGED <<managerVars, started, objectVars, workerVars, failures>>

------------------------------------------------------------------------------
(* Users, the AutoscaleSet controller, and the watches.  Only creations,
   deletions and changes of the generation get past the event filter. *)

Changed(rs, object) ==
    /\ rset' = [rset EXCEPT ![rs] = object]
    /\ Requeue(rs)
    /\ UNCHANGED <<managerVars, started, asetVars, session, pc, snap, failures>>

CreateRunnerSet(rs) ==
    /\ rset[rs].state = "absent" /\ pc[rs] = "idle"
    /\ \E k \in Keys : Changed(rs, [NoRunnerSet EXCEPT !.state = "present", !.key = k])

(* An edit of the template, and maybe of the runner group. *)
EditRunnerSet(rs) ==
    /\ rset[rs].state # "absent" /\ rset[rs].template < MaxEdits
    /\ \E k \in Keys : Changed(rs, [rset[rs] EXCEPT !.template = @ + 1, !.key = k])

DeleteRunnerSet(rs) ==
    /\ rset[rs].state = "present"
    /\ Changed(rs, IF rset[rs].finalizer THEN [rset[rs] EXCEPT !.state = "deleting"]
                   ELSE NoRunnerSet)

(* mapAutoscaleSetToRunnerSets *)
Present == {rs \in RunnerSets : rset[rs].state # "absent"}

(* The AutoscaleSet is created, edited, deleted or gone. *)
AutoscaleSetChanges ==
    /\ Lifecycle!Create \/ Lifecycle!Edit \/ Lifecycle!Delete \/ Lifecycle!Remove
    /\ queued' = queued \cup Present
    /\ UNCHANGED <<managerVars, started, rset, session, pc, snap, failures>>

(* The scale set ID arrives in the status, which the filter hides. *)
AutoscaleSetRecords ==
    /\ Lifecycle!Record
    /\ UNCHANGED <<managerVars, started, rset, session, workerVars, failures>>

(* The operator crashes and comes back: goroutines and the map are gone, every
   RunnerSet is seen as created, sessions linger. *)
Crash ==
    /\ Fail
    /\ listeners' = [k \in Keys |-> NoListener]
    /\ goroutine' = [l \in Listeners |-> "none"]
    /\ stopCh' = [l \in Listeners |-> FALSE]
    /\ runCtx' = [l \in Listeners |-> FALSE]
    /\ started' = [l \in Listeners |-> NotStarted]
    /\ pc' = [rs \in RunnerSets |-> "idle"]
    /\ queued' = Present
    /\ session' = [i \in Ids |-> IF session[i] = "none" THEN "none" ELSE "lingering"]
    /\ snap' = [rs \in RunnerSets |-> NoSnap]
    /\ UNCHANGED <<key, mgrCtx, stopAll, objectVars>>

------------------------------------------------------------------------------
Reconcile(rs) ==
    \/ ReconcileGone(rs) \/ ReconcileAddsFinalizer(rs) \/ ReconcileWaits(rs)
    \/ ReconcileUpToDate(rs) \/ ReconcileContinues(rs)
    \/ ReconcileDeletes(rs) \/ Unfinalize(rs)
    \/ RolloutStops(rs) \/ RolloutRecords(rs)
    \/ OpenSession(rs) \/ SessionConflict(rs) \/ SessionFails(rs)
    \/ StartSucceeds(rs) \/ StartFails(rs)
    \/ AnnotateFetches(rs) \/ AnnotateUpdates(rs) \/ AnnotateFails(rs)

ListenerStep(l) == ListenerSignals(l) \/ ListenerRefused(l) \/ ListenerEnds(l)

User == \E rs \in RunnerSets : CreateRunnerSet(rs) \/ EditRunnerSet(rs) \/ DeleteRunnerSet(rs)

Next ==
    \/ \E rs \in RunnerSets : Reconcile(rs)
    \/ \E l \in Listeners : ListenerStep(l) \/ ListenerFails(l)
    \/ \E i \in Ids : SessionExpires(i)
    \/ User \/ AutoscaleSetChanges \/ AutoscaleSetRecords
    \/ Crash

(* The controller works off its queue, goroutines run, GitHub refuses polls of
   a scale set that is gone and expires sessions that are not polled.  Users
   need not act. *)
Fairness ==
    /\ \A rs \in RunnerSets : WF_vars(Reconcile(rs))
    /\ \A l \in Listeners : WF_vars(ListenerStep(l))
    /\ \A i \in Ids : WF_vars(SessionExpires(i))

Spec == Init /\ [][Next]_vars /\ Fairness

------------------------------------------------------------------------------
Ready(rs) == rset[rs].state = "present" /\ Usable(aset)
Noticed(rs) == Ready(rs) /\ rset[rs].ready # "unknown"

(* No call failed that could have made two RunnerSets lose track. *)
Reliable(rs) == failures = 0 \/ RunnerSets = {rs}

(* A listener of another runner group holds the scale set's only session. *)
Blocked(rs) == \E k \in Keys \ {KeyOf(rs)} : Manager!HasListener(k)

(* A listener that serves and was not told to stop can be found in the map:
   HasListener is no guess.  The manager alone does not ensure it (a goroutine
   that ends late deletes the entry of its successor), GitHub's single session
   per scale set does, as long as there was no second scale set. *)
ServingIsRegistered ==
    assigned <= 1 =>
        \A l \in Listeners : goroutine[l] = "running" /\ ~stopCh[l] => listeners[key[l]] = l

(* A RunnerSet that was reconciled once, and not only to get its finalizer, is
   never forgotten: every way out of Reconcile puts the request back, unless a
   call fails while another RunnerSet has the listener. *)
NeverForgotten ==
    \A rs \in RunnerSets :
        /\ rset[rs].state = "present" /\ rset[rs].ready # "unknown"
        /\ Reliable(rs)
        => rs \in queued \/ pc[rs] # "idle"

(* The last RunnerSet of a key takes the key's listener along, also one that was
   started for another RunnerSet meanwhile, if the AutoscaleSet still records
   its first scale set: handleDeletion looks at nothing else. *)
LastOneStops ==
    [][\A rs \in RunnerSets :
          /\ pc[rs] = "unfinalize" /\ pc'[rs] = "idle" /\ rset'[rs].state = "absent"
          /\ \A other \in RunnerSets : rset'[other].state # "absent" => KeyOf(other) # KeyOf(rs)
          /\ aset.id # NoId /\ assigned <= 1
          => listeners'[KeyOf(rs)] = NoListener]_vars

(* Whatever ended or outdated a listener (failure, crash, rollout, an edit of the
   AutoscaleSet at any step of a reconcile), one with the AutoscaleSet's current
   scale set and template follows. *)
CurrentSpecServed ==
    \A rs \in RunnerSets :
        Noticed(rs) ~>
            \/ /\ Manager!HasListener(KeyOf(rs))
               /\ started[listeners[KeyOf(rs)]].id = aset.id
               /\ started[listeners[KeyOf(rs)]].spec[1] = aset.template
            \/ Blocked(rs) \/ ~Ready(rs) \/ ~Reliable(rs)

(* A user's edit is never overwritten by the controller's own updates, which
   work on objects fetched many steps before. *)
EditsKept ==
    [][\A rs \in RunnerSets :
          rset'[rs].state # "absent" => rset'[rs].template >= rset[rs].template]_vars

(* A RunnerSet with an AutoscaleSet that is ready gets its listener ("opens a
   message session, starts listeners per runner group"). *)
RunnerSetServed ==
    \A rs \in RunnerSets :
        Ready(rs) ~> Manager!HasListener(KeyOf(rs)) \/ ~Ready(rs)

(* A listener that ended is replaced "until the previous session expires": a
   RunnerSet does not wait for ever. *)
ListenerRestarts ==
    \A rs \in RunnerSets :
        Noticed(rs) ~> Manager!HasListener(KeyOf(rs)) \/ Blocked(rs) \/ ~Ready(rs)

(* An edit of a RunnerSet's template that is there when no reconcile is under way,
   and that the recorded hash does not have yet, reaches a listener, whatever
   fails, ends or is edited on the way.  An edit made while a reconcile is under
   way may not: setRunnerSetListenerAnnotations fetches the RunnerSet again after
   the listener was made of the older template, and records the edit as rolled
   out. *)
EditPending(rs, version) ==
    /\ Noticed(rs) /\ pc[rs] = "idle"
    /\ rset[rs].template = version
    /\ rset[rs].hash # NoSpec => rset[rs].hash[2] # version

EditRolledOut ==
    \A rs \in RunnerSets, version \in 1 .. MaxEdits :
        EditPending(rs, version) ~>
            \/ /\ Manager!HasListener(KeyOf(rs))
               /\ started[listeners[KeyOf(rs)]].spec[2] >= version
            \/ Blocked(rs) \/ ~Ready(rs) \/ ~Reliable(rs)

------------------------------------------------------------------------------
(* The inductive invariants behind these. *)

(* A reconcile that has begun works for an object that cannot go away under it:
   the finalizer is there before anything else is written. *)
FinalizerFirst ==
    \A rs \in RunnerSets :
        /\ rset[rs].state = "absent" => rset[rs] = NoRunnerSet
        /\ rset[rs].ready # "unknown" \/ pc[rs] # "idle" => rset[rs].finalizer
        /\ pc[rs] # "idle" => snap[rs].rs.template <= rset[rs].template

(* Between finding no listener, or stopping it, and starting one, a RunnerSet that
   is alone still has none. *)
Starting == {"record", "session", "start"}

NoRival ==
    \A rs \in RunnerSets :
        RunnerSets = {rs} /\ pc[rs] \in Starting => ~Manager!HasListener(WantedKey(rs))

(* Scale set IDs that are in use were assigned. *)
AssignedIds ==
    /\ aset.id <= assigned
    /\ \A rs \in RunnerSets :
          /\ ScaleSetOf(rs) <= assigned
          /\ pc[rs] \in {"stop", "annotate", "update"} \cup Starting => ScaleSetOf(rs) # NoId
    /\ \A l \in Listeners : goroutine[l] # "none" => started[l].id \in 1 .. assigned

(* A session belongs to the reconcile that has opened it, then to the listener
   that was started with it, until the end of that listener's goroutine. *)
SessionOwned ==
    /\ \A rs \in RunnerSets : pc[rs] = "start" => session[ScaleSetOf(rs)] = "opened"
    /\ \A l \in Listeners : goroutine[l] # "none" => session[started[l].id] = "held"

OneStarter ==
    \A rs, other \in RunnerSets :
        /\ pc[rs] = "start" /\ pc[other] = "start"
        /\ ScaleSetOf(rs) = ScaleSetOf(other)
        => rs = other

(* Listeners of one scale set exclude each other, whatever their keys and
   however late they end. *)
OneListenerPerScaleSet ==
    \A l, m \in Listeners :
        /\ goroutine[l] # "none" /\ goroutine[m] # "none"
        /\ started[l].id = started[m].id
        => l = m

SessionInv == AssignedIds /\ SessionOwned /\ OneStarter /\ OneListenerPerScaleSet

(* While no RunnerSet can move to another runner group, a listener has a RunnerSet
   of its key that has still to stop it. *)
GroupsFixed == MaxEdits = 0 \/ \A j, k \in Keys : j = k

KeyKept == \A rs \in RunnerSets : pc[rs] # "idle" => WantedKey(rs) = KeyOf(rs)

Attended ==
    assigned <= 1 /\ aset.id # NoId =>
        \A k \in Keys : Manager!HasListener(k) =>
            \E rs \in RunnerSets :
                KeyOf(rs) = k /\ rset[rs].finalizer /\ pc[rs] # "unfinalize"

ReconcilerInv ==
    /\ TypeOK /\ Manager!RegisteredIsLive
    /\ FinalizerFirst /\ NoRival /\ SessionInv
==============================================================================
