------------------------ MODULE AutoscaleSetReconciler ------------------------
(****************************************************************************)
(* The AutoscaleSet controller (internal/controller/autoscaleset_controller)*)
(* and the scale set cache it reads through: it creates the scale set at    *)
(* GitHub and stores its ID in the status, keeps the labels of the two in   *)
(* agreement, and deletes the scale set before it gives the object up.      *)
(*                                                                          *)
(* A reconcile is a sequence of steps on a working copy.  It reads objects  *)
(* from the informer, `seen`, which lags behind the API server, `aset`; an  *)
(* update with an out-of-date copy is refused.  GitHub allows one scale set *)
(* per name, the name is that of the one AutoscaleSet, and an ID is never   *)
(* used again.  A call with its retries is one call that succeeds, is       *)
(* refused, or fails with or without having taken effect.                   *)
(****************************************************************************)
EXTENDS Integers

CONSTANTS
    MaxIds,       \* bound on the number of scale sets ever created
    MaxEdits,     \* bound on the generation of the AutoscaleSet
    MaxFailures   \* bound on failing calls and operator crashes

ASSUME AutoscaleSetAssumption == MaxIds \in Nat /\ MaxEdits \in Nat /\ MaxFailures \in Nat

VARIABLES
    aset,       \* the AutoscaleSet in the API server
    seen,       \* the AutoscaleSet in the informer cache
    github,     \* github[i]: the labels of scale set i
    nextId,     \* the ID that GitHub gives next
    cache,      \* cache[i]: the labels of scale set i in client.Cache
    queued,     \* there is a reconcile request, a delayed one included
    pc,         \* the next step of the reconcile
    work,       \* the copy of the AutoscaleSet it works on
    have,       \* the scale set it got from GitHub or from the cache
    failures

objectVars == <<aset, seen>>
githubVars == <<github, nextId>>
vars == <<objectVars, githubVars, cache, queued, pc, work, have, failures>>

Ids == 1 .. MaxIds
NoId == 0
Label ==
    [type : {"System", "system", "Custom", "custom"}, name : {"self-hosted", "gpu", "scaleset"}]
Labels == SUBSET Label
NoLabels == {}      \* there is no such scale set, or no such entry

AutoscaleSet ==
    [state : {"absent", "present", "deleting"}, finalizer : BOOLEAN, gen : 0 .. MaxEdits,
     id : Ids \cup {NoId}, phase : {"", "Active", "Error"}]
NoAutoscaleSet ==
    [state |-> "absent", finalizer |-> FALSE, gen |-> 0, id |-> NoId, phase |-> ""]
NoScaleSet == [id |-> NoId, labels |-> NoLabels]

TypeOK ==
    /\ aset \in AutoscaleSet /\ seen \in AutoscaleSet /\ work \in AutoscaleSet
    /\ github \in [Ids -> Labels]
    /\ cache \in [Ids -> Labels]
    /\ nextId \in 1 .. MaxIds + 1
    /\ queued \in BOOLEAN
    /\ pc \in {"idle", "create", "store", "get", "labels", "status", "delete", "unfinalize"}
    /\ have \in [id : Ids \cup {NoId}, labels : Labels]
    /\ failures \in 0 .. MaxFailures

Init ==
    /\ aset = NoAutoscaleSet /\ seen = NoAutoscaleSet /\ work = NoAutoscaleSet
    /\ github = [i \in Ids |-> NoLabels] /\ cache = [i \in Ids |-> NoLabels]
    /\ nextId = 1
    /\ queued = FALSE /\ pc = "idle" /\ have = NoScaleSet
    /\ failures = 0

Fail == failures < MaxFailures /\ failures' = failures + 1

(* The labels in the spec, without duplicates: each edit changes them, and the
   third one back. *)
GpuLabel(type) == [type |-> type, name |-> "gpu"]
SpecLabels(as) ==
    IF as.gen % 3 = 0 THEN {}
    ELSE IF as.gen % 3 = 1 THEN {GpuLabel(""), GpuLabel("Custom")}
    ELSE {GpuLabel("Custom"), [type |-> "Custom", name |-> "self-hosted"]}

SystemLabel(name) == [type |-> "System", name |-> name]

BuildLabels(as) ==
    LET given == {IF l.type = "" THEN SystemLabel(l.name) ELSE l : l \in SpecLabels(as)}
        labels == IF \E l \in given : l.name = "self-hosted"
                  THEN given ELSE given \cup {SystemLabel("self-hosted")}
    IN  IF \E l \in labels : labels = {l} /\ l.name = "self-hosted"
        THEN labels \cup {SystemLabel("scaleset")} ELSE labels

(* Types are compared in lower case, and "self-hosted" is left out. *)
Normalize(l) ==
    [l EXCEPT !.type = CASE @ \in {"System", "system"} -> "system" [] OTHER -> "custom"]
Compared(labels) == {Normalize(l) : l \in {x \in labels : x.name # "self-hosted"}}

LabelsEqual(a, b) == Compared(a) = Compared(b)

(* GitHub stores the types in lower case, and may filter "self-hosted". *)
GitHubStores(labels) == {Compared(labels), {Normalize(l) : l \in labels}}

NameTaken == \E i \in Ids : github[i] # NoLabels

------------------------------------------------------------------------------
(* A reconcile ends: what it worked on is dropped. *)
Return == pc' = "idle" /\ work' = NoAutoscaleSet /\ have' = NoScaleSet

(* Every update is refused if the copy it is made from is out of date; a copy
   is compared by its contents, not by a version number. *)
Update(from, object) == aset' = IF from = aset THEN object ELSE aset

(* Seeded fault: the reason is stored as the phase. *)
ReturnReason ==
    /\ Update(seen, [seen EXCEPT !.phase = "ScaleSetNotFound"])
    /\ queued' = TRUE
    /\ Return
    /\ UNCHANGED <<seen, nextId>>

(* updateStatusError: the object is fetched again, and the request is put back
   whether or not the update is refused. *)
ReturnError ==
    /\ Update(seen, [seen EXCEPT !.phase = "Error"])
    /\ queued' = TRUE
    /\ Return
    /\ UNCHANGED <<seen, nextId>>

BeginReconcile ==
    /\ queued /\ pc = "idle"
    /\ UNCHANGED <<seen, githubVars, cache, have>>

ReconcileGone ==
    /\ BeginReconcile
    /\ seen.state = "absent" \/ (seen.state = "deleting" /\ ~seen.finalizer)
    /\ queued' = FALSE
    /\ UNCHANGED <<aset, pc, work, failures>>

(* ensureFinalizer: the reconcile ends, without a requeue.  (If the update is
   refused the queue retries, and nothing has changed.) *)
ReconcileAddsFinalizer ==
    /\ BeginReconcile
    /\ seen.state = "present" /\ ~seen.finalizer
    /\ seen = aset
    /\ aset' = [aset EXCEPT !.finalizer = TRUE]
    /\ queued' = FALSE
    /\ UNCHANGED <<pc, work, failures>>

(* Seeded fault: the finalizer is only added to the copy in memory. *)
ReconcileUnprotected ==
    /\ BeginReconcile
    /\ seen.state = "present"
    /\ queued' = FALSE
    /\ work' = seen
    /\ pc' = IF seen.id = NoId THEN "create" ELSE "get"
    /\ UNCHANGED <<aset, failures>>

(* reconcileActive, once the client and the runner group are there. *)
ReconcileActive ==
    /\ BeginReconcile
    /\ seen.state = "present" /\ seen.finalizer
    /\ queued' = FALSE
    /\ work' = seen
    /\ pc' = IF seen.id = NoId THEN "create" ELSE "get"
    /\ UNCHANGED <<aset, failures>>

(* No client, or no such runner group. *)
ReconcileFails ==
    /\ queued /\ pc = "idle"
    /\ seen.state = "present" /\ seen.finalizer
    /\ Fail /\ ReturnError
    /\ UNCHANGED <<github, cache>>

(* handleDeletion *)
ReconcileDeletes ==
    /\ BeginReconcile
    /\ seen.state = "deleting" /\ seen.finalizer
    /\ queued' = FALSE
    /\ work' = seen
    /\ pc' = IF seen.id = NoId THEN "unfinalize" ELSE "delete"
    /\ UNCHANGED <<aset, failures>>

------------------------------------------------------------------------------
(* createScaleSet *)

GitHubCreates ==
    /\ pc = "create" /\ ~NameTaken /\ nextId \in Ids
    /\ \E labels \in GitHubStores(BuildLabels(work)) : github' = [github EXCEPT ![nextId] = labels]
    /\ nextId' = nextId + 1

CreateSucceeds ==
    /\ GitHubCreates
    /\ have' = [id |-> nextId, labels |-> github'[nextId]]
    /\ pc' = "store"
    /\ UNCHANGED <<objectVars, cache, queued, work, failures>>

(* The answer is lost and RetryWithBackoff asks again. *)
CreateLost ==
    /\ GitHubCreates /\ Fail
    /\ UNCHANGED <<objectVars, cache, queued, pc, work, have>>

(* The name is taken, or the creation fails. *)
CreateRefused ==
    /\ pc = "create"
    /\ IF NameTaken THEN UNCHANGED failures ELSE Fail
    /\ ReturnError
    /\ UNCHANGED <<github, cache>>

(* The ID is stored in the object fetched again.  A conflict puts the request
   back; the ID is not kept anywhere else. *)
StoreId ==
    /\ pc = "store"
    /\ Update(seen, [seen EXCEPT !.id = have.id, !.phase = "Active"])
    /\ queued' = (queued \/ seen # aset)
    /\ Return
    /\ UNCHANGED <<seen, githubVars, cache, failures>>

------------------------------------------------------------------------------
(* updateScaleSet *)

(* GetScaleSet of the cache. *)
GetScaleSet ==
    /\ pc = "get"
    /\ IF cache[work.id] # NoLabels
       THEN have' = [id |-> work.id, labels |-> cache[work.id]] /\ UNCHANGED cache
       ELSE /\ github[work.id] # NoLabels
            /\ have' = [id |-> work.id, labels |-> github[work.id]]
            /\ cache' = [cache EXCEPT ![work.id] = github[work.id]]
    /\ pc' = "labels"
    /\ UNCHANGED <<objectVars, githubVars, queued, work, failures>>

GetFails ==
    /\ pc = "get" /\ cache[work.id] = NoLabels
    /\ Fail /\ ReturnError
    /\ UNCHANGED <<github, cache>>

GitHubUpdates ==
    \E labels \in GitHubStores(BuildLabels(seen)) : github' = [github EXCEPT ![have.id] = labels]

(* The AutoscaleSet is fetched again; maybeUpdateScaleSetLabels compares it with
   the scale set at hand and updates GitHub, but not the cache. *)
UpdateLabels ==
    /\ pc = "labels"
    /\ work' = seen
    /\ IF LabelsEqual(have.labels, BuildLabels(seen)) THEN UNCHANGED github ELSE GitHubUpdates
    /\ pc' = "status"
    /\ UNCHANGED <<objectVars, nextId, cache, queued, have, failures>>

UpdateLabelsFails ==
    /\ pc = "labels" /\ ~LabelsEqual(have.labels, BuildLabels(seen))
    /\ Fail /\ ReturnError
    /\ UNCHANGED github \/ GitHubUpdates
    /\ UNCHANGED cache

(* Seeded fault: an active AutoscaleSet is not looked at again. *)
StoreStatusOnce ==
    /\ pc = "status"
    /\ Update(work, [work EXCEPT !.phase = "Active"])
    /\ queued' = (queued \/ work # aset)
    /\ Return
    /\ UNCHANGED <<seen, githubVars, cache, failures>>

(* Seeded fault: the status is stored without looking at the version. *)
StoreStatusBlindly ==
    /\ pc = "status"
    /\ aset' = [work EXCEPT !.phase = "Active"]
    /\ queued' = TRUE
    /\ Return
    /\ UNCHANGED <<seen, githubVars, cache, failures>>

(* The status is stored, and the request put back with a delay; at once after
   a conflict. *)
StoreStatus ==
    /\ pc = "status"
    /\ Update(work, [work EXCEPT !.phase = "Active"])
    /\ queued' = TRUE
    /\ Return
    /\ UNCHANGED <<seen, githubVars, cache, failures>>

------------------------------------------------------------------------------
(* handleDeletion *)

(* deleteScaleSetInGitHub.  What GitHub answers to the deletion of a scale set
   that is gone is taken to be either. *)
DeleteSucceeds ==
    /\ pc = "delete"
    /\ github' = [github EXCEPT ![work.id] = NoLabels]
    /\ pc' = "unfinalize"
    /\ UNCHANGED <<objectVars, nextId, cache, queued, work, have, failures>>

DeleteFails ==
    /\ pc = "delete"
    /\ IF github[work.id] = NoLabels THEN UNCHANGED failures ELSE Fail
    /\ github' \in {github, [github EXCEPT ![work.id] = NoLabels]}
    /\ queued' = TRUE
    /\ Return
    /\ UNCHANGED <<objectVars, nextId, cache>>

(* Seeded fault: the finalizer is removed without looking at the version. *)
UnfinalizeBlindly ==
    /\ pc = "unfinalize"
    /\ aset' = NoAutoscaleSet
    /\ Return
    /\ UNCHANGED <<seen, githubVars, cache, queued, failures>>

(* The object is removed with its finalizer. *)
Unfinalize ==
    /\ pc = "unfinalize"
    /\ Update(work, NoAutoscaleSet)
    /\ queued' = (queued \/ work # aset)
    /\ Return
    /\ UNCHANGED <<seen, githubVars, cache, failures>>

(* The API server fails: the queue retries the request. *)
UpdateFails ==
    /\ pc \in {"store", "status", "unfinalize"} /\ Fail
    /\ queued' = TRUE
    /\ Return
    /\ UNCHANGED <<objectVars, githubVars, cache>>

------------------------------------------------------------------------------
(* The informer, the TTL of the cache, users, and crashes *)

(* The informer catches up.  Creations, deletions and changes of the generation
   get past the event filter; changes of the status and of the finalizer do
   not. *)
InformerSync ==
    /\ seen # aset
    /\ seen' = aset
    /\ queued' = (queued \/ seen.state # aset.state \/ seen.gen # aset.gen)
    /\ UNCHANGED <<aset, githubVars, cache, pc, work, have, failures>>

(* mapSecretToAutoscaleSets: a Secret of the AutoscaleSet is created or deleted.
   Its updates do not change a generation and are filtered as well. *)
SecretEvent ==
    /\ ~queued /\ seen.state # "absent"
    /\ queued' = TRUE
    /\ UNCHANGED <<objectVars, githubVars, cache, pc, work, have, failures>>

CacheExpires(i) ==
    /\ cache[i] # NoLabels
    /\ cache' = [cache EXCEPT ![i] = NoLabels]
    /\ UNCHANGED <<objectVars, githubVars, queued, pc, work, have, failures>>

UserWrites(object) ==
    /\ aset' = object
    /\ UNCHANGED <<seen, githubVars, cache, queued, pc, work, have, failures>>

CreateAutoscaleSet ==
    /\ aset.state = "absent" /\ seen.state = "absent"
    /\ UserWrites([NoAutoscaleSet EXCEPT !.state = "present"])

EditAutoscaleSet ==
    /\ aset.state # "absent" /\ aset.gen < MaxEdits
    /\ UserWrites([aset EXCEPT !.gen = @ + 1])

DeleteAutoscaleSet ==
    /\ aset.state = "present"
    /\ UserWrites(IF aset.finalizer THEN [aset EXCEPT !.state = "deleting"] ELSE NoAutoscaleSet)

(* The operator crashes and comes back, with its informer up to date. *)
Crash ==
    /\ Fail
    /\ seen' = aset
    /\ queued' = (aset.state # "absent")
    /\ cache' = [i \in Ids |-> NoLabels]
    /\ Return
    /\ UNCHANGED <<aset, githubVars>>

------------------------------------------------------------------------------
Reconcile ==
    \/ ReconcileGone \/ ReconcileAddsFinalizer \/ ReconcileActive \/ ReconcileFails
    \/ CreateSucceeds \/ CreateLost \/ CreateRefused \/ StoreId
    \/ GetScaleSet \/ GetFails \/ UpdateLabels \/ UpdateLabelsFails \/ StoreStatus
    \/ ReconcileDeletes \/ DeleteSucceeds \/ DeleteFails \/ Unfinalize
    \/ UpdateFails

User == CreateAutoscaleSet \/ EditAutoscaleSet \/ DeleteAutoscaleSet

Next ==
    \/ Reconcile
    \/ InformerSync \/ SecretEvent
    \/ \E i \in Ids : CacheExpires(i)
    \/ User \/ Crash

(* The controller works off its queue, the informer catches up, and an entry of
   the cache that is older than its TTL is not used. *)
Fairness ==
    /\ WF_vars(Reconcile) /\ WF_vars(InformerSync)
    /\ \A i \in Ids : WF_vars(CacheExpires(i))

Spec == Init /\ [][Next]_vars /\ Fairness

------------------------------------------------------------------------------
(* The inductive invariant of AutoscaleSetProofs *)

Protecting == {"create", "store", "get", "labels", "status"}
Deleting == {"delete", "unfinalize"}

(* The informer shows no finalizer that the object has lost. *)
FinalizerSeen ==
    /\ aset.finalizer => aset.state # "absent"
    /\ seen.state = "present" /\ seen.finalizer => aset.finalizer
    /\ seen.state = "deleting" => aset.state # "present"

(* A reconcile that uses the scale set holds the finalizer in place; one that
   deletes works for an object that is on its way out, and a successor of that
   object has no finalizer yet. *)
StepProtected ==
    /\ pc \in Protecting => aset.finalizer
    /\ pc \in Deleting =>
          /\ work.state = "deleting"
          /\ aset.state = "present" => ~aset.finalizer
          /\ seen.state = "present" => ~seen.finalizer

(* The finalizer is about to be removed: the recorded scale set is gone. *)
DeletedFirst ==
    pc = "unfinalize" /\ work.id # NoId => github[work.id] = NoLabels

(* What is looked up or deleted is a scale set that was recorded. *)
RecordedInUse == pc \in {"get", "delete"} => work.id # NoId

ProtectionInv == FinalizerSeen /\ StepProtected /\ DeletedFirst /\ RecordedInUse

(* The ID that is about to be stored is the last one, and no other was stored
   before it: a creation succeeds only when the recorded scale set, if there is
   one, is gone, which no reconcile that uses it can see. *)
StoresTheLast ==
    pc = "store" => /\ have.id = nextId - 1 /\ have.id \in Ids
                    /\ github[have.id] # NoLabels /\ aset.id = NoId

RecordedUnderFinalizer == ~aset.finalizer => aset.id = NoId

RecordedIsThere ==
    aset.id # NoId /\ github[aset.id] = NoLabels
        => /\ aset.state = "deleting" /\ pc \notin Protecting
           /\ seen.state = "present" => ~seen.finalizer

RecordInv == StoresTheLast /\ RecordedUnderFinalizer /\ RecordedIsThere

(* The informer is behind, never ahead: a new incarnation is created only when it
   shows the end of the old one. *)
SeenBefore ==
    seen.state # "absent" /\ aset.state # "absent" => seen.gen <= aset.gen

(* What only a finalizer keeps: an object on its way out, and a status. *)
KeptByFinalizer ==
    /\ aset.state = "deleting" => aset.finalizer
    /\ seen.state = "deleting" => seen.finalizer
    /\ ~aset.finalizer => aset.phase = ""

(* A creation is for the spec that the informer shows, or the change since then
   has put the request back. *)
CreatesTheSeen ==
    /\ pc \in {"create", "store"} /\ ~queued
          => seen.state = "present" /\ seen.gen = work.gen
    /\ pc = "store" => LabelsEqual(github[have.id], BuildLabels(work))

------------------------------------------------------------------------------
(* A scale set is created only for an AutoscaleSet that carries the finalizer,
   or a deletion that comes too soon would leave the scale set behind. *)
CreatedUnderFinalizer ==
    [][~NameTaken /\ NameTaken' => aset.finalizer]_vars

(* An AutoscaleSet whose status holds the ID of a scale set is not removed
   before that scale set: a reconcile that read the object before the ID was
   stored skips the deletion, and its update must be refused. *)
RecordedIsDeleted ==
    [][aset.state = "deleting" /\ aset'.state = "absent" /\ aset.id # NoId
          => github'[aset.id] = NoLabels]_vars

(* There is no request, none is being worked on, and no event is on its way. *)
Resting ==
    ~queued /\ pc = "idle" /\ seen.state = aset.state /\ seen.gen = aset.gen

(* The controller does not come to rest before it is done: no deletion is left
   unfinished, no AutoscaleSet in error, and a scale set it recorded has the labels
   of the spec, whatever edits came during its creation.  The exception is an
   AutoscaleSet that has just been given its finalizer. *)
RestsWhenDone ==
    Resting /\ aset.state # "absent" =>
        /\ aset.state = "present" /\ aset.finalizer
        /\ aset.id = NoId => aset.phase = ""
        /\ aset.id # NoId => LabelsEqual(github[aset.id], BuildLabels(aset))

RestInv == SeenBefore /\ KeptByFinalizer /\ CreatesTheSeen /\ RestsWhenDone

(* The labels at GitHub become those of the spec, although the cache still shows
   the labels from before the last update. *)
LabelsConverge ==
    (aset.state = "present" /\ aset.id # NoId)
        ~> \/ aset.state # "present"
           \/ aset.id # NoId /\ Compared(github[aset.id]) = Compared(BuildLabels(aset))

(* What others see of an AutoscaleSet.  An ID that GitHub has assigned counts
   once it is stored, or is lost. *)
Visible == [state |-> aset.state, id |-> aset.id, template |-> aset.gen]
Counted == IF pc = "store" THEN nextId - 2 ELSE nextId - 1

Lifecycle == INSTANCE AutoscaleSetLifecycle WITH object <- Visible, assigned <- Counted

(* An AutoscaleSet lives the life that the RunnerSet controller relies on: an ID
   is recorded once and never changes or disappears before the object does,
   although a reconcile works with an informer that lags, loses IDs on conflicts
   and crashes; no two incarnations record the same ID. *)
FollowsLifecycle == Lifecycle!Spec

(* "manages a finalizer for cleanup on deletion": when the AutoscaleSet is gone,
   so is its scale set. *)
ScaleSetCleanedUp == aset.state = "absent" => ~NameTaken
==============================================================================
