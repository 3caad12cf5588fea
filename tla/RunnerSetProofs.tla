-------------------------- MODULE RunnerSetProofs --------------------------
(****************************************************************************)
(* Proofs about the RunnerSet controller, its listeners and their sessions, *)
(* for any RunnerSets, keys and listeners, and any number of scale sets,    *)
(* edits and failures.                                                      *)
(****************************************************************************)
EXTENDS RunnerSetReconciler, TLAPS

(* The types of what is not there. *)
LEMMA Nothing ==
    /\ NoRunnerSet \in RunnerSetObject /\ NoSnap \in Snapshot
    /\ NotStarted \in [id : Ids \cup {NoId}, spec : PodSpecs]
    /\ Lifecycle!NoObject \in Lifecycle!AutoscaleSetObject
<1>1. (CHOOSE k \in Keys : TRUE) \in Keys
  BY ReconcilerAssumption
<1>2. NoRunnerSet \in RunnerSetObject
  BY <1>1, ReconcilerAssumption DEF NoRunnerSet, RunnerSetObject, Versions, Lifecycle!Versions
<1>3. Lifecycle!NoObject \in Lifecycle!AutoscaleSetObject
  BY ReconcilerAssumption
     DEF Lifecycle!NoObject, Lifecycle!AutoscaleSetObject, Lifecycle!Versions, Lifecycle!NoId
<1> QED
  BY <1>2, <1>3, ReconcilerAssumption
     DEF NoSnap, Snapshot, NotStarted, PodSpecs, Versions, Lifecycle!Versions

(* The fields of an object that is not there. *)
LEMMA NothingSet ==
    /\ NoRunnerSet.state = "absent" /\ ~NoRunnerSet.finalizer /\ NoRunnerSet.template = 0
    /\ NoRunnerSet.hash = NoSpec /\ NoRunnerSet.ready = "unknown"
    /\ NoSnap.rs = NoRunnerSet /\ NoSnap.as = Lifecycle!NoObject
    /\ Lifecycle!NoObject.id = NoId /\ NotStarted.id = NoId
BY DEF NoRunnerSet, NoSnap, NotStarted, Lifecycle!NoObject, NoId

(* The types of an object's fields. *)
LEMMA Fields ==
    /\ \A o \in RunnerSetObject :
          /\ o.key \in Keys /\ o.template \in Nat /\ o.template \in Versions
          /\ o.finalizer \in BOOLEAN /\ o.hash \in PodSpecs \cup {NoSpec}
          /\ o.ready \in {"unknown", "true", "false"}
    /\ \A as \in Lifecycle!AutoscaleSetObject :
          as.id \in Ids \cup {NoId} /\ as.template \in Versions
    /\ \A s \in Snapshot : s.rs \in RunnerSetObject /\ s.as \in Lifecycle!AutoscaleSetObject
    /\ Ids \subseteq Nat \ {0} /\ NoId = 0
BY ReconcilerAssumption
   DEF RunnerSetObject, Lifecycle!AutoscaleSetObject, Snapshot, Versions, Lifecycle!Versions,
       Ids, Lifecycle!Ids, NoId, Lifecycle!NoId

(* A pod spec is a pair of versions. *)
LEMMA HashType ==
    ASSUME NEW as \in Lifecycle!AutoscaleSetObject, NEW o \in RunnerSetObject
    PROVE  PodSpecHash(as, o) \in PodSpecs
BY Fields DEF PodSpecHash, PodSpecs

(* The updates of an object: each changes its own fields. *)
LEMMA WithReady ==
    ASSUME NEW o \in RunnerSetObject, NEW r \in {"unknown", "true", "false"}
    PROVE  LET x == [o EXCEPT !.ready = r]
           IN  /\ x \in RunnerSetObject /\ x.ready = r
               /\ x.state = o.state /\ x.key = o.key /\ x.finalizer = o.finalizer
               /\ x.template = o.template /\ x.hash = o.hash
BY DEF RunnerSetObject

(* The hash of a rollout. *)
LEMMA WithHash ==
    ASSUME NEW o \in RunnerSetObject, NEW h \in PodSpecs
    PROVE  LET x == [o EXCEPT !.hash = h]
           IN  /\ x \in RunnerSetObject /\ x.hash = h
               /\ x.state = o.state /\ x.key = o.key /\ x.finalizer = o.finalizer
               /\ x.template = o.template /\ x.ready = o.ready
BY DEF RunnerSetObject

(* The annotations of a listener that was started. *)
LEMMA WithHashReady ==
    ASSUME NEW o \in RunnerSetObject, NEW h \in PodSpecs
    PROVE  LET x == [o EXCEPT !.hash = h, !.ready = "true"]
           IN  /\ x \in RunnerSetObject /\ x.hash = h
               /\ x.state = o.state /\ x.key = o.key /\ x.finalizer = o.finalizer
               /\ x.template = o.template
BY DEF RunnerSetObject

(* The finalizer. *)
LEMMA WithFinalizer ==
    ASSUME NEW o \in RunnerSetObject
    PROVE  LET x == [o EXCEPT !.finalizer = TRUE]
           IN  /\ x \in RunnerSetObject /\ x.finalizer
               /\ x.state = o.state /\ x.key = o.key /\ x.ready = o.ready
               /\ x.template = o.template /\ x.hash = o.hash
BY DEF RunnerSetObject

(* A user marks the object for deletion. *)
LEMMA WithDeletion ==
    ASSUME NEW o \in RunnerSetObject
    PROVE  LET x == [o EXCEPT !.state = "deleting"]
           IN  /\ x \in RunnerSetObject /\ x.state = "deleting"
               /\ x.finalizer = o.finalizer /\ x.key = o.key /\ x.ready = o.ready
               /\ x.template = o.template /\ x.hash = o.hash
BY DEF RunnerSetObject

(* A user creates the object. *)
LEMMA WithCreation ==
    ASSUME NEW k \in Keys
    PROVE  LET x == [NoRunnerSet EXCEPT !.state = "present", !.key = k]
           IN  /\ x \in RunnerSetObject /\ x.state = "present" /\ x.key = k
               /\ ~x.finalizer /\ x.template = 0 /\ x.hash = NoSpec /\ x.ready = "unknown"
BY Nothing DEF RunnerSetObject, NoRunnerSet

(* A user edits the template and the runner group. *)
LEMMA WithEdit ==
    ASSUME NEW o \in RunnerSetObject, NEW k \in Keys, o.template < MaxEdits
    PROVE  LET x == [o EXCEPT !.template = @ + 1, !.key = k]
           IN  /\ x \in RunnerSetObject /\ x.template = o.template + 1 /\ x.key = k
               /\ x.state = o.state /\ x.finalizer = o.finalizer /\ x.ready = o.ready
               /\ x.hash = o.hash
<1>1. o.template + 1 \in Versions
  BY Fields, ReconcilerAssumption DEF Versions, Lifecycle!Versions
<1> QED
  BY <1>1 DEF RunnerSetObject

(* The steps of the AutoscaleSet keep its type. *)
LEMMA LifecycleTypes ==
    ASSUME aset \in Lifecycle!AutoscaleSetObject, assigned \in 0 .. MaxIds,
           Lifecycle!Next
    PROVE  aset' \in Lifecycle!AutoscaleSetObject /\ assigned' \in 0 .. MaxIds
<1> USE ReconcilerAssumption, Nothing DEF Lifecycle!AutoscaleSetObject
<1>1. CASE Lifecycle!Create
  BY <1>1 DEF Lifecycle!Create
<1>2. CASE Lifecycle!Edit
  <2>1. aset.template + 1 \in Lifecycle!Versions
    BY <1>2 DEF Lifecycle!Edit, Lifecycle!Versions
  <2> QED
    BY <1>2, <2>1 DEF Lifecycle!Edit
<1>3. CASE Lifecycle!Delete
  BY <1>3 DEF Lifecycle!Delete
<1>4. CASE Lifecycle!Remove
  BY <1>4 DEF Lifecycle!Remove
<1>5. CASE Lifecycle!Record
  BY <1>5 DEF Lifecycle!Record, Lifecycle!Ids
<1>6. CASE Lifecycle!Lose
  BY <1>6 DEF Lifecycle!Lose
<1> QED
  BY <1>1, <1>2, <1>3, <1>4, <1>5, <1>6 DEF Lifecycle!Next

(* The end of a reconcile that reports its status. *)
LEMMA StatusTypes ==
    ASSUME rset \in [RunnerSets -> RunnerSetObject], queued \subseteq RunnerSets,
           NEW rs \in RunnerSets, NEW r \in {"true", "false"}, ReturnStatus(rs, r)
    PROVE  /\ rset' \in [RunnerSets -> RunnerSetObject] /\ queued' \subseteq RunnerSets
           /\ pc' = [pc EXCEPT ![rs] = "idle"] /\ snap' = [snap EXCEPT ![rs] = NoSnap]
BY WithReady DEF ReturnStatus, Return, Goto, Requeue

(* What the steps that write a RunnerSet do to it, and that they leave the others
   alone. *)
LEMMA Created ==
    ASSUME rset \in [RunnerSets -> RunnerSetObject], NEW rs \in RunnerSets, CreateRunnerSet(rs)
    PROVE  /\ rset'[rs].state = "present" /\ ~rset'[rs].finalizer /\ rset'[rs].template = 0
           /\ rset'[rs].hash = NoSpec /\ rset'[rs].ready = "unknown"
           /\ \A o \in RunnerSets \ {rs} : rset'[o] = rset[o]
<1>1. PICK k \in Keys : Changed(rs, [NoRunnerSet EXCEPT !.state = "present", !.key = k])
  BY DEF CreateRunnerSet
<1>2. rset'[rs] = [NoRunnerSet EXCEPT !.state = "present", !.key = k]
  BY <1>1 DEF Changed
<1> QED
  BY <1>1, <1>2, WithCreation DEF Changed

(* An edit by a user. *)
LEMMA Edited ==
    ASSUME rset \in [RunnerSets -> RunnerSetObject], NEW rs \in RunnerSets, EditRunnerSet(rs)
    PROVE  /\ rset'[rs].template = rset[rs].template + 1 /\ rset'[rs].state = rset[rs].state
           /\ rset'[rs].finalizer = rset[rs].finalizer /\ rset'[rs].ready = rset[rs].ready
           /\ rset'[rs].hash = rset[rs].hash /\ rset'[rs].key \in Keys
           /\ \A o \in RunnerSets \ {rs} : rset'[o] = rset[o]
<1>1. PICK k \in Keys : Changed(rs, [rset[rs] EXCEPT !.template = @ + 1, !.key = k])
  BY DEF EditRunnerSet
<1>2. rset[rs] \in RunnerSetObject /\ rset[rs].template < MaxEdits
  BY DEF EditRunnerSet
<1>3. rset'[rs] = [rset[rs] EXCEPT !.template = @ + 1, !.key = k]
  BY <1>1 DEF Changed
<1> QED
  BY <1>1, <1>2, <1>3, WithEdit DEF Changed

(* The Ready condition. *)
LEMMA Reported ==
    ASSUME rset \in [RunnerSets -> RunnerSetObject], NEW rs \in RunnerSets,
           NEW r \in {"unknown", "true", "false"}, rset' = [rset EXCEPT ![rs].ready = r]
    PROVE  /\ rset'[rs].ready = r /\ rset'[rs].state = rset[rs].state
           /\ rset'[rs].finalizer = rset[rs].finalizer /\ rset'[rs].key = rset[rs].key
           /\ rset'[rs].template = rset[rs].template /\ rset'[rs].hash = rset[rs].hash
           /\ \A o \in RunnerSets \ {rs} : rset'[o] = rset[o]
BY WithReady

(* A reconcile that waits for the AutoscaleSet. *)
LEMMA Waited ==
    ASSUME rset \in [RunnerSets -> RunnerSetObject], NEW rs \in RunnerSets, ReconcileWaits(rs)
    PROVE  \E r \in {"unknown", "true", "false"} : rset' = [rset EXCEPT ![rs].ready = r]
<1>1. rset' = [rset EXCEPT ![rs].ready = IF aset.state = "present" THEN rset[rs].ready ELSE "false"]
  BY DEF ReconcileWaits
<1> QED
  BY <1>1, Fields

(* The annotations of a listener that was started. *)
LEMMA Annotated ==
    ASSUME rset \in [RunnerSets -> RunnerSetObject], snap \in [RunnerSets -> Snapshot],
           NEW rs \in RunnerSets, AnnotateUpdates(rs)
    PROVE  /\ rset' \in [RunnerSets -> RunnerSetObject]
           /\ rset'[rs].state = rset[rs].state /\ rset'[rs].key = rset[rs].key
           /\ rset'[rs].finalizer = rset[rs].finalizer
           /\ rset'[rs].template = rset[rs].template
           /\ \A o \in RunnerSets \ {rs} : rset'[o] = rset[o]
<1>1. PodSpecHash(snap[rs].as, snap[rs].rs) \in PodSpecs
  BY Fields, HashType
<1>2. \/ rset' = rset
      \/ rset' = [rset EXCEPT ![rs] = [rset[rs] EXCEPT
                     !.hash = PodSpecHash(snap[rs].as, snap[rs].rs), !.ready = "true"]]
  BY DEF AnnotateUpdates
<1>3. rset[rs] \in RunnerSetObject
  OBVIOUS
<1> DEFINE h == PodSpecHash(snap[rs].as, snap[rs].rs)
           x == [rset[rs] EXCEPT !.hash = h, !.ready = "true"]
<1> HIDE DEF h
<1>4. /\ x \in RunnerSetObject /\ x.state = rset[rs].state /\ x.key = rset[rs].key
      /\ x.finalizer = rset[rs].finalizer /\ x.template = rset[rs].template
  BY <1>1, <1>3, WithHashReady DEF h
<1>5. rset' = rset \/ rset' = [rset EXCEPT ![rs] = x]
  BY <1>2 DEF h
<1> HIDE DEF x
<1> QED
  BY <1>4, <1>5

(* The hash of a rollout. *)
LEMMA Recorded ==
    ASSUME rset \in [RunnerSets -> RunnerSetObject], snap \in [RunnerSets -> Snapshot],
           NEW rs \in RunnerSets, RolloutRecords(rs)
    PROVE  /\ rset' \in [RunnerSets -> RunnerSetObject]
           /\ rset'[rs].state = rset[rs].state /\ rset'[rs].key = rset[rs].key
           /\ rset'[rs].finalizer = rset[rs].finalizer
           /\ rset'[rs].template = rset[rs].template /\ rset'[rs].ready = rset[rs].ready
           /\ \A o \in RunnerSets \ {rs} : rset'[o] = rset[o]
<1>1. PodSpecHash(snap[rs].as, snap[rs].rs) \in PodSpecs
  BY Fields, HashType
<1>2. \/ rset' = rset
      \/ rset' = [rset EXCEPT ![rs] = [rset[rs] EXCEPT
                     !.hash = PodSpecHash(snap[rs].as, snap[rs].rs)]]
  BY DEF RolloutRecords
<1>3. rset[rs] \in RunnerSetObject
  OBVIOUS
<1> DEFINE h == PodSpecHash(snap[rs].as, snap[rs].rs)
           x == [rset[rs] EXCEPT !.hash = h]
<1> HIDE DEF h
<1>4. /\ x \in RunnerSetObject /\ x.state = rset[rs].state /\ x.key = rset[rs].key
      /\ x.finalizer = rset[rs].finalizer /\ x.template = rset[rs].template
      /\ x.ready = rset[rs].ready
  BY <1>1, <1>3, WithHash DEF h
<1>5. rset' = rset \/ rset' = [rset EXCEPT ![rs] = x]
  BY <1>2 DEF h
<1> HIDE DEF x
<1> QED
  BY <1>4, <1>5

(* The RunnerSet that is fetched again. *)
LEMMA Refetched ==
    ASSUME rset \in [RunnerSets -> RunnerSetObject], snap \in [RunnerSets -> Snapshot],
           NEW rs \in RunnerSets, AnnotateFetches(rs)
    PROVE  /\ snap' \in [RunnerSets -> Snapshot]
           /\ snap'[rs].rs = rset[rs] /\ snap'[rs].as = snap[rs].as
           /\ \A o \in RunnerSets \ {rs} : snap'[o] = snap[o]
<1>1. snap' = [snap EXCEPT ![rs].rs = rset[rs]] /\ snap[rs] \in Snapshot
  BY DEF AnnotateFetches
<1> QED
  BY <1>1 DEF Snapshot

(* Every step keeps the types. *)
LEMMA TypeStep == ASSUME TypeOK, [Next]_vars PROVE TypeOK'
<1> USE Nothing, Fields, ReconcilerAssumption
        DEF TypeOK, Manager!TypeOK, Manager!GoroutineStates,
            managerVars, asetVars, objectVars, workerVars
<1>1. ASSUME NEW rs \in RunnerSets, ReconcileGone(rs) PROVE TypeOK'
  BY <1>1 DEF ReconcileGone, BeginReconcile
<1>2. ASSUME NEW rs \in RunnerSets, ReconcileAddsFinalizer(rs) PROVE TypeOK'
  BY <1>2, WithFinalizer DEF ReconcileAddsFinalizer, BeginReconcile
<1>3. ASSUME NEW rs \in RunnerSets, ReconcileWaits(rs) PROVE TypeOK'
  <2>1. PICK r \in {"unknown", "true", "false"} : rset' = [rset EXCEPT ![rs].ready = r]
    BY <1>3, Waited
  <2>2. rset' \in [RunnerSets -> RunnerSetObject]
    BY <2>1, WithReady
  <2> QED
    BY <1>3, <2>2 DEF ReconcileWaits
<1>4. ASSUME NEW rs \in RunnerSets, ReconcileUpToDate(rs) PROVE TypeOK'
  <2>1. rset' = [rset EXCEPT ![rs].ready = "true"]
    BY <1>4 DEF ReconcileUpToDate
  <2>2. rset' \in [RunnerSets -> RunnerSetObject]
    BY <2>1, WithReady
  <2> QED
    BY <1>4, <2>2 DEF ReconcileUpToDate
<1>5. ASSUME NEW rs \in RunnerSets, ReconcileContinues(rs) PROVE TypeOK'
  <2>1. Fetched(rs) \in Snapshot
    BY DEF Fetched, Snapshot
  <2>2. snap' \in [RunnerSets -> Snapshot]
    BY <1>5, <2>1 DEF ReconcileContinues
  <2>3. PICK step \in {"stop", "session"} : pc' = [pc EXCEPT ![rs] = step]
    BY <1>5 DEF ReconcileContinues, Goto
  <2> QED
    BY <1>5, <2>1, <2>2, <2>3 DEF ReconcileContinues, BeginReconcile
<1>6. ASSUME NEW rs \in RunnerSets, ReconcileDeletes(rs) PROVE TypeOK'
  <2>1. Fetched(rs) \in Snapshot
    BY DEF Fetched, Snapshot
  <2>2. KeyOf(rs) \in Keys
    BY DEF KeyOf
  <2>3. Manager!TypeOK'
    <3>1. CASE Manager!StopListener(KeyOf(rs))
      BY <3>1, <2>2 DEF Manager!StopListener, Manager!HasListener, Manager!goroutineVars
    <3>2. CASE UNCHANGED managerVars
      BY <3>2
    <3> QED
      BY <1>6, <3>1, <3>2 DEF ReconcileDeletes
  <2> QED
    BY <1>6, <2>1, <2>3 DEF ReconcileDeletes, BeginReconcile, Goto
<1>7. ASSUME NEW rs \in RunnerSets, Unfinalize(rs) PROVE TypeOK'
  <2>1. failures' \in 0 .. MaxFailures
    BY <1>7 DEF Unfinalize, Fail
  <2>2. rset' \in [RunnerSets -> RunnerSetObject] /\ queued' \subseteq RunnerSets
    BY <1>7 DEF Unfinalize, Requeue
  <2> QED
    BY <1>7, <2>1, <2>2 DEF Unfinalize, Return, Goto
<1>8. ASSUME NEW rs \in RunnerSets, RolloutStops(rs) PROVE TypeOK'
  <2>1. snap[rs].rs.key \in Keys
    OBVIOUS
  <2>2. Manager!TypeOK'
    BY <1>8, <2>1 DEF RolloutStops, Manager!StopListener, Manager!HasListener, Manager!goroutineVars
  <2>3. /\ UNCHANGED <<started, rset, aset, assigned, session, queued, snap, failures>>
        /\ pc' = [pc EXCEPT ![rs] = "record"]
    BY <1>8 DEF RolloutStops, Goto
  <2> QED
    BY <2>2, <2>3
<1>9. ASSUME NEW rs \in RunnerSets, RolloutRecords(rs) PROVE TypeOK'
  <2>1. rset' \in [RunnerSets -> RunnerSetObject]
    BY <1>9, Recorded
  <2>2. failures' \in 0 .. MaxFailures
    BY <1>9 DEF RolloutRecords, Fail
  <2> QED
    BY <1>9, <2>1, <2>2 DEF RolloutRecords, Goto
<1>10. ASSUME NEW rs \in RunnerSets, OpenSession(rs) PROVE TypeOK'
  BY <1>10 DEF OpenSession, ScaleSetOf, SessionBecomes, Goto
<1>11. ASSUME NEW rs \in RunnerSets, SessionConflict(rs) PROVE TypeOK'
  <2>1. CASE ReturnStatus(rs, "true") /\ UNCHANGED failures
    <3>1. /\ rset' \in [RunnerSets -> RunnerSetObject] /\ queued' \subseteq RunnerSets
          /\ pc' = [pc EXCEPT ![rs] = "idle"] /\ snap' = [snap EXCEPT ![rs] = NoSnap]
      BY <2>1, StatusTypes
    <3> QED
      BY <1>11, <2>1, <3>1 DEF SessionConflict
  <2>2. CASE Return(rs) /\ Fail /\ UNCHANGED <<rset, queued>>
    BY <1>11, <2>2 DEF SessionConflict, Return, Goto, Fail
  <2>3. CASE Return(rs) /\ Requeue(rs) /\ UNCHANGED <<rset, failures>>
    BY <1>11, <2>3 DEF SessionConflict, Return, Goto, Requeue
  <2> QED
    BY <1>11, <2>1, <2>2, <2>3 DEF SessionConflict
<1>12. ASSUME NEW rs \in RunnerSets, SessionFails(rs) PROVE TypeOK'
  <2>1. failures' \in 0 .. MaxFailures
    BY <1>12 DEF SessionFails, Fail
  <2>2. ReturnStatus(rs, "false")
    BY <1>12 DEF SessionFails
  <2>3. /\ rset' \in [RunnerSets -> RunnerSetObject] /\ queued' \subseteq RunnerSets
        /\ pc' = [pc EXCEPT ![rs] = "idle"] /\ snap' = [snap EXCEPT ![rs] = NoSnap]
    BY <2>2, StatusTypes
  <2> QED
    BY <1>12, <2>1, <2>3 DEF SessionFails
<1>13. ASSUME NEW rs \in RunnerSets, StartSucceeds(rs) PROVE TypeOK'
  <2>1. PICK l \in Listeners : StartSucceeds(rs)!2!(l)
    BY <1>13 DEF StartSucceeds
  <2>2. ScaleSetOf(rs) \in Ids \cup {NoId} /\ WantedKey(rs) \in Keys
    BY DEF ScaleSetOf, WantedKey
  <2>3. PodSpecHash(snap[rs].as, snap[rs].rs) \in PodSpecs
    BY HashType
  <2>4. started' \in [Listeners -> [id : Ids \cup {NoId}, spec : PodSpecs]]
    BY <2>1, <2>2, <2>3
  <2>5. Manager!TypeOK'
    BY <2>1, <2>2 DEF Manager!StartListener
  <2> QED
    BY <1>13, <2>4, <2>5 DEF StartSucceeds, SessionBecomes, Goto
<1>14. ASSUME NEW rs \in RunnerSets, StartFails(rs) PROVE TypeOK'
  <2>1. failures' \in 0 .. MaxFailures
    BY <1>14 DEF StartFails, Fail
  <2>2. ReturnStatus(rs, "false")
    BY <1>14 DEF StartFails
  <2>3. /\ rset' \in [RunnerSets -> RunnerSetObject] /\ queued' \subseteq RunnerSets
        /\ pc' = [pc EXCEPT ![rs] = "idle"] /\ snap' = [snap EXCEPT ![rs] = NoSnap]
    BY <2>2, StatusTypes
  <2> QED
    BY <1>14, <2>1, <2>3 DEF StartFails, SessionBecomes
<1>15. ASSUME NEW rs \in RunnerSets, AnnotateUpdates(rs) PROVE TypeOK'
  <2>1. rset' \in [RunnerSets -> RunnerSetObject]
    BY <1>15, Annotated
  <2> QED
    BY <1>15, <2>1 DEF AnnotateUpdates, Return, Goto, Requeue
<1>15a. ASSUME NEW rs \in RunnerSets, AnnotateFetches(rs) PROVE TypeOK'
  BY <1>15a, Refetched DEF AnnotateFetches, Goto
<1>16. ASSUME NEW rs \in RunnerSets, AnnotateFails(rs) PROVE TypeOK'
  BY <1>16 DEF AnnotateFails, Fail, Return, Goto, Requeue
<1>17. ASSUME NEW l \in Listeners, ListenerSignals(l) PROVE TypeOK'
  BY <1>17 DEF ListenerSignals, Manager!WatchStop, Manager!RunCancelled,
         Manager!RunReturns, Manager!managerVars
<1>18. ASSUME NEW l \in Listeners, ListenerRefused(l) PROVE TypeOK'
  BY <1>18 DEF ListenerRefused, Manager!RunFails, Manager!RunReturns,
         Manager!managerVars
<1>19. ASSUME NEW l \in Listeners, ListenerEnds(l) PROVE TypeOK'
  BY <1>19 DEF ListenerEnds, Manager!Deregister, SessionBecomes
<1>20. ASSUME NEW l \in Listeners, ListenerFails(l) PROVE TypeOK'
  BY <1>20 DEF ListenerFails, Manager!RunFails, Fail, Manager!RunReturns,
         Manager!managerVars
<1>21. ASSUME NEW i \in Ids, SessionExpires(i) PROVE TypeOK'
  BY <1>21 DEF SessionExpires, SessionBecomes
<1>22. ASSUME NEW rs \in RunnerSets, CreateRunnerSet(rs) PROVE TypeOK'
  <2>1. PICK k \in Keys : Changed(rs, [NoRunnerSet EXCEPT !.state = "present", !.key = k])
    BY <1>22 DEF CreateRunnerSet
  <2>2. [NoRunnerSet EXCEPT !.state = "present", !.key = k] \in RunnerSetObject
    BY WithCreation
  <2> QED
    BY <2>1, <2>2 DEF Changed, Requeue
<1>23. ASSUME NEW rs \in RunnerSets, EditRunnerSet(rs) PROVE TypeOK'
  <2>1. PICK k \in Keys : Changed(rs, [rset[rs] EXCEPT !.template = @ + 1, !.key = k])
    BY <1>23 DEF EditRunnerSet
  <2>2. rset[rs] \in RunnerSetObject /\ rset[rs].template < MaxEdits
    BY <1>23 DEF EditRunnerSet
  <2>3. [rset[rs] EXCEPT !.template = @ + 1, !.key = k] \in RunnerSetObject
    BY <2>2, WithEdit
  <2> QED
    BY <2>1, <2>3 DEF Changed, Requeue
<1>24. ASSUME NEW rs \in RunnerSets, DeleteRunnerSet(rs) PROVE TypeOK'
  BY <1>24, WithDeletion DEF DeleteRunnerSet, Changed, Requeue
<1>25. CASE AutoscaleSetChanges
  <2>1. Lifecycle!Next
    BY <1>25 DEF AutoscaleSetChanges, Lifecycle!Next
  <2> QED
    BY <1>25, <2>1, LifecycleTypes DEF AutoscaleSetChanges, Present
<1>26. CASE AutoscaleSetRecords
  <2>1. Lifecycle!Next
    BY <1>26 DEF AutoscaleSetRecords, Lifecycle!Next
  <2> QED
    BY <1>26, <2>1, LifecycleTypes DEF AutoscaleSetRecords
<1>27. CASE Crash
  BY <1>27 DEF Crash, Present, Fail
<1>28. CASE UNCHANGED vars
  BY <1>28 DEF vars
<1> QED
  BY <1>1, <1>2, <1>3, <1>4, <1>5, <1>6, <1>7, <1>8, <1>9, <1>10, <1>11, <1>12, <1>13,
     <1>14, <1>15, <1>15a, <1>16, <1>17, <1>18, <1>19, <1>20, <1>21, <1>22, <1>23, <1>24,
     <1>25, <1>26, <1>27, <1>28
     DEF Next, Reconcile, ListenerStep, User

(* StopListener takes the entry out of the map together with the signal. *)
LEMMA StopKeeps ==
    ASSUME Manager!TypeOK, Manager!RegisteredIsLive, NEW k \in Keys, Manager!StopListener(k)
    PROVE  /\ Manager!RegisteredIsLive'
           /\ \A j \in Keys : listeners'[j] \in {listeners[j], NoListener}
           /\ listeners'[k] = NoListener
<1> USE ReconcilerAssumption DEF Manager!TypeOK, Manager!HasListener, Manager!StopListener
<1>1. ASSUME NEW j \in Keys, Manager!HasListener(j)'
      PROVE  /\ goroutine'[listeners'[j]] \in {"running", "returned"}
             /\ key'[listeners'[j]] = j /\ ~stopCh'[listeners'[j]]
  <2>1. j # k /\ listeners'[j] = listeners[j]
    BY <1>1
  (* Two keys cannot hold the same listener: it captured one of them. *)
  <2>2. listeners[j] # listeners[k]
    BY <1>1, <2>1 DEF Manager!RegisteredIsLive
  <2> QED
    BY <1>1, <2>1, <2>2 DEF Manager!RegisteredIsLive, Manager!goroutineVars
<1>2. \A j \in Keys : listeners'[j] \in {listeners[j], NoListener}
  OBVIOUS
<1> QED
  BY <1>1, <1>2 DEF Manager!RegisteredIsLive

(* So does the end of a goroutine, which deletes the entry of its key. *)
LEMMA EndKeeps ==
    ASSUME Manager!TypeOK, Manager!RegisteredIsLive, NEW l \in Listeners, Manager!Deregister(l)
    PROVE  /\ Manager!RegisteredIsLive'
           /\ \A j \in Keys : listeners'[j] \in {listeners[j], NoListener} /\ listeners'[j] # l
<1> USE ReconcilerAssumption DEF Manager!TypeOK, Manager!HasListener, Manager!Deregister
<1>1. ASSUME NEW j \in Keys, Manager!HasListener(j)'
      PROVE  /\ goroutine'[listeners'[j]] \in {"running", "returned"}
             /\ key'[listeners'[j]] = j /\ ~stopCh'[listeners'[j]] /\ listeners'[j] # l
  <2>1. j # key[l] /\ listeners'[j] = listeners[j]
    BY <1>1
  <2>2. listeners[j] # l
    BY <1>1, <2>1 DEF Manager!RegisteredIsLive
  <2> QED
    BY <1>1, <2>1, <2>2 DEF Manager!RegisteredIsLive
<1>2. \A j \in Keys : listeners'[j] \in {listeners[j], NoListener} /\ listeners'[j] # l
  BY <1>1
<1> QED
  BY <1>1, <1>2 DEF Manager!RegisteredIsLive

(* A step that leaves the manager alone. *)
LEMMA SameMap ==
    ASSUME Manager!RegisteredIsLive, UNCHANGED managerVars PROVE Manager!RegisteredIsLive'
BY DEF managerVars, Manager!RegisteredIsLive, Manager!HasListener

(* Every entry of the map stands for a goroutine that has not ended and has not
   been told to stop, whatever the controller does with the manager. *)
LEMMA RegisteredStep ==
    ASSUME TypeOK, Manager!RegisteredIsLive, [Next]_vars PROVE Manager!RegisteredIsLive'
<1> USE DEF TypeOK, Manager!TypeOK
<1>1. ASSUME NEW rs \in RunnerSets, ReconcileGone(rs) PROVE Manager!RegisteredIsLive'
  BY <1>1, SameMap DEF ReconcileGone
<1>2. ASSUME NEW rs \in RunnerSets, ReconcileAddsFinalizer(rs) PROVE Manager!RegisteredIsLive'
  BY <1>2, SameMap DEF ReconcileAddsFinalizer
<1>3. ASSUME NEW rs \in RunnerSets, ReconcileWaits(rs) PROVE Manager!RegisteredIsLive'
  BY <1>3, SameMap DEF ReconcileWaits
<1>4. ASSUME NEW rs \in RunnerSets, ReconcileUpToDate(rs) PROVE Manager!RegisteredIsLive'
  BY <1>4, SameMap DEF ReconcileUpToDate
<1>5. ASSUME NEW rs \in RunnerSets, ReconcileContinues(rs) PROVE Manager!RegisteredIsLive'
  BY <1>5, SameMap DEF ReconcileContinues
<1>6. ASSUME NEW rs \in RunnerSets, ReconcileDeletes(rs) PROVE Manager!RegisteredIsLive'
  <2>1. KeyOf(rs) \in Keys
    BY Fields DEF TypeOK, KeyOf
  <2> QED
    BY <1>6, <2>1, SameMap, StopKeeps DEF ReconcileDeletes
<1>7. ASSUME NEW rs \in RunnerSets, Unfinalize(rs) PROVE Manager!RegisteredIsLive'
  BY <1>7, SameMap DEF Unfinalize
<1>8. ASSUME NEW rs \in RunnerSets, RolloutStops(rs) PROVE Manager!RegisteredIsLive'
  <2>1. snap[rs].rs.key \in Keys
    BY Fields DEF TypeOK, KeyOf
  <2> QED
    BY <1>8, <2>1, SameMap, StopKeeps DEF RolloutStops
<1>9. ASSUME NEW rs \in RunnerSets, RolloutRecords(rs) PROVE Manager!RegisteredIsLive'
  BY <1>9, SameMap DEF RolloutRecords
<1>10. ASSUME NEW rs \in RunnerSets, OpenSession(rs) PROVE Manager!RegisteredIsLive'
  BY <1>10, SameMap DEF OpenSession
<1>11. ASSUME NEW rs \in RunnerSets, SessionConflict(rs) PROVE Manager!RegisteredIsLive'
  BY <1>11, SameMap DEF SessionConflict
<1>12. ASSUME NEW rs \in RunnerSets, SessionFails(rs) PROVE Manager!RegisteredIsLive'
  BY <1>12, SameMap DEF SessionFails
<1>13. ASSUME NEW rs \in RunnerSets, StartSucceeds(rs) PROVE Manager!RegisteredIsLive'
  <2>1. PICK l \in Listeners : Manager!StartListener(WantedKey(rs), l)
    BY <1>13 DEF StartSucceeds
  <2>2. WantedKey(rs) \in Keys
    BY Fields DEF TypeOK, WantedKey
  <2> QED
    BY <2>1, <2>2, ReconcilerAssumption
       DEF Manager!StartListener, Manager!RegisteredIsLive, Manager!HasListener
<1>14. ASSUME NEW rs \in RunnerSets, StartFails(rs) PROVE Manager!RegisteredIsLive'
  BY <1>14, SameMap DEF StartFails
<1>15. ASSUME NEW rs \in RunnerSets, AnnotateUpdates(rs) PROVE Manager!RegisteredIsLive'
  BY <1>15, SameMap DEF AnnotateUpdates
<1>15a. ASSUME NEW rs \in RunnerSets, AnnotateFetches(rs) PROVE Manager!RegisteredIsLive'
  BY <1>15a, SameMap DEF AnnotateFetches
<1>16. ASSUME NEW rs \in RunnerSets, AnnotateFails(rs) PROVE Manager!RegisteredIsLive'
  BY <1>16, SameMap DEF AnnotateFails
<1>17. ASSUME NEW l \in Listeners, ListenerSignals(l) PROVE Manager!RegisteredIsLive'
  BY <1>17 DEF ListenerSignals, Manager!WatchStop, Manager!RunCancelled,
         Manager!RunReturns, Manager!managerVars, Manager!RegisteredIsLive,
         Manager!HasListener
<1>18. ASSUME NEW l \in Listeners, ListenerRefused(l) PROVE Manager!RegisteredIsLive'
  BY <1>18 DEF ListenerRefused, Manager!RunFails, Manager!RunReturns,
         Manager!managerVars, Manager!RegisteredIsLive, Manager!HasListener
<1>19. ASSUME NEW l \in Listeners, ListenerEnds(l) PROVE Manager!RegisteredIsLive'
  BY <1>19, EndKeeps DEF ListenerEnds
<1>20. ASSUME NEW l \in Listeners, ListenerFails(l) PROVE Manager!RegisteredIsLive'
  BY <1>20 DEF ListenerFails, Manager!RunFails, Manager!RunReturns,
         Manager!managerVars, Manager!RegisteredIsLive, Manager!HasListener
<1>21. ASSUME NEW i \in Ids, SessionExpires(i) PROVE Manager!RegisteredIsLive'
  BY <1>21, SameMap DEF SessionExpires
<1>22. ASSUME NEW rs \in RunnerSets, CreateRunnerSet(rs) PROVE Manager!RegisteredIsLive'
  BY <1>22, SameMap DEF CreateRunnerSet, Changed
<1>23. ASSUME NEW rs \in RunnerSets, EditRunnerSet(rs) PROVE Manager!RegisteredIsLive'
  BY <1>23, SameMap DEF EditRunnerSet, Changed
<1>24. ASSUME NEW rs \in RunnerSets, DeleteRunnerSet(rs) PROVE Manager!RegisteredIsLive'
  BY <1>24, SameMap DEF DeleteRunnerSet, Changed
<1>25. CASE AutoscaleSetChanges
  BY <1>25, SameMap DEF AutoscaleSetChanges
<1>26. CASE AutoscaleSetRecords
  BY <1>26, SameMap DEF AutoscaleSetRecords
<1>27. CASE Crash
  BY <1>27 DEF Crash, Manager!RegisteredIsLive, Manager!HasListener
<1>28. CASE UNCHANGED vars
  BY <1>28, SameMap DEF vars, managerVars
<1> QED
  BY <1>1, <1>2, <1>3, <1>4, <1>5, <1>6, <1>7, <1>8, <1>9, <1>10, <1>11, <1>12, <1>13,
     <1>14, <1>15, <1>15a, <1>16, <1>17, <1>18, <1>19, <1>20, <1>21, <1>22, <1>23, <1>24,
     <1>25, <1>26, <1>27, <1>28
     DEF Next, Reconcile, ListenerStep, User

(* The finalizer comes first, and stays as long as a reconcile is under way. *)
LEMMA FinalizerStep ==
    ASSUME TypeOK, FinalizerFirst, [Next]_vars PROVE FinalizerFirst'
<1> USE NothingSet, Nothing, Fields
        DEF TypeOK, FinalizerFirst, managerVars, asetVars, objectVars, workerVars
<1>1. ASSUME NEW rs \in RunnerSets, ReconcileGone(rs) PROVE FinalizerFirst'
  BY <1>1 DEF ReconcileGone
<1>2. ASSUME NEW rs \in RunnerSets, ReconcileAddsFinalizer(rs) PROVE FinalizerFirst'
  BY <1>2, WithFinalizer DEF ReconcileAddsFinalizer
<1>3. ASSUME NEW rs \in RunnerSets, ReconcileWaits(rs) PROVE FinalizerFirst'
  BY <1>3, Waited, Reported DEF ReconcileWaits
<1>4. ASSUME NEW rs \in RunnerSets, ReconcileUpToDate(rs) PROVE FinalizerFirst'
  BY <1>4, Reported DEF ReconcileUpToDate
<1>5. ASSUME NEW rs \in RunnerSets, ReconcileContinues(rs) PROVE FinalizerFirst'
  BY <1>5 DEF ReconcileContinues, Fetched, Goto
<1>6. ASSUME NEW rs \in RunnerSets, ReconcileDeletes(rs) PROVE FinalizerFirst'
  BY <1>6 DEF ReconcileDeletes, Fetched, Goto
<1>7. ASSUME NEW rs \in RunnerSets, Unfinalize(rs) PROVE FinalizerFirst'
  BY <1>7 DEF Unfinalize, Return, Goto
<1>8. ASSUME NEW rs \in RunnerSets, RolloutStops(rs) PROVE FinalizerFirst'
  BY <1>8 DEF RolloutStops, Goto
<1>9. ASSUME NEW rs \in RunnerSets, RolloutRecords(rs) PROVE FinalizerFirst'
  <2>1. /\ rset'[rs].state = rset[rs].state /\ rset'[rs].key = rset[rs].key
        /\ rset'[rs].finalizer = rset[rs].finalizer
        /\ rset'[rs].template = rset[rs].template /\ rset'[rs].ready = rset[rs].ready
        /\ \A o \in RunnerSets \ {rs} : rset'[o] = rset[o]
    BY <1>9, Recorded
  <2>2. /\ pc[rs] = "record" /\ pc' = [pc EXCEPT ![rs] = "session"] /\ snap' = snap
        /\ queued' = queued /\ (failures' = 0 => failures = 0)
    BY <1>9 DEF RolloutRecords, Goto, Fail
  <2> QED
    BY <2>1, <2>2
<1>10. ASSUME NEW rs \in RunnerSets, OpenSession(rs) PROVE FinalizerFirst'
  BY <1>10 DEF OpenSession, Goto
<1>11. ASSUME NEW rs \in RunnerSets, SessionConflict(rs) PROVE FinalizerFirst'
  <2>1. CASE ReturnStatus(rs, "true")
    BY <1>11, <2>1, Reported DEF SessionConflict, ReturnStatus, Return, Goto
  <2>2. CASE Return(rs) /\ UNCHANGED rset
    BY <1>11, <2>2 DEF SessionConflict, Return, Goto
  <2> QED
    BY <1>11, <2>1, <2>2 DEF SessionConflict
<1>12. ASSUME NEW rs \in RunnerSets, SessionFails(rs) PROVE FinalizerFirst'
  BY <1>12, Reported DEF SessionFails, ReturnStatus, Return, Goto
<1>13. ASSUME NEW rs \in RunnerSets, StartSucceeds(rs) PROVE FinalizerFirst'
  BY <1>13 DEF StartSucceeds, Goto
<1>14. ASSUME NEW rs \in RunnerSets, StartFails(rs) PROVE FinalizerFirst'
  BY <1>14, Reported DEF StartFails, ReturnStatus, Return, Goto
<1>15. ASSUME NEW rs \in RunnerSets, AnnotateUpdates(rs) PROVE FinalizerFirst'
  <2>1. /\ rset'[rs].state = rset[rs].state /\ rset'[rs].finalizer = rset[rs].finalizer
        /\ rset'[rs].template = rset[rs].template
        /\ \A o \in RunnerSets \ {rs} : rset'[o] = rset[o]
    BY <1>15, Annotated
  <2>2. /\ pc[rs] = "update" /\ pc' = [pc EXCEPT ![rs] = "idle"]
        /\ snap' = [snap EXCEPT ![rs] = NoSnap]
    BY <1>15 DEF AnnotateUpdates, Return, Goto
  <2> QED
    BY <2>1, <2>2
<1>15a. ASSUME NEW rs \in RunnerSets, AnnotateFetches(rs) PROVE FinalizerFirst'
  BY <1>15a, Refetched DEF AnnotateFetches, Goto
<1>16. ASSUME NEW rs \in RunnerSets, AnnotateFails(rs) PROVE FinalizerFirst'
  BY <1>16 DEF AnnotateFails, Return, Goto
<1>17. ASSUME NEW l \in Listeners, ListenerSignals(l) PROVE FinalizerFirst'
  BY <1>17 DEF ListenerSignals
<1>18. ASSUME NEW l \in Listeners, ListenerRefused(l) PROVE FinalizerFirst'
  BY <1>18 DEF ListenerRefused
<1>19. ASSUME NEW l \in Listeners, ListenerEnds(l) PROVE FinalizerFirst'
  BY <1>19 DEF ListenerEnds
<1>20. ASSUME NEW l \in Listeners, ListenerFails(l) PROVE FinalizerFirst'
  BY <1>20 DEF ListenerFails
<1>21. ASSUME NEW i \in Ids, SessionExpires(i) PROVE FinalizerFirst'
  BY <1>21 DEF SessionExpires
<1>22. ASSUME NEW rs \in RunnerSets, CreateRunnerSet(rs) PROVE FinalizerFirst'
  <2>1. /\ rset'[rs].state = "present" /\ ~rset'[rs].finalizer /\ rset'[rs].template = 0
        /\ rset'[rs].ready = "unknown"
        /\ \A o \in RunnerSets \ {rs} : rset'[o] = rset[o]
    BY <1>22, Created
  <2>2. pc[rs] = "idle" /\ UNCHANGED <<pc, snap>>
    BY <1>22 DEF CreateRunnerSet, Changed
  <2> QED
    BY <2>1, <2>2
<1>23. ASSUME NEW rs \in RunnerSets, EditRunnerSet(rs) PROVE FinalizerFirst'
  <2>1. /\ rset'[rs].template = rset[rs].template + 1 /\ rset'[rs].state = rset[rs].state
        /\ rset'[rs].finalizer = rset[rs].finalizer /\ rset'[rs].ready = rset[rs].ready
        /\ \A o \in RunnerSets \ {rs} : rset'[o] = rset[o]
    BY <1>23, Edited
  <2>2. rset[rs].state # "absent" /\ UNCHANGED <<pc, snap>>
    BY <1>23 DEF EditRunnerSet, Changed
  <2> QED
    BY <2>1, <2>2
<1>24. ASSUME NEW rs \in RunnerSets, DeleteRunnerSet(rs) PROVE FinalizerFirst'
  BY <1>24, WithDeletion DEF DeleteRunnerSet, Changed
<1>25. CASE AutoscaleSetChanges
  BY <1>25 DEF AutoscaleSetChanges
<1>26. CASE AutoscaleSetRecords
  BY <1>26 DEF AutoscaleSetRecords
<1>27. CASE Crash
  BY <1>27 DEF Crash
<1>28. CASE UNCHANGED vars
  BY <1>28 DEF vars
<1> QED
  BY <1>1, <1>2, <1>3, <1>4, <1>5, <1>6, <1>7, <1>8, <1>9, <1>10, <1>11, <1>12, <1>13,
     <1>14, <1>15, <1>15a, <1>16, <1>17, <1>18, <1>19, <1>20, <1>21, <1>22, <1>23, <1>24,
     <1>25, <1>26, <1>27, <1>28
     DEF Next, Reconcile, ListenerStep, User

(* Nobody but the RunnerSet itself starts a listener for a RunnerSet that is
   alone: between its look at the map and its start there is none. *)
LEMMA NoRivalStep ==
    ASSUME TypeOK, Manager!RegisteredIsLive, NoRival, [Next]_vars PROVE NoRival'
<1> USE DEF TypeOK, NoRival, Starting, managerVars, asetVars, objectVars, workerVars,
            WantedKey, Manager!HasListener
<1>1. ASSUME NEW rs \in RunnerSets, ReconcileGone(rs) PROVE NoRival'
  BY <1>1 DEF ReconcileGone
<1>2. ASSUME NEW rs \in RunnerSets, ReconcileAddsFinalizer(rs) PROVE NoRival'
  BY <1>2 DEF ReconcileAddsFinalizer
<1>3. ASSUME NEW rs \in RunnerSets, ReconcileWaits(rs) PROVE NoRival'
  BY <1>3 DEF ReconcileWaits
<1>4. ASSUME NEW rs \in RunnerSets, ReconcileUpToDate(rs) PROVE NoRival'
  BY <1>4 DEF ReconcileUpToDate
<1>5. ASSUME NEW rs \in RunnerSets, ReconcileContinues(rs) PROVE NoRival'
  BY <1>5 DEF ReconcileContinues, Fetched, Goto, KeyOf, Manager!HasListener
<1>6. ASSUME NEW rs \in RunnerSets, ReconcileDeletes(rs) PROVE NoRival'
  BY <1>6 DEF ReconcileDeletes, Goto
<1>7. ASSUME NEW rs \in RunnerSets, Unfinalize(rs) PROVE NoRival'
  BY <1>7 DEF Unfinalize, Return, Goto
<1>8. ASSUME NEW rs \in RunnerSets, RolloutStops(rs) PROVE NoRival'
  <2>1. /\ pc' = [pc EXCEPT ![rs] = "record"] /\ snap' = snap
    BY <1>8 DEF RolloutStops, Goto
  <2>2. WantedKey(rs) \in Keys
    BY Fields DEF WantedKey
  <2>3. listeners'[WantedKey(rs)] = NoListener
    <3>1. CASE Manager!HasListener(WantedKey(rs))
      BY <1>8, <2>2, <3>1, StopKeeps DEF RolloutStops, WantedKey
    <3>2. CASE ~Manager!HasListener(WantedKey(rs))
      BY <1>8, <3>2 DEF RolloutStops, WantedKey, Manager!HasListener
    <3> QED
      BY <3>1, <3>2
  <2> QED
    BY <2>1, <2>3 DEF WantedKey, Manager!HasListener
<1>9. ASSUME NEW rs \in RunnerSets, RolloutRecords(rs) PROVE NoRival'
  BY <1>9 DEF RolloutRecords, Goto
<1>10. ASSUME NEW rs \in RunnerSets, OpenSession(rs) PROVE NoRival'
  BY <1>10 DEF OpenSession, Goto
<1>11. ASSUME NEW rs \in RunnerSets, SessionConflict(rs) PROVE NoRival'
  BY <1>11 DEF SessionConflict, ReturnStatus, Return, Goto
<1>12. ASSUME NEW rs \in RunnerSets, SessionFails(rs) PROVE NoRival'
  BY <1>12 DEF SessionFails, ReturnStatus, Return, Goto
<1>13. ASSUME NEW rs \in RunnerSets, StartSucceeds(rs) PROVE NoRival'
  BY <1>13 DEF StartSucceeds, Goto
<1>14. ASSUME NEW rs \in RunnerSets, StartFails(rs) PROVE NoRival'
  BY <1>14 DEF StartFails, ReturnStatus, Return, Goto
<1>15. ASSUME NEW rs \in RunnerSets, AnnotateUpdates(rs) PROVE NoRival'
  BY <1>15 DEF AnnotateUpdates, Return, Goto
<1>15a. ASSUME NEW rs \in RunnerSets, AnnotateFetches(rs) PROVE NoRival'
  BY <1>15a, Refetched DEF AnnotateFetches, Goto
<1>16. ASSUME NEW rs \in RunnerSets, AnnotateFails(rs) PROVE NoRival'
  BY <1>16 DEF AnnotateFails, Return, Goto
<1>17. ASSUME NEW l \in Listeners, ListenerSignals(l) PROVE NoRival'
  BY <1>17 DEF ListenerSignals, Manager!WatchStop, Manager!RunCancelled,
         Manager!RunReturns, Manager!managerVars
<1>18. ASSUME NEW l \in Listeners, ListenerRefused(l) PROVE NoRival'
  BY <1>18 DEF ListenerRefused, Manager!RunFails, Manager!RunReturns,
         Manager!managerVars
<1>19. ASSUME NEW l \in Listeners, ListenerEnds(l) PROVE NoRival'
  <2>1. \A k \in Keys : listeners'[k] \in {listeners[k], NoListener}
    BY <1>19, EndKeeps DEF ListenerEnds
  <2>2. \A rs \in RunnerSets : WantedKey(rs) \in Keys
    BY Fields DEF WantedKey
  <2> QED
    BY <1>19, <2>1, <2>2 DEF ListenerEnds, WantedKey, Manager!HasListener
<1>20. ASSUME NEW l \in Listeners, ListenerFails(l) PROVE NoRival'
  BY <1>20 DEF ListenerFails, Manager!RunFails, Manager!RunReturns, Manager!managerVars
<1>21. ASSUME NEW i \in Ids, SessionExpires(i) PROVE NoRival'
  BY <1>21 DEF SessionExpires
<1>22. ASSUME NEW rs \in RunnerSets, CreateRunnerSet(rs) PROVE NoRival'
  BY <1>22 DEF CreateRunnerSet, Changed
<1>23. ASSUME NEW rs \in RunnerSets, EditRunnerSet(rs) PROVE NoRival'
  BY <1>23 DEF EditRunnerSet, Changed
<1>24. ASSUME NEW rs \in RunnerSets, DeleteRunnerSet(rs) PROVE NoRival'
  BY <1>24 DEF DeleteRunnerSet, Changed
<1>25. CASE AutoscaleSetChanges
  BY <1>25 DEF AutoscaleSetChanges
<1>26. CASE AutoscaleSetRecords
  BY <1>26 DEF AutoscaleSetRecords
<1>27. CASE Crash
  BY <1>27 DEF Crash
<1>28. CASE UNCHANGED vars
  BY <1>28 DEF vars
<1> QED
  BY <1>1, <1>2, <1>3, <1>4, <1>5, <1>6, <1>7, <1>8, <1>9, <1>10, <1>11, <1>12, <1>13,
     <1>14, <1>15, <1>15a, <1>16, <1>17, <1>18, <1>19, <1>20, <1>21, <1>22, <1>23, <1>24,
     <1>25, <1>26, <1>27, <1>28
     DEF Next, Reconcile, ListenerStep, User

(* Every way out of a reconcile keeps the request of a RunnerSet that was noticed. *)
LEMMA NeverForgottenStep ==
    ASSUME TypeOK, FinalizerFirst, NoRival, NeverForgotten, [Next]_vars
    PROVE  NeverForgotten'
<1> USE NothingSet, Nothing, Fields
        DEF TypeOK, FinalizerFirst, NeverForgotten, Reliable,
            managerVars, asetVars, objectVars, workerVars
<1>1. ASSUME NEW rs \in RunnerSets, ReconcileGone(rs) PROVE NeverForgotten'
  BY <1>1 DEF ReconcileGone, BeginReconcile
<1>2. ASSUME NEW rs \in RunnerSets, ReconcileAddsFinalizer(rs) PROVE NeverForgotten'
  BY <1>2, WithFinalizer DEF ReconcileAddsFinalizer, BeginReconcile
<1>3. ASSUME NEW rs \in RunnerSets, ReconcileWaits(rs) PROVE NeverForgotten'
  BY <1>3, Waited, Reported DEF ReconcileWaits
<1>4. ASSUME NEW rs \in RunnerSets, ReconcileUpToDate(rs) PROVE NeverForgotten'
  BY <1>4, Reported DEF ReconcileUpToDate
<1>5. ASSUME NEW rs \in RunnerSets, ReconcileContinues(rs) PROVE NeverForgotten'
  BY <1>5 DEF ReconcileContinues, BeginReconcile, Goto
<1>6. ASSUME NEW rs \in RunnerSets, ReconcileDeletes(rs) PROVE NeverForgotten'
  BY <1>6 DEF ReconcileDeletes, BeginReconcile, Goto
<1>7. ASSUME NEW rs \in RunnerSets, Unfinalize(rs) PROVE NeverForgotten'
  <2>1. failures' = 0 => failures = 0
    BY <1>7 DEF Unfinalize, Fail
  <2>2. /\ \A o \in RunnerSets \ {rs} : rset'[o] = rset[o] /\ pc'[o] = pc[o]
        /\ queued \subseteq queued'
        /\ rset'[rs].state = "present" => rs \in queued'
    BY <1>7, NothingSet DEF Unfinalize, Return, Goto, Requeue
  <2> QED
    BY <2>1, <2>2
<1>8. ASSUME NEW rs \in RunnerSets, RolloutStops(rs) PROVE NeverForgotten'
  BY <1>8 DEF RolloutStops, Goto
<1>9. ASSUME NEW rs \in RunnerSets, RolloutRecords(rs) PROVE NeverForgotten'
  <2>1. /\ rset'[rs].state = rset[rs].state /\ rset'[rs].key = rset[rs].key
        /\ rset'[rs].finalizer = rset[rs].finalizer
        /\ rset'[rs].template = rset[rs].template /\ rset'[rs].ready = rset[rs].ready
        /\ \A o \in RunnerSets \ {rs} : rset'[o] = rset[o]
    BY <1>9, Recorded
  <2>2. /\ pc[rs] = "record" /\ pc' = [pc EXCEPT ![rs] = "session"] /\ snap' = snap
        /\ queued' = queued /\ (failures' = 0 => failures = 0)
    BY <1>9 DEF RolloutRecords, Goto, Fail
  <2> QED
    BY <2>1, <2>2
<1>10. ASSUME NEW rs \in RunnerSets, OpenSession(rs) PROVE NeverForgotten'
  BY <1>10 DEF OpenSession, Goto
<1>11. ASSUME NEW rs \in RunnerSets, SessionConflict(rs) PROVE NeverForgotten'
  <2>1. CASE ReturnStatus(rs, "true") /\ UNCHANGED failures
    BY <1>11, <2>1, Reported DEF SessionConflict, ReturnStatus, Return, Goto, Requeue
  (* The request is dropped when updateStatus fails after a conflict: with a
     second RunnerSet that is no longer reliable, without one there is no
     listener. *)
  <2>2. CASE Manager!HasListener(WantedKey(rs)) /\ Return(rs) /\ Fail /\ UNCHANGED <<rset, queued>>
    <3>1. RunnerSets # {rs}
      BY <1>11, <2>2 DEF NoRival, Starting, SessionConflict
    <3>2. failures' # 0
      BY <2>2 DEF Fail
    <3> QED
      BY <1>11, <2>2, <3>1, <3>2 DEF SessionConflict, Return, Goto
  <2>3. CASE Return(rs) /\ Requeue(rs) /\ UNCHANGED <<rset, failures>>
    BY <1>11, <2>3 DEF SessionConflict, Return, Goto, Requeue
  <2> QED
    BY <1>11, <2>1, <2>2, <2>3 DEF SessionConflict
<1>12. ASSUME NEW rs \in RunnerSets, SessionFails(rs) PROVE NeverForgotten'
  BY <1>12, Reported DEF SessionFails, ReturnStatus, Return, Goto, Requeue, Fail
<1>13. ASSUME NEW rs \in RunnerSets, StartSucceeds(rs) PROVE NeverForgotten'
  BY <1>13 DEF StartSucceeds, Goto
<1>14. ASSUME NEW rs \in RunnerSets, StartFails(rs) PROVE NeverForgotten'
  BY <1>14, Reported DEF StartFails, ReturnStatus, Return, Goto, Requeue, Fail
<1>15. ASSUME NEW rs \in RunnerSets, AnnotateUpdates(rs) PROVE NeverForgotten'
  <2>1. \A o \in RunnerSets \ {rs} : rset'[o] = rset[o]
    BY <1>15, Annotated
  <2>2. rs \in queued' /\ queued \subseteq queued' /\ failures' = failures
    BY <1>15 DEF AnnotateUpdates, Requeue
  <2>3. \A o \in RunnerSets \ {rs} : pc'[o] = pc[o]
    BY <1>15 DEF AnnotateUpdates, Return, Goto
  <2> QED
    BY <2>1, <2>2, <2>3
<1>15a. ASSUME NEW rs \in RunnerSets, AnnotateFetches(rs) PROVE NeverForgotten'
  BY <1>15a DEF AnnotateFetches, Goto
<1>16. ASSUME NEW rs \in RunnerSets, AnnotateFails(rs) PROVE NeverForgotten'
  BY <1>16 DEF AnnotateFails, Return, Goto, Requeue, Fail
<1>17. ASSUME NEW l \in Listeners, ListenerSignals(l) PROVE NeverForgotten'
  BY <1>17 DEF ListenerSignals
<1>18. ASSUME NEW l \in Listeners, ListenerRefused(l) PROVE NeverForgotten'
  BY <1>18 DEF ListenerRefused
<1>19. ASSUME NEW l \in Listeners, ListenerEnds(l) PROVE NeverForgotten'
  BY <1>19 DEF ListenerEnds
<1>20. ASSUME NEW l \in Listeners, ListenerFails(l) PROVE NeverForgotten'
  BY <1>20 DEF ListenerFails, Fail
<1>21. ASSUME NEW i \in Ids, SessionExpires(i) PROVE NeverForgotten'
  BY <1>21 DEF SessionExpires
<1>22. ASSUME NEW rs \in RunnerSets, CreateRunnerSet(rs) PROVE NeverForgotten'
  BY <1>22 DEF CreateRunnerSet, Changed, Requeue
<1>23. ASSUME NEW rs \in RunnerSets, EditRunnerSet(rs) PROVE NeverForgotten'
  BY <1>23 DEF EditRunnerSet, Changed, Requeue
<1>24. ASSUME NEW rs \in RunnerSets, DeleteRunnerSet(rs) PROVE NeverForgotten'
  BY <1>24 DEF DeleteRunnerSet, Changed, Requeue
<1>25. CASE AutoscaleSetChanges
  BY <1>25 DEF AutoscaleSetChanges
<1>26. CASE AutoscaleSetRecords
  BY <1>26 DEF AutoscaleSetRecords
<1>27. CASE Crash
  BY <1>27 DEF Crash, Present, Fail
<1>28. CASE UNCHANGED vars
  BY <1>28 DEF vars
<1> QED
  BY <1>1, <1>2, <1>3, <1>4, <1>5, <1>6, <1>7, <1>8, <1>9, <1>10, <1>11, <1>12, <1>13,
     <1>14, <1>15, <1>15a, <1>16, <1>17, <1>18, <1>19, <1>20, <1>21, <1>22, <1>23, <1>24,
     <1>25, <1>26, <1>27, <1>28
     DEF Next, Reconcile, ListenerStep, User

(* No write of the controller takes a template back. *)
LEMMA TemplateStep ==
    ASSUME TypeOK, FinalizerFirst, [Next]_vars
    PROVE  \A o \in RunnerSets :
              rset'[o].state # "absent" => rset'[o].template >= rset[o].template
<1> DEFINE TemplateKept == \A o \in RunnerSets :
              rset'[o].state # "absent" => rset'[o].template >= rset[o].template
<1> USE NothingSet, Nothing, Fields DEF TypeOK, objectVars
<1>1. ASSUME NEW rs \in RunnerSets, ReconcileGone(rs) PROVE TemplateKept
  BY <1>1 DEF ReconcileGone
<1>2. ASSUME NEW rs \in RunnerSets, ReconcileAddsFinalizer(rs) PROVE TemplateKept
  BY <1>2, WithFinalizer DEF ReconcileAddsFinalizer
<1>3. ASSUME NEW rs \in RunnerSets, ReconcileWaits(rs) PROVE TemplateKept
  BY <1>3, Waited, Reported DEF ReconcileWaits
<1>4. ASSUME NEW rs \in RunnerSets, ReconcileUpToDate(rs) PROVE TemplateKept
  BY <1>4, Reported DEF ReconcileUpToDate
<1>5. ASSUME NEW rs \in RunnerSets, ReconcileContinues(rs) PROVE TemplateKept
  BY <1>5 DEF ReconcileContinues
<1>6. ASSUME NEW rs \in RunnerSets, ReconcileDeletes(rs) PROVE TemplateKept
  BY <1>6 DEF ReconcileDeletes
<1>7. ASSUME NEW rs \in RunnerSets, Unfinalize(rs) PROVE TemplateKept
  BY <1>7 DEF Unfinalize
<1>8. ASSUME NEW rs \in RunnerSets, RolloutStops(rs) PROVE TemplateKept
  BY <1>8 DEF RolloutStops
<1>9. ASSUME NEW rs \in RunnerSets, RolloutRecords(rs) PROVE TemplateKept
  BY <1>9, Recorded DEF RolloutRecords
<1>10. ASSUME NEW rs \in RunnerSets, OpenSession(rs) PROVE TemplateKept
  BY <1>10 DEF OpenSession
<1>11. ASSUME NEW rs \in RunnerSets, SessionConflict(rs) PROVE TemplateKept
  <2>1. rset' = [rset EXCEPT ![rs].ready = "true"] \/ rset' = rset
    BY <1>11 DEF SessionConflict, ReturnStatus
  <2>2. CASE rset' = [rset EXCEPT ![rs].ready = "true"]
    BY <2>2, Reported
  <2>3. CASE rset' = rset
    BY <2>3
  <2> QED
    BY <2>1, <2>2, <2>3
<1>12. ASSUME NEW rs \in RunnerSets, SessionFails(rs) PROVE TemplateKept
  BY <1>12, Reported DEF SessionFails, ReturnStatus
<1>13. ASSUME NEW rs \in RunnerSets, StartSucceeds(rs) PROVE TemplateKept
  BY <1>13 DEF StartSucceeds
<1>14. ASSUME NEW rs \in RunnerSets, StartFails(rs) PROVE TemplateKept
  BY <1>14, Reported DEF StartFails, ReturnStatus
<1>15. ASSUME NEW rs \in RunnerSets, AnnotateUpdates(rs) PROVE TemplateKept
  BY <1>15, Annotated
<1>15a. ASSUME NEW rs \in RunnerSets, AnnotateFetches(rs) PROVE TemplateKept
  BY <1>15a DEF AnnotateFetches, Goto
<1>16. ASSUME NEW rs \in RunnerSets, AnnotateFails(rs) PROVE TemplateKept
  BY <1>16 DEF AnnotateFails
<1>17. ASSUME NEW l \in Listeners, ListenerSignals(l) PROVE TemplateKept
  BY <1>17 DEF ListenerSignals
<1>18. ASSUME NEW l \in Listeners, ListenerRefused(l) PROVE TemplateKept
  BY <1>18 DEF ListenerRefused
<1>19. ASSUME NEW l \in Listeners, ListenerEnds(l) PROVE TemplateKept
  BY <1>19 DEF ListenerEnds
<1>20. ASSUME NEW l \in Listeners, ListenerFails(l) PROVE TemplateKept
  BY <1>20 DEF ListenerFails
<1>21. ASSUME NEW i \in Ids, SessionExpires(i) PROVE TemplateKept
  BY <1>21 DEF SessionExpires
<1>22. ASSUME NEW rs \in RunnerSets, CreateRunnerSet(rs) PROVE TemplateKept
  <2>1. rset[rs].template = 0
    BY <1>22 DEF FinalizerFirst, CreateRunnerSet
  <2>2. rset'[rs].template = 0 /\ \A o \in RunnerSets \ {rs} : rset'[o] = rset[o]
    BY <1>22, Created
  <2> QED
    BY <2>1, <2>2
<1>23. ASSUME NEW rs \in RunnerSets, EditRunnerSet(rs) PROVE TemplateKept
  BY <1>23, Edited
<1>24. ASSUME NEW rs \in RunnerSets, DeleteRunnerSet(rs) PROVE TemplateKept
  BY <1>24, WithDeletion DEF DeleteRunnerSet, Changed
<1>25. CASE AutoscaleSetChanges
  BY <1>25 DEF AutoscaleSetChanges
<1>26. CASE AutoscaleSetRecords
  BY <1>26 DEF AutoscaleSetRecords
<1>27. CASE Crash
  BY <1>27 DEF Crash
<1>28. CASE UNCHANGED vars
  BY <1>28 DEF vars, objectVars
<1> QED
  BY <1>1, <1>2, <1>3, <1>4, <1>5, <1>6, <1>7, <1>8, <1>9, <1>10, <1>11, <1>12, <1>13,
     <1>14, <1>15, <1>15a, <1>16, <1>17, <1>18, <1>19, <1>20, <1>21, <1>22, <1>23, <1>24,
     <1>25, <1>26, <1>27, <1>28
     DEF Next, Reconcile, ListenerStep, User

(* Scale set IDs are numbers. *)
LEMMA IdsTyped ==
    ASSUME TypeOK PROVE \A rs \in RunnerSets : ScaleSetOf(rs) \in Nat
<1> SUFFICES ASSUME NEW rs \in RunnerSets PROVE ScaleSetOf(rs) \in Nat
  OBVIOUS
<1>1. snap[rs] \in Snapshot
  BY DEF TypeOK
<1>2. snap[rs].as \in Lifecycle!AutoscaleSetObject
  BY <1>1, Fields
<1>3. snap[rs].as.id \in Ids \cup {NoId}
  BY <1>2, Fields
<1>4. Ids \cup {NoId} \subseteq Nat
  BY Fields
<1> QED
  BY <1>3, <1>4, Zenon DEF ScaleSetOf

(* A scale set ID that the controller works with was assigned. *)
LEMMA AssignedStep ==
    ASSUME TypeOK, AssignedIds, [Next]_vars PROVE AssignedIds'
<1> USE NothingSet, Nothing, Fields
        DEF TypeOK, Manager!TypeOK, AssignedIds, Starting, ScaleSetOf,
            managerVars, asetVars, objectVars, workerVars
<1>1. ASSUME NEW rs \in RunnerSets, ReconcileGone(rs) PROVE AssignedIds'
  BY <1>1 DEF ReconcileGone
<1>2. ASSUME NEW rs \in RunnerSets, ReconcileAddsFinalizer(rs) PROVE AssignedIds'
  BY <1>2 DEF ReconcileAddsFinalizer
<1>3. ASSUME NEW rs \in RunnerSets, ReconcileWaits(rs) PROVE AssignedIds'
  BY <1>3 DEF ReconcileWaits
<1>4. ASSUME NEW rs \in RunnerSets, ReconcileUpToDate(rs) PROVE AssignedIds'
  BY <1>4 DEF ReconcileUpToDate
<1>5. ASSUME NEW rs \in RunnerSets, ReconcileContinues(rs) PROVE AssignedIds'
  BY <1>5 DEF ReconcileContinues, Usable, Goto, Fetched
<1>6. ASSUME NEW rs \in RunnerSets, ReconcileDeletes(rs) PROVE AssignedIds'
  BY <1>6 DEF ReconcileDeletes, Goto, Fetched, Manager!StopListener,
         Manager!goroutineVars
<1>7. ASSUME NEW rs \in RunnerSets, Unfinalize(rs) PROVE AssignedIds'
  BY <1>7 DEF Unfinalize, Return, Goto
<1>8. ASSUME NEW rs \in RunnerSets, RolloutStops(rs) PROVE AssignedIds'
  BY <1>8 DEF RolloutStops, Goto, Manager!StopListener, Manager!goroutineVars
<1>9. ASSUME NEW rs \in RunnerSets, RolloutRecords(rs) PROVE AssignedIds'
  BY <1>9 DEF RolloutRecords, Goto
<1>10. ASSUME NEW rs \in RunnerSets, OpenSession(rs) PROVE AssignedIds'
  BY <1>10 DEF OpenSession, Goto
<1>11. ASSUME NEW rs \in RunnerSets, SessionConflict(rs) PROVE AssignedIds'
  BY <1>11 DEF SessionConflict, ReturnStatus, Return, Goto
<1>12. ASSUME NEW rs \in RunnerSets, SessionFails(rs) PROVE AssignedIds'
  BY <1>12 DEF SessionFails, ReturnStatus, Return, Goto
<1>13. ASSUME NEW rs \in RunnerSets, StartSucceeds(rs) PROVE AssignedIds'
  <2>1. PICK l \in Listeners : StartSucceeds(rs)!2!(l)
    BY <1>13 DEF StartSucceeds
  <2>2. ScaleSetOf(rs) \in 1 .. assigned
    <3>1. ScaleSetOf(rs) \in Nat /\ ScaleSetOf(rs) # 0
      BY <1>13, IdsTyped DEF StartSucceeds
    <3> QED
      BY <3>1
  <2> QED
    BY <1>13, <2>1, <2>2 DEF StartSucceeds, Goto, Manager!StartListener
<1>14. ASSUME NEW rs \in RunnerSets, StartFails(rs) PROVE AssignedIds'
  BY <1>14 DEF StartFails, ReturnStatus, Return, Goto
<1>15. ASSUME NEW rs \in RunnerSets, AnnotateUpdates(rs) PROVE AssignedIds'
  BY <1>15 DEF AnnotateUpdates, Return, Goto
<1>15a. ASSUME NEW rs \in RunnerSets, AnnotateFetches(rs) PROVE AssignedIds'
  BY <1>15a, Refetched DEF AnnotateFetches, Goto
<1>16. ASSUME NEW rs \in RunnerSets, AnnotateFails(rs) PROVE AssignedIds'
  BY <1>16 DEF AnnotateFails, Return, Goto
<1>17. ASSUME NEW l \in Listeners, ListenerSignals(l) PROVE AssignedIds'
  BY <1>17 DEF ListenerSignals, Manager!WatchStop, Manager!RunCancelled,
         Manager!RunReturns
<1>18. ASSUME NEW l \in Listeners, ListenerRefused(l) PROVE AssignedIds'
  BY <1>18 DEF ListenerRefused, Manager!RunFails, Manager!RunReturns
<1>19. ASSUME NEW l \in Listeners, ListenerEnds(l) PROVE AssignedIds'
  BY <1>19 DEF ListenerEnds, Manager!Deregister
<1>20. ASSUME NEW l \in Listeners, ListenerFails(l) PROVE AssignedIds'
  BY <1>20 DEF ListenerFails, Manager!RunFails, Manager!RunReturns
<1>21. ASSUME NEW i \in Ids, SessionExpires(i) PROVE AssignedIds'
  BY <1>21 DEF SessionExpires
<1>22. ASSUME NEW rs \in RunnerSets, CreateRunnerSet(rs) PROVE AssignedIds'
  BY <1>22 DEF CreateRunnerSet, Changed
<1>23. ASSUME NEW rs \in RunnerSets, EditRunnerSet(rs) PROVE AssignedIds'
  BY <1>23 DEF EditRunnerSet, Changed
<1>24. ASSUME NEW rs \in RunnerSets, DeleteRunnerSet(rs) PROVE AssignedIds'
  BY <1>24 DEF DeleteRunnerSet, Changed
<1>25. CASE AutoscaleSetChanges
  <2>1. aset'.id \in {aset.id, 0} /\ assigned' = assigned
    BY <1>25 DEF AutoscaleSetChanges, Lifecycle!Create, Lifecycle!Edit, Lifecycle!Delete,
             Lifecycle!Remove, Lifecycle!NoObject, Lifecycle!NoId, Lifecycle!AutoscaleSetObject
  <2> QED
    BY <1>25, <2>1 DEF AutoscaleSetChanges
<1>26. CASE AutoscaleSetRecords
  <2>1. aset'.id = assigned' /\ assigned' = assigned + 1
    BY <1>26 DEF AutoscaleSetRecords, Lifecycle!Record, Lifecycle!AutoscaleSetObject
  <2>2. \A rs \in RunnerSets : ScaleSetOf(rs) <= assigned'
    BY <2>1, IdsTyped
  <2>3. UNCHANGED <<pc, snap, goroutine, started>>
    BY <1>26 DEF AutoscaleSetRecords
  <2>4. \A l \in Listeners : goroutine[l] # "none" => started[l].id \in 1 .. assigned'
    BY <2>1
  <2> QED
    BY <2>1, <2>2, <2>3, <2>4
<1>27. CASE Crash
  BY <1>27 DEF Crash
<1>28. CASE UNCHANGED vars
  BY <1>28 DEF vars
<1> QED
  BY <1>1, <1>2, <1>3, <1>4, <1>5, <1>6, <1>7, <1>8, <1>9, <1>10, <1>11, <1>12, <1>13,
     <1>14, <1>15, <1>15a, <1>16, <1>17, <1>18, <1>19, <1>20, <1>21, <1>22, <1>23, <1>24,
     <1>25, <1>26, <1>27, <1>28
     DEF Next, Reconcile, ListenerStep, User

(* The scale sets that reconciles and listeners work with are those of GitHub. *)
LEMMA IdsInUseTyped ==
    ASSUME TypeOK, AssignedIds
    PROVE  /\ \A rs \in RunnerSets :
                 pc[rs] \in {"stop", "annotate"} \cup Starting => ScaleSetOf(rs) \in Ids
           /\ \A l \in Listeners : goroutine[l] # "none" => started[l].id \in Ids
<1>1. ASSUME NEW rs \in RunnerSets, pc[rs] \in {"stop", "annotate"} \cup Starting
      PROVE  ScaleSetOf(rs) \in Ids
  <2>1. /\ ScaleSetOf(rs) \in Nat /\ ScaleSetOf(rs) # 0
        /\ ScaleSetOf(rs) <= assigned /\ assigned \in Nat /\ assigned <= MaxIds
    BY <1>1, IdsTyped, ReconcilerAssumption DEF AssignedIds, TypeOK, NoId, Lifecycle!NoId
  <2> QED
    BY <2>1, ReconcilerAssumption DEF Ids, Lifecycle!Ids
<1>2. ASSUME NEW l \in Listeners, goroutine[l] # "none" PROVE started[l].id \in Ids
  BY <1>2, ReconcilerAssumption DEF AssignedIds, TypeOK, Ids, Lifecycle!Ids
<1> QED
  BY <1>1, <1>2

(* A session has one owner at a time: the reconcile that opened it, then the
   listener that was started with it. *)
LEMMA SessionStep ==
    ASSUME TypeOK, SessionInv, [Next]_vars
    PROVE  SessionOwned' /\ OneStarter' /\ OneListenerPerScaleSet'
<1> DEFINE Owners == SessionOwned /\ OneStarter /\ OneListenerPerScaleSet
           IdsInUse == /\ \A rs \in RunnerSets :
                             pc[rs] \in {"stop", "annotate"} \cup Starting => ScaleSetOf(rs) \in Ids
                       /\ \A l \in Listeners : goroutine[l] # "none" => started[l].id \in Ids
<1>0. IdsInUse
  BY IdsInUseTyped DEF SessionInv
<1> HIDE DEF IdsInUse
<1> USE <1>0, NothingSet
        DEF TypeOK, Manager!TypeOK, SessionInv, SessionOwned, OneStarter, OneListenerPerScaleSet,
            ScaleSetOf, managerVars, asetVars, objectVars, workerVars
<1>1. ASSUME NEW rs \in RunnerSets, ReconcileGone(rs) PROVE Owners'
  BY <1>1 DEF ReconcileGone
<1>2. ASSUME NEW rs \in RunnerSets, ReconcileAddsFinalizer(rs) PROVE Owners'
  BY <1>2 DEF ReconcileAddsFinalizer
<1>3. ASSUME NEW rs \in RunnerSets, ReconcileWaits(rs) PROVE Owners'
  BY <1>3 DEF ReconcileWaits
<1>4. ASSUME NEW rs \in RunnerSets, ReconcileUpToDate(rs) PROVE Owners'
  BY <1>4 DEF ReconcileUpToDate
<1>5. ASSUME NEW rs \in RunnerSets, ReconcileContinues(rs) PROVE Owners'
  BY <1>5 DEF ReconcileContinues, Goto, Fetched
<1>6. ASSUME NEW rs \in RunnerSets, ReconcileDeletes(rs) PROVE Owners'
  BY <1>6 DEF ReconcileDeletes, Goto, Fetched, Manager!StopListener,
         Manager!goroutineVars
<1>7. ASSUME NEW rs \in RunnerSets, Unfinalize(rs) PROVE Owners'
  BY <1>7 DEF Unfinalize, Return, Goto
<1>8. ASSUME NEW rs \in RunnerSets, RolloutStops(rs) PROVE Owners'
  BY <1>8 DEF RolloutStops, Goto, Manager!StopListener, Manager!goroutineVars
<1>9. ASSUME NEW rs \in RunnerSets, RolloutRecords(rs) PROVE Owners'
  BY <1>9 DEF RolloutRecords, Goto
<1>10. ASSUME NEW rs \in RunnerSets, OpenSession(rs) PROVE Owners'
  <2>1. ScaleSetOf(rs) \in Ids
    BY <1>10 DEF OpenSession, IdsInUse, Starting
  <2>2. /\ session[ScaleSetOf(rs)] = "none"
        /\ session' = [session EXCEPT ![ScaleSetOf(rs)] = "opened"]
        /\ pc' = [pc EXCEPT ![rs] = "start"] /\ UNCHANGED <<goroutine, started, snap>>
    BY <1>10 DEF OpenSession, SessionBecomes, Goto
  <2>3. SessionOwned'
    BY <2>1, <2>2
  <2>4. OneStarter'
    BY <2>1, <2>2
  <2> QED
    BY <2>2, <2>3, <2>4
<1>11. ASSUME NEW rs \in RunnerSets, SessionConflict(rs) PROVE Owners'
  BY <1>11 DEF SessionConflict, ReturnStatus, Return, Goto
<1>12. ASSUME NEW rs \in RunnerSets, SessionFails(rs) PROVE Owners'
  BY <1>12 DEF SessionFails, ReturnStatus, Return, Goto
<1>13. ASSUME NEW rs \in RunnerSets, StartSucceeds(rs) PROVE Owners'
  <2>1. PICK l \in Listeners : StartSucceeds(rs)!2!(l)
    BY <1>13 DEF StartSucceeds
  <2>2. ScaleSetOf(rs) \in Ids
    BY <1>13 DEF StartSucceeds, IdsInUse, Starting
  <2>3. /\ pc[rs] = "start" /\ session' = [session EXCEPT ![ScaleSetOf(rs)] = "held"]
        /\ pc' = [pc EXCEPT ![rs] = "annotate"] /\ UNCHANGED snap
    BY <1>13 DEF StartSucceeds, SessionBecomes, Goto
  <2>4. /\ goroutine[l] = "none" /\ goroutine' = [goroutine EXCEPT ![l] = "running"]
        /\ started'[l].id = ScaleSetOf(rs)
        /\ \A m \in Listeners \ {l} : started'[m] = started[m]
    BY <2>1 DEF Manager!StartListener
  <2>5. SessionOwned'
    BY <2>2, <2>3, <2>4
  <2>6. OneStarter'
    BY <2>3
  <2>7. OneListenerPerScaleSet'
    BY <2>3, <2>4
  <2> QED
    BY <2>5, <2>6, <2>7
<1>14. ASSUME NEW rs \in RunnerSets, StartFails(rs) PROVE Owners'
  <2>1. ScaleSetOf(rs) \in Ids
    BY <1>14 DEF StartFails, IdsInUse, Starting
  <2>2. /\ pc[rs] = "start" /\ session' = [session EXCEPT ![ScaleSetOf(rs)] = "lingering"]
        /\ pc' = [pc EXCEPT ![rs] = "idle"] /\ UNCHANGED <<goroutine, started>>
        /\ snap' = [snap EXCEPT ![rs] = NoSnap]
    BY <1>14 DEF StartFails, SessionBecomes, ReturnStatus, Return, Goto
  <2>3. SessionOwned'
    BY <2>1, <2>2
  <2> QED
    BY <2>2, <2>3
<1>15. ASSUME NEW rs \in RunnerSets, AnnotateUpdates(rs) PROVE Owners'
  BY <1>15 DEF AnnotateUpdates, Return, Goto
<1>15a. ASSUME NEW rs \in RunnerSets, AnnotateFetches(rs) PROVE Owners'
  BY <1>15a, Refetched DEF AnnotateFetches, Goto
<1>16. ASSUME NEW rs \in RunnerSets, AnnotateFails(rs) PROVE Owners'
  BY <1>16 DEF AnnotateFails, Return, Goto
<1>17. ASSUME NEW l \in Listeners, ListenerSignals(l) PROVE Owners'
  BY <1>17 DEF ListenerSignals, Manager!WatchStop, Manager!RunCancelled,
         Manager!RunReturns
<1>18. ASSUME NEW l \in Listeners, ListenerRefused(l) PROVE Owners'
  BY <1>18 DEF ListenerRefused, Manager!RunFails, Manager!RunReturns
<1>19. ASSUME NEW l \in Listeners, ListenerEnds(l) PROVE Owners'
  <2>1. goroutine[l] # "none" /\ goroutine' = [goroutine EXCEPT ![l] = "none"]
    BY <1>19 DEF ListenerEnds, Manager!Deregister
  <2>2. started[l].id \in Ids
    BY <2>1 DEF IdsInUse
  <2>3. /\ session' = [session EXCEPT ![started[l].id] = "lingering"]
        /\ started' = [started EXCEPT ![l] = NotStarted] /\ UNCHANGED <<pc, snap>>
    BY <1>19 DEF ListenerEnds, SessionBecomes
  <2> QED
    BY <2>1, <2>2, <2>3
<1>20. ASSUME NEW l \in Listeners, ListenerFails(l) PROVE Owners'
  BY <1>20 DEF ListenerFails, Manager!RunFails, Manager!RunReturns
<1>21. ASSUME NEW i \in Ids, SessionExpires(i) PROVE Owners'
  BY <1>21 DEF SessionExpires, SessionBecomes
<1>22. ASSUME NEW rs \in RunnerSets, CreateRunnerSet(rs) PROVE Owners'
  BY <1>22 DEF CreateRunnerSet, Changed
<1>23. ASSUME NEW rs \in RunnerSets, EditRunnerSet(rs) PROVE Owners'
  BY <1>23 DEF EditRunnerSet, Changed
<1>24. ASSUME NEW rs \in RunnerSets, DeleteRunnerSet(rs) PROVE Owners'
  BY <1>24 DEF DeleteRunnerSet, Changed
<1>25. CASE AutoscaleSetChanges
  BY <1>25 DEF AutoscaleSetChanges
<1>26. CASE AutoscaleSetRecords
  BY <1>26 DEF AutoscaleSetRecords
<1>27. CASE Crash
  BY <1>27 DEF Crash
<1>28. CASE UNCHANGED vars
  BY <1>28 DEF vars
<1> QED
  BY <1>1, <1>2, <1>3, <1>4, <1>5, <1>6, <1>7, <1>8, <1>9, <1>10, <1>11, <1>12, <1>13,
     <1>14, <1>15, <1>15a, <1>16, <1>17, <1>18, <1>19, <1>20, <1>21, <1>22, <1>23, <1>24,
     <1>25, <1>26, <1>27, <1>28
     DEF Next, Reconcile, ListenerStep, User

(* A listener that serves stays in the map: no other goroutine is left whose end
   could delete its entry. *)
LEMMA ServingStep ==
    ASSUME TypeOK, Manager!RegisteredIsLive, SessionInv, ServingIsRegistered, [Next]_vars
    PROVE  ServingIsRegistered'
<1> USE DEF TypeOK, Manager!TypeOK, ServingIsRegistered, managerVars, asetVars, objectVars
<1>1. ASSUME NEW rs \in RunnerSets, ReconcileGone(rs) PROVE ServingIsRegistered'
  BY <1>1 DEF ReconcileGone
<1>2. ASSUME NEW rs \in RunnerSets, ReconcileAddsFinalizer(rs) PROVE ServingIsRegistered'
  BY <1>2 DEF ReconcileAddsFinalizer
<1>3. ASSUME NEW rs \in RunnerSets, ReconcileWaits(rs) PROVE ServingIsRegistered'
  BY <1>3 DEF ReconcileWaits
<1>4. ASSUME NEW rs \in RunnerSets, ReconcileUpToDate(rs) PROVE ServingIsRegistered'
  BY <1>4 DEF ReconcileUpToDate
<1>5. ASSUME NEW rs \in RunnerSets, ReconcileContinues(rs) PROVE ServingIsRegistered'
  BY <1>5 DEF ReconcileContinues
<1>6. ASSUME NEW rs \in RunnerSets, ReconcileDeletes(rs) PROVE ServingIsRegistered'
  <2>1. assigned' = assigned
    BY <1>6 DEF ReconcileDeletes
  <2>2. CASE Manager!StopListener(KeyOf(rs))
    <3>1. KeyOf(rs) \in Keys
      BY Fields DEF KeyOf
    <3> QED
      BY <2>1, <2>2, <3>1 DEF Manager!StopListener, Manager!HasListener, Manager!goroutineVars
  <2>3. CASE UNCHANGED managerVars
    BY <2>1, <2>3
  <2> QED
    BY <1>6, <2>2, <2>3 DEF ReconcileDeletes
<1>7. ASSUME NEW rs \in RunnerSets, Unfinalize(rs) PROVE ServingIsRegistered'
  BY <1>7 DEF Unfinalize
<1>8. ASSUME NEW rs \in RunnerSets, RolloutStops(rs) PROVE ServingIsRegistered'
  <2>1. assigned' = assigned
    BY <1>8 DEF RolloutStops
  <2>2. CASE Manager!StopListener(snap[rs].rs.key)
    <3>1. snap[rs].rs.key \in Keys
      BY Fields DEF KeyOf
    <3> QED
      BY <2>1, <2>2, <3>1 DEF Manager!StopListener, Manager!HasListener, Manager!goroutineVars
  <2>3. CASE UNCHANGED managerVars
    BY <2>1, <2>3
  <2> QED
    BY <1>8, <2>2, <2>3 DEF RolloutStops
<1>9. ASSUME NEW rs \in RunnerSets, RolloutRecords(rs) PROVE ServingIsRegistered'
  BY <1>9 DEF RolloutRecords
<1>10. ASSUME NEW rs \in RunnerSets, OpenSession(rs) PROVE ServingIsRegistered'
  BY <1>10 DEF OpenSession
<1>11. ASSUME NEW rs \in RunnerSets, SessionConflict(rs) PROVE ServingIsRegistered'
  BY <1>11 DEF SessionConflict
<1>12. ASSUME NEW rs \in RunnerSets, SessionFails(rs) PROVE ServingIsRegistered'
  BY <1>12 DEF SessionFails
<1>13. ASSUME NEW rs \in RunnerSets, StartSucceeds(rs) PROVE ServingIsRegistered'
  <2>1. PICK l \in Listeners : Manager!StartListener(WantedKey(rs), l)
    BY <1>13 DEF StartSucceeds
  <2>2. WantedKey(rs) \in Keys /\ assigned' = assigned
    BY <1>13, Fields DEF StartSucceeds, WantedKey
  <2> QED
    BY <2>1, <2>2, ReconcilerAssumption DEF Manager!StartListener, Manager!HasListener
<1>14. ASSUME NEW rs \in RunnerSets, StartFails(rs) PROVE ServingIsRegistered'
  BY <1>14 DEF StartFails
<1>15. ASSUME NEW rs \in RunnerSets, AnnotateUpdates(rs) PROVE ServingIsRegistered'
  BY <1>15 DEF AnnotateUpdates
<1>15a. ASSUME NEW rs \in RunnerSets, AnnotateFetches(rs) PROVE ServingIsRegistered'
  BY <1>15a DEF AnnotateFetches, Goto
<1>16. ASSUME NEW rs \in RunnerSets, AnnotateFails(rs) PROVE ServingIsRegistered'
  BY <1>16 DEF AnnotateFails
<1>17. ASSUME NEW l \in Listeners, ListenerSignals(l) PROVE ServingIsRegistered'
  BY <1>17 DEF ListenerSignals, Manager!WatchStop, Manager!RunCancelled,
         Manager!RunReturns, Manager!managerVars
<1>18. ASSUME NEW l \in Listeners, ListenerRefused(l) PROVE ServingIsRegistered'
  BY <1>18 DEF ListenerRefused, Manager!RunFails, Manager!RunReturns,
         Manager!managerVars
<1>19. ASSUME NEW l \in Listeners, ListenerEnds(l) PROVE ServingIsRegistered'
  <2> SUFFICES ASSUME assigned' <= 1, NEW m \in Listeners, goroutine'[m] = "running", ~stopCh'[m]
               PROVE  listeners'[key'[m]] = m
    OBVIOUS
  <2>1. /\ goroutine[l] = "returned" /\ goroutine' = [goroutine EXCEPT ![l] = "none"]
        /\ assigned' = assigned
    BY <1>19 DEF ListenerEnds, Manager!Deregister
  <2>2. m # l /\ goroutine[m] = "running"
    BY <2>1
  (* The only scale set has only one listener. *)
  <2>3. started[m].id = started[l].id
    <3>1. assigned \in Nat /\ assigned <= 1
      BY <2>1, ReconcilerAssumption
    <3>2. started[m].id \in 1 .. assigned /\ started[l].id \in 1 .. assigned
      BY <2>1, <2>2 DEF SessionInv, AssignedIds
    <3>3. \A i \in 1 .. assigned : i = 1
      BY <3>1
    <3> QED
      BY <3>2, <3>3, Zenon
  <2>4. m = l
    BY <2>1, <2>2, <2>3 DEF SessionInv, OneListenerPerScaleSet
  <2> QED
    BY <2>2, <2>4
<1>20. ASSUME NEW l \in Listeners, ListenerFails(l) PROVE ServingIsRegistered'
  BY <1>20 DEF ListenerFails, Manager!RunFails, Manager!RunReturns, Manager!managerVars
<1>21. ASSUME NEW i \in Ids, SessionExpires(i) PROVE ServingIsRegistered'
  BY <1>21 DEF SessionExpires
<1>22. ASSUME NEW rs \in RunnerSets, CreateRunnerSet(rs) PROVE ServingIsRegistered'
  BY <1>22 DEF CreateRunnerSet, Changed
<1>23. ASSUME NEW rs \in RunnerSets, EditRunnerSet(rs) PROVE ServingIsRegistered'
  BY <1>23 DEF EditRunnerSet, Changed
<1>24. ASSUME NEW rs \in RunnerSets, DeleteRunnerSet(rs) PROVE ServingIsRegistered'
  BY <1>24 DEF DeleteRunnerSet, Changed
<1>25. CASE AutoscaleSetChanges
  BY <1>25 DEF AutoscaleSetChanges, Lifecycle!Create, Lifecycle!Edit, Lifecycle!Delete,
         Lifecycle!Remove
<1>26. CASE AutoscaleSetRecords
  BY <1>26, ReconcilerAssumption DEF AutoscaleSetRecords, Lifecycle!Record
<1>27. CASE Crash
  BY <1>27 DEF Crash
<1>28. CASE UNCHANGED vars
  BY <1>28 DEF vars
<1> QED
  BY <1>1, <1>2, <1>3, <1>4, <1>5, <1>6, <1>7, <1>8, <1>9, <1>10, <1>11, <1>12, <1>13,
     <1>14, <1>15, <1>15a, <1>16, <1>17, <1>18, <1>19, <1>20, <1>21, <1>22, <1>23, <1>24,
     <1>25, <1>26, <1>27, <1>28
     DEF Next, Reconcile, ListenerStep, User

(* With one scale set, the map has one entry, and its listener holds the
   session. *)
LEMMA OneEntry ==
    ASSUME TypeOK, Manager!RegisteredIsLive, SessionInv, assigned <= 1,
           NEW k \in Keys, Manager!HasListener(k)
    PROVE  /\ started[listeners[k]].id = 1 /\ session[1] = "held"
           /\ \A j \in Keys : Manager!HasListener(j) => j = k
<1>1. ASSUME NEW j \in Keys, Manager!HasListener(j)
      PROVE  /\ listeners[j] \in Listeners /\ goroutine[listeners[j]] # "none"
             /\ key[listeners[j]] = j
             /\ started[listeners[j]].id = 1 /\ session[started[listeners[j]].id] = "held"
  <2>1. /\ listeners[j] \in Listeners /\ goroutine[listeners[j]] # "none"
        /\ key[listeners[j]] = j
    BY <1>1 DEF TypeOK, Manager!TypeOK, Manager!RegisteredIsLive, Manager!HasListener
  <2>2. started[listeners[j]].id \in 1 .. assigned
    BY <2>1 DEF SessionInv, AssignedIds
  <2>3. assigned \in Nat
    BY ReconcilerAssumption DEF TypeOK
  <2>4. \A i \in 1 .. assigned : i = 1
    BY <2>3
  <2> QED
    BY <2>1, <2>2, <2>4 DEF SessionInv, SessionOwned
<1>2. ASSUME NEW j \in Keys, Manager!HasListener(j) PROVE j = k
  BY <1>1, <1>2 DEF SessionInv, OneListenerPerScaleSet
<1> QED
  BY <1>1, <1>2

(* An edit does not move the RunnerSet to another runner group. *)
LEMMA EditKeepsKey ==
    ASSUME GroupsFixed, TypeOK, NEW rs \in RunnerSets, EditRunnerSet(rs)
    PROVE  rset'[rs].key = rset[rs].key
<1>1. rset[rs].key \in Keys /\ rset'[rs].key \in Keys /\ rset[rs].template \in Nat
  BY Fields, Edited DEF TypeOK
<1>2. rset[rs].template < MaxEdits
  BY DEF EditRunnerSet
<1>3. MaxEdits # 0
  BY <1>1, <1>2
<1> QED
  BY <1>1, <1>3 DEF GroupsFixed

(* A reconcile works with the key that its RunnerSet still has. *)
LEMMA KeyStep ==
    ASSUME GroupsFixed, TypeOK, FinalizerFirst, KeyKept, [Next]_vars PROVE KeyKept'
<1> USE NothingSet, Nothing, Fields
        DEF TypeOK, KeyKept, WantedKey, KeyOf, managerVars, asetVars, objectVars, workerVars
<1>1. ASSUME NEW rs \in RunnerSets, ReconcileGone(rs) PROVE KeyKept'
  BY <1>1 DEF ReconcileGone
<1>2. ASSUME NEW rs \in RunnerSets, ReconcileAddsFinalizer(rs) PROVE KeyKept'
  BY <1>2, WithFinalizer DEF ReconcileAddsFinalizer
<1>3. ASSUME NEW rs \in RunnerSets, ReconcileWaits(rs) PROVE KeyKept'
  BY <1>3, Waited, Reported DEF ReconcileWaits
<1>4. ASSUME NEW rs \in RunnerSets, ReconcileUpToDate(rs) PROVE KeyKept'
  BY <1>4, Reported DEF ReconcileUpToDate
<1>5. ASSUME NEW rs \in RunnerSets, ReconcileContinues(rs) PROVE KeyKept'
  BY <1>5 DEF ReconcileContinues, Fetched, Goto
<1>6. ASSUME NEW rs \in RunnerSets, ReconcileDeletes(rs) PROVE KeyKept'
  BY <1>6 DEF ReconcileDeletes, Fetched, Goto
<1>7. ASSUME NEW rs \in RunnerSets, Unfinalize(rs) PROVE KeyKept'
  BY <1>7 DEF Unfinalize, Return, Goto
<1>8. ASSUME NEW rs \in RunnerSets, RolloutStops(rs) PROVE KeyKept'
  BY <1>8 DEF RolloutStops, Goto
<1>9. ASSUME NEW rs \in RunnerSets, RolloutRecords(rs) PROVE KeyKept'
  <2>1. /\ rset'[rs].state = rset[rs].state /\ rset'[rs].key = rset[rs].key
        /\ rset'[rs].finalizer = rset[rs].finalizer
        /\ rset'[rs].template = rset[rs].template /\ rset'[rs].ready = rset[rs].ready
        /\ \A o \in RunnerSets \ {rs} : rset'[o] = rset[o]
    BY <1>9, Recorded
  <2>2. /\ pc[rs] = "record" /\ pc' = [pc EXCEPT ![rs] = "session"] /\ snap' = snap
        /\ queued' = queued /\ (failures' = 0 => failures = 0)
    BY <1>9 DEF RolloutRecords, Goto, Fail
  <2> QED
    BY <2>1, <2>2
<1>10. ASSUME NEW rs \in RunnerSets, OpenSession(rs) PROVE KeyKept'
  BY <1>10 DEF OpenSession, Goto
<1>11. ASSUME NEW rs \in RunnerSets, SessionConflict(rs) PROVE KeyKept'
  <2>1. rset' = [rset EXCEPT ![rs].ready = "true"] \/ rset' = rset
    BY <1>11 DEF SessionConflict, ReturnStatus
  <2>2. pc' = [pc EXCEPT ![rs] = "idle"] /\ snap' = [snap EXCEPT ![rs] = NoSnap]
    BY <1>11 DEF SessionConflict, ReturnStatus, Return, Goto
  <2> QED
    BY <2>1, <2>2, Reported
<1>12. ASSUME NEW rs \in RunnerSets, SessionFails(rs) PROVE KeyKept'
  BY <1>12, Reported DEF SessionFails, ReturnStatus, Return, Goto
<1>13. ASSUME NEW rs \in RunnerSets, StartSucceeds(rs) PROVE KeyKept'
  BY <1>13 DEF StartSucceeds, Goto
<1>14. ASSUME NEW rs \in RunnerSets, StartFails(rs) PROVE KeyKept'
  BY <1>14, Reported DEF StartFails, ReturnStatus, Return, Goto
<1>15. ASSUME NEW rs \in RunnerSets, AnnotateUpdates(rs) PROVE KeyKept'
  <2>1. rset'[rs].key = rset[rs].key /\ \A o \in RunnerSets \ {rs} : rset'[o] = rset[o]
    BY <1>15, Annotated
  <2>2. pc' = [pc EXCEPT ![rs] = "idle"] /\ snap' = [snap EXCEPT ![rs] = NoSnap]
    BY <1>15 DEF AnnotateUpdates, Return, Goto
  <2> QED
    BY <2>1, <2>2
<1>15a. ASSUME NEW rs \in RunnerSets, AnnotateFetches(rs) PROVE KeyKept'
  BY <1>15a, Refetched DEF AnnotateFetches, Goto
<1>16. ASSUME NEW rs \in RunnerSets, AnnotateFails(rs) PROVE KeyKept'
  BY <1>16 DEF AnnotateFails, Return, Goto
<1>17. ASSUME NEW l \in Listeners, ListenerSignals(l) PROVE KeyKept'
  BY <1>17 DEF ListenerSignals
<1>18. ASSUME NEW l \in Listeners, ListenerRefused(l) PROVE KeyKept'
  BY <1>18 DEF ListenerRefused
<1>19. ASSUME NEW l \in Listeners, ListenerEnds(l) PROVE KeyKept'
  BY <1>19 DEF ListenerEnds
<1>20. ASSUME NEW l \in Listeners, ListenerFails(l) PROVE KeyKept'
  BY <1>20 DEF ListenerFails
<1>21. ASSUME NEW i \in Ids, SessionExpires(i) PROVE KeyKept'
  BY <1>21 DEF SessionExpires
<1>22. ASSUME NEW rs \in RunnerSets, CreateRunnerSet(rs) PROVE KeyKept'
  <2>1. \A o \in RunnerSets \ {rs} : rset'[o] = rset[o]
    BY <1>22, Created
  <2>2. pc[rs] = "idle" /\ UNCHANGED <<pc, snap>>
    BY <1>22 DEF CreateRunnerSet, Changed
  <2> QED
    BY <2>1, <2>2
<1>23. ASSUME NEW rs \in RunnerSets, EditRunnerSet(rs) PROVE KeyKept'
  <2>1. rset'[rs].key = rset[rs].key
    BY <1>23, EditKeepsKey DEF TypeOK
  <2>2. \A o \in RunnerSets \ {rs} : rset'[o] = rset[o]
    BY <1>23, Edited
  <2>3. UNCHANGED <<pc, snap>>
    BY <1>23 DEF EditRunnerSet, Changed
  <2> QED
    BY <2>1, <2>2, <2>3
<1>24. ASSUME NEW rs \in RunnerSets, DeleteRunnerSet(rs) PROVE KeyKept'
  <2>1. pc[rs] # "idle" => rset'[rs].key = rset[rs].key
    BY <1>24, WithDeletion DEF DeleteRunnerSet, Changed, FinalizerFirst
  <2>2. (\A o \in RunnerSets \ {rs} : rset'[o] = rset[o]) /\ UNCHANGED <<pc, snap>>
    BY <1>24 DEF DeleteRunnerSet, Changed
  <2> QED
    BY <2>1, <2>2
<1>25. CASE AutoscaleSetChanges
  BY <1>25 DEF AutoscaleSetChanges
<1>26. CASE AutoscaleSetRecords
  BY <1>26 DEF AutoscaleSetRecords
<1>27. CASE Crash
  BY <1>27 DEF Crash
<1>28. CASE UNCHANGED vars
  BY <1>28 DEF vars
<1> QED
  BY <1>1, <1>2, <1>3, <1>4, <1>5, <1>6, <1>7, <1>8, <1>9, <1>10, <1>11, <1>12, <1>13,
     <1>14, <1>15, <1>15a, <1>16, <1>17, <1>18, <1>19, <1>20, <1>21, <1>22, <1>23, <1>24,
     <1>25, <1>26, <1>27, <1>28
     DEF Next, Reconcile, ListenerStep, User

(* As long as the first scale set is recorded, a RunnerSet that is not on its way
   out has the key of every listener. *)
LEMMA AttendedStep ==
    ASSUME GroupsFixed, TypeOK, Manager!RegisteredIsLive, FinalizerFirst, SessionInv, KeyKept,
           Attended, [Next]_vars
    PROVE  Attended'
<1> SUFFICES ASSUME assigned' <= 1, aset'.id # NoId, NEW k \in Keys, Manager!HasListener(k)'
             PROVE  \E w \in RunnerSets :
                       (KeyOf(w) = k /\ rset[w].finalizer /\ pc[w] # "unfinalize")'
  BY DEF Attended
<1> DEFINE Attends(w) == KeyOf(w) = k /\ rset[w].finalizer /\ pc[w] # "unfinalize"
           AttendsStill == \E w \in RunnerSets : Attends(w)'
<1>0. ASSUME Manager!HasListener(k), assigned' = assigned, aset'.id = aset.id
      PROVE  \E w \in RunnerSets : Attends(w)
  BY <1>0 DEF Attended
<1> USE NothingSet, Nothing
        DEF TypeOK, Manager!TypeOK, Manager!HasListener, KeyOf,
            managerVars, asetVars, objectVars, workerVars
<1>1. ASSUME NEW rs \in RunnerSets, ReconcileGone(rs) PROVE AttendsStill
  <2>1. PICK w \in RunnerSets : Attends(w)
    BY <1>1, <1>0 DEF ReconcileGone
  <2>2. rset'[w].key = rset[w].key /\ rset'[w].finalizer
    BY <1>1, <2>1 DEF ReconcileGone
  <2>3. pc'[w] = pc[w]
    BY <1>1 DEF ReconcileGone
  <2> QED
    BY <2>1, <2>2, <2>3
<1>2. ASSUME NEW rs \in RunnerSets, ReconcileAddsFinalizer(rs) PROVE AttendsStill
  <2>1. PICK w \in RunnerSets : Attends(w)
    BY <1>2, <1>0 DEF ReconcileAddsFinalizer
  <2>2. rset'[w].key = rset[w].key /\ rset'[w].finalizer
    BY <1>2, <2>1, WithFinalizer DEF ReconcileAddsFinalizer
  <2>3. pc'[w] = pc[w]
    BY <1>2 DEF ReconcileAddsFinalizer
  <2> QED
    BY <2>1, <2>2, <2>3
<1>3. ASSUME NEW rs \in RunnerSets, ReconcileWaits(rs) PROVE AttendsStill
  <2>1. PICK w \in RunnerSets : Attends(w)
    BY <1>3, <1>0 DEF ReconcileWaits
  <2>2. rset'[w].key = rset[w].key /\ rset'[w].finalizer
    <3>1. PICK r \in {"unknown", "true", "false"} : rset' = [rset EXCEPT ![rs].ready = r]
      BY <1>3, Waited
    <3>2. rset'[w].key = rset[w].key /\ rset'[w].finalizer = rset[w].finalizer
      BY <3>1, Reported
    <3>3. QED
      BY <2>1, <3>2
  <2>3. pc'[w] = pc[w]
    BY <1>3 DEF ReconcileWaits
  <2> QED
    BY <2>1, <2>2, <2>3
<1>4. ASSUME NEW rs \in RunnerSets, ReconcileUpToDate(rs) PROVE AttendsStill
  <2>1. PICK w \in RunnerSets : Attends(w)
    BY <1>4, <1>0 DEF ReconcileUpToDate
  <2>2. rset'[w].key = rset[w].key /\ rset'[w].finalizer
    BY <1>4, <2>1, Reported DEF ReconcileUpToDate
  <2>3. pc'[w] = pc[w]
    BY <1>4 DEF ReconcileUpToDate
  <2> QED
    BY <2>1, <2>2, <2>3
<1>5. ASSUME NEW rs \in RunnerSets, ReconcileContinues(rs) PROVE AttendsStill
  <2>1. PICK w \in RunnerSets : Attends(w)
    BY <1>5, <1>0 DEF ReconcileContinues
  <2>2. rset'[w].key = rset[w].key /\ rset'[w].finalizer
    BY <1>5, <2>1 DEF ReconcileContinues
  <2>3. pc'[w] \in {pc[w], "stop", "session"}
    BY <1>5 DEF ReconcileContinues, Goto
  <2> QED
    BY <2>1, <2>2, <2>3
<1>6. ASSUME NEW rs \in RunnerSets, ReconcileDeletes(rs) PROVE AttendsStill
  <2>1. KeyOf(rs) \in Keys
    BY Fields DEF KeyOf
  <2>2. \A j \in Keys : listeners'[j] \in {listeners[j], NoListener}
    BY <1>6, <2>1, StopKeeps DEF ReconcileDeletes
  <2>3. PICK w \in RunnerSets : Attends(w)
    BY <1>6, <1>0, <2>2 DEF ReconcileDeletes
  (* The RunnerSet that goes stops the listener of its key. *)
  <2>4. listeners'[KeyOf(rs)] = NoListener
    BY <1>6, <2>1, StopKeeps DEF ReconcileDeletes
  <2>5. w # rs
    BY <2>3, <2>4 DEF KeyOf
  <2> QED
    BY <1>6, <2>3, <2>5 DEF ReconcileDeletes, Goto
<1>7. ASSUME NEW rs \in RunnerSets, Unfinalize(rs) PROVE AttendsStill
  <2>1. PICK w \in RunnerSets : Attends(w)
    BY <1>7, <1>0 DEF Unfinalize
  <2>2. w # rs /\ rset'[w] = rset[w] /\ pc'[w] = pc[w]
    BY <1>7, <2>1 DEF Unfinalize, Return, Goto
  <2> QED
    BY <2>1, <2>2
<1>8. ASSUME NEW rs \in RunnerSets, RolloutStops(rs) PROVE AttendsStill
  <2>1. snap[rs].rs.key \in Keys
    BY Fields
  <2>2. \A j \in Keys : listeners'[j] \in {listeners[j], NoListener}
    BY <1>8, <2>1, StopKeeps DEF RolloutStops
  <2>3. PICK w \in RunnerSets : Attends(w)
    BY <1>8, <1>0, <2>2 DEF RolloutStops
  <2> QED
    BY <1>8, <2>3 DEF RolloutStops, Goto
<1>9. ASSUME NEW rs \in RunnerSets, RolloutRecords(rs) PROVE AttendsStill
  <2>1. PICK w \in RunnerSets : Attends(w)
    BY <1>9, <1>0 DEF RolloutRecords
  <2>2. rset'[w].key = rset[w].key /\ rset'[w].finalizer
    BY <1>9, <2>1, Recorded DEF RolloutRecords
  <2>3. pc'[w] \in {pc[w], "session"}
    BY <1>9 DEF RolloutRecords, Goto
  <2> QED
    BY <2>1, <2>2, <2>3
<1>10. ASSUME NEW rs \in RunnerSets, OpenSession(rs) PROVE AttendsStill
  <2>1. PICK w \in RunnerSets : Attends(w)
    BY <1>10, <1>0 DEF OpenSession
  <2>2. rset'[w].key = rset[w].key /\ rset'[w].finalizer
    BY <1>10, <2>1 DEF OpenSession
  <2>3. pc'[w] \in {pc[w], "start"}
    BY <1>10 DEF OpenSession, Goto
  <2> QED
    BY <2>1, <2>2, <2>3
<1>11. ASSUME NEW rs \in RunnerSets, SessionConflict(rs) PROVE AttendsStill
  <2>1. PICK w \in RunnerSets : Attends(w)
    BY <1>11, <1>0 DEF SessionConflict
  <2>2. rset' = [rset EXCEPT ![rs].ready = "true"] \/ rset' = rset
    BY <1>11 DEF SessionConflict, ReturnStatus
  <2>3. rset'[w].key = rset[w].key /\ rset'[w].finalizer
    <3>1. CASE rset' = [rset EXCEPT ![rs].ready = "true"]
      BY <2>1, <3>1, Reported
    <3>2. CASE rset' = rset
      BY <2>1, <3>2
    <3> QED
      BY <2>2, <3>1, <3>2
  <2>4. pc'[w] \in {pc[w], "idle"}
    BY <1>11 DEF SessionConflict, ReturnStatus, Return, Goto
  <2> QED
    BY <2>1, <2>3, <2>4
<1>12. ASSUME NEW rs \in RunnerSets, SessionFails(rs) PROVE AttendsStill
  <2>1. PICK w \in RunnerSets : Attends(w)
    BY <1>12, <1>0 DEF SessionFails
  <2>2. rset'[w].key = rset[w].key /\ rset'[w].finalizer
    BY <1>12, <2>1, Reported DEF SessionFails, ReturnStatus
  <2>3. pc'[w] \in {pc[w], "idle"}
    BY <1>12 DEF SessionFails, ReturnStatus, Return, Goto
  <2> QED
    BY <2>1, <2>2, <2>3
<1>13. ASSUME NEW rs \in RunnerSets, StartSucceeds(rs) PROVE AttendsStill
  <2>1. PICK l \in Listeners : Manager!StartListener(WantedKey(rs), l)
    BY <1>13 DEF StartSucceeds
  <2>2. pc[rs] = "start" /\ pc' = [pc EXCEPT ![rs] = "annotate"] /\ rset' = rset
    BY <1>13 DEF StartSucceeds, Goto
  (* The RunnerSet that started it attends to it. *)
  <2>3. CASE k = WantedKey(rs)
    <3>1. KeyOf(rs) = k /\ rset[rs].finalizer
      BY <2>2, <2>3 DEF KeyKept, FinalizerFirst
    <3> QED
      BY <2>2, <3>1
  <2>4. CASE k # WantedKey(rs)
    <3>1. listeners'[k] = listeners[k]
      BY <2>1, <2>4 DEF Manager!StartListener
    <3>2. PICK w \in RunnerSets : Attends(w)
      BY <1>13, <1>0, <3>1 DEF StartSucceeds
    <3> QED
      BY <2>2, <3>2
  <2> QED
    BY <2>3, <2>4
<1>14. ASSUME NEW rs \in RunnerSets, StartFails(rs) PROVE AttendsStill
  <2>1. PICK w \in RunnerSets : Attends(w)
    BY <1>14, <1>0 DEF StartFails
  <2>2. rset'[w].key = rset[w].key /\ rset'[w].finalizer
    BY <1>14, <2>1, Reported DEF StartFails, ReturnStatus
  <2>3. pc'[w] \in {pc[w], "idle"}
    BY <1>14 DEF StartFails, ReturnStatus, Return, Goto
  <2> QED
    BY <2>1, <2>2, <2>3
<1>15. ASSUME NEW rs \in RunnerSets, AnnotateUpdates(rs) PROVE AttendsStill
  <2>1. PICK w \in RunnerSets : Attends(w)
    BY <1>15, <1>0 DEF AnnotateUpdates
  <2>2. rset'[w].key = rset[w].key /\ rset'[w].finalizer
    BY <1>15, <2>1, Annotated
  <2>3. pc'[w] \in {pc[w], "idle"}
    BY <1>15 DEF AnnotateUpdates, Return, Goto
  <2> QED
    BY <2>1, <2>2, <2>3
<1>15a. ASSUME NEW rs \in RunnerSets, AnnotateFetches(rs) PROVE AttendsStill
  <2>1. PICK w \in RunnerSets : Attends(w)
    BY <1>15a, <1>0 DEF AnnotateFetches
  <2>2. rset'[w].key = rset[w].key /\ rset'[w].finalizer
    BY <1>15a, <2>1 DEF AnnotateFetches
  <2>3. pc'[w] \in {pc[w], "update"}
    BY <1>15a DEF AnnotateFetches, Goto
  <2> QED
    BY <2>1, <2>2, <2>3
<1>16. ASSUME NEW rs \in RunnerSets, AnnotateFails(rs) PROVE AttendsStill
  <2>1. PICK w \in RunnerSets : Attends(w)
    BY <1>16, <1>0 DEF AnnotateFails
  <2>2. rset'[w].key = rset[w].key /\ rset'[w].finalizer
    BY <1>16, <2>1 DEF AnnotateFails
  <2>3. pc'[w] \in {pc[w], "idle"}
    BY <1>16 DEF AnnotateFails, Return, Goto
  <2> QED
    BY <2>1, <2>2, <2>3
<1>17. ASSUME NEW l \in Listeners, ListenerSignals(l) PROVE AttendsStill
  <2>1. UNCHANGED <<listeners, rset, pc, asetVars>>
    BY <1>17 DEF ListenerSignals, Manager!WatchStop, Manager!RunCancelled, Manager!RunReturns,
             Manager!managerVars
  <2> QED
    BY <1>0, <2>1
<1>18. ASSUME NEW l \in Listeners, ListenerRefused(l) PROVE AttendsStill
  <2>1. UNCHANGED <<listeners, rset, pc, asetVars>>
    BY <1>18 DEF ListenerRefused, Manager!RunFails, Manager!RunReturns,
             Manager!managerVars
  <2> QED
    BY <1>0, <2>1
<1>19. ASSUME NEW l \in Listeners, ListenerEnds(l) PROVE AttendsStill
  <2>1. \A j \in Keys : listeners'[j] \in {listeners[j], NoListener}
    BY <1>19, EndKeeps DEF ListenerEnds
  <2>2. UNCHANGED <<rset, pc, asetVars>>
    BY <1>19 DEF ListenerEnds
  <2> QED
    BY <1>0, <2>1, <2>2
<1>20. ASSUME NEW l \in Listeners, ListenerFails(l) PROVE AttendsStill
  <2>1. UNCHANGED <<listeners, rset, pc, asetVars>>
    BY <1>20 DEF ListenerFails, Manager!RunFails, Manager!RunReturns,
             Manager!managerVars
  <2> QED
    BY <1>0, <2>1
<1>21. ASSUME NEW i \in Ids, SessionExpires(i) PROVE AttendsStill
  BY <1>21, <1>0 DEF SessionExpires
<1>22. ASSUME NEW rs \in RunnerSets, CreateRunnerSet(rs) PROVE AttendsStill
  <2>1. PICK w \in RunnerSets : Attends(w)
    BY <1>22, <1>0 DEF CreateRunnerSet, Changed
  <2>2. w # rs
    BY <1>22, <2>1 DEF CreateRunnerSet, FinalizerFirst
  <2>3. rset'[w] = rset[w]
    BY <1>22, <2>2, Created
  <2>4. pc' = pc
    BY <1>22 DEF CreateRunnerSet, Changed
  <2> QED
    BY <2>1, <2>3, <2>4
<1>23. ASSUME NEW rs \in RunnerSets, EditRunnerSet(rs) PROVE AttendsStill
  <2>1. PICK w \in RunnerSets : Attends(w)
    BY <1>23, <1>0 DEF EditRunnerSet, Changed
  <2>2. rset'[rs].key = rset[rs].key
    BY <1>23, EditKeepsKey DEF TypeOK
  <2>3. rset'[w].key = rset[w].key /\ rset'[w].finalizer = rset[w].finalizer
    BY <1>23, <2>2, Edited
  <2>4. pc' = pc
    BY <1>23 DEF EditRunnerSet, Changed
  <2> QED
    BY <2>1, <2>3, <2>4
<1>24. ASSUME NEW rs \in RunnerSets, DeleteRunnerSet(rs) PROVE AttendsStill
  <2>1. PICK w \in RunnerSets : Attends(w)
    BY <1>24, <1>0 DEF DeleteRunnerSet, Changed
  <2>2. rset'[w].key = rset[w].key /\ rset'[w].finalizer
    BY <1>24, <2>1, WithDeletion DEF DeleteRunnerSet, Changed
  <2>3. pc' = pc
    BY <1>24 DEF DeleteRunnerSet, Changed
  <2> QED
    BY <2>1, <2>2, <2>3
<1>25. CASE AutoscaleSetChanges
  <2>1. aset'.id \in {aset.id, NoId} /\ assigned' = assigned
    BY <1>25 DEF AutoscaleSetChanges, Lifecycle!Create, Lifecycle!Edit, Lifecycle!Delete,
             Lifecycle!Remove, Lifecycle!NoObject, NoId, Lifecycle!AutoscaleSetObject
  <2>2. UNCHANGED <<listeners, rset, pc>>
    BY <1>25 DEF AutoscaleSetChanges
  <2> QED
    BY <1>0, <2>1, <2>2
<1>26. CASE AutoscaleSetRecords
  (* There was no scale set, and so no listener. *)
  <2>1. assigned' = assigned + 1 /\ listeners' = listeners
    BY <1>26 DEF AutoscaleSetRecords, Lifecycle!Record
  <2>2. assigned \in Nat
    BY ReconcilerAssumption
  <2>3. assigned = 0
    BY <2>1, <2>2
  <2>4. /\ started[listeners[k]].id = 1
        /\ listeners[k] \in Listeners /\ goroutine[listeners[k]] # "none"
    BY <2>1, <2>3, OneEntry DEF Manager!RegisteredIsLive
  <2>5. started[listeners[k]].id \in 1 .. assigned
    BY <2>4 DEF SessionInv, AssignedIds
  <2> QED
    BY <2>3, <2>5
<1>27. CASE Crash
  BY <1>27 DEF Crash
<1>28. CASE UNCHANGED vars
  BY <1>0, <1>28 DEF vars
<1> QED
  BY <1>1, <1>2, <1>3, <1>4, <1>5, <1>6, <1>7, <1>8, <1>9, <1>10, <1>11, <1>12, <1>13,
     <1>14, <1>15, <1>15a, <1>16, <1>17, <1>18, <1>19, <1>20, <1>21, <1>22, <1>23, <1>24,
     <1>25, <1>26, <1>27, <1>28
     DEF Next, Reconcile, ListenerStep, User

(* Nothing is there in the beginning. *)
LEMMA ReconcilerInit ==
    ASSUME Init
    PROVE  ReconcilerInv /\ ServingIsRegistered /\ NeverForgotten /\ KeyKept /\ Attended
<1> USE Nothing, NothingSet, Fields, ReconcilerAssumption
        DEF Init, Manager!Init, Lifecycle!Init, Manager!HasListener
<1>1. Manager!TypeOK
  <2>1. stopCh \in [Listeners -> BOOLEAN] /\ runCtx \in [Listeners -> BOOLEAN] /\ mgrCtx \in BOOLEAN
    BY Zenon
  <2>2. stopAll \in [pc : {"waiting", "looping", "done"}, left : SUBSET Listeners]
    OBVIOUS
  <2> QED
    BY <2>1, <2>2 DEF Manager!TypeOK, Manager!GoroutineStates
<1>2. TypeOK
  BY <1>1 DEF TypeOK
<1>3. Manager!RegisteredIsLive /\ NoRival /\ Attended
  BY DEF Manager!RegisteredIsLive, NoRival, Starting, Attended
<1>4. FinalizerFirst /\ KeyKept
  BY DEF FinalizerFirst, KeyKept
<1>5. AssignedIds
  <2>1. aset.id = 0 /\ assigned = 0
    OBVIOUS
  <2>2. \A rs \in RunnerSets : ScaleSetOf(rs) = 0 /\ pc[rs] = "idle"
    BY DEF ScaleSetOf
  <2>3. \A l \in Listeners : goroutine[l] = "none"
    OBVIOUS
  <2> QED
    BY <2>1, <2>2, <2>3 DEF AssignedIds, Starting
<1>6. SessionOwned /\ OneStarter /\ OneListenerPerScaleSet
  BY DEF SessionOwned, OneStarter, OneListenerPerScaleSet
<1>7. ServingIsRegistered /\ NeverForgotten
  BY DEF ServingIsRegistered, NeverForgotten
<1> QED
  BY <1>2, <1>3, <1>4, <1>5, <1>6, <1>7 DEF ReconcilerInv, SessionInv

(* The invariants of the controller, its listeners and their sessions are
   inductive together. *)
THEOREM ReconcilerInvariant == Spec => []ReconcilerInv
<1>1. Init => ReconcilerInv
  BY ReconcilerInit
<1>2. ReconcilerInv /\ [Next]_vars => ReconcilerInv'
  <2> SUFFICES ASSUME ReconcilerInv, [Next]_vars PROVE ReconcilerInv'
    OBVIOUS
  <2>1. TypeOK' /\ Manager!RegisteredIsLive'
    BY TypeStep, RegisteredStep DEF ReconcilerInv
  <2>2. FinalizerFirst' /\ NoRival'
    BY FinalizerStep, NoRivalStep DEF ReconcilerInv
  <2>3. SessionInv'
    BY AssignedStep, SessionStep DEF ReconcilerInv, SessionInv
  <2> QED
    BY <2>1, <2>2, <2>3 DEF ReconcilerInv
<1> QED
  BY <1>1, <1>2, PTL DEF Spec

(* Every variable of the controller, and of the manager it drives, keeps its
   type. *)
THEOREM ReconcilerTypes == Spec => []TypeOK
<1>1. ReconcilerInv => TypeOK
  BY DEF ReconcilerInv
<1> QED
  BY <1>1, ReconcilerInvariant, PTL

(* Two listeners never poll one scale set, however many RunnerSets and runner
   groups refer to it, and however late the goroutine of a stopped one ends. *)
THEOREM ListenersExclude == Spec => []OneListenerPerScaleSet
<1>1. ReconcilerInv => OneListenerPerScaleSet
  BY DEF ReconcilerInv, SessionInv
<1> QED
  BY <1>1, ReconcilerInvariant, PTL

(* Before there is a second scale set, a listener that serves is in the map, so
   that a rollout or a deletion finds it. *)
THEOREM ServingCorrect == Spec => []ServingIsRegistered
<1>1. Init => ServingIsRegistered
  BY ReconcilerInit
<1>2. ReconcilerInv /\ ServingIsRegistered /\ [Next]_vars => ServingIsRegistered'
  BY ServingStep DEF ReconcilerInv
<1> QED
  BY <1>1, <1>2, ReconcilerInvariant, PTL DEF Spec

(* The request of a RunnerSet that was noticed is never lost. *)
THEOREM RequestsKept == Spec => []NeverForgotten
<1>1. Init => NeverForgotten
  BY ReconcilerInit
<1>2. ReconcilerInv /\ NeverForgotten /\ [Next]_vars => NeverForgotten'
  BY NeverForgottenStep DEF ReconcilerInv
<1> QED
  BY <1>1, <1>2, ReconcilerInvariant, PTL DEF Spec

(* No update of the controller undoes an edit of a RunnerSet's template. *)
THEOREM TemplatesKept == Spec => EditsKept
<1>1. ReconcilerInv /\ [Next]_vars
      => [\A rs \in RunnerSets :
             rset'[rs].state # "absent" => rset'[rs].template >= rset[rs].template]_vars
  BY TemplateStep DEF ReconcilerInv
<1> QED
  BY <1>1, ReconcilerInvariant, PTL DEF Spec, EditsKept

(* A reconcile that is about to remove the finalizer ends with that, or with the
   operator. *)
LEMMA UnfinalizeEnds ==
    ASSUME TypeOK, [Next]_vars, NEW o \in RunnerSets, pc[o] = "unfinalize"
    PROVE  pc'[o] = "unfinalize" \/ Unfinalize(o) \/ Crash
<1> DEFINE Leaves == pc'[o] = "unfinalize" \/ Unfinalize(o) \/ Crash
<1> USE DEF TypeOK, workerVars
<1>1. ASSUME NEW rs \in RunnerSets, ReconcileGone(rs) PROVE Leaves
  BY <1>1 DEF ReconcileGone
<1>2. ASSUME NEW rs \in RunnerSets, ReconcileAddsFinalizer(rs) PROVE Leaves
  BY <1>2 DEF ReconcileAddsFinalizer
<1>3. ASSUME NEW rs \in RunnerSets, ReconcileWaits(rs) PROVE Leaves
  BY <1>3 DEF ReconcileWaits
<1>4. ASSUME NEW rs \in RunnerSets, ReconcileUpToDate(rs) PROVE Leaves
  BY <1>4 DEF ReconcileUpToDate
<1>5. ASSUME NEW rs \in RunnerSets, ReconcileContinues(rs) PROVE Leaves
  BY <1>5 DEF ReconcileContinues, BeginReconcile, Goto
<1>6. ASSUME NEW rs \in RunnerSets, ReconcileDeletes(rs) PROVE Leaves
  BY <1>6 DEF ReconcileDeletes, BeginReconcile, Goto
<1>7. ASSUME NEW rs \in RunnerSets, Unfinalize(rs) PROVE Leaves
  <2>1. CASE rs = o
    BY <1>7, <2>1
  <2>2. CASE rs # o
    BY <1>7, <2>2 DEF Unfinalize, Return, Goto
  <2> QED
    BY <2>1, <2>2
<1>8. ASSUME NEW rs \in RunnerSets, RolloutStops(rs) PROVE Leaves
  BY <1>8 DEF RolloutStops, Goto
<1>9. ASSUME NEW rs \in RunnerSets, RolloutRecords(rs) PROVE Leaves
  BY <1>9 DEF RolloutRecords, Goto
<1>10. ASSUME NEW rs \in RunnerSets, OpenSession(rs) PROVE Leaves
  BY <1>10 DEF OpenSession, Goto
<1>11. ASSUME NEW rs \in RunnerSets, SessionConflict(rs) PROVE Leaves
  BY <1>11 DEF SessionConflict, ReturnStatus, Return, Goto
<1>12. ASSUME NEW rs \in RunnerSets, SessionFails(rs) PROVE Leaves
  BY <1>12 DEF SessionFails, ReturnStatus, Return, Goto
<1>13. ASSUME NEW rs \in RunnerSets, StartSucceeds(rs) PROVE Leaves
  BY <1>13 DEF StartSucceeds, Goto
<1>14. ASSUME NEW rs \in RunnerSets, StartFails(rs) PROVE Leaves
  BY <1>14 DEF StartFails, ReturnStatus, Return, Goto
<1>15. ASSUME NEW rs \in RunnerSets, AnnotateUpdates(rs) PROVE Leaves
  BY <1>15 DEF AnnotateUpdates, Return, Goto
<1>15a. ASSUME NEW rs \in RunnerSets, AnnotateFetches(rs) PROVE Leaves
  BY <1>15a DEF AnnotateFetches, Goto
<1>16. ASSUME NEW rs \in RunnerSets, AnnotateFails(rs) PROVE Leaves
  BY <1>16 DEF AnnotateFails, Return, Goto
<1>17. ASSUME NEW l \in Listeners, ListenerSignals(l) PROVE Leaves
  BY <1>17 DEF ListenerSignals
<1>18. ASSUME NEW l \in Listeners, ListenerRefused(l) PROVE Leaves
  BY <1>18 DEF ListenerRefused
<1>19. ASSUME NEW l \in Listeners, ListenerEnds(l) PROVE Leaves
  BY <1>19 DEF ListenerEnds
<1>20. ASSUME NEW l \in Listeners, ListenerFails(l) PROVE Leaves
  BY <1>20 DEF ListenerFails
<1>21. ASSUME NEW i \in Ids, SessionExpires(i) PROVE Leaves
  BY <1>21 DEF SessionExpires
<1>22. ASSUME NEW rs \in RunnerSets, CreateRunnerSet(rs) PROVE Leaves
  BY <1>22 DEF CreateRunnerSet, Changed
<1>23. ASSUME NEW rs \in RunnerSets, EditRunnerSet(rs) PROVE Leaves
  BY <1>23 DEF EditRunnerSet, Changed
<1>24. ASSUME NEW rs \in RunnerSets, DeleteRunnerSet(rs) PROVE Leaves
  BY <1>24 DEF DeleteRunnerSet, Changed
<1>25. CASE AutoscaleSetChanges
  BY <1>25 DEF AutoscaleSetChanges
<1>26. CASE AutoscaleSetRecords
  BY <1>26 DEF AutoscaleSetRecords
<1>27. CASE Crash
  BY <1>27
<1>28. CASE UNCHANGED vars
  BY <1>28 DEF vars
<1> QED
  BY <1>1, <1>2, <1>3, <1>4, <1>5, <1>6, <1>7, <1>8, <1>9, <1>10, <1>11, <1>12, <1>13,
     <1>14, <1>15, <1>15a, <1>16, <1>17, <1>18, <1>19, <1>20, <1>21, <1>22, <1>23, <1>24,
     <1>25, <1>26, <1>27, <1>28
     DEF Next, Reconcile, ListenerStep, User

(* The step that removes the last RunnerSet of a key. *)
LEMMA LastOneStep ==
    ASSUME ReconcilerInv, Attended, [Next]_vars,
           NEW rs \in RunnerSets, pc[rs] = "unfinalize", pc'[rs] = "idle",
           rset'[rs].state = "absent",
           \A other \in RunnerSets : rset'[other].state # "absent" => KeyOf(other) # KeyOf(rs),
           aset.id # NoId, assigned <= 1
    PROVE  listeners'[KeyOf(rs)] = NoListener
<1>1. TypeOK /\ FinalizerFirst
  BY DEF ReconcilerInv
<1>2. rset[rs].state # "absent"
  BY <1>1, NothingSet DEF FinalizerFirst
<1>3. Unfinalize(rs)
  <2>1. Unfinalize(rs) \/ Crash
    BY <1>1, UnfinalizeEnds
  <2>2. ~Crash
    BY <1>2 DEF Crash, objectVars
  <2> QED
    BY <2>1, <2>2
<1>4. /\ listeners' = listeners
      /\ \A o \in RunnerSets \ {rs} : rset'[o] = rset[o]
  BY <1>1, <1>3 DEF Unfinalize, managerVars, TypeOK
<1>5. ~Manager!HasListener(KeyOf(rs))
  <2> SUFFICES ASSUME Manager!HasListener(KeyOf(rs)) PROVE FALSE
    OBVIOUS
  <2>1. KeyOf(rs) \in Keys
    BY <1>1, Fields DEF TypeOK, KeyOf
  <2>2. PICK w \in RunnerSets :
           KeyOf(w) = KeyOf(rs) /\ rset[w].finalizer /\ pc[w] # "unfinalize"
    BY <2>1 DEF Attended
  <2>3. rset[w].state # "absent"
    BY <1>1, <2>2, NothingSet DEF FinalizerFirst
  <2> QED
    BY <1>4, <2>2, <2>3
<1> QED
  BY <1>4, <1>5 DEF Manager!HasListener

(* While no RunnerSet moves to another runner group, the last RunnerSet of a key
   never leaves its listener behind, unless the AutoscaleSet's scale set went
   before it. *)
THEOREM LastOneCorrect == ASSUME GroupsFixed PROVE Spec => LastOneStops
<1>1. Init => KeyKept /\ Attended
  BY ReconcilerInit
<1>2. ReconcilerInv /\ KeyKept /\ Attended /\ [Next]_vars => KeyKept' /\ Attended'
  BY KeyStep, AttendedStep DEF ReconcilerInv
<1>3. ReconcilerInv /\ Attended /\ [Next]_vars
      => [\A rs \in RunnerSets :
             /\ pc[rs] = "unfinalize" /\ pc'[rs] = "idle" /\ rset'[rs].state = "absent"
             /\ \A other \in RunnerSets : rset'[other].state # "absent" => KeyOf(other) # KeyOf(rs)
             /\ aset.id # NoId /\ assigned <= 1
             => listeners'[KeyOf(rs)] = NoListener]_vars
  BY LastOneStep
<1> QED
  BY <1>1, <1>2, <1>3, ReconcilerInvariant, PTL DEF Spec, LastOneStops
==============================================================================
