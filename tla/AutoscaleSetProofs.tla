------------------------- MODULE AutoscaleSetProofs -------------------------
(****************************************************************************)
(* The finalizer of an AutoscaleSet protects its scale set: proofs for any  *)
(* number of scale sets, edits and failures.                                *)
(****************************************************************************)
EXTENDS AutoscaleSetReconciler, TLAPS

(* The type of what buildLabels returns. *)
LEMMA LabelsType == ASSUME NEW as \in AutoscaleSet PROVE BuildLabels(as) \in Labels
<1>1. /\ GpuLabel("").type = "" /\ SystemLabel(GpuLabel("").name) \in Label
      /\ GpuLabel("Custom") \in Label /\ [type |-> "Custom", name |-> "self-hosted"] \in Label
  BY DEF GpuLabel, SystemLabel, Label
<1>2. SystemLabel("self-hosted") \in Label /\ SystemLabel("scaleset") \in Label
  BY DEF SystemLabel, Label
<1>3. \A l \in SpecLabels(as) : l \in Label \/ (l.type = "" /\ SystemLabel(l.name) \in Label)
  BY <1>1 DEF SpecLabels
<1>4. \A l \in Label : l.type # ""
  BY DEF Label
<1> QED
  BY <1>2, <1>3, <1>4 DEF BuildLabels, Labels

(* GitHub keeps labels of the same type. *)
LEMMA StoredType ==
    ASSUME NEW as \in AutoscaleSet, NEW labels \in GitHubStores(BuildLabels(as))
    PROVE  labels \in Labels
<1>1. \A l \in Label : Normalize(l) \in Label
  BY DEF Normalize, Label
<1>2. BuildLabels(as) \subseteq Label
  BY LabelsType DEF Labels
<1>3. Compared(BuildLabels(as)) \subseteq Label
  BY <1>1, <1>2 DEF Compared
<1>4. {Normalize(l) : l \in BuildLabels(as)} \subseteq Label
  BY <1>1, <1>2
<1> QED
  BY <1>3, <1>4 DEF GitHubStores, Labels

(* No labels are labels. *)
LEMMA NoLabelsType == NoLabels \in Labels
BY DEF NoLabels, Labels

(* What an object that is not there looks like. *)
LEMMA Nothing ==
    /\ NoAutoscaleSet \in AutoscaleSet
    /\ NoAutoscaleSet.state = "absent" /\ ~NoAutoscaleSet.finalizer /\ NoAutoscaleSet.id = NoId
BY AutoscaleSetAssumption DEF NoAutoscaleSet, AutoscaleSet, NoId, Ids

(* The updates of an object: each changes its own field. *)
LEMMA WithPhase ==
    ASSUME NEW as \in AutoscaleSet, NEW p \in {"", "Active", "Error"}
    PROVE  LET x == [as EXCEPT !.phase = p]
           IN  x \in AutoscaleSet /\ x.state = as.state
               /\ x.finalizer = as.finalizer /\ x.id = as.id
BY DEF AutoscaleSet

(* The ID is stored with the phase. *)
LEMMA WithId ==
    ASSUME NEW as \in AutoscaleSet, NEW n \in Ids \cup {NoId}
    PROVE  LET x == [as EXCEPT !.id = n, !.phase = "Active"]
           IN  x \in AutoscaleSet /\ x.state = as.state
               /\ x.finalizer = as.finalizer /\ x.id = n
BY DEF AutoscaleSet

(* The finalizer is added. *)
LEMMA WithFinalizer ==
    ASSUME NEW as \in AutoscaleSet
    PROVE  LET x == [as EXCEPT !.finalizer = TRUE]
           IN  x \in AutoscaleSet /\ x.state = as.state /\ x.finalizer /\ x.id = as.id
BY DEF AutoscaleSet

(* The object is created or marked for deletion. *)
LEMMA WithState ==
    ASSUME NEW as \in AutoscaleSet, NEW s \in {"present", "deleting"}
    PROVE  LET x == [as EXCEPT !.state = s]
           IN  x \in AutoscaleSet /\ x.state = s /\ x.finalizer = as.finalizer /\ x.id = as.id
BY DEF AutoscaleSet

(* The spec is edited. *)
LEMMA WithGen ==
    ASSUME NEW as \in AutoscaleSet, as.gen < MaxEdits
    PROVE  LET x == [as EXCEPT !.gen = @ + 1]
           IN  x \in AutoscaleSet /\ x.state = as.state
               /\ x.finalizer = as.finalizer /\ x.id = as.id
<1>1. as.gen \in 0 .. MaxEdits
  BY DEF AutoscaleSet
<1>2. \A g \in 0 .. MaxEdits : g < MaxEdits => g + 1 \in 0 .. MaxEdits
  BY AutoscaleSetAssumption
<1>3. as.gen + 1 \in 0 .. MaxEdits
  BY <1>1, <1>2
<1> QED
  BY <1>3 DEF AutoscaleSet

(* A reconcile that reports an error leaves values of their types. *)
LEMMA ErrorTyped ==
    ASSUME TypeOK, ReturnError
    PROVE  /\ aset' \in AutoscaleSet /\ seen' \in AutoscaleSet /\ work' \in AutoscaleSet
           /\ nextId' \in 1 .. MaxIds + 1 /\ queued' \in BOOLEAN /\ pc' = "idle"
           /\ have' = NoScaleSet
<1>1. [seen EXCEPT !.phase = "Error"] \in AutoscaleSet
  BY WithPhase DEF TypeOK
<1> QED
  BY <1>1, Nothing DEF TypeOK, ReturnError, Return, Update

(* Every step keeps the types. *)
LEMMA TypeStep == TypeOK /\ RecordedInUse /\ [Next]_vars => TypeOK'
<1> SUFFICES ASSUME TypeOK, RecordedInUse, [Next]_vars PROVE TypeOK'
  OBVIOUS
<1>0. /\ \A as \in AutoscaleSet : as.id \in Ids \cup {NoId}
      /\ NoScaleSet \in [id : Ids \cup {NoId}, labels : Labels]
  BY NoLabelsType DEF AutoscaleSet, NoScaleSet
<1> USE <1>0, AutoscaleSetAssumption, StoredType, NoLabelsType, Nothing
        DEF TypeOK, RecordedInUse, NoId, Ids, objectVars, githubVars
<1>1. CASE ReconcileGone
  BY <1>1 DEF ReconcileGone, BeginReconcile
<1>2. CASE ReconcileAddsFinalizer
  BY <1>2, WithFinalizer DEF ReconcileAddsFinalizer, BeginReconcile
<1>3. CASE ReconcileActive
  BY <1>3 DEF ReconcileActive, BeginReconcile
<1>4. CASE ReconcileFails
  BY <1>4, ErrorTyped DEF ReconcileFails, Fail
<1>5. CASE CreateSucceeds
  BY <1>5 DEF CreateSucceeds, GitHubCreates
<1>6. CASE CreateLost
  BY <1>6 DEF CreateLost, GitHubCreates, Fail
<1>7. CASE CreateRefused
  BY <1>7, ErrorTyped DEF CreateRefused, Fail
<1>8. CASE StoreId
  BY <1>8, WithId DEF StoreId, Return, Update
<1>9. CASE GetScaleSet
  <2>1. work.id \in Ids
    BY <1>9 DEF GetScaleSet
  <2>2. cache[work.id] \in Labels /\ github[work.id] \in Labels
    BY <2>1
  <2>3. \A ls \in Labels : [id |-> work.id, labels |-> ls] \in [id : Ids \cup {NoId}, labels : Labels]
    BY <2>1
  <2>4. have' \in [id : Ids \cup {NoId}, labels : Labels]
    BY <1>9, <2>2, <2>3 DEF GetScaleSet
  <2>5. cache' \in [Ids -> Labels]
    BY <1>9, <2>1, <2>2 DEF GetScaleSet
  <2>6. UNCHANGED <<aset, seen, github, nextId, queued, work, failures>> /\ pc' = "labels"
    BY <1>9 DEF GetScaleSet
  <2> QED
    BY <2>4, <2>5, <2>6
<1>10. CASE GetFails
  BY <1>10, ErrorTyped DEF GetFails, Fail
<1>11. CASE UpdateLabels
  BY <1>11 DEF UpdateLabels, GitHubUpdates
<1>12. CASE UpdateLabelsFails
  <2>1. github' \in [Ids -> Labels] /\ cache' = cache
    BY <1>12 DEF UpdateLabelsFails, GitHubUpdates
  <2>2. failures' \in 0 .. MaxFailures
    BY <1>12 DEF UpdateLabelsFails, Fail
  <2>3. ReturnError
    BY <1>12 DEF UpdateLabelsFails
  <2> QED
    BY <2>1, <2>2, <2>3, ErrorTyped
<1>13. CASE StoreStatus
  BY <1>13, WithPhase DEF StoreStatus, Return, Update
<1>14. CASE ReconcileDeletes
  BY <1>14 DEF ReconcileDeletes, BeginReconcile
<1>15. CASE DeleteSucceeds
  BY <1>15 DEF DeleteSucceeds
<1>16. CASE DeleteFails
  BY <1>16 DEF DeleteFails, Return, Fail
<1>17. CASE Unfinalize
  BY <1>17 DEF Unfinalize, Return, Update
<1>18. CASE UpdateFails
  BY <1>18 DEF UpdateFails, Return, Fail
<1>19. CASE InformerSync
  BY <1>19 DEF InformerSync
<1>20. CASE SecretEvent
  BY <1>20 DEF SecretEvent
<1>21. ASSUME NEW i \in Ids, CacheExpires(i) PROVE TypeOK'
  BY <1>21 DEF CacheExpires
<1>22. CASE CreateAutoscaleSet
  BY <1>22, WithState DEF CreateAutoscaleSet, UserWrites
<1>23. CASE EditAutoscaleSet
  BY <1>23, WithGen DEF EditAutoscaleSet, UserWrites
<1>24. CASE DeleteAutoscaleSet
  BY <1>24, WithState DEF DeleteAutoscaleSet, UserWrites
<1>25. CASE Crash
  BY <1>25 DEF Crash, Return, Fail
<1>26. CASE UNCHANGED vars
  BY <1>26 DEF vars
<1> QED
  BY <1>1, <1>2, <1>3, <1>4, <1>5, <1>6, <1>7, <1>8, <1>9, <1>10, <1>11, <1>12, <1>13,
     <1>14, <1>15, <1>16, <1>17, <1>18, <1>19, <1>20, <1>21, <1>22, <1>23, <1>24, <1>25, <1>26
     DEF Next, Reconcile, User

(* A reconcile that reports an error changes the phase of the object at most. *)
LEMMA ErrorStep ==
    ASSUME TypeOK, ReturnError
    PROVE  /\ aset' \in AutoscaleSet /\ aset'.state = aset.state /\ aset'.id = aset.id
           /\ aset'.finalizer = aset.finalizer /\ aset'.gen = aset.gen
           /\ seen' = seen /\ nextId' = nextId /\ pc' = "idle"
<1>1. aset' = aset \/ (seen = aset /\ aset' = [seen EXCEPT !.phase = "Error"])
  BY DEF ReturnError, Update
<1>2. [seen EXCEPT !.phase = "Error"].gen = seen.gen
  BY DEF TypeOK, AutoscaleSet
<1>3. QED
  BY <1>1, <1>2, WithPhase DEF ReturnError, Return, TypeOK

(* The ID is stored in an object that is what the informer shows, or nowhere. *)
LEMMA StoreStep ==
    ASSUME TypeOK, StoreId
    PROVE  /\ \/ aset' = aset
              \/ /\ seen = aset /\ aset'.id = have.id
                 /\ aset'.state = aset.state /\ aset'.finalizer = aset.finalizer
                 /\ aset'.gen = aset.gen
           /\ seen' = seen /\ github' = github /\ nextId' = nextId
           /\ pc = "store" /\ pc' = "idle"
<1> DEFINE x == [seen EXCEPT !.id = have.id, !.phase = "Active"]
<1>1. seen \in AutoscaleSet /\ have.id \in Ids \cup {NoId}
  BY DEF TypeOK
<1>2. /\ x.state = seen.state /\ x.finalizer = seen.finalizer
      /\ x.gen = seen.gen /\ x.id = have.id
  BY <1>1 DEF AutoscaleSet
<1>3. aset' = aset \/ (seen = aset /\ aset' = x)
  BY DEF StoreId, Update
<1> HIDE DEF x
<1> QED
  BY <1>2, <1>3 DEF StoreId, Return, githubVars

(* The status is stored in the object that the reconcile holds, or nowhere. *)
LEMMA StatusStep ==
    ASSUME TypeOK, StoreStatus
    PROVE  /\ aset'.state = aset.state /\ aset'.id = aset.id
           /\ aset'.finalizer = aset.finalizer /\ aset'.gen = aset.gen
           /\ seen' = seen /\ github' = github /\ nextId' = nextId
           /\ pc = "status" /\ pc' = "idle"
<1>1. aset' = aset \/ (work = aset /\ aset' = [work EXCEPT !.phase = "Active"])
  BY DEF StoreStatus, Update
<1>2. /\ aset'.state = aset.state /\ aset'.id = aset.id
      /\ aset'.finalizer = aset.finalizer /\ aset'.gen = aset.gen
  BY <1>1 DEF TypeOK, AutoscaleSet
<1> QED
  BY <1>2 DEF StoreStatus, Return, githubVars

(* Every step keeps the protection. *)
LEMMA ProtectionStep == TypeOK /\ ProtectionInv /\ [Next]_vars => ProtectionInv'
<1> SUFFICES ASSUME TypeOK, ProtectionInv, [Next]_vars PROVE ProtectionInv'
  OBVIOUS
<1>0. \A as \in AutoscaleSet : as.id \in Ids \cup {NoId}
  BY DEF AutoscaleSet
<1> USE <1>0, Nothing
        DEF TypeOK, ProtectionInv, FinalizerSeen, StepProtected, DeletedFirst, RecordedInUse,
            Protecting, Deleting, objectVars, githubVars
<1>1. CASE ReconcileGone
  BY <1>1 DEF ReconcileGone, BeginReconcile
<1>2. CASE ReconcileAddsFinalizer
  BY <1>2, WithFinalizer DEF ReconcileAddsFinalizer, BeginReconcile
<1>3. CASE ReconcileActive
  BY <1>3 DEF ReconcileActive, BeginReconcile
<1>4. CASE ReconcileFails
  BY <1>4, ErrorStep DEF ReconcileFails
<1>5. CASE CreateSucceeds
  BY <1>5 DEF CreateSucceeds, GitHubCreates
<1>6. CASE CreateLost
  BY <1>6 DEF CreateLost, GitHubCreates, Fail
<1>7. CASE CreateRefused
  BY <1>7, ErrorStep DEF CreateRefused
<1>8. CASE StoreId
  BY <1>8, StoreStep
<1>9. CASE GetScaleSet
  BY <1>9 DEF GetScaleSet
<1>10. CASE GetFails
  BY <1>10, ErrorStep DEF GetFails
<1>11. CASE UpdateLabels
  BY <1>11 DEF UpdateLabels, GitHubUpdates
<1>12. CASE UpdateLabelsFails
  BY <1>12, ErrorStep DEF UpdateLabelsFails
<1>13. CASE StoreStatus
  BY <1>13, StatusStep
<1>14. CASE ReconcileDeletes
  BY <1>14 DEF ReconcileDeletes, BeginReconcile
<1>15. CASE DeleteSucceeds
  BY <1>15 DEF DeleteSucceeds
<1>16. CASE DeleteFails
  BY <1>16 DEF DeleteFails, Return, Fail
<1>17. CASE Unfinalize
  BY <1>17 DEF Unfinalize, Return, Update
<1>18. CASE UpdateFails
  BY <1>18 DEF UpdateFails, Return, Fail
<1>19. CASE InformerSync
  BY <1>19 DEF InformerSync
<1>20. CASE SecretEvent
  BY <1>20 DEF SecretEvent
<1>21. ASSUME NEW i \in Ids, CacheExpires(i) PROVE ProtectionInv'
  BY <1>21 DEF CacheExpires
<1>22. CASE CreateAutoscaleSet
  BY <1>22, WithState DEF CreateAutoscaleSet, UserWrites
<1>23. CASE EditAutoscaleSet
  BY <1>23, WithGen DEF EditAutoscaleSet, UserWrites
<1>24. CASE DeleteAutoscaleSet
  BY <1>24, WithState DEF DeleteAutoscaleSet, UserWrites
<1>25. CASE Crash
  BY <1>25 DEF Crash, Return, Fail
<1>26. CASE UNCHANGED vars
  BY <1>26 DEF vars
<1> QED
  BY <1>1, <1>2, <1>3, <1>4, <1>5, <1>6, <1>7, <1>8, <1>9, <1>10, <1>11, <1>12, <1>13,
     <1>14, <1>15, <1>16, <1>17, <1>18, <1>19, <1>20, <1>21, <1>22, <1>23, <1>24, <1>25, <1>26
     DEF Next, Reconcile, User

(* The types and the protection, as one inductive invariant. *)
THEOREM ProtectionInvariant == Spec => [](TypeOK /\ ProtectionInv)
<1>1. Init => TypeOK
  <2>1. NoScaleSet \in [id : Ids \cup {NoId}, labels : Labels]
    BY NoLabelsType DEF NoScaleSet
  <2>2. 1 \in 1 .. MaxIds + 1 /\ 0 \in 0 .. MaxFailures
    BY AutoscaleSetAssumption
  <2> QED
    BY <2>1, <2>2, NoLabelsType, Nothing DEF Init, TypeOK
<1>2. Init => ProtectionInv
  BY Nothing DEF Init, ProtectionInv, FinalizerSeen, StepProtected, DeletedFirst, RecordedInUse,
                 Protecting, Deleting
<1>3. TypeOK /\ ProtectionInv /\ [Next]_vars => TypeOK' /\ ProtectionInv'
  BY TypeStep, ProtectionStep DEF ProtectionInv
<1> QED
  BY <1>1, <1>2, <1>3, PTL DEF Spec

(* A scale set comes into being only while its AutoscaleSet carries the
   finalizer: the creation and the update of its labels, the two calls that can
   bring one into being, are made by a reconcile that found the finalizer, and no
   other step removes it. *)
THEOREM CreationProtected == Spec => CreatedUnderFinalizer
<1>1. TypeOK /\ ProtectionInv /\ [Next]_vars
        => [~NameTaken /\ NameTaken' => aset.finalizer]_vars
  <2> SUFFICES ASSUME TypeOK, ProtectionInv, Next, ~NameTaken, NameTaken' PROVE aset.finalizer
    BY DEF vars, NameTaken
  <2>1. github' # github
    BY DEF NameTaken
  <2>2. pc \in Protecting => aset.finalizer
    BY DEF ProtectionInv, StepProtected
  <2>3. CASE pc \in Protecting
    BY <2>2, <2>3
  <2>4. CASE DeleteSucceeds \/ DeleteFails
    BY <2>4 DEF DeleteSucceeds, DeleteFails, NameTaken, TypeOK
  <2> QED
    BY <2>1, <2>3, <2>4
       DEF Next, Reconcile, User, Protecting, ReconcileGone, ReconcileAddsFinalizer, ReconcileActive,
           ReconcileFails, ReconcileDeletes, BeginReconcile, CreateSucceeds, CreateLost, CreateRefused,
           GitHubCreates, StoreId, GetScaleSet, GetFails, UpdateLabels, UpdateLabelsFails, StoreStatus,
           Unfinalize, UpdateFails, InformerSync, SecretEvent, CacheExpires,
           CreateAutoscaleSet, EditAutoscaleSet, DeleteAutoscaleSet, UserWrites, Crash, githubVars
<1> QED
  BY <1>1, ProtectionInvariant, PTL DEF Spec, CreatedUnderFinalizer

(* An AutoscaleSet that records a scale set is not removed before the scale set:
   the only step that removes it is the update that takes the finalizer away, which
   is refused unless the copy that showed the reconcile what to delete is still the
   object. *)
THEOREM DeletionOrder == Spec => RecordedIsDeleted
<1>1. TypeOK /\ ProtectionInv /\ [Next]_vars
        => [aset.state = "deleting" /\ aset'.state = "absent" /\ aset.id # NoId
               => github'[aset.id] = NoLabels]_vars
  <2> SUFFICES ASSUME TypeOK, ProtectionInv, Next,
                      aset.state = "deleting", aset'.state = "absent", aset.id # NoId
               PROVE  github'[aset.id] = NoLabels
    BY DEF vars
  <2>1. CASE Unfinalize
    <3>1. work = aset /\ pc = "unfinalize" /\ github' = github
      BY <2>1 DEF Unfinalize, Update, githubVars
    <3> QED
      BY <3>1 DEF ProtectionInv, DeletedFirst
  <2>2. CASE ReturnError
    BY <2>2, ErrorStep
  <2>3. CASE StoreId
    BY <2>3, StoreStep
  <2>4. CASE StoreStatus
    BY <2>4, StatusStep
  <2>5. CASE EditAutoscaleSet
    BY <2>5, WithGen DEF EditAutoscaleSet, UserWrites, TypeOK
  <2> QED
    BY <2>1, <2>2, <2>3, <2>4, <2>5
       DEF Next, Reconcile, User, ReconcileGone, ReconcileAddsFinalizer, ReconcileActive,
           ReconcileFails, ReconcileDeletes, BeginReconcile, CreateSucceeds, CreateLost, CreateRefused,
           GetScaleSet, GetFails, UpdateLabels, UpdateLabelsFails, DeleteSucceeds, DeleteFails,
           UpdateFails, InformerSync, SecretEvent, CacheExpires, CreateAutoscaleSet, DeleteAutoscaleSet,
           Crash, objectVars
<1> QED
  BY <1>1, ProtectionInvariant, PTL DEF Spec, RecordedIsDeleted

(* The variables of the controller keep their types, the labels that it builds
   and that GitHub stores among them. *)
THEOREM ControllerTypes == Spec => []TypeOK
BY ProtectionInvariant, PTL

------------------------------------------------------------------------------
(* The AutoscaleSet lives as AutoscaleSetLifecycle says. *)

(* buildLabels always leaves a label that GitHub keeps. *)
LEMMA LabelsKept ==
    ASSUME NEW as \in AutoscaleSet, NEW labels \in GitHubStores(BuildLabels(as))
    PROVE  labels # NoLabels
<1>1. \E l \in BuildLabels(as) : l.name # "self-hosted"
  <2> DEFINE given == {IF l.type = "" THEN SystemLabel(l.name) ELSE l : l \in SpecLabels(as)}
             self == SystemLabel("self-hosted")
  <2>1. CASE SpecLabels(as) = {}
    <3>1. given = {}
      BY <2>1
    <3>2. self.name = "self-hosted" /\ SystemLabel("scaleset").name # "self-hosted"
      BY DEF SystemLabel
    <3>3. BuildLabels(as) = {self} \cup {SystemLabel("scaleset")}
      BY <3>1, <3>2, Zenon DEF BuildLabels
    <3>4. QED
      BY <3>2, <3>3
  <2>2. CASE SpecLabels(as) # {}
    <3>1. GpuLabel("Custom") \in SpecLabels(as)
      BY <2>2 DEF SpecLabels
    <3>2. GpuLabel("Custom").type = "Custom" /\ GpuLabel("Custom").name = "gpu"
      BY DEF GpuLabel
    <3>3. GpuLabel("Custom") \in given
      BY <3>1, <3>2
    <3>4. given \subseteq BuildLabels(as)
      BY DEF BuildLabels
    <3>5. QED
      BY <3>2, <3>3, <3>4
  <2>3. QED
    BY <2>1, <2>2
<1>2. Compared(BuildLabels(as)) # {}
  BY <1>1 DEF Compared
<1>3. {Normalize(l) : l \in BuildLabels(as)} # {}
  BY <1>1
<1>4. QED
  BY <1>2, <1>3 DEF GitHubStores, NoLabels

(* An object that is not there shows nothing. *)
LEMMA NothingVisible ==
    NoAutoscaleSet.state = "absent" /\ NoAutoscaleSet.id = 0 /\ NoAutoscaleSet.gen = 0
BY DEF NoAutoscaleSet, NoId

(* Every step keeps what is recorded. *)
LEMMA RecordStep ==
    TypeOK /\ ProtectionInv /\ RecordInv /\ [Next]_vars => RecordInv'
<1> SUFFICES ASSUME TypeOK, ProtectionInv, RecordInv, [Next]_vars PROVE RecordInv'
  OBVIOUS
<1>0. \A as \in AutoscaleSet :
         as.id \in Ids \cup {NoId} /\ as.state \in {"absent", "present", "deleting"}
  BY DEF AutoscaleSet
<1> USE <1>0, Nothing, LabelsKept
        DEF TypeOK, RecordInv, StoresTheLast, RecordedUnderFinalizer, RecordedIsThere,
            ProtectionInv, FinalizerSeen, StepProtected, Protecting, Deleting, objectVars, githubVars
<1>1. CASE ReconcileGone
  BY <1>1 DEF ReconcileGone, BeginReconcile
<1>2. CASE ReconcileAddsFinalizer
  BY <1>2, WithFinalizer DEF ReconcileAddsFinalizer, BeginReconcile
<1>3. CASE ReconcileActive
  BY <1>3 DEF ReconcileActive, BeginReconcile
<1>4. CASE ReconcileFails
  BY <1>4, ErrorStep DEF ReconcileFails
<1>5. CASE CreateSucceeds
  <2>1. PICK labels \in GitHubStores(BuildLabels(work)) : github' = [github EXCEPT ![nextId] = labels]
    BY <1>5 DEF CreateSucceeds, GitHubCreates
  <2>2. nextId \in Ids /\ nextId' = nextId + 1 /\ ~NameTaken /\ pc = "create"
    BY <1>5 DEF CreateSucceeds, GitHubCreates
  <2>3. aset.id = NoId
    BY <2>2 DEF NameTaken
  <2>4. labels # NoLabels /\ github'[nextId] = labels
    BY <2>1, <2>2, LabelsKept
  <2>5. have'.id = nextId /\ nextId' - 1 = nextId
    BY <1>5, <2>2 DEF CreateSucceeds, Ids
  <2> QED
    BY <1>5, <2>2, <2>3, <2>4, <2>5 DEF CreateSucceeds
<1>6. CASE CreateLost
  BY <1>6 DEF CreateLost, GitHubCreates
<1>7. CASE CreateRefused
  BY <1>7, ErrorStep DEF CreateRefused
<1>8. CASE StoreId
  BY <1>8, StoreStep
<1>9. CASE GetScaleSet
  BY <1>9 DEF GetScaleSet
<1>10. CASE GetFails
  BY <1>10, ErrorStep DEF GetFails
<1>11. CASE UpdateLabels
  BY <1>11 DEF UpdateLabels, GitHubUpdates
<1>12. CASE UpdateLabelsFails
  <2>1. \A i \in Ids : github'[i] = NoLabels => github[i] = NoLabels
    BY <1>12 DEF UpdateLabelsFails, GitHubUpdates
  <2>2. ReturnError /\ pc = "labels"
    BY <1>12 DEF UpdateLabelsFails
  <2>3. /\ aset'.state = aset.state /\ aset'.id = aset.id /\ aset'.finalizer = aset.finalizer
        /\ seen' = seen /\ pc' = "idle" /\ aset.finalizer
    BY <2>2, ErrorStep
  <2> QED
    BY <2>1, <2>2, <2>3
<1>13. CASE StoreStatus
  BY <1>13, StatusStep
<1>14. CASE ReconcileDeletes
  BY <1>14 DEF ReconcileDeletes, BeginReconcile
<1>15. CASE DeleteSucceeds
  <2>1. /\ UNCHANGED <<aset, seen>> /\ pc' = "unfinalize" /\ pc \in Deleting
    BY <1>15 DEF DeleteSucceeds
  <2>2. aset.id # NoId => aset.state = "deleting"
    BY <2>1
  <2> QED
    BY <2>1, <2>2
<1>16. CASE DeleteFails
  <2>1. /\ UNCHANGED <<aset, seen>> /\ pc' = "idle" /\ pc \in Deleting
    BY <1>16 DEF DeleteFails, Return
  <2>2. aset.id # NoId => aset.state = "deleting"
    BY <2>1
  <2> QED
    BY <2>1, <2>2
<1>17. CASE Unfinalize
  BY <1>17 DEF Unfinalize, Return, Update
<1>18. CASE UpdateFails
  BY <1>18 DEF UpdateFails, Return
<1>19. CASE InformerSync
  BY <1>19 DEF InformerSync
<1>20. CASE SecretEvent
  BY <1>20 DEF SecretEvent
<1>21. ASSUME NEW i \in Ids, CacheExpires(i) PROVE RecordInv'
  BY <1>21 DEF CacheExpires
<1>22. CASE CreateAutoscaleSet
  BY <1>22, WithState DEF CreateAutoscaleSet, UserWrites
<1>23. CASE EditAutoscaleSet
  BY <1>23, WithGen DEF EditAutoscaleSet, UserWrites
<1>24. CASE DeleteAutoscaleSet
  BY <1>24, WithState DEF DeleteAutoscaleSet, UserWrites
<1>25. CASE Crash
  BY <1>25 DEF Crash, Return
<1>26. CASE UNCHANGED vars
  BY <1>26 DEF vars
<1> QED
  BY <1>1, <1>2, <1>3, <1>4, <1>5, <1>6, <1>7, <1>8, <1>9, <1>10, <1>11, <1>12, <1>13,
     <1>14, <1>15, <1>16, <1>17, <1>18, <1>19, <1>20, <1>21, <1>22, <1>23, <1>24, <1>25, <1>26
     DEF Next, Reconcile, User

(* Every step of the controller, of the users and of the environment is a step of
   the life of the AutoscaleSet, or none. *)
LEMMA LifecycleStep ==
    TypeOK /\ ProtectionInv /\ RecordInv /\ [Next]_vars
        => [Lifecycle!Next]_(Lifecycle!vars)
<1> SUFFICES ASSUME TypeOK, ProtectionInv, RecordInv, [Next]_vars
             PROVE  Lifecycle!Next \/ UNCHANGED <<Visible, Counted>>
  BY DEF Lifecycle!vars
<1>0. /\ aset \in AutoscaleSet /\ seen \in AutoscaleSet /\ work \in AutoscaleSet
      /\ nextId \in 1 .. MaxIds + 1
      /\ aset.state \in {"absent", "present", "deleting"} /\ aset.finalizer \in BOOLEAN
      /\ MaxIds \in Nat
  BY AutoscaleSetAssumption DEF TypeOK, AutoscaleSet
<1>1. ASSUME aset'.state = aset.state, aset'.id = aset.id, aset'.gen = aset.gen, nextId' = nextId,
             pc = "store" <=> pc' = "store"
      PROVE  UNCHANGED <<Visible, Counted>>
  BY <1>1 DEF Visible, Counted
<1>2. ASSUME UNCHANGED Visible, Counted' = Counted + 1, Counted < MaxIds
      PROVE  Lifecycle!Next
  BY <1>2 DEF Lifecycle!Next, Lifecycle!Lose
<1>3. ASSUME pc = "store", pc' = "idle", UNCHANGED <<aset, nextId>>
      PROVE  Lifecycle!Next
  <2>1. UNCHANGED Visible
    BY <1>3 DEF Visible
  <2>2. Counted' = Counted + 1 /\ Counted < MaxIds
    BY <1>0, <1>3 DEF Counted
  <2> QED
    BY <1>2, <2>1, <2>2
<1>4. CASE ReconcileGone \/ ReconcileActive \/ ReconcileDeletes \/ GetScaleSet \/ UpdateLabels
           \/ DeleteSucceeds \/ DeleteFails \/ InformerSync \/ SecretEvent
           \/ (\E i \in Ids : CacheExpires(i)) \/ UNCHANGED vars
  <2>1. UNCHANGED <<aset, nextId>> /\ (pc = "store" <=> pc' = "store")
    BY <1>4 DEF ReconcileGone, ReconcileActive, ReconcileDeletes, BeginReconcile, GetScaleSet,
                UpdateLabels, DeleteSucceeds, DeleteFails, Return, InformerSync, SecretEvent,
                CacheExpires, vars, objectVars, githubVars
  <2> QED
    BY <1>1, <2>1
<1>5. CASE ReconcileFails \/ CreateRefused \/ GetFails \/ UpdateLabelsFails
  <2>1. ReturnError /\ pc # "store"
    BY <1>5 DEF ReconcileFails, CreateRefused, GetFails, UpdateLabelsFails
  <2> QED
    BY <1>1, <2>1, ErrorStep
<1>6. CASE ReconcileAddsFinalizer
  <2>1. /\ aset'.state = aset.state /\ aset'.id = aset.id /\ aset'.gen = aset.gen
        /\ UNCHANGED <<nextId, pc>>
    BY <1>0, <1>6 DEF ReconcileAddsFinalizer, BeginReconcile, githubVars, AutoscaleSet
  <2> QED
    BY <1>1, <2>1
<1>7. CASE StoreStatus
  BY <1>1, <1>7, StatusStep
<1>8. CASE CreateSucceeds
  <2>1. UNCHANGED Visible
    BY <1>8 DEF CreateSucceeds, objectVars, Visible
  <2>2. UNCHANGED Counted
    BY <1>0, <1>8 DEF CreateSucceeds, GitHubCreates, Counted
  <2> QED
    BY <2>1, <2>2
<1>9. CASE CreateLost
  <2>1. UNCHANGED Visible
    BY <1>9 DEF CreateLost, objectVars, Visible
  <2>2. Counted' = Counted + 1 /\ Counted < MaxIds
    BY <1>0, <1>9 DEF CreateLost, GitHubCreates, Counted, Ids
  <2> QED
    BY <1>2, <2>1, <2>2
<1>10. CASE StoreId
  <2>1. pc = "store" /\ pc' = "idle" /\ nextId' = nextId
    BY <1>10 DEF StoreId, Return, githubVars
  <2>2. CASE seen # aset
    BY <1>3, <1>10, <2>1, <2>2 DEF StoreId, Update
  <2>3. CASE seen = aset
    <3>1. aset' = [aset EXCEPT !.id = have.id, !.phase = "Active"]
      BY <1>10, <2>3 DEF StoreId, Update
    <3>2. aset'.state = aset.state /\ aset'.id = have.id /\ aset'.gen = aset.gen
      BY <1>0, <3>1 DEF AutoscaleSet
    <3>3. Counted' = Counted + 1 /\ Counted < MaxIds /\ Counted' = have.id
      BY <1>0, <2>1 DEF Counted, RecordInv, StoresTheLast
    <3>4. aset.id = NoId /\ aset.state # "absent"
      BY <2>1 DEF RecordInv, StoresTheLast, ProtectionInv, FinalizerSeen, StepProtected, Protecting
    <3>5. Visible' = [Visible EXCEPT !.id = Counted']
      BY <3>2, <3>3 DEF Visible
    <3>6. Visible.state = aset.state /\ Visible.id = aset.id
      BY DEF Visible
    <3> QED
      BY <3>3, <3>4, <3>5, <3>6 DEF Lifecycle!Next, Lifecycle!Record, Lifecycle!NoId, NoId
  <2> QED
    BY <2>2, <2>3
<1>11. CASE UpdateFails \/ Crash
  <2>1. UNCHANGED <<aset, nextId>> /\ pc' = "idle"
    BY <1>11 DEF UpdateFails, Crash, Return, objectVars, githubVars
  <2> QED
    BY <1>1, <1>3, <2>1
<1>12. CASE Unfinalize
  <2>1. pc = "unfinalize" /\ pc' = "idle" /\ nextId' = nextId
    BY <1>12 DEF Unfinalize, Return, githubVars
  <2>2. CASE work # aset
    BY <1>1, <1>12, <2>1, <2>2 DEF Unfinalize, Update
  <2>3. CASE work = aset
    <3>1. aset' = NoAutoscaleSet /\ aset.state = "deleting"
      BY <1>12, <2>1, <2>3 DEF Unfinalize, Update, ProtectionInv, StepProtected, Deleting
    <3>2. Visible' = Lifecycle!NoObject /\ Visible.state = "deleting" /\ UNCHANGED Counted
      BY <2>1, <3>1 DEF Visible, Counted, NoAutoscaleSet, NoId, Lifecycle!NoObject, Lifecycle!NoId
    <3> QED
      BY <3>2 DEF Lifecycle!Next, Lifecycle!Remove
  <2> QED
    BY <2>2, <2>3
<1>13. CASE User
  <2>1. UNCHANGED Counted
    BY <1>13 DEF User, CreateAutoscaleSet, EditAutoscaleSet, DeleteAutoscaleSet, UserWrites,
                 githubVars, Counted
  <2>2. CASE CreateAutoscaleSet
    <3>1. /\ aset.state = "absent"
          /\ aset' = [NoAutoscaleSet EXCEPT !.state = "present"]
      BY <2>2 DEF CreateAutoscaleSet, UserWrites
    <3>2. aset'.state = "present" /\ aset'.id = 0 /\ aset'.gen = 0
      BY <3>1, Nothing, NothingVisible DEF AutoscaleSet
    <3>3. /\ Visible.state = "absent"
          /\ Visible' = [Lifecycle!NoObject EXCEPT !.state = "present"]
      BY <3>1, <3>2 DEF Visible, Lifecycle!NoObject, Lifecycle!NoId
    <3> QED
      BY <2>1, <3>3 DEF Lifecycle!Next, Lifecycle!Create
  <2>3. CASE EditAutoscaleSet
    <3>1. /\ aset.state # "absent" /\ aset.gen < MaxEdits
          /\ aset' = [aset EXCEPT !.gen = @ + 1]
      BY <2>3 DEF EditAutoscaleSet, UserWrites
    <3>2. aset'.state = aset.state /\ aset'.id = aset.id /\ aset'.gen = aset.gen + 1
      BY <1>0, <3>1 DEF AutoscaleSet
    <3>3. /\ Visible.state # "absent" /\ Visible.template < MaxEdits
          /\ Visible' = [Visible EXCEPT !.template = @ + 1]
      BY <3>1, <3>2 DEF Visible
    <3> QED
      BY <2>1, <3>3 DEF Lifecycle!Next, Lifecycle!Edit
  <2>4. CASE DeleteAutoscaleSet
    <3>1. /\ aset.state = "present" /\ Visible.state = "present" /\ Visible.id = aset.id
          /\ aset' = IF aset.finalizer THEN [aset EXCEPT !.state = "deleting"] ELSE NoAutoscaleSet
      BY <2>4 DEF DeleteAutoscaleSet, UserWrites, Visible
    <3>2. CASE aset.finalizer
      <4>1. aset'.state = "deleting" /\ aset'.id = aset.id /\ aset'.gen = aset.gen
        BY <1>0, <3>1, <3>2 DEF AutoscaleSet
      <4>2. Visible' = [Visible EXCEPT !.state = "deleting"]
        BY <4>1 DEF Visible
      <4> QED
        BY <2>1, <3>1, <4>2 DEF Lifecycle!Next, Lifecycle!Delete
    <3>3. CASE ~aset.finalizer
      <4>1. Visible' = Lifecycle!NoObject
        BY <3>1, <3>3 DEF Visible, NoAutoscaleSet, NoId, Lifecycle!NoObject, Lifecycle!NoId
      <4>2. Visible.id = Lifecycle!NoId
        BY <3>1, <3>3 DEF RecordInv, RecordedUnderFinalizer, NoId, Lifecycle!NoId
      <4> QED
        BY <2>1, <3>1, <4>1, <4>2 DEF Lifecycle!Next, Lifecycle!Delete
    <3> QED
      BY <3>2, <3>3
  <2> QED
    BY <1>13, <2>2, <2>3, <2>4 DEF User
<1> QED
  BY <1>4, <1>5, <1>6, <1>7, <1>8, <1>9, <1>10, <1>11, <1>12, <1>13 DEF Next, Reconcile

(* The controller implements the life of the AutoscaleSet that the RunnerSet
   controller is written against: whatever conflicts, lost answers and crashes
   there are, an object records one ID, keeps it until it is gone, and no ID is
   recorded twice. *)
THEOREM LifecycleFollowed == Spec => FollowsLifecycle
<1>1. Init => Lifecycle!Init /\ RecordInv
  <2> SUFFICES ASSUME Init PROVE Lifecycle!Init /\ RecordInv
    OBVIOUS
  <2>1. Visible = Lifecycle!NoObject
    BY NothingVisible DEF Init, Visible, Lifecycle!NoObject, Lifecycle!NoId
  <2>2. Counted = 0
    BY DEF Init, Counted
  <2>3. RecordInv
    BY Nothing DEF Init, RecordInv, StoresTheLast, RecordedUnderFinalizer, RecordedIsThere
  <2> QED
    BY <2>1, <2>2, <2>3 DEF Lifecycle!Init
<1> QED
  BY <1>1, RecordStep, LifecycleStep, ProtectionInvariant, PTL
     DEF Spec, FollowsLifecycle, Lifecycle!Spec

------------------------------------------------------------------------------
(* The controller comes to rest only when it is done. *)

(* What GitHub stores compares equal to what it was given. *)
LEMMA StoredCompares ==
    ASSUME NEW as \in AutoscaleSet, NEW labels \in GitHubStores(BuildLabels(as))
    PROVE  LabelsEqual(labels, BuildLabels(as))
<1> DEFINE B == BuildLabels(as)
           N == {Normalize(l) : l \in B}
<1>1. \A l \in Label : Normalize(l).name = l.name /\ Normalize(Normalize(l)) = Normalize(l)
  BY DEF Normalize, Label
<1>2. B \subseteq Label
  BY LabelsType DEF Labels
<1> HIDE DEF B
<1>3. Compared(N) = Compared(B)
  BY <1>1, <1>2 DEF Compared
<1>4. Compared(Compared(B)) = Compared(B)
  BY <1>1, <1>2 DEF Compared
<1>5. QED
  BY <1>3, <1>4 DEF GitHubStores, LabelsEqual, B

(* The labels depend on the spec alone. *)
LEMMA SameSpec ==
    ASSUME NEW as, NEW bs, as.gen = bs.gen PROVE BuildLabels(as) = BuildLabels(bs)
<1>1. SpecLabels(as) = SpecLabels(bs)
  BY DEF SpecLabels
<1>2. QED
  BY <1>1 DEF BuildLabels

(* Generations are numbers. *)
LEMMA Generation == \A as \in AutoscaleSet : as.gen \in Nat
<1>1. \A g \in 0 .. MaxEdits : g \in Nat
  BY AutoscaleSetAssumption
<1>2. QED
  BY <1>1 DEF AutoscaleSet

(* What a step can do to the object and to the informer's copy of it: the
   controller writes under the finalizer, or adds it, and leaves the spec alone. *)
LEMMA ObjectStep ==
    ASSUME TypeOK, ProtectionInv, [Next]_vars
    PROVE  /\ \/ seen' = seen
              \/ seen' = aset /\ aset' = aset
           /\ \/ aset' = aset
              \/ aset' = NoAutoscaleSet
              \/ CreateAutoscaleSet \/ EditAutoscaleSet \/ DeleteAutoscaleSet
              \/ /\ aset'.state = aset.state /\ aset'.gen = aset.gen /\ aset'.finalizer
                 /\ aset.state # "absent"
<1>0. aset \in AutoscaleSet /\ seen \in AutoscaleSet /\ work \in AutoscaleSet
  BY DEF TypeOK
<1>1. /\ aset.finalizer => aset.state # "absent"
      /\ pc \in {"create", "store", "get", "labels", "status"} => aset.finalizer
  BY DEF ProtectionInv, FinalizerSeen, StepProtected, Protecting
<1>2. CASE ReconcileFails \/ CreateRefused \/ GetFails \/ UpdateLabelsFails
  <2>1. ReturnError
    BY <1>2 DEF ReconcileFails, CreateRefused, GetFails, UpdateLabelsFails
  <2>2. aset' = aset \/ aset.finalizer
    <3>1. CASE ReconcileFails
      BY <3>1 DEF ReconcileFails, ReturnError, Update
    <3>2. CASE CreateRefused \/ GetFails \/ UpdateLabelsFails
      BY <1>1, <3>2 DEF CreateRefused, GetFails, UpdateLabelsFails
    <3>3. QED
      BY <1>2, <3>1, <3>2
  <2>3. QED
    BY <1>1, <2>1, <2>2, ErrorStep
<1>3. CASE ReconcileAddsFinalizer
  BY <1>0, <1>3 DEF ReconcileAddsFinalizer, BeginReconcile, AutoscaleSet
<1>4. CASE StoreId
  BY <1>1, <1>4, StoreStep
<1>5. CASE StoreStatus
  BY <1>1, <1>5, StatusStep
<1>6. CASE Unfinalize
  BY <1>6 DEF Unfinalize, Update
<1>7. CASE User
  BY <1>7 DEF User, CreateAutoscaleSet, EditAutoscaleSet, DeleteAutoscaleSet, UserWrites
<1>8. CASE InformerSync \/ Crash
  BY <1>8 DEF InformerSync, Crash
<1>9. CASE \/ ReconcileGone \/ ReconcileActive \/ ReconcileDeletes \/ CreateSucceeds \/ CreateLost
           \/ GetScaleSet \/ UpdateLabels \/ DeleteSucceeds \/ DeleteFails \/ UpdateFails
           \/ SecretEvent \/ (\E i \in Ids : CacheExpires(i)) \/ UNCHANGED vars
  BY <1>9 DEF ReconcileGone, ReconcileActive, ReconcileDeletes, BeginReconcile, CreateSucceeds,
              CreateLost, GetScaleSet, UpdateLabels, DeleteSucceeds, DeleteFails, UpdateFails,
              SecretEvent, CacheExpires, vars, objectVars
<1>10. QED
  BY <1>2, <1>3, <1>4, <1>5, <1>6, <1>7, <1>8, <1>9 DEF Next, Reconcile

(* The spec of the object only moves on. *)
LEMMA SeenBeforeStep ==
    ASSUME TypeOK, ProtectionInv, SeenBefore, [Next]_vars PROVE SeenBefore'
<1>0. /\ aset \in AutoscaleSet /\ seen \in AutoscaleSet
      /\ aset.gen \in Nat /\ seen.gen \in Nat
  BY Generation DEF TypeOK
<1>1. CASE seen' = aset /\ aset' = aset
  BY <1>0, <1>1 DEF SeenBefore
<1>2. CASE seen' = seen
  <2>1. CASE CreateAutoscaleSet
    BY <1>2, <2>1 DEF CreateAutoscaleSet, SeenBefore
  <2>2. CASE EditAutoscaleSet
    <3>1. aset.state # "absent" /\ aset'.gen = aset.gen + 1
      BY <1>0, <2>2 DEF EditAutoscaleSet, UserWrites, AutoscaleSet
    <3>2. QED
      BY <1>0, <1>2, <3>1 DEF SeenBefore
  <2>3. CASE DeleteAutoscaleSet
    <3>1. aset.state = "present" /\ (aset'.gen = aset.gen \/ aset'.state = "absent")
      BY <1>0, <2>3, Nothing DEF DeleteAutoscaleSet, UserWrites, AutoscaleSet
    <3>2. QED
      BY <1>2, <3>1 DEF SeenBefore
  <2>4. QED
    BY <1>2, <2>1, <2>2, <2>3, ObjectStep, Nothing DEF SeenBefore
<1>3. QED
  BY <1>1, <1>2, ObjectStep

(* An object on its way out, and a status, are there with the finalizer only. *)
LEMMA KeptStep ==
    ASSUME TypeOK, ProtectionInv, KeptByFinalizer, [Next]_vars PROVE KeptByFinalizer'
<1>0. aset \in AutoscaleSet /\ NoAutoscaleSet.phase = ""
  BY DEF TypeOK, NoAutoscaleSet
<1>1. /\ aset'.state = "deleting" => aset'.finalizer
      /\ ~aset'.finalizer => aset'.phase = ""
  <2>1. CASE CreateAutoscaleSet
    BY <1>0, <2>1, Nothing DEF CreateAutoscaleSet, UserWrites, AutoscaleSet
  <2>2. CASE EditAutoscaleSet
    BY <1>0, <2>2 DEF EditAutoscaleSet, UserWrites, AutoscaleSet, KeptByFinalizer
  <2>3. CASE DeleteAutoscaleSet
    BY <1>0, <2>3, Nothing DEF DeleteAutoscaleSet, UserWrites, AutoscaleSet, KeptByFinalizer
  <2>4. QED
    BY <1>0, <2>1, <2>2, <2>3, ObjectStep, Nothing DEF KeptByFinalizer
<1>2. QED
  BY <1>1, ObjectStep DEF KeptByFinalizer

(* A creation is for the spec that the informer shows, unless a request says that
   it has changed. *)
LEMMA CreatesStep ==
    ASSUME TypeOK, ProtectionInv, RecordInv, CreatesTheSeen, [Next]_vars
    PROVE  CreatesTheSeen'
<1> USE DEF CreatesTheSeen, objectVars, githubVars
<1>1. CASE pc' \notin {"create", "store"}
  BY <1>1
<1>2. CASE ReconcileActive
  BY <1>2 DEF ReconcileActive, BeginReconcile
<1>3. CASE CreateSucceeds
  <2>1. PICK labels \in GitHubStores(BuildLabels(work)) : github' = [github EXCEPT ![nextId] = labels]
    BY <1>3 DEF CreateSucceeds, GitHubCreates
  <2>2. /\ pc = "create" /\ pc' = "store" /\ nextId \in Ids /\ have'.id = nextId
        /\ UNCHANGED <<seen, queued, work>>
    BY <1>3 DEF CreateSucceeds, GitHubCreates
  <2>3. github'[have'.id] = labels
    BY <2>1, <2>2 DEF TypeOK
  <2>4. LabelsEqual(labels, BuildLabels(work))
    BY StoredCompares DEF TypeOK
  <2>5. QED
    BY <2>2, <2>3, <2>4 DEF LabelsEqual
<1>4. CASE CreateLost
  BY <1>4 DEF CreateLost, GitHubCreates
<1>5. CASE InformerSync
  BY <1>5 DEF InformerSync, LabelsEqual
<1>6. CASE SecretEvent \/ (\E i \in Ids : CacheExpires(i)) \/ User \/ UNCHANGED vars
  BY <1>6 DEF SecretEvent, CacheExpires, User, CreateAutoscaleSet, EditAutoscaleSet,
              DeleteAutoscaleSet, UserWrites, LabelsEqual, vars
<1>7. CASE \/ ReconcileGone \/ ReconcileAddsFinalizer \/ ReconcileFails \/ CreateRefused \/ StoreId
           \/ GetScaleSet \/ GetFails \/ UpdateLabels \/ UpdateLabelsFails \/ StoreStatus
           \/ ReconcileDeletes \/ DeleteSucceeds \/ DeleteFails \/ Unfinalize \/ UpdateFails \/ Crash
  <2>1. pc' \notin {"create", "store"}
    BY <1>7 DEF ReconcileGone, ReconcileAddsFinalizer, BeginReconcile, ReconcileFails, CreateRefused,
                StoreId, GetScaleSet, GetFails, UpdateLabels, UpdateLabelsFails, StoreStatus,
                ReconcileDeletes, DeleteSucceeds, DeleteFails, Unfinalize, UpdateFails, Crash,
                ReturnError, Return
  <2>2. QED
    BY <1>1, <2>1
<1>8. QED
  BY <1>2, <1>3, <1>4, <1>5, <1>6, <1>7 DEF Next, Reconcile

(* The steps after which the controller rests leave nothing to do, and no step of
   others that would give it something to do leaves it resting. *)
LEMMA RestStep ==
    ASSUME TypeOK, ProtectionInv, RecordInv, RestInv, [Next]_vars
    PROVE  RestsWhenDone'
<1> SUFFICES ASSUME Resting', aset'.state # "absent" PROVE RestsWhenDone'
  BY DEF RestsWhenDone
<1>0. aset \in AutoscaleSet /\ seen \in AutoscaleSet /\ aset.gen \in Nat /\ seen.gen \in Nat
  BY Generation DEF TypeOK
<1>1. /\ ~queued' /\ pc' = "idle" /\ seen'.state = aset'.state /\ seen'.gen = aset'.gen
  BY DEF Resting
(* It was resting before, and nothing that matters has changed. *)
<1>2. CASE Resting /\ aset' = aset /\ github' = github
  BY <1>2 DEF RestInv, RestsWhenDone, LabelsEqual
<1>3. CASE ReconcileGone
  BY <1>1, <1>3 DEF ReconcileGone, BeginReconcile, RestInv, KeptByFinalizer
<1>4. CASE ReconcileAddsFinalizer
  <2>1. /\ aset'.state = "present" /\ aset'.finalizer /\ aset'.id = aset.id
        /\ aset'.phase = aset.phase /\ ~aset.finalizer
    BY <1>0, <1>4 DEF ReconcileAddsFinalizer, BeginReconcile, AutoscaleSet
  <2>2. aset.id = NoId /\ aset.phase = ""
    BY <2>1 DEF RecordInv, RecordedUnderFinalizer, RestInv, KeptByFinalizer
  <2>3. QED
    BY <2>1, <2>2 DEF RestsWhenDone
<1>5. CASE StoreId
  (* The edits that came during the creation would have put the request back. *)
  <2>1. /\ ~queued /\ seen = aset /\ pc = "store" /\ github' = github
        /\ aset' = [aset EXCEPT !.id = have.id, !.phase = "Active"]
    BY <1>1, <1>5 DEF StoreId, Update, githubVars
  <2>2. /\ aset'.state = aset.state /\ aset'.finalizer = aset.finalizer /\ aset'.gen = aset.gen
        /\ aset'.id = have.id
    BY <1>0, <2>1 DEF AutoscaleSet
  <2>3. /\ aset.state = "present" /\ aset.gen = work.gen
        /\ LabelsEqual(github[have.id], BuildLabels(work))
    BY <2>1 DEF RestInv, CreatesTheSeen
  <2>4. aset.finalizer /\ have.id # NoId
    BY <2>1, AutoscaleSetAssumption
       DEF ProtectionInv, StepProtected, Protecting, RecordInv, StoresTheLast, Ids, NoId
  <2>5. BuildLabels(aset') = BuildLabels(work)
    BY <2>2, <2>3, SameSpec
  <2>6. QED
    BY <2>1, <2>2, <2>3, <2>4, <2>5 DEF RestsWhenDone, LabelsEqual
<1>6. CASE Unfinalize
  BY <1>1, <1>6, Nothing DEF Unfinalize, Update
<1>7. CASE InformerSync
  <2>1. Resting /\ aset' = aset /\ github' = github
    BY <1>1, <1>7 DEF InformerSync, Resting, githubVars
  <2>2. QED
    BY <1>2, <2>1
<1>8. CASE (\E i \in Ids : CacheExpires(i)) \/ UNCHANGED vars
  <2>1. Resting /\ aset' = aset /\ github' = github
    BY <1>1, <1>8 DEF CacheExpires, Resting, vars, objectVars, githubVars
  <2>2. QED
    BY <1>2, <2>1
<1>9. CASE CreateAutoscaleSet
  BY <1>1, <1>9, Nothing DEF CreateAutoscaleSet, UserWrites
<1>10. CASE EditAutoscaleSet
  <2>1. /\ aset.state # "absent" /\ aset'.gen = aset.gen + 1 /\ aset'.state = aset.state
        /\ seen' = seen
    BY <1>0, <1>10 DEF EditAutoscaleSet, UserWrites, AutoscaleSet
  <2>2. seen.gen <= aset.gen
    BY <1>1, <2>1 DEF RestInv, SeenBefore
  <2>3. QED
    BY <1>0, <1>1, <2>1, <2>2
<1>11. CASE DeleteAutoscaleSet
  <2>1. aset.state = "present" /\ aset'.state = "deleting" /\ seen' = seen
    BY <1>0, <1>11, Nothing DEF DeleteAutoscaleSet, UserWrites, AutoscaleSet
  <2>2. QED
    BY <1>1, <2>1 DEF ProtectionInv, FinalizerSeen
(* The other steps put the request back or have a step to follow. *)
<1>12. CASE \/ ReconcileActive \/ ReconcileFails \/ CreateSucceeds \/ CreateLost \/ CreateRefused
            \/ GetScaleSet \/ GetFails \/ UpdateLabels \/ UpdateLabelsFails \/ StoreStatus
            \/ ReconcileDeletes \/ DeleteSucceeds \/ DeleteFails \/ UpdateFails
            \/ SecretEvent \/ Crash
  <2>1. queued' \/ pc' # "idle" \/ aset'.state = "absent"
    BY <1>12 DEF ReconcileActive, ReconcileFails, BeginReconcile, CreateSucceeds, CreateLost,
                 GitHubCreates, CreateRefused, GetScaleSet, GetFails, UpdateLabels,
                 UpdateLabelsFails, StoreStatus, ReconcileDeletes, DeleteSucceeds, DeleteFails,
                 UpdateFails, SecretEvent, Crash, ReturnError
  <2>2. QED
    BY <1>1, <2>1
<1>13. QED
  BY <1>3, <1>4, <1>5, <1>6, <1>7, <1>8, <1>9, <1>10, <1>11, <1>12 DEF Next, Reconcile, User

(* The invariants of the controller hold together. *)
THEOREM ControllerInvariant == Spec => [](TypeOK /\ ProtectionInv /\ RecordInv /\ RestInv)
<1>1. Init => RecordInv /\ RestInv
  <2> SUFFICES ASSUME Init PROVE RecordInv /\ RestInv
    OBVIOUS
  <2>1. RecordInv
    BY Nothing DEF Init, RecordInv, StoresTheLast, RecordedUnderFinalizer, RecordedIsThere
  <2>2. RestInv
    BY Nothing DEF Init, RestInv, SeenBefore, KeptByFinalizer, CreatesTheSeen, RestsWhenDone,
                   NoAutoscaleSet
  <2>3. QED
    BY <2>1, <2>2
<1>2. TypeOK /\ ProtectionInv /\ RecordInv /\ RestInv /\ [Next]_vars => RecordInv' /\ RestInv'
  <2>1. TypeOK /\ ProtectionInv /\ RecordInv /\ RestInv /\ [Next]_vars => RestsWhenDone'
    BY RestStep
  <2>2. QED
    BY <2>1, RecordStep, SeenBeforeStep, KeptStep, CreatesStep DEF RestInv
<1>3. QED
  BY <1>1, <1>2, ProtectionInvariant, PTL DEF Spec

(* No request is lost: when nothing is queued, worked on or on its way from the
   informer, there is no deletion to finish and no error to recover from, and the
   scale set that is recorded carries the labels of the present spec. *)
THEOREM RestCorrect == Spec => []RestsWhenDone
<1>1. RestInv => RestsWhenDone
  BY DEF RestInv
<1>2. QED
  BY <1>1, ControllerInvariant, PTL

==============================================================================
