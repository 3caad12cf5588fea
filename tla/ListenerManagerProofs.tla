------------------------- MODULE ListenerManagerProofs -------------------------
(****************************************************************************)
(* Proofs about ListenerManager, for every set of keys and of listeners.    *)
(****************************************************************************)
EXTENDS ListenerManager, TLAPS

(* Every variable of the listener manager keeps its type. *)
THEOREM TypeCorrect == Spec => []TypeOK
<1>1. Init => TypeOK
  <2> SUFFICES ASSUME Init PROVE TypeOK
    OBVIOUS
  <2>1. stopCh \in [Listeners -> BOOLEAN] /\ runCtx \in [Listeners -> BOOLEAN]
    BY Zenon DEF Init
  <2>2. mgrCtx \in BOOLEAN
    BY Zenon DEF Init
  <2>3. stopAll \in [pc : {"waiting", "looping", "done"}, left : SUBSET Listeners]
    BY DEF Init
  <2>4. QED
    BY <2>1, <2>2, <2>3 DEF Init, TypeOK, GoroutineStates
<1>2. TypeOK /\ [Next]_vars => TypeOK'
  <2> SUFFICES ASSUME TypeOK, [Next]_vars
               PROVE  TypeOK'
    OBVIOUS
  <2> USE DEF TypeOK, GoroutineStates
  <2>1. ASSUME NEW k \in Keys, NEW l \in Listeners, StartListener(k, l)
        PROVE  TypeOK'
    BY <2>1 DEF StartListener
  <2>2. ASSUME NEW k \in Keys, StopListener(k)
        PROVE  TypeOK'
    BY <2>2 DEF StopListener, goroutineVars
  <2>3. ASSUME NEW l \in Listeners, WatchStop(l)
        PROVE  TypeOK'
    BY <2>3 DEF WatchStop, managerVars
  <2>4. ASSUME NEW l \in Listeners, RunReturns(l)
        PROVE  TypeOK'
    BY <2>4 DEF RunReturns, managerVars
  <2>5. ASSUME NEW l \in Listeners, Deregister(l)
        PROVE  TypeOK'
    BY <2>5 DEF Deregister
  <2>6. CASE CancelManager
    BY <2>6 DEF CancelManager, managerVars, goroutineVars
  <2>7. CASE StopAllDrain
    BY <2>7 DEF StopAllDrain, Registered, goroutineVars
  <2>8. CASE StopAllLoop
    <3>1. PICK l \in stopAll.left : StopAllLoop!2!(l)
      BY <2>8 DEF StopAllLoop
    <3>2. CASE mgrCtx
      BY <2>8, <3>1, <3>2 DEF StopAllLoop, goroutineVars
    <3>3. CASE ~mgrCtx
      <4>1. l \in Listeners
        OBVIOUS
      <4>2. stopCh' \in [Listeners -> BOOLEAN]
        BY <3>1, <3>3, <4>1
      <4>3. stopAll' \in [pc : {"waiting", "looping", "done"}, left : SUBSET Listeners]
        BY <3>1, <3>3
      <4>4. QED
        BY <2>8, <4>2, <4>3 DEF StopAllLoop, goroutineVars
    <3>4. QED
      BY <3>2, <3>3
  <2>9. CASE UNCHANGED vars
    BY <2>9 DEF vars
  <2>10. QED
    BY <2>1, <2>2, <2>3, <2>4, <2>5, <2>6, <2>7, <2>8, <2>9
       DEF Next, ListenerStep, Shutdown, RunCancelled, RunFails
<1>3. QED
  BY <1>1, <1>2, PTL DEF Spec

(* The invariant of the map is inductive together with the types: an entry
   leaves the map before, or together with, the event that would make it
   stale. *)
LEMMA RegisteredStep ==
  ASSUME TypeOK, RegistrationInv, [Next]_vars
  PROVE  RegistrationInv'
<1> USE NoListenerAssumption DEF TypeOK, RegistrationInv, RegisteredIsLive, HasListener
<1>1. ASSUME NEW k \in Keys, NEW l \in Listeners, StartListener(k, l)
      PROVE  RegistrationInv'
  BY <1>1 DEF StartListener
<1>2. ASSUME NEW k \in Keys, StopListener(k)
      PROVE  RegistrationInv'
  <2> SUFFICES ASSUME NEW j \in Keys, HasListener(j)'
               PROVE  /\ goroutine'[listeners'[j]] \in {"running", "returned"}
                      /\ key'[listeners'[j]] = j
                      /\ ~stopCh'[listeners'[j]]
    BY <1>2 DEF StopListener, goroutineVars
  <2>1. j # k /\ listeners'[j] = listeners[j]
    BY <1>2 DEF StopListener
  (* Two keys cannot hold the same listener: it captured one of them. *)
  <2>2. listeners[j] # listeners[k]
    BY <1>2, <2>1 DEF StopListener
  <2>3. QED
    BY <1>2, <2>1, <2>2 DEF StopListener, goroutineVars
<1>3. ASSUME NEW l \in Listeners, WatchStop(l)
      PROVE  RegistrationInv'
  BY <1>3 DEF WatchStop, managerVars
<1>4. ASSUME NEW l \in Listeners, RunReturns(l)
      PROVE  RegistrationInv'
  BY <1>4 DEF RunReturns, managerVars
<1>5. ASSUME NEW l \in Listeners, Deregister(l)
      PROVE  RegistrationInv'
  <2> SUFFICES ASSUME NEW j \in Keys, HasListener(j)'
               PROVE  /\ goroutine'[listeners'[j]] \in {"running", "returned"}
                      /\ key'[listeners'[j]] = j
                      /\ ~stopCh'[listeners'[j]]
    BY <1>5 DEF Deregister
  <2>1. j # key[l] /\ listeners'[j] = listeners[j]
    BY <1>5 DEF Deregister
  <2>2. listeners[j] # l
    BY <2>1
  <2>3. QED
    BY <1>5, <2>1, <2>2 DEF Deregister
<1>6. CASE CancelManager
  BY <1>6 DEF CancelManager, managerVars, goroutineVars
<1>7. CASE StopAllDrain
  BY <1>7 DEF StopAllDrain, goroutineVars
<1>8. CASE StopAllLoop
  BY <1>8 DEF StopAllLoop, goroutineVars
<1>9. CASE UNCHANGED vars
  BY <1>9 DEF vars
<1>10. QED
  BY <1>1, <1>2, <1>3, <1>4, <1>5, <1>6, <1>7, <1>8, <1>9
     DEF Next, ListenerStep, Shutdown, RunCancelled, RunFails

(* An entry of the map always stands for exactly one goroutine that has not
   ended and has not been told to stop. *)
THEOREM RegistrationCorrect == Spec => []RegisteredIsLive
<1>1. Init => RegistrationInv
  BY DEF Init, RegistrationInv, RegisteredIsLive, HasListener
<1>2. TypeOK /\ RegistrationInv /\ [Next]_vars => RegistrationInv'
  BY RegisteredStep
<1>3. RegistrationInv => RegisteredIsLive
  BY DEF RegistrationInv
<1>4. QED
  BY <1>1, <1>2, <1>3, TypeCorrect, PTL DEF Spec
==============================================================================
