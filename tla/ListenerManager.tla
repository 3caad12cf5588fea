---------------------------- MODULE ListenerManager ----------------------------
(****************************************************************************)
(* The listener manager (internal/listener): a mutex-protected map from     *)
(* listener keys to running listeners, the goroutine that serves each of    *)
(* them, and the shutdown runnable that drains the map when the operator    *)
(* stops.                                                                   *)
(*                                                                          *)
(* The mutex is not a variable: each critical section is one action.  What  *)
(* happens between critical sections (a stop signal on its way to the       *)
(* message loop, a loop that has returned but whose entry is still there)   *)
(* is the state of the goroutine.  A listener object whose goroutine has    *)
(* ended is garbage and its identity may be used again.                     *)
(****************************************************************************)
CONSTANTS
    Keys,        \* ListenerKey: an AutoscaleSet and a runner group
    Listeners,   \* RunnerGroupListener objects
    NoListener   \* the value of an absent map entry

ASSUME NoListenerAssumption == NoListener \notin Listeners

VARIABLES
    listeners,   \* Manager.listeners
    key,         \* key[l]: the key that the goroutine of l captured
    goroutine,   \* goroutine[l]: "none", "running" (in Run), "returned"
    stopCh,      \* stopCh[l]: the stop channel of l is closed
    runCtx,      \* runCtx[l]: the context made by Run is cancelled
    mgrCtx,      \* the manager's context, parent of every runCtx, is done
    stopAll      \* StopAll's progress, and what it drained and not signalled

goroutineVars == <<key, goroutine, runCtx>>
managerVars == <<listeners, stopCh>>
vars == <<listeners, key, goroutine, stopCh, runCtx, mgrCtx, stopAll>>

GoroutineStates == {"none", "running", "returned"}

TypeOK ==
    /\ listeners \in [Keys -> Listeners \cup {NoListener}]
    /\ key \in [Listeners -> Keys]
    /\ goroutine \in [Listeners -> GoroutineStates]
    /\ stopCh \in [Listeners -> BOOLEAN]
    /\ runCtx \in [Listeners -> BOOLEAN]
    /\ mgrCtx \in BOOLEAN
    /\ stopAll \in [pc : {"waiting", "looping", "done"}, left : SUBSET Listeners]

Init ==
    /\ listeners = [k \in Keys |-> NoListener]
    /\ key \in [Listeners -> Keys]
    /\ goroutine = [l \in Listeners |-> "none"]
    /\ stopCh = [l \in Listeners |-> FALSE]
    /\ runCtx = [l \in Listeners |-> FALSE]
    /\ mgrCtx = FALSE
    /\ stopAll = [pc |-> "waiting", left |-> {}]

HasListener(k) == listeners[k] # NoListener

(* StartListener registers a new listener and starts its goroutine.  With an
   entry for the key it returns an error and changes nothing. *)
StartListener(k, l) ==
    /\ ~HasListener(k)
    /\ goroutine[l] = "none"
    /\ l \notin stopAll.left
    /\ listeners' = [listeners EXCEPT ![k] = l]
    /\ key' = [key EXCEPT ![l] = k]
    /\ goroutine' = [goroutine EXCEPT ![l] = "running"]
    /\ stopCh' = [stopCh EXCEPT ![l] = FALSE]
    /\ runCtx' = [runCtx EXCEPT ![l] = FALSE]
    /\ UNCHANGED <<mgrCtx, stopAll>>

(* StopListener closes the stop channel and drops the entry at once: nothing
   waits for the goroutine to end. *)
StopListener(k) ==
    /\ HasListener(k)
    /\ stopCh' = [stopCh EXCEPT ![listeners[k]] = TRUE]
    /\ listeners' = [listeners EXCEPT ![k] = NoListener]
    /\ UNCHANGED <<goroutineVars, mgrCtx, stopAll>>

(* Seeded fault: the watcher only returns, it does not cancel. *)
WatchStopIdle(l) ==
    /\ goroutine[l] = "running" /\ stopCh[l] /\ ~runCtx[l]
    /\ UNCHANGED vars

(* The goroutine inside Run that turns the closed channel into a cancelled
   context. *)
WatchStop(l) ==
    /\ goroutine[l] = "running" /\ stopCh[l] /\ ~runCtx[l]
    /\ runCtx' = [runCtx EXCEPT ![l] = TRUE]
    /\ UNCHANGED <<managerVars, key, goroutine, mgrCtx, stopAll>>

(* Run's deferred cancel, on every return of the message loop. *)
RunReturns(l) ==
    /\ goroutine[l] = "running"
    /\ goroutine' = [goroutine EXCEPT ![l] = "returned"]
    /\ runCtx' = [runCtx EXCEPT ![l] = TRUE]
    /\ UNCHANGED <<managerVars, key, mgrCtx, stopAll>>

(* Seeded fault: the loop's context is not derived from the manager's. *)
DetachedCtxDone(l) == runCtx[l]

CtxDone(l) == runCtx[l] \/ mgrCtx

(* The message loop ends because its context is done, or because the session
   or the scaler returned an error. *)
RunCancelled(l) == CtxDone(l) /\ RunReturns(l)
RunFails(l) == ~CtxDone(l) /\ RunReturns(l)

(* Seeded fault: a loop that failed leaves its entry in the map. *)
ExitKeepsEntry(l) ==
    /\ goroutine[l] = "returned"
    /\ goroutine' = [goroutine EXCEPT ![l] = "none"]
    /\ UNCHANGED <<managerVars, key, runCtx, mgrCtx, stopAll>>

(* The end of the goroutine deletes the entry of the key it captured,
   whichever listener that entry holds by now.  The object is garbage from here
   on, and its channel and context with it. *)
Deregister(l) ==
    /\ goroutine[l] = "returned"
    /\ listeners' = [listeners EXCEPT ![key[l]] = NoListener]
    /\ goroutine' = [goroutine EXCEPT ![l] = "none"]
    /\ stopCh' = [stopCh EXCEPT ![l] = FALSE]
    /\ runCtx' = [runCtx EXCEPT ![l] = FALSE]
    /\ UNCHANGED <<key, mgrCtx, stopAll>>

(* The operator receives its stop signal. *)
CancelManager ==
    /\ ~mgrCtx
    /\ mgrCtx' = TRUE
    /\ UNCHANGED <<managerVars, goroutineVars, stopAll>>

Registered == {l \in Listeners : \E k \in Keys : listeners[k] = l}

(* Seeded fault: the copy of the map holds its absent entries too. *)
StopAllDrainsAbsent ==
    /\ mgrCtx /\ stopAll.pc = "waiting"
    /\ stopAll' = [pc |-> "looping", left |-> {listeners[k] : k \in Keys}]
    /\ listeners' = [k \in Keys |-> NoListener]
    /\ UNCHANGED <<goroutineVars, stopCh, mgrCtx>>

(* ShutdownRunnable wakes up and StopAll takes everything out of the map. *)
StopAllDrain ==
    /\ mgrCtx /\ stopAll.pc = "waiting"
    /\ stopAll' = [pc |-> IF Registered = {} THEN "done" ELSE "looping",
                   left |-> Registered]
    /\ listeners' = [k \in Keys |-> NoListener]
    /\ UNCHANGED <<goroutineVars, stopCh, mgrCtx>>

(* One round of StopAll's loop: return if the caller's context is done,
   otherwise signal the next listener.  ShutdownRunnable passes the context
   whose end it has just waited for. *)
StopAllLoop ==
    /\ stopAll.pc = "looping"
    /\ \E l \in stopAll.left :
          IF mgrCtx
          THEN /\ stopAll' = [stopAll EXCEPT !.pc = "done"]
               /\ UNCHANGED stopCh
          ELSE /\ stopCh' = [stopCh EXCEPT ![l] = TRUE]
               /\ stopAll' = [pc |-> IF stopAll.left = {l} THEN "done" ELSE "looping",
                              left |-> stopAll.left \ {l}]
    /\ UNCHANGED <<listeners, goroutineVars, mgrCtx>>

ListenerStep(l) == WatchStop(l) \/ RunCancelled(l) \/ Deregister(l)
Shutdown == StopAllDrain \/ StopAllLoop

Next ==
    \/ \E k \in Keys :
          \/ \E l \in Listeners : StartListener(k, l)
          \/ StopListener(k)
    \/ \E l \in Listeners : ListenerStep(l) \/ RunFails(l)
    \/ CancelManager
    \/ Shutdown

(* A goroutine that can run does run.  Nobody has to start, stop or break a
   listener, and the operator need not be stopped. *)
Fairness ==
    /\ \A l \in Listeners : WF_vars(ListenerStep(l))
    /\ WF_vars(Shutdown)

Spec == Init /\ [][Next]_vars /\ Fairness

------------------------------------------------------------------------------
(* What HasListener answers "yes" about is one goroutine that is still there
   and that nobody has told to stop: an entry can neither outlive its
   listener (the key would be blocked for ever) nor stand for a listener that
   StopListener or StopAll already handled. *)
RegisteredIsLive ==
    \A k \in Keys : HasListener(k) =>
        LET l == listeners[k]
        IN  /\ goroutine[l] \in {"running", "returned"}
            /\ key[l] = k
            /\ ~stopCh[l]

(* RegisteredIsLive is inductive once StopAll is known to loop only under a
   context that is already done: that loop returns before it signals anyone. *)
RegistrationInv ==
    /\ RegisteredIsLive
    /\ stopAll.pc = "looping" => mgrCtx

(* A listener taken out of the map and told to stop ends, although StopListener
   itself does not wait for it. *)
StoppedListenerEnds ==
    \A l \in Listeners :
        (goroutine[l] = "running" /\ stopCh[l]) ~> (goroutine[l] = "none")

(* Every listener ends once the operator is stopping, the ones that are started
   while it is stopping included. *)
ShutdownEndsListeners ==
    \A l \in Listeners :
        (goroutine[l] = "running" /\ mgrCtx) ~> (goroutine[l] = "none")
==============================================================================
