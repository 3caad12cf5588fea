---------------------------- MODULE DebouncedScaler ----------------------------
(****************************************************************************)
(* The debouncer in front of the scaler (internal/scaler/debounced_scaler). *)
(* Every HandleDesiredRunnerCount call replaces the pending one, cancels    *)
(* its context and re-arms the timer; the timer's callback forwards what is *)
(* pending when it gets the mutex, on a goroutine of its own.               *)
(*                                                                          *)
(* Calls are numbered in the order in which they take the mutex, and a call *)
(* stands for its count, its derived context and its result channel.  The   *)
(* context that a call derives is done when a later call replaces it or     *)
(* when the caller's own context is done; the caller cannot tell which.     *)
(* Critical sections are single actions.                                    *)
(****************************************************************************)
EXTENDS Integers

CONSTANT MaxCalls   \* bound on the number of calls

ASSUME MaxCallsAssumption == MaxCalls \in Nat

Calls == 1 .. MaxCalls
NoCall == 0

VARIABLES
    latest,     \* the last call to take the mutex: d.timer, d.latestCtx, d.resultCh
    pending,    \* d.pending
    caller,     \* caller[c]: "out", "waiting", "result", "cancelled"
    ctxDone,    \* ctxDone[c]: the context derived by c is done
    timer,      \* timer[c]: "off", "armed", "fired", "inner", "ended"
    serving,    \* serving[c]: the call that c's callback took from d.pending
    resultCh,   \* resultCh[c]: the call whose result is in c's channel
    forwarded   \* the last call handed to the inner scaler

vars == <<latest, pending, caller, ctxDone, timer, serving, resultCh, forwarded>>

TypeOK ==
    /\ latest \in 0 .. MaxCalls
    /\ pending \in 0 .. MaxCalls
    /\ caller \in [Calls -> {"out", "waiting", "result", "cancelled"}]
    /\ ctxDone \in [Calls -> BOOLEAN]
    /\ timer \in [Calls -> {"off", "armed", "fired", "inner", "ended"}]
    /\ serving \in [Calls -> 0 .. MaxCalls]
    /\ resultCh \in [Calls -> 0 .. MaxCalls]
    /\ forwarded \in 0 .. MaxCalls

Init ==
    /\ latest = NoCall /\ pending = NoCall /\ forwarded = NoCall
    /\ caller = [c \in Calls |-> "out"]
    /\ ctxDone = [c \in Calls |-> FALSE]
    /\ timer = [c \in Calls |-> "off"]
    /\ serving = [c \in Calls |-> NoCall]
    /\ resultCh = [c \in Calls |-> NoCall]

(* Stop() prevents the callback only if the timer has not fired yet. *)
Stopped(state) == IF state = "armed" THEN "off" ELSE state

(* Seeded fault: the previous call's context is left alone. *)
CallKeepsPrevious ==
    /\ latest < MaxCalls
    /\ latest' = latest + 1
    /\ pending' = latest'
    /\ caller' = [caller EXCEPT ![latest'] = "waiting"]
    /\ timer' = [c \in Calls |-> IF c = latest' THEN "armed"
                                 ELSE IF c = latest THEN Stopped(timer[c])
                                 ELSE timer[c]]
    /\ UNCHANGED <<ctxDone, serving, resultCh, forwarded>>

(* The locked part of HandleDesiredRunnerCount. *)
Call ==
    /\ latest < MaxCalls
    /\ latest' = latest + 1
    /\ pending' = latest'
    /\ caller' = [caller EXCEPT ![latest'] = "waiting"]
    /\ ctxDone' = [c \in Calls |-> ctxDone[c] \/ c = latest]
    /\ timer' = [c \in Calls |-> IF c = latest' THEN "armed"
                                 ELSE IF c = latest THEN Stopped(timer[c])
                                 ELSE timer[c]]
    /\ UNCHANGED <<serving, resultCh, forwarded>>

(* The context passed in by the caller is cancelled. *)
CancelCaller(c) ==
    /\ caller[c] = "waiting" /\ ~ctxDone[c]
    /\ ctxDone' = [ctxDone EXCEPT ![c] = TRUE]
    /\ UNCHANGED <<latest, pending, caller, timer, serving, resultCh, forwarded>>

(* The debounce window of c is over; the callback has yet to get the mutex. *)
TimerFires(c) ==
    /\ timer[c] = "armed"
    /\ timer' = [timer EXCEPT ![c] = "fired"]
    /\ UNCHANGED <<latest, pending, caller, ctxDone, serving, resultCh, forwarded>>

(* Seeded fault: d.pending is not reset. *)
CallbackKeepsPending(c) ==
    /\ timer[c] = "fired"
    /\ IF pending = NoCall
       THEN /\ timer' = [timer EXCEPT ![c] = "ended"]
            /\ UNCHANGED <<serving, forwarded>>
       ELSE /\ timer' = [timer EXCEPT ![c] = "inner"]
            /\ serving' = [serving EXCEPT ![c] = pending]
            /\ forwarded' = pending
    /\ UNCHANGED <<latest, pending, caller, ctxDone, resultCh>>

(* Seeded fault: a callback that finds itself replaced drops what is pending. *)
CallbackDropsPending(c) ==
    /\ timer[c] = "fired"
    /\ IF pending # c
       THEN /\ timer' = [timer EXCEPT ![c] = "ended"]
            /\ UNCHANGED <<serving, forwarded>>
       ELSE /\ timer' = [timer EXCEPT ![c] = "inner"]
            /\ serving' = [serving EXCEPT ![c] = pending]
            /\ forwarded' = pending
    /\ pending' = NoCall
    /\ UNCHANGED <<latest, caller, ctxDone, resultCh>>

(* Seeded fault: the callback forwards the count it was armed with. *)
CallbackForwardsOwn(c) ==
    /\ timer[c] = "fired"
    /\ IF pending = NoCall
       THEN /\ timer' = [timer EXCEPT ![c] = "ended"]
            /\ UNCHANGED <<serving, forwarded>>
       ELSE /\ timer' = [timer EXCEPT ![c] = "inner"]
            /\ serving' = [serving EXCEPT ![c] = c]
            /\ forwarded' = c
    /\ pending' = NoCall
    /\ UNCHANGED <<latest, caller, ctxDone, resultCh>>

(* The locked part of the callback: it takes whatever is pending by now. *)
Callback(c) ==
    /\ timer[c] = "fired"
    /\ IF pending = NoCall
       THEN /\ timer' = [timer EXCEPT ![c] = "ended"]
            /\ UNCHANGED <<serving, forwarded>>
       ELSE /\ timer' = [timer EXCEPT ![c] = "inner"]
            /\ serving' = [serving EXCEPT ![c] = pending]
            /\ forwarded' = pending
    /\ pending' = NoCall
    /\ UNCHANGED <<latest, caller, ctxDone, resultCh>>

(* Seeded fault: the result goes to d.resultCh as it is by now. *)
InnerReturnsToLatest(c) ==
    /\ timer[c] = "inner"
    /\ timer' = [timer EXCEPT ![c] = "ended"]
    /\ resultCh' = [resultCh EXCEPT ![latest] = serving[c]]
    /\ UNCHANGED <<latest, pending, caller, ctxDone, serving, forwarded>>

(* The inner call returns and its result is sent, without blocking, to the
   channel captured together with the count. *)
InnerReturns(c) ==
    /\ timer[c] = "inner"
    /\ timer' = [timer EXCEPT ![c] = "ended"]
    /\ resultCh' = [resultCh EXCEPT ![serving[c]] = IF @ = NoCall THEN serving[c] ELSE @]
    /\ UNCHANGED <<latest, pending, caller, ctxDone, serving, forwarded>>

(* The caller's select: any of the ready cases. *)
ReturnResult(c) ==
    /\ caller[c] = "waiting" /\ resultCh[c] # NoCall
    /\ caller' = [caller EXCEPT ![c] = "result"]
    /\ UNCHANGED <<latest, pending, ctxDone, timer, serving, resultCh, forwarded>>

ReturnCancelled(c) ==
    /\ caller[c] = "waiting" /\ ctxDone[c]
    /\ caller' = [caller EXCEPT ![c] = "cancelled"]
    /\ UNCHANGED <<latest, pending, ctxDone, timer, serving, resultCh, forwarded>>

TimerStep(c) == TimerFires(c) \/ Callback(c) \/ InnerReturns(c)
Return(c) == ReturnResult(c) \/ ReturnCancelled(c)

Next ==
    \/ Call
    \/ \E c \in Calls : CancelCaller(c) \/ TimerStep(c) \/ Return(c)

(* Timers fire, callbacks get the mutex, the inner call returns and a ready
   select is taken.  No call has to be made or cancelled. *)
Fairness == \A c \in Calls : WF_vars(TimerStep(c)) /\ WF_vars(Return(c))

Spec == Init /\ [][Next]_vars /\ Fairness

------------------------------------------------------------------------------
(* Coalescing: whichever callback forwards a call, it is the latest one made,
   and no call is forwarded twice or after a later one. *)
ForwardsLatest ==
    [][\A c \in Calls : timer[c] # "inner" /\ timer'[c] = "inner"
          => serving'[c] = latest /\ serving'[c] > forwarded]_vars

CtxLive(c) == timer[c] = "inner" /\ ~ctxDone[serving[c]]

(* Two inner calls may overlap, but never with both contexts live: whatever an
   overtaken scaling operation still does, it has been told to stop. *)
OneLiveInner == \A c, d \in Calls : CtxLive(c) /\ CtxLive(d) => c = d

(* A caller that gets a result gets the result of its own count, and nothing
   works for it any more. *)
OwnResult ==
    \A c \in Calls : caller[c] = "result"
        => resultCh[c] = c /\ \A d \in Calls : timer[d] = "inner" => serving[d] # c

(* The listener's message loop makes one call at a time, and ends when one fails. *)
OneCaller == [][latest' # latest => latest = NoCall \/ caller[latest] = "result"]_vars

(* For such a caller the scaler behind the debouncer has one scaling operation
   at a time, and none while the loop goes on to the next message: the callback
   runs on another goroutine, but never beside the listener's own handlers. *)
OneHandler ==
    /\ \A c, d \in Calls : timer[c] = "inner" /\ timer[d] = "inner" => c = d
    /\ latest # NoCall /\ caller[latest] = "result" => \A c \in Calls : timer[c] # "inner"

(* Every call returns, the replaced ones included. *)
CallReturns == \A c \in Calls : (caller[c] = "waiting") ~> (caller[c] # "waiting")

(* The count of the last call is not lost: it reaches the inner scaler unless
   a later call replaces it. *)
PendingIsForwarded ==
    \A c \in Calls : (pending = c) ~> (forwarded = c \/ latest > c)

(* What the mutex-guarded fields, the contexts and the channels say of each other. *)
CallInv ==
    /\ TypeOK
    /\ pending # NoCall => pending = latest /\ forwarded < latest
    /\ forwarded <= latest
    /\ \A c \in Calls : c < latest => ctxDone[c]
    /\ \A c \in Calls : c > latest => caller[c] = "out" /\ timer[c] = "off"
    /\ \A c \in Calls : serving[c] <= forwarded
    /\ \A c \in Calls : timer[c] = "inner"
          => serving[c] # NoCall /\ resultCh[serving[c]] = NoCall
    /\ \A c, d \in Calls : serving[c] = serving[d] /\ serving[c] # NoCall => c = d
    /\ \A c \in Calls : timer[c] \in {"off", "armed", "fired"} => serving[c] = NoCall
    /\ \A c \in Calls : resultCh[c] \in {NoCall, c}
    /\ \A c \in Calls : c > forwarded => resultCh[c] = NoCall
    /\ \A c \in Calls : caller[c] = "result" => resultCh[c] # NoCall

Answerable(c) ==
    \/ ctxDone[c]
    \/ resultCh[c] = c
    \/ pending = c
    \/ \E d \in Calls : timer[d] = "inner" /\ serving[d] = c

(* No wake-up is lost, the safety half of CallReturns and PendingIsForwarded: a
   pending count has a timer or callback that will take it, and what a blocked
   caller waits for is there, or is still going to be sent. *)
NothingLost ==
    /\ pending # NoCall => timer[pending] \in {"armed", "fired"}
    /\ \A c \in Calls : caller[c] = "waiting" => Answerable(c)

(* The inductive invariant behind the safety properties. *)
DebounceInv == CallInv /\ NothingLost

(* What is left of a call when timers, callbacks and channels are forgotten. *)
Working == {c \in Calls : \E d \in Calls : timer[d] = "inner" /\ serving[d] = c}
Finished == {c \in Calls : resultCh[c] # NoCall}
ToldToStop == {c \in Calls : ctxDone[c]}

Latest == INSTANCE LatestCount
            WITH made <- latest, working <- Working, finished <- Finished,
                 stopped <- ToldToStop, answer <- caller

(* The debouncer implements "the latest count wins": whichever timer or callback
   acts, what callers and the scaler see is a step of LatestCount or nothing. *)
FollowsLatestCount == Latest!Spec
==============================================================================
