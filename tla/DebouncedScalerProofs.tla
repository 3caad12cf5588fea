------------------------- MODULE DebouncedScalerProofs -------------------------
(****************************************************************************)
(* Proofs about DebouncedScaler, for any number of calls.                   *)
(****************************************************************************)
EXTENDS DebouncedScaler, TLAPS

LEMMA CallInit == Init => CallInv
<1> SUFFICES ASSUME Init PROVE CallInv
  OBVIOUS
<1>1. ctxDone \in [Calls -> BOOLEAN]
  BY Zenon DEF Init
<1>2. TypeOK
  BY <1>1, MaxCallsAssumption DEF Init, TypeOK, Calls, NoCall
<1>3. QED
  BY <1>2, MaxCallsAssumption DEF Init, CallInv, TypeOK, Calls, NoCall

LEMMA CallStep ==
  ASSUME CallInv, [Next]_vars
  PROVE  CallInv'
<1> USE MaxCallsAssumption DEF Calls, NoCall
<1>1. CASE Call
  <2> USE DEF CallInv, TypeOK
  <2>1. ctxDone' \in [Calls -> BOOLEAN]
    BY <1>1 DEF Call
  <2>2. timer' \in [Calls -> {"off", "armed", "fired", "inner", "ended"}]
    <3>1. \A c \in Calls : Stopped(timer[c]) \in {"off", "armed", "fired", "inner", "ended"}
      BY DEF Stopped
    <3>2. QED
      BY <1>1, <3>1 DEF Call
  <2>3. /\ latest' \in Calls /\ latest' = latest + 1
        /\ caller' \in [Calls -> {"out", "waiting", "result", "cancelled"}]
    BY <1>1 DEF Call
  <2>4. TypeOK'
    <3>1. pending' \in 0 .. MaxCalls /\ latest' \in 0 .. MaxCalls
      BY <1>1, <2>3 DEF Call
    <3>2. QED
      BY <1>1, <2>1, <2>2, <2>3, <3>1 DEF Call
  <2>5. ASSUME NEW c \in Calls, c < latest' PROVE ctxDone'[c]
    <3>1. c < latest \/ c = latest
      BY <2>3, <2>5
    <3>2. ctxDone[c] \/ c = latest
      BY <3>1
    <3>3. ctxDone' = [d \in Calls |-> ctxDone[d] \/ d = latest]
      BY <1>1 DEF Call
    <3>4. QED
      BY <3>2, <3>3, Zenon
  <2>6. \A c \in Calls : timer'[c] = "inner" => timer[c] = "inner"
    BY <1>1 DEF Call, Stopped
  <2>7. \A c \in Calls : timer'[c] \in {"off", "armed", "fired"} =>
            c = latest' \/ timer[c] \in {"off", "armed", "fired"}
    BY <1>1 DEF Call, Stopped
  <2>8. \A c \in Calls : (c > latest => caller[c] = "out" /\ timer[c] = "off")'
    BY <1>1, <2>3 DEF Call, Stopped
  <2>9. \A c \in Calls : (caller[c] = "result" => resultCh[c] # NoCall)'
    BY <1>1, <2>3 DEF Call
  (* The timer of a call that has not been made yet serves nobody. *)
  <2>10. timer[latest'] = "off"
    BY <2>3
  <2>11. \A c \in Calls : (timer[c] \in {"off", "armed", "fired"} => serving[c] = NoCall)'
    BY <1>1, <2>7, <2>10 DEF Call
  <2>12. (pending # NoCall => pending = latest /\ forwarded < latest)' /\ (forwarded <= latest)'
    BY <1>1, <2>3 DEF Call
  <2>13. QED
    BY <1>1, <2>4, <2>5, <2>6, <2>8, <2>9, <2>11, <2>12 DEF Call
<1>2. ASSUME NEW c \in Calls, CancelCaller(c)
      PROVE  CallInv'
  BY <1>2 DEF CancelCaller, CallInv, TypeOK
<1>3. ASSUME NEW c \in Calls, TimerFires(c)
      PROVE  CallInv'
  <2>1. /\ timer' = [timer EXCEPT ![c] = "fired"] /\ timer[c] = "armed"
        /\ UNCHANGED <<latest, pending, caller, ctxDone, serving, resultCh, forwarded>>
    BY <1>3 DEF TimerFires
  <2>2. TypeOK'
    BY <2>1 DEF CallInv, TypeOK
  <2>3. \A d \in Calls : timer'[d] = timer[d] \/ (d = c /\ timer'[d] = "fired")
    <3>1. timer \in [Calls -> {"off", "armed", "fired", "inner", "ended"}]
      BY DEF CallInv, TypeOK
    <3>2. timer'[c] = "fired" /\ \A d \in Calls : d # c => timer'[d] = timer[d]
      BY <2>1, <3>1
    <3>3. QED
      BY <3>2
  <2>4. \A d \in Calls : /\ (d > latest => caller[d] = "out" /\ timer[d] = "off")'
                         /\ timer'[d] = "inner" => timer[d] = "inner"
                         /\ timer'[d] \in {"off", "armed", "fired"}
                              => timer[d] \in {"off", "armed", "fired"}
    BY <2>1, <2>3 DEF CallInv
  <2>5. QED
    BY <2>1, <2>2, <2>4 DEF CallInv
<1>4. ASSUME NEW c \in Calls, Callback(c)
      PROVE  CallInv'
  <2> USE DEF CallInv, TypeOK
  <2>1. CASE pending = NoCall
    <3>1. /\ timer' = [timer EXCEPT ![c] = "ended"] /\ timer[c] = "fired" /\ pending' = pending
          /\ UNCHANGED <<latest, caller, ctxDone, resultCh, serving, forwarded>>
      BY <1>4, <2>1 DEF Callback
    <3>2. TypeOK'
      BY <3>1
    <3>3. \A d \in Calls : timer'[d] = timer[d] \/ timer'[d] = "ended"
      BY <3>1
    <3>4. \A d \in Calls : (d > latest => caller[d] = "out" /\ timer[d] = "off")'
      BY <3>1
    <3>5. QED
      BY <3>1, <3>2, <3>3, <3>4
  <2>2. CASE pending # NoCall
    <3>1. /\ serving' = [serving EXCEPT ![c] = pending]
          /\ timer' = [timer EXCEPT ![c] = "inner"]
          /\ forwarded' = pending /\ pending' = NoCall
          /\ pending = latest /\ forwarded < pending
          /\ UNCHANGED <<latest, caller, ctxDone, resultCh>>
      BY <1>4, <2>2 DEF Callback
    <3>2. TypeOK'
      BY <3>1
    <3>3. \A d \in Calls : serving[d] < pending
      BY <3>1
    <3>4. \A d, e \in Calls : (serving[d] = serving[e] /\ serving[d] # NoCall => d = e)'
      BY <3>1, <3>3
    <3>5. \A d \in Calls : /\ (serving[d] <= forwarded)'
                           /\ (timer[d] = "inner" => serving[d] # NoCall)'
                           /\ (d > forwarded => resultCh[d] = NoCall)'
                           /\ (timer[d] \in {"off", "armed", "fired"} => serving[d] = NoCall)'
      <4> SUFFICES ASSUME NEW d \in Calls
                   PROVE  /\ (serving[d] <= forwarded)'
                          /\ (timer[d] = "inner" => serving[d] # NoCall)'
                          /\ (d > forwarded => resultCh[d] = NoCall)'
                          /\ (timer[d] \in {"off", "armed", "fired"} => serving[d] = NoCall)'
        OBVIOUS
      <4>1. CASE d = c
        BY <2>2, <3>1, <4>1
      <4>2. CASE d # c
        <5>1. timer'[d] = timer[d] /\ serving'[d] = serving[d] /\ resultCh'[d] = resultCh[d]
          BY <3>1, <4>2
        <5>2. (serving[d] <= forwarded)'
          BY <3>1, <3>3, <5>1
        <5>3. (d > forwarded => resultCh[d] = NoCall)'
          BY <3>1, <5>1
        <5>4. /\ (timer[d] = "inner" => serving[d] # NoCall)'
              /\ (timer[d] \in {"off", "armed", "fired"} => serving[d] = NoCall)'
          BY <5>1
        <5>5. QED
          BY <5>2, <5>3, <5>4
      <4>3. QED
        BY <4>1, <4>2
    <3>6. \A d \in Calls : (d > latest => caller[d] = "out" /\ timer[d] = "off")'
      BY <1>4, <3>1 DEF Callback
    <3>7. (pending # NoCall => pending = latest /\ forwarded < latest)' /\ (forwarded <= latest)'
      BY <3>1
    (* Nobody has an answer to a call that was not forwarded before. *)
    <3>8. resultCh[pending] = NoCall
      BY <2>2, <3>1
    <3>9. \A d \in Calls : (timer[d] = "inner" => resultCh[serving[d]] = NoCall)'
      BY <3>1, <3>8
    <3>10. QED
      BY <3>1, <3>2, <3>4, <3>5, <3>6, <3>7, <3>9
  <2>3. QED
    BY <2>1, <2>2
<1>5. ASSUME NEW c \in Calls, InnerReturns(c)
      PROVE  CallInv'
  <2> USE DEF CallInv, TypeOK
  <2>1. serving[c] \in Calls
    BY <1>5 DEF InnerReturns
  <2>2. /\ timer' = [timer EXCEPT ![c] = "ended"]
        /\ UNCHANGED <<latest, pending, caller, ctxDone, serving, forwarded>>
    BY <1>5 DEF InnerReturns
  <2>3. /\ resultCh' \in [Calls -> 0 .. MaxCalls]
        /\ \A d \in Calls : /\ resultCh'[d] \in {NoCall, d}
                            /\ resultCh[d] # NoCall => resultCh'[d] # NoCall
                            /\ d # serving[c] => resultCh'[d] = resultCh[d]
    BY <1>5, <2>1 DEF InnerReturns
  <2>4. /\ timer' \in [Calls -> {"off", "armed", "fired", "inner", "ended"}]
        /\ \A d \in Calls : timer'[d] = timer[d] \/ timer'[d] = "ended"
        /\ timer[c] = "inner" /\ timer'[c] = "ended"
    BY <1>5, <2>2 DEF InnerReturns
  <2>5. TypeOK'
    BY <2>2, <2>3, <2>4
  <2>6. \A d \in Calls : (d > latest => caller[d] = "out" /\ timer[d] = "off")'
    BY <2>2, <2>4
  <2>7. \A d \in Calls : /\ (timer[d] = "inner" => serving[d] # NoCall)'
                         /\ (timer[d] \in {"off", "armed", "fired"} => serving[d] = NoCall)'
    BY <2>2, <2>4
  <2>8. \A d \in Calls : (caller[d] = "result" => resultCh[d] # NoCall)'
    BY <2>2, <2>3
  (* No other callback works for the call that is answered. *)
  <2>9. \A d \in Calls : /\ (timer[d] = "inner" => resultCh[serving[d]] = NoCall)'
                         /\ (d > forwarded => resultCh[d] = NoCall)'
    <3> SUFFICES ASSUME NEW d \in Calls
                 PROVE  /\ (timer[d] = "inner" => resultCh[serving[d]] = NoCall)'
                        /\ (d > forwarded => resultCh[d] = NoCall)'
      OBVIOUS
    <3>1. timer'[d] = "inner" => timer[d] = "inner" /\ d # c
      BY <2>4
    <3>2. timer'[d] = "inner" => serving[d] \in Calls /\ serving[d] # serving[c]
      BY <2>1, <3>1
    <3>3. timer'[d] = "inner" => resultCh'[serving[d]] = NoCall
      BY <2>3, <3>1, <3>2
    <3>4. d > forwarded => d # serving[c]
      BY <2>1
    <3>5. QED
      BY <2>2, <2>3, <3>3, <3>4
  <2> HIDE DEF TypeOK
  <2>10. QED
    BY <2>2, <2>3, <2>5, <2>6, <2>7, <2>8, <2>9
<1>6. ASSUME NEW c \in Calls, Return(c)
      PROVE  CallInv'
  <2> USE DEF CallInv, TypeOK
  <2>1. /\ UNCHANGED <<latest, pending, ctxDone, timer, serving, resultCh, forwarded>>
        /\ caller[c] = "waiting"
        /\ \/ resultCh[c] # NoCall /\ caller' = [caller EXCEPT ![c] = "result"]
           \/ caller' = [caller EXCEPT ![c] = "cancelled"]
    BY <1>6 DEF Return, ReturnResult, ReturnCancelled
  <2>2. /\ caller' \in [Calls -> {"out", "waiting", "result", "cancelled"}]
        /\ \A d \in Calls : d # c => caller'[d] = caller[d]
        /\ resultCh[c] # NoCall \/ caller'[c] = "cancelled"
    <3>1. caller \in [Calls -> {"out", "waiting", "result", "cancelled"}]
      OBVIOUS
    <3> HIDE DEF CallInv, TypeOK
    <3>2. QED
      BY <2>1, <3>1
  <2>3. \A d \in Calls : /\ (d > latest => caller[d] = "out" /\ timer[d] = "off")'
                         /\ (caller[d] = "result" => resultCh[d] # NoCall)'
    BY <2>1, <2>2
  <2>4. TypeOK'
    BY <2>1, <2>2
  <2> HIDE DEF TypeOK
  <2>5. QED
    BY <2>1, <2>3, <2>4
<1>7. CASE UNCHANGED vars
  BY <1>7 DEF vars, CallInv, TypeOK
<1>8. QED
  BY <1>1, <1>2, <1>3, <1>4, <1>5, <1>6, <1>7 DEF Next, TimerStep

(* A caller that a step leaves waiting is still answered by whatever was going
   to answer it, or by what that has become. *)
LEMMA NothingLostStep ==
  ASSUME CallInv, NothingLost, [Next]_vars
  PROVE  NothingLost'
<1> USE MaxCallsAssumption DEF Calls, NoCall, CallInv, TypeOK
<1>1. CASE Call
  <2>1. /\ latest' \in Calls /\ latest' = latest + 1 /\ pending' = latest'
        /\ timer'[latest'] = "armed"
    BY <1>1 DEF Call
  <2>2. ASSUME NEW c \in Calls, caller'[c] = "waiting" PROVE Answerable(c)'
    (* A call that was made before has been replaced, by this call at the latest. *)
    <3>1. CASE c < latest'
      <4>1. ctxDone'[c]
        <5>1. c < latest \/ c = latest
          BY <2>1, <3>1
        <5>2. ctxDone[c] \/ c = latest
          BY <5>1
        <5>3. ctxDone' = [d \in Calls |-> ctxDone[d] \/ d = latest]
          BY <1>1 DEF Call
        <5>4. QED
          BY <5>2, <5>3, Zenon
      <4>2. QED
        BY <4>1 DEF Answerable
    <3>2. CASE c = latest'
      BY <2>1, <3>2 DEF Answerable
    <3>3. CASE c > latest'
      BY <1>1, <2>1, <2>2, <3>3 DEF Call
    <3>4. QED
      BY <2>1, <3>1, <3>2, <3>3
  <2>3. QED
    BY <2>1, <2>2 DEF NothingLost
<1>2. ASSUME NEW c \in Calls, CancelCaller(c)
      PROVE  NothingLost'
  BY <1>2 DEF CancelCaller, NothingLost, Answerable
<1>3. ASSUME NEW c \in Calls, TimerFires(c)
      PROVE  NothingLost'
  BY <1>3 DEF TimerFires, NothingLost, Answerable
<1>4. ASSUME NEW c \in Calls, Callback(c)
      PROVE  NothingLost'
  <2>1. CASE pending = NoCall
    <3>1. /\ pending' = NoCall /\ UNCHANGED <<caller, ctxDone, serving, resultCh>>
          /\ \A d \in Calls : timer[d] = "inner" => timer'[d] = "inner"
      BY <1>4, <2>1 DEF Callback
    <3>2. \A d \in Calls : Answerable(d) => Answerable(d)'
      BY <2>1, <3>1 DEF Answerable
    <3>3. QED
      BY <3>1, <3>2 DEF NothingLost
  (* The callback runs the inner scaler for the call that was pending. *)
  <2>2. CASE pending # NoCall
    <3>1. pending' = NoCall /\ timer'[c] = "inner" /\ serving'[c] = pending
      BY <1>4, <2>2 DEF Callback
    <3>2. \A d \in Calls : timer[d] = "inner" => timer'[d] = "inner" /\ serving'[d] = serving[d]
      BY <1>4, <2>2 DEF Callback
    <3>3. \A d \in Calls : Answerable(d) => Answerable(d)'
      <4> SUFFICES ASSUME NEW d \in Calls, Answerable(d) PROVE Answerable(d)'
        OBVIOUS
      <4>1. CASE ctxDone[d] \/ resultCh[d] = d
        BY <1>4, <4>1 DEF Callback, Answerable
      <4>2. CASE pending = d
        BY <3>1, <4>2 DEF Answerable
      <4>3. CASE \E e \in Calls : timer[e] = "inner" /\ serving[e] = d
        BY <3>2, <4>3 DEF Answerable
      <4>4. QED
        BY <4>1, <4>2, <4>3 DEF Answerable
    <3>4. QED
      BY <1>4, <3>1, <3>3 DEF Callback, NothingLost
  <2>3. QED
    BY <2>1, <2>2
<1>5. ASSUME NEW c \in Calls, InnerReturns(c)
      PROVE  NothingLost'
  <2>1. serving[c] \in Calls /\ resultCh'[serving[c]] = serving[c]
    BY <1>5 DEF InnerReturns
  <2>2. \A d \in Calls : resultCh[d] = d => resultCh'[d] = d
    BY <1>5, <2>1 DEF InnerReturns
  <2>3. \A d \in Calls : d # c => timer'[d] = timer[d] /\ serving'[d] = serving[d]
    BY <1>5 DEF InnerReturns
  <2>4. \A d \in Calls : Answerable(d) => Answerable(d)'
    <3> SUFFICES ASSUME NEW d \in Calls, Answerable(d) PROVE Answerable(d)'
      OBVIOUS
    <3>1. CASE ctxDone[d] \/ pending = d
      BY <1>5, <3>1 DEF InnerReturns, Answerable
    <3>2. CASE resultCh[d] = d \/ d = serving[c]
      BY <2>1, <2>2, <3>2 DEF Answerable
    <3>3. CASE \E e \in Calls : e # c /\ timer[e] = "inner" /\ serving[e] = d
      BY <2>3, <3>3 DEF Answerable
    <3>4. QED
      BY <3>1, <3>2, <3>3 DEF Answerable
  <2>5. timer[c] = "inner" /\ UNCHANGED <<pending, caller>>
    BY <1>5 DEF InnerReturns
  <2>6. pending' # NoCall => timer'[pending'] \in {"armed", "fired"}
    BY <2>3, <2>5 DEF NothingLost
  <2> HIDE DEF CallInv, Calls
  <2>7. QED
    BY <2>4, <2>5, <2>6 DEF NothingLost
<1>6. ASSUME NEW c \in Calls, Return(c)
      PROVE  NothingLost'
  <2>1. /\ UNCHANGED <<pending, ctxDone, timer, serving, resultCh>>
        /\ \A d \in Calls : caller'[d] = "waiting" => caller[d] = "waiting"
    <3>1. caller \in [Calls -> {"out", "waiting", "result", "cancelled"}]
      OBVIOUS
    <3> HIDE DEF CallInv
    <3>2. QED
      BY <1>6, <3>1 DEF Return, ReturnResult, ReturnCancelled
  <2>2. \A d \in Calls : Answerable(d) => Answerable(d)'
    BY <2>1 DEF Answerable
  <2> HIDE DEF CallInv, Calls
  <2>3. QED
    BY <2>1, <2>2 DEF NothingLost
<1>7. CASE UNCHANGED vars
  BY <1>7 DEF vars, NothingLost, Answerable
<1>8. QED
  BY <1>1, <1>2, <1>3, <1>4, <1>5, <1>6, <1>7 DEF Next, TimerStep

(* The invariant of the debouncer, types included, holds throughout. *)
THEOREM DebounceInvariant == Spec => []DebounceInv
<1>1. Init => DebounceInv
  <2>1. Init => NothingLost
    BY DEF Init, NothingLost
  <2>2. QED
    BY <2>1, CallInit DEF DebounceInv
<1>2. DebounceInv /\ [Next]_vars => DebounceInv'
  BY CallStep, NothingLostStep DEF DebounceInv
<1>3. QED
  BY <1>1, <1>2, PTL DEF Spec

(* No count and no caller is left behind: a pending count has a timer that will
   take it, and a blocked caller waits for something that is on its way. *)
THEOREM NoLostWakeup == Spec => []NothingLost
<1>1. DebounceInv => NothingLost
  BY DEF DebounceInv
<1>2. QED
  BY <1>1, DebounceInvariant, PTL

(* At most one of the inner calls that overlap has a live context. *)
THEOREM LiveInnerUnique == Spec => []OneLiveInner
<1>1. DebounceInv => OneLiveInner
  <2> SUFFICES ASSUME DebounceInv, NEW c \in Calls, NEW d \in Calls, CtxLive(c), CtxLive(d)
               PROVE  c = d
    BY DEF OneLiveInner
  <2>1. serving[c] \in Calls /\ serving[d] \in Calls
    BY MaxCallsAssumption DEF CtxLive, DebounceInv, CallInv, TypeOK, Calls, NoCall
  <2>2. \A e \in Calls : CtxLive(e) /\ serving[e] \in Calls => serving[e] = latest
    <3>1. \A e \in Calls : serving[e] <= forwarded
      BY DEF DebounceInv, CallInv
    <3>2. latest \in Int /\ forwarded \in Int /\ forwarded <= latest
      BY MaxCallsAssumption DEF DebounceInv, CallInv, TypeOK
    <3>3. \A e \in Calls : e < latest => ctxDone[e]
      BY DEF DebounceInv, CallInv
    <3>4. QED
      BY <3>1, <3>2, <3>3, MaxCallsAssumption DEF CtxLive, Calls
  <2>3. serving[c] = serving[d] /\ serving[c] # NoCall
    BY <2>1, <2>2, MaxCallsAssumption DEF Calls, NoCall
  <2>4. QED
    BY <2>3 DEF DebounceInv, CallInv
<1>2. QED
  BY <1>1, DebounceInvariant, PTL

(* A result is delivered to the call it was computed for, and the scaler is done
   with that call by then. *)
THEOREM ResultRouting == Spec => []OwnResult
<1>1. DebounceInv => OwnResult
  BY DEF DebounceInv, CallInv, OwnResult, Calls, NoCall
<1>2. QED
  BY <1>1, DebounceInvariant, PTL

(* A caller that makes one call at a time never has two scaling operations at
   work, nor one beside its own work on the next message. *)
THEOREM HandlersExclude == Spec /\ OneCaller => []OneHandler
<1> DEFINE ServesLatest == \A c \in Calls : timer[c] = "inner" => serving[c] = latest
           Sequential == latest' # latest => latest = NoCall \/ caller[latest] = "result"
<1>1. Init => ServesLatest
  BY DEF Init
<1>2. DebounceInv /\ ServesLatest /\ [Next]_vars /\ [Sequential]_vars => ServesLatest'
  <2> SUFFICES ASSUME DebounceInv, ServesLatest, [Next]_vars, [Sequential]_vars,
                      NEW c \in Calls, timer'[c] = "inner"
               PROVE  serving'[c] = latest'
    OBVIOUS
  <2> USE MaxCallsAssumption
  <2>1. TypeOK
    BY DEF DebounceInv, CallInv
  <2>2. CASE Call
    (* Whatever served the call before is over, for that call has its result. *)
    <3>1. timer[c] = "inner" /\ latest \in Nat /\ latest' # latest
      BY <2>1, <2>2 DEF Call, Stopped, TypeOK
    <3>2. serving[c] = latest /\ serving[c] # NoCall /\ resultCh[serving[c]] = NoCall
      BY <3>1 DEF DebounceInv, CallInv
    <3>3. caller[latest] = "result" /\ latest \in Calls
      BY <2>1, <3>1, <3>2 DEF vars, TypeOK, Calls, NoCall
    <3>4. resultCh[latest] # NoCall
      BY <3>3 DEF DebounceInv, CallInv
    <3>5. QED
      BY <3>2, <3>4
  <2>3. ASSUME NEW d \in Calls, Callback(d)
        PROVE  serving'[c] = latest'
    <3>1. CASE c = d
      BY <2>1, <2>3, <3>1 DEF Callback, DebounceInv, CallInv, TypeOK
    <3>2. CASE c # d
      BY <2>1, <2>3, <3>2 DEF Callback, TypeOK
    <3>3. QED
      BY <3>1, <3>2
  <2>4. ASSUME NEW d \in Calls,
               CancelCaller(d) \/ TimerFires(d) \/ InnerReturns(d) \/ Return(d)
        PROVE  serving'[c] = latest'
    <3>1. UNCHANGED <<latest, serving>>
      BY <2>4 DEF CancelCaller, TimerFires, InnerReturns, Return, ReturnResult, ReturnCancelled
    <3>2. timer[c] = "inner"
      BY <2>1, <2>4 DEF CancelCaller, TimerFires, InnerReturns, Return, ReturnResult,
                        ReturnCancelled, TypeOK
    <3>3. QED
      BY <3>1, <3>2
  <2>5. CASE UNCHANGED vars
    BY <2>5 DEF vars
  <2>6. QED
    BY <2>2, <2>3, <2>4, <2>5 DEF Next, TimerStep
<1>3. DebounceInv /\ ServesLatest => OneHandler
  <2> SUFFICES ASSUME DebounceInv, ServesLatest PROVE OneHandler
    OBVIOUS
  <2>1. ASSUME NEW c \in Calls, NEW d \in Calls, timer[c] = "inner", timer[d] = "inner"
        PROVE  c = d
    BY <2>1 DEF DebounceInv, CallInv
  <2>2. ASSUME latest # NoCall, caller[latest] = "result", NEW c \in Calls
        PROVE  timer[c] # "inner"
    <3>1. latest \in Calls
      BY <2>2, MaxCallsAssumption DEF DebounceInv, CallInv, TypeOK, Calls, NoCall
    <3>2. resultCh[latest] # NoCall
      BY <2>2, <3>1 DEF DebounceInv, CallInv
    <3>3. QED
      BY <3>2 DEF DebounceInv, CallInv
  <2>3. QED
    BY <2>1, <2>2 DEF OneHandler
<1>4. QED
  BY <1>1, <1>2, <1>3, DebounceInvariant, PTL DEF Spec, OneCaller

(* Only the latest call is forwarded, once, and in order. *)
THEOREM ForwardingOrder == Spec => ForwardsLatest
<1>1. DebounceInv /\ [Next]_vars =>
        [\A c \in Calls : timer[c] # "inner" /\ timer'[c] = "inner"
            => serving'[c] = latest /\ serving'[c] > forwarded]_vars
  <2> SUFFICES ASSUME DebounceInv, [Next]_vars,
                      NEW c \in Calls, timer[c] # "inner", timer'[c] = "inner"
               PROVE  serving'[c] = latest /\ serving'[c] > forwarded
    OBVIOUS
  <2> USE MaxCallsAssumption DEF DebounceInv, CallInv, TypeOK, Calls, NoCall
  <2>1. ~Call
    BY DEF Call, Stopped
  <2>2. \A d \in Calls : ~CancelCaller(d) /\ ~TimerFires(d) /\ ~InnerReturns(d) /\ ~Return(d)
    <3> SUFFICES ASSUME NEW d \in Calls
                 PROVE  ~CancelCaller(d) /\ ~TimerFires(d) /\ ~InnerReturns(d) /\ ~Return(d)
      OBVIOUS
    <3>1. \A v : timer' = [timer EXCEPT ![d] = v] => v = "inner"
      OBVIOUS
    <3> HIDE DEF CallInv, DebounceInv
    <3>2. ~TimerFires(d) /\ ~InnerReturns(d)
      BY <3>1 DEF TimerFires, InnerReturns
    <3>3. ~CancelCaller(d) /\ ~Return(d)
      BY DEF CancelCaller, Return, ReturnResult, ReturnCancelled
    <3>4. QED
      BY <3>2, <3>3
  <2>3. ~UNCHANGED vars
    BY DEF vars
  <2>4. PICK d \in Calls : Callback(d)
    BY <2>1, <2>2, <2>3 DEF Next, TimerStep
  <2>5. d = c /\ pending # NoCall
    BY <2>4 DEF Callback
  <2>6. QED
    BY <2>4, <2>5 DEF Callback
<1>2. QED
  BY <1>1, DebounceInvariant, PTL DEF Spec, ForwardsLatest

------------------------------------------------------------------------------
(* The refinement: every step of the debouncer is a step of LatestCount, or one
   that neither callers nor the scaler can see. *)
LEMMA CallRequests ==
  ASSUME CallInv, Call
  PROVE  Latest!Request
<1> USE MaxCallsAssumption DEF Calls, NoCall
<1>1. latest \in 0 .. MaxCalls /\ latest' \in Calls
  BY DEF CallInv, TypeOK, Call
<1>2. ToldToStop' = ToldToStop \cup (Calls \cap {latest})
  <2>1. ctxDone' = [c \in Calls |-> ctxDone[c] \/ c = latest]
    BY DEF Call
  <2>2. \A c \in Calls : ctxDone'[c] <=> ctxDone[c] \/ c = latest
    BY <2>1, Zenon
  <2>3. QED
    BY <2>2 DEF ToldToStop
<1>3. \A c \in Calls : timer'[c] = "inner" <=> timer[c] = "inner"
  <2>1. timer[latest'] = "off"
    BY <1>1 DEF CallInv, Call
  <2>2. QED
    BY <1>1, <2>1 DEF Call, Stopped
<1>4. UNCHANGED <<Working, Finished>>
  BY <1>3 DEF Call, Working, Finished
<1>5. QED
  BY <1>1, <1>2, <1>4 DEF Call, Latest!Request, Latest!Calls

(* The callback that finds a pending call forwards it; what another one finds,
   nobody sees. *)
LEMMA CallbackForwards ==
  ASSUME CallInv, NEW c \in Calls, Callback(c)
  PROVE  Latest!Forward \/ UNCHANGED Latest!vars
<1> USE MaxCallsAssumption DEF Calls, NoCall
<1>1. UNCHANGED <<latest, caller, ToldToStop, Finished>>
  BY DEF Callback, ToldToStop, Finished
<1>2. timer \in [Calls -> {"off", "armed", "fired", "inner", "ended"}] /\ timer[c] = "fired"
  BY DEF Callback, CallInv, TypeOK
<1>3. CASE pending = NoCall
  <2>1. UNCHANGED <<serving, forwarded>> /\ timer' = [timer EXCEPT ![c] = "ended"]
    BY <1>3 DEF Callback
  <2>2. Working' = Working
    BY <1>2, <2>1 DEF Working
  <2>3. QED
    BY <1>1, <2>1, <2>2 DEF Latest!vars
<1>4. CASE pending # NoCall
  <2>1. /\ timer' = [timer EXCEPT ![c] = "inner"]
        /\ serving' = [serving EXCEPT ![c] = pending] /\ forwarded' = pending
    BY <1>4 DEF Callback
  <2>2. pending = latest /\ forwarded < latest /\ latest \in Calls
    BY <1>4 DEF CallInv, TypeOK
  <2>3. Working' = Working \cup {latest}
    <3>1. timer'[c] = "inner" /\ serving'[c] = latest
      BY <1>2, <2>1, <2>2 DEF CallInv, TypeOK
    <3>2. \A d \in Calls : d # c => timer'[d] = timer[d] /\ serving'[d] = serving[d]
      BY <1>2, <2>1 DEF CallInv, TypeOK
    <3>3. Working' \subseteq Working \cup {latest}
      BY <3>1, <3>2 DEF Working
    <3>4. latest \in Working'
      BY <2>2, <3>1 DEF Working
    <3>5. Working \subseteq Working'
      BY <1>2, <3>2 DEF Working
    <3>6. QED
      BY <3>3, <3>4, <3>5
  <2>4. QED
    BY <1>1, <2>1, <2>2, <2>3 DEF Latest!Forward
<1>5. QED
  BY <1>3, <1>4

(* The end of an inner call finishes the one call that it worked for. *)
LEMMA InnerFinishes ==
  ASSUME CallInv, NEW c \in Calls, InnerReturns(c)
  PROVE  Latest!Finish(serving[c])
<1> USE MaxCallsAssumption DEF Calls, NoCall
<1>1. /\ timer[c] = "inner" /\ serving[c] \in Calls
      /\ UNCHANGED <<latest, caller, ctxDone, serving, forwarded>>
  BY DEF InnerReturns, CallInv, TypeOK
<1>2. serving[c] \in Working
  BY <1>1 DEF Working
<1>3. Working' = Working \ {serving[c]}
  <2>1. timer' = [timer EXCEPT ![c] = "ended"]
    BY DEF InnerReturns
  <2>2. \A d \in Calls : timer'[d] = "inner" <=> timer[d] = "inner" /\ d # c
    BY <2>1 DEF CallInv, TypeOK
  <2>3. \A d \in Calls : serving[d] = serving[c] => d = c
    BY <1>1 DEF CallInv
  <2>4. \A e \in Calls : (\E d \in Calls : timer'[d] = "inner" /\ serving[d] = e)
            <=> e # serving[c] /\ \E d \in Calls : timer[d] = "inner" /\ serving[d] = e
    BY <2>2, <2>3
  <2>5. QED
    BY <1>1, <2>4 DEF Working
<1>4. Finished' = Finished \cup {serving[c]}
  <2>1. resultCh \in [Calls -> 0 .. MaxCalls]
    BY DEF CallInv, TypeOK
  <2>2. resultCh'[serving[c]] # NoCall
    BY <1>1, <2>1 DEF InnerReturns
  <2>3. \A d \in Calls : d # serving[c] => resultCh'[d] = resultCh[d]
    BY <1>1, <2>1 DEF InnerReturns
  <2>4. QED
    BY <1>1, <2>2, <2>3 DEF Finished
<1>5. QED
  BY <1>1, <1>2, <1>3, <1>4 DEF Latest!Finish, ToldToStop

(* Every other step of a call. *)
LEMMA CallerAnswered ==
  ASSUME CallInv, NEW c \in Calls
  PROVE  /\ CancelCaller(c) => Latest!GiveUp(c)
         /\ TimerFires(c) => UNCHANGED Latest!vars
         /\ Return(c) => Latest!Answer(c)
<1>1. ASSUME CancelCaller(c) PROVE Latest!GiveUp(c)
  <2>1. /\ ctxDone' = [ctxDone EXCEPT ![c] = TRUE] /\ caller[c] = "waiting"
        /\ UNCHANGED <<latest, forwarded, caller, timer, serving, resultCh>>
    BY <1>1 DEF CancelCaller
  <2>2. ToldToStop' = ToldToStop \cup {c}
    <3>1. \A d \in Calls : ctxDone'[d] <=> ctxDone[d] \/ d = c
      BY <2>1 DEF CallInv, TypeOK
    <3>2. QED
      BY <3>1 DEF ToldToStop
  <2>3. UNCHANGED <<Working, Finished>>
    BY <2>1 DEF Working, Finished
  <2>4. QED
    BY <2>1, <2>2, <2>3 DEF Latest!GiveUp
<1>2. ASSUME TimerFires(c) PROVE UNCHANGED Latest!vars
  <2>1. /\ timer' = [timer EXCEPT ![c] = "fired"] /\ timer[c] = "armed"
        /\ UNCHANGED <<latest, forwarded, caller, ctxDone, serving, resultCh>>
    BY <1>2 DEF TimerFires
  <2>2. \A d \in Calls : timer'[d] = "inner" <=> timer[d] = "inner"
    BY <2>1 DEF CallInv, TypeOK
  <2>3. UNCHANGED <<Working, Finished, ToldToStop>>
    BY <2>1, <2>2 DEF Working, Finished, ToldToStop
  <2>4. QED
    BY <2>1, <2>3 DEF Latest!vars
<1>3. ASSUME Return(c) PROVE Latest!Answer(c)
  <2>1. /\ UNCHANGED <<latest, forwarded, ctxDone, timer, serving, resultCh>>
        /\ caller[c] = "waiting"
    BY <1>3 DEF Return, ReturnResult, ReturnCancelled
  <2>2. UNCHANGED <<Working, Finished, ToldToStop>>
    BY <2>1 DEF Working, Finished, ToldToStop
  <2>3. \/ c \in Finished /\ caller' = [caller EXCEPT ![c] = "result"]
        \/ c \in ToldToStop /\ caller' = [caller EXCEPT ![c] = "cancelled"]
    BY <1>3 DEF Return, ReturnResult, ReturnCancelled, Finished, ToldToStop
  <2>4. QED
    BY <2>1, <2>2, <2>3 DEF Latest!Answer
<1>4. QED
  BY <1>1, <1>2, <1>3

LEMMA LatestCountStep ==
  ASSUME CallInv, [Next]_vars
  PROVE  [Latest!Next]_(Latest!vars)
<1>1. CASE Call
  BY <1>1, CallRequests DEF Latest!Next
<1>2. ASSUME NEW c \in Calls, CancelCaller(c) \/ Return(c) \/ TimerFires(c)
      PROVE  [Latest!Next]_(Latest!vars)
  BY <1>2, CallerAnswered DEF Latest!Next, Latest!Calls, Calls
<1>3. ASSUME NEW c \in Calls, Callback(c)
      PROVE  [Latest!Next]_(Latest!vars)
  BY <1>3, CallbackForwards DEF Latest!Next
<1>4. ASSUME NEW c \in Calls, InnerReturns(c)
      PROVE  [Latest!Next]_(Latest!vars)
  <2>1. serving[c] \in Latest!Calls
    BY <1>4, MaxCallsAssumption DEF InnerReturns, CallInv, TypeOK, Calls, NoCall, Latest!Calls
  <2>2. QED
    BY <1>4, <2>1, InnerFinishes DEF Latest!Next
<1>5. CASE UNCHANGED vars
  BY <1>5 DEF vars, Latest!vars, Working, Finished, ToldToStop
<1>6. QED
  BY <1>1, <1>2, <1>3, <1>4, <1>5 DEF Next, TimerStep

(* The debouncer implements the specification of "the latest count wins". *)
THEOREM LatestCountFollowed == Spec => FollowsLatestCount
<1>1. Init => Latest!Init
  <2> SUFFICES ASSUME Init PROVE Latest!Init
    OBVIOUS
  <2>1. Working = {} /\ Finished = {}
    BY DEF Init, Working, Finished
  <2>2. ToldToStop = {}
    BY DEF Init, ToldToStop
  <2>3. QED
    BY <2>1, <2>2 DEF Init, Latest!Init, Latest!Calls, Calls, NoCall
<1>2. DebounceInv => CallInv
  BY DEF DebounceInv
<1>3. QED
  BY <1>1, <1>2, LatestCountStep, DebounceInvariant, PTL
     DEF Spec, FollowsLatestCount, Latest!Spec
==============================================================================
