----------------------------- MODULE LatestCount -----------------------------
(****************************************************************************)
(* What a debounced scaler promises to its callers and to the scaler behind *)
(* it, without timers, callbacks, channels and contexts: only the latest    *)
(* call is forwarded, and only once; work for a call that was replaced or   *)
(* given up is told to stop; a caller gets a result after the work for its  *)
(* own call is finished, or nothing once that call was told to stop.        *)
(*                                                                          *)
(* DebouncedScaler implements this specification.                           *)
(****************************************************************************)
EXTENDS Integers

CONSTANT MaxCalls   \* bound on the number of calls

VARIABLES
    made,         \* number of calls made so far, and the latest of them
    forwarded,    \* the last call handed to the scaler
    working,      \* calls that the scaler works on
    finished,     \* calls that the scaler has worked on
    stopped,      \* calls that were told to stop
    answer        \* answer[c]: "out", "waiting", "result", "cancelled"

vars == <<made, forwarded, working, finished, stopped, answer>>

Calls == 1 .. MaxCalls

Init ==
    /\ made = 0 /\ forwarded = 0
    /\ working = {} /\ finished = {} /\ stopped = {}
    /\ answer = [c \in Calls |-> "out"]

(* A new call replaces the one before. *)
Request ==
    /\ made < MaxCalls
    /\ made' = made + 1
    /\ stopped' = stopped \cup (Calls \cap {made})
    /\ answer' = [answer EXCEPT ![made'] = "waiting"]
    /\ UNCHANGED <<forwarded, working, finished>>

GiveUp(c) ==
    /\ answer[c] = "waiting"
    /\ stopped' = stopped \cup {c}
    /\ UNCHANGED <<made, forwarded, working, finished, answer>>

Forward ==
    /\ forwarded < made
    /\ forwarded' = made
    /\ working' = working \cup {made}
    /\ UNCHANGED <<made, finished, stopped, answer>>

Finish(c) ==
    /\ c \in working
    /\ working' = working \ {c}
    /\ finished' = finished \cup {c}
    /\ UNCHANGED <<made, forwarded, stopped, answer>>

Answer(c) ==
    /\ answer[c] = "waiting"
    /\ \/ c \in finished /\ answer' = [answer EXCEPT ![c] = "result"]
       \/ c \in stopped /\ answer' = [answer EXCEPT ![c] = "cancelled"]
    /\ UNCHANGED <<made, forwarded, working, finished, stopped>>

Next ==
    \/ Request \/ Forward
    \/ \E c \in Calls : GiveUp(c) \/ Finish(c) \/ Answer(c)

Spec == Init /\ [][Next]_vars
==============================================================================
