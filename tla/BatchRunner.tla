------------------------------ MODULE BatchRunner ------------------------------
(****************************************************************************)
(* The bounded worker pool shared by batchCreateRunnerPods and              *)
(* batchDeleteRunnerPods (internal/scaler): a loop that hands `count` items *)
(* to an errgroup limited to BatchMaxWorkers goroutines, gives up when the  *)
(* failures counted so far reach half of the attempts counted so far, and   *)
(* returns how many items succeeded once every worker has finished.         *)
(*                                                                          *)
(* The two counters are atomics read one after the other while the workers  *)
(* keep changing them: the loop decides on a failure count that may be old. *)
(****************************************************************************)
EXTENDS Integers

CONSTANTS
    Limit,      \* constants.BatchMaxWorkers
    Counts      \* how many items a batch may be asked for

ASSUME LimitAssumption == Limit \in Nat \ {0}
ASSUME CountsAssumption == Counts \subseteq Nat

VARIABLES
    pc,         \* where the loop is
    count,      \* items requested
    attempted,  \* the loop index: items handed to a worker
    currentErrors, \* the failure count as the loop read it
    errCount,   \* the two atomics
    succeeded,
    inflight,   \* workers that hold a slot of the errgroup
    gaveUp      \* the loop was left at the error threshold

loopVars == <<pc, count, attempted, currentErrors, gaveUp>>
vars == <<loopVars, errCount, succeeded, inflight>>

TypeOK ==
    /\ pc \in {"returned", "loop", "load", "go", "wait"}
    /\ count \in Nat
    /\ attempted \in Nat
    /\ currentErrors \in Nat
    /\ errCount \in Nat
    /\ succeeded \in Nat
    /\ inflight \in 0 .. Limit
    /\ gaveUp \in BOOLEAN

Init ==
    /\ pc = "returned"
    /\ count = 0 /\ attempted = 0 /\ currentErrors = 0
    /\ errCount = 0 /\ succeeded = 0 /\ inflight = 0
    /\ gaveUp = FALSE

Start ==
    /\ pc = "returned"
    /\ pc' = "loop"
    /\ count' \in Counts
    /\ attempted' = 0 /\ currentErrors' = 0
    /\ errCount' = 0 /\ succeeded' = 0
    /\ gaveUp' = FALSE
    /\ UNCHANGED inflight

(* errCount.Load() *)
LoadErrors ==
    /\ pc = "loop" /\ attempted < count
    /\ currentErrors' = errCount
    /\ pc' = "load"
    /\ UNCHANGED <<count, attempted, gaveUp, errCount, succeeded, inflight>>

(* Seeded fault: the threshold is not evaluated. *)
NoThreshold(errs, done) == FALSE

(* Seeded fault: nothing attempted counts as half failed. *)
ThresholdAtOnce(errs, done) == errs >= (errs + done) \div 2

(* The code's integer arithmetic: with one success and no failure the right
   hand side of the comparison is 0. *)
ThresholdReached(errs, done) ==
    /\ errs + done > 0
    /\ errs >= (errs + done) \div 2

(* Seeded fault: at the threshold the loop goes round instead of leaving. *)
LoadSucceededContinues ==
    /\ pc = "load"
    /\ pc' = IF ThresholdReached(currentErrors, succeeded) THEN "loop" ELSE "go"
    /\ UNCHANGED <<count, attempted, currentErrors, gaveUp, errCount, succeeded, inflight>>

(* succeeded.Load(), and the decision on the two values read. *)
LoadSucceeded ==
    /\ pc = "load"
    /\ gaveUp' = ThresholdReached(currentErrors, succeeded)
    /\ pc' = IF gaveUp' THEN "wait" ELSE "go"
    /\ UNCHANGED <<count, attempted, currentErrors, errCount, succeeded, inflight>>

(* g.Go blocks while every slot is taken. *)
Go ==
    /\ pc = "go" /\ inflight < Limit
    /\ inflight' = inflight + 1
    /\ attempted' = attempted + 1
    /\ pc' = "loop"
    /\ UNCHANGED <<count, currentErrors, gaveUp, errCount, succeeded>>

LoopEnds ==
    /\ pc = "loop" /\ attempted = count
    /\ pc' = "wait"
    /\ UNCHANGED <<count, attempted, currentErrors, gaveUp, errCount, succeeded, inflight>>

(* Seeded fault: a failure is logged and not counted. *)
WorkerFailsUncounted ==
    /\ inflight > 0
    /\ inflight' = inflight - 1
    /\ UNCHANGED <<loopVars, succeeded, errCount>>

WorkerFails ==
    /\ inflight > 0
    /\ inflight' = inflight - 1
    /\ errCount' = errCount + 1
    /\ UNCHANGED <<loopVars, succeeded>>

WorkerSucceeds ==
    /\ inflight > 0
    /\ inflight' = inflight - 1
    /\ succeeded' = succeeded + 1
    /\ UNCHANGED <<loopVars, errCount>>

Worker == WorkerFails \/ WorkerSucceeds

(* Seeded fault: the counter is read before g.Wait(). *)
WaitReturnsEarly ==
    /\ pc = "wait"
    /\ pc' = "returned"
    /\ UNCHANGED <<count, attempted, currentErrors, gaveUp, errCount, succeeded, inflight>>

(* g.Wait() and the return of the success counter. *)
WaitReturns ==
    /\ pc = "wait" /\ inflight = 0
    /\ pc' = "returned"
    /\ UNCHANGED <<count, attempted, currentErrors, gaveUp, errCount, succeeded, inflight>>

Loop == LoadErrors \/ LoadSucceeded \/ Go \/ LoopEnds \/ WaitReturns

Next == Start \/ Loop \/ Worker

(* A worker's call returns, at the latest by the timeout of its client, and the
   loop runs when it can.  Nobody has to ask for a batch. *)
Fairness == WF_vars(Loop) /\ WF_vars(Worker)

Spec == Init /\ [][Next]_vars /\ Fairness

------------------------------------------------------------------------------
(* What the caller is told is final: when the batch returns no worker is left
   that could still change the number, every attempt was counted once, and
   fewer attempts than requested were made only if the threshold was met. *)
ResultIsFinal ==
    pc = "returned" =>
        /\ inflight = 0
        /\ attempted = errCount + succeeded
        /\ attempted # count => gaveUp

(* The threshold bounds the damage although it is evaluated on counters that
   have moved on: failures exceed successes by at most one full round of
   workers and the attempt the loop was about to make. *)
FailureBudget == errCount <= succeeded + Limit + 1

(* A batch ends, the loop blocked on a full pool included. *)
BatchReturns == (pc # "returned") ~> (pc = "returned")

(* A batch that meets no error does everything it was asked for, or at least one
   item and at most Limit + 1: because of the integer division, one success and
   no failure meet the "error threshold" of the loop. *)
BatchProgress ==
    pc = "returned" /\ errCount = 0 /\ count > 0
        => succeeded = count \/ succeeded \in 1 .. Limit + 1

(* The inductive invariant behind these three.  Every attempt is counted or in
   flight.  While the loop decides, at most Limit
   attempts can be failing that it has not seen; once it has decided to go
   on, it had seen either nothing or more successes than failures. *)
Ahead == IF pc = "go" THEN 1 ELSE 0

BatchInv ==
    /\ TypeOK
    /\ attempted = errCount + succeeded + inflight
    /\ pc \in {"loop", "load", "go"} => ~gaveUp
    /\ pc \in {"load", "go"} => /\ attempted < count
                                /\ errCount + inflight <= currentErrors + Limit
    /\ pc \in {"returned", "wait"} => (gaveUp \/ attempted = count)
    /\ attempted <= count
    /\ pc = "returned" => inflight = 0
    /\ currentErrors <= errCount
    /\ gaveUp /\ errCount = 0 => succeeded >= 1 /\ attempted <= Limit + 1
    /\ errCount + inflight + Ahead <= succeeded + Limit + 1
==============================================================================
