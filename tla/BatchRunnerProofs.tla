--------------------------- MODULE BatchRunnerProofs ---------------------------
(****************************************************************************)
(* Proofs about BatchRunner, for every worker limit and every set of batch  *)
(* sizes.                                                                   *)
(****************************************************************************)
EXTENDS BatchRunner, TLAPS

(* What the code's threshold lets pass: nothing counted yet, or at least two
   more successes than failures. *)
LEMMA ThresholdMargin ==
  ASSUME NEW e \in Nat, NEW d \in Nat, ~ThresholdReached(e, d)
  PROVE  (e = 0 /\ d = 0) \/ e + 2 <= d
BY DEF ThresholdReached

(* Without a failure the threshold is met by exactly one success. *)
LEMMA ThresholdOnSuccess ==
  ASSUME NEW d \in Nat, ThresholdReached(0, d)
  PROVE  d = 1
BY DEF ThresholdReached

(* Every step of the loop and of the workers keeps the batch invariant. *)
LEMMA BatchStep ==
  ASSUME BatchInv, [Next]_vars
  PROVE  BatchInv'
<1> USE LimitAssumption, CountsAssumption DEF BatchInv, TypeOK, Ahead
<1>1. CASE Start
  <2>1. gaveUp' \in BOOLEAN
    BY <1>1, Zenon DEF Start
  <2>2. count' \in Nat /\ inflight = 0
    BY <1>1 DEF Start
  <2>3. QED
    BY <1>1, <2>1, <2>2 DEF Start
<1>2. CASE LoadErrors
  BY <1>2 DEF LoadErrors
<1>3. CASE LoadSucceeded
  <2>1. gaveUp' \in BOOLEAN
    BY <1>3 DEF LoadSucceeded, ThresholdReached
  <2>2. CASE gaveUp'
    <3>1. ThresholdReached(currentErrors, succeeded)
      BY <1>3, <2>2 DEF LoadSucceeded
    <3>2. errCount = 0 => succeeded = 1
      BY <3>1, ThresholdOnSuccess
    <3>3. QED
      BY <1>3, <2>1, <2>2, <3>2 DEF LoadSucceeded
  <2>3. CASE ~gaveUp'
    <3>1. \/ currentErrors = 0 /\ succeeded = 0
          \/ currentErrors + 2 <= succeeded
      BY <1>3, <2>3, ThresholdMargin DEF LoadSucceeded
    <3>2. errCount + inflight + 1 <= succeeded + Limit + 1
      BY <1>3, <3>1 DEF LoadSucceeded
    <3>3. QED
      BY <1>3, <2>1, <2>3, <3>2 DEF LoadSucceeded
  <2>4. QED
    BY <2>2, <2>3
<1>4. CASE Go
  BY <1>4 DEF Go
<1>5. CASE LoopEnds
  BY <1>5 DEF LoopEnds
<1>6. CASE WaitReturns
  BY <1>6 DEF WaitReturns
<1>7. CASE WorkerFails
  BY <1>7 DEF WorkerFails, loopVars
<1>8. CASE WorkerSucceeds
  BY <1>8 DEF WorkerSucceeds, loopVars
<1>9. CASE UNCHANGED vars
  BY <1>9 DEF vars, loopVars
<1>10. QED
  BY <1>1, <1>2, <1>3, <1>4, <1>5, <1>6, <1>7, <1>8, <1>9 DEF Next, Loop, Worker

(* The batch invariant, types included, holds throughout. *)
THEOREM BatchInvariant == Spec => []BatchInv
<1>1. Init => BatchInv
  <2>1. Init => gaveUp \in BOOLEAN
    BY Zenon DEF Init
  <2>2. QED
    BY <2>1, LimitAssumption DEF Init, BatchInv, TypeOK, Ahead
<1>2. BatchInv /\ [Next]_vars => BatchInv'
  BY BatchStep
<1>3. QED
  BY <1>1, <1>2, PTL DEF Spec

(* A returned batch has no worker left and has counted every attempt. *)
THEOREM ResultFinality == Spec => []ResultIsFinal
<1>1. BatchInv => ResultIsFinal
  BY DEF BatchInv, TypeOK, ResultIsFinal
<1>2. QED
  BY <1>1, BatchInvariant, PTL

(* Failures exceed successes by at most Limit + 1, whatever the batch size. *)
THEOREM FailuresBounded == Spec => []FailureBudget
<1>1. BatchInv => FailureBudget
  BY LimitAssumption DEF BatchInv, TypeOK, Ahead, FailureBudget
<1>2. QED
  BY <1>1, BatchInvariant, PTL

(* An error-free batch is complete or stopped after one to Limit + 1 items. *)
THEOREM ProgressWithoutErrors == Spec => []BatchProgress
<1>1. BatchInv => BatchProgress
  BY LimitAssumption DEF BatchInv, TypeOK, BatchProgress
<1>2. QED
  BY <1>1, BatchInvariant, PTL
==============================================================================
