------------------------- MODULE StepOverLoop_proofs -------------------------
(***************************************************************************)
(* The loop of step_over computes StepOverIndex, for traces of every       *)
(* length and for every set of call depths.                                *)
(***************************************************************************)
EXTENDS StepOverLoop, Navigation_proofs

LEMMA LoopInit == ASSUME Init PROVE LoopInv
<1>1. trace \in Traces
  <2>1. PICK n \in 0 .. MaxLen : trace \in [1 .. n -> Depths]
    BY DEF Init
  <2>2. n \in Nat
    BY LoopAssumption DEF LoopAssumption
  <2>3. DOMAIN trace = 1 .. n /\ \A j \in 1 .. n : trace[j] \in Nat
    BY <2>1, LoopAssumption DEF LoopAssumption
  <2>4. trace = [j \in 1 .. n |-> trace[j]]
    BY <2>1
  <2> QED
    BY <2>2, <2>3, <2>4 DEF Traces
<1> QED
  BY <1>1 DEF Init, LoopInv, StepOverCorrect

(* The one step with content: when the loop ends, what it has skipped is   *)
(* exactly what no stop position may be.                                   *)
LEMMA LoopLeave == ASSUME LoopInv, Leave PROVE LoopInv'
<1>1. /\ trace \in Traces /\ start \in 0 .. Len(trace) - 1
      /\ target_depth = trace[start + 1]
      /\ current_index \in start + 1 .. Len(trace)
      /\ \A k \in start + 1 .. current_index - 1 : trace[k + 1] > target_depth
  BY DEF LoopInv, Leave, Traces
<1>2. trace[start + 1] \in Nat
      /\ \A k \in 0 .. Len(trace) - 1 : trace[k + 1] \in Nat
  BY <1>1 DEF Traces
<1>3. Len(trace) \in Nat
  BY <1>1 DEF Traces
<1>4. current_index < Len(trace) => trace[current_index + 1] <= trace[start + 1]
  <2> SUFFICES ASSUME current_index < Len(trace)
               PROVE  trace[current_index + 1] <= trace[start + 1]
    OBVIOUS
  <2>1. ~(trace[current_index + 1] > target_depth)
    BY DEF Leave, InnerFrame
  <2>2. trace[current_index + 1] \in Nat
    BY <1>1, <1>2, <1>3
  <2> QED
    BY <1>1, <1>2, <2>1, <2>2
<1>5. current_index \in StopPositions(trace, start)
  BY <1>1, <1>4 DEF StopPositions
<1>6. ASSUME NEW k \in StopPositions(trace, start)
      PROVE  current_index <= k
  <2>1. k \in start + 1 .. Len(trace) /\ (k < Len(trace) => trace[k + 1] <= trace[start + 1])
    BY DEF StopPositions
  <2> SUFFICES ASSUME k < current_index
               PROVE  FALSE
    BY <1>1, <1>3, <2>1
  <2>2. k \in start + 1 .. current_index - 1 /\ k < Len(trace)
    BY <1>1, <1>3, <2>1
  <2>3. trace[k + 1] > trace[start + 1] /\ trace[k + 1] \in Nat
    BY <1>1, <1>2, <1>3, <2>2
  <2> QED
    BY <1>2, <2>1, <2>2, <2>3
<1>7. StepOverIndex(trace, start) = current_index
  BY <1>1, <1>5, <1>6, LeastStop
<1> QED
  BY <1>7 DEF LoopInv, Leave, StepOverCorrect

LEMMA LoopNext == ASSUME LoopInv, [Next]_vars PROVE LoopInv'
<1>1. CASE AtEnd
  <2>1. StepOverIndex(trace, start) = start
    BY <1>1 DEF AtEnd, LoopInv, StepOverIndex
  <2> QED
    BY <1>1, <2>1 DEF AtEnd, LoopInv, StepOverCorrect
<1>2. CASE Enter
  <2>1. Len(trace) \in Nat
    BY DEF LoopInv, Traces
  <2> QED
    BY <1>2, <2>1 DEF Enter, LoopInv, StepOverCorrect
<1>3. CASE Skip
  <2>1. /\ Len(trace) \in Nat
        /\ start < Len(trace)
        /\ current_index \in start + 1 .. Len(trace)
        /\ current_index < Len(trace)
        /\ trace[current_index + 1] > target_depth
        /\ \A k \in start + 1 .. current_index - 1 : trace[k + 1] > target_depth
    BY <1>3 DEF Skip, InnerFrame, LoopInv, Traces
  <2>2. current_index' \in start + 1 .. Len(trace)
    BY <1>3, <2>1 DEF Skip, LoopInv
  <2>3. \A k \in start + 1 .. current_index' - 1 :
          k \in start + 1 .. current_index - 1 \/ k = current_index
    BY <1>3, <2>1 DEF Skip, LoopInv
  <2>4. \A k \in start + 1 .. current_index' - 1 : trace[k + 1] > target_depth
    BY <2>1, <2>3
  <2> QED
    BY <1>3, <2>2, <2>4 DEF Skip, LoopInv, StepOverCorrect
<1>4. CASE Leave
  BY <1>4, LoopLeave
<1>5. CASE UNCHANGED vars
  BY <1>5 DEF vars, LoopInv, StepOverCorrect
<1> QED
  BY <1>1, <1>2, <1>3, <1>4, <1>5 DEF Next

(* The loop invariant holds throughout.                                    *)
THEOREM LoopInvariance == Spec => []LoopInv
<1>1. Init => LoopInv
  BY LoopInit
<1>2. LoopInv /\ [Next]_vars => LoopInv'
  BY LoopNext
<1> QED
  BY <1>1, <1>2, PTL DEF Spec

(* step_over leaves the cursor on the first later snapshot that is not in  *)
(* a callee of the frame it left.                                          *)
THEOREM StepOverIsCorrect == Spec => []StepOverCorrect
<1>1. LoopInv => StepOverCorrect
  BY DEF LoopInv
<1> QED
  BY <1>1, LoopInvariance, PTL

(* What is left to do: the snapshots ahead of the cursor, and the stages   *)
(* of the body that are still to come.                                     *)
Remaining ==
  Len(trace) - current_index
    + IF pc = "enter" THEN 2 ELSE IF pc = "loop" THEN 1 ELSE 0

(* Every step of the body leaves less to do, whatever the depths are, so   *)
(* that step_over cannot loop for ever while it holds the lock.            *)
THEOREM StepOverTerminates ==
  Spec => [][Remaining' < Remaining /\ Remaining \in Nat /\ Remaining' \in Nat]_vars
<1>1. ASSUME LoopInv, Next
      PROVE  Remaining' < Remaining /\ Remaining \in Nat /\ Remaining' \in Nat
  <2>1. /\ Len(trace) \in Nat /\ start \in 0 .. Len(trace)
        /\ pc \in {"enter", "loop", "done"} /\ pc' \in {"loop", "done"}
        /\ trace' = trace
    BY <1>1 DEF LoopInv, Traces, Next, AtEnd, Enter, Skip, Leave
  <2>2. current_index \in 0 .. Len(trace) /\ pc # "done"
    BY <1>1, <2>1 DEF LoopInv, Next, AtEnd, Enter, Skip, Leave
  <2>3. CASE AtEnd
    BY <2>1, <2>2, <2>3 DEF AtEnd, Remaining
  <2>4. CASE Enter
    BY <2>1, <2>2, <2>4 DEF Enter, Remaining
  <2>5. CASE Skip
    BY <2>1, <2>2, <2>5 DEF Skip, InnerFrame, Remaining
  <2>6. CASE Leave
    BY <2>1, <2>2, <2>6 DEF Leave, Remaining
  <2> QED
    BY <1>1, <2>3, <2>4, <2>5, <2>6 DEF Next
<1> QED
  BY <1>1, LoopInvariance, PTL DEF Spec
=============================================================================
