----------------------------- MODULE StepOverLoop -----------------------------
(***************************************************************************)
(* The body of DebugSession::step_over (session.rs), one loop iteration    *)
(* per step.  The body runs under the session's data lock, so the other    *)
(* modules take it as one atomic step to StepOverIndex; this module is the *)
(* justification: the loop computes exactly that index.                    *)
(***************************************************************************)
EXTENDS Navigation

CONSTANTS MaxLen,   \* longest recorded trace
          Depths    \* the call depths that occur

ASSUME LoopAssumption ==
  /\ MaxLen \in Nat
  /\ Depths \subseteq Nat

VARIABLES trace,          \* the recorded snapshots, never written
          start,          \* the cursor before the command
          current_index,  \* the cursor
          target_depth,   \* the call depth at the start
          pc
vars == <<trace, start, current_index, target_depth, pc>>

Init ==
  /\ \E n \in 0 .. MaxLen : trace \in [1 .. n -> Depths]
  /\ start \in 0 .. Len(trace)
  /\ current_index = start
  /\ target_depth = 0
  /\ pc = "enter"

(* Past the last snapshot the command returns without moving.              *)
AtEnd ==
  /\ pc = "enter"
  /\ current_index >= Len(trace)
  /\ pc' = "done"
  /\ UNCHANGED <<trace, start, current_index, target_depth>>

Enter ==
  /\ pc = "enter"
  /\ current_index < Len(trace)
  /\ target_depth' = trace[current_index + 1]
  /\ current_index' = current_index + 1
  /\ pc' = "loop"
  /\ UNCHANGED <<trace, start>>

(* A mutant: the comparison off by one, so that siblings are skipped too.  *)
InnerFrameMutant ==
  /\ current_index < Len(trace)
  /\ trace[current_index + 1] >= target_depth

(* The condition of the while loop.                                        *)
InnerFrame ==
  /\ current_index < Len(trace)
  /\ trace[current_index + 1] > target_depth

Skip ==
  /\ pc = "loop"
  /\ InnerFrame
  /\ current_index' = current_index + 1
  /\ UNCHANGED <<trace, start, target_depth, pc>>

Leave ==
  /\ pc = "loop"
  /\ ~InnerFrame
  /\ pc' = "done"
  /\ UNCHANGED <<trace, start, current_index, target_depth>>

Next == AtEnd \/ Enter \/ Skip \/ Leave

Spec == Init /\ [][Next]_vars

-----------------------------------------------------------------------------
(* When the loop of step_over ends, the cursor stands on the first later   *)
(* snapshot that is not deeper than the one it left, or past the end: no   *)
(* step of the same frame is skipped and none of a callee is stopped at.   *)
StepOverCorrect == pc = "done" => current_index = StepOverIndex(trace, start)

(* The loop invariant: everything passed so far belongs to a callee.       *)
LoopInv ==
  /\ trace \in Traces
  /\ start \in 0 .. Len(trace)
  /\ pc \in {"enter", "loop", "done"}
  /\ pc = "enter" => current_index = start
  /\ pc = "loop" =>
       /\ start < Len(trace)
       /\ target_depth = trace[start + 1]
       /\ current_index \in start + 1 .. Len(trace)
       /\ \A k \in start + 1 .. current_index - 1 : trace[k + 1] > target_depth
  /\ StepOverCorrect
=============================================================================
