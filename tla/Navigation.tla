------------------------------ MODULE Navigation ------------------------------
(***************************************************************************)
(* The cursor arithmetic of a ready debug session (session.rs).            *)
(*                                                                         *)
(* "Stepping" never runs the EVM: the whole replay is recorded first and   *)
(* the commands move an index over the recorded snapshots.  Of a snapshot  *)
(* only call_depth steers the commands, so a trace is the sequence of the  *)
(* call depths of its snapshots.  The code's indices start at 0:           *)
(* snapshots[i] of the code is trace[i + 1] here, and the index            *)
(* Len(trace) stands past the last snapshot.                               *)
(***************************************************************************)
EXTENDS Integers, Sequences

Traces == Seq(Nat)

(* Option<ExecutionResultInfo>: "none" is None; of a result only success    *)
(* matters.                                                                *)
Results == {"none", "success", "failure"}

-----------------------------------------------------------------------------
(* Mutants: step_into without its min, and step_into that starts over.     *)
StepIntoUnclamped(trace, i) == i + 1
StepIntoWraps(trace, i) == IF i < Len(trace) THEN i + 1 ELSE 0

StepIntoIndex(trace, i) == IF i + 1 <= Len(trace) THEN i + 1 ELSE Len(trace)

(* The positions at which the loop of step_over may stop when it starts at *)
(* i: past the end, or at a snapshot that is not deeper than that of i.    *)
(* The mutant StopPositionsOut steps out of the frame instead.             *)
StopPositionsOut(trace, i) ==
  {j \in i + 1 .. Len(trace) : j < Len(trace) => trace[j + 1] < trace[i + 1]}

StopPositions(trace, i) ==
  {j \in i + 1 .. Len(trace) : j < Len(trace) => trace[j + 1] <= trace[i + 1]}

StepOverIndex(trace, i) ==
  IF i >= Len(trace)
  THEN i
  ELSE CHOOSE j \in StopPositions(trace, i) :
         \A k \in StopPositions(trace, i) : j <= k

ContinueIndex(trace, i) == Len(trace)

(* The SessionState reported for an index: past the end the recorded       *)
(* result decides, and a trace without a result reads as aborted.          *)
StateAt(trace, i, result) ==
  IF i < Len(trace) THEN "paused"
  ELSE IF result = "none" THEN "aborted" ELSE "finished"
=============================================================================
