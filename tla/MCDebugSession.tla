---------------------------- MODULE MCDebugSession ----------------------------
(***************************************************************************)
(* Instances of DebugSession for TLC.  "calls" makes a nested call and     *)
(* fails; "transfer" runs no code at all, like a plain transfer of ether.  *)
(***************************************************************************)
EXTENDS DebugSession, TLC

MCTxs == {"calls", "transfer"}
MCFullTrace == [t \in MCTxs |-> IF t = "calls" THEN <<1, 2, 2, 1>> ELSE <<>>]
MCOutcome == [t \in MCTxs |-> IF t = "calls" THEN "failure" ELSE "success"]

SessionSymmetry == Permutations(Sessions)
=============================================================================
