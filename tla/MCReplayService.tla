--------------------------- MODULE MCReplayService ---------------------------
(***************************************************************************)
(* Instances of ReplayService for TLC: sessions that compete for the       *)
(* permits and for the cache file of one transaction.                      *)
(***************************************************************************)
EXTENDS ReplayService, TLC

OneTx == {"plain"}
TwoTxs == {"plain", "transfer"}
MCFullTrace(txs) == [t \in txs |-> IF t = "plain" THEN <<1, 1>> ELSE <<>>]
OneTrace == MCFullTrace(OneTx)
TwoTraces == MCFullTrace(TwoTxs)
OneOutcome == [t \in OneTx |-> "failure"]
TwoOutcomes == [t \in TwoTxs |-> "failure"]

SessionSymmetry == Permutations(Sessions)
=============================================================================
