--------------------------- MODULE MCReplayEffects ---------------------------
(***************************************************************************)
(* Instances of ReplayEffects for TLC.  No contract is special: the zero   *)
(* address aside, they may be exchanged.                                   *)
(***************************************************************************)
EXTENDS ReplayEffects, TLC

ContractSymmetry == Permutations(Contracts)
=============================================================================
