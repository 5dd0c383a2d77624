-------------------------- MODULE MCBalanceService --------------------------
(* Instances of BalanceService for TLC.                                    *)
EXTENDS BalanceService, TLC

Symmetry == Permutations(Sessions)
=============================================================================
