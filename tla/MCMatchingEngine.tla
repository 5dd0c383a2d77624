-------------------------- MODULE MCMatchingEngine --------------------------
(* Instances of MatchingEngine for TLC.                                    *)
EXTENDS MatchingEngine

=============================================================================
