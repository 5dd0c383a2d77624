----------------------------- MODULE MCGateway -----------------------------
(* The administrator and one email to register; two keys, two requests at  *)
(* a time.                                                                 *)
EXTENDS Gateway, TLC

MCProfiles == { [time |-> 0, accounts |-> TRUE, skews |-> {0}],
                [time |-> 7, accounts |-> FALSE, skews |-> {0}],
                [time |-> 2, accounts |-> FALSE, skews |-> {-2, 1, 2}] }
Interchangeable == Permutations(Requests)
MCGranted == {{"trade"}}
=============================================================================
