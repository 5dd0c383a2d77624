---------------------------- MODULE WindowLimit ----------------------------
(***************************************************************************)
(* What a rate limiter promises: of the requests it admits, at most Bound   *)
(* have their time stamps in any one window.  Gateway implements it with a  *)
(* larger bound than the limit, because its check and its entry are two     *)
(* round trips to Redis.                                                    *)
(***************************************************************************)
EXTENDS Integers, FiniteSets

CONSTANTS
    Keys,       \* what is limited
    Times,      \* the clock
    Window,     \* length of the window
    Bound       \* most admissions in a window

VARIABLE admitted       \* the time stamps admitted so far, by key

InWindow(times, t) == {s \in times : t - Window < s /\ s <= t}

Init == admitted = [k \in Keys |-> {}]

\* Any further admission that leaves every window within the bound.
Admit(k, t) ==
    /\ admitted' = [admitted EXCEPT ![k] = @ \cup {t}]
    /\ \A u \in Times : Cardinality(InWindow(admitted[k] \cup {t}, u)) <= Bound

Next == \E k \in Keys, t \in Times : Admit(k, t)

Spec == Init /\ [][Next]_admitted
=============================================================================
