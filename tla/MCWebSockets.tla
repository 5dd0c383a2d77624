--------------------------- MODULE MCWebSockets ---------------------------
(* A socket of a user with events and failures of Redis; two sockets of    *)
(* one user or two; two clients of a symbol; one client in either edition  *)
(* with more events and failures.                                          *)
EXTENDS WebSockets
CONSTANTS btc, ann, s1, s2

Bounds(open, sockets, events, failures, edition) ==
    [open |-> open, sockets |-> sockets, events |-> events, faults |-> failures,
     edition |-> edition]

MCProfiles == { Bounds({ann}, {s1}, 2, 2, "current"),
                Bounds({ann}, {s1, s2}, 1, 1, "current"),
                Bounds({btc}, {s1, s2}, 1, 0, "current"),
                Bounds({btc}, {s1}, 2, 1, "current"),
                Bounds({btc}, {s1}, 2, 1, "older") }
=============================================================================
