------------------------------- MODULE MCChat -------------------------------
(* Instance of Chat for TLC. *)
EXTENDS Chat, TLC

CONSTANTS a, b, u1, u2, m1, m2, p1, p2

MCRooms == {a, b}
MCUsers == {u1, u2}
MCMessages == {m1, m2}
MCRequests == {p1, p2}
MCTidy == {u1}

\* Rooms, messages and calls are interchangeable; only u1 is tidy.
Symmetry ==
    Permutations(MCRooms) \cup Permutations(MCMessages) \cup Permutations(MCRequests)
=============================================================================
