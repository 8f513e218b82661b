------------------------ MODULE MCSpaceReservations ------------------------
(* Instance of SpaceReservations for TLC. *)
EXTENDS SpaceReservations, TLC

CONSTANTS r1, r2, c1, c2

MCIds == {r1, r2}

MCReleasers == {c1, c2}

\* Reservation ids and cancelling calls are interchangeable.
Symmetry == Permutations(MCIds) \cup Permutations(MCReleasers)
=============================================================================
