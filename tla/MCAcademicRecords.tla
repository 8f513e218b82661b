-------------------------- MODULE MCAcademicRecords --------------------------
(* Instance of AcademicRecords for TLC. *)
EXTENDS AcademicRecords, TLC

CONSTANTS r1, r2, s1, g1, v1, v2, AA

MCRequests == {r1, r2}
MCFaulty == {r2}
MCSlots == {s1}
MCRows == {g1}
MCScores == {v1, v2}
Symmetry == Permutations(MCScores)
MCStatuses == {"ENROLLED"}
Settings(enabled, active, previous) ==
    [enabled |-> enabled, active |-> active, previous |-> previous]
\* The first period is active, whatever previous says; then it is closed, open
\* to late editing, or everything is disabled.
MCConfigs == {Settings(TRUE, 1, TRUE), Settings(TRUE, 2, FALSE),
              Settings(TRUE, 2, TRUE), Settings(FALSE, 2, FALSE)}
MCResults == {AA}
=============================================================================
