---------------------------- MODULE MCPromotion ----------------------------
(* A small institution: s1 is in the first grade of year 1, s2 in the last. *)
EXTENDS PromotionClaims, TLC

CONSTANTS s1, s2, g1, g2, m1, e1, e2

MCStudents == {s1, s2}
MCGrades == {g1, g2}
MCGraduating == {g2}
MCNextGrade == (g1 :> g2) @@ (g2 :> Null)

Room(y, g) == [year |-> y, grade |-> g, no |-> 1]
In(s, c) == [student |-> s, course |-> c]

MCCourses == {Room(1, g1), Room(1, g2)}
MCCourseStudents == {In(s1, Room(1, g1)), In(s2, Room(1, g2))}

LastYearStudent == {In(s2, Room(1, g2))}
OneStudent == {In(s1, Room(1, g1))}

\* One subject, taken by s1 in year 1.  OfferedCourses already offer it in year 2.
OfferedCourses == MCCourses \cup {Room(2, g2)}
MCOffers == {<<Room(1, g1), m1>>, <<Room(2, g2), m1>>}
MCAssignments == {[student |-> s1, course |-> Room(1, g1), subject |-> m1, type |-> "REGULAR"]}

ManualEnrolments == {In(s1, Room(2, g2))}
NoRows == {}
NoYears == {}

ExecutorSymmetry == Permutations({e1, e2})
=============================================================================
