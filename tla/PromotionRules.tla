--------------------------- MODULE PromotionRules ---------------------------
(***************************************************************************)
(* The verdict on one student: buildStudentEvaluationData, which preview   *)
(* and execution both have, and the rules of PromotionEngine.  Grades,     *)
(* pending subjects and attendance are read by separate queries, and go on *)
(* changing in between.  Scores are in tenths; an average is a sum of      *)
(* doubles in whatever order the rows come.  The closing grades, which are *)
(* read last, are only reported.                                           *)
(***************************************************************************)
EXTENDS Integers, FiniteSets, FiniteSetsExt

CONSTANTS
    Grades, Scores,
    Pending,            \* pending subjects: how many COMPLETED, how many not
    Attendance,         \* days: how many PRESENT or LATE, how many not
    Null

VARIABLES
    grades,             \* scores, or Null where there is no grade
    pending, attendance,
    pc,                 \* the next query, or "rules", or Null
    data,               \* StudentEvaluationData, as far as it is read
    result,             \* did all rules pass, or Null
    \* history:
    before,             \* were the records good enough when the first query ran
    rose, fell          \* has a record become better, or worse, since then

records == <<grades, pending, attendance>>
history == <<before, rose, fell>>
vars == <<records, pc, data, result, history>>

NoData == [sum |-> 0, totalGrades |-> 0, rounded |-> FALSE,
           notCompleted |-> 0, attended |-> 0, totalAttendance |-> 0]

Init ==
    /\ grades \in [Grades -> Scores \cup {Null}]
    /\ pending \in Pending /\ attendance \in Attendance
    /\ pc = Null /\ data = NoData /\ result = Null
    /\ before = FALSE /\ rose = FALSE /\ fell = FALSE

Scored(g) == {i \in Grades : g[i] # Null}
Sum(g) == MapThenSumSet(LAMBDA i : g[i], Scored(g))
Count(g) == Cardinality(Scored(g))
DaysOf(a) == a.attended + a.missed

-----------------------------------------------------------------------------
(* buildCriteria and the rules *)

minAverageScore == 70
maxPendingSubjects == 2
attendanceMinimum == 80

\* Mutant: strictly above the minimum.
Above(value, minimum) == value > minimum

AtLeast(value, minimum) == value >= minimum

AverageScoreRule(d) ==
    d.totalGrades # 0 /\ AtLeast(d.sum, minAverageScore * d.totalGrades)

PendingSubjectsRule(d) == d.notCompleted <= maxPendingSubjects

\* Nobody is absent from a year without attendance.
AttendanceRule(d) ==
    d.totalAttendance = 0 \/ AtLeast(100 * d.attended, attendanceMinimum * d.totalAttendance)

\* CoreSubjectsRule always passes: buildCriteria lists no core subjects.
evaluate(d) == AverageScoreRule(d) /\ PendingSubjectsRule(d) /\ AttendanceRule(d)

-----------------------------------------------------------------------------
(* buildStudentEvaluationData *)

\* What the records are worth, whatever the rules make of them.
GoodEnough ==
    /\ Scored(grades) # {}
    /\ Sum(grades) >= 70 * Count(grades)
    /\ pending.notCompleted <= 2
    /\ 5 * attendance.attended >= 4 * DaysOf(attendance)

\* Halves are exact in binary and two tenths add up to the nearest double; the sum
\* of three may come out below 7.0 times three, for some orders of the rows.
Inexact(g) == Count(g) > 2 /\ \E i \in Scored(g) : g[i] % 5 # 0

ReadGrades ==
    /\ pc = Null
    /\ pc' = "pending"
    /\ \E low \in BOOLEAN :
         /\ low => Inexact(grades) /\ Sum(grades) = minAverageScore * Count(grades)
         /\ data' = [NoData EXCEPT !.sum = IF low THEN Sum(grades) - 1 ELSE Sum(grades),
                                   !.totalGrades = Count(grades), !.rounded = low]
    /\ result' = Null
    /\ before' = GoodEnough /\ rose' = FALSE /\ fell' = FALSE
    /\ UNCHANGED records

\* Mutant: those that are done.
Completed(p) == p.completed

NotCompleted(p) == p.notCompleted

ReadPending ==
    /\ pc = "pending"
    /\ pc' = "attendance"
    /\ data' = [data EXCEPT !.notCompleted = NotCompleted(pending)]
    /\ UNCHANGED <<records, result, history>>

ReadAttendance ==
    /\ pc = "attendance"
    /\ pc' = "rules"
    /\ data' = [data EXCEPT !.attended = attendance.attended, !.totalAttendance = DaysOf(attendance)]
    /\ UNCHANGED <<records, result, history>>

\* After the closing grades.
Evaluate ==
    /\ pc = "rules"
    /\ pc' = Null
    /\ result' = evaluate(data)
    /\ UNCHANGED <<records, data, history>>

-----------------------------------------------------------------------------
(* The other services, whose writes AcademicRecords and Attendance model *)

Better(g, h) ==
    \/ Scored(g) # {} /\ Scored(h) = {}
    \/ Scored(g) # {} /\ Scored(h) # {} /\ Sum(g) * Count(h) > Sum(h) * Count(g)

\* A year without attendance counts as full attendance.
Attended(a, b) ==
    (IF DaysOf(a) = 0 THEN 1 ELSE a.attended) * (IF DaysOf(b) = 0 THEN 1 ELSE DaysOf(b))

Changed ==
    /\ rose' = (rose \/ Better(grades', grades) \/ pending'.notCompleted < pending.notCompleted
                     \/ Attended(attendance', attendance) > Attended(attendance, attendance'))
    /\ fell' = (fell \/ Better(grades, grades') \/ pending'.notCompleted > pending.notCompleted
                     \/ Attended(attendance', attendance) < Attended(attendance, attendance'))
    /\ UNCHANGED <<pc, data, result, before>>

WriteGrade(i, score) ==
    /\ score # grades[i]
    /\ grades' = [grades EXCEPT ![i] = score]
    /\ UNCHANGED <<pending, attendance>>
    /\ Changed

WritePending(new) ==
    /\ new # pending
    /\ pending' = new
    /\ UNCHANGED <<grades, attendance>>
    /\ Changed

WriteAttendance(new) ==
    /\ new # attendance
    /\ attendance' = new
    /\ UNCHANGED <<grades, pending>>
    /\ Changed

Next ==
    \/ ReadGrades \/ ReadPending \/ ReadAttendance \/ Evaluate
    \/ \E i \in Grades, score \in Scores \cup {Null} : WriteGrade(i, score)
    \/ \E new \in Pending : WritePending(new)
    \/ \E new \in Attendance : WriteAttendance(new)

Spec == Init /\ [][Next]_vars

-----------------------------------------------------------------------------
(* Properties *)

\* Records, the data read from them and the verdict have their types.
TypeOK ==
    /\ grades \in [Grades -> Scores \cup {Null}]
    /\ pending \in Pending /\ attendance \in Attendance
    /\ pc \in {Null, "pending", "attendance", "rules"}
    /\ DOMAIN data = DOMAIN NoData /\ data.sum \in Nat /\ data.totalGrades \in Nat
    /\ result \in BOOLEAN \cup {Null}
    /\ {before, rose, fell} \subseteq BOOLEAN

\* A verdict read from records that only got better lies between what they were
\* worth when the reading began and what they are worth now, and so does one read
\* from records that only got worse: with nothing written it is exact.  The
\* exception is an average of exactly 7 that a sum of doubles puts below 7.
VerdictBetween ==
    result # Null /\ ~data.rounded =>
        /\ ~fell => (before => result) /\ (result => GoodEnough)
        /\ ~rose => (GoodEnough => result) /\ (result => before)
=============================================================================
