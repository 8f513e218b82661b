--------------------------- MODULE PromotionData ---------------------------
(***************************************************************************)
(* The rows the promotion services read and write, the resolution of a     *)
(* student's destination and the effective-result view, as operators over  *)
(* those rows.  Promotion.tla is the state machine built from them.        *)
(*                                                                         *)
(* A school year is its calendar year.  A Course row is the record         *)
(* [year, grade, no]: `no' stands for the uuid that tells apart two        *)
(* courses of the same year and grade.  A CourseStudent row is the pair    *)
(* [student, course], which the schema makes unique.                       *)
(***************************************************************************)
EXTENDS Integers, Sequences

CONSTANTS
    Students,          \* the students of one institution
    Years,             \* its school years, as calendar years
    Grades,            \* its level grades
    GraduatingGrades,  \* LevelGrade.isGraduating
    NextGrade,         \* LevelGrade.nextLevelGradeId
    Subjects,          \* subjects
    Offers,            \* CourseSubject rows: pairs <<course, subject>>
    CourseNos,         \* bound: how many courses one year and grade may have
    Null               \* the null of the database

ASSUME YearsAssumption == Years \subseteq Nat
ASSUME NullAssumption == Null \notin Years /\ Null \notin Grades

\* 20260613000004_add_level_grade_progression_fields: level_grades_no_self_ref.
ASSUME GradesAssumption ==
    /\ GraduatingGrades \subseteq Grades
    /\ NextGrade \in [Grades -> Grades \cup {Null}]
    /\ \A g \in Grades : NextGrade[g] # g

Outcome == {"PROMOTED", "RETAINED", "GRADUATED"}

Course == [year : Years, grade : Grades \cup {Null}, no : CourseNos]

ASSUME CourseAssumption == Null \notin Course

CourseStudent == [student : Students, course : Course]

SubjectType == {"REGULAR", "RECURSE"}

StudentCourseSubject ==
    [student : Students, course : Course, subject : Subjects, type : SubjectType]

ASSUME OffersAssumption == Offers \subseteq Course \X Subjects

PromotionResult ==
    [student    : Students,
     fromYear   : Years,
     toYear     : Years \cup {Null},
     fromGrade  : Grades \cup {Null},
     toGrade    : Grades \cup {Null},
     toCourse   : Course \cup {Null},
     result     : Outcome,
     isOverride : BOOLEAN]

\* What the engine decided for one CourseStudent of the year being promoted.
Evaluation == [student : Students, course : Course, result : Outcome]

-----------------------------------------------------------------------------
(* The engine's verdict, once its rules have passed or failed. *)

EngineOutcome(grade, allPassed) ==
    IF ~allPassed THEN "RETAINED"
    ELSE IF grade \in GraduatingGrades THEN "GRADUATED" ELSE "PROMOTED"

EngineToGrade(result, grade) ==
    CASE result = "RETAINED"  -> grade
      [] result = "PROMOTED"  -> IF grade = Null THEN Null ELSE NextGrade[grade]
      [] result = "GRADUATED" -> Null

-----------------------------------------------------------------------------
(* DestinationResolver: where an outcome sends a student. *)

HasNextYear(y) == y + 1 \in Years

\* resolveDestination returns; otherwise it throws NO_TARGET_SCHOOL_YEAR or
\* INVALID_LEVEL_GRADE_PROGRESSION.
Resolvable(result, grade, y) ==
    \/ result = "GRADUATED"
    \/ result = "RETAINED" /\ HasNextYear(y)
    \/ result = "PROMOTED" /\ EngineToGrade(result, grade) # Null /\ HasNextYear(y)

\* Mutant: the year before.
ToPreviousYear(result, y) == IF result = "GRADUATED" THEN Null ELSE y - 1

ToYear(result, y) == IF result = "GRADUATED" THEN Null ELSE y + 1

\* Mutant: the query forgets the grade.
CoursesOfYear(cs, y, g) == {c \in cs : c.year = y}

\* The courses findOrCreateCourse may return for a year and a grade: its query
\* has no orderBy, so any of them.
CoursesOf(cs, y, g) == {c \in cs : c.year = y /\ c.grade = g}

\* A fresh uuid for a new course of that year and grade.
FreshNos(cs, y, g) == {n \in CourseNos : [year |-> y, grade |-> g, no |-> n] \notin cs}

NewCourse(cs, y, g) ==
    [year |-> y, grade |-> g, no |-> CHOOSE n \in FreshNos(cs, y, g) : TRUE]

\* Mutant: only the promoted get a course.
TargetOfPromoted(ev, y) ==
    IF ev.result = "PROMOTED"
    THEN {[year |-> ToYear(ev.result, y), grade |-> EngineToGrade(ev.result, ev.course.grade)]}
    ELSE {}

\* The year and grade an evaluation needs a course in, as a set of at most one.
TargetOf(ev, y) ==
    LET g == EngineToGrade(ev.result, ev.course.grade)
    IN  IF ev.result = "GRADUATED" \/ g = Null
        THEN {}
        ELSE {[year |-> ToYear(ev.result, y), grade |-> g]}

-----------------------------------------------------------------------------
(* EffectiveResultViewService: the last row decided for a student and year. *)

ResultsOf(rows, s, y) ==
    {i \in DOMAIN rows : rows[i].student = s /\ rows[i].fromYear = y}

\* Mutant: only promotions count as results.
HasPromotion(rows, s, y) ==
    \E i \in ResultsOf(rows, s, y) : rows[i].result = "PROMOTED"

HasResult(rows, s, y) == ResultsOf(rows, s, y) # {}

\* Index of the effective row; rows are in the order they were decided.
EffectiveIndex(rows, s, y) ==
    CHOOSE i \in ResultsOf(rows, s, y) : \A j \in ResultsOf(rows, s, y) : j <= i

EffectiveResult(rows, s, y) == rows[EffectiveIndex(rows, s, y)]

\* The latest row of the engine: what an override starts from.
EngineResultsOf(rows, s, y) ==
    {i \in ResultsOf(rows, s, y) : ~rows[i].isOverride}

PriorResult(rows, s, y) ==
    rows[CHOOSE i \in EngineResultsOf(rows, s, y) :
            \A j \in EngineResultsOf(rows, s, y) : j <= i]

\* The promotionSummary JSON; each count is kept as the set it counts.
Summary == [promoted  : SUBSET Students, retained  : SUBSET Students,
            graduated : SUBSET Students, overrides : SUBSET Students]

\* recalculateSummary: one row per student, the effective one.
EffectiveSummary(rows, y) ==
    LET decided == {s \in Students : HasResult(rows, s, y)}
        Who(o)  == {s \in decided : EffectiveResult(rows, s, y).result = o}
    IN  [promoted  |-> Who("PROMOTED"),  retained  |-> Who("RETAINED"),
         graduated |-> Who("GRADUATED"),
         overrides |-> {s \in decided : EffectiveResult(rows, s, y).isOverride}]

\* Mutant: the graduated count as promoted.
SummaryWithoutGraduates(evs) ==
    LET Who(o) == {s \in Students : \E ev \in evs : ev.student = s /\ ev.result \in o}
    IN  [promoted |-> Who({"PROMOTED", "GRADUATED"}), retained |-> Who({"RETAINED"}),
         graduated |-> {}, overrides |-> {}]

\* The summary of a preview or of a run: who got which outcome in a set of
\* evaluations.  Neither ever counts an override.
EvaluationSummary(evs) ==
    LET Who(o) == {s \in Students : \E ev \in evs : ev.student = s /\ ev.result = o}
    IN  [promoted  |-> Who("PROMOTED"),  retained  |-> Who("RETAINED"),
         graduated |-> Who("GRADUATED"), overrides |-> {}]

-----------------------------------------------------------------------------
(* copyStudentSubjectAssignments: the subjects of the source year that the  *)
(* destination course offers.  The query does not filter by type and the    *)
(* new rows take the default type.                                          *)

\* Mutant: copies what the destination course does not offer.
CopiedUnoffered(asg, s, fromYear, course) ==
    {[student |-> s, course |-> course, subject |-> a.subject, type |-> "REGULAR"] :
        a \in {b \in asg : b.student = s /\ b.course.year = fromYear}}

CopiedAssignments(asg, s, fromYear, course) ==
    LET source == {a.subject : a \in {b \in asg : b.student = s /\ b.course.year = fromYear}}
        existing == {a.subject : a \in {b \in asg : b.student = s /\ b.course = course}}
    IN  {[student |-> s, course |-> course, subject |-> m, type |-> "REGULAR"] :
            m \in {n \in source \ existing : <<course, n>> \in Offers}}
=============================================================================
