------------------------------ MODULE MCRecords ------------------------------
(* Attendance, and the other parts of MCInstitution that work on what is        *)
(* recorded of students and courses: the backfill of the academic structure,    *)
(* the report of a period, its judgement of evaluations, and the promotion of   *)
(* one student.                                                                *)
EXTENDS Attendance

CONSTANTS
    Institutions, Levels, Grades, Catalog, Courses, Scoped, Indicators,   \* Backfill
    LastPeriod, Scores, Marks, Aggregations,         \* Reports
    MaxCount,                                        \* Trayectoria
    Graded, GradeScores, PendingCounts, Presence     \* PromotionRules

VARIABLES
    course, scoped, indicator, educationLevels, levelGrades, courseGrade, scopedLevel,
    indicatorGrade, migrated, step, todo, eduLevelMap, lgMap, lgBySlugAndGrade,
    grades, closingGrade, reportPeriodAggregation, read, report, seen, lateGrades,
    valuations,
    scores, pending, presence, query, data, result, before, rose, fell

B == INSTANCE Backfill
R == INSTANCE Reports WITH Rows <- Marks, late <- lateGrades
T == INSTANCE Trayectoria WITH evaluations <- valuations
P == INSTANCE PromotionRules WITH
        Grades <- Graded, Scores <- GradeScores, Pending <- PendingCounts, Attendance <- Presence,
        grades <- scores, attendance <- presence, pc <- query

\* For the proofs: the catalog is finite and has a grade for each level; the marks and the
\* grades of a student are finite; columns are of periods; a score and a count are numbers, and
\* Null is none of them, no row, no closing grade and no query.
ASSUME RecordsAssumption ==
    /\ IsFiniteSet(Levels) /\ IsFiniteSet(Grades) /\ Catalog \subseteq Levels \X Grades
    /\ \A l \in Levels : \E n \in Grades : <<l, n>> \in Catalog
    /\ Null \notin B!LevelGrade \cup B!EducationLevel
    /\ LastPeriod \in Nat \ {0}
    /\ \A columns \in Aggregations : columns \subseteq SUBSET (1 .. LastPeriod)
    /\ IsFiniteSet(Marks) /\ Scores \subseteq Nat /\ Null \notin R!Closing
    /\ MaxCount \in Nat
    /\ IsFiniteSet(Graded) /\ GradeScores \subseteq Nat
    /\ \A p \in PendingCounts : p.notCompleted \in Nat
    /\ \A a \in Presence : a.attended \in Nat /\ a.missed \in Nat
    /\ Null \notin {"pending", "attendance", "rules"}

bVars == <<course, scoped, indicator, educationLevels, levelGrades, courseGrade, scopedLevel,
           indicatorGrade, migrated, step, todo, eduLevelMap, lgMap, lgBySlugAndGrade>>
rVars == <<grades, closingGrade, reportPeriodAggregation, read, report, seen, lateGrades>>
pVars == <<scores, pending, presence, query, data, result, before, rose, fell>>
=============================================================================
