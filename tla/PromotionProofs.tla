-------------------------- MODULE PromotionProofs ---------------------------
(***************************************************************************)
(* Promotion, for every set of students, years, grades, courses and requests.*)
(*                                                                         *)
(* First its types and the integrity of the tables it writes, for every    *)
(* interleaving of runs and overrides and every fault of the model, two runs*)
(* of one year at once included.  All of it follows from what one step may *)
(* do to the tables (TableStep): decide one result together with its        *)
(* enrolment, or enrol on request, or remove an empty course.               *)
(*                                                                         *)
(* Then what the lock of a school year guarantees, while no execution is    *)
(* taken for dead (no heartbeat gets old) and previews do not overlap;      *)
(* without either assumption the properties are false of the code: see the  *)
(* README.  Last, that no student is left without a result (NobodyForgotten,*)
(* which needs no lock) and that statistics that are not stale count nobody *)
(* out of place (StatisticsSound).                                          *)
(***************************************************************************)
EXTENDS Promotion, WellFoundedInduction, TLAPS

-----------------------------------------------------------------------------
(* Types *)

\* What each step of a request knows about its local variables.
PlaceOK ==
    \A e \in Executors :
        /\ pc[e] # "idle" => year[e] \in Years
        /\ pc[e] = "idle" => evaluations[e] = {}
        /\ pc[e] = "createCourse" => current[e] \in Target
        /\ pc[e] = "commit" => current[e] \in evaluations[e]
        /\ todo[e] \subseteq evaluations[e]
        /\ \A ev \in evaluations[e] : Resolvable(ev.result, ev.course.grade, year[e])

OverrideOK ==
    \A o \in Overriders : override[o] # Null =>
        LET v == override[o] IN
        /\ v.stage \in {"course", "create"} => v.toYear \in Years /\ v.toGrade \in Grades
        /\ v.stage # "commit" => v.course = Null
        /\ v.course # Null => v.course.year = v.toYear /\ v.course.grade = v.toGrade

TypeInv == TypeOK /\ PlaceOK /\ OverrideOK

-----------------------------------------------------------------------------
(* Lemmas on the operators of PromotionData. *)

\* The engine's grade is a level grade or null.
LEMMA EngineToGradeType ==
    ASSUME NEW r \in Outcome, NEW g \in Grades \cup {Null}
    PROVE  EngineToGrade(r, g) \in Grades \cup {Null}
BY GradesAssumption, NullAssumption DEF EngineToGrade, Outcome

\* A resolvable outcome goes to an existing year.
LEMMA ToYearType ==
    ASSUME NEW r \in Outcome, NEW g \in Grades \cup {Null}, NEW y \in Years,
           Resolvable(r, g, y)
    PROVE  /\ ToYear(r, y) \in Years \cup {Null}
           /\ r # "GRADUATED" => ToYear(r, y) \in Years
BY DEF Resolvable, ToYear, HasNextYear, Outcome

\* Evaluating a roster gives evaluations.
LEMMA EvaluationsType ==
    ASSUME courseStudents \subseteq CourseStudent, NEW y,
           NEW ap \in [Roster(y) -> BOOLEAN]
    PROVE  EvaluationsOf(y, ap) \subseteq Evaluation
BY DEF EvaluationsOf, Roster, CourseStudent, Evaluation, EngineOutcome, Outcome

\* A summary of evaluations or of effective results is a summary.
LEMMA SummaryType ==
    ASSUME NEW evs, NEW rows, NEW y
    PROVE  EvaluationSummary(evs) \in Summary /\ EffectiveSummary(rows, y) \in Summary
BY DEF EvaluationSummary, EffectiveSummary, Summary

\* A destination is a pair of an existing year and a level grade.
LEMMA TargetType ==
    ASSUME NEW ev \in Evaluation, NEW y \in Years,
           Resolvable(ev.result, ev.course.grade, y), NEW t \in TargetOf(ev, y)
    PROVE  t \in Target
<1>1. ev.result \in Outcome /\ ev.course.grade \in Grades \cup {Null}
  BY DEF Evaluation, Course
<1>2. EngineToGrade(ev.result, ev.course.grade) \in Grades \cup {Null}
  BY <1>1, EngineToGradeType
<1>3. ev.result # "GRADUATED" => ToYear(ev.result, y) \in Years
  BY <1>1, ToYearType
<1> QED
  BY <1>2, <1>3 DEF TargetOf, Target

\* Every non-empty set of natural numbers below a bound has a greatest element.
LEMMA MaximumOfInterval ==
    ASSUME NEW n \in Nat, NEW S \in SUBSET (1..n), S # {}
    PROVE  \E i \in S : \A j \in S : j <= i
<1> DEFINE R == OpToRel(<, Nat)
           T == {n - i : i \in S}
<1>1. IsWellFoundedOn(R, Nat)
  BY NatLessThanWellFounded
<1>2. T \subseteq Nat /\ T # {}
  <2>1. \A i \in S : n - i \in Nat
    OBVIOUS
  <2>2. PICK i \in S : TRUE
    OBVIOUS
  <2>3. n - i \in T
    OBVIOUS
  <2> QED
    BY <2>1, <2>3
<1>3. \A x, y \in Nat : y < x => <<y, x>> \in R
  BY DEF OpToRel
<1> HIDE DEF R
<1>4. PICK x \in T : \A y \in T : ~ (<<y, x>> \in R)
  <2> HIDE DEF T
  <2> QED
    BY <1>1, <1>2, WFMin
<1>5. PICK i \in S : x = n - i
  OBVIOUS
<1>6. ASSUME NEW j \in S PROVE j <= i
  <2>1. n - j \in T /\ n - j \in Nat /\ x \in Nat
    BY <1>2
  <2>2. ~ (n - j < x)
    BY <2>1, <1>3, <1>4
  <2> QED
    BY <2>2, <1>5
<1> QED
  BY <1>6

\* A created course is a Course row that did not exist.
LEMMA NewCourseType ==
    ASSUME NEW cs, NEW y \in Years, NEW g \in Grades, FreshNos(cs, y, g) # {}
    PROVE  /\ NewCourse(cs, y, g) \in Course
           /\ NewCourse(cs, y, g).year = y
           /\ NewCourse(cs, y, g).grade = g
<1>1. (CHOOSE n \in FreshNos(cs, y, g) : TRUE) \in CourseNos
  BY DEF FreshNos
<1> QED
  BY <1>1 DEF NewCourse, Course

\* Copied assignments are assignments.
LEMMA CopiedType ==
    ASSUME NEW s \in Students, NEW y, NEW c \in Course, assignments \subseteq StudentCourseSubject
    PROVE  CopiedAssignments(assignments, s, y, c) \subseteq StudentCourseSubject
<1> SUFFICES ASSUME NEW a \in CopiedAssignments(assignments, s, y, c)
             PROVE  a \in StudentCourseSubject
  OBVIOUS
<1>1. PICK b \in assignments : a = [student |-> s, course |-> c, subject |-> b.subject,
                                    type |-> "REGULAR"]
  BY DEF CopiedAssignments
<1>2. b.subject \in Subjects
  BY DEF StudentCourseSubject
<1> QED
  BY <1>1, <1>2 DEF StudentCourseSubject, SubjectType

\* The row of an engine decision is a result.
LEMMA EngineRowType ==
    ASSUME NEW ev \in Evaluation, NEW y \in Years,
           Resolvable(ev.result, ev.course.grade, y), NEW c \in Course \cup {Null}
    PROVE  EngineRow(ev, y, c) \in PromotionResult
<1>1. ev.result \in Outcome /\ ev.course.grade \in Grades \cup {Null}
  BY DEF Evaluation, Course
<1>2. EngineToGrade(ev.result, ev.course.grade) \in Grades \cup {Null}
  BY <1>1, EngineToGradeType
<1>3. ToYear(ev.result, y) \in Years \cup {Null}
  BY <1>1, ToYearType
<1> QED
  BY <1>1, <1>2, <1>3 DEF EngineRow, PromotionResult, Evaluation

-----------------------------------------------------------------------------
(* Type correctness.  One lemma per group of actions; each is the inductive  *)
(* step of TypeInv for that group.                                           *)

ExecutorTypeOK ==
    /\ pc \in [Executors -> Label]
    /\ year \in [Executors -> Years \cup {Null}]
    /\ staleYear \in [Executors -> Years \cup {Null}]
    /\ evaluations \in [Executors -> SUBSET Evaluation]
    /\ todo \in [Executors -> SUBSET Evaluation]
    /\ created \in [Executors -> SUBSET Evaluation]
    /\ destinations \in [Executors -> SUBSET Course]
    /\ current \in [Executors -> Target \cup Evaluation \cup {Null}]

\* A request that returns leaves its places in order.
LEMMA ReturnType ==
    ASSUME TypeInv, NEW e \in Executors, Return(e)
    PROVE  ExecutorTypeOK' /\ PlaceOK'
<1>1. ExecutorTypeOK'
  BY DEF TypeInv, TypeOK, Return, Goto, ExecutorTypeOK, Label
<1>2. PlaceOK'
  BY DEF TypeInv, TypeOK, PlaceOK, Return, Goto
<1> QED
  BY <1>1, <1>2

\* The steps of a run up to its lock, and those that only move it along.
LEMMA LockingType ==
    ASSUME TypeInv, NEW e \in Executors,
           \/ \E y \in Years : ExecuteBegin(e, y)
           \/ FindStale(e) \/ ResetStale(e) \/ Lock(e) \/ LockRefused(e) \/ AuditLock(e)
    PROVE  TypeInv'
<1> USE DEF TypeInv, vars, yearVars, tableVars, localVars, requestVars
<1>1. ASSUME NEW y \in Years, ExecuteBegin(e, y) PROVE TypeInv'
  <2>1. TypeOK'
    BY <1>1 DEF TypeOK, ExecuteBegin, Goto, Label
  <2>2. PlaceOK'
    BY <1>1 DEF TypeOK, PlaceOK, ExecuteBegin, Goto
  <2> QED
    BY <1>1, <2>1, <2>2 DEF OverrideOK, ExecuteBegin
<1>2. CASE FindStale(e)
  <2>1. TypeOK'
    BY <1>2, SMTT(30) DEF TypeOK, FindStale, StaleYears, Goto, Label
  <2>2. PlaceOK'
    BY <1>2 DEF TypeOK, PlaceOK, FindStale, Goto
  <2> QED
    BY <1>2, <2>1, <2>2 DEF OverrideOK, FindStale
<1>3. CASE ResetStale(e)
  <2>1. TypeOK'
    BY <1>3 DEF TypeOK, ResetStale, Goto, Label, Status
  <2>2. PlaceOK'
    BY <1>3 DEF TypeOK, PlaceOK, ResetStale, Goto
  <2> QED
    BY <1>3, <2>1, <2>2 DEF OverrideOK, ResetStale
<1>4. CASE Lock(e)
  <2>1. TypeOK'
    BY <1>4 DEF TypeOK, Lock, Goto, Label, Status
  <2>2. PlaceOK'
    BY <1>4 DEF TypeOK, PlaceOK, Lock, Goto
  <2> QED
    BY <1>4, <2>1, <2>2 DEF OverrideOK, Lock
<1>5. CASE LockRefused(e)
  <2>1. ExecutorTypeOK' /\ PlaceOK'
    BY <1>5, ReturnType DEF LockRefused
  <2> QED
    BY <1>5, <2>1 DEF TypeOK, ExecutorTypeOK, OverrideOK, LockRefused
<1>6. CASE AuditLock(e)
  <2>1. ExecutorTypeOK' /\ PlaceOK'
    <3>1. CASE Return(e)
      BY <3>1, ReturnType
    <3>2. CASE Goto(e, "evaluate") /\ UNCHANGED localVars
      BY <1>6, <3>2 DEF AuditLock, TypeOK, ExecutorTypeOK, PlaceOK, Goto, Label
    <3> QED
      BY <1>6, <3>1, <3>2 DEF AuditLock
  <2> QED
    BY <1>6, <2>1 DEF TypeOK, ExecutorTypeOK, OverrideOK, AuditLock
<1> QED
  BY <1>1, <1>2, <1>3, <1>4, <1>5, <1>6

\* Evaluation and destinations.
LEMMA DestinationsType ==
    ASSUME TypeInv, NEW e \in Executors,
           \/ Evaluate(e) \/ FindCourse(e) \/ MissCourse(e) \/ CreateCourse(e)
           \/ DestinationsReady(e)
    PROVE  TypeInv'
<1> USE DEF TypeInv, vars, yearVars, tableVars, localVars, requestVars
<1>1. CASE Evaluate(e)
  <2> PICK allPassed \in [Roster(year[e]) -> BOOLEAN] :
        LET evs == EvaluationsOf(year[e], allPassed) IN
        IF \A ev \in evs : Resolvable(ev.result, ev.course.grade, year[e])
        THEN /\ evaluations' = [evaluations EXCEPT ![e] = evs]
             /\ todo' = [todo EXCEPT ![e] = evs]
             /\ Goto(e, "destinations")
        ELSE /\ Goto(e, "catch")
             /\ UNCHANGED <<evaluations, todo>>
    BY <1>1 DEF Evaluate
  <2> DEFINE evs == EvaluationsOf(year[e], allPassed)
  <2>1. evs \subseteq Evaluation
    BY EvaluationsType DEF TypeOK
  <2> HIDE DEF evs
  <2>2. CASE \A ev \in evs : Resolvable(ev.result, ev.course.grade, year[e])
    <3>1. /\ evaluations' = [evaluations EXCEPT ![e] = evs]
          /\ todo' = [todo EXCEPT ![e] = evs]
          /\ Goto(e, "destinations")
      BY <2>2 DEF evs
    <3>2. TypeOK'
      BY <1>1, <2>1, <3>1 DEF TypeOK, Evaluate, Goto, Label
    <3>3. PlaceOK'
      BY <1>1, <2>1, <2>2, <3>1 DEF TypeOK, PlaceOK, Evaluate, Goto
    <3> QED
      BY <1>1, <3>2, <3>3 DEF OverrideOK, Evaluate
  <2>3. CASE ~ \A ev \in evs : Resolvable(ev.result, ev.course.grade, year[e])
    <3>1. Goto(e, "catch") /\ UNCHANGED <<evaluations, todo>>
      BY <2>3 DEF evs
    <3>2. TypeOK'
      BY <1>1, <3>1 DEF TypeOK, Evaluate, Goto, Label
    <3>3. PlaceOK'
      BY <1>1, <3>1 DEF TypeOK, PlaceOK, Evaluate, Goto
    <3> QED
      BY <1>1, <3>2, <3>3 DEF OverrideOK, Evaluate
  <2> QED
    BY <2>2, <2>3
<1>2. CASE FindCourse(e)
  <2>1. TypeOK'
    BY <1>2 DEF TypeOK, FindCourse, CoursesOf
  <2>2. PlaceOK'
    BY <1>2 DEF TypeOK, PlaceOK, FindCourse
  <2> QED
    BY <1>2, <2>1, <2>2 DEF OverrideOK, FindCourse
<1>3. CASE MissCourse(e)
  <2>1. PICK t \in Unresolved(e) : current' = [current EXCEPT ![e] = t]
    BY <1>3 DEF MissCourse
  <2>2. year[e] \in Years
    BY <1>3 DEF MissCourse, PlaceOK
  <2>3. t \in Target
    <3>1. PICK ev \in evaluations[e] : t \in TargetOf(ev, year[e])
      BY DEF Unresolved
    <3>2. ev \in Evaluation /\ Resolvable(ev.result, ev.course.grade, year[e])
      BY <3>1 DEF TypeOK, PlaceOK
    <3> QED
      BY <2>2, <3>1, <3>2, TargetType
  <2>4. TypeOK'
    BY <1>3, <2>1, <2>3 DEF TypeOK, MissCourse, Goto, Label
  <2>5. PlaceOK'
    BY <1>3, <2>1, <2>3 DEF TypeOK, PlaceOK, MissCourse, Goto
  <2> QED
    BY <1>3, <2>4, <2>5 DEF OverrideOK, MissCourse
<1>4. CASE CreateCourse(e)
  <2>1. current[e] \in Target
    BY <1>4 DEF CreateCourse, PlaceOK
  <2> DEFINE c == NewCourse(courses, current[e].year, current[e].grade)
  <2>2. c \in Course
    BY <1>4, <2>1, NewCourseType DEF CreateCourse, Target
  <2> HIDE DEF c
  <2>3. courses' = courses \cup {c} /\ destinations' = [destinations EXCEPT ![e] = @ \cup {c}]
    BY <1>4 DEF CreateCourse, c
  <2>4. TypeOK'
    BY <1>4, <2>2, <2>3 DEF TypeOK, CreateCourse, Goto, Label
  <2>5. PlaceOK'
    BY <1>4 DEF TypeOK, PlaceOK, CreateCourse, Goto
  <2> QED
    BY <1>4, <2>4, <2>5 DEF OverrideOK, CreateCourse
<1>5. CASE DestinationsReady(e)
  <2>1. TypeOK'
    BY <1>5 DEF TypeOK, DestinationsReady, Goto, Label
  <2>2. PlaceOK'
    BY <1>5 DEF TypeOK, PlaceOK, DestinationsReady, Goto
  <2> QED
    BY <1>5, <2>1, <2>2 DEF OverrideOK, DestinationsReady
<1> QED
  BY <1>1, <1>2, <1>3, <1>4, <1>5

\* The steps over the students.
LEMMA StudentsType ==
    ASSUME TypeInv, NEW e \in Executors,
           TxBegin(e) \/ TxCommit(e) \/ TxFail(e) \/ Heartbeat(e)
    PROVE  TypeInv'
<1> USE DEF TypeInv, vars, yearVars, tableVars, localVars, requestVars
<1>0. \A rest : AfterStudent(e, rest) \in {"heartbeat", "students"}
  BY DEF AfterStudent
<1>1. CASE TxBegin(e)
  <2>1. PICK ev \in todo[e] :
          /\ todo' = [todo EXCEPT ![e] = Rest(e, ev)]
          /\ IF HasResult(promotionResults, ev.student, year[e])
             THEN /\ Goto(e, AfterStudent(e, Rest(e, ev)))
                  /\ UNCHANGED current
             ELSE /\ Goto(e, "commit")
                  /\ current' = [current EXCEPT ![e] = ev]
    BY <1>1 DEF TxBegin
  <2>2. Rest(e, ev) \subseteq todo[e] /\ ev \in evaluations[e] /\ ev \in Evaluation
    BY DEF Rest, TypeOK, PlaceOK
  <2>3. \/ Goto(e, "heartbeat") /\ UNCHANGED current
        \/ Goto(e, "students") /\ UNCHANGED current
        \/ Goto(e, "commit") /\ current' = [current EXCEPT ![e] = ev]
    BY <1>0, <2>1
  <2> HIDE <1>0
  <2>4. TypeOK'
    <3>1. todo' \in [Executors -> SUBSET Evaluation]
      <4>1. Rest(e, ev) \in SUBSET Evaluation
        BY <2>2 DEF TypeOK
      <4> QED
        BY <2>1, <4>1 DEF TypeOK
    <3>2. current' \in [Executors -> Target \cup Evaluation \cup {Null}]
      BY <2>2, <2>3 DEF TypeOK
    <3>3. pc' \in [Executors -> Label]
      BY <2>3 DEF TypeOK, Goto, Label
    <3> QED
      BY <1>1, <3>1, <3>2, <3>3 DEF TypeOK, TxBegin
  <2>5. PlaceOK'
    BY <1>1, <2>1, <2>2, <2>3 DEF TypeOK, PlaceOK, TxBegin, Goto
  <2> QED
    BY <1>1, <2>4, <2>5 DEF OverrideOK, TxBegin
<1>2. CASE TxCommit(e)
  <2> DEFINE ev == current[e]
  <2>1. /\ ev \in evaluations[e] /\ ev \in Evaluation
        /\ year[e] \in Years
        /\ Resolvable(ev.result, ev.course.grade, year[e])
    BY <1>2 DEF TxCommit, TypeOK, PlaceOK
  <2>2. Goto(e, "heartbeat") \/ Goto(e, "students")
    BY <1>0, <1>2 DEF TxCommit
  <2> HIDE <1>0
  <2>3. PICK c \in Course \cup {Null} :
          /\ promotionResults' = Append(promotionResults, EngineRow(ev, year[e], c))
          /\ \/ UNCHANGED <<courseStudents, assignments>>
             \/ /\ c \in Course
                /\ courseStudents' = courseStudents \cup {[student |-> ev.student, course |-> c]}
                /\ assignments' = assignments \cup
                     CopiedAssignments(assignments, ev.student, year[e], c)
    <3>1. DestinationOf(e, ev) \subseteq Course
      BY DEF DestinationOf, CoursesOf, TypeOK
    <3> QED
      BY <1>2, <3>1 DEF TxCommit
  <2>4. promotionResults' \in Seq(PromotionResult)
    <3>1. EngineRow(ev, year[e], c) \in PromotionResult
      BY <2>1, EngineRowType
    <3> QED
      BY <2>3, <3>1 DEF TypeOK
  <2>5. courseStudents' \subseteq CourseStudent /\ assignments' \subseteq StudentCourseSubject
    <3>1. ev.student \in Students
      BY <2>1 DEF Evaluation
    <3>2. c \in Course => CopiedAssignments(assignments, ev.student, year[e], c)
                            \subseteq StudentCourseSubject
      BY <3>1, CopiedType DEF TypeOK
    <3> QED
      BY <2>3, <3>1, <3>2 DEF TypeOK, CourseStudent
  <2>6. TypeOK'
    BY <1>2, <2>1, <2>2, <2>4, <2>5 DEF TypeOK, TxCommit, Goto, Label
  <2>7. PlaceOK'
    BY <1>2, <2>1, <2>2 DEF TypeOK, PlaceOK, TxCommit, Goto
  <2> QED
    BY <1>2, <2>6, <2>7 DEF OverrideOK, TxCommit
<1>3. CASE TxFail(e)
  <2>2. Goto(e, "heartbeat") \/ Goto(e, "students")
    BY <1>0, <1>3 DEF TxFail
  <2> HIDE <1>0
  <2>3. TypeOK'
    BY <1>3, <2>2 DEF TypeOK, TxFail, Goto, Label
  <2>4. PlaceOK'
    BY <1>3, <2>2 DEF TypeOK, PlaceOK, TxFail, Goto
  <2> QED
    BY <1>3, <2>3, <2>4 DEF OverrideOK, TxFail
<1>4. CASE Heartbeat(e)
  <2>1. TypeOK'
    BY <1>4 DEF TypeOK, Heartbeat, Goto, Label
  <2>2. PlaceOK'
    BY <1>4 DEF TypeOK, PlaceOK, Heartbeat, Goto
  <2> QED
    BY <1>4, <2>1, <2>2 DEF OverrideOK, Heartbeat
<1> QED
  BY <1>1, <1>2, <1>3, <1>4

\* The end of a run.
LEMMA FinishType ==
    ASSUME TypeInv, NEW e \in Executors,
           Finalize(e) \/ AuditDone(e) \/ Catch(e) \/ DbError(e) \/ Crash(e)
    PROVE  TypeInv'
<1> USE DEF TypeInv, vars, yearVars, tableVars, localVars, requestVars
<1>1. CASE Finalize(e)
  <2>1. EvaluationSummary(created[e]) \in Summary
    BY SummaryType
  <2>2. TypeOK'
    BY <1>1, <2>1 DEF TypeOK, Finalize, Goto, Label, Status
  <2>3. PlaceOK'
    BY <1>1 DEF TypeOK, PlaceOK, Finalize, Goto
  <2> QED
    BY <1>1, <2>2, <2>3 DEF OverrideOK, Finalize
<1>2. CASE AuditDone(e)
  <2>1. ExecutorTypeOK' /\ PlaceOK'
    <3>1. CASE Return(e)
      BY <3>1, ReturnType
    <3>2. CASE Goto(e, "catch") /\ UNCHANGED localVars
      BY <1>2, <3>2 DEF AuditDone, TypeOK, ExecutorTypeOK, PlaceOK, Goto, Label
    <3> QED
      BY <1>2, <3>1, <3>2 DEF AuditDone
  <2> QED
    BY <1>2, <2>1 DEF TypeOK, ExecutorTypeOK, OverrideOK, AuditDone
<1>3. CASE Catch(e)
  <2>1. ExecutorTypeOK' /\ PlaceOK'
    BY <1>3, ReturnType DEF Catch
  <2>2. promotionStatus' \in [Years -> Status]
    BY <1>3 DEF Catch, TypeOK, Status
  <2> QED
    BY <1>3, <2>1, <2>2 DEF TypeOK, ExecutorTypeOK, OverrideOK, Catch
<1>4. CASE DbError(e)
  <2>1. TypeOK'
    BY <1>4 DEF TypeOK, DbError, Goto, Label
  <2>2. PlaceOK'
    BY <1>4 DEF TypeOK, PlaceOK, DbError, Goto
  <2> QED
    BY <1>4, <2>1, <2>2 DEF OverrideOK, DbError
<1>5. CASE Crash(e)
  <2>1. ExecutorTypeOK' /\ PlaceOK'
    BY <1>5, ReturnType DEF Crash
  <2> QED
    BY <1>5, <2>1 DEF TypeOK, ExecutorTypeOK, OverrideOK, Crash
<1> QED
  BY <1>1, <1>2, <1>3, <1>4, <1>5

\* Previews, statistics, the stale flag, enrolments and time.
LEMMA OthersType ==
    ASSUME TypeInv,
           \/ \E p \in Previewers :
                \/ \E y \in Years : PreviewRead(p, y)
                \/ PreviewWrite(p) \/ PreviewFails(p)
           \/ \E r \in Reporters :
                \/ \E y \in Years : RecalculateRead(r, y)
                \/ RecalculateWrite(r) \/ RecalculateFails(r)
           \/ \E y \in Years : MarkStaleIfCompleted(y) \/ HeartbeatExpires(y)
           \/ \E cs \in EnrollRequests : Enroll(cs)
           \/ \E c \in courses : RemoveCourse(c)
    PROVE  TypeInv'
<1> USE DEF TypeInv, vars, yearVars, tableVars, localVars, requestVars
<1>1. ASSUME NEW p \in Previewers, NEW y \in Years, PreviewRead(p, y)
      PROVE  TypeInv'
  <2>1. PICK summary \in Summary :
          preview' = [preview EXCEPT ![p] = [year |-> y, summary |-> summary]]
    BY <1>1, SummaryType DEF PreviewRead
  <2> QED
    BY <1>1, <2>1 DEF TypeOK, PlaceOK, OverrideOK, PreviewRead, SummaryRequest
<1>2. ASSUME NEW p \in Previewers, PreviewWrite(p) PROVE TypeInv'
  <2>1. preview[p] \in SummaryRequest
    BY <1>2 DEF PreviewWrite, TypeOK
  <2>2. TypeOK'
    BY <1>2, <2>1 DEF TypeOK, PreviewWrite, SummaryRequest, Status
  <2> QED
    BY <1>2, <2>2 DEF PlaceOK, OverrideOK, PreviewWrite
<1>3. ASSUME NEW p \in Previewers, PreviewFails(p) PROVE TypeInv'
  BY <1>3 DEF TypeOK, PlaceOK, OverrideOK, PreviewFails
<1>4. ASSUME NEW r \in Reporters, NEW y \in Years, RecalculateRead(r, y)
      PROVE  TypeInv'
  <2>1. EffectiveSummary(promotionResults, y) \in Summary
    BY SummaryType
  <2> QED
    BY <1>4, <2>1 DEF TypeOK, PlaceOK, OverrideOK, RecalculateRead, SummaryRequest
<1>5. ASSUME NEW r \in Reporters, RecalculateWrite(r) PROVE TypeInv'
  <2>1. recalculation[r] \in SummaryRequest
    BY <1>5 DEF RecalculateWrite, TypeOK
  <2>2. TypeOK'
    BY <1>5, <2>1 DEF TypeOK, RecalculateWrite, SummaryRequest
  <2> QED
    BY <1>5, <2>2 DEF PlaceOK, OverrideOK, RecalculateWrite
<1>6. ASSUME NEW r \in Reporters, RecalculateFails(r) PROVE TypeInv'
  BY <1>6 DEF TypeOK, PlaceOK, OverrideOK, RecalculateFails
<1>7. ASSUME NEW y \in Years, MarkStaleIfCompleted(y) \/ HeartbeatExpires(y)
      PROVE  TypeInv'
  BY <1>7 DEF TypeOK, PlaceOK, OverrideOK, MarkStaleIfCompleted, HeartbeatExpires
<1>8. ASSUME NEW cs \in EnrollRequests, Enroll(cs) PROVE TypeInv'
  BY <1>8, ConstantsAssumption DEF TypeOK, PlaceOK, OverrideOK, Enroll
<1>9. ASSUME NEW c \in courses, RemoveCourse(c) PROVE TypeInv'
  BY <1>9 DEF TypeOK, PlaceOK, OverrideOK, RemoveCourse
<1> QED
  BY <1>1, <1>2, <1>3, <1>4, <1>5, <1>6, <1>7, <1>8, <1>9

\* The grade an override starts from is a level grade or null.
LEMMA OverrideFromGradesType ==
    ASSUME TypeInv, NEW s, NEW y
    PROVE  OverrideFromGrades(s, y) \subseteq Grades \cup {Null}
<1>1. CASE EngineResultsOf(promotionResults, s, y) # {}
  <2> DEFINE m == CHOOSE i \in EngineResultsOf(promotionResults, s, y) :
                    \A j \in EngineResultsOf(promotionResults, s, y) : j <= i
  <2>1. \A i \in DOMAIN promotionResults :
          promotionResults[i] \in PromotionResult
    BY DEF TypeInv, TypeOK
  <2>2. \A i \in EngineResultsOf(promotionResults, s, y) :
          promotionResults[i].fromGrade \in Grades \cup {Null}
    BY <2>1 DEF EngineResultsOf, ResultsOf, PromotionResult
  <2>3. \E i \in EngineResultsOf(promotionResults, s, y) :
           \A j \in EngineResultsOf(promotionResults, s, y) : j <= i
    <3>1. PICK n \in Nat : DOMAIN promotionResults = 1..n
      BY DEF TypeInv, TypeOK
    <3>2. EngineResultsOf(promotionResults, s, y) \subseteq 1..n
      BY <3>1 DEF EngineResultsOf, ResultsOf
    <3> QED
      BY <1>1, <3>2, MaximumOfInterval
  <2> QED
    BY <1>1, <2>2, <2>3 DEF OverrideFromGrades, PriorResult
<1>2. CASE EngineResultsOf(promotionResults, s, y) = {}
  <2>1. \A cs \in courseStudents : cs.course.grade \in Grades \cup {Null}
    BY DEF TypeInv, TypeOK, CourseStudent, Course
  <2> QED
    BY <1>2, <2>1 DEF OverrideFromGrades, Roster
<1> QED
  BY <1>1, <1>2

\* The steps of an override.
LEMMA OverrideType ==
    ASSUME TypeInv, NEW o \in Overriders,
           \/ \E s \in Students, y \in Years, res \in Outcome, d \in DtoYears \cup {Null} :
                OverrideBegin(o, s, y, res, d)
           \/ OverrideStep(o) \/ OverrideFails(o)
    PROVE  TypeInv'
<1> USE DEF TypeInv, vars, yearVars, tableVars, localVars, requestVars
<1>0. override[o] # Null => override[o] \in OverrideRequest
  BY DEF TypeOK
<1>1. ASSUME NEW s \in Students, NEW y \in Years, NEW res \in Outcome,
             NEW d \in DtoYears \cup {Null}, OverrideBegin(o, s, y, res, d)
      PROVE  TypeInv'
  <2>1. [stage |-> "resolve", student |-> s, fromYear |-> y, result |-> res,
         toYear |-> d, fromGrade |-> Null, toGrade |-> Null, course |-> Null]
           \in OverrideRequest
    BY ConstantsAssumption DEF OverrideRequest
  <2>2. TypeOK'
    BY <1>1, <2>1 DEF TypeOK, OverrideBegin
  <2>3. PlaceOK'
    BY <1>1 DEF PlaceOK, OverrideBegin
  <2>4. OverrideOK'
    BY <1>1 DEF TypeOK, OverrideOK, OverrideBegin
  <2> QED
    BY <2>2, <2>3, <2>4
<1>2. CASE OverrideResolve(o)
  <2> DEFINE v == override[o]
  <2>1. v \in OverrideRequest /\ v.stage = "resolve" /\ v.course = Null
    BY <1>2, <1>0 DEF OverrideResolve, OverrideOK
  <2>2. PICK g \in OverrideFromGrades(v.student, v.fromYear) :
          /\ Resolvable(v.result, g, v.fromYear)
          /\ LET toGrade == EngineToGrade(v.result, g)
                 toYear  == IF v.toYear # Null THEN v.toYear ELSE ToYear(v.result, v.fromYear)
             IN  override' = [override EXCEPT ![o] =
                   [v EXCEPT !.fromGrade = g, !.toGrade = toGrade, !.toYear = toYear,
                             !.stage = IF v.result # "GRADUATED" /\ toGrade # Null
                                       THEN "course" ELSE "commit"]]
    BY <1>2 DEF OverrideResolve
  <2> DEFINE toGrade == EngineToGrade(v.result, g)
             toYear  == IF v.toYear # Null THEN v.toYear ELSE ToYear(v.result, v.fromYear)
             stage   == IF v.result # "GRADUATED" /\ toGrade # Null THEN "course" ELSE "commit"
             w == [v EXCEPT !.fromGrade = g, !.toGrade = toGrade, !.toYear = toYear,
                            !.stage = stage]
  <2>3. v.result \in Outcome /\ v.fromYear \in Years /\ v.toYear \in Years \cup {Null}
    BY <2>1 DEF OverrideRequest
  <2>4. g \in Grades \cup {Null} /\ toGrade \in Grades \cup {Null}
    BY <2>3, OverrideFromGradesType, EngineToGradeType
  <2>5. toYear \in Years \cup {Null} /\ (v.result # "GRADUATED" => toYear \in Years)
    BY <2>2, <2>3, <2>4, ToYearType
  <2>6. override' = [override EXCEPT ![o] = w]
    BY <2>2
  <2>61. stage \in {"course", "commit"} /\ (stage = "course" => v.result # "GRADUATED" /\ toGrade # Null)
    OBVIOUS
  <2> HIDE DEF toGrade, toYear, stage
  <2>7. w \in OverrideRequest
    BY <2>1, <2>4, <2>5, <2>61 DEF OverrideRequest
  <2>8. /\ w.stage = "course" => w.toYear \in Years /\ w.toGrade \in Grades
        /\ w.stage # "create"
        /\ w.course = Null
    BY <2>1, <2>4, <2>5, <2>61 DEF OverrideRequest
  <2> HIDE DEF w
  <2>9. TypeOK'
    BY <1>2, <2>6, <2>7 DEF TypeOK, OverrideResolve
  <2>10. OverrideOK'
    BY <2>6, <2>8 DEF TypeOK, OverrideOK
  <2> QED
    BY <1>2, <2>9, <2>10 DEF PlaceOK, OverrideResolve
<1>3. CASE OverrideReject(o) \/ OverrideFails(o)
  BY <1>3 DEF TypeOK, PlaceOK, OverrideOK, OverrideReject, OverrideFails
<1>4. CASE OverrideFindCourse(o)
  <2> DEFINE v == override[o]
  <2>1. v \in OverrideRequest /\ v.stage = "course" /\ v.course = Null
        /\ v.toYear \in Years /\ v.toGrade \in Grades
    BY <1>4, <1>0 DEF OverrideFindCourse, OverrideOK
  <2>2. CASE override' = [override EXCEPT ![o].stage = "create"]
    <3> DEFINE w == [v EXCEPT !.stage = "create"]
    <3>1. w \in OverrideRequest /\ w.stage = "create" /\ w.course = Null
          /\ w.toYear \in Years /\ w.toGrade \in Grades
      BY <2>1 DEF OverrideRequest
    <3>2. override' = [override EXCEPT ![o] = w]
      BY <2>2
    <3> HIDE DEF w
    <3> QED
      BY <1>4, <3>1, <3>2 DEF TypeOK, PlaceOK, OverrideOK, OverrideFindCourse
  <2>3. ASSUME NEW c \in CoursesOf(courses, v.toYear, v.toGrade),
               override' = [override EXCEPT ![o] = [v EXCEPT !.stage = "commit", !.course = c]]
        PROVE  TypeInv'
    <3> DEFINE w == [v EXCEPT !.stage = "commit", !.course = c]
    <3>1. c \in Course /\ c.year = v.toYear /\ c.grade = v.toGrade
      BY DEF CoursesOf, TypeOK
    <3>2. w \in OverrideRequest /\ w.stage = "commit"
          /\ w.course.year = w.toYear /\ w.course.grade = w.toGrade
      BY <2>1, <3>1 DEF OverrideRequest
    <3>3. override' = [override EXCEPT ![o] = w]
      BY <2>3
    <3> HIDE DEF w
    <3> QED
      BY <1>4, <3>2, <3>3 DEF TypeOK, PlaceOK, OverrideOK, OverrideFindCourse
  <2> QED
    BY <1>4, <2>2, <2>3 DEF OverrideFindCourse
<1>5. CASE OverrideCreateCourse(o)
  <2> DEFINE v == override[o]
             c == NewCourse(courses, v.toYear, v.toGrade)
             w == [v EXCEPT !.stage = "commit", !.course = c]
  <2>1. v \in OverrideRequest /\ v.toYear \in Years /\ v.toGrade \in Grades
    BY <1>5, <1>0 DEF OverrideCreateCourse, OverrideOK
  <2>2. c \in Course /\ c.year = v.toYear /\ c.grade = v.toGrade
    BY <1>5, <2>1, NewCourseType DEF OverrideCreateCourse
  <2>3. courses' = courses \cup {c} /\ override' = [override EXCEPT ![o] = w]
    BY <1>5 DEF OverrideCreateCourse
  <2> HIDE DEF c
  <2>4. w \in OverrideRequest /\ w.stage = "commit"
        /\ w.course.year = w.toYear /\ w.course.grade = w.toGrade
    BY <2>1, <2>2 DEF OverrideRequest
  <2> HIDE DEF w
  <2> QED
    <3>1. TypeOK'
      BY <1>5, <2>2, <2>3, <2>4 DEF TypeOK, OverrideCreateCourse
    <3>2. PlaceOK'
      BY <1>5 DEF PlaceOK, OverrideCreateCourse
    <3>3. OverrideOK'
      BY <2>3, <2>4 DEF TypeOK, OverrideOK
    <3> QED
      BY <3>1, <3>2, <3>3
<1>6. CASE OverrideCommit(o)
  <2> DEFINE v == override[o]
  <2>1. v \in OverrideRequest
    BY <1>6, <1>0 DEF OverrideCommit
  <2>2. OverrideRow(v) \in PromotionResult
    BY <2>1 DEF OverrideRequest, OverrideRow, PromotionResult
  <2>3. promotionResults' \in Seq(PromotionResult)
    BY <1>6, <2>2 DEF OverrideCommit, TypeOK
  <2>4. courseStudents' \subseteq CourseStudent
    BY <1>6, <2>1 DEF OverrideCommit, TypeOK, OverrideRequest, CourseStudent
  <2>5. promotionSummaryStale' \in [Years -> BOOLEAN]
    BY <1>6, <2>1 DEF OverrideCommit, TypeOK, OverrideRequest
  <2> QED
    BY <1>6, <2>3, <2>4, <2>5 DEF TypeOK, PlaceOK, OverrideOK, OverrideCommit
<1> QED
  BY <1>1, <1>2, <1>3, <1>4, <1>5, <1>6 DEF OverrideStep

LEMMA InitType == Init => TypeInv
<1> SUFFICES ASSUME Init PROVE TypeInv
  OBVIOUS
<1>1. TypeOK
  BY ConstantsAssumption DEF Init, TypeOK, Status, Label, CourseStudent, StudentCourseSubject
<1>2. PlaceOK /\ OverrideOK
  BY DEF Init, PlaceOK, OverrideOK
<1> QED
  BY <1>1, <1>2 DEF TypeInv

LEMMA NextType == TypeInv /\ [Next]_vars => TypeInv'
<1> SUFFICES ASSUME TypeInv, [Next]_vars PROVE TypeInv'
  OBVIOUS
<1>1. CASE UNCHANGED vars
  BY <1>1 DEF TypeInv, TypeOK, PlaceOK, OverrideOK, vars, yearVars, tableVars,
              localVars, requestVars
<1>2. CASE Next
  BY <1>2, LockingType, DestinationsType, StudentsType, FinishType, OthersType, OverrideType
  DEF Next, ExecuteStep
<1> QED
  BY <1>1, <1>2

\* Every reachable state has its tables and requests well formed.
LEMMA TypeInvariant == Spec => []TypeInv
BY InitType, NextType, PTL DEF Spec

\* Every table keeps its type and every request is at a legal place, whatever
\* fails and in whatever order the requests run.
THEOREM TypeCorrect == Spec => []TypeOK
<1>1. TypeInv => TypeOK
  BY DEF TypeInv
<1> QED
  BY <1>1, TypeInvariant, PTL

-----------------------------------------------------------------------------
(* What a step does to the tables *)

\* A transaction that decides the result r.
Decides(r) ==
    /\ promotionResults' = Append(promotionResults, r)
    /\ UNCHANGED courses
    /\ \/ r.toCourse = Null /\ UNCHANGED <<courseStudents, assignments>>
       \/ /\ r.toCourse \in courses
          /\ r.toCourse.year = r.toYear
          /\ r.toCourse.grade = r.toGrade
          /\ courseStudents' = courseStudents \cup
               {[student |-> r.student, course |-> r.toCourse]}
          /\ \/ r.isOverride /\ UNCHANGED assignments
             \/ /\ ~r.isOverride
                /\ [student |-> r.student, course |-> r.toCourse] \notin courseStudents
                /\ assignments' = assignments \cup
                     CopiedAssignments(assignments, r.student, r.fromYear, r.toCourse)

\* A step that decides nothing.
Enrols ==
    /\ UNCHANGED <<promotionResults, assignments>>
    /\ courseStudents \subseteq courseStudents'
    /\ courseStudents' \subseteq courseStudents \cup EnrollRequests
    /\ \A c \in courses \ courses' : \A cs \in courseStudents' : cs.course # c

TableStep == Enrols \/ \E r \in PromotionResult : Decides(r)

\* The destinations of evaluation ev name its year and grade.
LEMMA DestinationFits ==
    ASSUME TypeInv, NEW e \in Executors, NEW ev \in evaluations[e], NEW c \in DestinationOf(e, ev)
    PROVE  /\ c \in Course
           /\ c.year = ToYear(ev.result, year[e])
           /\ c.grade = EngineToGrade(ev.result, ev.course.grade)
<1>1. PICK t \in TargetOf(ev, year[e]) : c \in CoursesOf(destinations[e], t.year, t.grade)
  BY DEF DestinationOf
<1>2. destinations[e] \subseteq Course
  BY DEF TypeInv, TypeOK
<1>3. /\ t.year = ToYear(ev.result, year[e])
      /\ t.grade = EngineToGrade(ev.result, ev.course.grade)
  BY <1>1 DEF TargetOf
<1> QED
  BY <1>1, <1>2, <1>3 DEF CoursesOf

\* A committed transaction of a run decides the engine's row.
LEMMA TxCommitDecides ==
    ASSUME TypeInv, NEW e \in Executors, TxCommit(e)
    PROVE  \E c \in DestinationOf(e, current[e]) \cup {Null} :
             /\ Decides(EngineRow(current[e], year[e], c))
             /\ c = Null => DestinationOf(e, current[e]) = {}
             /\ EngineRow(current[e], year[e], c) \in PromotionResult
<1> DEFINE ev == current[e]
<1>1. /\ ev \in evaluations[e] /\ ev \in Evaluation /\ year[e] \in Years
      /\ Resolvable(ev.result, ev.course.grade, year[e])
  BY DEF TxCommit, TypeInv, TypeOK, PlaceOK
<1>2. \A c \in Course \cup {Null} : EngineRow(ev, year[e], c) \in PromotionResult
  BY <1>1, EngineRowType
<1>3. UNCHANGED courses
  BY DEF TxCommit
<1>4. CASE /\ DestinationOf(e, ev) = {}
           /\ promotionResults' = Append(promotionResults, EngineRow(ev, year[e], Null))
           /\ UNCHANGED <<courseStudents, assignments>>
  <2>1. Decides(EngineRow(ev, year[e], Null))
    BY <1>3, <1>4 DEF Decides, EngineRow
  <2> QED
    BY <1>2, <1>4, <2>1
<1>5. ASSUME NEW c \in DestinationOf(e, ev),
             CanEnroll(ev.student, c),
             courseStudents' = courseStudents \cup {[student |-> ev.student, course |-> c]},
             assignments' = assignments \cup
               CopiedAssignments(assignments, ev.student, year[e], c),
             promotionResults' = Append(promotionResults, EngineRow(ev, year[e], c))
      PROVE  /\ Decides(EngineRow(ev, year[e], c))
             /\ c # Null
             /\ EngineRow(ev, year[e], c) \in PromotionResult
  <2>1. /\ c \in Course
        /\ c.year = ToYear(ev.result, year[e])
        /\ c.grade = EngineToGrade(ev.result, ev.course.grade)
    BY <1>1, DestinationFits
  <2>2. Decides(EngineRow(ev, year[e], c))
    BY <1>3, <1>5, <2>1 DEF Decides, EngineRow, CanEnroll
  <2> QED
    BY <1>2, <2>1, <2>2, CourseAssumption
<1> QED
  BY <1>4, <1>5 DEF TxCommit

\* A committed override decides its row.
LEMMA OverrideCommitDecides ==
    ASSUME TypeInv, NEW o \in Overriders, OverrideCommit(o)
    PROVE  /\ Decides(OverrideRow(override[o]))
           /\ OverrideRow(override[o]) \in PromotionResult
<1> DEFINE v == override[o]
<1>1. v \in OverrideRequest /\ v # Null /\ v.stage = "commit"
  BY DEF OverrideCommit, TypeInv, TypeOK
<1>2. v.course # Null => v.course.year = v.toYear /\ v.course.grade = v.toGrade
  BY <1>1 DEF TypeInv, OverrideOK
<1>3. OverrideRow(v) \in PromotionResult
  BY <1>1 DEF OverrideRequest, OverrideRow, PromotionResult
<1>4. courses \subseteq Course /\ Null \notin courses
  BY CourseAssumption DEF TypeInv, TypeOK
<1>5. /\ promotionResults' = Append(promotionResults, OverrideRow(v))
      /\ UNCHANGED <<courses, assignments>>
      /\ \/ v.course = Null /\ UNCHANGED courseStudents
         \/ /\ v.course \in courses
            /\ courseStudents' = courseStudents \cup {[student |-> v.student, course |-> v.course]}
  BY DEF OverrideCommit
<1>6. Decides(OverrideRow(v))
  BY <1>2, <1>4, <1>5 DEF Decides, OverrideRow
<1> QED
  BY <1>3, <1>6

\* Every other step leaves the results alone.
LEMMA TableSteps ==
    ASSUME TypeInv, [Next]_vars
    PROVE  TableStep
<1> USE DEF yearVars, tableVars, localVars, requestVars
<1> SUFFICES ASSUME ~ \E r \in PromotionResult : Decides(r) PROVE Enrols
  BY DEF TableStep
<1>1. ASSUME UNCHANGED tableVars PROVE Enrols
  BY <1>1 DEF Enrols
<1>2. ASSUME NEW e \in Executors, ExecuteStep(e) PROVE Enrols
  <2>1. CASE TxCommit(e)
    BY <2>1, TxCommitDecides
  <2>2. CASE CreateCourse(e)
    BY <2>2 DEF CreateCourse, Enrols
  <2>3. CASE ~TxCommit(e) /\ ~CreateCourse(e)
    <3>1. UNCHANGED tableVars
      BY <1>2, <2>3 DEF ExecuteStep, FindStale, ResetStale, Lock, LockRefused, AuditLock,
        Evaluate, FindCourse, MissCourse, DestinationsReady, TxBegin, TxFail, Heartbeat,
        Finalize, AuditDone, Catch
    <3> QED
      BY <1>1, <3>1
  <2> QED
    BY <2>1, <2>2, <2>3
<1>3. ASSUME NEW o \in Overriders, OverrideStep(o) PROVE Enrols
  <2>1. CASE OverrideCommit(o)
    BY <2>1, OverrideCommitDecides
  <2>2. CASE OverrideCreateCourse(o)
    BY <2>2 DEF OverrideCreateCourse, Enrols
  <2>3. CASE ~OverrideCommit(o) /\ ~OverrideCreateCourse(o)
    <3>1. UNCHANGED tableVars
      BY <1>3, <2>3 DEF OverrideStep, OverrideResolve, OverrideReject, OverrideFindCourse
    <3> QED
      BY <1>1, <3>1
  <2> QED
    BY <2>1, <2>2, <2>3
<1>4. ASSUME NEW cs \in EnrollRequests, Enroll(cs) PROVE Enrols
  BY <1>4 DEF Enroll, Enrols
<1>5. ASSUME NEW c \in courses, RemoveCourse(c) PROVE Enrols
  BY <1>5 DEF RemoveCourse, Enrols
<1>6. ASSUME NEW e \in Executors,
             \/ \E y \in Years : ExecuteBegin(e, y)
             \/ DbError(e) \/ Crash(e)
      PROVE  Enrols
  BY <1>1, <1>6 DEF ExecuteBegin, DbError, Crash
<1>7. ASSUME NEW p \in Previewers,
             \/ \E y \in Years : PreviewRead(p, y)
             \/ PreviewWrite(p) \/ PreviewFails(p)
      PROVE  Enrols
  BY <1>1, <1>7 DEF PreviewRead, PreviewWrite, PreviewFails
<1>8. ASSUME NEW o \in Overriders,
             \/ \E s \in Students, y \in Years, res \in Outcome, d \in DtoYears \cup {Null} :
                  OverrideBegin(o, s, y, res, d)
             \/ OverrideFails(o)
      PROVE  Enrols
  BY <1>1, <1>8 DEF OverrideBegin, OverrideFails
<1>9. ASSUME NEW r \in Reporters,
             \/ \E y \in Years : RecalculateRead(r, y)
             \/ RecalculateWrite(r) \/ RecalculateFails(r)
      PROVE  Enrols
  BY <1>1, <1>9 DEF RecalculateRead, RecalculateWrite, RecalculateFails
<1>10. ASSUME NEW y \in Years, MarkStaleIfCompleted(y) \/ HeartbeatExpires(y) PROVE Enrols
  BY <1>1, <1>10 DEF MarkStaleIfCompleted, HeartbeatExpires
<1>11. CASE UNCHANGED vars
  BY <1>1, <1>11 DEF vars
<1> QED
  BY <1>2, <1>3, <1>4, <1>5, <1>6, <1>7, <1>8, <1>9, <1>10, <1>11 DEF Next

\* Deciding r leaves the earlier rows where they were.
LEMMA RowsAfter ==
    ASSUME TypeInv, NEW r \in PromotionResult, Decides(r)
    PROVE  \E n \in Nat :
             /\ Rows = 1..n
             /\ Rows' = 1..(n + 1)
             /\ \A i \in Rows : promotionResults'[i] = promotionResults[i]
             /\ promotionResults'[n + 1] = r
<1> promotionResults \in Seq(PromotionResult)
  BY DEF TypeInv, TypeOK
<1>1. promotionResults' = Append(promotionResults, r)
  BY DEF Decides
<1> DEFINE n == Len(promotionResults)
<1>2. n \in Nat /\ Rows = 1..n
  BY DEF Rows
<1>3. Rows' = 1..(n + 1)
  BY <1>1 DEF Rows
<1>4. promotionResults'[n + 1] = r /\ \A i \in 1..n : promotionResults'[i] = promotionResults[i]
  BY <1>1
<1> QED
  BY <1>2, <1>3, <1>4

-----------------------------------------------------------------------------
(* Enrolments and results stay together. *)

Traced(r, cs, enrolments) ==
    r.toCourse # Null =>
        /\ r.toCourse \in cs
        /\ [student |-> r.student, course |-> r.toCourse] \in enrolments
        /\ r.toCourse.year = r.toYear
        /\ r.toCourse.grade = r.toGrade

\* What is decided is traced, and stays so: courses with students are never
\* removed and enrolments never deleted.
LEMMA TracedKept ==
    ASSUME TypeInv, TableStep, ResultsTraced
    PROVE  ResultsTraced'
<1>1. ResultsTraced <=> \A i \in Rows : Traced(promotionResults[i], courses, courseStudents)
  BY DEF ResultsTraced, Traced
<1>2. ResultsTraced' <=>
        \A i \in Rows' : Traced(promotionResults'[i], courses', courseStudents')
  BY DEF ResultsTraced, Traced
<1>3. CASE Enrols
  <2>1. ASSUME NEW r, Traced(r, courses, courseStudents)
        PROVE  Traced(r, courses', courseStudents')
    BY <1>3, <2>1 DEF Traced, Enrols
  <2>2. Rows' = Rows /\ promotionResults' = promotionResults
    BY <1>3 DEF Enrols, Rows
  <2> QED
    BY <1>1, <1>2, <2>1, <2>2
<1>4. ASSUME NEW r \in PromotionResult, Decides(r) PROVE ResultsTraced'
  <2>1. PICK n \in Nat :
          /\ Rows = 1..n
          /\ Rows' = 1..(n + 1)
          /\ \A i \in Rows : promotionResults'[i] = promotionResults[i]
          /\ promotionResults'[n + 1] = r
    BY <1>4, RowsAfter
  <2>2. courses' = courses /\ courseStudents \subseteq courseStudents'
    BY <1>4 DEF Decides
  <2>3. ASSUME NEW i \in Rows
        PROVE  Traced(promotionResults'[i], courses', courseStudents')
    <3>1. Traced(promotionResults[i], courses, courseStudents)
      BY <1>1
    <3>2. promotionResults'[i] = promotionResults[i]
      BY <2>1
    <3> QED
      BY <2>2, <3>1, <3>2 DEF Traced
  <2>4. Traced(r, courses', courseStudents')
    BY <1>4 DEF Decides, Traced
  <2>5. \A i \in Rows' : i \in Rows \/ i = n + 1
    BY <2>1
  <2> QED
    BY <1>2, <2>1, <2>3, <2>4, <2>5
<1> QED
  BY <1>3, <1>4 DEF TableStep

\* I7: a result that names a course has its enrolment in it, in the year and
\* the grade it says, in every reachable state and under every fault.
THEOREM Traceability == Spec => []ResultsTraced
<1>1. Init => ResultsTraced
  BY DEF Init, ResultsTraced, Rows
<1>2. TypeInv /\ ResultsTraced /\ [Next]_vars => ResultsTraced'
  BY TableSteps, TracedKept
<1> QED
  BY <1>1, <1>2, TypeInvariant, PTL DEF Spec

-----------------------------------------------------------------------------
(* Nobody is enrolled without a reason. *)

LEMMA JustifiedKept ==
    ASSUME TypeInv, TableStep, EnrolmentsJustified
    PROVE  EnrolmentsJustified'
<1> SUFFICES ASSUME NEW cs \in courseStudents', cs \notin InitCourseStudents \cup EnrollRequests
             PROVE  \E i \in Rows' : /\ promotionResults'[i].student = cs.student
                                     /\ promotionResults'[i].toCourse = cs.course
  BY DEF EnrolmentsJustified
<1>1. CASE Enrols
  BY <1>1 DEF Enrols, EnrolmentsJustified, Rows
<1>2. ASSUME NEW r \in PromotionResult, Decides(r)
      PROVE  \E i \in Rows' : /\ promotionResults'[i].student = cs.student
                              /\ promotionResults'[i].toCourse = cs.course
  <2>1. PICK n \in Nat :
          /\ Rows = 1..n
          /\ Rows' = 1..(n + 1)
          /\ \A i \in Rows : promotionResults'[i] = promotionResults[i]
          /\ promotionResults'[n + 1] = r
    BY <1>2, RowsAfter
  <2>2. Rows \subseteq Rows' /\ n + 1 \in Rows'
    BY <2>1
  <2>3. CASE cs \in courseStudents
    BY <2>1, <2>2, <2>3 DEF EnrolmentsJustified
  <2>4. CASE cs \notin courseStudents
    <3>1. cs = [student |-> r.student, course |-> r.toCourse]
      BY <1>2, <2>4 DEF Decides
    <3> QED
      BY <2>1, <2>2, <3>1
  <2> QED
    BY <2>3, <2>4
<1> QED
  BY <1>1, <1>2 DEF TableStep

\* Whoever is in a course was there from the start, asked for it, or has a
\* result that sends him there, in every reachable state.
THEOREM Justification == Spec => []EnrolmentsJustified
<1>1. Init => EnrolmentsJustified
  BY DEF Init, EnrolmentsJustified
<1>2. TypeInv /\ EnrolmentsJustified /\ [Next]_vars => EnrolmentsJustified'
  BY TableSteps, JustifiedKept
<1> QED
  BY <1>1, <1>2, TypeInvariant, PTL DEF Spec

-----------------------------------------------------------------------------
(* The engine never enrols a student twice in a course. *)

LEMMA EnrolsOnceKept ==
    ASSUME TypeInv, TableStep, ResultsTraced, EngineEnrolsOnce
    PROVE  EngineEnrolsOnce'
<1>1. CASE Enrols
  BY <1>1 DEF Enrols, EngineEnrolsOnce, Rows
<1>2. ASSUME NEW r \in PromotionResult, Decides(r) PROVE EngineEnrolsOnce'
  <2>1. PICK n \in Nat :
          /\ Rows = 1..n
          /\ Rows' = 1..(n + 1)
          /\ \A i \in Rows : promotionResults'[i] = promotionResults[i]
          /\ promotionResults'[n + 1] = r
    BY <1>2, RowsAfter
  <2>2. ASSUME NEW i \in Rows, ~r.isOverride, r.toCourse # Null,
               promotionResults[i].student = r.student,
               promotionResults[i].toCourse = r.toCourse
        PROVE  FALSE
    <3>1. [student |-> r.student, course |-> r.toCourse] \in courseStudents
      BY <2>2 DEF ResultsTraced
    <3>2. [student |-> r.student, course |-> r.toCourse] \notin courseStudents
      BY <1>2, <2>2 DEF Decides
    <3> QED
      BY <3>1, <3>2
  <2>3. \A i \in Rows' : i \in Rows \/ i = n + 1
    BY <2>1
  <2> SUFFICES ASSUME NEW i \in Rows', NEW j \in Rows',
                      ~promotionResults'[i].isOverride, ~promotionResults'[j].isOverride,
                      promotionResults'[i].toCourse # Null,
                      promotionResults'[i].student = promotionResults'[j].student,
                      promotionResults'[i].toCourse = promotionResults'[j].toCourse
               PROVE  i = j
    BY DEF EngineEnrolsOnce
  <2>4. CASE i \in Rows /\ j \in Rows
    BY <2>1, <2>4 DEF EngineEnrolsOnce
  <2>5. CASE i \in Rows /\ j = n + 1
    BY <2>1, <2>2, <2>5
  <2>6. CASE i = n + 1 /\ j \in Rows
    BY <2>1, <2>2, <2>6
  <2> QED
    BY <2>3, <2>4, <2>5, <2>6
<1> QED
  BY <1>1, <1>2 DEF TableStep

\* Even runs that overlap, after a lock was taken over, never claim one
\* enrolment in two engine results.
THEOREM EnrolmentOnce == Spec => []EngineEnrolsOnce
<1>1. Init => EngineEnrolsOnce
  BY DEF Init, EngineEnrolsOnce, Rows
<1>2. TypeInv /\ ResultsTraced /\ EngineEnrolsOnce /\ [Next]_vars => EngineEnrolsOnce'
  BY TableSteps, EnrolsOnceKept
<1> QED
  BY <1>1, <1>2, TypeInvariant, Traceability, PTL DEF Spec

-----------------------------------------------------------------------------
(* Copied subjects. *)

\* What is copied for a student is in the course it is copied to and offered.
LEMMA CopiedOffered ==
    ASSUME NEW s, NEW y, NEW c, NEW a \in CopiedAssignments(assignments, s, y, c)
    PROVE  a.student = s /\ a.course = c /\ <<c, a.subject>> \in Offers
<1>1. PICK m : /\ a = [student |-> s, course |-> c, subject |-> m, type |-> "REGULAR"]
               /\ <<c, m>> \in Offers
  BY DEF CopiedAssignments
<1> QED
  BY <1>1

LEMMA AssignmentsKept ==
    ASSUME TableStep, AssignmentsFollowEnrolment
    PROVE  AssignmentsFollowEnrolment'
<1> SUFFICES ASSUME NEW a \in assignments' \ InitAssignments
             PROVE  /\ [student |-> a.student, course |-> a.course] \in courseStudents'
                    /\ <<a.course, a.subject>> \in Offers
  BY DEF AssignmentsFollowEnrolment
<1>1. courseStudents \subseteq courseStudents'
  BY DEF TableStep, Enrols, Decides
<1>2. CASE a \in assignments
  BY <1>1, <1>2 DEF AssignmentsFollowEnrolment
<1>3. CASE a \notin assignments
  <2>1. PICK r \in PromotionResult :
          /\ courseStudents' = courseStudents \cup
               {[student |-> r.student, course |-> r.toCourse]}
          /\ a \in CopiedAssignments(assignments, r.student, r.fromYear, r.toCourse)
    BY <1>3 DEF TableStep, Enrols, Decides
  <2>2. a.student = r.student /\ a.course = r.toCourse /\ <<r.toCourse, a.subject>> \in Offers
    BY <2>1, CopiedOffered
  <2> QED
    BY <2>1, <2>2
<1> QED
  BY <1>2, <1>3

\* A run copies a student's subjects only into a course that offers them and
\* that the student is in.
THEOREM AssignmentsSound == Spec => []AssignmentsFollowEnrolment
<1>1. Init => AssignmentsFollowEnrolment
  BY DEF Init, AssignmentsFollowEnrolment
<1>2. TypeInv /\ AssignmentsFollowEnrolment /\ [Next]_vars => AssignmentsFollowEnrolment'
  BY TableSteps, AssignmentsKept
<1> QED
  BY <1>1, <1>2, TypeInvariant, PTL DEF Spec

-----------------------------------------------------------------------------
(* Destinations.  A run reaches its students only when every evaluation that *)
(* has a grade to go to has a course, and an override commits only then.     *)

OverrideTarget(v) ==
    /\ v.toGrade = EngineToGrade(v.result, v.fromGrade)
    /\ v.result = "PROMOTED" => v.toGrade # Null
    /\ v.stage = "commit" /\ v.toGrade # Null => v.course # Null

DestInv ==
    /\ \A e \in Executors :
         pc[e] \in {"students", "commit", "heartbeat"} => Unresolved(e) = {}
    /\ \A o \in Overriders :
         override[o] # Null /\ override[o].stage # "resolve" => OverrideTarget(override[o])

RowAgrees(r) ==
    /\ r.result = "RETAINED" => r.toGrade = r.fromGrade
    /\ r.result = "PROMOTED" => r.toGrade \notin {Null, r.fromGrade}
    /\ r.result = "GRADUATED" => r.toGrade = Null
    /\ r.toGrade # Null => r.toCourse # Null

\* A promotion that resolves changes the grade (level_grades_no_self_ref).
LEMMA EngineToGradeFacts ==
    ASSUME NEW g \in Grades \cup {Null}
    PROVE  /\ EngineToGrade("RETAINED", g) = g
           /\ EngineToGrade("GRADUATED", g) = Null
           /\ EngineToGrade("PROMOTED", g) # Null => EngineToGrade("PROMOTED", g) # g
BY GradesAssumption, NullAssumption DEF EngineToGrade

\* A run commits rows that agree.
LEMMA EngineRowAgrees ==
    ASSUME TypeInv, DestInv, NEW e \in Executors, pc[e] = "commit",
           NEW c \in DestinationOf(e, current[e]) \cup {Null},
           c = Null => DestinationOf(e, current[e]) = {}
    PROVE  RowAgrees(EngineRow(current[e], year[e], c))
<1> DEFINE ev == current[e]
           g == ev.course.grade
           to == EngineToGrade(ev.result, g)
<1>1. /\ ev \in evaluations[e] /\ ev.result \in Outcome /\ g \in Grades \cup {Null}
      /\ Resolvable(ev.result, g, year[e])
  BY DEF TypeInv, TypeOK, PlaceOK, Evaluation, Course
<1>2. ev.result = "RETAINED" => to = g
  BY <1>1, EngineToGradeFacts
<1>3. ev.result = "PROMOTED" => to \notin {Null, g}
  BY <1>1, EngineToGradeFacts DEF Resolvable
<1>4. ev.result = "GRADUATED" => to = Null
  BY <1>1, EngineToGradeFacts
<1>5. to # Null => c # Null
  <2> SUFFICES ASSUME to # Null PROVE c # Null
    OBVIOUS
  <2>1. PICK t : t \in TargetOf(ev, year[e])
    BY <1>4 DEF TargetOf
  <2>2. CoursesOf(destinations[e], t.year, t.grade) # {}
    BY <1>1, <2>1 DEF DestInv, Unresolved
  <2>3. DestinationOf(e, ev) # {}
    BY <2>1, <2>2 DEF DestinationOf
  <2> QED
    BY <2>3
<1> HIDE DEF to
<1>6. EngineRow(ev, year[e], c) =
        [student |-> ev.student, fromYear |-> year[e], toYear |-> ToYear(ev.result, year[e]),
         fromGrade |-> g, toGrade |-> to, toCourse |-> c, result |-> ev.result,
         isOverride |-> FALSE]
  BY DEF EngineRow, to
<1> QED
  BY <1>2, <1>3, <1>4, <1>5, <1>6 DEF RowAgrees

\* So do overrides.
LEMMA OverrideRowAgrees ==
    ASSUME TypeInv, NEW v \in OverrideRequest, OverrideTarget(v), v.stage = "commit"
    PROVE  RowAgrees(OverrideRow(v))
<1>1. v.fromGrade \in Grades \cup {Null}
  BY DEF OverrideRequest
<1>2. /\ v.result = "RETAINED" => v.toGrade = v.fromGrade
      /\ v.result = "PROMOTED" => v.toGrade \notin {Null, v.fromGrade}
      /\ v.result = "GRADUATED" => v.toGrade = Null
  BY <1>1, EngineToGradeFacts DEF OverrideTarget
<1> QED
  BY <1>2 DEF OverrideTarget, OverrideRow, RowAgrees

\* Unresolved depends on three local variables only.
LEMMA UnresolvedKept ==
    ASSUME NEW e \in Executors, Unresolved(e) = {},
           evaluations'[e] = evaluations[e], destinations'[e] = destinations[e],
           year'[e] = year[e]
    PROVE  Unresolved(e)' = {}
BY DEF Unresolved

\* Steps of runs keep DestInv.
LEMMA ExecutorDestinations ==
    ASSUME TypeInv, DestInv, NEW e \in Executors,
           \/ \E y \in Years : ExecuteBegin(e, y)
           \/ ExecuteStep(e) \/ DbError(e) \/ Crash(e)
    PROVE  DestInv'
<1> USE DEF localVars, requestVars
<1>1. UNCHANGED override
  BY DEF ExecuteStep, ExecuteBegin, FindStale, ResetStale, Lock, LockRefused, AuditLock,
    Evaluate, FindCourse, MissCourse, CreateCourse, DestinationsReady, TxBegin, TxCommit,
    TxFail, Heartbeat, Finalize, AuditDone, Catch, DbError, Crash
<1>2. ASSUME NEW f \in Executors, f # e
      PROVE  /\ pc'[f] = pc[f] /\ evaluations'[f] = evaluations[f]
             /\ destinations'[f] = destinations[f] /\ year'[f] = year[f]
  BY <1>2 DEF TypeInv, TypeOK, Goto, Return, ExecuteStep, ExecuteBegin, FindStale, ResetStale,
    Lock, LockRefused, AuditLock, Evaluate, FindCourse, MissCourse, CreateCourse,
    DestinationsReady, TxBegin, TxCommit, TxFail, Heartbeat, Finalize, AuditDone, Catch,
    DbError, Crash
<1>3. pc'[e] \in {"students", "commit", "heartbeat"} => Unresolved(e)' = {}
  <2>1. CASE DestinationsReady(e)
    BY <2>1 DEF DestinationsReady, Unresolved
  <2>2. CASE TxBegin(e) \/ TxCommit(e) \/ TxFail(e) \/ Heartbeat(e)
    <3>1. Unresolved(e) = {}
      BY <2>2 DEF DestInv, TxBegin, TxCommit, TxFail, Heartbeat
    <3>2. UNCHANGED <<evaluations, destinations, year>>
      BY <2>2 DEF TxBegin, TxCommit, TxFail, Heartbeat
    <3> QED
      BY <3>1, <3>2, UnresolvedKept
  <2>3. CASE ~ (DestinationsReady(e) \/ TxBegin(e) \/ TxCommit(e) \/ TxFail(e) \/ Heartbeat(e))
    <3>1. pc'[e] \notin {"students", "commit", "heartbeat"}
      BY <2>3 DEF TypeInv, TypeOK, Goto, Return, ExecuteStep, ExecuteBegin, FindStale,
        ResetStale, Lock, LockRefused, AuditLock, Evaluate, FindCourse, MissCourse,
        CreateCourse, Finalize, AuditDone, Catch, DbError, Crash
    <3> QED
      BY <3>1
  <2> QED
    BY <2>1, <2>2, <2>3
<1>4. ASSUME NEW f \in Executors, pc'[f] \in {"students", "commit", "heartbeat"}
      PROVE  Unresolved(f)' = {}
  <2>1. CASE f = e
    BY <1>3, <1>4, <2>1
  <2>2. CASE f # e
    BY <1>2, <1>4, <2>2, UnresolvedKept DEF DestInv
  <2> QED
    BY <2>1, <2>2
<1> QED
  BY <1>1, <1>4 DEF DestInv

\* Steps of overrides keep DestInv.
LEMMA OverrideDestinations ==
    ASSUME TypeInv, DestInv, NEW o \in Overriders,
           \/ \E s \in Students, y \in Years, res \in Outcome, d \in DtoYears \cup {Null} :
                OverrideBegin(o, s, y, res, d)
           \/ OverrideStep(o) \/ OverrideFails(o)
    PROVE  DestInv'
<1> USE DEF localVars
<1> DEFINE v == override[o]
<1>1. UNCHANGED <<pc, evaluations, destinations, year>>
  BY DEF OverrideBegin, OverrideStep, OverrideResolve, OverrideReject, OverrideFindCourse,
    OverrideCreateCourse, OverrideCommit, OverrideFails
<1>2. \A e \in Executors : Unresolved(e)' = Unresolved(e)
  BY <1>1 DEF Unresolved
<1>3. \A p \in Overriders : p # o => override'[p] = override[p]
  BY DEF TypeInv, TypeOK, OverrideBegin, OverrideStep, OverrideResolve, OverrideReject,
    OverrideFindCourse, OverrideCreateCourse, OverrideCommit, OverrideFails
<1>4. override'[o] # Null /\ override'[o].stage # "resolve" => OverrideTarget(override'[o])
  <2>1. CASE OverrideResolve(o)
    <3>1. v \in OverrideRequest
      BY <2>1 DEF OverrideResolve, TypeInv, TypeOK
    <3> DEFINE To(g) == EngineToGrade(v.result, g)
               ToY == IF v.toYear # Null THEN v.toYear ELSE ToYear(v.result, v.fromYear)
               Stage(g) == IF v.result # "GRADUATED" /\ To(g) # Null THEN "course" ELSE "commit"
    <3>a. PICK g \in OverrideFromGrades(v.student, v.fromYear) :
            /\ Resolvable(v.result, g, v.fromYear)
            /\ override' = [override EXCEPT ![o] = [v EXCEPT !.fromGrade = g,
                 !.toGrade = To(g), !.toYear = ToY, !.stage = Stage(g)]]
      BY <2>1 DEF OverrideResolve
    <3>b. PICK stage, toYear : stage = Stage(g) /\ toYear = ToY
      OBVIOUS
    <3>2. /\ Resolvable(v.result, g, v.fromYear)
          /\ stage = "commit" =>
               v.result = "GRADUATED" \/ EngineToGrade(v.result, g) = Null
          /\ override'[o] = [v EXCEPT !.fromGrade = g,
               !.toGrade = EngineToGrade(v.result, g), !.toYear = toYear, !.stage = stage]
      BY <3>a, <3>b DEF TypeInv, TypeOK
    <3>3. g \in Grades \cup {Null}
      BY OverrideFromGradesType
    <3>4. /\ override'[o].fromGrade = g
          /\ override'[o].toGrade = EngineToGrade(v.result, g)
          /\ override'[o].result = v.result
          /\ override'[o].stage = stage
      BY <3>1, <3>2 DEF OverrideRequest
    <3>5. v.result = "PROMOTED" => EngineToGrade(v.result, g) # Null
      BY <3>2 DEF Resolvable
    <3>6. v.result = "GRADUATED" => EngineToGrade(v.result, g) = Null
      BY <3>3, EngineToGradeFacts
    <3> QED
      BY <3>2, <3>4, <3>5, <3>6 DEF OverrideTarget
  <2>2. CASE OverrideFindCourse(o) \/ OverrideCreateCourse(o)
    <3>1. v \in OverrideRequest /\ OverrideTarget(v)
      BY <2>2 DEF OverrideFindCourse, OverrideCreateCourse, TypeInv, TypeOK, DestInv
    <3>2. \/ override'[o] = [v EXCEPT !.stage = "create"]
          \/ \E c \in Course : override'[o] = [v EXCEPT !.stage = "commit", !.course = c]
      <4>1. CASE OverrideFindCourse(o)
        BY <4>1, ZenonT(30) DEF OverrideFindCourse, CoursesOf, TypeInv, TypeOK
      <4>2. CASE OverrideCreateCourse(o)
        <5>1. v.toYear \in Years /\ v.toGrade \in Grades
          BY <4>2 DEF OverrideCreateCourse, TypeInv, OverrideOK
        <5>2. NewCourse(courses, v.toYear, v.toGrade) \in Course
          BY <4>2, <5>1, NewCourseType DEF OverrideCreateCourse
        <5> QED
          BY <4>2, <5>2 DEF OverrideCreateCourse, TypeInv, TypeOK
      <4> QED
        BY <2>2, <4>1, <4>2
    <3> QED
      BY <3>1, <3>2, CourseAssumption DEF OverrideTarget, OverrideRequest
  <2>3. CASE ~ (OverrideResolve(o) \/ OverrideFindCourse(o) \/ OverrideCreateCourse(o))
    BY <2>3 DEF TypeInv, TypeOK, OverrideBegin, OverrideStep, OverrideReject, OverrideCommit,
      OverrideFails
  <2> QED
    BY <2>1, <2>2, <2>3
<1> QED
  BY <1>1, <1>2, <1>3, <1>4 DEF DestInv

LEMMA NextDestinations ==
    TypeInv /\ DestInv /\ [Next]_vars => DestInv'
<1> SUFFICES ASSUME TypeInv, DestInv, [Next]_vars PROVE DestInv'
  OBVIOUS
<1> USE DEF vars, localVars, requestVars
<1>1. ASSUME UNCHANGED <<pc, localVars, override>> PROVE DestInv'
  BY <1>1 DEF DestInv, Unresolved
<1>2. CASE UNCHANGED vars
  BY <1>1, <1>2
<1>3. ASSUME NEW p \in Previewers,
             \/ \E y \in Years : PreviewRead(p, y)
             \/ PreviewWrite(p) \/ PreviewFails(p)
      PROVE  DestInv'
  BY <1>1, <1>3 DEF PreviewRead, PreviewWrite, PreviewFails
<1>4. ASSUME NEW r \in Reporters,
             \/ \E y \in Years : RecalculateRead(r, y)
             \/ RecalculateWrite(r) \/ RecalculateFails(r)
      PROVE  DestInv'
  BY <1>1, <1>4 DEF RecalculateRead, RecalculateWrite, RecalculateFails
<1>5. ASSUME NEW y \in Years, MarkStaleIfCompleted(y) \/ HeartbeatExpires(y) PROVE DestInv'
  BY <1>1, <1>5 DEF MarkStaleIfCompleted, HeartbeatExpires
<1>6. ASSUME NEW cs \in EnrollRequests, Enroll(cs) PROVE DestInv'
  BY <1>1, <1>6 DEF Enroll
<1>7. ASSUME NEW c \in courses, RemoveCourse(c) PROVE DestInv'
  BY <1>1, <1>7 DEF RemoveCourse
<1> QED
  BY <1>2, <1>3, <1>4, <1>5, <1>6, <1>7, ExecutorDestinations, OverrideDestinations DEF Next

\* A step decides only rows that agree.
LEMMA DecidedAgrees ==
    ASSUME TypeInv, DestInv, DestinationsAgree, [Next]_vars
    PROVE  DestinationsAgree'
<1> USE DEF yearVars, tableVars, localVars, requestVars
<1>1. DestinationsAgree <=> \A i \in Rows : RowAgrees(promotionResults[i])
  BY DEF DestinationsAgree, RowAgrees
<1>2. DestinationsAgree' <=> \A i \in Rows' : RowAgrees(promotionResults'[i])
  BY DEF DestinationsAgree, RowAgrees
<1>3. ASSUME NEW r \in PromotionResult, Decides(r), RowAgrees(r) PROVE DestinationsAgree'
  <2>1. PICK n \in Nat :
          /\ Rows = 1..n
          /\ Rows' = 1..(n + 1)
          /\ \A i \in Rows : promotionResults'[i] = promotionResults[i]
          /\ promotionResults'[n + 1] = r
    BY <1>3, RowsAfter
  <2>2. \A i \in Rows' : i \in Rows \/ i = n + 1
    BY <2>1
  <2>3. \A i \in Rows' : RowAgrees(promotionResults'[i])
    BY <1>1, <1>3, <2>1, <2>2
  <2> QED
    BY <1>2, <2>3
<1>4. ASSUME UNCHANGED promotionResults PROVE DestinationsAgree'
  BY <1>4 DEF DestinationsAgree, Rows
<1>5. ASSUME NEW e \in Executors, TxCommit(e) PROVE DestinationsAgree'
  <2>1. PICK c \in DestinationOf(e, current[e]) \cup {Null} :
          /\ Decides(EngineRow(current[e], year[e], c))
          /\ c = Null => DestinationOf(e, current[e]) = {}
          /\ EngineRow(current[e], year[e], c) \in PromotionResult
    BY <1>5, TxCommitDecides
  <2>2. RowAgrees(EngineRow(current[e], year[e], c))
    BY <1>5, <2>1, EngineRowAgrees DEF TxCommit
  <2> QED
    BY <1>3, <2>1, <2>2
<1>6. ASSUME NEW o \in Overriders, OverrideCommit(o) PROVE DestinationsAgree'
  <2>1. /\ override[o] \in OverrideRequest
        /\ OverrideTarget(override[o])
        /\ override[o].stage = "commit"
    BY <1>6 DEF OverrideCommit, TypeInv, TypeOK, DestInv
  <2>2. RowAgrees(OverrideRow(override[o]))
    BY <2>1, OverrideRowAgrees
  <2> QED
    BY <1>3, <1>6, <2>2, OverrideCommitDecides
<1>7. \/ UNCHANGED promotionResults
      \/ \E e \in Executors : TxCommit(e)
      \/ \E o \in Overriders : OverrideCommit(o)
  <2>1. ASSUME NEW e \in Executors, ExecuteStep(e), ~TxCommit(e)
        PROVE  UNCHANGED promotionResults
    BY <2>1 DEF ExecuteStep, FindStale, ResetStale, Lock, LockRefused, AuditLock, Evaluate,
      FindCourse, MissCourse, CreateCourse, DestinationsReady, TxBegin, TxFail, Heartbeat,
      Finalize, AuditDone, Catch
  <2>2. ASSUME NEW o \in Overriders, OverrideStep(o), ~OverrideCommit(o)
        PROVE  UNCHANGED promotionResults
    BY <2>2 DEF OverrideStep, OverrideResolve, OverrideReject, OverrideFindCourse,
      OverrideCreateCourse
  <2>3. CASE UNCHANGED vars
    BY <2>3 DEF vars
  <2>4. ASSUME NEW e \in Executors,
               (\E y \in Years : ExecuteBegin(e, y)) \/ DbError(e) \/ Crash(e)
        PROVE  UNCHANGED promotionResults
    BY <2>4 DEF ExecuteBegin, DbError, Crash
  <2>5. ASSUME NEW p \in Previewers,
               (\E y \in Years : PreviewRead(p, y)) \/ PreviewWrite(p) \/ PreviewFails(p)
        PROVE  UNCHANGED promotionResults
    BY <2>5 DEF PreviewRead, PreviewWrite, PreviewFails
  <2>6. ASSUME NEW o \in Overriders,
               \/ \E s \in Students, y \in Years, res \in Outcome, d \in DtoYears \cup {Null} :
                    OverrideBegin(o, s, y, res, d)
               \/ OverrideFails(o)
        PROVE  UNCHANGED promotionResults
    BY <2>6 DEF OverrideBegin, OverrideFails
  <2>7. ASSUME NEW r \in Reporters,
               \/ \E y \in Years : RecalculateRead(r, y)
               \/ RecalculateWrite(r) \/ RecalculateFails(r)
        PROVE  UNCHANGED promotionResults
    BY <2>7 DEF RecalculateRead, RecalculateWrite, RecalculateFails
  <2>8. ASSUME \/ \E y \in Years : MarkStaleIfCompleted(y) \/ HeartbeatExpires(y)
               \/ \E cs \in EnrollRequests : Enroll(cs)
               \/ \E c \in courses : RemoveCourse(c)
        PROVE  UNCHANGED promotionResults
    BY <2>8 DEF MarkStaleIfCompleted, HeartbeatExpires, Enroll, RemoveCourse
  <2> QED
    BY <2>1, <2>2, <2>3, <2>4, <2>5, <2>6, <2>7, <2>8 DEF Next
<1> QED
  BY <1>4, <1>5, <1>6, <1>7

\* I8, I9: a promoted student changes grade, a retained one keeps his, a
\* graduate has none, and whoever has a grade to go to has a course, in every
\* reachable state and under every fault.
THEOREM DestinationSound == Spec => []DestinationsAgree
<1>1. Init => DestInv /\ DestinationsAgree
  BY DEF Init, DestInv, DestinationsAgree, Rows
<1>2. TypeInv /\ DestInv /\ DestinationsAgree /\ [Next]_vars => DestInv' /\ DestinationsAgree'
  BY NextDestinations, DecidedAgrees
<1> QED
  BY <1>1, <1>2, TypeInvariant, PTL DEF Spec

-----------------------------------------------------------------------------
(* The lock of a school year *)

LockAssumption ==
    /\ "orphan" \notin Faults /\ "stall" \notin Faults
    /\ \A p, q \in Previewers : p = q

\* The owner of a year is known by the year's status, and nobody can put the
\* year back to PREVIEWED behind its back.
LockInv ==
    /\ \A y \in Years : heartbeat[y] # "old"
    /\ \A e \in Executors : pc[e] # "resetStale"
    /\ \A e \in Executors : Holding(e) =>
         /\ pc[e] \notin {"auditDone", "catch"} => promotionStatus[year[e]] = "EXECUTING"
         /\ pc[e] = "auditDone" => promotionStatus[year[e]] = "COMPLETED"
         /\ pc[e] = "catch" => promotionStatus[year[e]] \in {"EXECUTING", "COMPLETED"}
    /\ \A p \in Previewers : preview[p] # Null => promotionStatus[preview[p].year] = Null
    /\ NoConcurrentExecution

Owned == {"EXECUTING", "COMPLETED"}

\* Steps that neither touch a status, a heartbeat or a preview nor make
\* anybody an owner.
LEMMA LockFrame ==
    ASSUME TypeInv, LockInv, NEW e \in Executors,
           UNCHANGED <<promotionStatus, preview>>,
           \A y \in Years : heartbeat'[y] # "old",
           \A f \in Executors : f # e => pc'[f] = pc[f] /\ year'[f] = year[f],
           \/ pc'[e] \in {"idle", "findStale", "lock"}
           \/ /\ Holding(e) /\ pc[e] \notin {"auditDone", "catch"} /\ year'[e] = year[e]
              /\ pc'[e] \in {"evaluate", "destinations", "createCourse", "students", "commit",
                             "heartbeat", "catch"}
           \/ pc[e] = "auditDone" /\ year'[e] = year[e] /\ pc'[e] = "catch"
    PROVE  LockInv'
<1>1. ASSUME NEW f \in Executors, Holding(f)' PROVE Holding(f) /\ year'[f] = year[f]
  <2>1. CASE f # e
    BY <1>1, <2>1 DEF Holding
  <2>2. CASE f = e
    BY <1>1, <2>2 DEF Holding
  <2> QED
    BY <2>1, <2>2
<1>2. NoConcurrentExecution'
  BY <1>1 DEF LockInv, NoConcurrentExecution
<1>3. \A f \in Executors : pc'[f] # "resetStale"
  BY DEF LockInv
<1>4. ASSUME NEW f \in Executors, Holding(f)'
      PROVE  /\ pc'[f] \notin {"auditDone", "catch"} => promotionStatus'[year'[f]] = "EXECUTING"
             /\ pc'[f] = "auditDone" => promotionStatus'[year'[f]] = "COMPLETED"
             /\ pc'[f] = "catch" => promotionStatus'[year'[f]] \in Owned
  <2>1. CASE f # e
    BY <1>1, <1>4, <2>1 DEF LockInv, Owned
  <2>2. CASE f = e
    BY <1>1, <1>4, <2>2 DEF LockInv, Owned, Holding
  <2> QED
    BY <2>1, <2>2
<1> QED
  BY <1>2, <1>3, <1>4 DEF LockInv, Owned

\* The steps of a run.
LEMMA ExecutorLock ==
    ASSUME LockAssumption, TypeInv, LockInv, NEW e \in Executors,
           \/ \E y \in Years : ExecuteBegin(e, y)
           \/ ExecuteStep(e) \/ DbError(e) \/ Crash(e)
    PROVE  LockInv'
<1> USE DEF yearVars, localVars, requestVars
<1>1. ASSUME NEW f \in Executors, f # e PROVE pc'[f] = pc[f] /\ year'[f] = year[f]
  BY <1>1 DEF TypeInv, TypeOK, Goto, Return, ExecuteStep, ExecuteBegin, FindStale, ResetStale,
    Lock, LockRefused, AuditLock, Evaluate, FindCourse, MissCourse, CreateCourse,
    DestinationsReady, TxBegin, TxCommit, TxFail, Heartbeat, Finalize, AuditDone, Catch,
    DbError, Crash
<1>2. pc[e] \in Label /\ pc[e] # "resetStale" /\ (pc[e] # "idle" => year[e] \in Years)
  BY DEF TypeInv, TypeOK, PlaceOK, LockInv
<1>3. UNCHANGED preview
  BY DEF ExecuteStep, ExecuteBegin, FindStale, ResetStale,
    Lock, LockRefused, AuditLock, Evaluate, FindCourse, MissCourse, CreateCourse,
    DestinationsReady, TxBegin, TxCommit, TxFail, Heartbeat, Finalize, AuditDone, Catch,
    DbError, Crash
<1>4. CASE Lock(e)
  <2>1. promotionStatus[year[e]] = "PREVIEWED"
    BY <1>4 DEF Lock, LockMatches
  <2>2. /\ promotionStatus' = [promotionStatus EXCEPT ![year[e]] = "EXECUTING"]
        /\ heartbeat' = [heartbeat EXCEPT ![year[e]] = "fresh"]
        /\ pc'[e] = "auditLock" /\ year' = year /\ year[e] \in Years
    BY <1>2, <1>4 DEF Lock, Goto, TypeInv, TypeOK
  <2>3. \A f \in Executors : Holding(f) => year[f] # year[e]
    BY <2>1 DEF LockInv, Holding
  <2>4. \A f \in Executors : f # e => (Holding(f)' <=> Holding(f))
    BY <1>1 DEF Holding
  <2>5. NoConcurrentExecution'
    BY <2>2, <2>3, <2>4 DEF LockInv, NoConcurrentExecution
  <2>6. \A f \in Executors : Holding(f) => year[f] \in Years
    BY DEF Holding, TypeInv, PlaceOK
  <2>7. \A f \in Executors : f # e /\ Holding(f) => promotionStatus'[year'[f]] = promotionStatus[year[f]]
    BY <2>2, <2>3, <2>6 DEF TypeInv, TypeOK
  <2>8. \A f \in Executors : Holding(f)' =>
         /\ pc'[f] \notin {"auditDone", "catch"} => promotionStatus'[year'[f]] = "EXECUTING"
         /\ pc'[f] = "auditDone" => promotionStatus'[year'[f]] = "COMPLETED"
         /\ pc'[f] = "catch" => promotionStatus'[year'[f]] \in {"EXECUTING", "COMPLETED"}
    BY <1>1, <2>2, <2>4, <2>7 DEF LockInv, TypeInv, TypeOK
  <2>9. \A p \in Previewers : preview'[p] # Null => promotionStatus'[preview'[p].year] = Null
    BY <1>3, <2>1, <2>2, ConstantsAssumption DEF LockInv, TypeInv, TypeOK, SummaryRequest
  <2>10. \A y \in Years : heartbeat'[y] # "old"
    BY <2>2 DEF LockInv, TypeInv, TypeOK
  <2>11. \A f \in Executors : pc'[f] # "resetStale"
    BY <1>1, <2>2 DEF LockInv
  <2> QED
    BY <2>5, <2>8, <2>9, <2>10, <2>11 DEF LockInv
<1>5. CASE Finalize(e)
  <2>1. /\ Holding(e) /\ promotionStatus[year[e]] = "EXECUTING"
        /\ promotionStatus' = [promotionStatus EXCEPT ![year[e]] = "COMPLETED"]
        /\ UNCHANGED heartbeat
        /\ pc'[e] = "auditDone" /\ year' = year /\ year[e] \in Years
    BY <1>2, <1>5 DEF Finalize, Goto, Holding, LockInv, TypeInv, TypeOK
  <2>2. \A f \in Executors : Holding(f)' => Holding(f)
    BY <1>1, <2>1 DEF Holding
  <2>3. NoConcurrentExecution'
    BY <2>1, <2>2 DEF LockInv, NoConcurrentExecution
  <2>4. \A f \in Executors : f # e /\ Holding(f) => year[f] # year[e] /\ year[f] \in Years
    BY <2>1 DEF LockInv, NoConcurrentExecution, Holding, TypeInv, PlaceOK
  <2>5. \A f \in Executors : Holding(f)' =>
         /\ pc'[f] \notin {"auditDone", "catch"} => promotionStatus'[year'[f]] = "EXECUTING"
         /\ pc'[f] = "auditDone" => promotionStatus'[year'[f]] = "COMPLETED"
         /\ pc'[f] = "catch" => promotionStatus'[year'[f]] \in {"EXECUTING", "COMPLETED"}
    BY <1>1, <2>1, <2>2, <2>4 DEF LockInv, TypeInv, TypeOK
  <2>6. \A p \in Previewers : preview'[p] # Null => promotionStatus'[preview'[p].year] = Null
    BY <1>3, <2>1, ConstantsAssumption DEF LockInv, TypeInv, TypeOK, SummaryRequest
  <2>7. \A f \in Executors : pc'[f] # "resetStale"
    BY <1>1, <2>1 DEF LockInv
  <2> QED
    BY <2>1, <2>3, <2>5, <2>6, <2>7 DEF LockInv
<1>6. CASE Catch(e)
  <2>1. /\ Holding(e) /\ promotionStatus[year[e]] \in {"EXECUTING", "COMPLETED"}
        /\ \/ UNCHANGED promotionStatus
           \/ promotionStatus' = [promotionStatus EXCEPT ![year[e]] = "PREVIEWED"]
        /\ UNCHANGED heartbeat
        /\ pc'[e] = "idle" /\ year[e] \in Years
    BY <1>2, <1>6 DEF Catch, Return, Goto, Holding, LockInv, TypeInv, TypeOK
  <2>2. \A f \in Executors : Holding(f)' => f # e /\ Holding(f)
    BY <1>1, <2>1 DEF Holding
  <2>3. NoConcurrentExecution'
    BY <1>1, <2>2 DEF LockInv, NoConcurrentExecution
  <2>4. \A f \in Executors : f # e /\ Holding(f) => year[f] # year[e] /\ year[f] \in Years
    BY <2>1 DEF LockInv, NoConcurrentExecution, Holding, TypeInv, PlaceOK
  <2>5. \A f \in Executors : Holding(f)' =>
         /\ pc'[f] \notin {"auditDone", "catch"} => promotionStatus'[year'[f]] = "EXECUTING"
         /\ pc'[f] = "auditDone" => promotionStatus'[year'[f]] = "COMPLETED"
         /\ pc'[f] = "catch" => promotionStatus'[year'[f]] \in {"EXECUTING", "COMPLETED"}
    BY <1>1, <2>1, <2>2, <2>4 DEF LockInv, TypeInv, TypeOK
  <2>6. \A p \in Previewers : preview'[p] # Null => promotionStatus'[preview'[p].year] = Null
    BY <1>3, <2>1, ConstantsAssumption DEF LockInv, TypeInv, TypeOK, SummaryRequest
  <2>7. \A f \in Executors : pc'[f] # "resetStale"
    BY <1>1, <2>1 DEF LockInv
  <2> QED
    BY <2>1, <2>3, <2>5, <2>6, <2>7 DEF LockInv
<1>7. CASE ~ (Lock(e) \/ Finalize(e) \/ Catch(e))
  <2>1. UNCHANGED promotionStatus
    BY <1>2, <1>7 DEF ExecuteStep, ExecuteBegin, FindStale, ResetStale, LockRefused, AuditLock,
      Evaluate, FindCourse, MissCourse, CreateCourse, DestinationsReady, TxBegin, TxCommit,
      TxFail, Heartbeat, AuditDone, DbError, Crash
  <2>2. \A y \in Years : heartbeat'[y] # "old"
    BY <1>2, <1>7 DEF LockInv, TypeInv, TypeOK, ExecuteStep, ExecuteBegin, FindStale,
      ResetStale, LockRefused, AuditLock, Evaluate, FindCourse, MissCourse, CreateCourse,
      DestinationsReady, TxBegin, TxCommit, TxFail, Heartbeat, AuditDone, DbError, Crash
  <2>3. \/ pc'[e] \in {"idle", "findStale", "lock"}
        \/ /\ Holding(e) /\ pc[e] \notin {"auditDone", "catch"} /\ year'[e] = year[e]
           /\ pc'[e] \in {"evaluate", "destinations", "createCourse", "students", "commit",
                          "heartbeat", "catch"}
        \/ pc[e] = "auditDone" /\ year'[e] = year[e] /\ pc'[e] = "catch"
    <3>1. CASE FindStale(e)
      <4>1. StaleYears = {}
        BY DEF StaleYears, LockInv
      <4> QED
        BY <3>1, <4>1 DEF FindStale, Goto, TypeInv, TypeOK
    <3>2. CASE ~FindStale(e)
      BY <1>2, <1>7, <3>2 DEF TypeInv, TypeOK, Goto, Return, Holding, AfterStudent, ExecuteStep,
        ExecuteBegin, ResetStale, LockRefused, AuditLock, Evaluate, MissCourse, FindCourse,
        CreateCourse, DestinationsReady, TxBegin, TxCommit, TxFail, Heartbeat, AuditDone,
        DbError, Crash
    <3> QED
      BY <3>1, <3>2
  <2> QED
    BY <1>1, <1>3, <2>1, <2>2, <2>3, LockFrame
<1> QED
  BY <1>4, <1>5, <1>6, <1>7

\* Everybody else's steps.
LEMMA OthersLock ==
    ASSUME LockAssumption, TypeInv, LockInv, [Next]_vars,
           ~ \E e \in Executors :
               (\E y \in Years : ExecuteBegin(e, y)) \/ ExecuteStep(e) \/ DbError(e) \/ Crash(e)
    PROVE  LockInv'
<1> USE DEF vars, yearVars, localVars, requestVars
<1>1. ASSUME UNCHANGED <<promotionStatus, pc, year>>,
             \A y \in Years : heartbeat'[y] # "old",
             \A p \in Previewers : preview'[p] # Null => promotionStatus[preview'[p].year] = Null
      PROVE  LockInv'
  BY <1>1 DEF LockInv, Holding, NoConcurrentExecution
<1>2. ASSUME NEW p \in Previewers, NEW y \in Years, PreviewRead(p, y) PROVE LockInv'
  <2>1. \A q \in Previewers : preview'[q] # Null => promotionStatus[preview'[q].year] = Null
    BY <1>2 DEF PreviewRead, LockInv, TypeInv, TypeOK
  <2> QED
    BY <1>1, <1>2, <2>1 DEF PreviewRead, LockInv
<1>3. ASSUME NEW p \in Previewers, PreviewWrite(p) PROVE LockInv'
  <2> DEFINE y == preview[p].year
  <2>1. /\ y \in Years /\ promotionStatus[y] = Null
        /\ promotionStatus' = [promotionStatus EXCEPT ![y] = "PREVIEWED"]
        /\ UNCHANGED <<heartbeat, pc, year>>
        /\ preview' = [preview EXCEPT ![p] = Null]
    BY <1>3 DEF PreviewWrite, LockInv, TypeInv, TypeOK, SummaryRequest
  <2>2. \A q \in Previewers : preview'[q] = Null
    BY <2>1 DEF LockAssumption, TypeInv, TypeOK
  <2>3. \A e \in Executors : Holding(e) => year[e] # y /\ year[e] \in Years
    BY <2>1, ConstantsAssumption DEF LockInv, Holding, TypeInv, PlaceOK
  <2>4. \A e \in Executors : Holding(e) => promotionStatus'[year[e]] = promotionStatus[year[e]]
    BY <2>1, <2>3 DEF TypeInv, TypeOK
  <2> QED
    BY <2>1, <2>2, <2>4 DEF LockInv, Holding, NoConcurrentExecution
<1>4. ASSUME NEW p \in Previewers, PreviewFails(p) PROVE LockInv'
  <2>1. \A q \in Previewers : preview'[q] # Null => preview'[q] = preview[q]
    BY <1>4 DEF PreviewFails, TypeInv, TypeOK
  <2> QED
    BY <1>1, <1>4, <2>1 DEF PreviewFails, LockInv
<1>5. ASSUME NEW o \in Overriders,
             \/ \E s \in Students, y \in Years, res \in Outcome, d \in DtoYears \cup {Null} :
                  OverrideBegin(o, s, y, res, d)
             \/ OverrideStep(o) \/ OverrideFails(o)
      PROVE  LockInv'
  <2>1. UNCHANGED <<promotionStatus, heartbeat, pc, year, preview>>
    BY <1>5 DEF OverrideBegin, OverrideStep, OverrideFails, OverrideResolve, OverrideReject,
      OverrideFindCourse, OverrideCreateCourse, OverrideCommit
  <2> QED
    BY <1>1, <2>1 DEF LockInv
<1>6. ASSUME NEW r \in Reporters,
             \/ \E y \in Years : RecalculateRead(r, y)
             \/ RecalculateWrite(r) \/ RecalculateFails(r)
      PROVE  LockInv'
  BY <1>1, <1>6 DEF RecalculateRead, RecalculateWrite, RecalculateFails, LockInv
<1>7. ASSUME NEW y \in Years, MarkStaleIfCompleted(y) \/ HeartbeatExpires(y) PROVE LockInv'
  BY <1>1, <1>7 DEF MarkStaleIfCompleted, HeartbeatExpires, LockAssumption, LockInv
<1>8. ASSUME \/ \E cs \in EnrollRequests : Enroll(cs)
             \/ \E c \in courses : RemoveCourse(c)
             \/ UNCHANGED vars
      PROVE  LockInv'
  BY <1>1, <1>8 DEF Enroll, RemoveCourse, LockInv
<1> QED
  BY <1>2, <1>3, <1>4, <1>5, <1>6, <1>7, <1>8 DEF Next

LEMMA NextLock ==
    ASSUME LockAssumption
    PROVE  TypeInv /\ LockInv /\ [Next]_vars => LockInv'
BY ExecutorLock, OthersLock

LEMMA LockInvariant ==
    ASSUME LockAssumption
    PROVE  Spec => []LockInv
<1>1. Init => LockInv
  BY ConstantsAssumption DEF Init, LockInv, Holding, NoConcurrentExecution
<1> QED
  BY <1>1, NextLock, TypeInvariant, PTL DEF Spec

\* I13: two runs never act as owners of one school year, while no live
\* execution is taken for dead and previews do not overlap.
THEOREM MutualExclusion ==
    ASSUME LockAssumption
    PROVE  Spec => []NoConcurrentExecution
<1>1. LockInv => NoConcurrentExecution
  BY DEF LockInv
<1> QED
  BY <1>1, LockInvariant, PTL

-----------------------------------------------------------------------------
(* Under the lock the check for an existing result is as good as a unique    *)
(* constraint: nobody else decides in between.                               *)

EngineDecided(rows, s, y) == EngineResultsOf(rows, s, y) # {}

ClaimInv ==
    \A e \in Executors :
        pc[e] = "commit" => ~EngineDecided(promotionResults, current[e].student, year[e])

\* One more row decides one more student, if the engine wrote it.
LEMMA DecidedAppend ==
    ASSUME TypeInv, NEW r \in PromotionResult, Decides(r), NEW s, NEW y
    PROVE  EngineDecided(promotionResults', s, y) <=>
             \/ EngineDecided(promotionResults, s, y)
             \/ ~r.isOverride /\ r.student = s /\ r.fromYear = y
<1>1. PICK n \in Nat :
        /\ Rows = 1..n
        /\ Rows' = 1..(n + 1)
        /\ \A i \in Rows : promotionResults'[i] = promotionResults[i]
        /\ promotionResults'[n + 1] = r
  BY RowsAfter
<1>2. EngineDecided(promotionResults, s, y) <=>
        \E i \in Rows : /\ promotionResults[i].student = s
                        /\ promotionResults[i].fromYear = y
                        /\ ~promotionResults[i].isOverride
  BY DEF EngineDecided, EngineResultsOf, ResultsOf, Rows
<1>3. EngineDecided(promotionResults', s, y) <=>
        \E i \in Rows' : /\ promotionResults'[i].student = s
                         /\ promotionResults'[i].fromYear = y
                         /\ ~promotionResults'[i].isOverride
  BY DEF EngineDecided, EngineResultsOf, ResultsOf, Rows
<1>4. \A i : i \in Rows' <=> i \in Rows \/ i = n + 1
  BY <1>1
<1> QED
  BY <1>1, <1>2, <1>3, <1>4

LEMMA DecidingChanges ==
    ASSUME TypeInv, NEW r \in PromotionResult, Decides(r)
    PROVE  promotionResults' # promotionResults
<1>1. PICK n \in Nat : Rows = 1..n /\ Rows' = 1..(n + 1)
  BY RowsAfter
<1>2. Rows' # Rows
  BY <1>1
<1> QED
  BY <1>2 DEF Rows

\* A commit of a run decides its student; a commit of an override, nobody.
LEMMA CommitDecides ==
    ASSUME TypeInv, NEW e \in Executors, TxCommit(e)
    PROVE  \E r \in PromotionResult :
             /\ Decides(r) /\ ~r.isOverride
             /\ r.student = current[e].student /\ r.fromYear = year[e]
<1>1. PICK c \in DestinationOf(e, current[e]) \cup {Null} :
        /\ Decides(EngineRow(current[e], year[e], c))
        /\ EngineRow(current[e], year[e], c) \in PromotionResult
  BY TxCommitDecides
<1> QED
  BY <1>1 DEF EngineRow

LEMMA OverrideDecidesNobody ==
    ASSUME TypeInv, NEW o \in Overriders, OverrideCommit(o)
    PROVE  \E r \in PromotionResult : Decides(r) /\ r.isOverride
BY OverrideCommitDecides DEF OverrideRow

\* Which steps change the results.
LEMMA ResultSteps ==
    ASSUME [Next]_vars
    PROVE  \/ UNCHANGED promotionResults
           \/ \E e \in Executors : TxCommit(e)
           \/ \E o \in Overriders : OverrideCommit(o)
BY ZenonT(30) DEF Next, vars, tableVars, ExecuteStep, FindStale, ResetStale, Lock, LockRefused, AuditLock,
  Evaluate, FindCourse, MissCourse, CreateCourse, DestinationsReady, TxBegin, TxFail,
  Heartbeat, Finalize, AuditDone, Catch, OverrideStep, OverrideResolve, OverrideReject,
  OverrideFindCourse, OverrideCreateCourse, ExecuteBegin, DbError, Crash, PreviewRead,
  PreviewWrite, PreviewFails, OverrideBegin, OverrideFails, RecalculateRead,
  RecalculateWrite, RecalculateFails, MarkStaleIfCompleted, HeartbeatExpires, Enroll,
  RemoveCourse

\* Which steps bring a run to its commit.
LEMMA CommitReached ==
    ASSUME TypeInv, [Next]_vars, NEW e \in Executors, pc'[e] = "commit"
    PROVE  /\ year'[e] = year[e]
           /\ \/ pc[e] = "commit" /\ current'[e] = current[e]
              \/ /\ ~HasResult(promotionResults, current'[e].student, year[e])
                 /\ UNCHANGED promotionResults
<1> USE DEF vars, localVars, tableVars, TypeInv, TypeOK, Goto, Return
<1>1. CASE UNCHANGED <<pc, localVars>>
  BY <1>1
<1>2. ASSUME NEW f \in Executors, TxBegin(f)
      PROVE  /\ year'[e] = year[e]
             /\ \/ pc[e] = "commit" /\ current'[e] = current[e]
                \/ /\ ~HasResult(promotionResults, current'[e].student, year[e])
                   /\ UNCHANGED promotionResults
  BY <1>2 DEF TxBegin, AfterStudent
<1>3. ASSUME NEW f \in Executors,
             \/ \E y \in Years : ExecuteBegin(f, y)
             \/ ExecuteStep(f) /\ ~TxBegin(f)
             \/ DbError(f) \/ Crash(f)
      PROVE  year'[e] = year[e] /\ pc[e] = "commit" /\ current'[e] = current[e]
  BY <1>3 DEF AfterStudent, ExecuteStep, ExecuteBegin, FindStale, ResetStale, Lock,
    LockRefused, AuditLock, Evaluate, FindCourse, MissCourse, CreateCourse,
    DestinationsReady, TxCommit, TxFail, Heartbeat, Finalize, AuditDone, Catch, DbError, Crash
<1>4. ASSUME ~ \E f \in Executors :
                 (\E y \in Years : ExecuteBegin(f, y)) \/ ExecuteStep(f) \/ DbError(f) \/ Crash(f)
      PROVE  UNCHANGED <<pc, localVars>>
  BY <1>4 DEF Next, OverrideStep, OverrideResolve, OverrideReject, OverrideFindCourse,
    OverrideCreateCourse, OverrideCommit, OverrideBegin, OverrideFails, PreviewRead,
    PreviewWrite, PreviewFails, RecalculateRead, RecalculateWrite, RecalculateFails,
    MarkStaleIfCompleted, HeartbeatExpires, Enroll, RemoveCourse
<1> QED
  BY <1>1, <1>2, <1>3, <1>4

LEMMA NextClaim ==
    ASSUME TypeInv, LockInv, ClaimInv, [Next]_vars
    PROVE  ClaimInv'
<1> SUFFICES ASSUME NEW e \in Executors, pc'[e] = "commit"
             PROVE  ~EngineDecided(promotionResults', current'[e].student, year'[e])
  BY DEF ClaimInv
<1>1. CASE UNCHANGED promotionResults
  BY <1>1, CommitReached DEF ClaimInv, EngineDecided, HasResult, EngineResultsOf
<1>2. ASSUME NEW f \in Executors, TxCommit(f)
      PROVE  ~EngineDecided(promotionResults', current'[e].student, year'[e])
  <2>1. PICK r \in PromotionResult :
          /\ Decides(r) /\ ~r.isOverride
          /\ r.student = current[f].student /\ r.fromYear = year[f]
    BY <1>2, CommitDecides
  <2>2. ~UNCHANGED promotionResults
    BY <2>1, DecidingChanges
  <2>3. pc[e] = "commit" /\ current'[e] = current[e] /\ year'[e] = year[e]
    BY <2>2, CommitReached
  <2>4. e # f
    BY <1>2 DEF TxCommit, Goto, AfterStudent, TypeInv, TypeOK
  <2>5. year[e] # year[f]
    BY <1>2, <2>3, <2>4 DEF TxCommit, LockInv, NoConcurrentExecution, Holding
  <2> QED
    BY <2>1, <2>3, <2>5, DecidedAppend DEF ClaimInv
<1>3. ASSUME NEW o \in Overriders, OverrideCommit(o)
      PROVE  ~EngineDecided(promotionResults', current'[e].student, year'[e])
  <2>1. PICK r \in PromotionResult : Decides(r) /\ r.isOverride
    BY <1>3, OverrideDecidesNobody
  <2>2. ~UNCHANGED promotionResults
    BY <2>1, DecidingChanges
  <2>3. pc[e] = "commit" /\ current'[e] = current[e] /\ year'[e] = year[e]
    BY <2>2, CommitReached
  <2> QED
    BY <2>1, <2>3, DecidedAppend DEF ClaimInv
<1> QED
  BY <1>1, <1>2, <1>3, ResultSteps

LEMMA NextOneResult ==
    ASSUME TypeInv, ClaimInv, OneEngineResult, [Next]_vars
    PROVE  OneEngineResult'
<1>1. CASE UNCHANGED promotionResults
  BY <1>1 DEF OneEngineResult, Rows
<1>2. ASSUME NEW r \in PromotionResult, Decides(r),
             r.isOverride \/ ~EngineDecided(promotionResults, r.student, r.fromYear)
      PROVE  OneEngineResult'
  <2>1. PICK n \in Nat :
          /\ Rows = 1..n
          /\ Rows' = 1..(n + 1)
          /\ \A i \in Rows : promotionResults'[i] = promotionResults[i]
          /\ promotionResults'[n + 1] = r
    BY <1>2, RowsAfter
  <2>2. ASSUME NEW i \in Rows, ~r.isOverride, ~promotionResults[i].isOverride,
               promotionResults[i].student = r.student,
               promotionResults[i].fromYear = r.fromYear
        PROVE  FALSE
    BY <1>2, <2>2 DEF EngineDecided, EngineResultsOf, ResultsOf, Rows
  <2>3. \A i \in Rows' : i \in Rows \/ i = n + 1
    BY <2>1
  <2> SUFFICES ASSUME NEW i \in Rows', NEW j \in Rows',
                      ~promotionResults'[i].isOverride, ~promotionResults'[j].isOverride,
                      promotionResults'[i].student = promotionResults'[j].student,
                      promotionResults'[i].fromYear = promotionResults'[j].fromYear
               PROVE  i = j
    BY DEF OneEngineResult
  <2>4. CASE i \in Rows /\ j \in Rows
    BY <2>1, <2>4 DEF OneEngineResult
  <2>5. CASE i \in Rows /\ j = n + 1
    BY <2>1, <2>2, <2>5
  <2>6. CASE i = n + 1 /\ j \in Rows
    BY <2>1, <2>2, <2>6
  <2> QED
    BY <2>3, <2>4, <2>5, <2>6
<1>3. ASSUME NEW e \in Executors, TxCommit(e) PROVE OneEngineResult'
  <2>1. pc[e] = "commit"
    BY <1>3 DEF TxCommit
  <2> QED
    BY <1>2, <1>3, <2>1, CommitDecides DEF ClaimInv
<1>4. ASSUME NEW o \in Overriders, OverrideCommit(o) PROVE OneEngineResult'
  BY <1>2, <1>4, OverrideDecidesNobody
<1> QED
  BY <1>1, <1>3, <1>4, ResultSteps

\* Idempotency of execute(): under the lock, and whatever crashes, fails or is
\* repeated, the engine decides a student of a school year at most once.
THEOREM Idempotency ==
    ASSUME LockAssumption
    PROVE  Spec => []OneEngineResult
<1>1. Init => ClaimInv /\ OneEngineResult
  BY DEF Init, ClaimInv, OneEngineResult, Rows
<1>2. TypeInv /\ LockInv /\ ClaimInv /\ OneEngineResult /\ [Next]_vars
        => ClaimInv' /\ OneEngineResult'
  BY NextClaim, NextOneResult
<1> QED
  BY <1>1, <1>2, TypeInvariant, LockInvariant, PTL DEF Spec

-----------------------------------------------------------------------------
(* The lifecycle of a school year.  Under the lock, and while the queue      *)
(* accepts the audit job of a completed run, every step of the promotion is  *)
(* a step of PromotionLifecycle or changes nothing it can see.               *)

LifecycleAssumption == LockAssumption /\ "queue" \notin Faults

\* The audit job of a completion is accepted: a completed run never fails.
CatchInv ==
    \A e \in Executors : pc[e] = "catch" => promotionStatus[year[e]] = "EXECUTING"

\* Which steps change the status of a year, while nobody is taken for dead.
LEMMA StatusSteps ==
    ASSUME LockInv, [Next]_vars
    PROVE  \/ UNCHANGED promotionStatus
           \/ \E e \in Executors : Lock(e) \/ Finalize(e) \/ Catch(e)
           \/ \E p \in Previewers : PreviewWrite(p)
BY ZenonT(30) DEF LockInv, ResetStale, Next, vars, yearVars, ExecuteStep, FindStale, LockRefused,
  AuditLock, Evaluate, FindCourse, MissCourse, CreateCourse, DestinationsReady, TxBegin,
  TxCommit, TxFail, Heartbeat, AuditDone, OverrideStep, OverrideResolve, OverrideReject,
  OverrideFindCourse, OverrideCreateCourse, OverrideCommit, ExecuteBegin, DbError, Crash,
  PreviewRead, PreviewFails, OverrideBegin, OverrideFails, RecalculateRead,
  RecalculateWrite, RecalculateFails, MarkStaleIfCompleted, HeartbeatExpires, Enroll,
  RemoveCourse

LEMMA NextCatch ==
    ASSUME LifecycleAssumption, TypeInv, LockInv, CatchInv, [Next]_vars, LockInv'
    PROVE  CatchInv'
<1> USE DEF vars, yearVars, localVars, tableVars, requestVars
<1> SUFFICES ASSUME NEW e \in Executors, pc'[e] = "catch"
             PROVE  promotionStatus'[year'[e]] = "EXECUTING"
  BY DEF CatchInv
<1>1. Holding(e)'
  BY DEF Holding
<1>2. promotionStatus'[year'[e]] \in Owned
  BY <1>1 DEF LockInv, Owned
<1>3. /\ year'[e] = year[e] /\ year[e] \in Years
      /\ promotionStatus[year[e]] = "EXECUTING"
      /\ Holding(e) /\ pc[e] # "auditDone"
  <2>1. CASE UNCHANGED <<pc, localVars, promotionStatus>>
    BY <2>1 DEF CatchInv, Holding, TypeInv, PlaceOK
  <2>2. ASSUME NEW f \in Executors,
               \/ \E y \in Years : ExecuteBegin(f, y)
               \/ ExecuteStep(f) \/ DbError(f) \/ Crash(f)
        PROVE  year'[e] = year[e] /\ Holding(e) /\ pc[e] # "auditDone"
    BY <2>2 DEF LifecycleAssumption, Holding, TypeInv, TypeOK, Goto, Return, AfterStudent,
      ExecuteStep, ExecuteBegin, FindStale, ResetStale, Lock, LockRefused, AuditLock,
      Evaluate, FindCourse, MissCourse, CreateCourse, DestinationsReady, TxBegin, TxCommit,
      TxFail, Heartbeat, Finalize, AuditDone, Catch, DbError, Crash
  <2>3. ASSUME ~ \E f \in Executors :
                 (\E y \in Years : ExecuteBegin(f, y)) \/ ExecuteStep(f) \/ DbError(f) \/ Crash(f)
        PROVE  UNCHANGED <<pc, localVars>>
    BY <2>3 DEF Next, OverrideStep, OverrideResolve, OverrideReject, OverrideFindCourse,
      OverrideCreateCourse, OverrideCommit, OverrideBegin, OverrideFails, PreviewRead,
      PreviewWrite, PreviewFails, RecalculateRead, RecalculateWrite, RecalculateFails,
      MarkStaleIfCompleted, HeartbeatExpires, Enroll, RemoveCourse
  <2>4. year'[e] = year[e] /\ Holding(e) /\ pc[e] # "auditDone"
    BY <2>2, <2>3 DEF Holding
  <2> QED
    BY <2>4 DEF LockInv, CatchInv, Holding, TypeInv, PlaceOK
<1>4. \A f \in Executors : f # e /\ Holding(f) => year[f] # year[e]
  BY <1>3 DEF LockInv, NoConcurrentExecution
<1>5. ASSUME promotionStatus'[year[e]] = "COMPLETED" PROVE FALSE
  <2>1. PICK f \in Executors : Finalize(f) /\ year[f] = year[e]
    <3>1. promotionStatus[year[e]] # promotionStatus'[year[e]]
      BY <1>3, <1>5
    <3>2. ASSUME NEW p \in Previewers, PreviewWrite(p) PROVE FALSE
      BY <1>3, <1>5, <3>1, <3>2 DEF PreviewWrite, TypeInv, TypeOK, SummaryRequest
    <3>3. ASSUME NEW f \in Executors, Lock(f) \/ Catch(f) PROVE FALSE
      BY <1>3, <1>5, <3>1, <3>3 DEF Lock, Catch, TypeInv, TypeOK
    <3>4. ASSUME NEW f \in Executors, Finalize(f) PROVE year[f] = year[e]
      BY <1>3, <3>1, <3>4 DEF Finalize, TypeInv, TypeOK
    <3> QED
      BY <3>1, <3>2, <3>3, <3>4, StatusSteps
  <2>2. f = e
    BY <1>4, <2>1 DEF Finalize, Holding
  <2> QED
    BY <2>1, <2>2 DEF Finalize, Goto, TypeInv, TypeOK
<1> QED
  BY <1>2, <1>3, <1>5 DEF Owned

\* No step both moves a status and decides a student.
LEMMA OneThingAtATime ==
    ASSUME LockInv, [Next]_vars
    PROVE  UNCHANGED promotionStatus \/ UNCHANGED promotionResults
<1>1. ASSUME NEW e \in Executors, Lock(e) \/ Finalize(e) \/ Catch(e)
      PROVE  UNCHANGED promotionResults
  BY <1>1 DEF Lock, Finalize, Catch, tableVars
<1>2. ASSUME NEW p \in Previewers, PreviewWrite(p) PROVE UNCHANGED promotionResults
  BY <1>2 DEF PreviewWrite, tableVars
<1> QED
  BY <1>1, <1>2, StatusSteps

LEMMA DecidedUnfolds ==
    /\ Decided \in [Years -> SUBSET Students]
    /\ \A y \in Years, s \in Students : s \in Decided[y] <=> EngineDecided(promotionResults, s, y)
BY DEF Decided, EngineDecided

\* A commit of a run is the abstract Decide.
LEMMA CommitIsDecide ==
    ASSUME LockInv, TypeInv, ClaimInv, NEW e \in Executors, TxCommit(e)
    PROVE  Lifecycle!Decide(year[e], current[e].student)
<1> DEFINE y == year[e]
           s == current[e].student
<1>1. y \in Years /\ s \in Students
  BY DEF TxCommit, TypeInv, TypeOK, PlaceOK, Evaluation
<1>2. promotionStatus[y] = "EXECUTING" /\ UNCHANGED promotionStatus
  BY DEF TxCommit, LockInv, Holding, yearVars
<1>3. ~EngineDecided(promotionResults, s, y)
  BY DEF TxCommit, ClaimInv
<1>4. PICK r \in PromotionResult :
        Decides(r) /\ ~r.isOverride /\ r.student = s /\ r.fromYear = y
  BY CommitDecides
<1>5. \A t \in Students, z \in Years :
        EngineDecided(promotionResults', t, z) <=>
          EngineDecided(promotionResults, t, z) \/ (t = s /\ z = y)
  BY <1>4, DecidedAppend
<1>6. Decided' = [z \in Years |-> {t \in Students : EngineDecided(promotionResults', t, z)}]
  BY DEF Decided, EngineDecided
<1>7. Decided' = [Decided EXCEPT ![y] = @ \cup {s}]
  <2>1. \A z \in Years : Decided'[z] = IF z = y THEN Decided[z] \cup {s} ELSE Decided[z]
    BY <1>1, <1>5, <1>6, DecidedUnfolds
  <2> QED
    BY <1>1, <1>6, <2>1, DecidedUnfolds
<1>8. s \notin Decided[y]
  BY <1>1, <1>3, DecidedUnfolds
<1> QED
  BY <1>2, <1>7, <1>8 DEF Lifecycle!Decide

\* A commit of an override decides nothing the lifecycle can see.
LEMMA OverrideIsStutter ==
    ASSUME TypeInv, NEW o \in Overriders, OverrideCommit(o)
    PROVE  UNCHANGED <<promotionStatus, Decided>>
<1>1. PICK r \in PromotionResult : Decides(r) /\ r.isOverride
  BY OverrideDecidesNobody
<1>2. \A t \in Students, z \in Years :
        EngineDecided(promotionResults', t, z) <=> EngineDecided(promotionResults, t, z)
  BY <1>1, DecidedAppend
<1>3. Decided' = [z \in Years |-> {t \in Students : EngineDecided(promotionResults', t, z)}]
  BY DEF Decided, EngineDecided
<1>4. Decided' = Decided
  BY <1>2, <1>3, DecidedUnfolds DEF Decided, EngineDecided
<1> QED
  BY <1>4 DEF OverrideCommit

LEMMA StepRefines ==
    ASSUME TypeInv, LockInv, ClaimInv, CatchInv, [Next]_vars
    PROVE  [Lifecycle!Next]_(Lifecycle!vars)
<1> USE DEF Lifecycle!vars
<1>1. ASSUME NEW y \in Years,
             \/ Lifecycle!Preview(y) \/ Lifecycle!Execute(y) \/ Lifecycle!Complete(y)
             \/ Lifecycle!Recover(y)
             \/ \E s \in Students : Lifecycle!Decide(y, s)
      PROVE  Lifecycle!Next
  BY <1>1 DEF Lifecycle!Next
<1>2. ASSUME UNCHANGED promotionResults PROVE UNCHANGED Decided
  BY <1>2 DEF Decided
<1>3. ASSUME NEW p \in Previewers, PreviewWrite(p) PROVE Lifecycle!Next
  <2> DEFINE y == preview[p].year
  <2>1. /\ y \in Years /\ promotionStatus[y] = Null
        /\ promotionStatus' = [promotionStatus EXCEPT ![y] = "PREVIEWED"]
        /\ UNCHANGED promotionResults
    BY <1>3 DEF PreviewWrite, LockInv, TypeInv, TypeOK, SummaryRequest, tableVars
  <2>2. Lifecycle!Preview(y)
    BY <1>2, <2>1 DEF Lifecycle!Preview
  <2> QED
    BY <1>1, <2>1, <2>2
<1>4. ASSUME NEW e \in Executors, Lock(e) PROVE Lifecycle!Next
  <2>1. /\ year[e] \in Years /\ promotionStatus[year[e]] = "PREVIEWED"
        /\ promotionStatus' = [promotionStatus EXCEPT ![year[e]] = "EXECUTING"]
        /\ UNCHANGED promotionResults
    BY <1>4 DEF Lock, LockMatches, TypeInv, PlaceOK, tableVars
  <2>2. Lifecycle!Execute(year[e])
    BY <1>2, <2>1 DEF Lifecycle!Execute
  <2> QED
    BY <1>1, <2>1, <2>2
<1>5. ASSUME NEW e \in Executors, Finalize(e) PROVE Lifecycle!Next
  <2>1. /\ year[e] \in Years /\ promotionStatus[year[e]] = "EXECUTING"
        /\ promotionStatus' = [promotionStatus EXCEPT ![year[e]] = "COMPLETED"]
        /\ UNCHANGED promotionResults
    BY <1>5 DEF Finalize, LockInv, Holding, TypeInv, PlaceOK, tableVars
  <2>2. Lifecycle!Complete(year[e])
    BY <1>2, <2>1 DEF Lifecycle!Complete
  <2> QED
    BY <1>1, <2>1, <2>2
<1>6. ASSUME NEW e \in Executors, Catch(e) PROVE [Lifecycle!Next]_(Lifecycle!vars)
  <2>1. /\ year[e] \in Years /\ promotionStatus[year[e]] = "EXECUTING"
        /\ \/ promotionStatus' = [promotionStatus EXCEPT ![year[e]] = "PREVIEWED"]
           \/ UNCHANGED promotionStatus
        /\ UNCHANGED promotionResults
    BY <1>6 DEF Catch, CatchInv, TypeInv, PlaceOK, tableVars
  <2>2. Lifecycle!Recover(year[e]) \/ UNCHANGED <<promotionStatus, Decided>>
    BY <1>2, <2>1 DEF Lifecycle!Recover
  <2> QED
    BY <1>1, <2>1, <2>2
<1>7. ASSUME NEW e \in Executors, TxCommit(e) PROVE Lifecycle!Next
  <2>1. year[e] \in Years /\ current[e].student \in Students
    BY <1>7 DEF TxCommit, TypeInv, TypeOK, PlaceOK, Evaluation
  <2> QED
    BY <1>1, <1>7, <2>1, CommitIsDecide
<1>8. CASE UNCHANGED <<promotionStatus, promotionResults>>
  BY <1>2, <1>8
<1> QED
  BY <1>3, <1>4, <1>5, <1>6, <1>7, <1>8, StatusSteps, ResultSteps, OneThingAtATime,
     OverrideIsStutter

\* The promotion implements its lifecycle: the status of a year follows the
\* table of the design, COMPLETED is final, and the engine decides a student
\* only under EXECUTING and only once.
THEOREM Refines ==
    ASSUME LifecycleAssumption
    PROVE  Spec => LifecycleKept
<1>1. Init => ClaimInv /\ CatchInv
  BY DEF Init, ClaimInv, CatchInv
<1>2. TypeInv /\ LockInv /\ ClaimInv /\ CatchInv /\ [Next]_vars /\ LockInv'
        => ClaimInv' /\ CatchInv'
  BY NextClaim, NextCatch
<1>3. LockAssumption
  BY DEF LifecycleAssumption
<1>4. Spec => []LockInv
  BY <1>3, LockInvariant
<1>5. Init => Lifecycle!Init
  BY DEF Init, Lifecycle!Init, Decided, EngineResultsOf, ResultsOf
<1>6. TypeInv /\ LockInv /\ ClaimInv /\ CatchInv /\ [Next]_vars
        => [Lifecycle!Next]_(Lifecycle!vars)
  BY StepRefines
<1>7. Spec => [](ClaimInv /\ CatchInv)
  BY <1>1, <1>2, <1>4, TypeInvariant, PTL DEF Spec
<1> QED
  BY <1>4, <1>5, <1>6, <1>7, TypeInvariant, PTL DEF Spec, LifecycleKept, Lifecycle!Spec

-----------------------------------------------------------------------------
(* Nobody is forgotten.  What a run may skip without a result is a student   *)
(* whose transaction rolled back.  Without failures that is one who is       *)
(* already in the destination, and he is there by a result of the year: no   *)
(* lock is needed, and two runs of one year may well overlap.                *)

\* No query, queue or course fails under a run, no override names a year of its own
\* choice, and nobody is enrolled, or asked for, in two years in a row.
NothingFails ==
    /\ Faults \cap {"queue", "db", "remove"} = {}
    /\ DtoYears = {}
    /\ \A cs \in InitCourseStudents, ds \in InitCourseStudents \cup EnrollRequests :
         cs.student = ds.student => ds.course.year # cs.course.year + 1

\* A result sends to the year after its own.
YearFollows(r) == r.toYear = ToYear(r.result, r.fromYear)

YearInv ==
    /\ \A i \in Rows : YearFollows(promotionResults[i])
    /\ \A o \in Overriders : override[o] # Null =>
         IF override[o].stage = "resolve" THEN override[o].toYear = Null
         ELSE YearFollows(override[o])

\* The steps between a run's evaluation and its end.
Processing == {"destinations", "createCourse", "students", "commit", "heartbeat"}

Waiting(e, s) ==
    \/ \E ev \in todo[e] : ev.student = s
    \/ pc[e] = "commit" /\ current[e].student = s

\* A run that has evaluated its year has each of its students decided or to come.
ProgressInv ==
    /\ InitCourseStudents \subseteq courseStudents
    /\ \A e \in Executors : destinations[e] \subseteq courses
    /\ \A e \in Executors, cs \in InitCourseStudents :
         pc[e] \in Processing /\ cs.course.year = year[e] =>
           HasResult(promotionResults, cs.student, year[e]) \/ Waiting(e, cs.student)
    /\ NoStudentForgotten

\* Results are only added.
LEMMA ResultKept ==
    ASSUME TypeInv, TableStep, NEW s, NEW y, HasResult(promotionResults, s, y)
    PROVE  HasResult(promotionResults', s, y)
<1>1. CASE Enrols
  BY <1>1 DEF Enrols
<1>2. ASSUME NEW r \in PromotionResult, Decides(r) PROVE HasResult(promotionResults', s, y)
  <2>1. PICK n \in Nat :
          /\ Rows = 1..n
          /\ Rows' = 1..(n + 1)
          /\ \A i \in Rows : promotionResults'[i] = promotionResults[i]
    BY <1>2, RowsAfter
  <2> QED
    BY <2>1 DEF HasResult, ResultsOf, Rows
<1> QED
  BY <1>1, <1>2 DEF TableStep

LEMMA ResultAdded ==
    ASSUME TypeInv, NEW r \in PromotionResult, Decides(r)
    PROVE  HasResult(promotionResults', r.student, r.fromYear)
<1>1. PICK n \in Nat : Rows' = 1..(n + 1) /\ promotionResults'[n + 1] = r
  BY RowsAfter
<1>2. n + 1 \in Rows'
  BY <1>1
<1> QED
  BY <1>1, <1>2 DEF HasResult, ResultsOf, Rows

\* Whoever is in a course that he was not in from the start has a result of the
\* year before.
LEMMA EnrolledHasResult ==
    ASSUME TypeInv, ResultsTraced, EnrolmentsJustified, YearInv,
           NEW cs \in courseStudents, cs \notin InitCourseStudents \cup EnrollRequests
    PROVE  HasResult(promotionResults, cs.student, cs.course.year - 1)
<1>1. PICK i \in Rows : /\ promotionResults[i].student = cs.student
                        /\ promotionResults[i].toCourse = cs.course
  BY DEF EnrolmentsJustified
<1> DEFINE r == promotionResults[i]
<1>2. r \in PromotionResult /\ cs.course \in Course
  BY DEF TypeInv, TypeOK, Rows, CourseStudent
<1>3. r.toCourse.year = r.toYear
  BY <1>1, <1>2, CourseAssumption DEF ResultsTraced
<1>4. r.toYear \in Years /\ r.toYear = ToYear(r.result, r.fromYear)
  BY <1>1, <1>2, <1>3 DEF YearInv, YearFollows, Course
<1>5. r.toYear = r.fromYear + 1
  BY <1>4, NullAssumption DEF ToYear
<1>6. r.fromYear \in Nat
  BY <1>2, YearsAssumption DEF PromotionResult
<1>7. r.fromYear = cs.course.year - 1
  BY <1>1, <1>3, <1>5, <1>6
<1> QED
  BY <1>1, <1>7 DEF HasResult, ResultsOf, Rows

LEMMA NextYear ==
    ASSUME NothingFails, TypeInv, YearInv, [Next]_vars
    PROVE  YearInv'
<1> USE DEF requestVars
<1>1. ASSUME NEW r \in PromotionResult, Decides(r), YearFollows(r)
      PROVE  \A i \in Rows' : YearFollows(promotionResults'[i])
  <2>1. PICK n \in Nat :
          /\ Rows = 1..n
          /\ Rows' = 1..(n + 1)
          /\ \A i \in Rows : promotionResults'[i] = promotionResults[i]
          /\ promotionResults'[n + 1] = r
    BY <1>1, RowsAfter
  <2>2. \A i \in Rows' : i \in Rows \/ i = n + 1
    BY <2>1
  <2> QED
    BY <1>1, <2>1, <2>2 DEF YearInv
<1>2. ASSUME UNCHANGED promotionResults
      PROVE  \A i \in Rows' : YearFollows(promotionResults'[i])
  BY <1>2 DEF YearInv, Rows
<1>3. ASSUME NEW e \in Executors, TxCommit(e)
      PROVE  \A i \in Rows' : YearFollows(promotionResults'[i])
  <2>1. PICK c \in DestinationOf(e, current[e]) \cup {Null} :
          /\ Decides(EngineRow(current[e], year[e], c))
          /\ EngineRow(current[e], year[e], c) \in PromotionResult
    BY <1>3, TxCommitDecides
  <2>2. YearFollows(EngineRow(current[e], year[e], c))
    BY DEF YearFollows, EngineRow
  <2> QED
    BY <1>1, <2>1, <2>2
<1>4. ASSUME NEW o \in Overriders, OverrideCommit(o)
      PROVE  \A i \in Rows' : YearFollows(promotionResults'[i])
  <2>1. YearFollows(OverrideRow(override[o]))
    BY <1>4 DEF OverrideCommit, YearInv, YearFollows, OverrideRow
  <2> QED
    BY <1>1, <1>4, <2>1, OverrideCommitDecides
<1>5. \A i \in Rows' : YearFollows(promotionResults'[i])
  BY <1>2, <1>3, <1>4, ResultSteps
<1>6. ASSUME UNCHANGED override PROVE YearInv'
  BY <1>5, <1>6 DEF YearInv
<1>7. ASSUME NEW o \in Overriders,
             \/ \E s \in Students, y \in Years, res \in Outcome, d \in DtoYears \cup {Null} :
                  OverrideBegin(o, s, y, res, d)
             \/ OverrideStep(o) \/ OverrideFails(o)
      PROVE  YearInv'
  <2> DEFINE v == override[o]
             w == override'[o]
  <2>1. \A p \in Overriders : p # o => override'[p] = override[p]
    BY <1>7 DEF TypeInv, TypeOK, OverrideBegin, OverrideStep, OverrideResolve, OverrideReject,
      OverrideFindCourse, OverrideCreateCourse, OverrideCommit, OverrideFails
  <2>2. w # Null => IF w.stage = "resolve" THEN w.toYear = Null ELSE YearFollows(w)
    <3>1. ASSUME NEW s \in Students, NEW y \in Years, NEW res \in Outcome,
                 NEW d \in DtoYears \cup {Null}, OverrideBegin(o, s, y, res, d)
          PROVE  w.stage = "resolve" /\ w.toYear = Null
      BY <3>1 DEF NothingFails, OverrideBegin, TypeInv, TypeOK
    <3>2. CASE OverrideResolve(o)
      <4>1. v \in OverrideRequest /\ v.toYear = Null
        BY <3>2 DEF OverrideResolve, TypeInv, TypeOK, YearInv
      <4> DEFINE To(g) == EngineToGrade(v.result, g)
                 ToY == IF v.toYear # Null THEN v.toYear ELSE ToYear(v.result, v.fromYear)
                 Stage(g) == IF v.result # "GRADUATED" /\ To(g) # Null THEN "course" ELSE "commit"
      <4>2. PICK g \in OverrideFromGrades(v.student, v.fromYear) :
              override' = [override EXCEPT ![o] = [v EXCEPT !.fromGrade = g,
                 !.toGrade = To(g), !.toYear = ToY, !.stage = Stage(g)]]
        BY <3>2 DEF OverrideResolve
      <4>3. PICK stage, toYear : /\ stage = Stage(g) /\ stage # "resolve"
                                 /\ toYear = ToYear(v.result, v.fromYear) /\ toYear = ToY
        BY <4>1
      <4>4. w = [v EXCEPT !.fromGrade = g, !.toGrade = To(g), !.toYear = toYear,
                          !.stage = stage]
        BY <4>2, <4>3 DEF TypeInv, TypeOK
      <4>5. w.stage = stage /\ w.toYear = toYear /\ w.result = v.result /\ w.fromYear = v.fromYear
        BY <4>1, <4>4 DEF OverrideRequest
      <4> QED
        BY <4>3, <4>5 DEF YearFollows
    <3>3. CASE OverrideFindCourse(o) \/ OverrideCreateCourse(o)
      <4>1. v \in OverrideRequest /\ v # Null /\ v.stage \in {"course", "create"}
        BY <3>3 DEF OverrideFindCourse, OverrideCreateCourse, TypeInv, TypeOK
      <4>2. YearFollows(v)
        BY <4>1 DEF YearInv
      <4>3. \/ w = [v EXCEPT !.stage = "create"]
            \/ \E c : w = [v EXCEPT !.stage = "commit", !.course = c]
        <5>1. override \in [Overriders -> OverrideRequest \cup {Null}]
          BY DEF TypeInv, TypeOK
        <5>2. CASE OverrideFindCourse(o)
          BY <5>1, <5>2 DEF OverrideFindCourse
        <5>3. CASE OverrideCreateCourse(o)
          BY <5>1, <5>3 DEF OverrideCreateCourse
        <5> QED
          BY <3>3, <5>2, <5>3
      <4> QED
        BY <4>1, <4>2, <4>3 DEF OverrideRequest, YearFollows
    <3>4. CASE OverrideReject(o) \/ OverrideCommit(o) \/ OverrideFails(o)
      BY <3>4 DEF OverrideReject, OverrideCommit, OverrideFails, TypeInv, TypeOK
    <3> QED
      BY <1>7, <3>1, <3>2, <3>3, <3>4 DEF OverrideStep
  <2> QED
    BY <1>5, <2>1, <2>2 DEF YearInv
<1>8. ASSUME ~ \E o \in Overriders :
               \/ \E s \in Students, y \in Years, res \in Outcome, d \in DtoYears \cup {Null} :
                    OverrideBegin(o, s, y, res, d)
               \/ OverrideStep(o) \/ OverrideFails(o)
      PROVE  UNCHANGED override
  BY <1>8 DEF Next, vars, ExecuteStep, FindStale, ResetStale, Lock, LockRefused, AuditLock,
    Evaluate, FindCourse, MissCourse, CreateCourse, DestinationsReady, TxBegin, TxCommit,
    TxFail, Heartbeat, Finalize, AuditDone, Catch, ExecuteBegin, DbError, Crash, PreviewRead,
    PreviewWrite, PreviewFails, RecalculateRead, RecalculateWrite, RecalculateFails,
    MarkStaleIfCompleted, HeartbeatExpires, Enroll, RemoveCourse
<1> QED
  BY <1>6, <1>7, <1>8

\* How a run comes to be in the middle of its year.
LEMMA ProcessingReached ==
    ASSUME TypeInv, [Next]_vars, NEW e \in Executors, pc'[e] \in Processing
    PROVE  \/ Evaluate(e) \/ TxBegin(e) \/ TxCommit(e) \/ TxFail(e)
           \/ /\ pc[e] \in Processing /\ year'[e] = year[e] /\ todo'[e] = todo[e]
              /\ pc[e] = "commit" => pc'[e] = "commit" /\ current'[e] = current[e]
<1> USE DEF vars, localVars, TypeInv, TypeOK, Goto, Return, Processing
<1>1. ASSUME NEW f \in Executors,
             \/ \E y \in Years : ExecuteBegin(f, y)
             \/ ExecuteStep(f) \/ DbError(f) \/ Crash(f),
             ~ (Evaluate(e) \/ TxBegin(e) \/ TxCommit(e) \/ TxFail(e))
      PROVE  /\ pc[e] \in Processing /\ year'[e] = year[e] /\ todo'[e] = todo[e]
             /\ pc[e] = "commit" => pc'[e] = "commit" /\ current'[e] = current[e]
  <2>1. CASE f = e
    BY <1>1, <2>1 DEF ExecuteStep, ExecuteBegin, FindStale, ResetStale, Lock, LockRefused,
      AuditLock, FindCourse, MissCourse, CreateCourse, DestinationsReady, Heartbeat, Finalize,
      AuditDone, Catch, DbError, Crash
  <2>2. CASE f # e
    <3>1. pc'[e] = pc[e] /\ year'[e] = year[e] /\ todo'[e] = todo[e] /\ current'[e] = current[e]
      BY <1>1, <2>2 DEF ExecuteStep, ExecuteBegin, FindStale, ResetStale, Lock, LockRefused,
        AuditLock, Evaluate, FindCourse, MissCourse, CreateCourse, DestinationsReady, TxBegin,
        TxCommit, TxFail, Heartbeat, Finalize, AuditDone, Catch, DbError, Crash
    <3> QED
      BY <3>1
  <2> QED
    BY <2>1, <2>2
<1>2. ASSUME ~ \E f \in Executors :
               (\E y \in Years : ExecuteBegin(f, y)) \/ ExecuteStep(f) \/ DbError(f) \/ Crash(f)
      PROVE  UNCHANGED <<pc, localVars>>
  BY <1>2 DEF Next, OverrideStep, OverrideResolve, OverrideReject, OverrideFindCourse,
    OverrideCreateCourse, OverrideCommit, OverrideBegin, OverrideFails, PreviewRead,
    PreviewWrite, PreviewFails, RecalculateRead, RecalculateWrite, RecalculateFails,
    MarkStaleIfCompleted, HeartbeatExpires, Enroll, RemoveCourse
<1> QED
  BY <1>1, <1>2

\* A transaction that rolls back found its student in the destination.
LEMMA FailureHasResult ==
    ASSUME NothingFails, TypeInv, ResultsTraced, EnrolmentsJustified, YearInv, ProgressInv,
           NEW e \in Executors, TxFail(e), NEW cs \in InitCourseStudents,
           cs.course.year = year[e], current[e].student = cs.student
    PROVE  HasResult(promotionResults, cs.student, year[e])
<1> DEFINE ev == current[e]
<1>1. /\ ev \in evaluations[e] /\ ev \in Evaluation /\ year[e] \in Years
  BY DEF TxFail, TypeInv, TypeOK, PlaceOK
<1>2. PICK c \in DestinationOf(e, ev) : ~CanEnroll(ev.student, c)
  BY DEF TxFail, NothingFails
<1>3. c \in Course /\ c.year = ToYear(ev.result, year[e])
  BY <1>1, DestinationFits
<1>4. c \in courses
  BY <1>2 DEF DestinationOf, CoursesOf, ProgressInv
<1>5. PICK ds \in courseStudents : ds = [student |-> ev.student, course |-> c]
  BY <1>2, <1>4 DEF CanEnroll
<1>6. c.year = year[e] + 1 /\ year[e] \in Nat
  BY <1>1, <1>3, NullAssumption, YearsAssumption DEF ToYear, Course
<1>7. ds.student = cs.student /\ ds.course.year = year[e] + 1
  BY <1>5, <1>6
<1>8. ds \notin InitCourseStudents \cup EnrollRequests
  BY <1>7 DEF NothingFails
<1>9. HasResult(promotionResults, ds.student, ds.course.year - 1)
  BY <1>8, EnrolledHasResult
<1>10. ds.course.year - 1 = year[e]
  BY <1>6, <1>7
<1> QED
  BY <1>7, <1>9, <1>10

\* The student of a committed transaction has a result.
LEMMA CommitHasResult ==
    ASSUME TypeInv, NEW e \in Executors, TxCommit(e)
    PROVE  HasResult(promotionResults', current[e].student, year[e])
<1>1. PICK r \in PromotionResult :
        Decides(r) /\ r.student = current[e].student /\ r.fromYear = year[e]
  BY CommitDecides
<1> QED
  BY <1>1, ResultAdded

\* Only the end of a run completes a year.
LEMMA CompletedBy ==
    ASSUME TypeInv, [Next]_vars, NEW y \in Years,
           promotionStatus'[y] = "COMPLETED", promotionStatus[y] # "COMPLETED"
    PROVE  \E e \in Executors : Finalize(e) /\ year[e] = y
<1>1. ASSUME NEW e \in Executors, Finalize(e) PROVE year[e] = y
  BY <1>1 DEF Finalize, TypeInv, TypeOK
<1>2. ASSUME NEW e \in Executors, Lock(e) \/ Catch(e) \/ ResetStale(e) PROVE FALSE
  BY <1>2 DEF Lock, Catch, ResetStale, TypeInv, TypeOK
<1>3. ASSUME NEW p \in Previewers, PreviewWrite(p) PROVE FALSE
  BY <1>3 DEF PreviewWrite, TypeInv, TypeOK
<1>4. \/ UNCHANGED promotionStatus
      \/ \E e \in Executors : Lock(e) \/ Finalize(e) \/ Catch(e) \/ ResetStale(e)
      \/ \E p \in Previewers : PreviewWrite(p)
  BY ZenonT(30) DEF Next, vars, yearVars, ExecuteStep, FindStale, LockRefused,
    AuditLock, Evaluate, FindCourse, MissCourse, CreateCourse, DestinationsReady, TxBegin,
    TxCommit, TxFail, Heartbeat, AuditDone, OverrideStep, OverrideResolve, OverrideReject,
    OverrideFindCourse, OverrideCreateCourse, OverrideCommit, ExecuteBegin, DbError, Crash,
    PreviewRead, PreviewFails, OverrideBegin, OverrideFails, RecalculateRead,
    RecalculateWrite, RecalculateFails, MarkStaleIfCompleted, HeartbeatExpires, Enroll,
    RemoveCourse
<1> QED
  BY <1>1, <1>2, <1>3, <1>4

LEMMA NextProgress ==
    ASSUME NothingFails, TypeInv, ResultsTraced, EnrolmentsJustified, YearInv, ProgressInv,
           [Next]_vars
    PROVE  ProgressInv'
<1>0. TableStep
  BY TableSteps
<1>1. InitCourseStudents \subseteq courseStudents'
  BY <1>0 DEF ProgressInv, TableStep, Enrols, Decides
<1>2. ASSUME NEW e \in Executors PROVE destinations'[e] \subseteq courses'
  <2>1. courses \subseteq courses'
    BY ZenonT(30) DEF Next, vars, tableVars, NothingFails, RemoveCourse, ExecuteStep, FindStale, ResetStale,
      Lock, LockRefused, AuditLock, Evaluate, FindCourse, MissCourse, CreateCourse,
      DestinationsReady, TxBegin, TxCommit, TxFail, Heartbeat, Finalize, AuditDone, Catch,
      OverrideStep, OverrideResolve, OverrideReject, OverrideFindCourse, OverrideCreateCourse,
      OverrideCommit, ExecuteBegin, DbError, Crash, PreviewRead, PreviewWrite, PreviewFails,
      OverrideBegin, OverrideFails, RecalculateRead, RecalculateWrite, RecalculateFails,
      MarkStaleIfCompleted, HeartbeatExpires, Enroll
  <2>2. destinations'[e] \subseteq destinations[e] \cup courses'
    <3>1. ASSUME NEW f \in Executors, FindCourse(f)
          PROVE  destinations'[e] \subseteq destinations[e] \cup courses'
      <4>1. PICK c \in courses : destinations' = [destinations EXCEPT ![f] = @ \cup {c}]
        BY <3>1 DEF FindCourse, CoursesOf
      <4>2. destinations'[e] \subseteq destinations[e] \cup {c}
        BY <4>1 DEF TypeInv, TypeOK
      <4> QED
        BY <2>1, <4>2
    <3>2. ASSUME NEW f \in Executors, CreateCourse(f)
          PROVE  destinations'[e] \subseteq destinations[e] \cup courses'
      <4>1. PICK c \in courses' : destinations' = [destinations EXCEPT ![f] = @ \cup {c}]
        BY <3>2 DEF CreateCourse
      <4>2. destinations'[e] \subseteq destinations[e] \cup {c}
        BY <4>1 DEF TypeInv, TypeOK
      <4> QED
        BY <4>2
    <3>3. ASSUME NEW f \in Executors, ExecuteStep(f), ~FindCourse(f), ~CreateCourse(f)
          PROVE  destinations'[e] \subseteq destinations[e]
      BY <3>3 DEF TypeInv, TypeOK, Return, localVars, ExecuteStep, FindStale, ResetStale, Lock,
        LockRefused, AuditLock, Evaluate, MissCourse, DestinationsReady, TxBegin, TxCommit,
        TxFail, Heartbeat, Finalize, AuditDone, Catch
    <3>4. ASSUME NEW f \in Executors,
                 \/ \E y \in Years : ExecuteBegin(f, y)
                 \/ DbError(f) \/ Crash(f)
          PROVE  destinations'[e] \subseteq destinations[e]
      BY <3>4 DEF TypeInv, TypeOK, Return, localVars, ExecuteBegin, DbError, Crash
    <3>5. ASSUME ~ \E f \in Executors :
                   (\E y \in Years : ExecuteBegin(f, y)) \/ ExecuteStep(f) \/ DbError(f) \/ Crash(f)
          PROVE  UNCHANGED destinations
      BY <3>5 DEF vars, localVars, Next, OverrideStep, OverrideResolve, OverrideReject,
        OverrideFindCourse, OverrideCreateCourse, OverrideCommit, OverrideBegin, OverrideFails,
        PreviewRead, PreviewWrite, PreviewFails, RecalculateRead, RecalculateWrite,
        RecalculateFails, MarkStaleIfCompleted, HeartbeatExpires, Enroll, RemoveCourse
    <3> QED
      BY <3>1, <3>2, <3>3, <3>4, <3>5
  <2> QED
    BY <2>1, <2>2 DEF ProgressInv
<1>3. ASSUME NEW e \in Executors, NEW cs \in InitCourseStudents,
             pc'[e] \in Processing, cs.course.year = year'[e]
      PROVE  HasResult(promotionResults', cs.student, year'[e]) \/ Waiting(e, cs.student)'
  <2> DEFINE s == cs.student
  <2>1. ASSUME HasResult(promotionResults, s, year'[e])
        PROVE  HasResult(promotionResults', s, year'[e])
    BY <1>0, <2>1, ResultKept
  <2>2. CASE Evaluate(e)
    <3>1. cs \in Roster(year[e]) /\ year'[e] = year[e]
      BY <1>3, <2>2 DEF Evaluate, Roster, ProgressInv
    <3>2. PICK allPassed \in [Roster(year[e]) -> BOOLEAN] :
            LET evs == EvaluationsOf(year[e], allPassed) IN
            IF \A ev \in evs : Resolvable(ev.result, ev.course.grade, year[e])
            THEN /\ evaluations' = [evaluations EXCEPT ![e] = evs]
                 /\ todo' = [todo EXCEPT ![e] = evs]
                 /\ Goto(e, "destinations")
            ELSE /\ Goto(e, "catch")
                 /\ UNCHANGED <<evaluations, todo>>
      BY <2>2 DEF Evaluate
    <3> DEFINE evs == EvaluationsOf(year[e], allPassed)
    <3>3. todo'[e] = evs
      <4>1. CASE \A ev \in evs : Resolvable(ev.result, ev.course.grade, year[e])
        <5>1. todo' = [todo EXCEPT ![e] = evs]
          BY <3>2, <4>1
        <5> HIDE DEF evs
        <5> QED
          BY <5>1 DEF TypeInv, TypeOK
      <4>2. CASE ~ \A ev \in evs : Resolvable(ev.result, ev.course.grade, year[e])
        <5>1. Goto(e, "catch")
          BY <3>2, <4>2
        <5> QED
          BY <1>3, <5>1 DEF Goto, TypeInv, TypeOK, Processing
      <4> QED
        BY <4>1, <4>2
    <3>4. \E ev \in evs : ev.student = s
      <4> DEFINE ev == [student |-> cs.student, course |-> cs.course,
                        result |-> EngineOutcome(cs.course.grade, allPassed[cs])]
      <4>1. ev \in evs
        BY <3>1 DEF EvaluationsOf
      <4> QED
        BY <4>1
    <3> QED
      BY <3>3, <3>4, <1>3 DEF Waiting
  <2>3. CASE TxBegin(e)
    <3>1. PICK ev \in todo[e] :
            /\ todo'[e] = todo[e] \ {ev}
            /\ \/ HasResult(promotionResults, ev.student, year[e])
               \/ pc'[e] = "commit" /\ current'[e] = ev
      BY <2>3 DEF TxBegin, Rest, Goto, TypeInv, TypeOK
    <3>2. pc[e] = "students" /\ year'[e] = year[e]
      BY <2>3 DEF TxBegin
    <3>3. HasResult(promotionResults, s, year[e]) \/ \E fv \in todo[e] : fv.student = s
      BY <1>3, <3>2 DEF ProgressInv, Processing, Waiting
    <3> QED
      BY <2>1, <3>1, <3>2, <3>3 DEF Waiting
  <2>4. CASE TxCommit(e) \/ TxFail(e)
    <3>1. pc[e] = "commit" /\ year'[e] = year[e] /\ todo'[e] = todo[e]
      BY <2>4 DEF TxCommit, TxFail
    <3>2. HasResult(promotionResults, s, year[e]) \/ Waiting(e, s)
      BY <1>3, <3>1 DEF ProgressInv, Processing
    <3>3. CASE current[e].student = s
      <4>1. CASE TxCommit(e)
        BY <3>1, <3>3, <4>1, CommitHasResult
      <4>2. CASE TxFail(e)
        BY <1>3, <2>1, <3>1, <3>3, <4>2, FailureHasResult
      <4> QED
        BY <2>4, <4>1, <4>2
    <3>4. CASE current[e].student # s
      BY <2>1, <3>1, <3>2, <3>4 DEF Waiting
    <3> QED
      BY <3>3, <3>4
  <2>5. CASE /\ pc[e] \in Processing /\ year'[e] = year[e] /\ todo'[e] = todo[e]
             /\ pc[e] = "commit" => pc'[e] = "commit" /\ current'[e] = current[e]
    <3>1. HasResult(promotionResults, s, year[e]) \/ Waiting(e, s)
      BY <1>3, <2>5 DEF ProgressInv
    <3> QED
      BY <2>1, <2>5, <3>1 DEF Waiting
  <2> QED
    BY <1>3, <2>2, <2>3, <2>4, <2>5, ProcessingReached
<1>4. ASSUME NEW y \in Years, promotionStatus'[y] = "COMPLETED",
             NEW cs \in InitCourseStudents, cs.course.year = y
      PROVE  HasResult(promotionResults', cs.student, y)
  <2>1. CASE promotionStatus[y] = "COMPLETED"
    BY <1>0, <1>4, <2>1, ResultKept DEF ProgressInv, NoStudentForgotten
  <2>2. CASE promotionStatus[y] # "COMPLETED"
    <3>1. PICK e \in Executors : Finalize(e) /\ year[e] = y
      BY <1>4, <2>2, CompletedBy
    <3>2. ~Waiting(e, cs.student) /\ pc[e] \in Processing
      BY <3>1 DEF Finalize, LoopDone, Waiting, Processing
    <3>3. HasResult(promotionResults, cs.student, y)
      BY <1>4, <3>1, <3>2 DEF ProgressInv
    <3> QED
      BY <1>0, <3>3, ResultKept
  <2> QED
    BY <2>1, <2>2
<1> QED
  BY <1>1, <1>2, <1>3, <1>4 DEF ProgressInv, NoStudentForgotten

\* A completed year has a result for every student it had from the start, though runs
\* crash, are taken for dead and overlap, as long as no query, queue or course fails:
\* a transaction that rolls back for such a reason leaves its student out, and the run
\* completes the year all the same.
THEOREM NobodyForgotten ==
    ASSUME NothingFails
    PROVE  Spec => []NoStudentForgotten
<1>1. Init => YearInv /\ ProgressInv
  BY ConstantsAssumption DEF Init, YearInv, ProgressInv, Rows, Processing, NoStudentForgotten
<1>2. TypeInv /\ YearInv /\ [Next]_vars => YearInv'
  BY NextYear
<1>3. TypeInv /\ ResultsTraced /\ EnrolmentsJustified /\ YearInv /\ ProgressInv /\ [Next]_vars
        => ProgressInv'
  BY NextProgress
<1>4. ProgressInv => NoStudentForgotten
  BY DEF ProgressInv
<1> QED
  BY <1>1, <1>2, <1>3, <1>4, TypeInvariant, Traceability, Justification, PTL DEF Spec

-----------------------------------------------------------------------------
(* Statistics that are not stale.  The lock keeps two runs apart but not a   *)
(* run and an override: createOverride looks at the status when it begins.   *)
(* One that commits under a run has its stale flag cleared by the run's      *)
(* end, one that commits under a recalculation by the recalculation's write. *)

\* An override commits while nobody executes or recalculates its year.
QuietOverride ==
    \A o \in Overriders : OverrideCommit(o) =>
        /\ \A e \in Executors : Holding(e) => year[e] # override[o].fromYear
        /\ \A r \in Reporters : recalculation[r] # Null =>
             recalculation[r].year # override[o].fromYear

\* No student of these counts had another outcome in the year.
Within(summary, y) ==
    \A o \in DOMAIN summary : summary[o] \subseteq EffectiveSummary(promotionResults, y)[o]

\* A run counts what it created, and those students' outcomes are final while it runs.
StatisticsInv ==
    /\ \A e \in Executors :
         pc[e] = "commit" => ~HasResult(promotionResults, current[e].student, year[e])
    /\ \A e \in Executors : \A ev \in created[e] :
         /\ Holding(e)
         /\ HasResult(promotionResults, ev.student, year[e])
         /\ EffectiveResult(promotionResults, ev.student, year[e]).result = ev.result
    /\ \A r \in Reporters : recalculation[r] # Null =>
         Within(recalculation[r].summary, recalculation[r].year)
    /\ \A y \in Years : promotionStatus[y] = "COMPLETED" =>
         /\ promotionSummary[y] \in Summary
         /\ ~promotionSummaryStale[y] => Within(promotionSummary[y], y)

\* Whoever is decided in the year keeps his effective result.
Settled(y) ==
    \A s : HasResult(promotionResults, s, y) =>
        /\ HasResult(promotionResults', s, y)
        /\ EffectiveResult(promotionResults', s, y) = EffectiveResult(promotionResults, s, y)

\* A result disturbs no other student and no other year.
LEMMA OthersSettled ==
    ASSUME TypeInv, NEW r \in PromotionResult, Decides(r), NEW s, NEW y,
           HasResult(promotionResults, s, y), r.student # s \/ r.fromYear # y
    PROVE  /\ HasResult(promotionResults', s, y)
           /\ EffectiveResult(promotionResults', s, y) = EffectiveResult(promotionResults, s, y)
<1>1. PICK n \in Nat :
        /\ Rows = 1..n
        /\ Rows' = 1..(n + 1)
        /\ \A i \in Rows : promotionResults'[i] = promotionResults[i]
        /\ promotionResults'[n + 1] = r
  BY RowsAfter
<1>2. \A i : i \in Rows' <=> i \in Rows \/ i = n + 1
  BY <1>1
<1>3. ResultsOf(promotionResults', s, y) = ResultsOf(promotionResults, s, y)
  BY <1>1, <1>2 DEF ResultsOf, Rows
<1> DEFINE S == ResultsOf(promotionResults, s, y)
           k == CHOOSE i \in S : \A j \in S : j <= i
<1>4. S # {} /\ S \subseteq 1..n
  BY <1>1 DEF HasResult, ResultsOf, Rows
<1>5. k \in S
  BY <1>4, MaximumOfInterval
<1>6. k \in Rows
  BY <1>1, <1>4, <1>5
<1>7. /\ EffectiveIndex(promotionResults, s, y) = k
      /\ EffectiveIndex(promotionResults', s, y) = k
  BY <1>3 DEF EffectiveIndex
<1> QED
  BY <1>1, <1>3, <1>6, <1>7 DEF HasResult, EffectiveResult

\* The first result of a student and a year is his effective one.
LEMMA FirstResult ==
    ASSUME TypeInv, NEW r \in PromotionResult, Decides(r),
           ~HasResult(promotionResults, r.student, r.fromYear)
    PROVE  /\ HasResult(promotionResults', r.student, r.fromYear)
           /\ EffectiveResult(promotionResults', r.student, r.fromYear) = r
<1>1. PICK n \in Nat :
        /\ Rows = 1..n
        /\ Rows' = 1..(n + 1)
        /\ \A i \in Rows : promotionResults'[i] = promotionResults[i]
        /\ promotionResults'[n + 1] = r
  BY RowsAfter
<1>2. \A i : i \in Rows' <=> i \in Rows \/ i = n + 1
  BY <1>1
<1>3. ResultsOf(promotionResults', r.student, r.fromYear) = {n + 1}
  BY <1>1, <1>2 DEF ResultsOf, HasResult, Rows
<1>4. EffectiveIndex(promotionResults', r.student, r.fromYear) = n + 1
  BY <1>3 DEF EffectiveIndex
<1> QED
  BY <1>1, <1>3, <1>4 DEF HasResult, EffectiveResult

\* Counts of final outcomes stay within the effective ones.
LEMMA WithinKept ==
    ASSUME NEW y, Settled(y), NEW summary \in Summary, Within(summary, y)
    PROVE  Within(summary, y)'
<1> DEFINE S == EffectiveSummary(promotionResults, y)
           T == EffectiveSummary(promotionResults', y)
<1>1. /\ S.promoted \subseteq T.promoted /\ S.retained \subseteq T.retained
      /\ S.graduated \subseteq T.graduated /\ S.overrides \subseteq T.overrides
  BY DEF Settled, EffectiveSummary
<1>2. DOMAIN summary = {"promoted", "retained", "graduated", "overrides"}
  BY DEF Summary
<1>3. \A o \in DOMAIN summary : S[o] \subseteq T[o]
  BY <1>1, <1>2
<1> QED
  BY <1>3 DEF Within

\* A summary of evaluations whose outcomes are the effective ones.
LEMMA EvaluationsWithin ==
    ASSUME NEW y, NEW evs,
           \A ev \in evs : /\ HasResult(promotionResults, ev.student, y)
                           /\ EffectiveResult(promotionResults, ev.student, y).result = ev.result
    PROVE  Within(EvaluationSummary(evs), y)
<1> DEFINE S == EvaluationSummary(evs)
           T == EffectiveSummary(promotionResults, y)
<1>1. /\ S.promoted \subseteq T.promoted /\ S.retained \subseteq T.retained
      /\ S.graduated \subseteq T.graduated /\ S.overrides \subseteq T.overrides
  BY DEF EvaluationSummary, EffectiveSummary
<1>2. DOMAIN S = {"promoted", "retained", "graduated", "overrides"}
  BY DEF EvaluationSummary
<1> QED
  BY <1>1, <1>2 DEF Within

\* Only an override of the year itself unsettles it.
LEMMA StepSettles ==
    ASSUME TypeInv, StatisticsInv, [Next]_vars, NEW y
    PROVE  \/ Settled(y)
           \/ \E o \in Overriders : OverrideCommit(o) /\ override[o].fromYear = y
<1>1. CASE UNCHANGED promotionResults
  BY <1>1 DEF Settled
<1>2. ASSUME NEW e \in Executors, TxCommit(e) PROVE Settled(y)
  <2>1. PICK r \in PromotionResult :
          Decides(r) /\ r.student = current[e].student /\ r.fromYear = year[e]
    BY <1>2, CommitDecides
  <2>2. ~HasResult(promotionResults, r.student, r.fromYear)
    BY <1>2, <2>1 DEF TxCommit, StatisticsInv
  <2> QED
    BY <2>1, <2>2, OthersSettled DEF Settled
<1>3. ASSUME NEW o \in Overriders, OverrideCommit(o), override[o].fromYear # y
      PROVE  Settled(y)
  <2>1. /\ OverrideRow(override[o]) \in PromotionResult
        /\ Decides(OverrideRow(override[o]))
    BY <1>3, OverrideCommitDecides
  <2>2. OverrideRow(override[o]).fromYear # y
    BY <1>3 DEF OverrideRow
  <2> QED
    BY <2>1, <2>2, OthersSettled DEF Settled
<1> QED
  BY <1>1, <1>2, <1>3, ResultSteps

LEMMA UndecidedKept ==
    ASSUME TypeInv, NEW r \in PromotionResult, Decides(r), NEW s, NEW y,
           ~HasResult(promotionResults, s, y), r.student # s \/ r.fromYear # y
    PROVE  ~HasResult(promotionResults', s, y)
<1>1. PICK n \in Nat :
        /\ Rows = 1..n
        /\ Rows' = 1..(n + 1)
        /\ \A i \in Rows : promotionResults'[i] = promotionResults[i]
        /\ promotionResults'[n + 1] = r
  BY RowsAfter
<1>2. \A i : i \in Rows' <=> i \in Rows \/ i = n + 1
  BY <1>1
<1> QED
  BY <1>1, <1>2 DEF ResultsOf, HasResult, Rows

\* Under the lock nobody decides the student a run has found undecided.
LEMMA NextUndecided ==
    ASSUME TypeInv, LockInv, StatisticsInv, [Next]_vars, QuietOverride,
           NEW e \in Executors, pc'[e] = "commit"
    PROVE  ~HasResult(promotionResults', current'[e].student, year'[e])
<1>1. CASE UNCHANGED promotionResults
  BY <1>1, CommitReached DEF StatisticsInv
<1>2. ASSUME NEW r \in PromotionResult, Decides(r),
             Holding(e) /\ pc[e] = "commit" => r.student # current[e].student \/ r.fromYear # year[e]
      PROVE  ~HasResult(promotionResults', current'[e].student, year'[e])
  <2>1. ~UNCHANGED promotionResults
    BY <1>2, DecidingChanges
  <2>2. pc[e] = "commit" /\ current'[e] = current[e] /\ year'[e] = year[e]
    BY <2>1, CommitReached
  <2>3. Holding(e)
    BY <2>2 DEF Holding
  <2>4. ~HasResult(promotionResults, current[e].student, year[e])
    BY <2>2 DEF StatisticsInv
  <2> QED
    BY <1>2, <2>2, <2>3, <2>4, UndecidedKept
<1>3. ASSUME NEW f \in Executors, TxCommit(f)
      PROVE  ~HasResult(promotionResults', current'[e].student, year'[e])
  <2>1. PICK r \in PromotionResult :
          Decides(r) /\ r.student = current[f].student /\ r.fromYear = year[f]
    BY <1>3, CommitDecides
  <2>2. e # f
    BY <1>3 DEF TxCommit, Goto, AfterStudent, TypeInv, TypeOK
  <2>3. Holding(f)
    BY <1>3 DEF TxCommit, Holding
  <2>4. Holding(e) => year[e] # year[f]
    BY <2>2, <2>3 DEF LockInv, NoConcurrentExecution
  <2> QED
    BY <1>2, <2>1, <2>4
<1>4. ASSUME NEW o \in Overriders, OverrideCommit(o)
      PROVE  ~HasResult(promotionResults', current'[e].student, year'[e])
  <2>1. Decides(OverrideRow(override[o])) /\ OverrideRow(override[o]) \in PromotionResult
    BY <1>4, OverrideCommitDecides
  <2>2. Holding(e) => OverrideRow(override[o]).fromYear # year[e]
    BY <1>4 DEF QuietOverride, OverrideRow
  <2> QED
    BY <1>2, <2>1, <2>2
<1> QED
  BY <1>1, <1>3, <1>4, ResultSteps

\* A run keeps what it created, and the year, until it returns.
LEMMA CreatedSteps ==
    ASSUME TypeInv, [Next]_vars, NEW e \in Executors, NEW ev \in created'[e],
           ev \in created[e] => Holding(e)
    PROVE  /\ Holding(e) /\ Holding(e)' /\ year'[e] = year[e]
           /\ ev \in created[e] \/ (TxCommit(e) /\ ev = current[e])
<1>1. CASE UNCHANGED <<pc, localVars>>
  <2>1. pc' = pc /\ year' = year /\ created' = created
    BY <1>1 DEF localVars
  <2> QED
    BY <2>1 DEF Holding
<1>2. ASSUME NEW f \in Executors,
             \/ \E y \in Years : ExecuteBegin(f, y)
             \/ ExecuteStep(f) \/ DbError(f) \/ Crash(f),
             ~TxCommit(f)
      PROVE  /\ Holding(e) /\ Holding(e)' /\ year'[e] = year[e]
             /\ ev \in created[e]
  <2>1. created'[e] \subseteq created[e]
    BY <1>2 DEF TypeInv, TypeOK, Goto, Return, localVars, ExecuteStep, ExecuteBegin, FindStale, ResetStale, Lock,
      LockRefused, AuditLock, Evaluate, FindCourse, MissCourse, CreateCourse, TxBegin,
      DestinationsReady, TxFail, Heartbeat, Finalize, AuditDone, Catch, DbError, Crash
  <2>2. Holding(e) /\ ev \in created[e]
    BY <2>1
  <2>3. CASE f = e
    <3>1. \/ created'[e] = {}
          \/ Holding(e)' /\ year'[e] = year[e]
      BY <1>2, <2>2, <2>3 DEF TypeInv, TypeOK, Goto, Return, localVars, AfterStudent, Holding, ExecuteStep, ExecuteBegin, FindStale, ResetStale, Lock,
        LockRefused, AuditLock, Evaluate, FindCourse, MissCourse, CreateCourse, TxBegin,
        DestinationsReady, TxFail, Heartbeat, Finalize, AuditDone, Catch, DbError, Crash
    <3> QED
      BY <2>2, <3>1
  <2>4. CASE f # e
    <3>1. pc'[e] = pc[e] /\ year'[e] = year[e]
      BY <1>2, <2>4 DEF TypeInv, TypeOK, Goto, Return, localVars, ExecuteStep, ExecuteBegin, FindStale, ResetStale, Lock,
        LockRefused, AuditLock, Evaluate, FindCourse, MissCourse, CreateCourse, TxBegin,
        DestinationsReady, TxFail, Heartbeat, Finalize, AuditDone, Catch, DbError, Crash
    <3> QED
      BY <2>2, <3>1 DEF Holding
  <2> QED
    BY <2>3, <2>4
<1>3. ASSUME NEW f \in Executors, TxCommit(f)
      PROVE  /\ Holding(e) /\ Holding(e)' /\ year'[e] = year[e]
             /\ ev \in created[e] \/ (TxCommit(e) /\ ev = current[e])
  <2>1. CASE f = e
    BY <1>3, <2>1 DEF TxCommit, Holding, Goto, AfterStudent, TypeInv, TypeOK
  <2>2. CASE f # e
    <3>1. pc'[e] = pc[e] /\ year'[e] = year[e] /\ created'[e] = created[e]
      BY <1>3, <2>2 DEF TxCommit, Goto, TypeInv, TypeOK
    <3> QED
      BY <3>1 DEF Holding
  <2> QED
    BY <2>1, <2>2
<1>4. ASSUME ~ \E f \in Executors :
                 (\E y \in Years : ExecuteBegin(f, y)) \/ ExecuteStep(f) \/ DbError(f) \/ Crash(f)
      PROVE  UNCHANGED <<pc, localVars>>
  BY <1>4 DEF Next, vars, OverrideStep, OverrideResolve, OverrideReject, OverrideFindCourse,
    OverrideCreateCourse, OverrideCommit, OverrideBegin, OverrideFails, PreviewRead,
    PreviewWrite, PreviewFails, RecalculateRead, RecalculateWrite, RecalculateFails,
    MarkStaleIfCompleted, HeartbeatExpires, Enroll, RemoveCourse
<1> QED
  BY <1>1, <1>2, <1>3, <1>4

LEMMA NextCreated ==
    ASSUME TypeInv, StatisticsInv, [Next]_vars, QuietOverride,
           NEW e \in Executors, NEW ev \in created'[e]
    PROVE  /\ Holding(e)'
           /\ HasResult(promotionResults', ev.student, year'[e])
           /\ EffectiveResult(promotionResults', ev.student, year'[e]).result = ev.result
<1>1. /\ Holding(e) /\ Holding(e)' /\ year'[e] = year[e]
      /\ ev \in created[e] \/ (TxCommit(e) /\ ev = current[e])
  BY CreatedSteps DEF StatisticsInv
<1>2. CASE ev \in created[e]
  <2>1. Settled(year[e])
    BY <1>1, StepSettles DEF QuietOverride
  <2> QED
    BY <1>1, <1>2, <2>1 DEF StatisticsInv, Settled
<1>3. CASE TxCommit(e) /\ ev = current[e]
  <2>1. PICK c \in DestinationOf(e, ev) \cup {Null} :
          /\ Decides(EngineRow(ev, year[e], c))
          /\ EngineRow(ev, year[e], c) \in PromotionResult
    BY <1>3, TxCommitDecides
  <2> DEFINE r == EngineRow(ev, year[e], c)
  <2>2. r.student = ev.student /\ r.fromYear = year[e] /\ r.result = ev.result
    BY DEF EngineRow
  <2>3. ~HasResult(promotionResults, r.student, r.fromYear)
    BY <1>3, <2>2 DEF TxCommit, StatisticsInv
  <2> HIDE DEF r
  <2>4. /\ HasResult(promotionResults', r.student, r.fromYear)
        /\ EffectiveResult(promotionResults', r.student, r.fromYear) = r
    BY <2>1, <2>3, FirstResult DEF r
  <2> QED
    BY <1>1, <2>2, <2>4
<1> QED
  BY <1>1, <1>2, <1>3

LEMMA NextRecalculation ==
    ASSUME TypeInv, StatisticsInv, [Next]_vars, QuietOverride,
           NEW r \in Reporters, recalculation'[r] # Null
    PROVE  Within(recalculation[r].summary, recalculation[r].year)'
<1>1. CASE recalculation'[r] = recalculation[r]
  <2> DEFINE v == recalculation[r]
  <2>1. v \in SummaryRequest /\ v # Null
    BY <1>1 DEF TypeInv, TypeOK
  <2>2. Within(v.summary, v.year) /\ v.summary \in Summary
    BY <2>1 DEF StatisticsInv, SummaryRequest
  <2>3. Settled(v.year)
    BY <2>1, StepSettles DEF QuietOverride
  <2>4. \A o \in DOMAIN v.summary : v.summary[o] \subseteq EffectiveSummary(promotionResults', v.year)[o]
    BY <2>2, <2>3, WithinKept DEF Within
  <2> QED
    BY <1>1, <2>4 DEF Within
<1>2. ASSUME NEW y \in Years, RecalculateRead(r, y)
      PROVE  Within(recalculation[r].summary, recalculation[r].year)'
  <2>1. /\ promotionResults' = promotionResults
        /\ recalculation'[r] = [year |-> y, summary |-> EffectiveSummary(promotionResults, y)]
    BY <1>2 DEF RecalculateRead, tableVars, TypeInv, TypeOK
  <2> QED
    BY <2>1 DEF Within
<1>3. recalculation'[r] = recalculation[r] \/ \E y \in Years : RecalculateRead(r, y)
  <2>1. ASSUME NEW q \in Reporters,
               \/ \E y \in Years : RecalculateRead(q, y)
               \/ RecalculateWrite(q) \/ RecalculateFails(q)
        PROVE  recalculation'[r] = recalculation[r] \/ \E y \in Years : RecalculateRead(r, y)
    BY <2>1 DEF RecalculateRead, RecalculateWrite, RecalculateFails, TypeInv, TypeOK
  <2>2. ASSUME ~ \E q \in Reporters :
                   \/ \E y \in Years : RecalculateRead(q, y)
                   \/ RecalculateWrite(q) \/ RecalculateFails(q)
        PROVE  UNCHANGED recalculation
    BY <2>2, ZenonT(30) DEF Next, vars, requestVars, ExecuteStep, FindStale, ResetStale, Lock, LockRefused, AuditLock,
      Evaluate, FindCourse, MissCourse, CreateCourse, DestinationsReady, TxBegin, TxCommit, TxFail,
      Heartbeat, Finalize, AuditDone, Catch, OverrideStep, OverrideResolve, OverrideReject,
      OverrideFindCourse, OverrideCreateCourse, OverrideCommit, ExecuteBegin, DbError, Crash,
      PreviewRead, PreviewWrite, PreviewFails, OverrideBegin, OverrideFails,
      MarkStaleIfCompleted, HeartbeatExpires, Enroll, RemoveCourse
  <2> QED
    BY <2>1, <2>2
<1> QED
  BY <1>1, <1>2, <1>3

\* Who writes a summary or clears its stale flag.
LEMMA SummarySteps ==
    ASSUME TypeInv, [Next]_vars, NEW y \in Years
    PROVE  \/ /\ promotionSummary'[y] = promotionSummary[y]
              /\ promotionSummaryStale[y] => promotionSummaryStale'[y]
           \/ \E e \in Executors : Finalize(e) /\ year[e] = y
           \/ \E p \in Previewers : PreviewWrite(p) /\ preview[p].year = y
           \/ \E r \in Reporters : RecalculateWrite(r) /\ recalculation[r].year = y
<1> DEFINE Kept == /\ promotionSummary'[y] = promotionSummary[y]
                   /\ promotionSummaryStale[y] => promotionSummaryStale'[y]
<1>1. ASSUME NEW e \in Executors, Finalize(e), year[e] # y PROVE Kept
  BY <1>1 DEF Finalize, TypeInv, TypeOK
<1>2. ASSUME NEW p \in Previewers, PreviewWrite(p), preview[p].year # y PROVE Kept
  BY <1>2 DEF PreviewWrite, TypeInv, TypeOK
<1>3. ASSUME NEW r \in Reporters, RecalculateWrite(r), recalculation[r].year # y PROVE Kept
  BY <1>3 DEF RecalculateWrite, TypeInv, TypeOK
<1>4. ASSUME NEW z \in Years, MarkStaleIfCompleted(z) PROVE Kept
  BY <1>4 DEF MarkStaleIfCompleted, TypeInv, TypeOK
<1>5. ASSUME NEW o \in Overriders, OverrideCommit(o) PROVE Kept
  BY <1>5 DEF OverrideCommit, TypeInv, TypeOK
<1>6. \/ UNCHANGED <<promotionSummary, promotionSummaryStale>>
      \/ \E e \in Executors : Finalize(e)
      \/ \E p \in Previewers : PreviewWrite(p)
      \/ \E r \in Reporters : RecalculateWrite(r)
      \/ \E z \in Years : MarkStaleIfCompleted(z)
      \/ \E o \in Overriders : OverrideCommit(o)
  <2> DEFINE Same == UNCHANGED <<promotionSummary, promotionSummaryStale>>
  <2>1. ASSUME NEW e \in Executors,
               \/ \E z \in Years : ExecuteBegin(e, z)
               \/ ExecuteStep(e) \/ DbError(e) \/ Crash(e)
        PROVE  Finalize(e) \/ Same
    BY <2>1 DEF yearVars, ExecuteStep, FindStale, ResetStale, Lock, LockRefused, AuditLock, Evaluate,
      FindCourse, MissCourse, CreateCourse, DestinationsReady, TxBegin, TxCommit, TxFail,
      Heartbeat, AuditDone, Catch, ExecuteBegin, DbError, Crash
  <2>2. ASSUME NEW o \in Overriders,
               \/ \E s \in Students, z \in Years, res \in Outcome, d \in DtoYears \cup {Null} :
                    OverrideBegin(o, s, z, res, d)
               \/ OverrideStep(o) \/ OverrideFails(o)
        PROVE  OverrideCommit(o) \/ Same
    BY <2>2 DEF yearVars, OverrideStep, OverrideResolve, OverrideReject, OverrideFindCourse,
      OverrideCreateCourse, OverrideBegin, OverrideFails
  <2>3. ASSUME NEW p \in Previewers, NEW z \in Years, PreviewRead(p, z) \/ PreviewFails(p)
        PROVE  Same
    BY <2>3 DEF yearVars, PreviewRead, PreviewFails
  <2>4. ASSUME NEW r \in Reporters, NEW z \in Years, RecalculateRead(r, z) \/ RecalculateFails(r)
        PROVE  Same
    BY <2>4 DEF yearVars, RecalculateRead, RecalculateFails
  <2>5. (\E z \in Years : HeartbeatExpires(z)) \/ (\E cs \in EnrollRequests : Enroll(cs))
          \/ (\E c \in courses : RemoveCourse(c)) \/ UNCHANGED vars => Same
    BY DEF vars, yearVars, HeartbeatExpires, Enroll, RemoveCourse
  <2> QED
    BY <2>1, <2>2, <2>3, <2>4, <2>5 DEF Next
<1> QED
  BY <1>1, <1>2, <1>3, <1>4, <1>5, <1>6

LEMMA NextSummary ==
    ASSUME TypeInv, StatisticsInv, [Next]_vars, NEW y \in Years,
           promotionStatus'[y] = "COMPLETED"
    PROVE  /\ promotionSummary'[y] \in Summary
           /\ ~promotionSummaryStale'[y] => Within(promotionSummary[y], y)'
<1> USE DEF TypeInv, TypeOK
<1>1. ASSUME NEW e \in Executors, Finalize(e), year[e] = y
      PROVE  promotionSummary'[y] \in Summary /\ Within(promotionSummary[y], y)'
  <2>1. /\ promotionSummary'[y] = EvaluationSummary(created[e])
        /\ promotionResults' = promotionResults
    BY <1>1 DEF Finalize, tableVars
  <2>2. EvaluationSummary(created[e]) \in Summary
    BY SummaryType
  <2>3. Within(EvaluationSummary(created[e]), y)
    BY <1>1, EvaluationsWithin DEF StatisticsInv
  <2> QED
    BY <2>1, <2>2, <2>3 DEF Within
<1>2. ASSUME NEW p \in Previewers, PreviewWrite(p), preview[p].year = y PROVE FALSE
  BY <1>2 DEF PreviewWrite
<1>3. ASSUME NEW r \in Reporters, RecalculateWrite(r), recalculation[r].year = y
      PROVE  promotionSummary'[y] \in Summary /\ Within(promotionSummary[y], y)'
  <2>1. /\ promotionSummary'[y] = recalculation[r].summary
        /\ promotionResults' = promotionResults
        /\ recalculation[r] \in SummaryRequest /\ recalculation[r] # Null
    BY <1>3 DEF RecalculateWrite, tableVars
  <2>2. Within(recalculation[r].summary, y)
    BY <1>3, <2>1 DEF StatisticsInv
  <2> QED
    BY <2>1, <2>2 DEF Within, SummaryRequest
<1>4. CASE /\ promotionSummary'[y] = promotionSummary[y]
           /\ promotionSummaryStale[y] => promotionSummaryStale'[y]
           /\ ~ \E e \in Executors : Finalize(e) /\ year[e] = y
  <2>1. promotionStatus[y] = "COMPLETED"
    BY <1>4, CompletedBy
  <2>2. promotionSummary[y] \in Summary
    BY <2>1 DEF StatisticsInv
  <2>3. ASSUME ~promotionSummaryStale'[y] PROVE Within(promotionSummary[y], y)'
    <3>1. Within(promotionSummary[y], y)
      BY <1>4, <2>1, <2>3 DEF StatisticsInv
    <3>2. ASSUME NEW o \in Overriders, OverrideCommit(o), override[o].fromYear = y PROVE FALSE
      BY <2>3, <3>2 DEF OverrideCommit
    <3>3. Settled(y)
      BY <3>2, StepSettles
    <3>4. \A o \in DOMAIN promotionSummary[y] :
            promotionSummary[y][o] \subseteq EffectiveSummary(promotionResults', y)[o]
      BY <2>2, <3>1, <3>3, WithinKept DEF Within
    <3> QED
      BY <1>4, <3>4 DEF Within
  <2> QED
    BY <1>4, <2>2, <2>3
<1> QED
  BY <1>1, <1>2, <1>3, <1>4, SummarySteps

\* Statistics that are not stale claim no outcome that is not the student's effective
\* one, while the lock holds and each override commits when nobody executes or
\* recalculates its year.
THEOREM StatisticsSound ==
    ASSUME LockAssumption
    PROVE  Spec /\ [][QuietOverride]_vars => []SummaryNeverOvercounts
<1>1. Init => StatisticsInv
  BY ConstantsAssumption DEF Init, StatisticsInv
<1>2. ASSUME TypeInv, LockInv, StatisticsInv, [Next]_vars, QuietOverride
      PROVE  StatisticsInv'
  BY <1>2, NextUndecided, NextCreated, NextRecalculation, NextSummary DEF StatisticsInv
<1>3. StatisticsInv /\ UNCHANGED vars => StatisticsInv'
  BY DEF StatisticsInv, Within, Holding, vars, yearVars, tableVars, localVars, requestVars
<1>4. StatisticsInv => SummaryNeverOvercounts
  BY DEF StatisticsInv, SummaryNeverOvercounts, Within
<1> QED
  BY <1>1, <1>2, <1>3, <1>4, TypeInvariant, LockInvariant, PTL DEF Spec

\* In particular while nobody overrides.
COROLLARY StatisticsOfRuns ==
    ASSUME LockAssumption, Overriders = {}
    PROVE  Spec => []SummaryNeverOvercounts
<1>1. QuietOverride
  BY DEF QuietOverride
<1> QED
  BY <1>1, StatisticsSound, PTL
=============================================================================
