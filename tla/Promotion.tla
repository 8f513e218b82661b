----------------------------- MODULE Promotion -----------------------------
(***************************************************************************)
(* The promotion of an institution's students from one school year to the  *)
(* next: PromotionPreviewService, PromotionExecutionService,               *)
(* PromotionOverrideService, PromotionReportingService and the stale flag, *)
(* over the tables they share.  Every request is a process; each `await'   *)
(* of a query that another request can disturb ends a step, and each       *)
(* prisma.$transaction commits in one step (READ COMMITTED: what it read   *)
(* before may have changed).                                               *)
(***************************************************************************)
EXTENDS PromotionData, FiniteSets

CONSTANTS
    ClosedYears,        \* years whose SchoolYear.status is CLOSED
    InitCourses,        \* courses that exist before any promotion
    InitCourseStudents, \* the enrolments before any promotion
    InitAssignments,    \* StudentCourseSubject rows before any promotion
    EnrollRequests,     \* enrolments StudentsService.enroll may be asked for
    DtoYears,           \* values of dto.toSchoolYearId an override may carry
    Executors, Previewers, Overriders, Reporters, \* concurrent requests
    HeartbeatEvery,     \* students between two heartbeats (100 in the code)
    MaxResults,         \* bound: no override starts with this many results
    Faults              \* what may go wrong, a subset of {"crash", "queue", "db",
                        \* "orphan", "stall", "remove"}: see the actions

ASSUME ConstantsAssumption ==
    /\ Null \notin {"PREVIEWED", "EXECUTING", "COMPLETED", "fresh", "old"}
    /\ ClosedYears \subseteq Years
    /\ InitCourses \subseteq Course
    /\ InitCourseStudents \subseteq [student : Students, course : InitCourses]
    /\ InitAssignments \subseteq
         {a \in StudentCourseSubject : a.course \in InitCourses}
    /\ \A p \in Offers : p[1] \in InitCourses
    /\ EnrollRequests \subseteq CourseStudent
    /\ DtoYears \subseteq Years
    /\ HeartbeatEvery \in Nat \ {0}
    /\ MaxResults \in Nat

VARIABLES
    promotionStatus,   \* SchoolYear rows ...
    heartbeat,         \* promotionHeartbeatAt: "fresh", "old" (15 min) or Null
    promotionSummary,
    promotionSummaryStale,
    courses,           \* Course rows
    courseStudents,    \* CourseStudent rows
    assignments,       \* StudentCourseSubject rows
    promotionResults,  \* PromotionResult rows, in the order they were decided
    pc,                \* executors: the next step of execute() ...
    year,              \* ... schoolYearId
    staleYear,         \* ... the stale execution found
    evaluations,       \* ... what the engine decided for each CourseStudent
    todo,              \* ... the evaluations not yet processed
    created,           \* ... those whose transaction committed
    destinations,      \* ... destinationMap, as the set of its courses
    current,           \* ... the target or the evaluation in hand
    preview,           \* preview requests
    override,          \* override requests
    recalculation      \* statistics requests

yearVars    == <<promotionStatus, heartbeat, promotionSummary, promotionSummaryStale>>
tableVars   == <<courses, courseStudents, assignments, promotionResults>>
localVars   == <<year, staleYear, evaluations, todo, created, destinations, current>>
requestVars == <<preview, override, recalculation>>
vars == <<yearVars, tableVars, pc, localVars, requestVars>>

Init ==
    /\ promotionStatus = [y \in Years |-> Null]
    /\ heartbeat = [y \in Years |-> Null]
    /\ promotionSummary = [y \in Years |-> Null]
    /\ promotionSummaryStale = [y \in Years |-> FALSE]
    /\ courses = InitCourses
    /\ courseStudents = InitCourseStudents
    /\ assignments = InitAssignments
    /\ promotionResults = <<>>
    /\ pc = [e \in Executors |-> "idle"]
    /\ year = [e \in Executors |-> Null]
    /\ staleYear = [e \in Executors |-> Null]
    /\ evaluations = [e \in Executors |-> {}]
    /\ todo = [e \in Executors |-> {}]
    /\ created = [e \in Executors |-> {}]
    /\ destinations = [e \in Executors |-> {}]
    /\ current = [e \in Executors |-> Null]
    /\ preview = [p \in Previewers |-> Null]
    /\ override = [o \in Overriders |-> Null]
    /\ recalculation = [r \in Reporters |-> Null]

Goto(e, label) == pc' = [pc EXCEPT ![e] = label]

\* execute() returns or throws: its local variables are gone.
Return(e) ==
    /\ Goto(e, "idle")
    /\ year' = [year EXCEPT ![e] = Null]
    /\ staleYear' = [staleYear EXCEPT ![e] = Null]
    /\ evaluations' = [evaluations EXCEPT ![e] = {}]
    /\ todo' = [todo EXCEPT ![e] = {}]
    /\ created' = [created EXCEPT ![e] = {}]
    /\ destinations' = [destinations EXCEPT ![e] = {}]
    /\ current' = [current EXCEPT ![e] = Null]

\* The rows a run or a preview evaluates, with the engine's verdict on each.
\* Grades, attendance and pending subjects change under it: any verdict.
Roster(y) == {cs \in courseStudents : cs.course.year = y}

EvaluationsOf(y, allPassed) ==
    {[student |-> cs.student, course |-> cs.course,
      result |-> EngineOutcome(cs.course.grade, allPassed[cs])] : cs \in Roster(y)}

-----------------------------------------------------------------------------
(* PromotionPreviewService.preview: only the preview that reads a null      *)
(* status writes, and it writes whatever the status has become.             *)

\* Mutant: a year that has been previewed is previewed again.
PreviewsAgain(p, y) ==
    /\ preview[p] = Null
    /\ y \in ClosedYears
    /\ promotionStatus[y] \in {Null, "PREVIEWED"}
    /\ \E allPassed \in [Roster(y) -> BOOLEAN] :
         preview' = [preview EXCEPT ![p] =
           [year |-> y, summary |-> EvaluationSummary(EvaluationsOf(y, allPassed))]]
    /\ UNCHANGED <<yearVars, tableVars, pc, localVars, override, recalculation>>

PreviewRead(p, y) ==
    /\ preview[p] = Null
    /\ y \in ClosedYears
    /\ promotionStatus[y] = Null
    /\ \E allPassed \in [Roster(y) -> BOOLEAN] :
         preview' = [preview EXCEPT ![p] =
           [year |-> y, summary |-> EvaluationSummary(EvaluationsOf(y, allPassed))]]
    /\ UNCHANGED <<yearVars, tableVars, pc, localVars, override, recalculation>>

PreviewWrite(p) ==
    /\ preview[p] # Null
    /\ LET y == preview[p].year IN
         /\ promotionStatus' = [promotionStatus EXCEPT ![y] = "PREVIEWED"]
         /\ promotionSummary' = [promotionSummary EXCEPT ![y] = preview[p].summary]
         /\ promotionSummaryStale' = [promotionSummaryStale EXCEPT ![y] = FALSE]
    /\ preview' = [preview EXCEPT ![p] = Null]
    /\ UNCHANGED <<heartbeat, tableVars, pc, localVars, override, recalculation>>

-----------------------------------------------------------------------------
(* PromotionExecutionService.execute, before and at the lock. *)

ExecuteBegin(e, y) ==
    /\ pc[e] = "idle"
    /\ y \in ClosedYears
    /\ promotionStatus[y] = "PREVIEWED"
    /\ year' = [year EXCEPT ![e] = y]
    /\ Goto(e, "findStale")
    /\ UNCHANGED <<yearVars, tableVars, staleYear, evaluations, todo, created,
                   destinations, current, requestVars>>

StaleYears == {y \in Years : promotionStatus[y] = "EXECUTING" /\ heartbeat[y] = "old"}

\* handleStaleHeartbeat: findFirst, of any year of the institution.
FindStale(e) ==
    /\ pc[e] = "findStale"
    /\ \/ \E y \in StaleYears : /\ staleYear' = [staleYear EXCEPT ![e] = y]
                                /\ Goto(e, "resetStale")
       \/ /\ StaleYears = {}
          /\ Goto(e, "lock")
          /\ UNCHANGED staleYear
    /\ UNCHANGED <<yearVars, tableVars, year, evaluations, todo, created,
                   destinations, current, requestVars>>

\* handleStaleHeartbeat: update by id, whatever the row has become.
ResetStale(e) ==
    /\ pc[e] = "resetStale"
    /\ promotionStatus' = [promotionStatus EXCEPT ![staleYear[e]] = "PREVIEWED"]
    /\ staleYear' = [staleYear EXCEPT ![e] = Null]
    /\ Goto(e, "lock")
    /\ UNCHANGED <<heartbeat, promotionSummary, promotionSummaryStale, tableVars,
                   year, evaluations, todo, created, destinations, current, requestVars>>

\* The rows the lock's updateMany matches.  Mutant: by id alone.
LocksAnyStatus(y) == TRUE

LockMatches(y) == promotionStatus[y] = "PREVIEWED"

\* updateMany: one caller changes the row.
Lock(e) ==
    /\ pc[e] = "lock"
    /\ LockMatches(year[e])
    /\ promotionStatus' = [promotionStatus EXCEPT ![year[e]] = "EXECUTING"]
    /\ heartbeat' = [heartbeat EXCEPT ![year[e]] = "fresh"]
    /\ Goto(e, "auditLock")
    /\ UNCHANGED <<promotionSummary, promotionSummaryStale, tableVars, localVars, requestVars>>

\* count = 0: 409 CONCURRENT_EXECUTION.
LockRefused(e) ==
    /\ pc[e] = "lock"
    /\ ~LockMatches(year[e])
    /\ Return(e)
    /\ UNCHANGED <<yearVars, tableVars, requestVars>>

\* The audit job of the lock is queued outside the try block: if the queue
\* refuses it, execute() throws and leaves the year EXECUTING.
AuditLock(e) ==
    /\ pc[e] = "auditLock"
    /\ \/ /\ Goto(e, "evaluate")
          /\ UNCHANGED localVars
       \/ /\ "queue" \in Faults
          /\ Return(e)
    /\ UNCHANGED <<yearVars, tableVars, requestVars>>

-----------------------------------------------------------------------------
(* Evaluation and destinations. *)

\* Reads the roster, evaluates and resolves every student; one student that
\* has no destination makes the whole run throw.
Evaluate(e) ==
    /\ pc[e] = "evaluate"
    /\ \E allPassed \in [Roster(year[e]) -> BOOLEAN] :
         LET evs == EvaluationsOf(year[e], allPassed) IN
         IF \A ev \in evs : Resolvable(ev.result, ev.course.grade, year[e])
         THEN /\ evaluations' = [evaluations EXCEPT ![e] = evs]
              /\ todo' = [todo EXCEPT ![e] = evs]
              /\ Goto(e, "destinations")
         ELSE /\ Goto(e, "catch")
              /\ UNCHANGED <<evaluations, todo>>
    /\ UNCHANGED <<yearVars, tableVars, year, staleYear, created, destinations,
                   current, requestVars>>

\* The (year, grade) pairs preResolveDestinations has still to look up.
Unresolved(e) ==
    {t \in UNION {TargetOf(ev, year[e]) : ev \in evaluations[e]} :
        CoursesOf(destinations[e], t.year, t.grade) = {}}

\* findOrCreateCourse: the course of a pair exists ...
FindCourse(e) ==
    /\ pc[e] = "destinations"
    /\ \E t \in Unresolved(e) : \E c \in CoursesOf(courses, t.year, t.grade) :
         destinations' = [destinations EXCEPT ![e] = @ \cup {c}]
    /\ UNCHANGED <<yearVars, tableVars, pc, year, staleYear, evaluations, todo,
                   created, current, requestVars>>

\* ... or does not ...
MissCourse(e) ==
    /\ pc[e] = "destinations"
    /\ \E t \in Unresolved(e) :
         /\ CoursesOf(courses, t.year, t.grade) = {}
         /\ current' = [current EXCEPT ![e] = t]
    /\ Goto(e, "createCourse")
    /\ UNCHANGED <<yearVars, tableVars, year, staleYear, evaluations, todo,
                   created, destinations, requestVars>>

\* ... and is created, whether or not somebody has created it since.
CreateCourse(e) ==
    /\ pc[e] = "createCourse"
    /\ LET t == current[e]
           c == NewCourse(courses, t.year, t.grade)
       IN  /\ FreshNos(courses, t.year, t.grade) # {}
           /\ courses' = courses \cup {c}
           /\ destinations' = [destinations EXCEPT ![e] = @ \cup {c}]
    /\ current' = [current EXCEPT ![e] = Null]
    /\ Goto(e, "destinations")
    /\ UNCHANGED <<yearVars, courseStudents, assignments, promotionResults, year,
                   staleYear, evaluations, todo, created, requestVars>>

DestinationsReady(e) ==
    /\ pc[e] = "destinations"
    /\ Unresolved(e) = {}
    /\ Goto(e, "students")
    /\ UNCHANGED <<yearVars, tableVars, localVars, requestVars>>
-----------------------------------------------------------------------------
(* processStudentTransaction, once per evaluation, in any order. *)

\* Every HeartbeatEvery-th student the run renews its heartbeat.
AfterStudent(e, rest) ==
    IF (Cardinality(evaluations[e]) - Cardinality(rest)) % HeartbeatEvery = 0
    THEN "heartbeat" ELSE "students"

\* The loop over the evaluations goes on with these.  Mutant: it forgets to
\* advance.
Again(e, ev) == todo[e]

Rest(e, ev) == todo[e] \ {ev}

\* The transaction starts and looks for an existing result: one is skipped.
TxBegin(e) ==
    /\ pc[e] = "students"
    /\ \E ev \in todo[e] :
         /\ todo' = [todo EXCEPT ![e] = Rest(e, ev)]
         /\ IF HasResult(promotionResults, ev.student, year[e])
            THEN /\ Goto(e, AfterStudent(e, Rest(e, ev)))
                 /\ UNCHANGED current
            ELSE /\ Goto(e, "commit")
                 /\ current' = [current EXCEPT ![e] = ev]
    /\ UNCHANGED <<yearVars, tableVars, year, staleYear, evaluations, created,
                   destinations, requestVars>>

\* destinationMap.get of the evaluation's year and grade: at most one course.
DestinationOf(e, ev) ==
    UNION {CoursesOf(destinations[e], t.year, t.grade) : t \in TargetOf(ev, year[e])}

EngineRow(ev, y, course) ==
    [student |-> ev.student, fromYear |-> y, toYear |-> ToYear(ev.result, y),
     fromGrade |-> ev.course.grade,
     toGrade |-> EngineToGrade(ev.result, ev.course.grade),
     toCourse |-> course, result |-> ev.result, isOverride |-> FALSE]

\* Mutant: no unique constraint.
CourseExists(s, c) == c \in courses

\* courseStudent.create succeeds: the course is still there (foreign key) and
\* the student is not in it (unique courseId, studentId).
CanEnroll(s, c) == c \in courses /\ [student |-> s, course |-> c] \notin courseStudents

TxCommit(e) ==
    /\ pc[e] = "commit"
    /\ LET ev == current[e] IN
         /\ \/ /\ DestinationOf(e, ev) = {}
               /\ promotionResults' = Append(promotionResults, EngineRow(ev, year[e], Null))
               /\ UNCHANGED <<courseStudents, assignments>>
            \/ \E c \in DestinationOf(e, ev) :
               /\ CanEnroll(ev.student, c)
               /\ courseStudents' = courseStudents \cup {[student |-> ev.student, course |-> c]}
               /\ assignments' = assignments \cup
                    CopiedAssignments(assignments, ev.student, year[e], c)
               /\ promotionResults' = Append(promotionResults, EngineRow(ev, year[e], c))
         /\ created' = [created EXCEPT ![e] = @ \cup {ev}]
    /\ current' = [current EXCEPT ![e] = Null]
    /\ Goto(e, AfterStudent(e, todo[e]))
    /\ UNCHANGED <<yearVars, courses, year, staleYear, evaluations, todo,
                   destinations, requestVars>>

\* The transaction rolls back: a constraint refuses the enrolment, the queue
\* refuses the audit job, or the database fails.  The run counts an error and
\* goes on.
TxFail(e) ==
    /\ pc[e] = "commit"
    /\ \/ \E c \in DestinationOf(e, current[e]) : ~CanEnroll(current[e].student, c)
       \/ Faults \cap {"queue", "db"} # {}
    /\ current' = [current EXCEPT ![e] = Null]
    /\ Goto(e, AfterStudent(e, todo[e]))
    /\ UNCHANGED <<yearVars, tableVars, year, staleYear, evaluations, todo,
                   created, destinations, requestVars>>

\* By id: a run that has lost its lock renews the heartbeat of its successor.
Heartbeat(e) ==
    /\ pc[e] = "heartbeat"
    /\ heartbeat' = [heartbeat EXCEPT ![year[e]] = "fresh"]
    /\ Goto(e, "students")
    /\ UNCHANGED <<promotionStatus, promotionSummary, promotionSummaryStale,
                   tableVars, localVars, requestVars>>

-----------------------------------------------------------------------------
(* The end of a run.  Both updates are by id: they do not ask whether this  *)
(* run still holds the lock.                                                *)

\* The loop has processed every evaluation.  Mutant: it breaks off early.
BreaksOff(e) == TRUE

LoopDone(e) == todo[e] = {}

Finalize(e) ==
    /\ pc[e] = "students"
    /\ LoopDone(e)
    /\ promotionStatus' = [promotionStatus EXCEPT ![year[e]] = "COMPLETED"]
    /\ promotionSummary' = [promotionSummary EXCEPT ![year[e]] = EvaluationSummary(created[e])]
    /\ promotionSummaryStale' = [promotionSummaryStale EXCEPT ![year[e]] = FALSE]
    /\ Goto(e, "auditDone")
    /\ UNCHANGED <<heartbeat, tableVars, localVars, requestVars>>

\* The audit job of the completion is queued inside the try block.
AuditDone(e) ==
    /\ pc[e] = "auditDone"
    /\ \/ Return(e)
       \/ /\ "queue" \in Faults
          /\ Goto(e, "catch")
          /\ UNCHANGED localVars
    /\ UNCHANGED <<yearVars, tableVars, requestVars>>

Catch(e) ==
    /\ pc[e] = "catch"
    /\ \/ promotionStatus' = [promotionStatus EXCEPT ![year[e]] = "PREVIEWED"]
       \/ "db" \in Faults /\ UNCHANGED promotionStatus
    /\ Return(e)
    /\ UNCHANGED <<heartbeat, promotionSummary, promotionSummaryStale, tableVars, requestVars>>

\* A query inside the try block fails.
DbError(e) ==
    /\ "db" \in Faults
    /\ \/ pc[e] \in {"evaluate", "destinations", "createCourse", "heartbeat"}
       \/ pc[e] = "students" /\ todo[e] = {}
    /\ Goto(e, "catch")
    /\ UNCHANGED <<yearVars, tableVars, localVars, requestVars>>

\* The backend stops with the request in flight.
Crash(e) ==
    /\ "crash" \in Faults
    /\ pc[e] # "idle"
    /\ Return(e)
    /\ UNCHANGED <<yearVars, tableVars, requestVars>>

-----------------------------------------------------------------------------
(* PromotionOverrideService.createOverride.  A request is a record whose     *)
(* `stage' is its next step.                                                 *)

\* The year is not EXECUTING when the request looks; MaxResults is a bound.
OverrideBegin(o, s, y, res, dtoYear) ==
    /\ override[o] = Null
    /\ Len(promotionResults) < MaxResults
    /\ promotionStatus[y] # "EXECUTING"
    /\ override' = [override EXCEPT ![o] =
         [stage |-> "resolve", student |-> s, fromYear |-> y, result |-> res,
          toYear |-> dtoYear, fromGrade |-> Null, toGrade |-> Null, course |-> Null]]
    /\ UNCHANGED <<yearVars, tableVars, pc, localVars, preview, recalculation>>

AlreadyGraduated(s, y) ==
    /\ HasResult(promotionResults, s, y)
    /\ EffectiveResult(promotionResults, s, y).result = "GRADUATED"

\* The grade of the latest engine row or else of an enrolment in the year.
OverrideFromGrades(s, y) ==
    IF EngineResultsOf(promotionResults, s, y) # {}
    THEN {PriorResult(promotionResults, s, y).fromGrade}
    ELSE {cs.course.grade : cs \in {r \in Roster(y) : r.student = s}}

OverrideResolve(o) ==
    /\ override[o] # Null
    /\ override[o].stage = "resolve"
    /\ LET v == override[o] IN
       \E g \in OverrideFromGrades(v.student, v.fromYear) :
         /\ ~(v.result = "GRADUATED" /\ AlreadyGraduated(v.student, v.fromYear))
         /\ Resolvable(v.result, g, v.fromYear)
         /\ LET toGrade == EngineToGrade(v.result, g)
                toYear  == IF v.toYear # Null THEN v.toYear ELSE ToYear(v.result, v.fromYear)
            IN  override' = [override EXCEPT ![o] =
                  [v EXCEPT !.fromGrade = g, !.toGrade = toGrade, !.toYear = toYear,
                            !.stage = IF v.result # "GRADUATED" /\ toGrade # Null
                                      THEN "course" ELSE "commit"]]
    /\ UNCHANGED <<yearVars, tableVars, pc, localVars, preview, recalculation>>

\* STUDENT_ALREADY_GRADUATED, STUDENT_NOT_ENROLLED_IN_YEAR or no destination.
OverrideReject(o) ==
    /\ override[o] # Null
    /\ override[o].stage = "resolve"
    /\ LET v == override[o] IN
         \/ v.result = "GRADUATED" /\ AlreadyGraduated(v.student, v.fromYear)
         \/ OverrideFromGrades(v.student, v.fromYear) = {}
         \/ \E g \in OverrideFromGrades(v.student, v.fromYear) :
               ~Resolvable(v.result, g, v.fromYear)
    /\ override' = [override EXCEPT ![o] = Null]
    /\ UNCHANGED <<yearVars, tableVars, pc, localVars, preview, recalculation>>

\* findOrCreateCourse, outside the transaction.
OverrideFindCourse(o) ==
    /\ override[o] # Null
    /\ override[o].stage = "course"
    /\ LET v == override[o]
           existing == CoursesOf(courses, v.toYear, v.toGrade)
       IN  override' \in
             IF existing = {}
             THEN {[override EXCEPT ![o].stage = "create"]}
             ELSE {[override EXCEPT ![o] = [v EXCEPT !.stage = "commit", !.course = c]] :
                     c \in existing}
    /\ UNCHANGED <<yearVars, tableVars, pc, localVars, preview, recalculation>>

OverrideCreateCourse(o) ==
    /\ override[o] # Null
    /\ override[o].stage = "create"
    /\ LET v == override[o]
           c == NewCourse(courses, v.toYear, v.toGrade)
       IN  /\ FreshNos(courses, v.toYear, v.toGrade) # {}
           /\ courses' = courses \cup {c}
           /\ override' = [override EXCEPT ![o] = [v EXCEPT !.stage = "commit", !.course = c]]
    /\ UNCHANGED <<yearVars, courseStudents, assignments, promotionResults, pc,
                   localVars, preview, recalculation>>

\* Mutant: forgets toCourseStudentId.
OverrideRowWithoutCourse(v) ==
    [student |-> v.student, fromYear |-> v.fromYear, toYear |-> v.toYear,
     fromGrade |-> v.fromGrade, toGrade |-> v.toGrade, toCourse |-> Null,
     result |-> v.result, isOverride |-> TRUE]

OverrideRow(v) ==
    [student |-> v.student, fromYear |-> v.fromYear, toYear |-> v.toYear,
     fromGrade |-> v.fromGrade, toGrade |-> v.toGrade, toCourse |-> v.course,
     result |-> v.result, isOverride |-> TRUE]

\* The transaction: enrolment, result and stale flag.  The status of the year
\* is not read again.
OverrideCommit(o) ==
    /\ override[o] # Null
    /\ override[o].stage = "commit"
    /\ LET v == override[o] IN
         /\ \/ v.course = Null /\ UNCHANGED courseStudents
            \/ /\ v.course \in courses
               /\ courseStudents' = courseStudents \cup
                    {[student |-> v.student, course |-> v.course]}
         /\ promotionResults' = Append(promotionResults, OverrideRow(v))
         /\ promotionSummaryStale' = [promotionSummaryStale EXCEPT ![v.fromYear] = TRUE]
    /\ override' = [override EXCEPT ![o] = Null]
    /\ UNCHANGED <<promotionStatus, heartbeat, promotionSummary, courses, assignments,
                   pc, localVars, preview, recalculation>>

-----------------------------------------------------------------------------
(* PromotionReportingService.getStatistics on a stale summary, and           *)
(* PromotionStaleHelper.                                                     *)

RecalculateRead(r, y) ==
    /\ recalculation[r] = Null
    /\ promotionSummary[y] # Null
    /\ promotionSummaryStale[y]
    /\ recalculation' = [recalculation EXCEPT ![r] =
         [year |-> y, summary |-> EffectiveSummary(promotionResults, y)]]
    /\ UNCHANGED <<yearVars, tableVars, pc, localVars, preview, override>>

RecalculateWrite(r) ==
    /\ recalculation[r] # Null
    /\ LET v == recalculation[r] IN
         /\ promotionSummary' = [promotionSummary EXCEPT ![v.year] = v.summary]
         /\ promotionSummaryStale' = [promotionSummaryStale EXCEPT ![v.year] = FALSE]
    /\ recalculation' = [recalculation EXCEPT ![r] = Null]
    /\ UNCHANGED <<promotionStatus, heartbeat, tableVars, pc, localVars, preview, override>>

\* markStaleIfCompleted, after a grade, an attendance or a pending subject of
\* the year has changed.
MarkStaleIfCompleted(y) ==
    /\ promotionStatus[y] = "COMPLETED"
    /\ promotionSummaryStale' = [promotionSummaryStale EXCEPT ![y] = TRUE]
    /\ UNCHANGED <<promotionStatus, heartbeat, promotionSummary, tableVars, pc,
                   localVars, requestVars>>

\* A request dies with the backend or with a failed query.
Dies == Faults \cap {"crash", "db"} # {}

PreviewFails(p) ==
    /\ preview[p] # Null
    /\ Dies
    /\ preview' = [preview EXCEPT ![p] = Null]
    /\ UNCHANGED <<yearVars, tableVars, pc, localVars, override, recalculation>>

\* An override also fails when its course has been removed (foreign key).
OverrideFails(o) ==
    /\ override[o] # Null
    /\ Dies \/ override[o].course \notin courses \cup {Null}
    /\ override' = [override EXCEPT ![o] = Null]
    /\ UNCHANGED <<yearVars, tableVars, pc, localVars, preview, recalculation>>

RecalculateFails(r) ==
    /\ recalculation[r] # Null
    /\ Dies
    /\ recalculation' = [recalculation EXCEPT ![r] = Null]
    /\ UNCHANGED <<yearVars, tableVars, pc, localVars, preview, override>>

-----------------------------------------------------------------------------
(* What the rest of the system does to these tables, and time.               *)

\* StudentsService.enroll.
Enroll(cs) ==
    /\ cs \in EnrollRequests
    /\ CanEnroll(cs.student, cs.course)
    /\ courseStudents' = courseStudents \cup {cs}
    /\ UNCHANGED <<yearVars, courses, assignments, promotionResults, pc, localVars, requestVars>>

\* CoursesService.remove: foreign keys protect a course with students or subjects.
RemoveCourse(c) ==
    /\ "remove" \in Faults
    /\ c \in courses
    /\ \A cs \in courseStudents : cs.course # c
    /\ \A p \in Offers : p[1] # c
    /\ courses' = courses \ {c}
    /\ UNCHANGED <<yearVars, courseStudents, assignments, promotionResults, pc,
                   localVars, requestVars>>

\* The steps of a run that acts as the owner of its year.
Holding(e) ==
    pc[e] \in {"auditLock", "evaluate", "destinations", "createCourse", "students",
               "commit", "heartbeat", "auditDone", "catch"}

\* Fifteen minutes pass without a heartbeat: "orphan", nobody is executing the
\* year; "stall", somebody is, but has not reached the next heartbeat.
HeartbeatExpires(y) ==
    /\ heartbeat[y] = "fresh"
    /\ IF \E e \in Executors : Holding(e) /\ year[e] = y
       THEN "stall" \in Faults
       ELSE "orphan" \in Faults
    /\ heartbeat' = [heartbeat EXCEPT ![y] = "old"]
    /\ UNCHANGED <<promotionStatus, promotionSummary, promotionSummaryStale,
                   tableVars, pc, localVars, requestVars>>

-----------------------------------------------------------------------------
\* One step of a request that has begun.
ExecuteStep(e) ==
    \/ FindStale(e) \/ ResetStale(e) \/ Lock(e) \/ LockRefused(e) \/ AuditLock(e)
    \/ Evaluate(e) \/ FindCourse(e) \/ MissCourse(e) \/ CreateCourse(e)
    \/ DestinationsReady(e) \/ TxBegin(e) \/ TxCommit(e) \/ TxFail(e)
    \/ Heartbeat(e) \/ Finalize(e) \/ AuditDone(e) \/ Catch(e)

OverrideStep(o) ==
    \/ OverrideResolve(o) \/ OverrideReject(o) \/ OverrideFindCourse(o)
    \/ OverrideCreateCourse(o) \/ OverrideCommit(o)

Next ==
    \/ \E e \in Executors :
         \/ \E y \in Years : ExecuteBegin(e, y)
         \/ ExecuteStep(e) \/ DbError(e) \/ Crash(e)
    \/ \E p \in Previewers :
         \/ \E y \in Years : PreviewRead(p, y)
         \/ PreviewWrite(p) \/ PreviewFails(p)
    \/ \E o \in Overriders :
         \/ \E s \in Students, y \in Years, res \in Outcome, d \in DtoYears \cup {Null} :
              OverrideBegin(o, s, y, res, d)
         \/ OverrideStep(o) \/ OverrideFails(o)
    \/ \E r \in Reporters :
         \/ \E y \in Years : RecalculateRead(r, y)
         \/ RecalculateWrite(r) \/ RecalculateFails(r)
    \/ \E y \in Years : MarkStaleIfCompleted(y) \/ HeartbeatExpires(y)
    \/ \E cs \in EnrollRequests : Enroll(cs)
    \/ \E c \in courses : RemoveCourse(c)

Spec == Init /\ [][Next]_vars

\* The server runs every request it has accepted to its end.
FairSpec == Spec /\ \A e \in Executors : WF_vars(ExecuteStep(e))

-----------------------------------------------------------------------------
(* Properties. *)

Status == {Null, "PREVIEWED", "EXECUTING", "COMPLETED"}

Label == {"idle", "findStale", "resetStale", "lock", "auditLock", "evaluate",
          "destinations", "createCourse", "students", "commit", "heartbeat",
          "auditDone", "catch"}

Target == [year : Years, grade : Grades]

SummaryRequest == [year : Years, summary : Summary]

OverrideRequest ==
    [stage : {"resolve", "course", "create", "commit"},
     student : Students, fromYear : Years, result : Outcome,
     toYear : Years \cup {Null}, fromGrade : Grades \cup {Null},
     toGrade : Grades \cup {Null}, course : Course \cup {Null}]

\* Every table holds rows of its type and every request is in a legal place.
TypeOK ==
    /\ promotionStatus \in [Years -> Status]
    /\ heartbeat \in [Years -> {Null, "fresh", "old"}]
    /\ promotionSummary \in [Years -> Summary \cup {Null}]
    /\ promotionSummaryStale \in [Years -> BOOLEAN]
    /\ courses \subseteq Course
    /\ courseStudents \subseteq CourseStudent
    /\ assignments \subseteq StudentCourseSubject
    /\ promotionResults \in Seq(PromotionResult)
    /\ pc \in [Executors -> Label]
    /\ year \in [Executors -> Years \cup {Null}]
    /\ staleYear \in [Executors -> Years \cup {Null}]
    /\ evaluations \in [Executors -> SUBSET Evaluation]
    /\ todo \in [Executors -> SUBSET Evaluation]
    /\ created \in [Executors -> SUBSET Evaluation]
    /\ destinations \in [Executors -> SUBSET Course]
    /\ current \in [Executors -> Target \cup Evaluation \cup {Null}]
    /\ preview \in [Previewers -> SummaryRequest \cup {Null}]
    /\ override \in [Overriders -> OverrideRequest \cup {Null}]
    /\ recalculation \in [Reporters -> SummaryRequest \cup {Null}]

\* I13 of the design: at most one run acts as the owner of a school year
\* between its lock (updateMany where PREVIEWED) and its return.
NoConcurrentExecution ==
    \A e, f \in Executors :
        Holding(e) /\ Holding(f) /\ year[e] = year[f] => e = f

Rows == DOMAIN promotionResults

\* Idempotency of execute: however runs crash, fail and are repeated, the
\* engine decides a student of a school year at most once.
OneEngineResult ==
    \A i, j \in Rows :
        LET r == promotionResults[i]
            t == promotionResults[j]
        IN  ~r.isOverride /\ ~t.isOverride
              /\ r.student = t.student /\ r.fromYear = t.fromYear => i = j

\* I7: a result that names a destination has its CourseStudent row, and the
\* course is of the year and the grade the result says: the enrolment and the
\* result commit together or not at all, and no later step separates them.
ResultsTraced ==
    \A i \in Rows :
        LET r == promotionResults[i] IN
        r.toCourse # Null =>
            /\ r.toCourse \in courses
            /\ [student |-> r.student, course |-> r.toCourse] \in courseStudents
            /\ r.toCourse.year = r.toYear
            /\ r.toCourse.grade = r.toGrade

\* The other way round: nobody is in a course without a reason, that is from
\* the start, by an enrolment request, or by a result that says so.
EnrolmentsJustified ==
    \A cs \in courseStudents :
        \/ cs \in InitCourseStudents \cup EnrollRequests
        \/ \E i \in Rows : /\ promotionResults[i].student = cs.student
                           /\ promotionResults[i].toCourse = cs.course

\* I8, I9 and the reason of preResolveDestinations: a promoted student changes
\* grade, a retained one does not, and who has a grade to go to has a place.
DestinationsAgree ==
    \A i \in Rows :
        LET r == promotionResults[i] IN
        /\ r.result = "RETAINED" => r.toGrade = r.fromGrade
        /\ r.result = "PROMOTED" => r.toGrade \notin {Null, r.fromGrade}
        /\ r.result = "GRADUATED" => r.toGrade = Null
        /\ r.toGrade # Null => r.toCourse # Null

\* Even two runs at once (a taken-over lock) never enrol a student twice in a
\* course or claim one enrolment in two engine results.
EngineEnrolsOnce ==
    \A i, j \in Rows :
        LET r == promotionResults[i]
            t == promotionResults[j]
        IN  ~r.isOverride /\ ~t.isOverride /\ r.toCourse # Null
              /\ r.student = t.student /\ r.toCourse = t.toCourse => i = j

\* Subjects are copied only to a student who is in the course, and only
\* subjects that the course offers.
AssignmentsFollowEnrolment ==
    \A a \in assignments \ InitAssignments :
        /\ [student |-> a.student, course |-> a.course] \in courseStudents
        /\ <<a.course, a.subject>> \in Offers

\* A completed year has decided every student enrolled in it from the start,
\* whatever crashed on the way.
NoStudentForgotten ==
    \A y \in Years : promotionStatus[y] = "COMPLETED" =>
        \A cs \in InitCourseStudents :
            cs.course.year = y => HasResult(promotionResults, cs.student, y)

\* Statistics that are not marked stale never claim an outcome that is not the
\* student's effective one.  (They may miss students: a run counts only the
\* results it created, and a run after a crash skips the others.)
SummaryNeverOvercounts ==
    \A y \in Years :
        promotionStatus[y] = "COMPLETED" /\ ~promotionSummaryStale[y] =>
            \A o \in DOMAIN promotionSummary[y] :
                promotionSummary[y][o] \subseteq EffectiveSummary(promotionResults, y)[o]

\* Every execute() request is answered.
ExecuteTerminates == \A e \in Executors : pc[e] # "idle" ~> pc[e] = "idle"

\* The promise of PromotionLifecycle: the status of a year follows the table
\* of the design's section 6.4, COMPLETED is terminal, and the engine decides
\* only under EXECUTING.
Decided ==
    [y \in Years |->
        {s \in Students : EngineResultsOf(promotionResults, s, y) # {}}]

Lifecycle == INSTANCE PromotionLifecycle WITH status <- promotionStatus, decided <- Decided

LifecycleKept == Lifecycle!Spec
=============================================================================
