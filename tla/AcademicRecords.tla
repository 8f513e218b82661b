--------------------------- MODULE AcademicRecords ---------------------------
(***************************************************************************)
(* Grades, closing grades and pending subjects of one school year, and what *)
(* a change of them tells the promotion: GradesService, ClosingGradesService,*)
(* TeacherService, PendingSubjectsService and PromotionStaleHelper.  Every  *)
(* service checks with one query and writes with another, so a period may be *)
(* closed, a row deleted or the settings changed between the two.           *)
(***************************************************************************)
EXTENDS Integers

CONSTANTS
    Requests,   \* the slots for requests in flight
    Faulty,     \* requests that may stop, or whose queue may fail, after their write
    Slots,      \* a student, a subject of its course and a period of the year
    Rows,       \* ids of the grades of a slot
    Scores,     \* what a grade says: score, type, date and description
    LastPeriod, \* PERIOD_ORDER is 1 .. LastPeriod (5 in the code)
    Configs,    \* the intensification settings the institution may choose
    Statuses,   \* ENROLLED, COMPLETED, NOT_COMPLETED
    Results,    \* AA, CCA, CSA
    Null

Periods == 1 .. LastPeriod

\* settings.pendingSubjects; no settings are disabled ones.
IntensificationConfig == [enabled : BOOLEAN, active : Periods, previous : BOOLEAN]

\* A closing grade: its closingScore is below 7 or not.
Closing == [isClosed : BOOLEAN, fails : BOOLEAN]

Progress == [Periods -> Results \cup {Null}]

Pending == [status : Statuses, results : Progress]

ASSUME RecordsAssumption ==
    /\ Faulty \subseteq Requests
    /\ LastPeriod \in Nat \ {0}
    /\ Configs \subseteq IntensificationConfig
    /\ "ENROLLED" \in Statuses
    /\ Null \notin Slots \cup Rows \cup Scores \cup Results \cup Closing \cup Pending

\* The intensification periods of an UpdatePendingProgressDto: a value for
\* some of them.
UpdatePendingProgressDto == UNION {[D -> Results \cup {Null}] : D \in SUBSET Periods}

Locations == {"idle", "createGrade", "updateGrade", "removeGrade", "reopen",
              "checkClosing", "createPending", "updateStatus", "deletePending",
              "validate", "updateProgress", "queue", "mark", "gone"}

Request == [pc : Locations, slot : Slots \cup {Null}, row : Rows \cup {Null},
            seen : Configs \cup {Null}, dto : UpdatePendingProgressDto]

NoDto == [p \in {} |-> Null]

Idle == [pc |-> "idle", slot |-> Null, row |-> Null, seen |-> Null, dto |-> NoDto]

VARIABLES
    grades,          \* the grades of a slot, by id
    closingGrade,    \* of a slot (unique), or Null
    pending,         \* the pending subject of the closing grade of a slot (unique), or Null
    config,          \* the intensification settings of the institution
    promotionStatus, \* of the school year: "COMPLETED", or "OTHER"
    promotionSummaryStale,
    req,             \* the requests in flight
    overtaken,       \* those that act on a check that is no longer true
    untold,          \* those outside Faulty that changed a record of a completed
                     \* promotion since the year or promotionSummaryStale was last reset
    reached          \* the latest period that has been active

dataVars  == <<grades, closingGrade, pending, config>>
yearVars  == <<promotionStatus, promotionSummaryStale>>
ghostVars == <<overtaken, untold, reached>>
vars      == <<dataVars, yearVars, req, ghostVars>>

Init ==
    /\ grades = [s \in Slots |-> [g \in Rows |-> Null]]
    /\ closingGrade = [s \in Slots |-> Null]
    /\ pending = [s \in Slots |-> Null]
    /\ config \in Configs
    /\ promotionStatus = "OTHER"
    /\ promotionSummaryStale = FALSE
    /\ req = [r \in Requests |-> Idle]
    /\ overtaken = {}
    /\ untold = {}
    /\ reached = config.active

-----------------------------------------------------------------------------
(* Conditions of the code *)

isPeriodClosed(s) == closingGrade[s] # Null /\ closingGrade[s].isClosed

\* What createPendingSubject asks of the closing grade.
Failed(s) == isPeriodClosed(s) /\ closingGrade[s].fails

\* validatePeriodEdition, for a period that would change.
Editable(c, p) == c.enabled /\ (p = c.active \/ (c.previous /\ p < c.active))

\* Mutant: clearing a result is no change.
ModifiedValues(dto, results) == {p \in DOMAIN dto : dto[p] \notin {Null, results[p]}}

\* getModifiedPeriods.
Modified(dto, results) == {p \in DOMAIN dto : dto[p] # results[p]}

(* Steps of a request *)

At(r, pc) == req[r].pc = pc

Becomes(r, q) == req' = [req EXCEPT ![r] = q]

Begin(r, q) == At(r, "idle") /\ Becomes(r, q)

Goto(r, pc) == Becomes(r, [req[r] EXCEPT !.pc = pc])

\* The request has changed a record.
Changed(r) ==
    untold' = IF promotionStatus = "COMPLETED" THEN untold \cup ({r} \ Faulty) ELSE untold

\* The write is done: what is left of the request needs none of what it read.
After(pc) == [Idle EXCEPT !.pc = pc]

Done(r, pc) == Becomes(r, After(pc)) /\ overtaken' = overtaken \ {r}

\* The write deletes a row that others have read: their updates will not find it.
DoneAlone(r, others) ==
    /\ req' = [q \in Requests |-> IF q = r THEN After("mark")
                                   ELSE IF q \in others THEN After("gone")
                                   ELSE req[q]]
    /\ overtaken' = overtaken \ {r}

-----------------------------------------------------------------------------
(* GradesService *)

\* Mutant: no check of a closed period.
CreateGradeAnyway(r, s) ==
    /\ Begin(r, [Idle EXCEPT !.pc = "createGrade", !.slot = s])
    /\ UNCHANGED <<dataVars, yearVars, ghostVars>>

\* create: the checks up to isPeriodClosed.
CreateGradeCheck(r, s) ==
    /\ Begin(r, [Idle EXCEPT !.pc = "createGrade", !.slot = s])
    /\ ~ isPeriodClosed(s)
    /\ UNCHANGED <<dataVars, yearVars, ghostVars>>

\* update and remove: the grade is read, then the period is checked.
GradeCheck(r, s, g, pc) ==
    /\ pc \in {"updateGrade", "removeGrade"}
    /\ grades[s][g] # Null
    /\ ~ isPeriodClosed(s)
    /\ Begin(r, [Idle EXCEPT !.pc = pc, !.slot = s, !.row = g])
    /\ UNCHANGED <<dataVars, yearVars, ghostVars>>

\* create: the upsert finds a grade of the same type and date, or makes one;
\* the queues come after the mark.
CreateGrade(r) ==
    /\ At(r, "createGrade")
    /\ \E g \in Rows, v \in Scores :
           grades' = [grades EXCEPT ![req[r].slot][g] = v]
    /\ Changed(r)
    /\ Done(r, "mark")
    /\ UNCHANGED <<closingGrade, pending, config, yearVars, reached>>

\* update: the queues come before the mark.
UpdateGrade(r) ==
    /\ At(r, "updateGrade")
    /\ \E v \in Scores :
           grades' = [grades EXCEPT ![req[r].slot][req[r].row] = v]
    /\ Changed(r)
    /\ Done(r, "queue")
    /\ UNCHANGED <<closingGrade, pending, config, yearVars, reached>>

\* The requests that have read this grade and will write it by its id.
HoldersOfGrade(s, g) ==
    {q \in Requests : /\ req[q].pc \in {"updateGrade", "removeGrade"}
                      /\ req[q].slot = s
                      /\ req[q].row = g}

RemoveGrade(r) ==
    /\ At(r, "removeGrade")
    /\ grades' = [grades EXCEPT ![req[r].slot][req[r].row] = Null]
    /\ Changed(r)
    /\ DoneAlone(r, HoldersOfGrade(req[r].slot, req[r].row))
    /\ UNCHANGED <<closingGrade, pending, config, yearVars, reached>>

\* update: both queues have answered.
GradeQueued(r) ==
    /\ At(r, "queue")
    /\ Goto(r, "mark")
    /\ UNCHANGED <<dataVars, yearVars, ghostVars>>

-----------------------------------------------------------------------------
(* ClosingGradesService *)

\* The requests that have checked the closing grade of s.
Checkers(s) ==
    {q \in Requests : /\ req[q].pc \in {"createGrade", "updateGrade", "removeGrade",
                                        "createPending"}
                      /\ req[q].slot = s}

\* close: an upsert that whoever may close does at any time.
Close(r, s) ==
    /\ Begin(r, After("mark"))
    /\ \E fails \in BOOLEAN :
           closingGrade' = [closingGrade EXCEPT ![s] = [isClosed |-> TRUE, fails |-> fails]]
    /\ Changed(r)
    /\ overtaken' = overtaken \cup Checkers(s)
    /\ UNCHANGED <<grades, pending, config, yearVars, reached>>

ReopenCheck(r, s) ==
    /\ isPeriodClosed(s)
    /\ Begin(r, [Idle EXCEPT !.pc = "reopen", !.slot = s])
    /\ UNCHANGED <<dataVars, yearVars, ghostVars>>

\* Mutant: reopen does not mark the promotion.
ReopenSilently(r) ==
    /\ At(r, "reopen")
    /\ closingGrade' = [closingGrade EXCEPT ![req[r].slot].isClosed = FALSE]
    /\ Changed(r)
    /\ Becomes(r, Idle)
    /\ overtaken' = overtaken \cup Checkers(req[r].slot)
    /\ UNCHANGED <<grades, pending, config, yearVars, reached>>

\* reopen: the score stays.
Reopen(r) ==
    /\ At(r, "reopen")
    /\ closingGrade' = [closingGrade EXCEPT ![req[r].slot].isClosed = FALSE]
    /\ Changed(r)
    /\ Becomes(r, After("mark"))
    /\ overtaken' = overtaken \cup Checkers(req[r].slot)
    /\ UNCHANGED <<grades, pending, config, yearVars, reached>>

-----------------------------------------------------------------------------
(* TeacherService: pending subjects.  Their audit queue may fail: the error   *)
(* is caught and the mark follows.                                            *)

\* validateEnabled opens create, update of the status and delete.
PendingBegin(r, s, pc) ==
    /\ pc \in {"checkClosing", "updateStatus", "deletePending"}
    /\ config.enabled
    /\ Begin(r, [Idle EXCEPT !.pc = pc, !.slot = s])
    /\ UNCHANGED <<dataVars, yearVars, ghostVars>>

\* Mutant: the score is not looked at.
CheckClosed(r) ==
    /\ At(r, "checkClosing")
    /\ isPeriodClosed(req[r].slot)
    /\ Goto(r, "createPending")
    /\ UNCHANGED <<dataVars, yearVars, ghostVars>>

\* createPendingSubject reads the closing grade ...
CheckClosing(r) ==
    /\ At(r, "checkClosing")
    /\ Failed(req[r].slot)
    /\ Goto(r, "createPending")
    /\ UNCHANGED <<dataVars, yearVars, ghostVars>>

NewPending == [status |-> "ENROLLED", results |-> [p \in Periods |-> Null]]

\* ... finds no pending subject and makes one; the unique closingGradeId stops a
\* second one made in between.
CreatePending(r) ==
    /\ At(r, "createPending")
    /\ pending[req[r].slot] = Null
    /\ pending' = [pending EXCEPT ![req[r].slot] = NewPending]
    /\ Changed(r)
    /\ Done(r, "mark")
    /\ UNCHANGED <<grades, closingGrade, config, yearVars, reached>>

\* Any status may follow any other.
UpdatePendingStatus(r) ==
    /\ At(r, "updateStatus")
    /\ pending[req[r].slot] # Null
    /\ \E status \in Statuses :
           pending' = [pending EXCEPT ![req[r].slot].status = status]
    /\ Changed(r)
    /\ Done(r, "mark")
    /\ UNCHANGED <<grades, closingGrade, config, yearVars, reached>>

\* The requests that have read the pending subject of s and will write it by its id.
HoldersOfPending(s) == {q \in Requests : At(q, "updateProgress") /\ req[q].slot = s}

DeletePending(r) ==
    /\ At(r, "deletePending")
    /\ pending[req[r].slot] # Null
    /\ pending' = [pending EXCEPT ![req[r].slot] = Null]
    /\ Changed(r)
    /\ DoneAlone(r, HoldersOfPending(req[r].slot))
    /\ UNCHANGED <<grades, closingGrade, config, yearVars, reached>>

\* validatePeriodEdition reads the settings ...
ReadConfig(r, s) ==
    /\ config.enabled
    /\ Begin(r, [Idle EXCEPT !.pc = "validate", !.slot = s, !.seen = config])
    /\ UNCHANGED <<dataVars, yearVars, ghostVars>>

\* Mutant: a period after the active one is as good as one before it.
ValidBothWays(c, dto, results) ==
    \A p \in Modified(dto, results) : c.enabled /\ (p = c.active \/ c.previous)

Valid(c, dto, results) == \A p \in Modified(dto, results) : Editable(c, p)

\* ... then the pending subject, and compares.
ValidatePeriodEdition(r) ==
    /\ At(r, "validate")
    /\ pending[req[r].slot] # Null
    /\ \E dto \in UpdatePendingProgressDto :
         /\ Valid(req[r].seen, dto, pending[req[r].slot].results)
         /\ Becomes(r, [req[r] EXCEPT !.pc = "updateProgress", !.seen = Null,
                                 !.dto = dto])
    /\ UNCHANGED <<dataVars, yearVars, ghostVars>>

\* Mutant: the row becomes the dto.
Replace(results, dto) == dto

Merge(results, dto) == [p \in Periods |-> IF p \in DOMAIN dto THEN dto[p] ELSE results[p]]

\* The update writes every field of the dto, those found unmodified too: one
\* written late makes those who compared with the old row late as well.
UpdatePendingProgress(r) ==
    /\ At(r, "updateProgress")
    /\ pending' = [pending EXCEPT ![req[r].slot].results = Merge(@, req[r].dto)]
    /\ Changed(r)
    /\ Becomes(r, After("mark"))
    /\ overtaken' = (IF r \in overtaken THEN overtaken \cup HoldersOfPending(req[r].slot)
                                        ELSE overtaken) \ {r}
    /\ UNCHANGED <<grades, closingGrade, config, yearVars, reached>>

-----------------------------------------------------------------------------
(* The end of a request, and what others do *)

markStaleIfCompleted ==
    promotionSummaryStale' = (promotionSummaryStale \/ promotionStatus = "COMPLETED")

Mark(r) ==
    /\ At(r, "mark")
    /\ markStaleIfCompleted
    /\ Becomes(r, Idle)
    /\ UNCHANGED <<dataVars, promotionStatus, ghostVars>>

\* A check refuses, the row is gone or a unique index is in the way; after its
\* write, a request ends early when a queue fails or the process stops.
Abort(r) ==
    /\ ~ At(r, "idle")
    /\ req[r].pc \in {"queue", "mark"} => r \in Faulty
    /\ Done(r, "idle")
    /\ UNCHANGED <<dataVars, yearVars, untold, reached>>

\* InstitutionsService.update: the settings become any others; a change of
\* another setting writes back those it has read.
UpdateSettings ==
    /\ config' \in Configs
    /\ reached' = IF config'.active > reached THEN config'.active ELSE reached
    /\ overtaken' = overtaken \cup {q \in Requests : req[q].pc \in {"validate", "updateProgress"}}
    /\ UNCHANGED <<grades, closingGrade, pending, yearVars, req, untold>>

\* The run of the promotion ends.
Finalize ==
    /\ promotionStatus # "COMPLETED"
    /\ promotionStatus' = "COMPLETED"
    /\ promotionSummaryStale' = FALSE
    /\ untold' = {}
    /\ UNCHANGED <<dataVars, req, overtaken, reached>>

\* A completed year goes back: catch after a failing audit queue, a late reset
\* of a stale execution, or a late preview, which resets the flag too.
Revert ==
    /\ promotionStatus = "COMPLETED"
    /\ promotionStatus' = "OTHER"
    /\ promotionSummaryStale' \in {promotionSummaryStale, FALSE}
    /\ untold' = {}
    /\ UNCHANGED <<dataVars, req, overtaken, reached>>

\* recalculateSummary takes back a flag that it has read earlier: it counts the
\* results again and evaluates nobody.
RecalculateSummary ==
    /\ promotionSummaryStale' = FALSE
    /\ untold' = {}
    /\ UNCHANGED <<dataVars, promotionStatus, req, overtaken, reached>>

Next ==
    \/ \E r \in Requests :
         \/ \E s \in Slots :
              \/ CreateGradeCheck(r, s) \/ Close(r, s) \/ ReopenCheck(r, s) \/ ReadConfig(r, s)
              \/ \E g \in Rows, pc \in {"updateGrade", "removeGrade"} : GradeCheck(r, s, g, pc)
              \/ \E pc \in {"checkClosing", "updateStatus", "deletePending"} :
                     PendingBegin(r, s, pc)
         \/ CreateGrade(r) \/ UpdateGrade(r) \/ RemoveGrade(r) \/ GradeQueued(r)
         \/ Reopen(r) \/ CheckClosing(r) \/ CreatePending(r) \/ UpdatePendingStatus(r)
         \/ DeletePending(r) \/ ValidatePeriodEdition(r) \/ UpdatePendingProgress(r)
         \/ Mark(r) \/ Abort(r)
    \/ UpdateSettings \/ Finalize \/ Revert \/ RecalculateSummary

Spec == Init /\ [][Next]_vars

-----------------------------------------------------------------------------
(* Properties *)

\* Rows, settings, flags and requests keep their types.
TypeOK ==
    /\ grades \in [Slots -> [Rows -> Scores \cup {Null}]]
    /\ closingGrade \in [Slots -> Closing \cup {Null}]
    /\ pending \in [Slots -> Pending \cup {Null}]
    /\ config \in Configs
    /\ promotionStatus \in {"COMPLETED", "OTHER"}
    /\ promotionSummaryStale \in BOOLEAN
    /\ req \in [Requests -> Request]
    /\ overtaken \subseteq Requests
    /\ untold \subseteq Requests
    /\ reached \in Periods

\* The step is one of a request overtaken at s.
Overtaken(s) == \E r \in overtaken : req[r].slot = s /\ req'[r] # req[r]

\* A closed period is frozen once the requests that checked it before the close
\* have ended: only they still change its grades (isPeriodClosed before every
\* write of GradesService).
ClosedIsFrozen ==
    [][\A s \in Slots :
         isPeriodClosed(s) /\ grades'[s] # grades[s] =>
             Overtaken(s)]_vars

\* A pending subject comes from a closed period that was failed, unless the
\* period was closed again or reopened under the request (createPendingSubject).
PendingFromFailure ==
    [][\A s \in Slots :
         pending[s] = Null /\ pending'[s] # Null =>
             Failed(s) \/ Overtaken(s)]_vars

\* The result of an intensification period changes only while the settings let
\* it, once the requests that overlap a change of the settings have ended; an
\* update that sends back what it has read restores nothing old
\* (validatePeriodEdition, updatePendingProgress).
WindowsAreKept ==
    [][\A s \in Slots : \A p \in Periods :
         /\ pending[s] # Null
         /\ pending'[s] # Null
         /\ pending'[s].results[p] # pending[s].results[p]
         => Editable(config, p) \/ Overtaken(s)]_vars

\* No period after the latest one the institution has activated has a result,
\* however requests and settings interleave (validatePeriodEdition).
NoFutureResults ==
    \A s \in Slots : pending[s] # Null =>
        \A p \in Periods : p > reached => pending[s].results[p] = Null

\* A completed promotion is stale, or about to be, when a request that does not
\* fail has changed one of its records (markStaleIfCompleted in every service).
ChangesAreTold ==
    untold # {} =>
        \/ promotionSummaryStale
        \/ \E r \in untold : req[r].pc \in {"queue", "mark"}
=============================================================================
