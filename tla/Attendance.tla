------------------------------ MODULE Attendance ------------------------------
(***************************************************************************)
(* Attendance of one course in a school year whose promotion is COMPLETED: *)
(* AttendanceService, JustificationsService and the attendance of sport     *)
(* groups.  A request that is refused changes nothing and is left out.      *)
(* bulkCreate writes row by row without a transaction, and checks the       *)
(* students that are absent by then concurrently, each check counting and   *)
(* then looking for an absence record before it creates one.                *)
(*                                                                         *)
(* Prisma refuses a null in the key of AttendanceService.create's upsert:   *)
(* that call fails before it writes, and has no action here.                *)
(***************************************************************************)
EXTENDS Integers, FiniteSets, Functions

CONSTANTS
    Students,
    Groups,         \* sport groups
    Days,
    Ids,            \* ids of attendance rows
    Settings,       \* the values absenceThresholds may take
    Takers,         \* requests that take the attendance of the course
    Coaches,        \* requests that take the attendance of a sport group
    Editors,        \* requests about one row
    Null

AttendanceStatus == {"PRESENT", "ABSENT", "JUSTIFIED"}

\* What a dto may say: here PRESENT stands for every status that is no absence.
Said == {"PRESENT", "ABSENT"}

Row == [student : Students, group : Groups \cup {Null}, day : Days,
        status : AttendanceStatus]

Thresholds == UNION Settings

Requests == Takers \cup Coaches \cup Editors

\* The records of a bulk dto.
Dtos == UNION {[S -> Said] : S \in (SUBSET Students) \ {{}}}

NoDto == [s \in {} |-> Null]

BulkRequest ==
    [step : {"find", "write", "list", "checks"}, day : Days, dto : Dtos \cup {NoDto},
     listed : SUBSET Students, student : Students \cup {Null}, found : Ids \cup {Null}]

SportRequest ==
    [step : {"sport"}, group : Groups, day : Days, dto : Dtos, listed : SUBSET Students]
    \cup [step : {"sportChecks"}, listed : SUBSET Students]

JustifyRequest == [step : {"justify"}, row : Ids]

MarkRequest == [step : {"mark"}]

Request == BulkRequest \cup SportRequest \cup JustifyRequest \cup MarkRequest

CheckRun == [step : {"count", "find", "create"}, left : SUBSET Thresholds]

ASSUME AttendanceAssumption ==
    /\ IsFiniteSet(Ids)
    /\ Settings \subseteq SUBSET Nat
    /\ Null \notin Students \cup Groups \cup Ids \cup Row \cup Request \cup CheckRun

VARIABLES
    rows,           \* Attendance rows, or Null
    justifications, \* Justification rows, by the attendance id (unique)
    thresholds,     \* Institution.settings.absenceThresholds
    absenceRecords, \* how many AbsenceRecord rows a student has for a threshold
    promotionSummaryStale,
    request,        \* the calls in flight
    checks,         \* of a call: the runs of checkAndGenerateRecord, by row
    \* history:
    peak,           \* the most rows a student has been ABSENT in at once
    exempt,         \* students with an absence that no bulk call has accounted for
    overlapped,     \* students that were checked twice at once
    raced,          \* students that two bulk calls found no row for at once
    superseded      \* calls whose row got another status since they read it

tables == <<rows, justifications, thresholds, absenceRecords>>
calls  == <<request, checks>>
ghosts == <<peak, exempt, overlapped, raced, superseded>>
vars   == <<tables, promotionSummaryStale, calls, ghosts>>

NoChecks == [i \in Ids |-> Null]

Init ==
    /\ rows = [i \in Ids |-> Null]
    /\ justifications = {}
    /\ thresholds \in Settings
    /\ absenceRecords = [s \in Students |-> [t \in Thresholds |-> 0]]
    /\ promotionSummaryStale = FALSE
    /\ request = [p \in Requests |-> Null]
    /\ checks = [p \in Requests |-> NoChecks]
    /\ peak = [s \in Students |-> 0]
    /\ exempt = {}
    /\ overlapped = {}
    /\ raced = {}
    /\ superseded = {}

-----------------------------------------------------------------------------
(* What the queries select. *)

Taken(i) == rows[i] # Null

\* attendance.count: sport rows count like the others.
Absences(table, s) ==
    Cardinality({i \in Ids : /\ table[i] # Null
                             /\ table[i].student = s
                             /\ table[i].status = "ABSENT"})

\* Mutant: the stored date is compared with a time.
NoRow(s, g, d) == {}

\* The rows of a student on a day, in a sport group or (Null) in none.
Found(s, g, d) ==
    {i \in Ids : /\ Taken(i)
                 /\ rows[i].student = s /\ rows[i].group = g /\ rows[i].day = d}

Higher(a, b) == IF a < b THEN b ELSE a

\* The rows after a write, with the history that follows from them.
Write(table) ==
    /\ rows' = table
    /\ peak' = [s \in Students |-> Higher(peak[s], Absences(table, s))]
    /\ superseded' = {p \in Editors :
         /\ request[p] # Null /\ request[p].step = "justify"
         /\ p \in superseded \/ table[request[p].row] # rows[request[p].row]}

(* Steps of a call *)

Idle(p) == request[p] = Null /\ checks[p] = NoChecks

Begin(p, r) ==
    /\ Idle(p)
    /\ request' = [request EXCEPT ![p] = r]

At(p, step) == request[p] # Null /\ request[p].step = step

Goto(p, step) == request' = [request EXCEPT ![p].step = step]

Marking == [step |-> "mark"]

-----------------------------------------------------------------------------
(* AttendanceService.bulkCreate *)

\* dto: a status for some students; the array may list them in any order.
BulkBegin(p, d, dto) ==
    /\ Begin(p, [step |-> "find", day |-> d, dto |-> dto, listed |-> DOMAIN dto,
                 student |-> Null, found |-> Null])
    /\ UNCHANGED <<tables, promotionSummaryStale, checks, ghosts>>

Creating(p, s, d) ==
    /\ At(p, "write") /\ request[p].student = s
    /\ request[p].day = d /\ request[p].found = Null

\* findFirst has no order: any of the rows.
FindRow(p, s) ==
    /\ At(p, "find") /\ s \in DOMAIN request[p].dto
    /\ LET d == request[p].day
           found == Found(s, Null, d)
       IN
       \E i \in IF found = {} THEN {Null} ELSE found :
         request' = [request EXCEPT ![p] =
           [@ EXCEPT !.step = "write", !.student = s, !.found = i]]
    /\ raced' = IF /\ Found(s, Null, request[p].day) = {}
                   /\ \E q \in Takers \ {p} : Creating(q, s, request[p].day)
                THEN raced \cup {s} ELSE raced
    /\ UNCHANGED <<tables, promotionSummaryStale, checks, peak, exempt, overlapped, superseded>>

\* The row that was found, or a new one.
WriteRow(p) ==
    /\ At(p, "write")
    /\ LET r == request[p]
           new == [student |-> r.student, group |-> Null, day |-> r.day,
                   status |-> r.dto[r.student]]
       IN
       /\ \/ /\ r.found # Null
             /\ Write([rows EXCEPT ![r.found].status = new.status])
          \/ /\ r.found = Null
             /\ \E i \in Ids : ~Taken(i) /\ Write([rows EXCEPT ![i] = new])
       /\ request' = [request EXCEPT ![p] =
            [@ EXCEPT !.step = IF DOMAIN r.dto = {r.student} THEN "list" ELSE "find",
                      !.dto = Restrict(r.dto, DOMAIN r.dto \ {r.student}),
                      !.student = Null, !.found = Null]]
    /\ UNCHANGED <<justifications, thresholds, absenceRecords, promotionSummaryStale,
                   checks, exempt, overlapped, raced>>

(* JustificationsService.checkAndGenerateRecord *)

Checking(p, i) == checks[p][i] # Null

\* Its absences are being checked.
Checked(s) == \E p \in Requests, i \in Ids : Checking(p, i) /\ rows[i].student = s

\* One check per row of S, all at once.
StartChecks(p, table, S) ==
    /\ checks' = [checks EXCEPT ![p] =
         [i \in Ids |-> IF i \in S THEN [step |-> "count", left |-> {}] ELSE Null]]
    /\ overlapped' = overlapped \cup
         {s \in Students : \E i \in S :
            /\ table[i].student = s
            /\ \/ Checked(s)
               \/ \E j \in S \ {i} : table[j].student = s}

\* Mutant: absences are looked for by the wrong day.
AbsentLater(d) == {i \in Ids : Taken(i) /\ rows[i].day > d /\ rows[i].status = "ABSENT"}

\* Every row of the course and the day, of sport groups too.
AbsentOn(d) == {i \in Ids : Taken(i) /\ rows[i].day = d /\ rows[i].status = "ABSENT"}

ListAbsent(p) ==
    /\ At(p, "list")
    /\ StartChecks(p, rows, AbsentOn(request[p].day))
    /\ Goto(p, "checks")
    /\ UNCHANGED <<tables, promotionSummaryStale, peak, exempt, superseded, raced>>

Check(p, i, c) == checks' = [checks EXCEPT ![p][i] = c]

\* Mutant: a threshold must be exceeded.
Exceeded(left, n) == {t \in left : n > t}

\* Mutant: the absence about to be recorded counts twice.
AlmostReached(left, n) == {t \in left : n + 1 >= t}

Reached(left, n) == {t \in left : n >= t}

Searching(left) == IF left = {} THEN Null ELSE [step |-> "find", left |-> left]

\* getThresholds and the count are two queries and one step: a change of the
\* settings between the two is as good as one after both.
Count(p, i) ==
    /\ Checking(p, i) /\ checks[p][i].step = "count"
    /\ LET s == rows[i].student IN
         /\ Check(p, i, Searching(Reached(thresholds, Absences(rows, s))))
         /\ exempt' = exempt \ {s}
    /\ UNCHANGED <<tables, promotionSummaryStale, request, peak, overlapped, superseded, raced>>

\* Thresholds are gone through in ascending order.
Lowest(left) == CHOOSE t \in left : \A u \in left : t <= u

\* Mutant: no search for the record of the threshold.
NeverRecorded(s, t) == FALSE

Recorded(s, t) == absenceRecords[s][t] > 0

FindRecord(p, i) ==
    /\ Checking(p, i) /\ checks[p][i].step = "find"
    /\ LET left == checks[p][i].left
           t == Lowest(left)
       IN  IF Recorded(rows[i].student, t)
           THEN Check(p, i, Searching(left \ {t}))
           ELSE Check(p, i, [step |-> "create", left |-> left])
    /\ UNCHANGED <<tables, promotionSummaryStale, request, ghosts>>

\* The notification is not waited for, and its failure is ignored.
CreateRecord(p, i) ==
    /\ Checking(p, i) /\ checks[p][i].step = "create"
    /\ LET left == checks[p][i].left
           t == Lowest(left)
       IN  /\ absenceRecords' = [absenceRecords EXCEPT ![rows[i].student][t] = @ + 1]
           /\ Check(p, i, Searching(left \ {t}))
    /\ UNCHANGED <<rows, justifications, thresholds, promotionSummaryStale, request, ghosts>>

\* A query fails: so does the call, but its other checks go on.
CheckFails(p, i) ==
    /\ Checking(p, i)
    /\ Check(p, i, Null)
    /\ request' = [request EXCEPT ![p] = Null]
    /\ exempt' = exempt \cup {rows[i].student}
    /\ UNCHANGED <<tables, promotionSummaryStale, peak, overlapped, superseded, raced>>

-----------------------------------------------------------------------------
(* SportGroupsService.bulkAttendance: every row in one transaction, one check *)
(* per ABSENT record of the dto, and no mark.                               *)

SportBegin(p, g, d, dto) ==
    /\ Begin(p, [step |-> "sport", group |-> g, day |-> d, dto |-> dto,
                 listed |-> DOMAIN dto])
    /\ UNCHANGED <<tables, promotionSummaryStale, checks, ghosts>>

\* The upsert's row of each student: the one the unique key names, or a new one.
Upserted(r) ==
    {f \in [DOMAIN r.dto -> Ids] :
        /\ \A s, u \in DOMAIN r.dto : f[s] = f[u] => s = u
        /\ \A s \in DOMAIN r.dto :
             IF Found(s, r.group, r.day) = {}
             THEN ~Taken(f[s])
             ELSE f[s] \in Found(s, r.group, r.day)}

Written(r, f) == {f[s] : s \in DOMAIN r.dto}

\* The rows after the upserts, with f as the rows of the students.
Upsert(r, f) ==
    LET by(i) == CHOOSE s \in DOMAIN r.dto : f[s] = i IN
    [i \in Ids |->
       IF i \in Written(r, f)
       THEN [student |-> by(i), group |-> r.group, day |-> r.day, status |-> r.dto[by(i)]]
       ELSE rows[i]]

SportUpsert(p) ==
    /\ At(p, "sport")
    /\ \E f \in Upserted(request[p]) :
         LET table == Upsert(request[p], f) IN
         /\ Write(table)
         /\ StartChecks(p, table,
              {i \in Written(request[p], f) : table[i].status = "ABSENT"})
    /\ request' = [request EXCEPT ![p] =
         [step |-> "sportChecks", listed |-> request[p].listed]]
    /\ UNCHANGED <<justifications, thresholds, absenceRecords, promotionSummaryStale,
                   exempt, raced>>

SportDone(p) ==
    /\ At(p, "sportChecks") /\ checks[p] = NoChecks
    /\ request' = [request EXCEPT ![p] = Null]
    /\ UNCHANGED <<tables, promotionSummaryStale, checks, ghosts>>

-----------------------------------------------------------------------------
(* AttendanceService.update and JustificationsService *)

\* Nobody checks the thresholds for a row that becomes ABSENT this way.
Unaccounted(i, status) ==
    exempt' = IF status = "ABSENT" THEN exempt \cup {rows[i].student} ELSE exempt

\* update: rows are never deleted, so the read and the write are one step.
Update(p, i, status) ==
    /\ Taken(i)
    /\ Begin(p, Marking)
    /\ Write([rows EXCEPT ![i].status = status])
    /\ Unaccounted(i, status)
    /\ UNCHANGED <<justifications, thresholds, absenceRecords, promotionSummaryStale,
                   checks, overlapped, raced>>

\* Mutant: anything can be justified.
JustifyAnything(p, i) ==
    /\ Taken(i) /\ i \notin justifications
    /\ Begin(p, [step |-> "justify", row |-> i])
    /\ superseded' = superseded \ {p}
    /\ UNCHANGED <<tables, promotionSummaryStale, checks, peak, exempt,
                   overlapped, raced>>

JustifyBegin(p, i) ==
    /\ Taken(i) /\ rows[i].status = "ABSENT" /\ i \notin justifications
    /\ Begin(p, [step |-> "justify", row |-> i])
    /\ superseded' = superseded \ {p}
    /\ UNCHANGED <<tables, promotionSummaryStale, checks, peak, exempt,
                   overlapped, raced>>

\* The transaction: the unique attendanceId refuses a second justification.
Justify(p) ==
    /\ At(p, "justify") /\ request[p].row \notin justifications
    /\ justifications' = justifications \cup {request[p].row}
    /\ Write([rows EXCEPT ![request[p].row].status = "JUSTIFIED"])
    /\ request' = [request EXCEPT ![p] = Marking]
    /\ UNCHANGED <<thresholds, absenceRecords, promotionSummaryStale, checks,
                   exempt, overlapped, raced>>

\* remove: whatever the status is by now, the row is ABSENT again.
RemoveJustification(p, i) ==
    /\ i \in justifications
    /\ Begin(p, Marking)
    /\ justifications' = justifications \ {i}
    /\ Write([rows EXCEPT ![i].status = "ABSENT"])
    /\ Unaccounted(i, "ABSENT")
    /\ UNCHANGED <<thresholds, absenceRecords, promotionSummaryStale, checks,
                   overlapped, raced>>

UpdateThresholds(value) ==
    /\ value # thresholds
    /\ thresholds' = value
    /\ exempt' = Students
    /\ UNCHANGED <<rows, justifications, absenceRecords, promotionSummaryStale, calls,
                   peak, overlapped, superseded, raced>>

-----------------------------------------------------------------------------
\* markStaleIfCompleted, after the write or, in bulkCreate, after the checks.
Mark(p) ==
    /\ At(p, "mark") \/ (At(p, "checks") /\ checks[p] = NoChecks)
    /\ promotionSummaryStale' = TRUE
    /\ request' = [request EXCEPT ![p] = Null]
    /\ UNCHANGED <<tables, checks, ghosts>>

\* A query fails or the process stops, with everything the call has running.
Abort(p) ==
    /\ ~Idle(p)
    /\ request' = [request EXCEPT ![p] = Null]
    /\ checks' = [checks EXCEPT ![p] = NoChecks]
    /\ exempt' = exempt
         \cup (IF request[p] # Null /\ "listed" \in DOMAIN request[p]
               THEN request[p].listed ELSE {})
         \cup {rows[i].student : i \in {j \in Ids : Checking(p, j)}}
    /\ UNCHANGED <<tables, promotionSummaryStale, peak, overlapped, superseded, raced>>

Taking(p) ==
    \/ \E d \in Days, dto \in Dtos : BulkBegin(p, d, dto)
    \/ \E s \in Students : FindRow(p, s)
    \/ WriteRow(p) \/ ListAbsent(p)

Coaching(p) ==
    \/ \E g \in Groups, d \in Days, dto \in Dtos : SportBegin(p, g, d, dto)
    \/ SportUpsert(p) \/ SportDone(p)

CheckStep(p) ==
    \E i \in Ids : Count(p, i) \/ FindRecord(p, i) \/ CreateRecord(p, i) \/ CheckFails(p, i)

Editing(p) ==
    \/ \E i \in Ids : \/ \E status \in Said : Update(p, i, status)
                      \/ JustifyBegin(p, i) \/ RemoveJustification(p, i)
    \/ Justify(p)

Act(p) ==
    \/ p \in Takers /\ Taking(p)
    \/ p \in Coaches /\ Coaching(p)
    \/ p \in Editors /\ Editing(p)
    \/ CheckStep(p) \/ Mark(p) \/ Abort(p)

Next ==
    \/ \E p \in Requests : Act(p)
    \/ \E value \in Settings : UpdateThresholds(value)

Spec == Init /\ [][Next]_vars

-----------------------------------------------------------------------------
(* Properties *)

\* Every row, every call in flight and every check has its type.
TypeOK ==
    /\ rows \in [Ids -> Row \cup {Null}]
    /\ justifications \in SUBSET Ids
    /\ thresholds \in Settings
    /\ absenceRecords \in [Students -> [Thresholds -> Nat]]
    /\ promotionSummaryStale \in BOOLEAN
    /\ request \in [Requests -> Request \cup {Null}]
    /\ checks \in [Requests -> [Ids -> CheckRun \cup {Null}]]
    /\ peak \in [Students -> Nat]
    /\ exempt \in SUBSET Students
    /\ overlapped \in SUBSET Students
    /\ raced \in SUBSET Students
    /\ superseded \in SUBSET Editors

\* A student has one row per day and group.  For a sport group the unique key
\* sees to it; for the course, whose group is null, the key says nothing, and
\* two calls of bulkCreate that both find no row for a student make two.
OneRowPerDay ==
    \A i, j \in Ids :
        i # j /\ Taken(i) /\ Taken(j) =>
            \/ rows[i].student # rows[j].student
            \/ rows[i].day # rows[j].day
            \/ rows[i].group # rows[j].group
            \/ rows[i].group = Null /\ rows[i].student \in raced

\* checkAndGenerateRecord looks for a record before it creates one: a student
\* has two for one threshold only if two checks of the student overlapped.
OneRecordPerThreshold ==
    \A s \in Students, t \in Thresholds : absenceRecords[s][t] > 1 => s \in overlapped

\* An absence record tells the truth, however rows were edited and justified
\* between its count and its creation: there was a moment when the student had
\* been absent that often.
RecordsDeserved ==
    \A s \in Students, t \in Thresholds : absenceRecords[s][t] > 0 => peak[s] >= t

\* Whoever reaches a threshold by bulk calls has the record once they are
\* answered, in whatever order they wrote, counted and created.  Not covered:
\* absences that come from an update or a removed justification, thresholds
\* that change, and calls that fail; all until the next count.
AbsencesRecorded ==
    (\A p \in Takers \cup Coaches : Idle(p)) =>
        \A s \in Students \ exempt, t \in thresholds :
            Absences(rows, s) >= t => Recorded(s, t)

\* "Solo se pueden justificar inasistencias": what is justified is an absence
\* at that moment, unless another call has changed the row since it was read.
OnlyAbsencesJustified ==
    [][\A i \in justifications' \ justifications :
          \/ rows[i].status = "ABSENT"
          \/ \E p \in superseded : At(p, "justify") /\ request[p].row = i]_vars
=============================================================================
