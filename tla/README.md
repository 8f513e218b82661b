# TLA+ verification of edusystem

Edusystem is a multi-tenant school administration: a NestJS backend over
PostgreSQL (Prisma), Redis and BullMQ, and a Next.js frontend. This directory
holds TLA+ models of the parts where several requests, processes, screens or
failures meet, the TLC configurations that check them, and TLAPS proofs that
the central properties hold for every instance.

`tlc -config X.cfg M` checks a run, `tlapm M.tla` a proof module;
`PROJECT.json` lists the runs, the lines each definition models, the mutants that
each property tells from the code, the hazards and the theorems.

## 1. The system

The backend is stateless between requests: all lasting state is in PostgreSQL,
presence is in Redis, jobs are in Bull. Node runs a handler until its next
`await`, so requests interleave at every query. Prisma transactions run under
READ COMMITTED: what a transaction has read may be outdated when it commits, and
only unique keys and row locks of updates stop that. Most services read, decide,
and write by id in a later query. The screens of the frontend hold copies of
rows (react-query's cache, a component's state) and save from those copies.

| Component | State | Operations | What is hard | What must hold |
|---|---|---|---|---|
| promotion (preview, execution, overrides, statistics) | `SchoolYear.promotion*`, `PromotionResult`, `CourseStudent`, `Course`, `StudentCourseSubject` | preview, execute, override, statistics, mark stale | two runs, crash between students, a lock taken over after 15 minutes, overrides against a run, courses created on demand | one run at a time, one engine result per student, results and enrolments agree, nobody is forgotten, statistics never claim too much |
| promotion rules | what the queries of one evaluation have read | read grades, pending subjects, attendance; evaluate | records change between the queries; averages are sums of doubles | the verdict lies between what the records were worth before and after |
| space reservations, spaces | `SpaceReservation`, `Space` | create, update, status, cancel, remove; space create, update, toggle, remove | check-then-write without a constraint, partial updates, stale reads | no double booking; a removed space has no coming booking |
| chat service | `ChatRoom`, `ChatRoomMember.unreadCount`, `ChatMessage`, `ChatMessageRead`, notification jobs | create room, add members, send, mark read, list messages | a counter kept beside the rows it counts; concurrent creation of one DIRECT room; queue after commit; pages refetched while messages commit | counters agree with receipts, one room per pair, who is counted is notified, a reader's pages have no gap |
| chat gateway, presence | Redis set of sockets per user, with a TTL | connect, disconnect, heartbeat, expiry | overlapping handlers of one socket, lost disconnections, crash between two Redis commands | a connected user is online, a ghost fades |
| academic records: grades, closing grades, pending subjects, teacher panel | `Grade`, `ClosingGrade`, `PendingSubject`, `Institution.settings.pendingSubjects` | grades: create, update, remove; close, reopen; pending subjects: create, status, progress, delete; settings | check of a closed period before a write, settings read before a row and a write, queue calls between the write and the stale mark | a closed period is frozen, results stay in their windows, pending subjects come from failures, a completed promotion whose records change is marked stale |
| attendance, justifications | `Attendance`, `Justification`, `AbsenceRecord`, thresholds | bulk and sport records, update, justify, remove, thresholds | find-then-create with a NULL in the unique key, a count before a creation, checks running concurrently | one row per student, group and day; one absence record per threshold, when the absences earn it; only an absence is justified |
| sports, sport groups | `Sport.deletedAt`, `SportGroup`, rosters | create, update, add and remove students, remove group and sport | conflicts looked for before the write | one group per sport and student, no group of a removed sport |
| users, level roles | `User.role`, `status`, `deletedAt`, `UserLevelRole` | roles, leave, status, remove | role recomputed outside a transaction | the role is the highest level role; who is removed is inactive |
| institutions: settings, invitations | `Institution.settings`, `Invitation`, `User` | update, thresholds, report settings; invite, accept, revoke | one JSON column read, merged and written by three services | no setting is lost; one pending invitation per email, accepted once |
| school years | `SchoolYear.isActive` | create, activate | two activations, statements with their own snapshots | one active year |
| education levels, grades, courses | `LevelGrade.displayOrder`, `Course.levelGradeId`, `Course.grade`, the course's chat room | create, update, delete, swap of two grades by two requests | copies of a number, requests that fail by half | numbers distinct, copies up to date |
| indicators, evaluations | `Indicator.order`, `IndicatorEvaluation` | create, reorder, remove; bulk upsert | reorder writes row by row, concurrently | places in a list are distinct |
| reports | a report in the making; report settings | read grades, settings, closings; aggregate; judge | reads at three moments, decimals | columns of one moment; a better evaluation does not make the judgement worse |
| queue workers, announcements | jobs, notifications, audit rows | add, process, retry, stall; publish | at-least-once delivery after partial effects, a lost lock | everybody reached or the job given up; repeats bounded; what is published is queued |
| backfill script | education levels, grades, references to them | six loops over the tables | it may stop at any row and be run again | a loop that is passed leaves nothing behind |
| frontend: sheet of grades, grid of evaluations, messages | local copies, timers, caches, requests in flight | type, select, autosave; toggle, save, switch period; scroll, refetch | a copy saved under another selection, late answers, cached grids | what is shown as saved is stored, nothing typed is forgotten, others' work is kept |
| frontend: forms and dialogs | what is typed, the row it is for, the mutation in flight | open, type, choose, submit, close | state that outlives the row it was for, answers that come after another row was opened | a form is of the row it shows, a submission changes only what was typed, and creates once |
| frontend: react-query's cache | an answer per key, with its age | mount, refetch, poll, mutate, invalidate | each mutation lists by hand the keys that it makes old; answers that were read before a write | a page does not go on showing what its user's own write has made old |
| other services (students, subjects, guardians, convivencias, auth, authorization, storage, health), infrastructure | | | single rows, reads or I/O | see section 7 and `components` in `PROJECT.json` |

They meet in four ways. Shared tables: `StudentsService.enroll` and
`CoursesService.remove` write the rows a promotion works on (both are actions of
`Promotion`). The stale flag: every service of the academic records calls
`markStaleIfCompleted` after its write. Jobs: services add to queues after their
database writes, so a queue that fails leaves the write and fails the request.
Copies: a screen saves what it has read, over whatever has been written since.

## 2. Modules

| Module | Models | Depends on |
|---|---|---|
| `PromotionData` | rows, the engine's verdict, destination resolution, effective-result view, copied assignments: pure operators | |
| `Promotion` | the requests of the promotion services as processes over those rows | `PromotionData`, `PromotionLifecycle` |
| `PromotionLifecycle` | abstract: the status of a year and the students the engine has decided | |
| `PromotionClaims` | the recovery of orphans the design describes, with the fairness it presumes | `Promotion` |
| `MCPromotion` | instance for TLC | `PromotionClaims` |
| `PromotionProofs` | proofs, first without, then with assumptions on the runs | `Promotion` |
| `SpaceReservations`, `MCSpaceReservations`, `SpaceReservationsProofs` | reservations and spaces | |
| `Chat`, `MCChat`, `ChatProofs` | rooms, messages, counters | |
| `ChatPresence`, `MCChatPresence` | presence sets (`MCChatPresence` is the instance of `claim_departure`) | |
| `Delivery` | the jobs of one grade, announcement, message or audited change, and the rows they leave | |
| `MCMessaging` | instance for TLC of presence and delivery | `ChatPresence`, `Delivery` |
| `MessagingProofs` | proofs about presence and delivery | `MCMessaging` |
| `AcademicRecords`, `MCAcademicRecords`, `AcademicRecordsProofs` | grades, closings, pending subjects, their settings and the stale flag of one school year | |
| `Attendance` | attendance rows, justifications, absence records and the stale flag | |
| `SportGroups`, `Users`, `Settings`, `SchoolYears`, `Invitations`, `Indicators`, `AcademicStructure` | one service each, see below | |
| `Backfill` | `run-backfill.ts` | |
| `Reports`, `Trayectoria` | a report made while grades are written; the judgement drawn from evaluations | |
| `PromotionRules` | the data and the rules behind one verdict | |
| `BulkEntry`, `EvaluationGrid`, `ChatHistory`, `Forms`, `QueryCache` | the screens of the frontend, with the endpoints they call | |
| `MCRecords`, `MCScreens`, `MCInstitution` | instance for TLC of the modules from `Attendance` on: what works on records of students and courses, the screens, the whole | all of those |
| `RecordsProofs`, `ScreenProofs`, `InstitutionProofs` | proofs about each part by itself, and about the whole | `MCRecords`; `MCScreens`; `MCInstitution`, both |

### Promotion

A request is a process. `pc[e]` says which query of `execute()` is next, and the
local variables (`year`, `evaluations`, `todo`, `created`, `destinations`,
`current`) are those of the code. The steps of a run, in order:

| Action | Code (`promotion-execution.service.ts`) |
|---|---|
| `ExecuteBegin` | checks CLOSED and PREVIEWED (23-44) |
| `FindStale`, `ResetStale` | `handleStaleHeartbeat` (340-357): another request may act in between |
| `Lock`, `LockRefused` | `updateMany where PREVIEWED` (46-60) |
| `AuditLock` | the audit job (62-69) |
| `Evaluate` | roster and engine (71-119); the verdict on each student is any, since grades change |
| `FindCourse`, `MissCourse`, `CreateCourse`, `DestinationsReady` | `preResolveDestinations` (121-137) |
| `TxBegin`, `TxCommit`, `TxFail` | one student's transaction (139-155, 209-288): the check for a result, then result, enrolment and subjects at the commit |
| `Heartbeat`, `LoopDone`, `Finalize`, `AuditDone`, `Catch` | 157-206 |

`PreviewRead`/`PreviewWrite`, the four override steps and
`RecalculateRead`/`RecalculateWrite` are the other services, split where a query
separates what was read from what is written. `MarkStaleIfCompleted`, `Enroll`
and `RemoveCourse` are the other writers of the tables.

What is abstracted: a result row is appended in commit order, which stands for
`decidedAt`; each count of `promotionSummary` is the set of students it counts;
the reads of `createOverride` before its transaction are two steps and the
transaction is one; `totalStudents`, `lockedAt`, `fromCourseStudentId`,
`createdBy` and rule traces are left out. `Faults` says what may go wrong:
`crash` (the process stops), `db` (a query fails), `queue` (an audit job fails),
`orphan` (15 minutes pass after a crash), `stall` (15 minutes pass in a live run
between two heartbeats), `remove` (courses are deleted). Bounds: `CourseNos`
(how often one course can be created), `MaxResults` (no override starts with
that many results).

### Space reservations

`CreateBegin` or `UpdateBegin`, `CheckConflicts` and `Book` are the queries of
`create` and `update`; `StatusBegin`/`UpdateStatus` those of `updateStatus` and
`cancel`; `RemoveSpaceBegin`/`RemoveSpace` those of the space's removal. `now`
counts half days, because bookings are stored at noon and compared with the
instant. Times and days are small naturals; an update that carries one time only
is merged with the stored one as in the code, so a slot may be inverted.

### Chat

A transaction is a step; the reads before it are a step of their own, kept in
`request`. `Abort` ends a call anywhere, which covers a failing query, a failing
queue and a crash. A message remembers whose counters it raised (`countedFor`, a
history variable). `Tidy` is the set of users whose client marks whole rooms as
read and waits for the answer. Policies, content, attachments, `lastMessageAt`,
audit jobs and socket events are left out: they read these tables only, and
nothing modelled depends on them.

### Presence

Each Redis command is a step. A socket has two handlers that may overlap:
`handleConnection` (look-up, SADD, EXPIRE) and `handleDisconnect` (SREM, then
EXPIRE or DEL). `client.data.user` is set in the same turn as SADD is sent, and
commands of one connection are executed in order, so `UserConnected` is one step
and a disconnection before it finds no user. A heartbeat is one step: EXPIRE on
a missing key does nothing. `Crash` stops every process; the sets in Redis stay.
`Faulty` users miss heartbeats, have failing commands or lose their process
between SADD and EXPIRE.

### Academic records

A slot is a student, a subject of the student's course and a period: what a
grade, a closing grade and (through it) a pending subject belong to. A request
is a record: where it is (`pc`), its slot and row, the settings it has read
(`seen`) and the update it carries (`dto`).

| Service | Steps |
|---|---|
| `GradesService` | `CreateGradeCheck` or `GradeCheck`, then `CreateGrade`, `UpdateGrade` or `RemoveGrade`; after an update `GradeQueued`, since its queues come before the mark; `create` calls its queues after the mark, when nothing is left to model |
| `ClosingGradesService` | `Close` (an upsert at any time), `ReopenCheck`, `Reopen` |
| `TeacherService`, `PendingSubjectsService` | `PendingBegin` (`validateEnabled`), then `CheckClosing` and `CreatePending`, `UpdatePendingStatus` or `DeletePending`; `ReadConfig`, `ValidatePeriodEdition` and `UpdatePendingProgress` |
| `PromotionStaleHelper` | `Mark` |
| every request | `Abort`: a check refuses, a query fails, the row is gone (`pc = "gone"` once another request deleted it); after its write only a `Faulty` request, whose queue fails or whose process stops |
| others | `UpdateSettings`, and of the promotion what the flag sees: `Finalize`, `Revert`, `RecalculateSummary` |

Three history variables say what the code does not store. `overtaken` holds the
requests whose check has stopped being true: a close or a reopening overtakes
those that have checked the slot, a change of the settings those that edit
results, and a late result update those that have compared with the row before
it, because an update sends back unmodified values too. `untold` holds the
requests outside `Faulty` that changed a record of a completed year since the
year or its flag was last reset. `reached` is the latest period that has been
active. Abstracted: a grade is one value (score, type, date, description), a
closing score is below 7 or not, an audit queue that fails on a pending subject
is no step, since its error is caught and the mark follows.

### Delivery

One event (a grade, an announcement, a message, an audited change) and the jobs
two callers may add for it. `kind` and `recipients` are fixed by a behaviour.
`AddJob` is `queue.add`; publishing an announcement is `PublishBegin`,
`PublishUpdate`, `PublishAdd`, or `PublishFails` between them. A job is taken by
an execution (`StartJob`), which loads the recipients (`Load`) and stores a row
for each; `Promise.all` is `StoreFails` with writes that go on, and the chat
handler asks first who has been told (`Pending`). A failed job waits for its next
attempt (`Retry`); an execution that stops renewing its lock (`LosesLock`) goes on,
while Bull gives the job to another one (`Stalled`), at most `MaxStalled` times;
`WorkerStops` is a crash. `DeleteGrade` deletes the grade while its jobs wait: the
handler then finds nothing and completes (`Loaded`). Pushes are left out: their errors are caught and
nothing is stored. No code adds jobs of attendance.

### Attendance

The course and the sport groups of a student. `bulkCreate` is a call that finds a
row or none for each student (`FindRow`), writes it (`WriteRow`), lists who is
absent (`ListAbsent`) and starts one `checkAndGenerateRecord` per row: `Count`,
`FindRecord`, `CreateRecord`, any of which may fail (`CheckFails`) without failing
the call. The sport path is one upsert (`SportUpsert`) per student and the same
checks. `Update`, `JustifyBegin`/`Justify`, `RemoveJustification` and
`UpdateThresholds` are the other writers. Those of rows end in `Mark`; the sport path
(`SportDone`) and `UpdateThresholds` mark nothing. History
variables hold the most absences a student ever had at once (`peak`), and what the
properties excuse: students checked twice at once, students that two bulk calls
found no row for, absences no bulk call has accounted for, justifications of a row
that got another status since.

### One service each

- `SportGroups`: `create` and `removeSport` look before they write; `addStudents`
  searches for conflicts and `update` does not.
- `Users`: every call reads the user first (`GrantLeave`, `StatusBegin`,
  `RemoveBegin`, ...) and writes by id; a change of a level role is `ChangeRow`,
  `SyncRead`, `SyncWrite`, with the six roles that can be had at a level.
- `Settings`: the three writers of `Institution.settings`, each a read and a
  `Write` of the merged document; the value last sent for each key is kept as
  history.
- `SchoolYears`: `setActiveSchoolYear` as its two statements, with the snapshot of
  the first (`Snapshot`), the wait for row locks (`Deactivate`) and the second
  (`Activate`). The years are those of the caller's institution.
- `Invitations`: `invite`, `acceptInvitation` (one transaction, whose unique email
  makes the second one fail) and `revoke`, each after a look; `Expire` is the clock.
- `Indicators`: `create` takes the highest place and one more, `reorder` writes its
  places row by row in any order (`ReorderOne`) and may fail at any of them.
- `AcademicStructure`: grades with their `displayOrder`, the page's swap of two
  grades as two PATCHes from the list it shows, courses with the id and the number
  of their grade, the chat room made after the course.
- `Backfill`: a loop is a pair of actions, entering it and one row; `Exit` may come
  between any two, `Done` ends a run, and another run begins with empty maps.
- `Reports`: `ReadGrades`, `ReadAggregation`, `ReadClosings`, with other people's
  writes between; scores become columns as `aggregatePeriods` makes them, a
  `Decimal` added to a number included.
- `Trayectoria`: the strategies as functions of the number of evaluations of each
  value, `mapValue` included; the state only ranges over all such numbers.
- `PromotionRules`: `ReadGrades`, `ReadPending`, `ReadAttendance` fill
  `StudentEvaluationData`, `Evaluate` applies the rules. Whether a sum of doubles
  falls short of an average of exactly 7 is a choice, made where there are at least
  three rows, since it depends on their order, which no query fixes.

### Screens

- `BulkEntry`, the sheet that saves itself. `Type` changes rows (or all of them, a
  paste), `Debounce` copies them two seconds later, and `Effect` is the `useEffect`
  that saves the copy to the slot of that moment: it runs after the copy changes and
  after the slot does. `mutate` sends one POST per row; `OnSuccess` marks rows as
  saved by what is on the screen, `OnError` once one fails; requests the page has
  given up may still be stored (`StoreLate`). Rows remember which slot they were
  typed for (history).
- `EvaluationGrid`, with react-query as the code configures it: a cached grid per
  period, fresh for a minute (`Expire`), fetched in two steps (`Read`, `Receive`),
  an equal answer leaving the page's own values alone (`Same`). `Save` sends every
  cell that has a value under the period selected then; `SaveSucceeds` invalidates
  the grids, and asks for the selected one again unless its first fetch is under way
  (`FirstFetch`). `WriteElsewhere` is another page.
- `ChatHistory`: `Stamp` and `Commit` of a message, so that one with an earlier time
  may appear later; `Fetch` of the next page, or of all pages again from the first.
- `Forms`: what a form does when it is opened, when its row changes, on success and on
  failure is a record per form (`Forms`), read off its component; a behaviour follows
  one form over two rows. Each record says how values are filled (on opening, by an
  effect, once), what is sent, and what a success closes or clears.
- `QueryCache`: every hook with `useQuery` is a key and the tables its answer shows,
  every one with `useMutation` the tables it writes and the keys it invalidates, both
  read off `lib/api` and the pages; a behaviour follows one answer and one mutation of
  the same user through fetches, ages, polls (of the hooks that have an interval) and
  failures. `Missed` lists the pairs whose invalidation is missing.

## 3. Runs

| Run | Question | Bounds, and why they suffice |
|---|---|---|
| `promotion_lock` | Two runs of one year with crashes and failures: one owner, one result per student, honest statistics, every request answered | 2 students (one moves up, one graduates, so both kinds of rows occur), 2 runs of 1 closed year; heartbeats never get old |
| `promotion_takeover` | Runs that crash anywhere, are taken over after 15 minutes, even while they live, and are resumed: a COMPLETED year has decided everybody, two runs at once never enrol twice, results name real enrolments | 2 students, 2 runs of 1 closed year (one that checked the year before the other locked it meets the stale lock), 2 copies of a course |
| `promotion_override` | Overrides, manual enrolment and course removal against a run that may crash; the lifecycle is kept | 1 student with 1 subject, 1 run, 1 override at a time, at most 2 results |
| `space_reservations` | One request that claims slots, one that cancels, removals, all clocks: no double booking, removed spaces were free | 2 reservations, 3 instants (overlap, touching, inverted), 2 days, 2 half days |
| `chat` | All interleavings of two calls: counters, rooms, notifications | 2 users, 2 rooms, 2 messages, 2 calls in flight: a pair race, a message between find and commit, a second reader |
| `messaging` | Presence: connections, early closings, crashes, expiry. Delivery: retries, stalls, lost locks, crashes | Presence: 2 users, 3 sockets (two tabs and a ghost), TTL of 2 ticks (renewed in time, or not). Delivery: the attempts of the code where 1 job suffices, 2 where two jobs may be for one thing; 1 stall (Bull's default); 2 executions, so that a job can be run twice at once; up to 2 recipients (one told, one not) |
| `academic_records` | Two requests on one slot while settings and promotion change: freeze, windows, origin of pending subjects, stale flag | 2 requests (a check and what overtakes it; one may fail after its write), 1 slot (no operation touches two), 1 row (rows meet only through the slot), 2 intensification periods with 1 result, 4 settings: first period active, second active with and without late editing, disabled. The three statuses are one value, as any may follow any |
| `institution` | Seventeen parts that share no state: see below | see below |
| `claim_idempotent`, `claim_orphan`, `claim_double_booking`, `claim_departure` | Statements of the documentation the code does not keep: see section 5 | the smallest instance that shows it |

`messaging` and `institution` check modules that share no state in one run:
`part` says which of them a behaviour is about, and the others keep one initial
state. So the reachable states are the sum, not the product, of the parts, and each
property of such a run is a conjunction of the parts' own, grouped by what they
promise. The bounds of `institution`:

| Part | Instance |
|---|---|
| attendance | 1 student, the course and 1 sport group, 1 day, 2 rows, thresholds {1, 2} or {2}; pairs of calls (`Teams`): two bulk calls, a bulk call and a coach, a bulk call and an editor while the thresholds change (beside a coach they are proved about, not run: a change exempts every student). Two calls on one student and day are what every excuse and every race needs |
| sportGroups, users, settings | 2 calls; 2 sports and 2 groups; 1 user at 1 level, with at most three of its six roles at once (the highest, one below it and one between); 1 plain key and 2 of the report, with one key (or none) per call |
| schoolYears, invitations, indicators, structure | 2 calls; 3 years (two activations and a newborn year); 1 email and 2 invitations; 2 indicators in 2 grades, places up to 3; 2 grades with 2 numbers, 1 course |
| backfill | 2 institutions with 1 level and 2 grades, 2 courses (`FirstCourse`: one of the first institution, in a grade of the catalog), a row with a level of the second or none, an indicator: two institutions are what makes a map keyed too coarsely go wrong |
| reports, trayectoria | 2 periods with 1 grade each, the second changing between reports only; every number of evaluations up to 1 per stored value, legacy ones included |
| rules | 3 grades that are 9.7, 7.1 and 4.2 (their average is 7, the boundary) or missing; 2 or 3 pending subjects not completed; no days, 4 of 5 (the boundary), 4 of 6 |
| bulkEntry | `lesson`: one student and two slots, or two slots that differ in type or date only, and whatever the properties excuse happening once; or two students and two slots, and nothing excused. At most 1 late request |
| evaluationGrid | 2 cells, 2 periods, 2 values; `budget`: 2 late clicks or writes elsewhere; the second period empty until it is saved; no behaviour followed past a cell or a period that a property excuses |
| chatHistory | 3 messages, 3 times (so two may have the same), pages of 1 |
| forms | two rows (`FormRows`), and a budget of 3 openings, choices and edits elsewhere |
| queryCache | one mutation (`MaxWrites`), and a budget of 2 for leaving the page, ageing, polls and failures; every pair of an answer and a mutation that meet in a table |

These bounds are guards on the steps in `MCInstitution` and `MCScreens`, each
with its comment; the modules themselves have none but those named in them
(`MaxOrder`, `MaxCount`, `MaxTime`).

Deadlock is not checked where the system may stop: in the promotion runs a crashed
year may leave nothing to do; in `messaging` the jobs end; in `institution` removed
users and sports never come back, and other parts stop at their bounds. Symmetry is
used for runs, reservation ids, rooms, messages, calls and scores, which no property
singles out; never with a liveness property.

A property can only say what the code keeps. Where a race or a failure does go wrong
in the code, the property names it, by a history variable (`overtaken`, `drifted`,
`raced` and so on) or by a constant of the run (`Faulty`, `Faults`, one booker), and says
that nothing else goes wrong; the notes of the hazards in `PROJECT.json` say, hazard by
hazard, which part of it a property catches and which part it leaves out, and section 5
lists what then happens.

Properties, and the hazard each is aimed at:

- `NoConcurrentExecution`, `OneEngineResult`, `EngineEnrolsOnce`: the lock, the
  check before the insert, and what is left of both when a lock is taken over.
- `NoStudentForgotten`: a resumed run skips those who have a result, and only
  those.
- `SummaryNeverOvercounts`: a summary that is not marked stale claims no outcome
  that is not the student's effective one. It may miss students: a resumed run
  counts only what it created.
- `ResultsTraced`, `EnrolmentsJustified`: result and enrolment commit together;
  nobody is in a course without a reason.
- `DestinationsAgree`, `AssignmentsFollowEnrolment`: outcome, grade, course and
  copied subjects fit each other, in overrides too.
- `LifecycleKept`: `Promotion` implements `PromotionLifecycle`.
- `ExecuteTerminates`: under weak fairness of the steps of a run. Node resumes a
  handler when its query is answered or fails, and every step of the model has a
  failing or a succeeding outcome, so this is what the scheduler gives.
- `NoDoubleBooking`, `RemovedSpaceWasFree`.
- `UnreadNeverOvercounts`, `UnreadExact`, `DirectRoomsConverge`,
  `CountedAreNotified`.
- `ClosedIsFrozen`: the check-then-write of grades, against closings.
- `PendingFromFailure`: the same for the creation of pending subjects.
- `WindowsAreKept`, `NoFutureResults`: `validatePeriodEdition` against settings
  and rows that change under it. The first excuses requests that overlap a
  change of the settings, the second excuses nobody.
- `ChangesAreTold`: the mark after every write, against the queues before it and
  the resets of the flag.
- `ConnectedIsOnline`, `KeysExpire`, and `GhostsFade` under weak fairness of the
  handlers, of Redis's clock and of the heartbeats of users that are not faulty.
- `RepeatsBounded`, `PublishedIsQueued`: how often at-least-once delivery can repeat
  a row, and the queue call after the update of an announcement.
- `ToldOrGivenUp`: every job ends, and a completed one has reached everybody, under
  weak fairness of `Working`: workers take jobs and answer, and Bull's timers go on.
  A query may fail each time; the attempts are finite, so the job then fails.
- `LookedUpFirst` (`OneRowPerDay`, `OneRecordPerThreshold`, `OneGroupPerSport`,
  `RemovedSportWasEmpty`, `OnePending`, `AcceptedOnce`, `PlacesDistinct`,
  `CreatedOnce`): what a call looks for before it creates. Each names the races that break it, so a behaviour
  without one of them keeps it whatever else happens.
- `WritesKept` (`RoleFollows`, `RemovedIsInactive`, `SettingsKept`, `OneActiveYear`,
  `NumbersDistinct`, `CourseHasNumber`, `OthersKept`, `StoredWhereTyped`,
  `FormsKeepWrites`): what is written from a copy that others have changed.
- `NothingLeftBehind` (`RecordsDeserved`, `AbsencesRecorded`, `BackfillCompletes`,
  `NothingForgotten`): what has to be done after something else, and all of it.
- `ShownIsTrue` (`ReportOfAMoment`, `SavedIsStored`, `ScreenIsStored`, `NoGap`,
  `ShownOnce`, `FormShowsRow`, `FormIsOfTarget`, `DraftStays`, `OwnWritesShown`): what
  is read in several queries or kept on a screen.
- `JudgedFairly` (`BetterIsNotWorse`, `VerdictBetween`): the strategies and the rules,
  at their boundaries and while records change.
- `OnlyAbsencesJustified`: an action property, against a status that changes between
  the read and the write.

The properties of `institution` speak of excuses (a history variable each) where the
code has a race it does not guard. They say exactly what guards are missing, and
that nothing else can go wrong; the excuses are listed under section 5.

## 4. Proofs

All theorems are for any values of the constants that satisfy the assumptions of
the modules (a year is a natural number, null is no row, `Times` and `Days` are
naturals, the messages are finitely many, and so on). No bound of the runs is
among them: `MaxResults` and `CourseNos` are arbitrary.

| Theorem | States | Assumes | Argument |
|---|---|---|---|
| `PromotionProofs!TypeCorrect` | `TypeOK` | | `TypeInv`: types, what `pc` implies about the local variables (`PlaceOK`) and about an override in flight (`OverrideOK`) |
| `PromotionProofs!Traceability`, `Justification`, `EnrolmentOnce`, `AssignmentsSound` | `ResultsTraced`, `EnrolmentsJustified`, `EngineEnrolsOnce`, `AssignmentsFollowEnrolment` | nothing: every fault may happen, lock takeovers too | `TableSteps` shows that each of the forty-odd actions either only adds courses and enrolment requests or removes unused courses (`Enrols`), or appends one result with its course, enrolment and subjects (`Decides`); each invariant is preserved by both |
| `PromotionProofs!DestinationSound` | `DestinationsAgree` | nothing | `DestInv`: each destination a run or an override still needs is in the set it carries |
| `PromotionProofs!MutualExclusion`, `Idempotency` | `NoConcurrentExecution`, `OneEngineResult` | `LockAssumption`: no heartbeat gets old, previews do not overlap | `LockInv`: the status says who owns a year and no preview is about to reset it; `ClaimInv`: a student between the check and the commit has no engine result yet |
| `PromotionProofs!Refines` | `Spec => LifecycleKept` | `LifecycleAssumption`: in addition the audit queue does not fail after completion, and so `catch` never follows `Finalize` (`CatchInv`) | each step is a step of `PromotionLifecycle` or a stutter |
| `PromotionProofs!NobodyForgotten` | `NoStudentForgotten` | `NothingFails`: no query, queue or course fails, the dtos of overrides name no year, nobody is enrolled or asked for in two years in a row. Runs may crash, be taken for dead and overlap | `YearInv`: a result sends to the year after its own, so that nobody reaches a roster with a result of that year; `ProgressInv`: enrolments from the start stay, and while a run has its list each of their students has a result or is still to come in it |
| `PromotionProofs!StatisticsSound`, `StatisticsOfRuns` | `SummaryNeverOvercounts` | `LockAssumption`, and of every step `QuietOverride`: no override commits while a run or a recalculation is under way; or nobody overrides | `StatisticsInv`: what a run has created, what a recalculation has read and what is stored without the flag agree with the effective results (`Within`), and a student about to be decided has none |
| `SpaceReservationsProofs!TypeCorrect` | `TypeOK` | | |
| `SpaceReservationsProofs!ConflictDetection`, `SpaceRemoval` | `NoDoubleBooking`, `RemovedSpaceWasFree` | `OneBooker` | `SlotInv`: a slot that was checked is still free when it is booked, since others only release; `SpaceInv`: a space about to be removed has no coming booking |
| `ChatProofs!TypeCorrect` | `TypeOK` | | `TypeInv` adds that calls name rows that exist and members have rooms |
| `ChatProofs!NotificationsComplete`, `OneRoomPerPair` | `CountedAreNotified`, `DirectRoomsConverge` | nothing | `NotifyInv`, `PairInv` |
| `ChatProofs!BadgeNeverOvercounts`, `BadgeExact` | `UnreadNeverOvercounts`, `UnreadExact` | nothing | `CallsInv`: found messages are of the room and not the reader's; a tidy user has one call in flight and nothing else reads for the user |
| `MessagingProofs!TypeCorrect`, `OnlineWhileConnected`, `NoEternalPresence` | `TypeOK`, `ConnectedIsOnline`, `KeysExpire` | nothing beyond the meaning of `Faulty` | `NoDel`: no disconnection of a user that is not faulty finds its socket missing, so no key is deleted under an open tab |
| `MessagingProofs!NothingUnsent` | `PublishedIsQueued` | nothing | inductive as it stands |
| `MessagingProofs!RepeatsCounted` | `RepeatsBounded` | finitely many callers and executions, positive attempts (`DeliveryAssumption`) | `JobsInv`: a lock has one holder and its job is active, and `Budget` bounds attempts and stalls by the job's state; `CountInv`: the rows of a recipient and the executions that may still store one are together at most the starts of all jobs; `ChatInv`: until two executions overlap there is one, and who it has still to tell has no row |
| `MessagingProofs!TypesCorrect` | `Types` of `messaging` | | the parts by themselves |
| `AcademicRecordsProofs!TypeCorrect` | `TypeOK` | | |
| `AcademicRecordsProofs!ClosedStaysFrozen`, `FromFailureOnly`, `WindowsStayKept` | `ClosedIsFrozen`, `PendingFromFailure`, `WindowsAreKept` | nothing: any number of requests, any settings | `ReqInv`: what a request outside `overtaken` has checked is still true (`Reliable`): the slot is open or failed, the settings are those it has seen, its update changes nothing the settings do not let it change. One case per action, for the request that acts and for the others |
| `AcademicRecordsProofs!FutureIsEmpty`, `PromotionIsTold` | `NoFutureResults`, `ChangesAreTold` | nothing | `RecordsInv`: the active period is at most `reached`, an update in flight, late or not, carries no result beyond it; `untold` is empty unless the year is completed |
| `RecordsProofs!TypeCorrect` | `TypeOK` | | `CallOK`: what the step of a call says of its row and of its checks; `RowsStay`: a step changes nothing of a row but its status |
| `RecordsProofs!RowsUnique` | `OneRowPerDay` | nothing | `CreatingInv`: whoever is about to create a course row for a student and a day has found none and there is none, or the student is in `raced`; of two such calls one has raced |
| `RecordsProofs!RecordsUnique` | `OneRecordPerThreshold` | nothing | `ChecksInv`: two checks of one student are in `overlapped`; one about to create a record has found none, and none has come since |
| `RecordsProofs!RecordsEarned` | `RecordsDeserved` | nothing | `PeakInv`: `peak` is at least the absences of now, and at least every threshold a running check has still to deal with |
| `RecordsProofs!ReachedIsRecorded` | `AbsencesRecorded` | `PositiveThresholds`: `UpdateInstitutionDto` demands it, `POST /attendance/justifications/thresholds` does not, and everybody reaches 0 unrecorded | `RecordedInv`: the absences of a student that no bulk call has still to list (`Settled`) are fewer than the threshold, or it is recorded, or a check is due that will count or create. When all calls are answered every absence is settled and nothing is due |
| `RecordsProofs!JustifiedAbsence` | `OnlyAbsencesJustified` | nothing | `JustifyInv`: the row of a call about to justify is ABSENT, or the call is in `superseded` |
| `InstitutionProofs!OnlyOnce` | `LookedUpFirst` | `InstitutionAssumption`, `ScreensAssumption` | each part keeps an invariant of its own, since the others stand still. `SGInv`: two calls that add to groups of one sport share no student outside `inTwoCalls`, and a group of a sport about to be removed is `late`; `NInv`: an invitation about to be written is the only one for its email; `LInv`: the places a reorder has still to give, put in, differ, and every call knows whether it has the list to itself; `FInv`: a form whose button waits has one save, and after it is blank or shut. The rows of `Attendance` come from `RowsUnique` and `RecordsUnique` |
| `InstitutionProofs!WritesSurvive` | `WritesKept` | the same | `UInv`: the one call that sets a role carries the highest one held; `SInv`: a call knows the last value sent of each key, but for what was written since it read; `YInv`: snapshots are nested, so that two activations meet at a lock; `AInv`: the numbers that grades will have after the swap under way differ; `GInv`: the screen, each cached grid and a save under way agree with what is stored but for the cells written since; `EInv`: what a row would send was typed for the slot selected; `FWritesInv`: a row is as it was last meant, or a save that will make it so is under way |
| `InstitutionProofs!NothingLeft` | `NothingLeftBehind` | the same, `RecordsAssumption` and `PositiveThresholds` | `BInv`: what each loop of the backfill has dealt with is filled in (`BLoops`), and whatever an earlier run has filled in is right (`BRight`); the repair compares counts only, and `BTells` shows that this is enough: what an institution has of the catalog is a subset of it. `EShownInv`: with no timer running, the copy that saves look at is the sheet itself (`EWaits`). `RecordsEarned` and `ReachedIsRecorded` give the rest |
| `InstitutionProofs!ShownTrue` | `ShownIsTrue` | the same but for `PositiveThresholds` | `RInv`: while a report is made, what is true of a period is among what was seen of it, and so is the mean of the grades that were read, unless the period was closed in between and they are the same (`RReading`); a column of one period is such a mean (`RColumn`). `EShownInv`: a row marked as saved is stored, one that is being saved holds what was sent and has its request under way or stored (`ESettled`); `GShownInv`: a cell that was clicked is in the save under way, or stored (`GClicked`); `HInv`: pages follow one another, those shown and those of a request (`HFollow`); `FShownInv`: a form that is open is filled from its own row (`FOwn`); `QInv`: a query that shows what a mutation writes is refreshed by it, or the pair is in `Missed` |
| `InstitutionProofs!JudgedByRecords` | `JudgedFairly` | the same | each evaluation that gets better moves one from a count to a higher one (`TRaised`), which no strategy punishes but for the tie; `PInv`: while records only rise, the data read so far are no worse than the records were at first and no better than they are now, and the other way round (`PUpwards`, `PDownwards`), since each rule is monotone (`PNoWorse`, `PNoLess`) |
| `InstitutionProofs!TypesCorrect` | `Types` | the same | a conjunct of each part's invariant |
| `RecordsProofs!BackfillSound`, `ReportSound`, `JudgementSound`, `VerdictSound` | the properties of `Backfill`, `Reports`, `Trayectoria` and `PromotionRules`, of their own specifications | `RecordsAssumption` | `BInv`, `RInv`, `PInv` as above |
| `ScreenProofs!SheetSound`, `GridSound`, `RoomSound`, `FormsSound`, `AnswersSound` | those of `BulkEntry`, `EvaluationGrid`, `ChatHistory`, `Forms` and `QueryCache` | `ScreensAssumption` | `EInv` and `EShownInv`, and so on |
| `InstitutionProofs!SportGroupsSound`, `InvitationsSound`, `SchoolYearsSound`, `SettingsSound`, `UsersSound`, `StructureSound`, `IndicatorsSound` | those of the services that they name | `InstitutionAssumption` | `SGInv`, `NInv` and so on |

The invariants were checked by TLC on the instances of the runs before they were
proved: `YearInv` and `ProgressInv` on `promotion_takeover`, `StatisticsInv` with a run,
an override and a recalculation (it fails without `QuietOverride`), `JobsInv`, `CountInv`
and `ChatInv` on `messaging`, and those of `Attendance` and of the other parts on `institution`.

The six theorems about `institution` speak of `MCSpec`, whose guards and initial states
bound its run. The others of `RecordsProofs`, `ScreenProofs` and `InstitutionProofs` are
about each part by itself, its own `Init` and `Next`, where no bound of the run is left:
behaviours have any number of calls, saves and late writes, and start from any initial
state of the part. All sizes are constants, those in the INSTANCEs too: rows, users,
emails, courses, institutions, catalogs, periods, scores, aggregations, pending
subjects, presences, students and slots of the sheet, cells, values and messages are
arbitrary sets or numbers. The elements that `MCRecords`, `MCScreens` and
`MCInstitution` name (`inst1`, `x1` and so on) serve the initial states of the run only.

`RecordsAssumption`, `InstitutionAssumption` and `ScreensAssumption` say that null and the
other marks are no rows or calls, that scores and counts are numbers, that the levels and
grades of the catalog, the marks and grades of a student and the messages are finite, that
the catalog has a grade for each level, that columns are of the periods of the report, that
there is a row to edit and that `MaxOrder` has room for all indicators; TLC evaluates them.

`Trayectoria`, `Reports` and `PromotionRules` compute with the folds of the community
modules. A fold is a recursive function on the subsets of a finite set, so its value is not
found by expanding it; `RecordsProofs` shows once, from well-foundedness, that such a
function exists (`FoldExists`), that two which go together on one step go together
(`FoldSame`), and that a sum of natural numbers is one and splits at any element
(`SumAdds`, `SumFour`). The strategies, the mean of a column and the rule of the average
rest on these; the sum of doubles behind an average of exactly 7 is what `data.rounded`
leaves open.

Every safety property that a run of expectation `pass` checks is proved. Only
model-checked are `ExecuteTerminates`, `GhostsFade` and `ToldOrGivenUp`, which are
liveness, out of the prover's reach, and of course what the four `claim_` runs refute.

The assumptions mark where the code's guarantee ends. Without `LockAssumption`
or `OneBooker` the properties are false of the code, as `claim_idempotent` and
`claim_double_booking` show. Without `NothingFails` a student whose transaction rolls back
is left out, and the run completes the year all the same. Without `QuietOverride` the last
write of a run or of a recalculation clears the mark that an override has just set, and
the statistics go on counting the result that was overridden.

## 5. Where the code departs from its documentation

Shown by a run (`findings` in `PROJECT.json` quotes the lines):

- `claim_idempotent`: two runs, one with a lost lock, store two results for a
  graduating student.
- `claim_orphan`: the only year of an institution that crashes stays EXECUTING;
  `execute()` refuses it before it looks for stale executions.
- `claim_double_booking`: two requests book one slot.
- `claim_departure`: `userOffline` is not sent when the last tab closes.

Met while modelling, and true of the models, but without a run of their own:

- *Promotion* (`docs/plans/promotion-technical-design.md`): two runs at once
  after a takeover (:1342); a failing audit queue puts COMPLETED back to PREVIEWED
  (:1106) and any failure puts EXECUTING back, not only a stale heartbeat (:1103);
  a preview that is under way overwrites EXECUTING or COMPLETED (:1108); an
  override checks the status before its transaction (:1349); a destination course
  can be created twice (:1245); subjects are copied whatever their type (:1244);
  the statistics written by a run ignore overrides (:1249);
  `dto.toSchoolYearId` lets an override name a year that is not the next
  (:1333, :1334).
- *Promotion rules*: an average of exactly 7 may come out as 6.999... in one order
  of the rows and as 7 in another (9.7, 7.1, 4.2), and no query orders them; the
  records are read at three moments; justified absences count as absences; the rule
  on core subjects never applies, since the list it is given is empty.
- *Reservations*: a partial update can store an end before its start.
- *Chat* (`docs/CHAT.md:209`): the counter falls below the number of unread
  messages when a message is read twice or is the reader's own, below zero with
  two bulk reads at once, and to -1 when a new member opens a room with history;
  `lastMessageAt` can go back; a DIRECT room can get a third member; `createRoom` does
  not ask the policy that `sendMessage` asks; messages of the millisecond in which a
  page ends are skipped by its cursor.
- *Presence*: a socket whose key has expired deletes the key of tabs opened since
  (`docs/CHAT.md:829`, :838); the frontend sends no heartbeat yet.
- *Records*: a pending subject in a terminal state can get any other status
  (`docs/modules/pending-subjects.md:64`); a past period can be edited late
  (:99) by a request that read the settings before they changed, which is what
  `WindowsAreKept` excuses. No document speaks of two more excuses the
  properties need: a grade whose period was checked before the closing is still
  written after it (`Overtaken`), and an updated grade whose queue fails leaves a
  completed promotion unmarked (`Faulty`).
- *Attendance*: `AttendanceService.create` fails on the null in its upsert's key
  before it writes; two bulk calls make two rows of one day, two checks two records
  of one threshold; a row that changed since it was read is justified all the same.
- *Sport groups*: `create` and `update` put students on a roster without the search
  for conflicts that `addStudents` makes.
- *Users*: two changes of level roles at once, or a call that stops before its last
  query, leave a role that is not the highest; `revokeLeave` racing `remove` leaves a
  removed user ACTIVE.
- *Settings*: `institutions.update` drops the keys of `settings.report` that it was not
  sent, though its comment says that existing keys are kept; all three writers put
  back what they have read. `resolvePeriodAggregation` looks the level up in upper
  case, so what the migration has keyed by slug is ignored.
- *School years*: a year that is created while an activation waits stays active
  beside the new one.
- *Structure*: `updateGrade` does not carry a new number to the courses; a course that
  moves to another level leaves its chat room at the old one; a course made by a
  promotion gets no room; the swap of two grades may fail by half.
- *Backfill*: indicators without a course take the grade of whichever institution
  came first for the level and number; `indicator-backfill.ts` never writes.
- *Reports*: a closing score is a `Decimal` and is appended, not added, in a column of
  several scores; the final grade of a RITE takes the first two columns only; by
  majority a better evaluation can turn TEP into TED.
- *Queues*: all handlers but the chat one repeat rows when a job is tried again;
  `docs/WORKERS.md` (:1082) says a grade is notified once; an announcement whose
  publication stops before its queue call is never sent.
- *Sheet of grades*: a row typed before the selection changed may be saved in the new
  slot; an edit during a save is marked as saved; rows keep their mark when the slot
  changes; a failed save is not tried again until the next edit; a request the page
  gave up may overwrite a newer one.
- *Grid of evaluations*: the save button stays while the next period is loading, and
  saves the old values there; a cleared cell is not sent; clicks during a save are
  forgotten by `hasChanges`; a save puts back every cell others have changed since
  the grid was read.

- *Forms*: after an announcement was edited the form for a new one shows it; dialogs
  that fill by an effect on the row keep the values of the row just created; optional
  fields that are cleared are not sent; the form of the thresholds offers the defaults
  instead of what is stored; Enter in the form of an indicator creates it twice; a late
  success closes or blanks the draft of another row; a chat draft and the selection of
  participants are carried to the next room; a student whose enrolment failed cannot be
  enrolled by trying again; a syllabus edit writes back an old status; on the page of
  pending subjects a refetch discards what was typed in other rows; the attendance tab
  can save everybody as PRESENT before its list has loaded.
- *Cache* (`Missed`): saved thresholds do not refresh the settings, grades and courses of
  a level not its `level-grades`, marks and attendance not the stale badge of the year,
  the deletion of a pending subject not the eligible ones, a promotion not students and
  courses, an uploaded avatar nothing, an edited convivencia not the statistics; sport
  attendance invalidates a key that nothing uses.

## 6. Plan

The modules so far cover the promotion and its rules, the reservations, the chat
with its presence and history, the academic records, attendance, the structure of
an institution, the queues, reports, the backfill and the screens that save
copies. What is left: `ChatPolicy` with the throttle guard; refresh
tokens; students and their guardians; and assignments of single subjects.

The project keeps a dozen runs and eight proof modules, so that all of it can be
checked in one go: a small component becomes a part of `institution`, and new
proofs join the module of their component.

## 7. Not modelled

- *Chat policy, throttle, guards*: decisions over one settings row and the user; the
  throttle's window map gets an entry per socket and handler that nobody removes,
  which no safety property of a bounded model shows.
- *Authentication, authorization, tenants*: tokens are single rows, abilities and
  guards stateless decisions with unit tests. The models are of one institution;
  what a caller of another one may reach by an id (`setActiveSchoolYear` checks no
  institution in its second statement, courses.service.ts:119) is not in them.
- *Students, guardians, subjects, convivencias, announcements* beyond what is named
  above: single rows. `sendConvivenciaNotification` has no caller.
- *Storage, health, infrastructure*: I/O. The database, Redis and the process manager
  appear as the steps and failures they allow.
- *Frontend* beyond the screens and forms above: views over the REST interface.
- *Code without a caller*: `findDirectRoom`, `handleManualSave`, `SnapshotReader`,
  `upsertPendingSubject`, `useMarkRead`, `mergeMessages`.
- *Too shallow for a property*: `toggleAvailability` loses one of two toggles at once;
  `markStaleIfCompleted` does nothing while a promotion executes, so a grade that
  changes then goes unnoticed.
