------------------------------- MODULE Delivery -------------------------------
(***************************************************************************)
(* From an event to the rows it leaves: the Bull jobs of one grade,         *)
(* announcement, chat message or audited change, and the processors that    *)
(* store one row per recipient.  Bull delivers at least once: it tries a    *)
(* failed job again, and takes a job from a worker that no longer renews    *)
(* its lock while that worker may well go on.  Pushes fail silently and     *)
(* leave nothing in the database; no code adds ATTENDANCE_RECORDED jobs.    *)
(***************************************************************************)
EXTENDS Integers, FiniteSets

CONSTANTS
    Users,
    AuditLog,       \* the one "recipient" of an audit job
    Callers,        \* requests that add a job; the job has the name of its call
    Executions,     \* runs of a handler that are under way at once
    Attempts,       \* JOB_OPTIONS[...].attempts, by kind
    MaxStalled,     \* Bull's maxStalledCount
    Null

Kinds == {"grade", "announcement", "chat", "audit"}

JobState == {"none", "waiting", "active", "delayed", "completed", "failed"}

Job == [state : JobState, attemptsMade : Nat, stalledCount : Nat]

NoJob == [state |-> "none", attemptsMade |-> 0, stalledCount |-> 0]

VARIABLES
    kind,           \* what the jobs are about
    recipients,     \* the guardians, members or table concerned
    publishedAt,    \* whether the announcement has one
    call,           \* the next step of each publish call
    jobs,
    run,            \* the executions of handlers, or Null
    stored,         \* how many rows each recipient has of it
    gone,           \* the grade has been deleted
    \* history:
    overlapped,     \* an execution began while another one had not ended
    refused         \* a call ended between publishing and adding its job

vars == <<kind, recipients, publishedAt, call, jobs, run, stored, gone, overlapped, refused>>

Init ==
    /\ kind \in Kinds
    /\ recipients \in IF kind = "audit" THEN {{AuditLog}} ELSE SUBSET Users
    /\ publishedAt = FALSE
    /\ call = [c \in Callers |-> "findOne"]
    /\ jobs = [c \in Callers |-> NoJob]
    /\ run = [e \in Executions |-> Null]
    /\ stored = [u \in Users \cup {AuditLog} |-> 0]
    /\ gone = FALSE
    /\ overlapped = FALSE
    /\ refused = FALSE

Queued(c) == jobs[c].state # "none"

Add(c) == jobs' = [jobs EXCEPT ![c].state = "waiting"]

-----------------------------------------------------------------------------
(* The calls *)

\* GradesService.create is an upsert: the same grade may come several times.
\* A message and an audited change have one job.
AddJob(c) ==
    /\ kind # "announcement"
    /\ IF kind = "grade" THEN ~Queued(c) ELSE \A d \in Callers : ~Queued(d)
    /\ Add(c)
    /\ UNCHANGED <<kind, recipients, publishedAt, call, run, stored, gone, overlapped, refused>>

\* GradesService.remove.  Its jobs stay in the queue, and a call of create that
\* has stored the grade may still add one.
DeleteGrade ==
    /\ kind = "grade" /\ ~gone
    /\ gone' = TRUE
    /\ UNCHANGED <<kind, recipients, publishedAt, call, jobs, run, stored, overlapped, refused>>

(* AnnouncementsService.publish *)

PublishBegin(c) ==
    /\ kind = "announcement" /\ call[c] = "findOne" /\ ~publishedAt
    /\ call' = [call EXCEPT ![c] = "update"]
    /\ UNCHANGED <<kind, recipients, publishedAt, jobs, run, stored, gone, overlapped, refused>>

\* Mutant: the job is added by whoever publishes next.
UpdateOnly(c) ==
    /\ call[c] = "update"
    /\ publishedAt' = TRUE
    /\ call' = [call EXCEPT ![c] = "findOne"]
    /\ UNCHANGED <<kind, recipients, jobs, run, stored, gone, overlapped, refused>>

PublishUpdate(c) ==
    /\ call[c] = "update"
    /\ publishedAt' = TRUE
    /\ call' = [call EXCEPT ![c] = "add"]
    /\ UNCHANGED <<kind, recipients, jobs, run, stored, gone, overlapped, refused>>

PublishAdd(c) ==
    /\ call[c] = "add"
    /\ Add(c)
    /\ call' = [call EXCEPT ![c] = "done"]
    /\ UNCHANGED <<kind, recipients, publishedAt, run, stored, gone, overlapped, refused>>

\* A query or Redis fails, or the process stops.
PublishFails(c) ==
    /\ call[c] \in {"update", "add"}
    /\ call' = [call EXCEPT ![c] = "findOne"]
    /\ refused' = (refused \/ call[c] = "add")
    /\ UNCHANGED <<kind, recipients, publishedAt, jobs, run, stored, gone, overlapped>>

-----------------------------------------------------------------------------
(* Bull *)

Running(e) == run[e] # Null

Start(e, c) ==
    /\ ~Running(e) /\ jobs[c].state = "waiting"
    /\ jobs' = [jobs EXCEPT ![c].state = "active"]
    /\ run' = [run EXCEPT ![e] = [job |-> c, step |-> "load", todo |-> {}, lock |-> TRUE]]
    /\ overlapped' = (overlapped \/ \E f \in Executions : Running(f))
    /\ UNCHANGED <<kind, recipients, publishedAt, call, stored, gone, refused>>

\* Without the lock, how an execution ends is nothing to the job.
JobEnds(e, job) ==
    jobs' = IF run[e].lock THEN [jobs EXCEPT ![run[e].job] = job] ELSE jobs

AfterFailure(job) ==
    LET made == job.attemptsMade + 1 IN
    [job EXCEPT !.attemptsMade = made,
                !.state = IF made < Attempts[kind] THEN "delayed" ELSE "failed"]

\* The backoff is over.
Retry(c) ==
    /\ jobs[c].state = "delayed"
    /\ Add(c)
    /\ UNCHANGED <<kind, recipients, publishedAt, call, run, stored, gone, overlapped, refused>>

\* The event loop was blocked for too long, or Redis was out of reach.
LosesLock(e) ==
    /\ Running(e) /\ run[e].lock
    /\ run' = [run EXCEPT ![e].lock = FALSE]
    /\ UNCHANGED <<kind, recipients, publishedAt, call, jobs, stored, gone, overlapped, refused>>

WorkerStops(e) ==
    /\ Running(e)
    /\ run' = [run EXCEPT ![e] = Null]
    /\ UNCHANGED <<kind, recipients, publishedAt, call, jobs, stored, gone, overlapped, refused>>

AfterStall(job) ==
    LET count == job.stalledCount + 1 IN
    [job EXCEPT !.stalledCount = count,
                !.state = IF count > MaxStalled THEN "failed" ELSE "waiting"]

\* moveStalledJobsToWait
Stalled(c) ==
    /\ jobs[c].state = "active"
    /\ ~ \E e \in Executions : Running(e) /\ run[e].job = c /\ run[e].lock
    /\ jobs' = [jobs EXCEPT ![c] = AfterStall(@)]
    /\ UNCHANGED <<kind, recipients, publishedAt, call, run, stored, gone, overlapped, refused>>

-----------------------------------------------------------------------------
(* The processors *)

\* Mutant: no guard against repetition.
Everyone == recipients

\* handleChatMessage skips who has a notification of the message.
Pending == IF kind = "chat" THEN {u \in recipients : stored[u] = 0} ELSE recipients

\* handleGradeCreated returns if the grade is not there, and the job is completed.
Loaded == IF gone THEN {} ELSE Pending

Load(e) ==
    /\ Running(e) /\ run[e].step = "load"
    /\ run' = [run EXCEPT ![e] = [@ EXCEPT !.step = "write", !.todo = Loaded]]
    /\ UNCHANGED <<kind, recipients, publishedAt, call, jobs, stored, gone, overlapped, refused>>

Store(e, u) ==
    /\ Running(e) /\ u \in run[e].todo
    /\ stored' = [stored EXCEPT ![u] = @ + 1]
    /\ run' = [run EXCEPT ![e].todo = @ \ {u}]
    /\ UNCHANGED <<kind, recipients, publishedAt, call, jobs, gone, overlapped, refused>>

\* Mutant: the handler does not wait for its writes.
Answered(e) == run[e].step = "write"

Done(e) == run[e].step = "write" /\ run[e].todo = {}

Complete(e) ==
    /\ Running(e) /\ Done(e)
    /\ JobEnds(e, [jobs[run[e].job] EXCEPT !.state = "completed"])
    /\ run' = [run EXCEPT ![e] = Null]
    /\ UNCHANGED <<kind, recipients, publishedAt, call, stored, gone, overlapped, refused>>

\* What is still written after an error: handleChatMessage writes one row after
\* the other and stops; the others await Promise.all, which stops nothing.
Rest(e, u) == IF kind = "chat" THEN {} ELSE run[e].todo \ {u}

\* The error is thrown again, for Bull to try the job again.
LoadFails(e) ==
    /\ Running(e) /\ run[e].step = "load"
    /\ JobEnds(e, AfterFailure(jobs[run[e].job]))
    /\ run' = [run EXCEPT ![e] = Null]
    /\ UNCHANGED <<kind, recipients, publishedAt, call, stored, gone, overlapped, refused>>

StoreFails(e, u) ==
    /\ Running(e) /\ u \in run[e].todo
    /\ JobEnds(e, AfterFailure(jobs[run[e].job]))
    /\ run' = [run EXCEPT ![e] =
         IF Rest(e, u) = {} THEN Null
         ELSE [@ EXCEPT !.todo = Rest(e, u), !.lock = FALSE]]
    /\ UNCHANGED <<kind, recipients, publishedAt, call, stored, gone, overlapped, refused>>

-----------------------------------------------------------------------------
Handle(e) ==
    \/ Load(e) \/ Complete(e) \/ LoadFails(e)
    \/ \E u \in Users \cup {AuditLog} : Store(e, u) \/ StoreFails(e, u)

StartJob(c) == \E e \in Executions : Start(e, c)

Next ==
    \/ \E c \in Callers :
         \/ AddJob(c) \/ PublishBegin(c) \/ PublishUpdate(c) \/ PublishAdd(c)
         \/ PublishFails(c) \/ StartJob(c) \/ Retry(c) \/ Stalled(c)
    \/ DeleteGrade
    \/ \E e \in Executions : Handle(e) \/ LosesLock(e) \/ WorkerStops(e)

Spec == Init /\ [][Next]_vars

\* The workers and Bull's timers go on; a query may always fail.
Working ==
    \/ \E c \in Callers : StartJob(c) \/ Retry(c) \/ Stalled(c)
    \/ \E e \in Executions : Handle(e)

Fairness == WF_vars(Working)

FairSpec == Spec /\ Fairness

-----------------------------------------------------------------------------
(* Properties *)

\* Jobs, executions and rows have their types.
TypeOK ==
    /\ kind \in Kinds
    /\ recipients \in (SUBSET Users) \cup {{AuditLog}}
    /\ publishedAt \in BOOLEAN
    /\ call \in [Callers -> {"findOne", "update", "add", "done"}]
    /\ jobs \in [Callers -> Job]
    /\ run \in [Executions -> [job : Callers, step : {"load", "write"},
                                todo : SUBSET recipients, lock : BOOLEAN] \cup {Null}]
    /\ stored \in [Users \cup {AuditLog} -> Nat]
    /\ gone \in BOOLEAN
    /\ overlapped \in BOOLEAN
    /\ refused \in BOOLEAN

\* handleChatMessage's guard: however often its job is tried, nobody is notified
\* of a message twice, unless a worker that lost the job was still at it when
\* the next attempt began.  The other handlers have no guard; failures, loose
\* writes and stalls together cannot repeat a row more often than the attempts
\* and the stalls a job is allowed.
RepeatsBounded ==
    /\ kind = "chat" /\ ~overlapped => \A u \in Users : stored[u] <= 1
    /\ \A u \in Users \cup {AuditLog} :
         stored[u] <= Cardinality({c \in Callers : Queued(c)}) * (Attempts[kind] + MaxStalled)

\* An announcement that says it is published has a job or is about to: publish
\* refuses a second call, so nobody else would add one.  Not so if the first
\* call ended just before it added the job.
PublishedIsQueued ==
    publishedAt => refused \/ \E c \in Callers : Queued(c) \/ call[c] = "add"

\* Every job ends, and one that completes has reached everybody concerned, unless
\* the grade it was about has been deleted.
ToldOrGivenUp ==
    \A c \in Callers :
        Queued(c) ~> \/ jobs[c].state = "failed"
                     \/ /\ jobs[c].state = "completed"
                        /\ gone \/ \A u \in recipients : stored[u] > 0
=============================================================================
