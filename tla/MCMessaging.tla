----------------------------- MODULE MCMessaging -----------------------------
(* ChatPresence and Delivery for TLC.  They share no state: part says which of *)
(* them a behaviour is about, and the other one keeps its initial state.       *)
EXTENDS ChatPresence, FiniteSets

CONSTANTS u1, u2, s1, s2, s3, c1, c2, AuditLog, Callers, Executions, Attempts, MaxStalled

VARIABLES part, kind, recipients, publishedAt, call, jobs, run, stored, gone, overlapped, refused

MCUsers == {u1, u2}
MCSockets == {s1, s2, s3}
MCFaulty == {u2}

\* JOB_OPTIONS.DEFAULT and CRITICAL; bound: 2 for the jobs that may come in pairs.
MCAttempts == [grade |-> 2, announcement |-> 2, chat |-> 3, audit |-> 5]

D == INSTANCE Delivery

ASSUME DeliveryAssumption ==
    /\ IsFiniteSet(Callers) /\ IsFiniteSet(Executions)
    /\ Attempts \in [D!Kinds -> Nat \ {0}]
    /\ MaxStalled \in Nat

deliveryVars ==
    <<kind, recipients, publishedAt, call, jobs, run, stored, gone, overlapped, refused>>

allVars == <<part, vars, deliveryVars>>

MCInit ==
    /\ part \in {"presence", "delivery"}
    /\ Init
    /\ D!Init
    /\ recipients \in {{}, {u1}, MCUsers, {AuditLog}}
    /\ part = "presence" => kind = "grade" /\ recipients = {}

\* Two jobs only where they can be for the same thing, and for one recipient.
OneJob == kind \in {"chat", "audit"} \/ recipients = MCUsers => jobs'[c2].state = "none"

MCNext ==
    \/ part = "presence" /\ Next /\ UNCHANGED <<part, deliveryVars>>
    \/ part = "delivery" /\ D!Next /\ OneJob /\ UNCHANGED <<part, vars>>

MCFairness ==
    /\ \A s \in Sockets : WF_vars(part = "presence" /\ Handler(s))
    /\ \A s \in Sockets : WF_vars(part = "presence" /\ client[s].user \notin Faulty /\ Heartbeat(s))
    /\ WF_vars(part = "presence" /\ Tick)
    /\ WF_deliveryVars(part = "delivery" /\ D!Working)

MCSpec == MCInit /\ [][MCNext]_allVars /\ MCFairness

\* Connections, keys, jobs, executions and rows have their types.
Types == TypeOK /\ D!TypeOK

\* Delivery: at least once, and how many times at most (handleChatMessage's guard).
RepeatsBounded == D!RepeatsBounded

\* Delivery: AnnouncementsService.publish leaves no published announcement unsent.
PublishedIsQueued == D!PublishedIsQueued

\* Delivery: every job ends, and a completed one reached everybody.
ToldOrGivenUp == D!ToldOrGivenUp
=============================================================================
