-------------------------- MODULE PromotionClaims --------------------------
(***************************************************************************)
(* Recovery of an orphaned execution as the design describes it, which the *)
(* code does not provide.                                                  *)
(***************************************************************************)
EXTENDS Promotion

\* docs/plans/promotion-technical-design.md, 10.3: after a crash with a stale
\* heartbeat, "Recovery detects stale; re-run skips processed".  execute()
\* refuses a year that is not PREVIEWED before it looks for stale executions,
\* so only the execution of another, PREVIEWED year could recover this one.
OrphanRecovered ==
    \A y \in Years :
        promotionStatus[y] = "EXECUTING" /\ heartbeat[y] = "old"
            ~> promotionStatus[y] # "EXECUTING"

\* An administrator who keeps asking for the execution, on a clock that runs.
RetrySpec ==
    /\ FairSpec
    /\ \A e \in Executors, y \in Years : SF_vars(ExecuteBegin(e, y))
    /\ \A p \in Previewers : WF_vars(PreviewWrite(p))
    /\ \A y \in Years : WF_vars(HeartbeatExpires(y))
=============================================================================
