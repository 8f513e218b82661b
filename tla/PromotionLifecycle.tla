------------------------- MODULE PromotionLifecycle -------------------------
(***************************************************************************)
(* What the promotion promises, year by year: a status that moves only     *)
(* from null to PREVIEWED, to EXECUTING and to COMPLETED, where it stays   *)
(* (or back from EXECUTING to PREVIEWED, when a run fails), and an engine  *)
(* that decides students only while their year is EXECUTING, each at most  *)
(* once.  Promotion.tla implements it while its faults are those of        *)
(* PromotionProofs.Refines.                                            *)
(***************************************************************************)
CONSTANTS Students, Years, Null

VARIABLES
    status,   \* per year: Null, "PREVIEWED", "EXECUTING" or "COMPLETED"
    decided   \* per year: the students the engine has decided

vars == <<status, decided>>

Init ==
    /\ status = [y \in Years |-> Null]
    /\ decided = [y \in Years |-> {}]

Preview(y) ==
    /\ status[y] = Null
    /\ status' = [status EXCEPT ![y] = "PREVIEWED"]
    /\ UNCHANGED decided

Execute(y) ==
    /\ status[y] = "PREVIEWED"
    /\ status' = [status EXCEPT ![y] = "EXECUTING"]
    /\ UNCHANGED decided

Decide(y, s) ==
    /\ status[y] = "EXECUTING"
    /\ s \notin decided[y]
    /\ decided' = [decided EXCEPT ![y] = @ \cup {s}]
    /\ UNCHANGED status

Complete(y) ==
    /\ status[y] = "EXECUTING"
    /\ status' = [status EXCEPT ![y] = "COMPLETED"]
    /\ UNCHANGED decided

\* The run fails, or is found dead.
Recover(y) ==
    /\ status[y] = "EXECUTING"
    /\ status' = [status EXCEPT ![y] = "PREVIEWED"]
    /\ UNCHANGED decided

Next ==
    \E y \in Years :
        \/ Preview(y) \/ Execute(y) \/ Complete(y) \/ Recover(y)
        \/ \E s \in Students : Decide(y, s)

Spec == Init /\ [][Next]_vars
=============================================================================
