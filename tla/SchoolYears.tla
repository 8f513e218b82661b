----------------------------- MODULE SchoolYears -----------------------------
(***************************************************************************)
(* The school years of one institution and which of them is active.         *)
(* setActiveSchoolYear is a transaction of two statements under READ         *)
(* COMMITTED: the first looks for its rows in a snapshot, waits for those    *)
(* another transaction has locked and keeps them locked until the end.      *)
(* Dates and periods are left out, and so are calls from another            *)
(* institution: the second statement is by id alone (courses.service.ts:119), *)
(* and a foreign call would find no year of this one to deactivate.         *)
(***************************************************************************)
CONSTANTS Years, Requests, Null

VARIABLES
    years,      \* SchoolYear rows; (institution, year) is unique
    active,     \* those with isActive, as committed
    request,    \* the transactions: which rows they found, and the year to activate
    \* history:
    newborn     \* years created while a transaction waited for rows it had found

vars == <<years, active, request, newborn>>

Init ==
    /\ years = {} /\ active = {} /\ newborn = {}
    /\ request = [p \in Requests |-> Null]

At(p, step) == request[p] # Null /\ request[p].step = step

CreateSchoolYear(y) ==
    /\ y \notin years
    /\ years' = years \cup {y}
    /\ newborn' = IF \E p \in Requests : At(p, "wait") THEN newborn \cup {y} ELSE newborn
    /\ UNCHANGED <<active, request>>

\* Mutant: only the rows that need it are written, and locked.
OnlyActive == active

\* updateMany: every row of the institution.
Matching == years

Snapshot(p, y) ==
    /\ request[p] = Null /\ y \in years
    /\ request' = [request EXCEPT ![p] = [step |-> "wait", found |-> Matching, year |-> y]]
    /\ UNCHANGED <<years, active, newborn>>

Locked(p, rows) ==
    \E q \in Requests \ {p} :
        At(q, "locked") /\ request[q].found \cap rows # {}

Deactivate(p) ==
    /\ At(p, "wait")
    /\ ~Locked(p, request[p].found)
    /\ request' = [request EXCEPT ![p].step = "locked"]
    /\ UNCHANGED <<years, active, newborn>>

\* The second statement, and the commit of both.
Activate(p) ==
    /\ At(p, "locked")
    /\ ~Locked(p, {request[p].year})
    /\ active' = (active \ request[p].found) \cup {request[p].year}
    /\ request' = [request EXCEPT ![p] = Null]
    /\ UNCHANGED <<years, newborn>>

\* An error, or the two that wait for each other: rolled back.
Rollback(p) ==
    /\ request[p] # Null
    /\ request' = [request EXCEPT ![p] = Null]
    /\ UNCHANGED <<years, active, newborn>>

Next ==
    \/ \E y \in Years : CreateSchoolYear(y)
    \/ \E p \in Requests :
         \/ \E y \in Years : Snapshot(p, y)
         \/ Deactivate(p) \/ Activate(p) \/ Rollback(p)

-----------------------------------------------------------------------------
(* Properties *)

\* Years and activations have their types.
TypeOK ==
    /\ years \subseteq Years /\ active \subseteq years /\ newborn \subseteq years
    /\ request \in [Requests -> {Null} \cup
         [step : {"wait", "locked"}, found : SUBSET Years, year : Years]]

\* "Desactivar todos y activar solo el seleccionado": two administrators may
\* activate two years at once, and the locks see to it that one is active in the
\* end; but a year created after the rows had been found escapes.
OneActiveYear ==
    \A y, z \in active : y = z \/ y \in newborn \/ z \in newborn
=============================================================================
