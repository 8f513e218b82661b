------------------------------- MODULE Settings -------------------------------
(***************************************************************************)
(* Institution.settings, one JSON column with three writers that each read   *)
(* it, merge what the caller sent and write all of it back:                  *)
(* InstitutionsService.update, JustificationsService.updateThresholds and    *)
(* ReportsService.updateReportSettings.  The other columns are left out.    *)
(***************************************************************************)
EXTENDS Integers

CONSTANTS
    Plain,      \* keys of settings: absenceThresholds and others
    Report,     \* keys of settings.report
    Values,
    Requests,
    Null        \* no value

Keys == Plain \cup Report

absenceThresholds == CHOOSE k \in Plain : TRUE

VARIABLES
    settings,
    request,    \* a call in flight: what it has read, and the values it was sent
    \* history:
    sent,       \* the value last sent for a key
    since,      \* of a call: the keys that others have written since it read
    lost,       \* keys that were written back by a call which did not know their value
    dropped     \* keys of the report that update was not sent, but others of it were

vars == <<settings, request, sent, since, lost, dropped>>

\* What a caller may send.
Dto(keys) == UNION {[K -> Values] : K \in SUBSET keys}

Init ==
    /\ settings = [k \in Keys |-> Null]
    /\ request = [p \in Requests |-> Null]
    /\ sent = settings
    /\ since = [p \in Requests |-> {}]
    /\ lost = {} /\ dropped = {}

Read(p, op, dto) ==
    /\ request[p] = Null
    /\ request' = [request EXCEPT ![p] = [op |-> op, settings |-> settings, dto |-> dto]]
    /\ since' = [since EXCEPT ![p] = {}]
    /\ UNCHANGED <<settings, sent, lost, dropped>>

\* update: a new name alone writes the settings too.
UpdateRead(p, dto) == Read(p, "update", dto)

UpdateThresholdsRead(p, value) == Read(p, "thresholds", [k \in {absenceThresholds} |-> value])

UpdateReportSettingsRead(p, dto) == Read(p, "report", dto)

\* Mutant: the column becomes what was sent.
Replace(old, dto) == [k \in Keys |-> IF k \in DOMAIN dto THEN dto[k] ELSE Null]

Merge(old, dto) == [k \in Keys |-> IF k \in DOMAIN dto THEN dto[k] ELSE old[k]]

\* update spreads dto.settings first, and so has put the report of the dto in
\* place of the old one before it merges the two.
Forgotten(r) ==
    IF r.op = "update" /\ DOMAIN r.dto \cap Report # {} THEN Report \ DOMAIN r.dto ELSE {}

Write(p) ==
    /\ request[p] # Null
    /\ LET r == request[p]
           new == DOMAIN r.dto
       IN
       /\ settings' = [k \in Keys |-> IF k \in Forgotten(r) THEN Null
                                       ELSE Merge(r.settings, r.dto)[k]]
       /\ sent' = [k \in Keys |-> IF k \in new THEN r.dto[k] ELSE sent[k]]
       /\ since' = [q \in Requests |-> IF q = p \/ request[q] = Null THEN {} ELSE since[q] \cup new]
       /\ lost' = (lost \cup since[p]) \ new
       /\ dropped' = (dropped \cup Forgotten(r)) \ new
    /\ request' = [request EXCEPT ![p] = Null]

\* A query fails, or the process stops.
Abort(p) ==
    /\ request[p] # Null
    /\ request' = [request EXCEPT ![p] = Null]
    /\ since' = [since EXCEPT ![p] = {}]
    /\ UNCHANGED <<settings, sent, lost, dropped>>

Next ==
    \E p \in Requests :
        \/ \E dto \in Dto(Keys) : UpdateRead(p, dto)
        \/ \E value \in Values : UpdateThresholdsRead(p, value)
        \/ \E dto \in Dto(Report) : UpdateReportSettingsRead(p, dto)
        \/ Write(p) \/ Abort(p)

Spec == Init /\ [][Next]_vars

-----------------------------------------------------------------------------
(* Properties *)

Setting == [Keys -> Values \cup {Null}]

\* The settings and the calls have their types.
TypeOK ==
    /\ settings \in Setting
    /\ request \in [Requests -> {Null} \cup
         [op : {"update", "thresholds", "report"}, settings : Setting, dto : Dto(Keys)]]
    /\ sent \in Setting
    /\ since \in [Requests -> SUBSET Keys]
    /\ lost \subseteq Keys /\ dropped \subseteq Report

\* "No pisar keys existentes": a setting has the value that was last sent for
\* it, unless a call that had read the settings before has written them back,
\* or update was sent a part of the report.
SettingsKept ==
    \A k \in Keys \ (lost \cup dropped) : settings[k] = sent[k]
=============================================================================
