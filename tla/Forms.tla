-------------------------------- MODULE Forms --------------------------------
(***************************************************************************)
(* The forms of the frontend: dialogs, cards and tabs that edit a row or     *)
(* create one.  They are written by hand, each with its own rules about when *)
(* its fields are filled, blanked and kept, so a form is a record of those   *)
(* rules, read from its component; the actions are the same for all.  A      *)
(* behaviour follows one field of one form.                                 *)
(***************************************************************************)
EXTENDS Integers, FiniteSets

CONSTANTS
    Rows, Values,
    Blank,          \* the field is empty, or holds its default
    Null, New       \* no row, and a row that does not exist yet

-----------------------------------------------------------------------------
(* The rules *)

\* A dialog for new rows: it is not filled when it opens and keeps what was typed
\* when it is cancelled; a success closes and blanks it; its button is disabled
\* while a save is pending.
Dialog ==
    [targets |-> {New}, new |-> "keep", cancelled |-> "keep", saved |-> "blank",
     guard |-> TRUE, remounts |-> FALSE, stays |-> FALSE, live |-> "no", reads |-> TRUE,
     clears |-> "refused"]

CreateCourseDialog == Dialog
CreatePeriodDialog == Dialog
CreateSchoolYearDialog == Dialog
CreateUserDialog == Dialog
CreateStudentDialog == Dialog
CreateInstitution == Dialog
InvitationsTab == Dialog
AssignSubjectDialog == Dialog
CoursesCard == Dialog
ResetPasswordDialog == Dialog
ChangePassword == Dialog

\* The date of a leave is never blanked.
LeaveDialog == [Dialog EXCEPT !.saved = "keep"]
LeaveActions == LeaveDialog
StatusCard == LeaveDialog

\* Closing blanks these as well (the last one by its cross, not by its button).
CreateGradeDialog == [Dialog EXCEPT !.cancelled = "blank"]
OverrideDialog == CreateGradeDialog
CourseSubjectsCard == CreateGradeDialog
NewMessageDialog == [Dialog EXCEPT !.cancelled = "either"]

\* These write something new into a row: the reason why an absence is justified,
\* members and messages of a room.
HistoryTab == [Dialog EXCEPT !.targets = Rows, !.cancelled = "blank", !.reads = FALSE]
AddParticipantsDialog == [HistoryTab EXCEPT !.cancelled = "either"]
MessageInput == [HistoryTab EXCEPT !.cancelled = "keep", !.stays = TRUE]

\* Always there: a success blanks it, leaving the page forgets it.
RoleCard == [Dialog EXCEPT !.stays = TRUE, !.new = "blank", !.remounts = TRUE]
LevelRolesDialog == [Dialog EXCEPT !.stays = TRUE]

\* The Enter key adds without asking whether a save is pending.
AddIndicator == [RoleCard EXCEPT !.guard = FALSE]

\* Filled by an effect that runs when the row changes: the form for a new row is
\* filled when a row has been left, not when it opens.
RowDialog ==
    [Dialog EXCEPT !.targets = Rows \cup {New}, !.cancelled = "left", !.saved = "left"]

SubjectDialog == [RowDialog EXCEPT !.clears = "sent"]
EducationLevelDialog == RowDialog
LevelGradeDialog == RowDialog

\* Filled by an effect that runs when it opens; the description is optional.
CreateSpaceButton == [Dialog EXCEPT !.new = "blank", !.saved = "keep", !.clears = "omitted"]
CreateReservation == CreateSpaceButton
CreateSportButton == [CreateSpaceButton EXCEPT !.clears = "refused"]
CreateSportGroupButton == CreateSportButton

\* Mounted for the row that is edited: another mount knows of no pending save.
SpacesTable ==
    [CreateSpaceButton EXCEPT !.targets = Rows, !.remounts = TRUE]
SportsTable == [SpacesTable EXCEPT !.clears = "refused"]
SportGroupsTable == SportsTable
PlanDialog == SportsTable

\* One row has forms of its own.
OneRow == {CHOOSE r \in Rows : TRUE}

\* Its reservation is that of the list, so a refetch fills it while it is open.
ReservationCard ==
    [CreateReservation EXCEPT !.targets = OneRow, !.live = "refill"]

\* Filled by the button that opens it, as its defaults too; a success goes back to
\* these, which are then still those of the row.
AnnouncementsPage ==
    [RowDialog EXCEPT !.cancelled = "blank", !.saved = "back"]
ConvivenciasPage == [AnnouncementsPage EXCEPT !.saved = "blank"]

EditIndicator ==
    [RowDialog EXCEPT !.targets = Rows, !.cancelled = "keep", !.saved = "keep", !.guard = FALSE]

\* A tab of the settings: mounted with the row, and for some filled again whenever
\* a refetch brings another one.
SettingsTab ==
    [SpacesTable EXCEPT !.targets = OneRow, !.stays = TRUE, !.clears = "sent"]

ReportSettingsTab == SettingsTab
AbsenceSettingsTab == SettingsTab
GeneralTab == [SettingsTab EXCEPT !.live = "refill", !.clears = "omitted"]
PendingSubjectsTab == [SettingsTab EXCEPT !.live = "refill"]
PersonalInfoCard == [GeneralTab EXCEPT !.remounts = FALSE]
\* What was not typed here is what the last fetch brought, if the tab was mounted
\* before the first one.
ReportsSettingsTab == [SettingsTab EXCEPT !.live = "untouched"]

\* Starts from fixed thresholds, never from those of the institution.
ThresholdsConfig ==
    [Dialog EXCEPT !.targets = OneRow, !.saved = "keep", !.reads = FALSE, !.clears = "sent"]

Forms ==
    {CreateCourseDialog, CreatePeriodDialog, CreateSchoolYearDialog, CreateUserDialog,
     CreateStudentDialog, CreateInstitution, InvitationsTab, AssignSubjectDialog, CoursesCard,
     ResetPasswordDialog, ChangePassword, LeaveDialog, LeaveActions, StatusCard,
     CreateGradeDialog, OverrideDialog, CourseSubjectsCard, NewMessageDialog,
     HistoryTab, AddParticipantsDialog, MessageInput, RoleCard, LevelRolesDialog, AddIndicator, SubjectDialog,
     EducationLevelDialog, LevelGradeDialog, CreateSpaceButton, CreateReservation,
     CreateSportButton, CreateSportGroupButton, SpacesTable, SportsTable, SportGroupsTable,
     PlanDialog, ReservationCard, AnnouncementsPage, ConvivenciasPage, EditIndicator,
     ReportSettingsTab, AbsenceSettingsTab, GeneralTab, PendingSubjectsTab, PersonalInfoCard,
     ReportsSettingsTab, ThresholdsConfig}
-----------------------------------------------------------------------------
(* The state *)

Shown == Values \cup {Blank}

\* Two mutations may be for the same row and value.
Save == [row : Rows \cup {New}, value : Shown, nth : 1..2]

VARIABLES
    form,           \* the rules of the form that a behaviour follows
    stored,         \* the field of each row in the database
    known,          \* as the page has fetched it last
    target,         \* what the form is open for
    shown,          \* its field
    back,           \* defaultValues of react-hook-form
    saves,          \* mutations that are not answered
    pending,        \* the one that the mounted component waits for
    \* history:
    meant,          \* what the field of each row should hold: the last thing that
                    \* anyone typed and saved there
    crossed,        \* rows that were saved from a form filled before somebody else
                    \* wrote them, or while another write of them was under way
    old,            \* the row was not, or is no longer, what the form was filled with
    source,         \* the row, or New, that the value shown comes from
    draft,          \* what was typed since the form was filled
    early,          \* and was typed while a save was under way
    made            \* rows that were created from it

vars == <<form, stored, known, target, shown, back, saves, pending,
          meant, crossed, old, source, draft, early, made>>

Init ==
    /\ form \in Forms
    /\ stored \in [Rows -> Shown]
    /\ known = stored
    /\ target = Null /\ shown = Blank /\ back = Blank
    /\ saves = {} /\ pending = Null
    /\ meant = stored /\ crossed = {} /\ old = FALSE
    /\ source = Null /\ draft = Null /\ early = FALSE /\ made = 0

UnderWay(r) == \E q \in saves : q.row = r

Keep == UNCHANGED <<shown, source, back>>

Fill(value, row) ==
    /\ shown' = value
    /\ source' = row
    /\ back' = value

Clear == Fill(Blank, Null)

\* form.reset() without values.
GoBack ==
    /\ shown' = back
    /\ UNCHANGED <<source, back>>

\* Mutant: a dialog keeps the values of a row that it has been left by.
KeepLeft(rule) ==
    \/ rule \in {"keep", "either", "left"} /\ Keep
    \/ rule \in {"blank", "either"} /\ Clear
    \/ rule = "back" /\ GoBack

\* What a rule does with the field when the form is closed or blanked.
Apply(rule) ==
    \/ rule \in {"keep", "either"} /\ Keep
    \/ rule \in {"blank", "either"} /\ Clear
    \/ rule = "back" /\ GoBack
    \/ rule = "left" /\ IF target \in Rows THEN Clear ELSE Keep

-----------------------------------------------------------------------------
(* The user *)

Open(t) ==
    /\ target = Null /\ t \in form.targets
    /\ target' = t
    /\ IF t \in Rows /\ form.reads THEN Fill(known[t], t)
       ELSE Apply(form.new)
    /\ old' = (t \in Rows /\ known[t] # stored[t])
    /\ draft' = Null /\ early' = (saves # {}) /\ made' = 0
    /\ UNCHANGED <<form, stored, known, saves, pending, meant, crossed>>

Type(value) ==
    /\ target # Null /\ value # shown
    /\ shown' = value
    /\ draft' = value /\ early' = (saves # {}) /\ made' = 0
    /\ source' = target
    /\ UNCHANGED <<form, stored, known, target, back, saves, pending, meant, crossed, old>>

\* Mutant: no button is disabled.
NeverWaits == FALSE

\* The button is disabled, or its handler returns.
Waits == form.guard /\ pending # Null

Refused == shown = Blank /\ form.clears = "refused"

\* mutate or mutateAsync: row and value are those of this moment.
Submit ==
    /\ target # Null /\ ~Waits /\ ~Refused
    /\ \E q \in Save \ saves :
         /\ q.row = target /\ q.value = shown
         /\ pending' = q
         /\ saves' = saves \cup {q}
    /\ meant' = IF target \in Rows /\ draft # Null THEN [meant EXCEPT ![target] = shown]
                ELSE meant
    /\ crossed' = IF target \in Rows /\ (old \/ (UnderWay(target) /\ (form.remounts \/ ~form.guard)))
                  THEN crossed \cup {target} ELSE crossed
    /\ UNCHANGED <<form, stored, known, target, shown, back, old, source, draft, early, made>>

\* Cancel, Escape, a click outside, or leaving the tab or the page.
Cancel ==
    /\ target # Null
    /\ target' = Null
    /\ Apply(form.cancelled)
    /\ pending' = IF form.remounts THEN Null ELSE pending
    /\ draft' = Null
    /\ UNCHANGED <<form, stored, known, saves, meant, crossed, old, early, made>>

-----------------------------------------------------------------------------
(* The rest of the page, and the server *)

\* Mutant: the request is for the row that is open when it is stored.
WrittenToOpen(q) ==
    IF target \in Rows THEN [stored EXCEPT ![target] = q.value] ELSE stored

\* A cleared field that is left out of the request stays as it is.
Written(q) ==
    IF q.row \in Rows /\ ~(q.value = Blank /\ form.clears = "omitted")
    THEN [stored EXCEPT ![q.row] = q.value] ELSE stored

Done(q) ==
    /\ saves' = saves \ {q}
    /\ pending' = IF pending = q THEN Null ELSE pending

\* The callback of mutate runs for the last call only; what is not mounted any more
\* is not changed, but its parent is.
Called(q) == pending = q \/ (form.guard /\ ~(form.remounts /\ form.stays))

\* Whatever the form is open for by now, it is closed or blanked.
Answer(q) ==
    /\ Done(q)
    /\ stored' = Written(q)
    /\ IF Called(q)
       THEN /\ target' = IF form.stays THEN target ELSE Null
            /\ Apply(form.saved)
            /\ draft' = IF early /\ form.stays THEN draft ELSE Null
       ELSE /\ Keep
            /\ UNCHANGED <<target, draft>>
    /\ old' = (old \/ (target = q.row /\ shown # q.value))
    /\ made' = IF q.row = New /\ ~early THEN made + 1 ELSE made
    /\ UNCHANGED <<form, known, meant, crossed, early>>

\* The form stays as it is, whether or not the request was stored.
Fail(q) ==
    /\ Done(q)
    /\ stored' \in {stored, Written(q)}
    /\ old' = (old \/ target = q.row)
    /\ crossed' = IF q.row \in Rows THEN crossed \cup {q.row} ELSE crossed
    /\ UNCHANGED <<form, known, target, shown, back, meant, source, draft, early, made>>

\* Somebody else, or a request that was given up, writes a row.
Elsewhere(r, value) ==
    /\ stored' = [stored EXCEPT ![r] = value]
    /\ meant' = [meant EXCEPT ![r] = value]
    /\ crossed' = IF UnderWay(r) THEN crossed \cup {r} ELSE crossed
    /\ old' = (old \/ target = r)
    /\ UNCHANGED <<form, known, target, shown, back, saves, pending, source, draft, early, made>>

\* A form that is live is filled again when the row has changed, this field or
\* another.
Refetch ==
    /\ known' = stored
    /\ IF target \in Rows /\ form.live = "refill" /\ known[target] # stored[target]
       THEN Fill(stored[target], target) /\ draft' = Null /\ old' = FALSE
       ELSE IF target \in Rows /\ form.live = "untouched" /\ draft = Null
       THEN Fill(stored[target], target) /\ old' = FALSE /\ UNCHANGED draft
       ELSE Keep /\ UNCHANGED <<draft, old>>
    /\ UNCHANGED <<form, stored, target, saves, pending, meant, crossed, early, made>>

\* Another field of the row has changed.
Refill ==
    /\ target \in Rows /\ form.live = "refill"
    /\ Fill(known[target], target)
    /\ draft' = Null /\ old' = (known[target] # stored[target])
    /\ UNCHANGED <<form, stored, known, target, saves, pending, meant, crossed, early, made>>

Next ==
    \/ \E t \in Rows \cup {New} : Open(t)
    \/ \E value \in Shown : Type(value)
    \/ Submit \/ Cancel \/ Refetch \/ Refill
    \/ \E q \in saves : Answer(q) \/ Fail(q)
    \/ \E r \in Rows, value \in Values : Elsewhere(r, value)

Spec == Init /\ [][Next]_vars

-----------------------------------------------------------------------------
(* Properties *)

\* Fields, requests and histories have their types.
TypeOK ==
    /\ form \in Forms
    /\ {stored, known, meant} \subseteq [Rows -> Shown]
    /\ target \in form.targets \cup {Null}
    /\ shown \in Shown /\ back \in Shown
    /\ saves \subseteq Save /\ pending \in saves \cup {Null}
    /\ crossed \subseteq Rows /\ source \in Rows \cup {New, Null}
    /\ draft \in Shown \cup {Null}
    /\ old \in BOOLEAN /\ early \in BOOLEAN /\ made \in Nat

\* Opened for another row, it may hold what was typed for the last one: thresholds,
\* participants, messages.
CarriesOver == ~form.reads /\ form.cancelled # "blank"

\* A save changes what its user has typed and nothing else, in the row the form was
\* open for: the field of a row is what was last meant for it.  Not so if another
\* write crossed the save, if a cleared field is left out of the request, or if the
\* form never reads its row and is not blanked.
FormsKeepWrites ==
    \A r \in Rows \ crossed :
        \/ UnderWay(r) \/ stored[r] = meant[r]
        \/ form.clears = "omitted" /\ meant[r] = Blank
        \/ CarriesOver

\* A form that is open for a row shows what that row holds, unless something was
\* typed in it or the row changed after it was fetched.
FormShowsRow ==
    target \in Rows /\ form.reads /\ draft = Null /\ ~old =>
        shown = stored[target] \/ (shown = Blank /\ form.clears = "omitted")

\* A form never shows for one row, or for a new one, what was typed or fetched for
\* another, but for announcements, where a new one starts as the row edited last.
FormIsOfTarget ==
    target # Null => source \in {Null, target} \/ form.saved = "back" \/ CarriesOver

\* What was typed stays in the form, also when saving it fails, unless it was typed
\* while a save was under way, whose success closes the form or blanks it.
DraftStays == draft # Null => target # Null /\ (shown = draft \/ early)

\* What was typed creates one row, unless the Enter key submits it.
CreatedOnce == made <= 1 \/ ~form.guard
=============================================================================
