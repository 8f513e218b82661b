------------------------------ MODULE BulkEntry ------------------------------
(***************************************************************************)
(* BulkGradesEntry: the sheet on which a teacher types the grades of a      *)
(* class, and which saves itself two seconds after the last change.  A      *)
(* slot is what the selectors above it name: a subject, a period, a type    *)
(* and a date.  useDebounce holds an older copy of the rows; the effect     *)
(* that saves reads that copy and the slot, and runs when either changes.   *)
(* Each row is a POST of its own.                                           *)
(***************************************************************************)
EXTENDS Integers, FiniteSets

CONSTANTS
    Students, Scores, Null,     \* a row that is empty, or not a number from 0 to 10, has Null
    Slots,
    Twins       \* pairs of slots that differ in type or date only

Row == [score : Scores \cup {Null}, saved : BOOLEAN, typedFor : Slots \cup {Null}]

Blank == [score |-> Null, saved |-> FALSE, typedFor |-> Null]

Post == [student : Students, slot : Slots, score : Scores, typedFor : Slots]

VARIABLES
    slot,           \* the selection, or Null while it is not complete
    rows,           \* with the slot each score was typed for (history)
    debounced,      \* debouncedRows
    timer,          \* useDebounce will copy the rows
    save,           \* the slot and scores of the pending mutation, or Null
    posts,          \* its requests that are not answered
    late,           \* requests the page no longer waits for
    grades,         \* what is stored, with where it came from
    \* history:
    unsettled,      \* rows edited during their save or since the copy that it sent, kept
                    \* while the slot changed, or with a late request
    carried,        \* rows not saved yet when the slot changed
    failed          \* a save failed since the rows last changed

vars == <<slot, rows, debounced, timer, save, posts, late, grades, unsettled, carried, failed>>

Init ==
    /\ slot = Null
    /\ rows = [r \in Students |-> Blank]
    /\ debounced = rows
    /\ timer = FALSE
    /\ save = Null
    /\ posts = {} /\ late = {}
    /\ grades = [s \in Slots |-> [r \in Students |-> Null]]
    /\ unsettled = {} /\ carried = {} /\ failed = FALSE

\* With a score; mutant: rows that are saved are sent again.
Filled(table) == {r \in Students : table[r].score # Null}

ToSave(table) == {r \in Students : table[r].score # Null /\ ~table[r].saved}

\* The rows that a save in flight is about.
Saving == IF save = Null THEN {} ELSE DOMAIN save.scores

Late(r) == \E q \in late : q.student = r

\* saveMutation.mutate: one request per row, all at once.
Mutate(table, where) ==
    LET sent == ToSave(table) IN
    /\ save' = [slot |-> where, scores |-> [r \in sent |-> table[r].score]]
    /\ posts' = {[student |-> r, slot |-> where, score |-> table[r].score,
                  typedFor |-> table[r].typedFor] : r \in sent}

\* The effect: not while a save is pending, and then nothing runs it again.
Effect(table, where) ==
    IF where # Null /\ save = Null /\ ToSave(table) # {}
    THEN Mutate(table, where) ELSE UNCHANGED <<save, posts>>

-----------------------------------------------------------------------------
(* The teacher *)

Typed(value) ==
    [score |-> value, saved |-> FALSE, typedFor |-> IF value = Null THEN Null ELSE slot]

\* updateScore, handlePasteFromExcel and fillAll: some of the rows, the last two
\* before a slot is selected as well.
Type(changed, value) ==
    /\ rows' = [r \in Students |-> IF r \in changed THEN Typed(value) ELSE rows[r]]
    /\ timer' = TRUE
    /\ unsettled' = (unsettled \ changed) \cup {r \in changed : r \in Saving \/ Late(r)}
    /\ failed' = FALSE
    /\ UNCHANGED <<slot, debounced, save, posts, late, grades, carried>>

Carry ==
    /\ unsettled' = unsettled \cup Filled(rows) \cup Filled(debounced) \cup Saving
    /\ carried' = carried \cup {r \in Filled(rows) : ~rows[r].saved}
                           \cup {r \in Filled(debounced) : ~debounced[r].saved}

\* The subject and the period are dependencies of the effect, the type and the
\* date are not.
ChangeSlot(other) ==
    /\ other # slot /\ slot # Null
    /\ slot' = other
    /\ IF {slot, other} \in Twins THEN UNCHANGED <<save, posts>> ELSE Effect(debounced, other)
    /\ Carry
    /\ UNCHANGED <<rows, debounced, timer, late, grades, failed>>

\* What was pasted before the first slot was selected is for that one.
Meant(table, first) ==
    [r \in Students |-> IF table[r].score # Null /\ table[r].typedFor = Null
                        THEN [table[r] EXCEPT !.typedFor = first] ELSE table[r]]

\* Completing the selection, as for a course that was just chosen: rows pasted
\* before that are saved as the older copy has them.
SelectSlot(first) ==
    /\ slot = Null
    /\ slot' = first
    /\ rows' = Meant(rows, first)
    /\ debounced' = Meant(debounced, first)
    /\ Effect(debounced', first)
    /\ unsettled' = unsettled \cup {r \in Students : rows[r] # debounced[r]}
    /\ UNCHANGED <<timer, late, grades, carried, failed>>

\* Choosing the course (again) empties the sheet; a refetch of its students does
\* so under the same selection.
Reload(where) ==
    /\ where \in {slot, Null}
    /\ slot' = where
    /\ rows' = [r \in Students |-> Blank]
    /\ timer' = TRUE
    /\ Carry
    /\ UNCHANGED <<debounced, save, posts, late, grades, failed>>

-----------------------------------------------------------------------------
(* The page *)

Debounce ==
    /\ timer
    /\ timer' = FALSE
    /\ debounced' = rows
    /\ Effect(rows, slot)
    /\ UNCHANGED <<slot, rows, late, grades, unsettled, carried, failed>>

Stored(q) == grades' = [grades EXCEPT ![q.slot][q.student] =
                          [score |-> q.score, typedFor |-> q.typedFor]]

\* The request is stored (an upsert by slot) and answered.
Answer(q) ==
    /\ posts' = posts \ {q}
    /\ Stored(q)
    /\ UNCHANGED <<slot, rows, debounced, timer, save, late, unsettled, carried, failed>>

\* Mutant: every row of the sheet counts as saved.
Whole == Students

\* onSuccess: whatever the row holds by now.
Saved == Saving

\* Mutant: the rows stay as they are.
Quiet ==
    /\ save # Null /\ posts = {}
    /\ save' = Null
    /\ UNCHANGED <<slot, rows, debounced, timer, posts, late, grades, unsettled, carried, failed>>

\* Rows that were typed meanwhile, when the effect could not save them, reach it
\* with the new copy.
OnSuccess ==
    /\ save # Null /\ posts = {}
    /\ rows' = [r \in Students |-> IF r \in Saved THEN [rows[r] EXCEPT !.saved = TRUE] ELSE rows[r]]
    /\ timer' = TRUE
    /\ save' = Null
    /\ UNCHANGED <<slot, debounced, posts, late, grades, unsettled, carried, failed>>

\* One request fails or times out: Promise.all does not wait for the others, and
\* any of them may still be stored.
OnError ==
    /\ posts # {}
    /\ \E q \in posts, lost \in BOOLEAN :
         LET left == IF lost THEN posts \ {q} ELSE posts IN
         /\ late' = late \cup left
         /\ unsettled' = unsettled \cup {p.student : p \in left}
    /\ posts' = {}
    /\ save' = Null
    /\ failed' = TRUE
    /\ UNCHANGED <<slot, rows, debounced, timer, grades, carried>>

StoreLate(q) ==
    /\ late' = late \ {q}
    /\ Stored(q) \/ UNCHANGED grades
    /\ UNCHANGED <<slot, rows, debounced, timer, save, posts, unsettled, carried, failed>>

Next ==
    \/ \E changed \in {{r} : r \in Students} \cup {Students}, value \in Scores \cup {Null} :
         Type(changed, value)
    \/ \E s \in Slots : ChangeSlot(s) \/ SelectSlot(s)
    \/ \E where \in Slots \cup {Null} : Reload(where)
    \/ Debounce \/ OnSuccess \/ OnError
    \/ \E q \in posts : Answer(q)
    \/ \E q \in late : StoreLate(q)

Spec == Init /\ [][Next]_vars

-----------------------------------------------------------------------------
(* Properties *)

\* Rows, requests and grades have their types.
TypeOK ==
    /\ slot \in Slots \cup {Null}
    /\ {rows, debounced} \subseteq [Students -> Row]
    /\ {timer, failed} \subseteq BOOLEAN
    /\ save # Null => save.slot \in Slots /\ save.scores \in [Saving -> Scores]
    /\ posts \subseteq Post /\ late \subseteq Post
    /\ grades \in [Slots -> [Students -> {Null} \cup [score : Scores, typedFor : Slots]]]
    /\ unsettled \subseteq Students /\ carried \subseteq Students

\* A row marked as saved shows the grade that is stored, unless it was edited
\* while it, or an older copy of it, was being saved, the slot changed under it,
\* or a request the page had given up was stored after all.
SavedIsStored ==
    \A r \in Students \ unsettled :
        rows[r].saved /\ slot # Null =>
            /\ grades[slot][r] # Null
            /\ grades[slot][r].score = rows[r].score

\* A grade is stored in the slot it was typed for, unless the slot changed while
\* the page, or its older copy of the rows, held the row as not saved: the effect
\* then saves it in the new slot.
StoredWhereTyped ==
    \A s \in Slots, r \in Students \ carried :
        grades[s][r] # Null => grades[s][r].typedFor = s

\* Once nothing is under way and no timer runs, no row waits to be saved, unless
\* a save failed: nobody tries that one again until the next change.
NothingForgotten ==
    ~timer /\ save = Null /\ slot # Null /\ ToSave(rows) # {} => failed
=============================================================================
