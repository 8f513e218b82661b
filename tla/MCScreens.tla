------------------------------ MODULE MCScreens ------------------------------
(* Screens of the frontend for TLC, as parts of MCInstitution: the sheet of     *)
(* grades, the grid of evaluations, the messages of a room, the forms and the  *)
(* answers that are kept.                                                      *)
EXTENDS Integers, FiniteSets

CONSTANTS
    None, Asked,
    SheetStudents, SheetScores, SheetSlots, Twins,    \* BulkEntry
    Cells, Valuations, GridPeriods,     \* EvaluationGrid
    Messages, MaxTime, Limit,           \* ChatHistory
    FormRows, FormValues, New,          \* Forms
    Id, Filters, MaxWrites,             \* QueryCache
    r1, r2, x1, x2, x3, f1, f2, t1, t2, LS, LP    \* some of these, for TLC

VARIABLES
    part,
    lesson,         \* the slots a behaviour of BulkEntry selects, and whom it grades
    slot, sheet, debounced, timer, sheetSave, posts, latePosts, stored,
    unsettled, carried, failed,
    evaluations, period, cache, stale, fetch, localValues, hasChanges, gridSave,
    meant, overwritten, toggled, missed, hidden, mixed, crossed,
    budget,         \* bound: of late clicks, of saves, of other people's writes
    now, sentAt, committed, pages, fetching, unseen,
    form, fields, known, target, shown, back, saves, saving, intended, formsCrossed, old,
    source, draft, early, made,
    cacheQuery, mutation, writes, cached, fresh, mounted, cacheFetch, cacheCall,
    acknowledged, cacheFailed, cacheOvertaken

MCTwins == {{x1, x3}}

E == INSTANCE BulkEntry WITH
        Students <- SheetStudents, Scores <- SheetScores, Null <- None, Slots <- SheetSlots,
        rows <- sheet, save <- sheetSave, late <- latePosts, grades <- stored
G == INSTANCE EvaluationGrid WITH
        Values <- Valuations, Periods <- GridPeriods, Null <- None, save <- gridSave
H == INSTANCE ChatHistory WITH Null <- None
F == INSTANCE Forms WITH
        Rows <- FormRows, Values <- FormValues, Blank <- Asked, Null <- None,
        stored <- fields, pending <- saving, meant <- intended, crossed <- formsCrossed
Q == INSTANCE QueryCache WITH
        query <- cacheQuery, fetch <- cacheFetch, call <- cacheCall, failed <- cacheFailed,
        overtaken <- cacheOvertaken

\* For the proofs: what stands for nothing, or for a request that was asked for, is no
\* value, row, copy or period; a new row is none of the rows that there are, of which
\* there is one to edit; an id is no filter; messages are finitely many, and pages are of
\* at least one.
ASSUME ScreensAssumption ==
    /\ None \notin F!Save \cup F!Shown \cup FormRows
    /\ New \notin FormRows \cup F!OneRow \cup {None} /\ FormRows # {}
    /\ {None, Asked} \cap G!Copy = {}
    /\ {None, Asked} \cap [period : GridPeriods,
                           values : UNION {[cs -> Valuations] : cs \in SUBSET Cells},
                           toggled : SUBSET Cells, missed : SUBSET Cells] = {}
    /\ None \notin GridPeriods \cup Valuations
    /\ Id \notin {"mine", Filters, None}
    /\ None \notin Nat \cup {"sent", "written"} /\ Asked \notin Nat \cup {None}
    /\ None \notin SheetSlots \cup SheetScores
    /\ None \notin [score : SheetScores, typedFor : SheetSlots]
    /\ None \notin [slot : SheetSlots,
                    scores : UNION {[rs -> SheetScores] : rs \in SUBSET SheetStudents}]
    /\ IsFiniteSet(Messages) /\ {MaxTime, Limit} \subseteq Nat \ {0} /\ MaxWrites \in Nat

eVars == <<lesson, slot, sheet, debounced, timer, sheetSave, posts, latePosts, stored,
           unsettled, carried, failed>>
gVars == <<evaluations, period, cache, stale, fetch, localValues, hasChanges, gridSave,
           meant, overwritten, toggled, missed, hidden, mixed, crossed>>
hVars == <<now, sentAt, committed, pages, fetching, unseen>>
fVars == <<form, fields, known, target, shown, back, saves, saving, intended, formsCrossed,
           old, source, draft, early, made>>
qVars == <<cacheQuery, mutation, writes, cached, fresh, mounted, cacheFetch, cacheCall,
           acknowledged, cacheFailed, cacheOvertaken>>

screenVars == <<eVars, gVars, hVars, fVars, qVars, budget>>

NoLesson == [slots |-> {}, students |-> {}]
Lessons == {[slots |-> {x1, x2}, students |-> {r1}], [slots |-> {x1, x3}, students |-> {r1}],
            [slots |-> {x1, x2}, students |-> {r1, r2}]}

Screens == {"bulkEntry", "evaluationGrid", "chatHistory", "forms", "queryCache"}

ScreensInit ==
    /\ form \in IF part = "forms" THEN F!Forms ELSE {F!Dialog}
    /\ fields = [r \in FormRows |-> IF r \in F!OneRow THEN 1 ELSE 2]
    /\ part # "queryCache" => cacheQuery = Q!useSpaces /\ mutation = Q!useCreateSpace
    /\ E!Init /\ G!Init /\ H!Init /\ F!Init /\ Q!Init
    /\ lesson \in IF part = "bulkEntry" THEN Lessons ELSE {NoLesson}
    /\ budget = CASE part \in {"evaluationGrid", "queryCache"} -> 2
                [] part = "forms" -> 3 [] OTHER -> 0
    /\ evaluations[t2] = G!Blank
    /\ evaluations[t1] \in
         {G!Blank} \cup IF part = "evaluationGrid" THEN {[G!Blank EXCEPT ![f1] = LS]} ELSE {}

\* Two slots, one late request.  With one student, what the properties excuse may
\* happen once; with two it does not.
BulkEntryStep ==
    /\ part = "bulkEntry" /\ E!Next
    /\ slot' \in lesson.slots \cup {None}
    /\ Cardinality(latePosts') <= 1
    /\ \A r \in SheetStudents \ lesson.students : sheet'[r] = E!Blank
    /\ IF Cardinality(lesson.students) = 2 THEN unsettled' \cup carried' = {} /\ sheet'[r2].score # 8
       ELSE unsettled' = {} \/ carried' = {}
    /\ UNCHANGED <<part, lesson, gVars, hVars, fVars, qVars, budget>>

\* Late clicks and writes elsewhere, which the budget counts.
Costly ==
    \/ hasChanges' /\ localValues' # localValues
    \/ (gridSave = None \/ gridSave' # None) /\ evaluations' # evaluations

\* The second period is empty until it is saved.
SecondPeriod ==
    /\ evaluations[t2] = G!Blank
    /\ evaluations'[t2] # evaluations[t2] => budget = 0 /\ gridSave # None
    /\ period' = t2 => localValues'[f1] # LP
    /\ fetch[t2] = Asked => fetch'[t2] # None
    /\ t2 \in stale' => t2 \in stale \/ gridSave # None

\* No behaviour is followed past a thing that the properties excuse.
EvaluationGridStep ==
    /\ part = "evaluationGrid" /\ overwritten = {} /\ crossed = {}
    /\ G!Next
    /\ SecondPeriod
    /\ localValues'[f2] # LP /\ evaluations'[t1][f2] # LP
    /\ budget >= IF Costly THEN 1 ELSE 0
    /\ budget' = IF Costly THEN budget - 1 ELSE budget
    /\ UNCHANGED <<part, eVars, hVars, fVars, qVars>>

ChatHistoryStep ==
    /\ part = "chatHistory" /\ H!Next
    /\ UNCHANGED <<part, eVars, gVars, fVars, qVars, budget>>

\* Two rows, of which one is written by others too; a user types 2 or nothing.  No
\* behaviour is followed past a thing that the properties excuse.
FormsStep ==
    /\ part = "forms" /\ formsCrossed = {}
    /\ F!Next
    /\ draft' \in {2, Asked, None}
    /\ \A r \in FormRows :
         intended'[r] # intended[r] => intended'[r] # 1 /\ (r \in F!OneRow \/ saves' # saves)
    /\ form.targets \cap FormRows = {} => fields' = fields
    /\ budget' = IF saving' \notin {saving, None} \/ intended' # intended \/ known' # known
                 THEN budget - 1 ELSE budget
    /\ budget' >= 0
    /\ UNCHANGED <<part, eVars, gVars, hVars, qVars>>

\* The budget is of pages left, of time that passes and of what fails.
QueryCacheStep ==
    /\ part = "queryCache"
    /\ \/ /\ Q!Mount \/ Q!Read \/ Q!Receive \/ Q!Mutate \/ Q!Write \/ Q!Succeed
          /\ budget' = budget
       \/ /\ Q!Unmount \/ Q!Expire \/ Q!Poll \/ Q!FetchFails \/ Q!Fail
          /\ budget > 0 /\ budget' = budget - 1
    /\ UNCHANGED <<part, eVars, gVars, hVars, fVars>>

ScreenStep ==
    BulkEntryStep \/ EvaluationGridStep \/ ChatHistoryStep \/ FormsStep \/ QueryCacheStep

ScreensTypes ==
    /\ part = "bulkEntry" => E!TypeOK
    /\ part = "evaluationGrid" => G!TypeOK
    /\ part = "chatHistory" => H!TypeOK
    /\ part = "forms" => F!TypeOK
    /\ part = "queryCache" => Q!TypeOK
=============================================================================
