--------------------------- MODULE EvaluationGrid ---------------------------
(***************************************************************************)
(* EvaluationsPage: the grid of a course and a subject in which a teacher   *)
(* clicks through the valuations of a period, and the two requests behind   *)
(* it, getCourseEvaluations and bulkUpsertEvaluations.  react-query keeps   *)
(* one cached grid per period; the page copies it into localValues when it  *)
(* becomes another one, and saves all of localValues under the period that  *)
(* is selected then.  Other pages write the same evaluations.  A cell is an *)
(* indicator and a student.                                                 *)
(***************************************************************************)
EXTENDS Integers

CONSTANTS
    Cells, Values, Periods,
    Null,       \* no valuation, no period, no grid
    Asked       \* a grid is requested and not read yet

Grid == [Cells -> Values \cup {Null}]
Blank == [c \in Cells |-> Null]

\* A grid that was read, and (history) the cells written elsewhere since.
Copy == [grid : Grid, missed : SUBSET Cells]

VARIABLES
    evaluations,    \* IndicatorEvaluation, by period and cell
    period,         \* selectedPeriod
    cache,          \* by period: the grid react-query has, or Null
    stale,          \* periods whose cached grid is to be fetched again
    fetch,          \* by period: Null, Asked, or what getCourseEvaluations has read
    localValues,
    hasChanges,
    save,           \* the pending mutation, or Null
    \* history:
    meant,          \* by period and cell: what its last writer wanted there
    overwritten,    \* <<period, cell>> a save put back to an older value
    toggled,        \* cells clicked since localValues was copied
    missed,         \* ... and cells written elsewhere since it was read
    hidden,         \* cells on the screen that no save has sent
    mixed,          \* localValues is of another period than the selected one
    crossed         \* periods that were saved from such values

copies == <<cache, stale, fetch>>
screen == <<localValues, hasChanges, toggled, missed, hidden, mixed>>
vars == <<evaluations, period, copies, screen, save, meant, overwritten, crossed>>

Init ==
    /\ evaluations \in [Periods -> Grid]
    /\ period = Null
    /\ cache = [p \in Periods |-> Null]
    /\ stale = {}
    /\ fetch = cache
    /\ localValues = Blank /\ hasChanges = FALSE
    /\ save = Null
    /\ meant = evaluations
    /\ overwritten = {} /\ crossed = {}
    /\ toggled = {} /\ missed = {} /\ hidden = {} /\ mixed = FALSE

-----------------------------------------------------------------------------
(* The grid of the selected period *)

\* Mutant: what was on the screen stays where the new grid has nothing.
Overlaid(grid) == [c \in Cells |-> IF grid[c] = Null THEN localValues[c] ELSE grid[c]]

Initial(grid) == grid

\* What the save under way will make older than it is stored.
Unsettled(p) == IF save # Null /\ save.period = p THEN DOMAIN save.values ELSE {}

\* The effect on [grid], for a grid that is there and is not the one before.
Show(p, copy) ==
    /\ localValues' = Initial(copy.grid)
    /\ hasChanges' = FALSE
    /\ toggled' = {} /\ hidden' = {} /\ mixed' = FALSE
    /\ missed' = copy.missed \cup Unsettled(p)

\* A grid in the cache is shown at once; without one the page keeps its values,
\* its changes and the button that saves them.
Select(p) ==
    /\ p # period
    /\ period' = p
    /\ IF cache[p] # Null THEN Show(p, cache[p])
       ELSE mixed' = TRUE /\ UNCHANGED <<localValues, hasChanges, toggled, missed, hidden>>
    /\ fetch' = IF fetch[p] = Null /\ (cache[p] = Null \/ p \in stale)
                THEN [fetch EXCEPT ![p] = Asked] ELSE fetch
    /\ UNCHANGED <<evaluations, cache, stale, save, meant, overwritten, crossed>>

\* staleTime.
Expire(p) ==
    /\ cache[p] # Null /\ p \notin stale
    /\ stale' = stale \cup {p}
    /\ UNCHANGED <<evaluations, period, cache, fetch, screen, save, meant, overwritten, crossed>>

\* getCourseEvaluations.
Read(p) ==
    /\ fetch[p] = Asked
    /\ fetch' = [fetch EXCEPT ![p] = [grid |-> evaluations[p], missed |-> {}]]
    /\ UNCHANGED <<evaluations, period, cache, stale, screen, save, meant, overwritten, crossed>>

\* An equal grid is the same object to react-query, and no effect runs: the page
\* goes on showing what it has made of the other one.
Same(old, new) == old # Null /\ old.grid = new.grid

Receive(p) ==
    /\ fetch[p] \notin {Null, Asked}
    /\ cache' = [cache EXCEPT ![p] = fetch[p]]
    /\ stale' = stale \ {p}
    /\ fetch' = [fetch EXCEPT ![p] = Null]
    /\ \/ p # period /\ UNCHANGED screen
       \/ p = period /\ ~Same(cache[p], fetch[p]) /\ Show(p, fetch[p])
       \/ /\ p = period /\ Same(cache[p], fetch[p])
          /\ missed' = missed \cup fetch[p].missed
          /\ UNCHANGED <<localValues, hasChanges, toggled, hidden, mixed>>
    /\ UNCHANGED <<evaluations, period, save, meant, overwritten, crossed>>

\* After one retry; a cached grid stays.
FetchFails(p) ==
    /\ fetch[p] # Null
    /\ fetch' = [fetch EXCEPT ![p] = Null]
    /\ UNCHANGED <<evaluations, period, cache, stale, screen, save, meant, overwritten, crossed>>

-----------------------------------------------------------------------------
(* The teacher *)

\* toggleValue, some clicks in a row: LFD, LS, LP, ANL, none, and again.
Toggle(c, value) ==
    /\ period # Null /\ cache[period] # Null
    /\ value # localValues[c]
    /\ localValues' = [localValues EXCEPT ![c] = value]
    /\ hasChanges' = TRUE
    /\ toggled' = toggled \cup {c}
    /\ hidden' = hidden \cup {c}
    /\ UNCHANGED <<evaluations, period, copies, save, missed, mixed, meant, overwritten, crossed>>

\* saveMutation.mutate: every valuation there is, under the selected period.  A
\* cell without one is not sent.
Sent == {c \in Cells : localValues[c] # Null}

Save ==
    /\ hasChanges /\ save = Null
    /\ save' = [period |-> period, values |-> [c \in Sent |-> localValues[c]],
                toggled |-> toggled, missed |-> missed]
    /\ hidden' = hidden \ Sent
    /\ crossed' = IF mixed THEN crossed \cup {period} ELSE crossed
    /\ UNCHANGED <<evaluations, period, copies, localValues, hasChanges, toggled, missed,
                   mixed, meant, overwritten>>

\* The save makes other copies of its period outdated.
Outdated(copy) ==
    IF copy \in {Null, Asked} THEN copy
    ELSE [copy EXCEPT !.missed = @ \cup DOMAIN save.values]

\* bulkUpsertEvaluations.
Stored ==
    LET p == save.period
        new(c) == c \in DOMAIN save.values
        own(c) == new(c) /\ c \in save.toggled
    IN
    /\ evaluations' = [evaluations EXCEPT ![p] =
                         [c \in Cells |-> IF new(c) THEN save.values[c] ELSE @[c]]]
    /\ meant' = [meant EXCEPT ![p] = [c \in Cells |-> IF own(c) THEN save.values[c] ELSE @[c]]]
    /\ overwritten' = (overwritten \ {<<p, c>> : c \in {d \in Cells : own(d)}})
                        \cup {<<p, c>> : c \in {d \in save.missed : new(d) /\ ~own(d)}}
    /\ cache' = [cache EXCEPT ![p] = Outdated(@)]

\* onSuccess: every cached grid is out of date, and the selected one is fetched,
\* again if it already is; only a first fetch, with no grid yet, goes on.
FirstFetch == cache[period] = Null /\ fetch[period] # Null

SaveSucceeds ==
    /\ save # Null
    /\ Stored
    /\ save' = Null
    /\ hasChanges' = FALSE
    /\ stale' = {p \in Periods : cache[p] # Null}
    /\ LET outdated == [fetch EXCEPT ![save.period] = Outdated(@)] IN
       fetch' = IF FirstFetch THEN outdated ELSE [outdated EXCEPT ![period] = Asked]
    /\ UNCHANGED <<period, localValues, toggled, missed, hidden, mixed, crossed>>

\* An error: the request may have been stored, and the page does not know.
SaveFails ==
    /\ save # Null
    /\ save' = Null
    /\ hidden' = IF save.period = period THEN hidden \cup DOMAIN save.values ELSE hidden
    /\ \/ UNCHANGED <<evaluations, meant, overwritten, cache, fetch, missed>>
       \/ /\ Stored
          /\ fetch' = [fetch EXCEPT ![save.period] = Outdated(@)]
          /\ missed' = IF period = save.period THEN missed \cup DOMAIN save.values ELSE missed
    /\ UNCHANGED <<period, stale, localValues, hasChanges, toggled, mixed, crossed>>

-----------------------------------------------------------------------------
\* upsertEvaluation for somebody else.
WriteElsewhere(p, c, value) ==
    LET with(copy) == IF copy \in {Null, Asked} THEN copy
                      ELSE [copy EXCEPT !.missed = @ \cup {c}]
    IN
    /\ value # evaluations[p][c]
    /\ evaluations' = [evaluations EXCEPT ![p][c] = value]
    /\ meant' = [meant EXCEPT ![p][c] = value]
    /\ overwritten' = overwritten \ {<<p, c>>}
    /\ cache' = [cache EXCEPT ![p] = with(@)]
    /\ fetch' = [fetch EXCEPT ![p] = with(@)]
    /\ missed' = IF p = period THEN missed \cup {c} ELSE missed
    /\ save' = IF save # Null /\ save.period = p THEN with(save) ELSE save
    /\ UNCHANGED <<period, stale, localValues, hasChanges, toggled, hidden, mixed, crossed>>

Next ==
    \/ \E p \in Periods : Select(p) \/ Expire(p) \/ Read(p) \/ Receive(p) \/ FetchFails(p)
    \/ \E c \in Cells, value \in Values \cup {Null} : Toggle(c, value)
    \/ Save \/ SaveSucceeds \/ SaveFails
    \/ \E p \in Periods, c \in Cells, value \in Values : WriteElsewhere(p, c, value)

Spec == Init /\ [][Next]_vars

-----------------------------------------------------------------------------
(* Properties *)

\* Grids, requests and histories have their types.
TypeOK ==
    /\ {evaluations, meant} \subseteq [Periods -> Grid]
    /\ period \in Periods \cup {Null}
    /\ cache \in [Periods -> Copy \cup {Null}]
    /\ fetch \in [Periods -> Copy \cup {Null, Asked}]
    /\ localValues \in Grid
    /\ {hasChanges, mixed} \subseteq BOOLEAN
    /\ save # Null => save.period \in Periods /\ {save.toggled, save.missed} \subseteq SUBSET Cells
    /\ {stale, crossed} \subseteq SUBSET Periods
    /\ {toggled, missed, hidden} \subseteq SUBSET Cells
    /\ overwritten \subseteq Periods \X Cells

\* An evaluation is what its last writer meant: a save sends the whole grid, but
\* it changes no cell the teacher has not clicked, unless its values were of
\* another period or somebody else wrote the cell after the grid was read.
OthersKept ==
    \A p \in Periods \ crossed, c \in Cells :
        <<p, c>> \notin overwritten => evaluations[p][c] = meant[p][c]

\* With nothing to save and nothing under way, the grid shows what is stored,
\* except for cells written elsewhere since it was read, cleared, or clicked
\* while a save was under way.
ScreenIsStored ==
    \A c \in Cells :
        /\ period # Null /\ ~hasChanges /\ save = Null
        /\ cache[period] # Null /\ period \notin stale
        /\ c \notin hidden \cup missed
        => localValues[c] = evaluations[period][c]
=============================================================================
