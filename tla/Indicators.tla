------------------------------ MODULE Indicators ------------------------------
(***************************************************************************)
(* The indicators of one subject and school year, in a list per grade:       *)
(* create puts a new one last, reorder writes the places 1, 2, ... of a       *)
(* whole list with concurrent updates and no transaction.  Descriptions,     *)
(* access checks and audit jobs are left out; evaluations are in Trayectoria.*)
(***************************************************************************)
EXTENDS Integers, FiniteSets, FiniteSetsExt

CONSTANTS
    Ids,
    Grades,
    MaxOrder,   \* bound on order
    Requests,
    Null

VARIABLES
    indicator,  \* Indicator rows: a grade and an order, or Null
    request,
    \* history:
    disturbed   \* grades in whose list calls overlapped, or one stopped half-way,
                \* or a place was asked for

vars == <<indicator, request, disturbed>>

Init ==
    /\ indicator = [i \in Ids |-> Null]
    /\ request = [p \in Requests |-> Null]
    /\ disturbed = {}

Exists(i) == indicator[i] # Null

List(g) == {i \in Ids : Exists(i) /\ indicator[i].grade = g}

Busy(g) == {q \in Requests : request[q] # Null /\ request[q].grade = g}

\* The calls on a list, told that they do not have it to themselves.
Joined(g) ==
    [q \in Requests |-> IF q \in Busy(g) THEN [request[q] EXCEPT !.alone = FALSE] ELSE request[q]]

Begin(p, call) ==
    /\ request[p] = Null
    /\ request' = [Joined(call.grade) EXCEPT ![p] = call]
    /\ disturbed' = IF Busy(call.grade) = {} THEN disturbed ELSE disturbed \cup {call.grade}
    /\ UNCHANGED indicator

-----------------------------------------------------------------------------
\* Mutant: the next place is counted, not read.
Counted == Cardinality({i \in Ids : Exists(i)}) + 1

\* Mutant: the place of the last one.
NotAfter == Max({0} \cup {indicator[i].order : i \in {j \in Ids : Exists(j)}})

\* The place after the last one of the subject and year, whatever the grade.
NextOrder == Max({0} \cup {indicator[i].order : i \in {j \in Ids : Exists(j)}}) + 1

CreateBegin(p, g) ==
    /\ NextOrder <= MaxOrder
    /\ Begin(p, [op |-> "create", grade |-> g, order |-> NextOrder, alone |-> Busy(g) = {}])

\* An id is not used again while a reorder has it.
Unused(i) ==
    ~Exists(i) /\ \A q \in Requests :
        request[q] # Null /\ request[q].op = "reorder" => i \notin DOMAIN request[q].places

Create(p) ==
    /\ request[p] # Null /\ request[p].op = "create"
    /\ \E i \in Ids :
         /\ Unused(i)
         /\ indicator' = [indicator EXCEPT ![i] =
              [grade |-> request[p].grade, order |-> request[p].order]]
    /\ request' = [request EXCEPT ![p] = Null]
    /\ UNCHANGED disturbed

\* dto.order: no query, one insert.
CreateAt(i, g, n) ==
    /\ Unused(i)
    /\ indicator' = [indicator EXCEPT ![i] = [grade |-> g, order |-> n]]
    /\ disturbed' = disturbed \cup {g}
    /\ request' = Joined(g)

Orders(S) == {f \in [S -> 1 .. Cardinality(S)] : \A i, j \in S : f[i] = f[j] => i = j}

\* The checks of the ids, one by one; places: what is still to be written.
ReorderBegin(p, g, f) ==
    Begin(p, [op |-> "reorder", grade |-> g, places |-> f, alone |-> Busy(g) = {}])

ReorderOne(p, i) ==
    /\ request[p] # Null /\ request[p].op = "reorder" /\ i \in DOMAIN request[p].places
    /\ Exists(i)
    /\ LET r == request[p]
           left == DOMAIN r.places \ {i}
       IN
       /\ indicator' = [indicator EXCEPT ![i].order = r.places[i]]
       /\ request' = [request EXCEPT ![p] =
            IF left = {} THEN Null ELSE [r EXCEPT !.places = [j \in left |-> r.places[j]]]]
       /\ disturbed' = IF left = {} /\ r.alone THEN disturbed \ {r.grade} ELSE disturbed

\* An update fails, the others go on: the indicator is gone, or there is an error.
ReorderFails(p, i) ==
    /\ request[p] # Null /\ request[p].op = "reorder" /\ i \in DOMAIN request[p].places
    /\ LET r == request[p]
           left == DOMAIN r.places \ {i}
       IN
       /\ request' = [request EXCEPT ![p] =
            IF left = {} THEN Null
            ELSE [r EXCEPT !.alone = FALSE, !.places = [j \in left |-> r.places[j]]]]
       /\ disturbed' = disturbed \cup {r.grade}
    /\ UNCHANGED indicator

Remove(i) ==
    /\ Exists(i)
    /\ indicator' = [indicator EXCEPT ![i] = Null]
    /\ UNCHANGED <<request, disturbed>>

\* The process stops.
Abort(p) ==
    /\ request[p] # Null
    /\ request' = [request EXCEPT ![p] = Null]
    /\ disturbed' = IF request[p].op = "reorder" THEN disturbed \cup {request[p].grade}
                    ELSE disturbed
    /\ UNCHANGED indicator

Next ==
    \/ \E p \in Requests :
         \/ \E g \in Grades :
              \/ CreateBegin(p, g)
              \/ List(g) # {} /\ \E f \in Orders(List(g)) : ReorderBegin(p, g, f)
         \/ Create(p) \/ Abort(p)
         \/ \E i \in Ids : ReorderOne(p, i) \/ ReorderFails(p, i)
    \/ \E i \in Ids : Remove(i) \/ \E g \in Grades, n \in 1 .. MaxOrder : CreateAt(i, g, n)

-----------------------------------------------------------------------------
(* Properties *)

\* Indicators and calls have their types.
TypeOK ==
    /\ indicator \in [Ids -> {Null} \cup [grade : Grades, order : 1 .. MaxOrder]]
    /\ \A p \in Requests : request[p] # Null =>
         /\ request[p].op \in {"create", "reorder"} /\ request[p].grade \in Grades
         /\ request[p].op = "reorder" => \A i \in DOMAIN request[p].places : i \in Ids
    /\ disturbed \subseteq Grades

\* No two indicators of a list have one place, unless calls on the list overlapped
\* or one of them stopped half-way; the next reorder that runs alone mends it.
\* While a reorder writes, two have one place for a moment.
PlacesDistinct ==
    \A i, j \in Ids :
        i # j /\ Exists(i) /\ Exists(j) /\ indicator[i] = indicator[j] =>
            \/ indicator[i].grade \in disturbed
            \/ \E p \in Busy(indicator[i].grade) : request[p].op = "reorder"
=============================================================================
