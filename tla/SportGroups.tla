----------------------------- MODULE SportGroups -----------------------------
(***************************************************************************)
(* The sport groups of one school year: SportsService and the rosters of    *)
(* SportGroupsService.  A sport is removed by a mark, so a group may outlive *)
(* it; a group is removed with its roster.  Names and teachers are left out, *)
(* and so are refused requests; attendance is in Attendance.                *)
(***************************************************************************)
CONSTANTS Sports, Groups, Students, Requests, Null

Group == [sport : Sports, students : SUBSET Students]

VARIABLES
    deleted,    \* sports with a deletedAt
    group,      \* SportGroup with its SportGroupStudents, or Null
    request,    \* calls between their check and their write
    \* history:
    unchecked,  \* students put on a roster without a search for conflicts
    overlapped, \* students that two calls of addStudents had at once
    late        \* groups created while their sport was being removed, or after

ghosts == <<unchecked, overlapped, late>>
vars   == <<deleted, group, request, ghosts>>

Init ==
    /\ deleted = {}
    /\ group = [g \in Groups |-> Null]
    /\ request = [p \in Requests |-> Null]
    /\ unchecked = {} /\ overlapped = {} /\ late = {}

Exists(g) == group[g] # Null

Begin(p, call) == request[p] = Null /\ request' = [request EXCEPT ![p] = call]

At(p, op) == request[p] # Null /\ request[p].op = op

Return(p) == request' = [request EXCEPT ![p] = Null]

BeingRemoved == {request[p].sport : p \in {q \in Requests : At(q, "removeSport")}}

-----------------------------------------------------------------------------
(* create and update: whatever roster the dto has *)

CreateBegin(p, sport, students) ==
    /\ sport \notin deleted
    /\ Begin(p, [op |-> "create", sport |-> sport, students |-> students])
    /\ UNCHANGED <<deleted, group, ghosts>>

\* An id is not used again while a call has it.
Unused(g) == ~Exists(g) /\ \A q \in Requests : At(q, "add") => request[q].group # g

Create(p) ==
    /\ At(p, "create")
    /\ LET r == request[p] IN
       \E g \in Groups :
         /\ Unused(g)
         /\ group' = [group EXCEPT ![g] = [sport |-> r.sport, students |-> r.students]]
         /\ unchecked' = unchecked \cup r.students
         /\ late' = IF r.sport \in deleted \cup BeingRemoved THEN late \cup {g} ELSE late
    /\ Return(p)
    /\ UNCHANGED <<deleted, overlapped>>

\* One transaction replaces the roster.
Update(g, students) ==
    /\ Exists(g)
    /\ group' = [group EXCEPT ![g].students = students]
    /\ unchecked' = unchecked \cup students
    /\ UNCHANGED <<deleted, request, overlapped, late>>

Remove(g) ==
    /\ Exists(g)
    /\ group' = [group EXCEPT ![g] = Null]
    /\ late' = late \ {g}
    /\ UNCHANGED <<deleted, request, unchecked, overlapped>>

-----------------------------------------------------------------------------
(* addStudents: a search, then createMany *)

\* Mutant: the group itself is all that is searched.
OwnRoster(g, students) == students \cap group[g].students

Conflicts(g, students) ==
    {s \in students : \E h \in Groups \ {g} :
        Exists(h) /\ group[h].sport = group[g].sport /\ s \in group[h].students}

AddBegin(p, g, students) ==
    /\ Exists(g)
    /\ Conflicts(g, students) = {}
    /\ Begin(p, [op |-> "add", group |-> g, students |-> students])
    /\ overlapped' = overlapped \cup
         UNION {request[q].students \cap students : q \in {r \in Requests : At(r, "add")}}
    /\ UNCHANGED <<deleted, group, unchecked, late>>

\* skipDuplicates; a group that is gone makes the insert fail.
Add(p) ==
    /\ At(p, "add") /\ Exists(request[p].group)
    /\ group' = [group EXCEPT ![request[p].group].students = @ \cup request[p].students]
    /\ Return(p)
    /\ UNCHANGED <<deleted, ghosts>>

RemoveStudent(g, s) ==
    /\ Exists(g) /\ s \in group[g].students
    /\ group' = [group EXCEPT ![g].students = @ \ {s}]
    /\ UNCHANGED <<deleted, request, ghosts>>

-----------------------------------------------------------------------------
(* SportsService.remove: a count, then the mark *)

RemoveSportBegin(p, sport) ==
    /\ sport \notin deleted
    /\ ~ \E g \in Groups : Exists(g) /\ group[g].sport = sport
    /\ Begin(p, [op |-> "removeSport", sport |-> sport])
    /\ UNCHANGED <<deleted, group, ghosts>>

RemoveSport(p) ==
    /\ At(p, "removeSport")
    /\ deleted' = deleted \cup {request[p].sport}
    /\ Return(p)
    /\ UNCHANGED <<group, ghosts>>

\* A query fails, or the process stops.
Abort(p) ==
    /\ request[p] # Null
    /\ Return(p)
    /\ UNCHANGED <<deleted, group, ghosts>>

Next ==
    \/ \E p \in Requests :
         \/ \E sport \in Sports, S \in SUBSET Students : CreateBegin(p, sport, S)
         \/ \E g \in Groups, S \in SUBSET Students \ {{}} : AddBegin(p, g, S)
         \/ \E sport \in Sports : RemoveSportBegin(p, sport)
         \/ Create(p) \/ Add(p) \/ RemoveSport(p) \/ Abort(p)
    \/ \E g \in Groups :
         \/ Remove(g)
         \/ \E S \in SUBSET Students : Update(g, S)
         \/ \E s \in Students : RemoveStudent(g, s)

Spec == Init /\ [][Next]_vars

-----------------------------------------------------------------------------
(* Properties *)

\* Groups, calls and history have their types.
TypeOK ==
    /\ deleted \subseteq Sports
    /\ group \in [Groups -> Group \cup {Null}]
    /\ request \in [Requests -> {Null}
         \cup [op : {"create"}, sport : Sports, students : SUBSET Students]
         \cup [op : {"add"}, group : Groups, students : SUBSET Students]
         \cup [op : {"removeSport"}, sport : Sports]]
    /\ unchecked \subseteq Students
    /\ overlapped \subseteq Students
    /\ late \subseteq Groups

\* addStudents keeps a student in one group per sport: two rosters of a sport
\* share a student only if create or update, which do not look, put it on one,
\* or two additions of it overlapped.
OneGroupPerSport ==
    \A g, h \in Groups :
        g # h /\ Exists(g) /\ Exists(h) /\ group[g].sport = group[h].sport =>
            group[g].students \cap group[h].students \subseteq unchecked \cup overlapped

\* "No se puede eliminar un deporte con grupos activos": a group of a removed
\* sport was created while the sport was being removed, or by a call that had
\* found it before.
RemovedSportWasEmpty ==
    \A g \in Groups : Exists(g) /\ group[g].sport \in deleted => g \in late
=============================================================================
