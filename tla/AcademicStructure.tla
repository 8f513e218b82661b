-------------------------- MODULE AcademicStructure --------------------------
(***************************************************************************)
(* The grades of one education level and the courses of those grades.       *)
(* A course keeps, beside the id of its grade, the number it had.  The page  *)
(* of the structure swaps two grades by two requests at once, from the list  *)
(* it shows.  Deletions are refused by foreign keys; names, statuses, the    *)
(* levels themselves and audit jobs are left out.                           *)
(***************************************************************************)
EXTENDS Integers

CONSTANTS
    Grades, Courses,
    Orders,         \* numbers a grade may have
    Requests, Null

VARIABLES
    displayOrder,   \* of each LevelGrade, or Null
    course,         \* Course: levelGrade and grade, and whether it has a chat room
    request,
    \* history:
    disordered,     \* grades have been given a number that was taken, or a swap
                    \* was overtaken or failed by half
    outdated        \* courses whose grade has changed its number since it was read

vars == <<displayOrder, course, request, disordered, outdated>>

Init ==
    /\ displayOrder = [g \in Grades |-> Null]
    /\ course = [c \in Courses |-> Null]
    /\ request = [p \in Requests |-> Null]
    /\ disordered = FALSE /\ outdated = {}

Begin(p, call) == request[p] = Null /\ request' = [request EXCEPT ![p] = call]

At(p, op) == request[p] # Null /\ request[p].op = op

Exists(g) == displayOrder[g] # Null

Swapping == {p \in Requests : At(p, "swap")}

\* displayOrder' = value for g, by a request that is part of the swap p or of none (Null).
Number(g, value, p) ==
    /\ displayOrder' = [displayOrder EXCEPT ![g] = value]
    /\ outdated' = IF value = displayOrder[g] THEN outdated
                   ELSE outdated \cup {c \in Courses : course[c] # Null /\ course[c].levelGrade = g}
    /\ disordered' = \/ disordered
                     \/ Swapping \ {p} # {}
                     \/ p = Null /\ \E h \in Grades \ {g} : displayOrder[h] = value

-----------------------------------------------------------------------------
(* EducationLevelsService: createGrade, updateGrade, deleteGrade *)

\* An id is not used again while a call has it.
Unused(g) ==
    /\ ~Exists(g)
    /\ \A p \in Requests :
         /\ At(p, "swap") => g \notin DOMAIN request[p].to
         /\ At(p, "create") \/ At(p, "update") => request[p].levelGrade # g

CreateGrade(g, value) == Unused(g) /\ Number(g, value, Null) /\ UNCHANGED <<course, request>>

UpdateGrade(g, value) == Exists(g) /\ Number(g, value, Null) /\ UNCHANGED <<course, request>>

\* P2003: the grade has a course.
DeleteGrade(g) ==
    /\ Exists(g) /\ \A c \in Courses : course[c] # Null => course[c].levelGrade # g
    /\ displayOrder' = [displayOrder EXCEPT ![g] = Null]
    /\ UNCHANGED <<course, request, disordered, outdated>>

(* useReorderLevelGrades, each PATCH an updateGrade *)

\* Mutant: the second request takes the number the first has just left.
SameNumber(g, h) == [x \in {g, h} |-> displayOrder[h]]

Swapped(g, h) == [x \in {g, h} |-> IF x = g THEN displayOrder[h] ELSE displayOrder[g]]

SwapBegin(p, g, h) ==
    /\ g # h /\ Exists(g) /\ Exists(h)
    /\ Begin(p, [op |-> "swap", to |-> Swapped(g, h)])
    /\ disordered' = (disordered \/ Swapping # {})
    /\ UNCHANGED <<displayOrder, course, outdated>>

Dropped(p, g) ==
    LET to == request[p].to
        left == DOMAIN to \ {g}
    IN  request' = [request EXCEPT ![p] =
          IF left = {} THEN Null ELSE [op |-> "swap", to |-> [x \in left |-> to[x]]]]

SwapPatch(p, g) ==
    /\ At(p, "swap") /\ g \in DOMAIN request[p].to /\ Exists(g)
    /\ Number(g, request[p].to[g], p)
    /\ Dropped(p, g)
    /\ UNCHANGED course

SwapFails(p, g) ==
    /\ At(p, "swap") /\ g \in DOMAIN request[p].to
    /\ Dropped(p, g)
    /\ disordered' = TRUE
    /\ UNCHANGED <<displayOrder, course, outdated>>

-----------------------------------------------------------------------------
(* CoursesService and DestinationResolver *)

\* resolveLevelGrade: by id, or any grade with the number.
Resolve(p, op, c, g) ==
    /\ Exists(g)
    /\ Begin(p, [op |-> op, course |-> c, levelGrade |-> g, grade |-> displayOrder[g]])
    /\ UNCHANGED <<displayOrder, course, disordered, outdated>>

\* Mutant: another grade leaves the number of the old one.
OldNumber(c, r) == IF course[c] = Null THEN r.grade ELSE course[c].grade

NewNumber(c, r) == r.grade

\* create, update, and findOrCreateCourse of a promotion, which makes no room.
WriteCourse(p) ==
    /\ At(p, "create") \/ At(p, "update") \/ At(p, "promotion")
    /\ LET r == request[p]
           c == r.course
       IN
       /\ Exists(r.levelGrade)
       /\ r.op = "update" <=> course[c] # Null
       /\ course' = [course EXCEPT ![c] =
            [levelGrade |-> r.levelGrade, grade |-> NewNumber(c, r),
             room |-> r.op = "update" /\ course[c].room]]
       /\ outdated' = IF displayOrder[r.levelGrade] = r.grade
                      THEN outdated \ {c} ELSE outdated \cup {c}
       /\ request' = [request EXCEPT ![p] =
            IF r.op = "create" THEN [op |-> "room", course |-> c] ELSE Null]
    /\ UNCHANGED <<displayOrder, disordered>>

CreateRoom(p) ==
    /\ At(p, "room") /\ course[request[p].course] # Null
    /\ course' = [course EXCEPT ![request[p].course].room = TRUE]
    /\ request' = [request EXCEPT ![p] = Null]
    /\ UNCHANGED <<displayOrder, disordered, outdated>>

RemoveCourse(c) ==
    /\ course[c] # Null
    /\ course' = [course EXCEPT ![c] = Null]
    /\ outdated' = outdated \ {c}
    /\ UNCHANGED <<displayOrder, request, disordered>>

\* A query fails, or the process stops.
Abort(p) ==
    /\ request[p] # Null /\ ~At(p, "swap")
    /\ request' = [request EXCEPT ![p] = Null]
    /\ UNCHANGED <<displayOrder, course, disordered, outdated>>

Next ==
    \/ \E g \in Grades :
         \/ DeleteGrade(g)
         \/ \E value \in Orders : CreateGrade(g, value) \/ UpdateGrade(g, value)
    \/ \E c \in Courses : RemoveCourse(c)
    \/ \E p \in Requests :
         \/ \E g, h \in Grades : SwapBegin(p, g, h)
         \/ \E g \in Grades : SwapPatch(p, g) \/ SwapFails(p, g)
         \/ \E op \in {"create", "update", "promotion"}, c \in Courses, g \in Grades :
              Resolve(p, op, c, g)
         \/ WriteCourse(p) \/ CreateRoom(p) \/ Abort(p)

-----------------------------------------------------------------------------
(* Properties *)

\* Numbers, courses and calls have their types.
TypeOK ==
    /\ displayOrder \in [Grades -> Orders \cup {Null}]
    /\ course \in [Courses -> {Null} \cup
                     [levelGrade : {g \in Grades : Exists(g)}, grade : Orders, room : BOOLEAN]]
    /\ \A p \in Requests : request[p] # Null =>
         request[p].op \in {"swap", "create", "update", "promotion", "room"}
    /\ disordered \in BOOLEAN /\ outdated \subseteq Courses

\* Grades that are only swapped keep a number each: two of a level have the same
\* one, while no swap is under way, only if one was given a number that was
\* taken, or two swaps, or a swap and another change, overlapped, or half failed.
NumbersDistinct ==
    ~disordered /\ Swapping = {} =>
        \A g, h \in Grades :
            g # h /\ Exists(g) /\ Exists(h) => displayOrder[g] # displayOrder[h]

\* A course has the number of its grade, however it was made or moved, until the
\* grade changes its number: no one carries that over to the courses.
CourseHasNumber ==
    \A c \in Courses :
        course[c] # Null /\ c \notin outdated => course[c].grade = displayOrder[course[c].levelGrade]
=============================================================================
