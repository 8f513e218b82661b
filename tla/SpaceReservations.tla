------------------------- MODULE SpaceReservations -------------------------
(***************************************************************************)
(* Bookings of an institution's spaces: SpaceReservationsService and        *)
(* SpacesService.  Each service call is a process that reads in one query   *)
(* and writes by id in a later one; no table constraint forbids two         *)
(* bookings of one slot.  A call refused for its role changes nothing and   *)
(* is left out, as are titles and notifications (sent after the write).  No  *)
(* query returns a deleted row again, so its fields are forgotten.          *)
(***************************************************************************)
EXTENDS Integers

CONSTANTS
    Spaces,      \* ids of spaces
    Ids,         \* ids of reservations
    Times,       \* minutes of a day
    Days,        \* calendar days
    Bookers,     \* requests that may claim a slot or remove a space
    Releasers,   \* requests that only cancel
    LastNow,     \* bound: the clock stops here
    Null, Deleted

ReservationStatus == {"PENDING", "CONFIRMED", "CANCELLED"}

\* `moved' is history: the row has been rescheduled.
Reservation ==
    [space : Spaces, date : Days, startTime : Times, endTime : Times,
     status : ReservationStatus, moved : BOOLEAN]

ASSUME ReservationAssumption ==
    /\ Times \subseteq Nat
    /\ Days \subseteq Nat
    /\ LastNow \in Nat
    /\ Null \notin Spaces \cup Ids \cup Times \cup Days \cup Reservation
    /\ Deleted \notin Reservation \cup {Null}

VARIABLES
    now,          \* half days: 2d is the morning of day d, 2d+1 its afternoon
    spaces,       \* Space rows: [isAvailable, deletedAt] or Null
    reservations, \* SpaceReservation rows; Null: not yet, Deleted: no longer
    request       \* the calls in flight, with what they have read

vars == <<now, spaces, reservations, request>>

Today == now \div 2

Init ==
    /\ now = 0
    /\ spaces = [s \in Spaces |-> Null]
    /\ reservations = [i \in Ids |-> Null]
    /\ request = [p \in Bookers \cup Releasers |-> Null]

-----------------------------------------------------------------------------
(* What the queries select. *)

\* findOne: not deleted.
SpaceFound(s) == spaces[s] # Null /\ spaces[s].deletedAt = Null

Found(i) == reservations[i] \notin {Null, Deleted}

\* What a write by id leaves: nothing shows on a deleted row.
Written(i, row) == IF reservations[i] = Deleted THEN Deleted ELSE row

\* Rows that hold their slot.
Active(i) == Found(i) /\ reservations[i].status \in {"PENDING", "CONFIRMED"}

\* Mutant: a slot that contains the other is not an overlap.
StartsWithin(a, b) == b.startTime <= a.startTime /\ a.startTime < b.endTime

\* Half-open intervals: one may start when the other ends.
HasOverlap(a, b) == a.startTime < b.endTime /\ a.endTime > b.startTime

SameSlot(a, b) == a.space = b.space /\ a.date = b.date /\ HasOverlap(a, b)

\* checkConflicts finds nothing for slot v; i is the row it leaves out.
NoConflicts(v, i) ==
    \A j \in Ids : j # i /\ Active(j) => ~SameSlot(v, reservations[j])

-----------------------------------------------------------------------------
(* SpaceReservationsService.create and update *)

Slot(i, s, d, start, end) ==
    [op |-> "book", id |-> i, space |-> s, date |-> d, startTime |-> start,
     endTime |-> end, checked |-> FALSE]

\* create: the space, its availability and the date.
CreateBegin(b, s, d, start, end) ==
    /\ request[b] = Null
    /\ start < end
    /\ SpaceFound(s) /\ spaces[s].isAvailable
    /\ d >= Today
    /\ request' = [request EXCEPT ![b] = Slot(Null, s, d, start, end)]
    /\ UNCHANGED <<now, spaces, reservations>>

\* Mutant: nothing replaces what the dto leaves out.
OnlyDto(x, y) == x

\* A value of the dto, or the row's if the dto leaves it out (Null).
Or(x, y) == IF x = Null THEN y ELSE x

\* update: the schema compares the times only when the dto has both.
UpdateBegin(b, i, dtoDate, dtoStart, dtoEnd) ==
    /\ request[b] = Null
    /\ Active(i)
    /\ dtoStart # Null /\ dtoEnd # Null => dtoStart < dtoEnd
    /\ LET r == reservations[i] IN
         request' = [request EXCEPT ![b] =
           Slot(i, r.space, Or(dtoDate, r.date), Or(dtoStart, r.startTime),
                Or(dtoEnd, r.endTime))]
    /\ UNCHANGED <<now, spaces, reservations>>

CheckConflicts(b) ==
    /\ request[b] # Null
    /\ request[b].op = "book" /\ ~request[b].checked
    /\ request' = [request EXCEPT ![b] =
         IF NoConflicts(request[b], request[b].id)
         THEN [request[b] EXCEPT !.checked = TRUE]
         ELSE Null]                                   \* 409
    /\ UNCHANGED <<now, spaces, reservations>>

\* A new row, or the row of the update, whatever it has become.
Book(b) ==
    /\ request[b] # Null
    /\ request[b].op = "book" /\ request[b].checked
    /\ LET v == request[b] IN
         \/ /\ v.id = Null
            /\ \E i \in Ids :
                 /\ reservations[i] = Null
                 /\ reservations' = [reservations EXCEPT ![i] =
                      [space |-> v.space, date |-> v.date,
                       startTime |-> v.startTime, endTime |-> v.endTime,
                       status |-> "PENDING", moved |-> FALSE]]
         \/ /\ v.id # Null
            /\ reservations' = [reservations EXCEPT ![v.id] =
                 Written(v.id, [@ EXCEPT !.date = v.date, !.startTime = v.startTime,
                                         !.endTime = v.endTime, !.moved = TRUE])]
    /\ request' = [request EXCEPT ![b] = Null]
    /\ UNCHANGED <<now, spaces>>

-----------------------------------------------------------------------------
(* updateStatus, cancel and remove *)

\* A status is set on a row that was not cancelled when it was read.
StatusBegin(p, i, status) ==
    /\ request[p] = Null
    /\ Active(i)
    /\ request' = [request EXCEPT ![p] = [op |-> "status", id |-> i, status |-> status]]
    /\ UNCHANGED <<now, spaces, reservations>>

UpdateStatus(p) ==
    /\ request[p] # Null
    /\ request[p].op = "status"
    /\ reservations' = [reservations EXCEPT ![request[p].id] =
         Written(request[p].id, [@ EXCEPT !.status = request[p].status])]
    /\ request' = [request EXCEPT ![p] = Null]
    /\ UNCHANGED <<now, spaces>>

\* Deleting twice is deleting once: the read and the write are one step.
Remove(i) ==
    /\ Found(i)
    /\ reservations' = [reservations EXCEPT ![i] = Deleted]
    /\ UNCHANGED <<now, spaces, request>>

-----------------------------------------------------------------------------
(* SpacesService *)

CreateSpace(s, available) ==
    /\ spaces[s] = Null
    /\ spaces' = [spaces EXCEPT ![s] = [isAvailable |-> available, deletedAt |-> Null]]
    /\ UNCHANGED <<now, reservations, request>>

\* update and toggleAvailability: by id, after a read, so either value may be
\* written (on a deleted space nobody sees it).
SetAvailability(s, available) ==
    /\ spaces[s] # Null
    /\ spaces' = IF SpaceFound(s)
                 THEN [spaces EXCEPT ![s] = [@ EXCEPT !.isAvailable = available]]
                 ELSE spaces
    /\ UNCHANGED <<now, reservations, request>>

\* Mutant: the bookings of today do not count.
AfterToday(i) == reservations[i].date > Today

\* A booking is at noon: it counts until then.
Upcoming(i) == 2 * reservations[i].date + 1 > now

RemoveSpaceBegin(b, s) ==
    /\ request[b] = Null
    /\ SpaceFound(s)
    /\ \A i \in Ids : Active(i) /\ reservations[i].space = s => ~Upcoming(i)
    /\ request' = [request EXCEPT ![b] = [op |-> "removeSpace", space |-> s]]
    /\ UNCHANGED <<now, spaces, reservations>>

RemoveSpace(b) ==
    /\ request[b] # Null
    /\ request[b].op = "removeSpace"
    /\ spaces' = [spaces EXCEPT ![request[b].space] = [isAvailable |-> FALSE, deletedAt |-> now]]
    /\ request' = [request EXCEPT ![b] = Null]
    /\ UNCHANGED <<now, reservations>>

-----------------------------------------------------------------------------
\* Half a day passes; LastNow is a bound.
Tick ==
    /\ now < LastNow
    /\ now' = now + 1
    /\ UNCHANGED <<spaces, reservations, request>>

\* The call fails (database, process): what it has read is lost.
Abort(p) ==
    /\ request[p] # Null
    /\ request' = [request EXCEPT ![p] = Null]
    /\ UNCHANGED <<now, spaces, reservations>>

Booking(b) ==
    \/ \E s \in Spaces, d \in Days, start, end \in Times :
          CreateBegin(b, s, d, start, end)
    \/ \E i \in Ids, d \in Days \cup {Null}, start, end \in Times \cup {Null} :
          UpdateBegin(b, i, d, start, end)
    \/ CheckConflicts(b) \/ Book(b)
    \/ \E i \in Ids : StatusBegin(b, i, "CONFIRMED") \/ StatusBegin(b, i, "PENDING")
    \/ \E s \in Spaces : RemoveSpaceBegin(b, s)
    \/ RemoveSpace(b)

Next ==
    \/ \E b \in Bookers : Booking(b)
    \/ \E p \in Releasers, i \in Ids : StatusBegin(p, i, "CANCELLED")
    \/ \E p \in Bookers \cup Releasers : UpdateStatus(p) \/ Abort(p)
    \/ \E i \in Ids : Remove(i)
    \/ \E s \in Spaces, a \in BOOLEAN : CreateSpace(s, a) \/ SetAvailability(s, a)
    \/ Tick

Spec == Init /\ [][Next]_vars

-----------------------------------------------------------------------------
(* Properties *)

Space == [isAvailable : BOOLEAN, deletedAt : Nat \cup {Null}]

BookRequest ==
    [op : {"book"}, id : Ids \cup {Null}, space : Spaces, date : Days,
     startTime : Times, endTime : Times, checked : BOOLEAN]

StatusRequest == [op : {"status"}, id : Ids, status : ReservationStatus]

RemoveSpaceRequest == [op : {"removeSpace"}, space : Spaces]

\* Every row and every call in flight has its type.
TypeOK ==
    /\ now \in Nat
    /\ spaces \in [Spaces -> Space \cup {Null}]
    /\ reservations \in [Ids -> Reservation \cup {Null, Deleted}]
    /\ request \in [Bookers \cup Releasers ->
         BookRequest \cup StatusRequest \cup RemoveSpaceRequest \cup {Null}]

\* The conflict detection of the calendar: no two bookings that hold their
\* slot overlap in one space.  It needs the calls that claim slots to come one
\* at a time; cancellations, deletions and space edits may come at any moment.
NoDoubleBooking ==
    \A i, j \in Ids :
        i # j /\ Active(i) /\ Active(j) => ~SameSlot(reservations[i], reservations[j])

\* The guard of SpacesService.remove: a booking that still holds a slot in a
\* removed space was for a moment before the removal, unless an update has
\* rescheduled it since (update does not look at the space or at the date).
RemovedSpaceWasFree ==
    \A i \in Ids :
        /\ Active(i)
        /\ ~reservations[i].moved
        /\ spaces[reservations[i].space].deletedAt # Null
        => 2 * reservations[i].date + 1 <= spaces[reservations[i].space].deletedAt
=============================================================================
