---------------------- MODULE SpaceReservationsProofs ----------------------
(***************************************************************************)
(* Proofs about SpaceReservations, for any number of spaces, reservations,  *)
(* cancelling calls and minutes, and an unbounded calendar.                 *)
(***************************************************************************)
EXTENDS SpaceReservations, TLAPS

\* Calls that claim a slot or remove a space come one at a time.
OneBooker == \A b, c \in Bookers : b = c

-----------------------------------------------------------------------------
(* Type correctness *)

LEMMA WrittenType ==
    ASSUME TypeOK, NEW i \in Ids, NEW row,
           reservations[i] \in Reservation => row \in Reservation,
           reservations[i] # Null
    PROVE  Written(i, row) \in Reservation \cup {Null, Deleted}
  BY DEF TypeOK, Written

\* The call in flight has the type that its op says.
LEMMA RequestType ==
    ASSUME TypeOK, NEW p \in Bookers \cup Releasers, request[p] # Null
    PROVE  /\ request[p].op = "book" => request[p] \in BookRequest
           /\ request[p].op = "status" => request[p] \in StatusRequest
           /\ request[p].op = "removeSpace" => request[p] \in RemoveSpaceRequest
<1>1. request[p] \in BookRequest \cup StatusRequest \cup RemoveSpaceRequest
  BY DEF TypeOK
<1>2. CASE request[p] \in BookRequest
  BY <1>2 DEF BookRequest
<1>3. CASE request[p] \in StatusRequest
  BY <1>3 DEF StatusRequest
<1>4. CASE request[p] \in RemoveSpaceRequest
  BY <1>4 DEF RemoveSpaceRequest
<1> QED
  BY <1>1, <1>2, <1>3, <1>4

\* A call in flight names a row that exists or once existed.
NamesRow ==
    \A p \in Bookers \cup Releasers :
        /\ request[p] # Null
        /\ request[p].op \in {"book", "status"}
        /\ request[p].id # Null
        => reservations[request[p].id] # Null

\* An active row is a reservation.
LEMMA ActiveType ==
    ASSUME TypeOK, NEW i \in Ids, Active(i)
    PROVE  reservations[i] \in Reservation
  BY DEF TypeOK, Active, Found

TypeInv == TypeOK /\ NamesRow

LEMMA InitType == Init => TypeInv
  BY ReservationAssumption DEF Init, TypeInv, TypeOK, NamesRow

LEMMA BookingType ==
    ASSUME TypeInv, NEW b \in Bookers, Booking(b)
    PROVE  TypeInv'
<1> USE DEF TypeInv
<1>1. ASSUME NEW s \in Spaces, NEW d \in Days, NEW start \in Times,
             NEW end \in Times, CreateBegin(b, s, d, start, end)
      PROVE  TypeInv'
  <2>1. Slot(Null, s, d, start, end) \in BookRequest
    BY DEF Slot, BookRequest
  <2>2. TypeOK'
    BY <1>1, <2>1 DEF CreateBegin, TypeOK
  <2>3. NamesRow'
    BY <1>1, <2>1 DEF CreateBegin, NamesRow, TypeOK, Slot
  <2> QED
    BY <2>2, <2>3
<1>2. ASSUME NEW i \in Ids, NEW d \in Days \cup {Null},
             NEW start \in Times \cup {Null}, NEW end \in Times \cup {Null},
             UpdateBegin(b, i, d, start, end)
      PROVE  TypeInv'
  <2> DEFINE r == reservations[i]
             v == Slot(i, r.space, Or(d, r.date), Or(start, r.startTime),
                       Or(end, r.endTime))
  <2>1. r \in Reservation
    BY <1>2, ActiveType DEF UpdateBegin
  <2>2. /\ Or(d, r.date) \in Days
        /\ Or(start, r.startTime) \in Times
        /\ Or(end, r.endTime) \in Times
    BY <2>1, ReservationAssumption DEF Or, Reservation
  <2>3. v \in BookRequest /\ v.id = i
    BY <2>1, <2>2 DEF Slot, BookRequest, Reservation
  <2>4. request' = [request EXCEPT ![b] = v] /\ UNCHANGED <<now, spaces, reservations>>
    BY <1>2 DEF UpdateBegin
  <2> HIDE DEF v
  <2>5. TypeOK'
    BY <2>3, <2>4 DEF TypeOK
  <2>6. reservations[i] # Null
    BY <1>2 DEF UpdateBegin, Active, Found
  <2>7. NamesRow'
    BY <2>3, <2>4, <2>6 DEF NamesRow, TypeOK
  <2> QED
    BY <2>5, <2>7
<1>3. CASE CheckConflicts(b)
  <2>1. request[b] \in BookRequest
    BY <1>3, RequestType DEF CheckConflicts
  <2>2. /\ [request[b] EXCEPT !.checked = TRUE] \in BookRequest
        /\ [request[b] EXCEPT !.checked = TRUE].id = request[b].id
    BY <2>1 DEF BookRequest
  <2>3. TypeOK'
    BY <1>3, <2>2 DEF CheckConflicts, TypeOK
  <2>4. NamesRow'
    BY <1>3, <2>1, <2>2 DEF CheckConflicts, NamesRow, TypeOK
  <2> QED
    BY <2>3, <2>4
<1>4. CASE Book(b)
  <2>1. request[b] \in BookRequest
    BY <1>4, RequestType DEF Book
  <2>2. ASSUME NEW i \in Ids, NEW row \in Reservation, reservations[i] = Null,
               reservations' = [reservations EXCEPT ![i] = row]
        PROVE  TypeInv'
    BY <1>4, <2>2, ReservationAssumption DEF Book, TypeOK, NamesRow
  <2>3. CASE request[b].id = Null
    <3>1. PICK i \in Ids :
             /\ reservations[i] = Null
             /\ reservations' = [reservations EXCEPT ![i] =
                  [space |-> request[b].space, date |-> request[b].date,
                   startTime |-> request[b].startTime,
                   endTime |-> request[b].endTime,
                   status |-> "PENDING", moved |-> FALSE]]
      BY <1>4, <2>3 DEF Book
    <3>2. [space |-> request[b].space, date |-> request[b].date,
           startTime |-> request[b].startTime, endTime |-> request[b].endTime,
           status |-> "PENDING", moved |-> FALSE] \in Reservation
      BY <2>1 DEF BookRequest, Reservation, ReservationStatus
    <3> QED
      BY <2>2, <3>1, <3>2
  <2>4. CASE request[b].id # Null
    <3> DEFINE i == request[b].id
               row == [reservations[i] EXCEPT !.date = request[b].date,
                         !.startTime = request[b].startTime,
                         !.endTime = request[b].endTime, !.moved = TRUE]
    <3>1. i \in Ids /\ reservations[i] # Null
      BY <2>1, <2>4, <1>4 DEF BookRequest, NamesRow, Book
    <3>2. reservations[i] \in Reservation => row \in Reservation
      BY <2>1 DEF BookRequest, Reservation
    <3>3. reservations' = [reservations EXCEPT ![i] = Written(i, row)]
      BY <1>4, <2>4 DEF Book
    <3> HIDE DEF row
    <3>4. Written(i, row) \in Reservation \cup {Deleted}
      BY <3>1, <3>2 DEF TypeOK, Written
    <3>5. TypeOK'
      BY <1>4, <3>1, <3>3, <3>4 DEF TypeOK, Book
    <3>6. Written(i, row) # Null
      BY <3>4, ReservationAssumption
    <3>7. NamesRow'
      BY <1>4, <3>1, <3>3, <3>6 DEF TypeOK, Book, NamesRow
    <3> QED
      BY <3>5, <3>7
  <2> QED
    BY <2>3, <2>4
<1>5. ASSUME NEW i \in Ids, NEW status \in ReservationStatus, StatusBegin(b, i, status)
      PROVE  TypeInv'
  BY <1>5 DEF StatusBegin, TypeOK, NamesRow, StatusRequest, Active, Found
<1>6. ASSUME NEW s \in Spaces, RemoveSpaceBegin(b, s)
      PROVE  TypeInv'
  BY <1>6 DEF RemoveSpaceBegin, TypeOK, NamesRow, RemoveSpaceRequest
<1>7. CASE RemoveSpace(b)
  <2>1. request[b] \in RemoveSpaceRequest
    BY <1>7, RequestType DEF RemoveSpace
  <2> QED
    BY <1>7, <2>1 DEF RemoveSpace, TypeOK, NamesRow, RemoveSpaceRequest, Space
<1> QED
  BY <1>1, <1>2, <1>3, <1>4, <1>5, <1>6, <1>7 DEF Booking, ReservationStatus

LEMMA NextType == TypeInv /\ [Next]_vars => TypeInv'
<1> SUFFICES ASSUME TypeInv, [Next]_vars
             PROVE  TypeInv'
  OBVIOUS
<1>1. ASSUME NEW b \in Bookers, Booking(b)
      PROVE  TypeInv'
  BY <1>1, BookingType
<1>2. ASSUME NEW p \in Releasers, NEW i \in Ids, StatusBegin(p, i, "CANCELLED")
      PROVE  TypeInv'
  BY <1>2 DEF StatusBegin, TypeInv, TypeOK, NamesRow, StatusRequest,
              ReservationStatus, Active, Found
<1>3. ASSUME NEW p \in Bookers \cup Releasers, UpdateStatus(p)
      PROVE  TypeInv'
  <2> DEFINE i == request[p].id
             row == [reservations[i] EXCEPT !.status = request[p].status]
  <2>1. request[p] \in StatusRequest
    BY <1>3, RequestType DEF UpdateStatus, TypeInv
  <2>2. i \in Ids /\ reservations[i] # Null
    BY <1>3, <2>1, ReservationAssumption
       DEF StatusRequest, TypeInv, NamesRow, UpdateStatus
  <2>3. reservations[i] \in Reservation => row \in Reservation
    BY <2>1 DEF StatusRequest, Reservation
  <2>4. /\ reservations' = [reservations EXCEPT ![i] = Written(i, row)]
        /\ request' = [request EXCEPT ![p] = Null]
        /\ UNCHANGED <<now, spaces>>
    BY <1>3 DEF UpdateStatus
  <2> HIDE DEF row
  <2>5. Written(i, row) \in Reservation \cup {Deleted}
    BY <2>2, <2>3 DEF TypeInv, TypeOK, Written
  <2>6. Written(i, row) # Null
    BY <2>5, ReservationAssumption
  <2> QED
    BY <2>2, <2>4, <2>5, <2>6 DEF TypeInv, TypeOK, NamesRow
<1>4. ASSUME NEW p \in Bookers \cup Releasers, Abort(p)
      PROVE  TypeInv'
  BY <1>4 DEF Abort, TypeInv, TypeOK, NamesRow
<1>5. ASSUME NEW i \in Ids, Remove(i)
      PROVE  TypeInv'
  BY <1>5, ReservationAssumption DEF Remove, TypeInv, TypeOK, NamesRow
<1>6. ASSUME NEW s \in Spaces, NEW a \in BOOLEAN, CreateSpace(s, a)
      PROVE  TypeInv'
  BY <1>6 DEF CreateSpace, TypeInv, TypeOK, NamesRow, Space
<1>7. ASSUME NEW s \in Spaces, NEW a \in BOOLEAN, SetAvailability(s, a)
      PROVE  TypeInv'
  BY <1>7 DEF SetAvailability, SpaceFound, TypeInv, TypeOK, NamesRow, Space
<1>8. CASE Tick
  BY <1>8 DEF Tick, TypeInv, TypeOK, NamesRow
<1>9. CASE UNCHANGED vars
  BY <1>9 DEF vars, TypeInv, TypeOK, NamesRow
<1> QED
  BY <1>1, <1>2, <1>3, <1>4, <1>5, <1>6, <1>7, <1>8, <1>9 DEF Next

\* Every row and every call has its type, whatever the calls do.
THEOREM TypeCorrect == Spec => []TypeOK
<1>1. Spec => []TypeInv
  BY InitType, NextType, PTL DEF Spec
<1> QED
  BY <1>1, PTL DEF TypeInv

-----------------------------------------------------------------------------
(* What one booker at a time gives *)

Books(p) == request[p] # Null /\ request[p].op = "book"

Removes(p) == request[p] # Null /\ request[p].op = "removeSpace"

Confirms(p) ==
    /\ request[p] # Null
    /\ request[p].op = "status" /\ request[p].status # "CANCELLED"

\* Only the bookers' calls can take a slot or a space.
BookersOnly ==
    \A p \in Bookers \cup Releasers :
        Books(p) \/ Removes(p) \/ Confirms(p) => p \in Bookers

\* A step after which no row holds more than it held before.
Releases ==
    \A j \in Ids :
        /\ Active(j)' => Active(j)
        /\ Found(j)' => /\ Found(j)
                        /\ reservations'[j].space = reservations[j].space
                        /\ reservations'[j].date = reservations[j].date
                        /\ reservations'[j].startTime = reservations[j].startTime
                        /\ reservations'[j].endTime = reservations[j].endTime
                        /\ reservations'[j].moved = reservations[j].moved

\* What was read by a call that is about to take a slot is still true.
SlotClaim(p) ==
    /\ Books(p) /\ request[p].checked => NoConflicts(request[p], request[p].id)
    /\ Books(p) /\ request[p].id # Null /\ Found(request[p].id)
         => reservations[request[p].id].space = request[p].space
    /\ Confirms(p) /\ Found(request[p].id)
         => NoConflicts(reservations[request[p].id], request[p].id)

SlotClaims == \A p \in Bookers \cup Releasers : SlotClaim(p)

SlotInv == NoDoubleBooking /\ SlotClaims

LEMMA SameSlotSymmetric ==
    ASSUME NEW a, NEW b, a.startTime \in Nat, a.endTime \in Nat,
           b.startTime \in Nat, b.endTime \in Nat, SameSlot(a, b)
    PROVE  SameSlot(b, a)
  BY DEF SameSlot, HasOverlap

LEMMA ActiveTimes ==
    ASSUME TypeOK, NEW i \in Ids, Found(i)
    PROVE  /\ reservations[i] \in Reservation
           /\ reservations[i].startTime \in Nat
           /\ reservations[i].endTime \in Nat
  BY ReservationAssumption DEF TypeOK, Found, Reservation

\* The calls in flight are those of before, less those that have ended.
FewerRequests ==
    \A p \in Bookers \cup Releasers : request'[p] \in {request[p], Null}

LEMMA ReleaseKeepsNoConflicts ==
    ASSUME Releases, NEW v, NEW i, NoConflicts(v, i)
    PROVE  \A j \in Ids : j # i /\ Active(j)' => ~SameSlot(v, reservations'[j])
  BY DEF Releases, NoConflicts, SameSlot, HasOverlap, Active, Found

LEMMA ReleaseKeepsNoDoubleBooking ==
    ASSUME Releases, NoDoubleBooking
    PROVE  NoDoubleBooking'
<1> SUFFICES ASSUME NEW i \in Ids, NEW j \in Ids, i # j, Active(i)', Active(j)'
             PROVE  ~SameSlot(reservations'[i], reservations'[j])
  BY DEF NoDoubleBooking, SameSlot, HasOverlap
<1>1. Active(i) /\ Active(j) /\ Found(i)' /\ Found(j)'
  BY DEF Releases, Active
<1> QED
  BY <1>1 DEF NoDoubleBooking, Releases, SameSlot, HasOverlap

\* A claim that stays in flight stays true when rows are only released.
LEMMA ReleaseKeepsClaim ==
    ASSUME TypeInv, Releases, SlotClaims, NEW p \in Bookers \cup Releasers,
           request'[p] = request[p]
    PROVE  SlotClaim(p)'
<1>1. ASSUME Books(p)', request'[p].checked
      PROVE  NoConflicts(request[p], request[p].id)'
  <2>1. NoConflicts(request[p], request[p].id)
    BY <1>1 DEF SlotClaims, SlotClaim, Books
  <2> QED
    BY <2>1, ReleaseKeepsNoConflicts DEF NoConflicts
<1>2. ASSUME Confirms(p)', Found(request[p].id)'
      PROVE  NoConflicts(reservations[request[p].id], request[p].id)'
  <2> DEFINE k == request[p].id
  <2>1. k \in Ids
    BY <1>2, RequestType DEF Confirms, TypeInv, StatusRequest
  <2>2. Found(k) /\ NoConflicts(reservations[k], k)
    BY <1>2, <2>1 DEF SlotClaims, SlotClaim, Confirms, Releases, Found
  <2>3. \A j \in Ids : j # k /\ Active(j)' => ~SameSlot(reservations[k], reservations'[j])
    BY <2>2, ReleaseKeepsNoConflicts
  <2>4. /\ reservations'[k].space = reservations[k].space
        /\ reservations'[k].date = reservations[k].date
        /\ reservations'[k].startTime = reservations[k].startTime
        /\ reservations'[k].endTime = reservations[k].endTime
    BY <1>2, <2>1 DEF Releases, Found
  <2> QED
    BY <2>3, <2>4 DEF NoConflicts, SameSlot, HasOverlap
<1>3. ASSUME Books(p)', request'[p].id # Null, Found(request[p].id)'
      PROVE  reservations'[request'[p].id].space = request'[p].space
  <2>1. request[p].id \in Ids
    BY <1>3, RequestType DEF Books, TypeInv, BookRequest
  <2> QED
    BY <1>3, <2>1 DEF SlotClaims, SlotClaim, Books, Releases, Found
<1> QED
  BY <1>1, <1>2, <1>3 DEF SlotClaim

LEMMA ReleaseKeepsSlotInv ==
    ASSUME TypeInv, Releases, FewerRequests, SlotInv
    PROVE  SlotInv'
<1>1. NoDoubleBooking'
  BY ReleaseKeepsNoDoubleBooking DEF SlotInv
<1>2. SlotClaims'
  <2> SUFFICES ASSUME NEW p \in Bookers \cup Releasers, request'[p] # Null
               PROVE  SlotClaim(p)'
    BY DEF SlotClaims, SlotClaim, Books, Confirms
  <2>1. request'[p] = request[p]
    BY DEF FewerRequests
  <2> QED
    BY <2>1, ReleaseKeepsClaim DEF SlotInv
<1> QED
  BY <1>1, <1>2 DEF SlotInv

-----------------------------------------------------------------------------
(* No double booking *)

\* A step that only starts or ends calls keeps every row.
LEMMA SameRows ==
    ASSUME UNCHANGED reservations
    PROVE  Releases
  BY DEF Releases, Active, Found

LEMMA StepKeepsBookersOnly ==
    BookersOnly /\ TypeInv /\ [Next]_vars => BookersOnly'
<1> SUFFICES ASSUME BookersOnly, TypeInv, [Next]_vars
             PROVE  BookersOnly'
  OBVIOUS
<1> USE DEF BookersOnly, Books, Removes, Confirms, TypeInv, TypeOK
<1>1. ASSUME NEW b \in Bookers, Booking(b)
      PROVE  BookersOnly'
  <2>1. \A p \in Bookers \cup Releasers : p # b => request'[p] = request[p]
    BY <1>1 DEF Booking, CreateBegin, UpdateBegin, CheckConflicts, Book,
                StatusBegin, RemoveSpaceBegin, RemoveSpace
  <2> QED
    BY <2>1
<1>2. ASSUME NEW p \in Releasers, NEW i \in Ids, StatusBegin(p, i, "CANCELLED")
      PROVE  BookersOnly'
  BY <1>2 DEF StatusBegin
<1>3. ASSUME NEW p \in Bookers \cup Releasers, UpdateStatus(p) \/ Abort(p)
      PROVE  BookersOnly'
  BY <1>3 DEF UpdateStatus, Abort
<1>4. CASE UNCHANGED request
  BY <1>4
<1>5. ASSUME NEW i \in Ids, Remove(i)
      PROVE  UNCHANGED request
  BY <1>5 DEF Remove
<1>6. ASSUME NEW s \in Spaces, NEW a \in BOOLEAN,
             CreateSpace(s, a) \/ SetAvailability(s, a)
      PROVE  UNCHANGED request
  BY <1>6 DEF CreateSpace, SetAvailability
<1>7. CASE Tick \/ UNCHANGED vars
  BY <1>4, <1>7 DEF Tick, vars
<1> QED
  BY <1>1, <1>2, <1>3, <1>4, <1>5, <1>6, <1>7 DEF Next

\* When one booker takes a slot, nobody else has read anything about slots.
LEMMA OthersClaimNothing ==
    ASSUME OneBooker, BookersOnly, NEW b \in Bookers,
           NEW p \in Bookers \cup Releasers, p # b
    PROVE  ~Books(p) /\ ~Removes(p) /\ ~Confirms(p)
  BY DEF OneBooker, BookersOnly

\* One row changes, and what it now holds collides with nothing.
LEMMA OneRowChanges ==
    ASSUME TypeInv, TypeInv', NoDoubleBooking, NEW i \in Ids,
           \A j \in Ids : j # i => reservations'[j] = reservations[j],
           Active(i)' => NoConflicts(reservations'[i], i)
    PROVE  NoDoubleBooking'
<1> SUFFICES ASSUME NEW j \in Ids, NEW k \in Ids, j # k, Active(j)', Active(k)'
             PROVE  ~SameSlot(reservations'[j], reservations'[k])
  BY DEF NoDoubleBooking, SameSlot, HasOverlap
<1> USE DEF Active, Found
<1>0. /\ reservations'[j].startTime \in Nat /\ reservations'[j].endTime \in Nat
      /\ reservations'[k].startTime \in Nat /\ reservations'[k].endTime \in Nat
  BY ReservationAssumption DEF TypeInv, TypeOK, Reservation
<1>1. CASE j # i /\ k # i
  BY <1>1 DEF NoDoubleBooking
<1>2. CASE j = i
  BY <1>2 DEF NoConflicts
<1>3. CASE k = i
  <2>1. ~SameSlot(reservations'[k], reservations'[j])
    BY <1>3 DEF NoConflicts
  <2> QED
    BY <2>1, <1>0, SameSlotSymmetric
<1> QED
  BY <1>1, <1>2, <1>3

SlotIInv == TypeInv /\ BookersOnly /\ SlotInv

\* A call that starts claims nothing yet, unless what it read says that it may.
LEMMA RequestStarts ==
    ASSUME TypeInv, SlotInv, UNCHANGED reservations,
           NEW b \in Bookers \cup Releasers,
           \A p \in Bookers \cup Releasers : p # b => request'[p] = request[p],
           SlotClaim(b)'
    PROVE  SlotInv'
<1>1. Releases
  BY SameRows
<1>2. NoDoubleBooking'
  BY <1>1, ReleaseKeepsNoDoubleBooking DEF SlotInv
<1>3. ASSUME NEW p \in Bookers \cup Releasers
      PROVE  SlotClaim(p)'
  <2>1. CASE p = b
    BY <2>1
  <2>2. CASE p # b
    BY <1>1, <2>2, ReleaseKeepsClaim DEF SlotInv
  <2> QED
    BY <2>1, <2>2
<1> QED
  BY <1>2, <1>3 DEF SlotInv, SlotClaims

LEMMA BookingSlot ==
    ASSUME OneBooker, SlotIInv, TypeInv', NEW b \in Bookers, Booking(b)
    PROVE  SlotInv'
<1> USE DEF SlotIInv
<1>1. ASSUME NEW s \in Spaces, NEW d \in Days, NEW start \in Times,
             NEW end \in Times, CreateBegin(b, s, d, start, end)
      PROVE  SlotInv'
  <2>1. request'[b] = Slot(Null, s, d, start, end)
    BY <1>1 DEF CreateBegin, TypeInv, TypeOK
  <2>2. SlotClaim(b)'
    BY <2>1 DEF SlotClaim, Confirms, Slot
  <2>3. /\ UNCHANGED reservations
        /\ \A p \in Bookers \cup Releasers : p # b => request'[p] = request[p]
    BY <1>1 DEF CreateBegin, TypeInv, TypeOK
  <2> QED
    BY <2>2, <2>3, RequestStarts
<1>2. ASSUME NEW i \in Ids, NEW d \in Days \cup {Null},
             NEW start \in Times \cup {Null}, NEW end \in Times \cup {Null},
             UpdateBegin(b, i, d, start, end)
      PROVE  SlotInv'
  <2>1. /\ \E dd, st, en : request'[b] = Slot(i, reservations[i].space, dd, st, en)
        /\ UNCHANGED reservations
    BY <1>2 DEF UpdateBegin, TypeInv, TypeOK
  <2>2. SlotClaim(b)'
    BY <2>1 DEF SlotClaim, Confirms, Slot
  <2>3. \A p \in Bookers \cup Releasers : p # b => request'[p] = request[p]
    BY <1>2 DEF UpdateBegin, TypeInv, TypeOK
  <2> QED
    BY <2>1, <2>2, <2>3, RequestStarts
<1>3. CASE CheckConflicts(b)
  <2>1. request[b] \in BookRequest
    BY <1>3, RequestType DEF CheckConflicts, TypeInv
  <2>2. CASE NoConflicts(request[b], request[b].id)
    <3>1. request'[b] = [request[b] EXCEPT !.checked = TRUE]
      BY <1>3, <2>2 DEF CheckConflicts, TypeInv, TypeOK
    <3>2. /\ request'[b].op = "book"
          /\ request'[b].id = request[b].id
          /\ request'[b].space = request[b].space
          /\ request'[b].date = request[b].date
          /\ request'[b].startTime = request[b].startTime
          /\ request'[b].endTime = request[b].endTime
      BY <3>1, <2>1, <1>3 DEF BookRequest, CheckConflicts
    <3>3. NoConflicts(request[b], request[b].id)'
      BY <1>3, <2>2, <3>2
         DEF NoConflicts, CheckConflicts, SameSlot, HasOverlap, Active, Found
    <3>4. Books(b) /\ UNCHANGED reservations
      BY <1>3 DEF CheckConflicts, Books
    <3>5. SlotClaim(b)'
      BY <3>2, <3>3, <3>4 DEF SlotClaim, Confirms, Found, SlotInv, SlotClaims
    <3>6. \A p \in Bookers \cup Releasers : p # b => request'[p] = request[p]
      BY <1>3 DEF CheckConflicts, TypeInv, TypeOK
    <3> QED
      BY <3>4, <3>5, <3>6, RequestStarts
  <2>3. CASE ~NoConflicts(request[b], request[b].id)
    <3>1. Releases
      BY <1>3, SameRows DEF CheckConflicts
    <3>2. FewerRequests
      BY <1>3, <2>3 DEF CheckConflicts, FewerRequests, TypeInv, TypeOK
    <3> QED
      BY <3>1, <3>2, ReleaseKeepsSlotInv
  <2> QED
    BY <2>2, <2>3
<1>4. CASE Book(b)
  <2>1. request[b] \in BookRequest
    BY <1>4, RequestType DEF Book, TypeInv
  <2>2. SlotClaim(b) /\ NoConflicts(request[b], request[b].id)
    BY <1>4 DEF Book, Books, SlotInv, SlotClaims, SlotClaim
  <2>3. \E i \in Ids :
           /\ \A j \in Ids : j # i => reservations'[j] = reservations[j]
           /\ Active(i)' => /\ reservations'[i].space = request[b].space
                            /\ reservations'[i].date = request[b].date
                            /\ reservations'[i].startTime = request[b].startTime
                            /\ reservations'[i].endTime = request[b].endTime
           /\ request[b].id \in {i, Null}
    <3>1. CASE request[b].id = Null
      <4>1. PICK i \in Ids :
               /\ reservations[i] = Null
               /\ reservations' = [reservations EXCEPT ![i] =
                    [space |-> request[b].space, date |-> request[b].date,
                     startTime |-> request[b].startTime,
                     endTime |-> request[b].endTime,
                     status |-> "PENDING", moved |-> FALSE]]
        BY <1>4, <3>1 DEF Book
      <4>2. reservations'[i] = [space |-> request[b].space, date |-> request[b].date,
               startTime |-> request[b].startTime, endTime |-> request[b].endTime,
               status |-> "PENDING", moved |-> FALSE]
        BY <4>1 DEF TypeInv, TypeOK
      <4>3. \A j \in Ids : j # i => reservations'[j] = reservations[j]
        BY <4>1 DEF TypeInv, TypeOK
      <4> QED
        BY <3>1, <4>1, <4>2, <4>3
    <3>2. CASE request[b].id # Null
      <4>1. PICK k \in Ids : k = request[b].id /\ reservations[k] # Null
        BY <2>1, <3>2, <1>4 DEF BookRequest, NamesRow, Book, TypeInv
      <4> DEFINE row == [reservations[k] EXCEPT !.date = request[b].date,
                           !.startTime = request[b].startTime,
                           !.endTime = request[b].endTime, !.moved = TRUE]
      <4>2. reservations' = [reservations EXCEPT ![k] = Written(k, row)]
        BY <1>4, <3>2, <4>1 DEF Book
      <4>3. Active(k)' => /\ reservations'[k].space = request[b].space
                          /\ reservations'[k].date = request[b].date
                          /\ reservations'[k].startTime = request[b].startTime
                          /\ reservations'[k].endTime = request[b].endTime
        <5> SUFFICES ASSUME Active(k)'
                     PROVE  /\ reservations'[k].space = request[b].space
                            /\ reservations'[k].date = request[b].date
                            /\ reservations'[k].startTime = request[b].startTime
                            /\ reservations'[k].endTime = request[b].endTime
          OBVIOUS
        <5>1. reservations'[k] = Written(k, row)
          BY <4>1, <4>2 DEF TypeInv, TypeOK
        <5>2. reservations[k] # Deleted
          BY <5>1 DEF Written, Active, Found
        <5>3. reservations[k] \in Reservation /\ Found(k)
          BY <4>1, <5>2 DEF TypeInv, TypeOK, Found
        <5>4. reservations[k].space = request[b].space
          BY <1>4, <2>2, <3>2, <4>1, <5>3 DEF SlotClaim, Books, Book
        <5> QED
          BY <5>1, <5>2, <5>3, <5>4 DEF Written, Reservation
      <4> HIDE DEF row
      <4>4. \A j \in Ids : j # k => reservations'[j] = reservations[j]
        BY <4>1, <4>2 DEF TypeInv, TypeOK
      <4> QED
        BY <4>1, <4>3, <4>4
    <3> QED
      BY <3>1, <3>2
  <2>4. PICK i \in Ids :
           /\ \A j \in Ids : j # i => reservations'[j] = reservations[j]
           /\ Active(i)' => /\ reservations'[i].space = request[b].space
                            /\ reservations'[i].date = request[b].date
                            /\ reservations'[i].startTime = request[b].startTime
                            /\ reservations'[i].endTime = request[b].endTime
           /\ request[b].id \in {i, Null}
    BY <2>3
  <2>5. Active(i)' => NoConflicts(reservations'[i], i)
    BY <2>2, <2>4, ReservationAssumption DEF NoConflicts, SameSlot, HasOverlap, Active, Found
  <2>6. NoDoubleBooking'
    BY <2>4, <2>5, OneRowChanges DEF SlotInv
  <2>7. SlotClaims'
    <3>1. \A p \in Bookers \cup Releasers : p # b => request'[p] = request[p]
      BY <1>4 DEF Book, TypeInv, TypeOK
    <3>2. request'[b] = Null
      BY <1>4 DEF Book, TypeInv, TypeOK
    <3> QED
      BY <3>1, <3>2, OthersClaimNothing DEF SlotClaims, SlotClaim, Books, Confirms
  <2> QED
    BY <2>6, <2>7 DEF SlotInv
<1>5. ASSUME NEW i \in Ids, NEW status \in {"CONFIRMED", "PENDING"},
             StatusBegin(b, i, status)
      PROVE  SlotInv'
  <2>1. /\ request'[b] = [op |-> "status", id |-> i, status |-> status]
        /\ UNCHANGED reservations
        /\ \A p \in Bookers \cup Releasers : p # b => request'[p] = request[p]
    BY <1>5 DEF StatusBegin, TypeInv, TypeOK
  <2>2. NoConflicts(reservations[i], i)
    BY <1>5 DEF StatusBegin, SlotInv, NoDoubleBooking, NoConflicts
  <2>3. NoConflicts(reservations[request[b].id], request[b].id)'
    BY <2>1, <2>2 DEF NoConflicts, Active, Found
  <2>4. SlotClaim(b)'
    BY <2>1, <2>3 DEF SlotClaim, Books
  <2> QED
    BY <2>1, <2>4, RequestStarts
<1>6. ASSUME NEW s \in Spaces, RemoveSpaceBegin(b, s)
      PROVE  SlotInv'
  <2>1. /\ request'[b] = [op |-> "removeSpace", space |-> s]
        /\ UNCHANGED reservations
        /\ \A p \in Bookers \cup Releasers : p # b => request'[p] = request[p]
    BY <1>6 DEF RemoveSpaceBegin, TypeInv, TypeOK
  <2>2. SlotClaim(b)'
    BY <2>1 DEF SlotClaim, Books, Confirms
  <2> QED
    BY <2>1, <2>2, RequestStarts
<1>7. CASE RemoveSpace(b)
  <2>1. Releases
    BY <1>7, SameRows DEF RemoveSpace
  <2>2. FewerRequests
    BY <1>7 DEF RemoveSpace, FewerRequests, TypeInv, TypeOK
  <2> QED
    BY <2>1, <2>2, ReleaseKeepsSlotInv
<1> QED
  BY <1>1, <1>2, <1>3, <1>4, <1>5, <1>6, <1>7 DEF Booking

\* A status is written on a row that is free of conflicts, or frees it.
LEMMA UpdateStatusSlot ==
    ASSUME OneBooker, SlotIInv, TypeInv', NEW p \in Bookers \cup Releasers,
           UpdateStatus(p)
    PROVE  SlotInv'
<1> USE DEF SlotIInv
<1>1. request[p] \in StatusRequest
  BY RequestType DEF UpdateStatus, TypeInv
<1>2. PICK i \in Ids : i = request[p].id /\ reservations[i] # Null
  BY <1>1, ReservationAssumption
     DEF StatusRequest, TypeInv, NamesRow, UpdateStatus
<1> DEFINE row == [reservations[i] EXCEPT !.status = request[p].status]
<1>3. /\ reservations'[i] = Written(i, row)
      /\ \A j \in Ids : j # i => reservations'[j] = reservations[j]
      /\ \A q \in Bookers \cup Releasers : q # p => request'[q] = request[q]
      /\ request'[p] = Null
  BY <1>2 DEF UpdateStatus, TypeInv, TypeOK
<1>4. Found(i)' => /\ Found(i)
                   /\ reservations'[i].space = reservations[i].space
                   /\ reservations'[i].date = reservations[i].date
                   /\ reservations'[i].startTime = reservations[i].startTime
                   /\ reservations'[i].endTime = reservations[i].endTime
                   /\ reservations'[i].moved = reservations[i].moved
                   /\ reservations'[i].status = request[p].status
  <2> SUFFICES ASSUME Found(i)'
               PROVE  /\ Found(i) /\ reservations[i] \in Reservation
                      /\ reservations'[i] = row
    BY <1>1 DEF Reservation, StatusRequest
  <2>1. reservations[i] # Deleted
    BY <1>3 DEF Written, Found
  <2> QED
    BY <1>2, <1>3, <2>1 DEF Written, Found, TypeInv, TypeOK
<1> HIDE DEF row
<1>5. CASE request[p].status = "CANCELLED"
  <2>1. Releases
    BY <1>3, <1>4, <1>5 DEF Releases, Active, Found
  <2>2. FewerRequests
    BY <1>3 DEF FewerRequests
  <2> QED
    BY <2>1, <2>2, ReleaseKeepsSlotInv
<1>6. CASE request[p].status # "CANCELLED"
  <2>1. Confirms(p) /\ p \in Bookers
    BY <1>6 DEF Confirms, UpdateStatus, BookersOnly
  <2>2. Active(i)' => NoConflicts(reservations'[i], i)
    <3> SUFFICES ASSUME Active(i)'
                 PROVE  NoConflicts(reservations'[i], i)
      OBVIOUS
    <3>1. NoConflicts(reservations[i], i)
      BY <1>2, <1>4, <2>1 DEF SlotInv, SlotClaims, SlotClaim, Active
    <3> QED
      BY <1>4, <3>1 DEF NoConflicts, SameSlot, HasOverlap, Active
  <2>3. NoDoubleBooking'
    BY <1>3, <2>2, OneRowChanges DEF SlotInv
  <2>4. SlotClaims'
    BY <1>3, <2>1, OthersClaimNothing DEF SlotClaims, SlotClaim, Books, Confirms
  <2> QED
    BY <2>3, <2>4 DEF SlotInv
<1> QED
  BY <1>5, <1>6

LEMMA NextSlot == OneBooker /\ SlotIInv /\ [Next]_vars => SlotIInv'
<1> SUFFICES ASSUME OneBooker, SlotIInv, [Next]_vars
             PROVE  SlotIInv'
  OBVIOUS
<1>0. TypeInv' /\ BookersOnly'
  BY NextType, StepKeepsBookersOnly DEF SlotIInv
<1>1. ASSUME NEW b \in Bookers, Booking(b)
      PROVE  SlotInv'
  BY <1>0, <1>1, BookingSlot
<1>2. ASSUME NEW p \in Releasers, NEW i \in Ids, StatusBegin(p, i, "CANCELLED")
      PROVE  SlotInv'
  <2>1. /\ request'[p] = [op |-> "status", id |-> i, status |-> "CANCELLED"]
        /\ UNCHANGED reservations
        /\ \A q \in Bookers \cup Releasers : q # p => request'[q] = request[q]
    BY <1>2 DEF StatusBegin, SlotIInv, TypeInv, TypeOK
  <2>2. SlotClaim(p)'
    BY <2>1 DEF SlotClaim, Books, Confirms
  <2> QED
    BY <2>1, <2>2, RequestStarts DEF SlotIInv
<1>3. ASSUME NEW p \in Bookers \cup Releasers, UpdateStatus(p)
      PROVE  SlotInv'
  BY <1>0, <1>3, UpdateStatusSlot
<1>4. ASSUME Releases, FewerRequests
      PROVE  SlotInv'
  BY <1>4, ReleaseKeepsSlotInv DEF SlotIInv
<1>5. ASSUME NEW p \in Bookers \cup Releasers, Abort(p)
      PROVE  Releases /\ FewerRequests
  BY <1>5, SameRows DEF Abort, FewerRequests, SlotIInv, TypeInv, TypeOK
<1>6. ASSUME NEW i \in Ids, Remove(i)
      PROVE  Releases /\ FewerRequests
  BY <1>6 DEF Remove, Releases, FewerRequests, Active, Found, SlotIInv, TypeInv, TypeOK
<1>7. ASSUME NEW s \in Spaces, NEW a \in BOOLEAN,
             CreateSpace(s, a) \/ SetAvailability(s, a)
      PROVE  Releases /\ FewerRequests
  BY <1>7, SameRows DEF CreateSpace, SetAvailability, FewerRequests
<1>8. ASSUME Tick \/ UNCHANGED vars
      PROVE  Releases /\ FewerRequests
  BY <1>8, SameRows DEF Tick, vars, FewerRequests
<1> QED
  BY <1>0, <1>1, <1>2, <1>3, <1>4, <1>5, <1>6, <1>7, <1>8 DEF Next, SlotIInv

LEMMA InitSlot == Init => SlotIInv
<1> SUFFICES ASSUME Init
             PROVE  SlotIInv
  OBVIOUS
<1>1. TypeInv
  BY InitType
<1>2. BookersOnly /\ SlotClaims /\ NoDoubleBooking
  BY DEF Init, BookersOnly, SlotClaims, SlotClaim, NoDoubleBooking, Books,
         Removes, Confirms, Active, Found
<1> QED
  BY <1>1, <1>2 DEF SlotIInv, SlotInv

\* The calendar has no double booking as long as the calls that claim a slot
\* come one at a time, however many calls cancel at the same time.
THEOREM ConflictDetection ==
    ASSUME OneBooker
    PROVE  Spec => []NoDoubleBooking
<1>1. SlotIInv /\ [Next]_vars => SlotIInv'
  BY NextSlot
<1>2. SlotIInv => NoDoubleBooking
  BY DEF SlotIInv, SlotInv
<1> QED
  BY <1>1, <1>2, InitSlot, PTL DEF Spec

-----------------------------------------------------------------------------
(* A removed space had no upcoming booking *)

\* Row r of a removed space was over by then.
OverAtRemoval(r) ==
    ~r.moved /\ spaces[r.space].deletedAt # Null
        => 2 * r.date + 1 <= spaces[r.space].deletedAt

\* What a call has read about a space is still true.
SpaceClaim(p) ==
    /\ Books(p) /\ request[p].id = Null => spaces[request[p].space].deletedAt = Null
    /\ Confirms(p) /\ Found(request[p].id) => OverAtRemoval(reservations[request[p].id])
    /\ Removes(p) => \A i \in Ids :
          Active(i) /\ ~reservations[i].moved /\ reservations[i].space = request[p].space
            => 2 * reservations[i].date + 1 <= now

SpaceClaims == \A p \in Bookers \cup Releasers : SpaceClaim(p)

SpaceInv == RemovedSpaceWasFree /\ SpaceClaims

SpaceIInv == TypeInv /\ BookersOnly /\ SpaceInv

\* No space is removed, and the clock does not go back.
SpacesStay ==
    /\ now <= now' /\ now' \in Nat
    /\ \A s \in Spaces : spaces'[s] = spaces[s] \/ spaces'[s].deletedAt = Null

LEMMA StayKeepsClaim ==
    ASSUME TypeInv, TypeInv', Releases, SpacesStay, SpaceClaims,
           NEW p \in Bookers \cup Releasers, request'[p] = request[p]
    PROVE  SpaceClaim(p)'
<1>1. ASSUME Books(p)', request'[p].id = Null
      PROVE  spaces'[request'[p].space].deletedAt = Null
  <2>1. Books(p) /\ request[p].space \in Spaces
    BY <1>1, RequestType DEF Books, TypeInv, BookRequest
  <2> QED
    BY <1>1, <2>1 DEF SpacesStay, SpaceClaims, SpaceClaim
<1>2. ASSUME Confirms(p)', Found(request[p].id)'
      PROVE  OverAtRemoval(reservations[request[p].id])'
  <2>1. PICK k \in Ids : k = request[p].id
    BY <1>2, RequestType DEF Confirms, TypeInv, StatusRequest
  <2>2. /\ Found(k) /\ Found(k)'
        /\ reservations'[k].space = reservations[k].space
        /\ reservations'[k].date = reservations[k].date
        /\ reservations'[k].moved = reservations[k].moved
    BY <1>2, <2>1 DEF Releases, Found
  <2>3. reservations[k].space \in Spaces
    BY <2>2, ActiveTimes DEF TypeInv, Reservation
  <2>4. OverAtRemoval(reservations[k])
    BY <1>2, <2>1, <2>2 DEF SpaceClaims, SpaceClaim, Confirms
  <2>5. spaces'[reservations[k].space] = spaces[reservations[k].space]
          \/ spaces'[reservations[k].space].deletedAt = Null
    BY <2>3 DEF SpacesStay
  <2>6. OverAtRemoval(reservations[k])'
    BY <2>2, <2>4, <2>5 DEF OverAtRemoval
  <2> QED
    BY <1>2, <2>1, <2>6
<1>3. ASSUME Removes(p)', NEW i \in Ids, Active(i)', ~reservations'[i].moved,
             reservations'[i].space = request'[p].space
      PROVE  2 * reservations'[i].date + 1 <= now'
  <2>1. Active(i) /\ Found(i)'
    BY <1>3 DEF Releases, Active
  <2>2. 2 * reservations[i].date + 1 <= now
    BY <1>3, <2>1 DEF SpaceClaims, SpaceClaim, Removes, Releases
  <2>3. reservations[i].date \in Nat /\ now \in Nat
    BY <2>1, ActiveTimes, ReservationAssumption DEF TypeInv, TypeOK, Reservation, Active
  <2> QED
    BY <2>1, <2>2, <2>3 DEF Releases, SpacesStay
<1> QED
  BY <1>1, <1>2, <1>3 DEF SpaceClaim

LEMMA StayKeepsRemoved ==
    ASSUME TypeInv, Releases, SpacesStay, RemovedSpaceWasFree
    PROVE  RemovedSpaceWasFree'
<1> SUFFICES ASSUME NEW i \in Ids, Active(i)'
             PROVE  OverAtRemoval(reservations[i])'
  BY DEF RemovedSpaceWasFree, OverAtRemoval
<1>1. Active(i) /\ Found(i)'
  BY DEF Releases, Active
<1>2. reservations[i].space \in Spaces
  BY <1>1, ActiveType DEF TypeInv, Reservation
<1>3. OverAtRemoval(reservations[i])
  BY <1>1 DEF RemovedSpaceWasFree, OverAtRemoval
<1>4. /\ spaces'[reservations[i].space] = spaces[reservations[i].space]
         \/ spaces'[reservations[i].space].deletedAt = Null
      /\ reservations'[i].space = reservations[i].space
      /\ reservations'[i].date = reservations[i].date
      /\ reservations'[i].moved = reservations[i].moved
  BY <1>1, <1>2 DEF SpacesStay, Releases
<1> QED
  BY <1>3, <1>4 DEF OverAtRemoval

LEMMA StayKeepsSpaceInv ==
    ASSUME TypeInv, TypeInv', Releases, SpacesStay, SpaceInv,
           \A p \in Bookers \cup Releasers :
              request'[p] = request[p] \/ SpaceClaim(p)'
    PROVE  SpaceInv'
  BY StayKeepsRemoved, StayKeepsClaim DEF SpaceInv, SpaceClaims

LEMMA SameSpaces ==
    ASSUME TypeInv, UNCHANGED <<now, spaces>>
    PROVE  SpacesStay
  BY DEF SpacesStay, TypeInv, TypeOK

\* One row changes, and its space was not removed before its booking.
LEMMA OneRowInSpace ==
    ASSUME RemovedSpaceWasFree, UNCHANGED spaces, NEW i \in Ids,
           \A j \in Ids : j # i => reservations'[j] = reservations[j],
           Active(i)' => OverAtRemoval(reservations[i])'
    PROVE  RemovedSpaceWasFree'
<1> SUFFICES ASSUME NEW j \in Ids, Active(j)'
             PROVE  OverAtRemoval(reservations[j])'
  BY DEF RemovedSpaceWasFree, OverAtRemoval
<1>1. CASE j # i
  BY <1>1 DEF RemovedSpaceWasFree, OverAtRemoval, Active, Found
<1> QED
  BY <1>1

LEMMA BookingSpace ==
    ASSUME OneBooker, SpaceIInv, TypeInv', NEW b \in Bookers, Booking(b)
    PROVE  SpaceInv'
<1> USE DEF SpaceIInv
<1>1. ASSUME UNCHANGED <<now, spaces, reservations>>, SpaceClaim(b)',
             \A p \in Bookers \cup Releasers : p # b => request'[p] = request[p]
      PROVE  SpaceInv'
  BY <1>1, SameSpaces, SameRows, StayKeepsSpaceInv
<1>2. ASSUME NEW s \in Spaces, NEW d \in Days, NEW start \in Times,
             NEW end \in Times, CreateBegin(b, s, d, start, end)
      PROVE  SpaceInv'
  <2>1. /\ request'[b] = Slot(Null, s, d, start, end)
        /\ UNCHANGED <<now, spaces, reservations>>
        /\ \A p \in Bookers \cup Releasers : p # b => request'[p] = request[p]
    BY <1>2 DEF CreateBegin, TypeInv, TypeOK
  <2>2. spaces'[s].deletedAt = Null
    BY <1>2, <2>1 DEF CreateBegin, SpaceFound
  <2>3. SpaceClaim(b)'
    BY <2>1, <2>2 DEF SpaceClaim, Confirms, Removes, Slot
  <2> QED
    BY <1>1, <2>1, <2>3
<1>3. ASSUME NEW i \in Ids, NEW d \in Days \cup {Null},
             NEW start \in Times \cup {Null}, NEW end \in Times \cup {Null},
             UpdateBegin(b, i, d, start, end)
      PROVE  SpaceInv'
  <2>1. /\ \E s, dd, st, en : request'[b] = Slot(i, s, dd, st, en)
        /\ UNCHANGED <<now, spaces, reservations>>
        /\ \A p \in Bookers \cup Releasers : p # b => request'[p] = request[p]
    BY <1>3 DEF UpdateBegin, TypeInv, TypeOK
  <2>2. SpaceClaim(b)'
    BY <2>1, ReservationAssumption DEF SpaceClaim, Confirms, Removes, Slot
  <2> QED
    BY <1>1, <2>1, <2>2
<1>4. CASE CheckConflicts(b)
  <2>1. request[b] \in BookRequest /\ Books(b)
    BY <1>4, RequestType DEF CheckConflicts, TypeInv, Books
  <2>2. /\ request'[b] \in {[request[b] EXCEPT !.checked = TRUE], Null}
        /\ UNCHANGED <<now, spaces, reservations>>
        /\ \A p \in Bookers \cup Releasers : p # b => request'[p] = request[p]
    BY <1>4 DEF CheckConflicts, TypeInv, TypeOK
  <2>3. request'[b] # Null => /\ request'[b].op = "book"
                              /\ request'[b].id = request[b].id
                              /\ request'[b].space = request[b].space
    BY <2>1, <2>2 DEF BookRequest
  <2>4. SpaceClaim(b)'
    BY <2>1, <2>2, <2>3 DEF SpaceClaim, SpaceInv, SpaceClaims, Books, Confirms, Removes
  <2> QED
    BY <1>1, <2>2, <2>4
<1>5. ASSUME RemovedSpaceWasFree', request'[b] = Null,
             \A p \in Bookers \cup Releasers : p # b => request'[p] = request[p]
      PROVE  SpaceInv'
  BY <1>5, OthersClaimNothing
     DEF SpaceInv, SpaceClaims, SpaceClaim, Books, Confirms, Removes
<1>6. CASE Book(b)
  <2>1. /\ request[b] \in BookRequest /\ Books(b)
        /\ UNCHANGED <<now, spaces>>
        /\ request'[b] = Null
        /\ \A p \in Bookers \cup Releasers : p # b => request'[p] = request[p]
    BY <1>6, RequestType DEF Book, TypeInv, Books, TypeOK
  <2>2. CASE request[b].id = Null
    <3>1. PICK i \in Ids :
             reservations' = [reservations EXCEPT ![i] =
                  [space |-> request[b].space, date |-> request[b].date,
                   startTime |-> request[b].startTime,
                   endTime |-> request[b].endTime,
                   status |-> "PENDING", moved |-> FALSE]]
      BY <1>6, <2>2 DEF Book
    <3>2. /\ reservations'[i].space = request[b].space
          /\ \A j \in Ids : j # i => reservations'[j] = reservations[j]
      BY <3>1 DEF TypeInv, TypeOK
    <3>3. spaces[request[b].space].deletedAt = Null
      BY <2>1, <2>2 DEF SpaceInv, SpaceClaims, SpaceClaim
    <3>4. OverAtRemoval(reservations[i])'
      BY <2>1, <3>2, <3>3 DEF OverAtRemoval
    <3> QED
      BY <2>1, <3>2, <3>4, <1>5, OneRowInSpace DEF SpaceInv
  <2>3. CASE request[b].id # Null
    <3>1. PICK k \in Ids : k = request[b].id
      BY <2>1, <2>3 DEF BookRequest
    <3> DEFINE row == [reservations[k] EXCEPT !.date = request[b].date,
                          !.startTime = request[b].startTime,
                          !.endTime = request[b].endTime, !.moved = TRUE]
    <3>2. reservations' = [reservations EXCEPT ![k] = Written(k, row)]
      BY <1>6, <2>3, <3>1 DEF Book
    <3>3. /\ reservations'[k] = Written(k, row)
          /\ \A j \in Ids : j # k => reservations'[j] = reservations[j]
      BY <3>1, <3>2 DEF TypeInv, TypeOK
    <3>4. ASSUME Active(k)'
          PROVE  OverAtRemoval(reservations[k])'
      <4>1. reservations[k] # Deleted
        BY <3>3, <3>4 DEF Written, Active, Found
      <4>2. reservations[k] # Null
        BY <1>6, <2>3, <3>1 DEF NamesRow, Book, TypeInv
      <4>3. reservations[k] \in Reservation
        BY <4>1, <4>2 DEF TypeInv, TypeOK
      <4>4. reservations'[k].moved
        BY <3>3, <4>1, <4>3 DEF Written, Reservation
      <4> QED
        BY <4>4 DEF OverAtRemoval
    <3> QED
      BY <2>1, <3>3, <3>4, <1>5, OneRowInSpace DEF SpaceInv
  <2> QED
    BY <2>2, <2>3
<1>7. ASSUME NEW i \in Ids, NEW status \in {"CONFIRMED", "PENDING"},
             StatusBegin(b, i, status)
      PROVE  SpaceInv'
  <2>1. /\ request'[b] = [op |-> "status", id |-> i, status |-> status]
        /\ UNCHANGED <<now, spaces, reservations>>
        /\ \A p \in Bookers \cup Releasers : p # b => request'[p] = request[p]
    BY <1>7 DEF StatusBegin, TypeInv, TypeOK
  <2>2. OverAtRemoval(reservations[i])
    BY <1>7 DEF StatusBegin, SpaceInv, RemovedSpaceWasFree, OverAtRemoval
  <2>3. SpaceClaim(b)'
    BY <2>1, <2>2 DEF SpaceClaim, Books, Removes, OverAtRemoval
  <2> QED
    BY <1>1, <2>1, <2>3
<1>8. ASSUME NEW s \in Spaces, RemoveSpaceBegin(b, s)
      PROVE  SpaceInv'
  <2>1. /\ request'[b] = [op |-> "removeSpace", space |-> s]
        /\ UNCHANGED <<now, spaces, reservations>>
        /\ \A p \in Bookers \cup Releasers : p # b => request'[p] = request[p]
    BY <1>8 DEF RemoveSpaceBegin, TypeInv, TypeOK
  <2>2. ASSUME NEW i \in Ids, Active(i), reservations[i].space = s
        PROVE  2 * reservations[i].date + 1 <= now
    <3>1. reservations[i].date \in Nat /\ now \in Nat
      BY <2>2, ActiveTimes, ReservationAssumption
         DEF TypeInv, TypeOK, Reservation, Active
    <3> QED
      BY <1>8, <2>2, <3>1 DEF RemoveSpaceBegin, Upcoming
  <2>3. SpaceClaim(b)'
    BY <2>1, <2>2 DEF SpaceClaim, Books, Confirms, Active, Found
  <2> QED
    BY <1>1, <2>1, <2>3
<1>9. CASE RemoveSpace(b)
  <2>1. request[b] \in RemoveSpaceRequest /\ Removes(b)
    BY <1>9, RequestType DEF RemoveSpace, TypeInv, Removes
  <2>2. PICK s \in Spaces : s = request[b].space
    BY <2>1 DEF RemoveSpaceRequest
  <2>3. /\ spaces'[s].deletedAt = now
        /\ \A t \in Spaces : t # s => spaces'[t] = spaces[t]
        /\ UNCHANGED reservations
        /\ request'[b] = Null
        /\ \A p \in Bookers \cup Releasers : p # b => request'[p] = request[p]
    BY <1>9, <2>2 DEF RemoveSpace, TypeInv, TypeOK
  <2>4. RemovedSpaceWasFree'
    <3> SUFFICES ASSUME NEW i \in Ids, Active(i)
                 PROVE  OverAtRemoval(reservations[i])'
      BY <2>3 DEF RemovedSpaceWasFree, OverAtRemoval, Active, Found
    <3>1. reservations[i].space \in Spaces
      BY ActiveType DEF TypeInv, Reservation
    <3>2. CASE reservations[i].space = s
      BY <2>1, <2>2, <2>3, <3>2 DEF SpaceInv, SpaceClaims, SpaceClaim, OverAtRemoval
    <3>3. CASE reservations[i].space # s
      BY <2>3, <3>1, <3>3 DEF SpaceInv, RemovedSpaceWasFree, OverAtRemoval
    <3> QED
      BY <3>2, <3>3
  <2> QED
    BY <1>5, <2>3, <2>4
<1> QED
  BY <1>2, <1>3, <1>4, <1>6, <1>7, <1>8, <1>9 DEF Booking

LEMMA UpdateStatusSpace ==
    ASSUME OneBooker, SpaceIInv, TypeInv', NEW p \in Bookers \cup Releasers,
           UpdateStatus(p)
    PROVE  SpaceInv'
<1> USE DEF SpaceIInv
<1>1. request[p] \in StatusRequest
  BY RequestType DEF UpdateStatus, TypeInv
<1>2. PICK i \in Ids : i = request[p].id /\ reservations[i] # Null
  BY <1>1, ReservationAssumption
     DEF StatusRequest, TypeInv, NamesRow, UpdateStatus
<1> DEFINE row == [reservations[i] EXCEPT !.status = request[p].status]
<1>3. /\ reservations'[i] = Written(i, row)
      /\ \A j \in Ids : j # i => reservations'[j] = reservations[j]
      /\ \A q \in Bookers \cup Releasers : q # p => request'[q] = request[q]
      /\ request'[p] = Null
      /\ UNCHANGED <<now, spaces>>
  BY <1>2 DEF UpdateStatus, TypeInv, TypeOK
<1>4. Found(i)' => /\ Found(i)
                   /\ reservations'[i].space = reservations[i].space
                   /\ reservations'[i].date = reservations[i].date
                   /\ reservations'[i].startTime = reservations[i].startTime
                   /\ reservations'[i].endTime = reservations[i].endTime
                   /\ reservations'[i].moved = reservations[i].moved
                   /\ reservations'[i].status = request[p].status
  <2> SUFFICES ASSUME Found(i)'
               PROVE  /\ Found(i) /\ reservations[i] \in Reservation
                      /\ reservations'[i] = row
    BY <1>1 DEF Reservation, StatusRequest
  <2>1. reservations[i] # Deleted
    BY <1>3 DEF Written, Found
  <2> QED
    BY <1>2, <1>3, <2>1 DEF Written, Found, TypeInv, TypeOK
<1> HIDE DEF row
<1>5. CASE request[p].status = "CANCELLED"
  <2>1. Releases
    BY <1>3, <1>4, <1>5 DEF Releases, Active, Found
  <2>2. SpacesStay
    BY <1>3, SameSpaces
  <2>3. SpaceClaim(p)'
    BY <1>3 DEF SpaceClaim, Books, Confirms, Removes
  <2> QED
    BY <1>3, <2>1, <2>2, <2>3, StayKeepsSpaceInv
<1>6. CASE request[p].status # "CANCELLED"
  <2>1. Confirms(p) /\ p \in Bookers
    BY <1>6 DEF Confirms, UpdateStatus, BookersOnly
  <2>2. ASSUME Active(i)'
        PROVE  OverAtRemoval(reservations[i])'
    <3>1. OverAtRemoval(reservations[i])
      BY <1>2, <1>4, <2>1, <2>2 DEF SpaceInv, SpaceClaims, SpaceClaim, Active
    <3> QED
      BY <1>3, <1>4, <2>2, <3>1 DEF OverAtRemoval, Active
  <2>3. RemovedSpaceWasFree'
    BY <1>3, <2>2, OneRowInSpace DEF SpaceInv
  <2>4. SpaceClaims'
    BY <1>3, <2>1, OthersClaimNothing
       DEF SpaceClaims, SpaceClaim, Books, Confirms, Removes
  <2> QED
    BY <2>3, <2>4 DEF SpaceInv
<1> QED
  BY <1>5, <1>6

LEMMA NextSpace == OneBooker /\ SpaceIInv /\ [Next]_vars => SpaceIInv'
<1> SUFFICES ASSUME OneBooker, SpaceIInv, [Next]_vars
             PROVE  SpaceIInv'
  OBVIOUS
<1>0. TypeInv' /\ BookersOnly'
  BY NextType, StepKeepsBookersOnly DEF SpaceIInv
<1>1. ASSUME NEW b \in Bookers, Booking(b)
      PROVE  SpaceInv'
  BY <1>0, <1>1, BookingSpace
<1>2. ASSUME Releases, SpacesStay,
             \A p \in Bookers \cup Releasers :
                request'[p] = request[p] \/ SpaceClaim(p)'
      PROVE  SpaceInv'
  BY <1>0, <1>2, StayKeepsSpaceInv DEF SpaceIInv
<1>3. ASSUME NEW p \in Releasers, NEW i \in Ids, StatusBegin(p, i, "CANCELLED")
      PROVE  SpaceInv'
  <2>1. /\ request'[p] = [op |-> "status", id |-> i, status |-> "CANCELLED"]
        /\ UNCHANGED <<now, spaces, reservations>>
        /\ \A q \in Bookers \cup Releasers : q # p => request'[q] = request[q]
    BY <1>3 DEF StatusBegin, SpaceIInv, TypeInv, TypeOK
  <2>2. SpaceClaim(p)'
    BY <2>1 DEF SpaceClaim, Books, Confirms, Removes
  <2> QED
    BY <1>2, <2>1, <2>2, SameRows, SameSpaces DEF SpaceIInv
<1>4. ASSUME NEW p \in Bookers \cup Releasers, UpdateStatus(p)
      PROVE  SpaceInv'
  BY <1>0, <1>4, UpdateStatusSpace
<1>5. ASSUME NEW p \in Bookers \cup Releasers, Abort(p)
      PROVE  SpaceInv'
  <2>1. /\ request'[p] = Null
        /\ UNCHANGED <<now, spaces, reservations>>
        /\ \A q \in Bookers \cup Releasers : q # p => request'[q] = request[q]
    BY <1>5 DEF Abort, SpaceIInv, TypeInv, TypeOK
  <2>2. SpaceClaim(p)'
    BY <2>1 DEF SpaceClaim, Books, Confirms, Removes
  <2> QED
    BY <1>2, <2>1, <2>2, SameRows, SameSpaces DEF SpaceIInv
<1>6. ASSUME NEW i \in Ids, Remove(i)
      PROVE  SpaceInv'
  <2>1. Releases
    BY <1>6 DEF Remove, Releases, Active, Found, SpaceIInv, TypeInv, TypeOK
  <2> QED
    BY <1>2, <1>6, <2>1, SameSpaces DEF Remove, SpaceIInv
<1>7. ASSUME NEW s \in Spaces, NEW a \in BOOLEAN,
             CreateSpace(s, a) \/ SetAvailability(s, a)
      PROVE  SpaceInv'
  <2>1. SpacesStay
    BY <1>7 DEF CreateSpace, SetAvailability, SpaceFound, SpacesStay, Space,
                SpaceIInv, TypeInv, TypeOK
  <2>2. UNCHANGED <<reservations, request>>
    BY <1>7 DEF CreateSpace, SetAvailability
  <2> QED
    BY <1>2, <2>1, <2>2, SameRows
<1>8. ASSUME Tick
      PROVE  SpaceInv'
  <2>1. SpacesStay
    BY <1>8 DEF Tick, SpacesStay, SpaceIInv, TypeInv, TypeOK
  <2>2. UNCHANGED reservations /\ UNCHANGED request
    BY <1>8 DEF Tick
  <2> QED
    BY <1>2, <2>1, <2>2, SameRows
<1>9. ASSUME UNCHANGED vars
      PROVE  SpaceInv'
  <2>1. UNCHANGED reservations /\ UNCHANGED request /\ UNCHANGED <<now, spaces>>
    BY <1>9 DEF vars
  <2> QED
    BY <1>2, <2>1, SameRows, SameSpaces DEF SpaceIInv
<1> QED
  BY <1>0, <1>1, <1>3, <1>4, <1>5, <1>6, <1>7, <1>8, <1>9 DEF Next, SpaceIInv

LEMMA InitSpace == Init => SpaceIInv
<1> SUFFICES ASSUME Init
             PROVE  SpaceIInv
  OBVIOUS
<1>1. TypeInv
  BY InitType
<1>2. BookersOnly /\ SpaceClaims /\ RemovedSpaceWasFree
  BY DEF Init, BookersOnly, SpaceClaims, SpaceClaim, RemovedSpaceWasFree, Books,
         Removes, Confirms, Active, Found
<1> QED
  BY <1>1, <1>2 DEF SpaceIInv, SpaceInv

\* A space is never removed under an upcoming booking, as long as the calls
\* that claim a slot or remove a space come one at a time.
THEOREM SpaceRemoval ==
    ASSUME OneBooker
    PROVE  Spec => []RemovedSpaceWasFree
<1>1. SpaceIInv /\ [Next]_vars => SpaceIInv'
  BY NextSpace
<1>2. SpaceIInv => RemovedSpaceWasFree
  BY DEF SpaceIInv, SpaceInv
<1> QED
  BY <1>1, <1>2, InitSpace, PTL DEF Spec
=============================================================================
