---------------------------- MODULE RecordsProofs ----------------------------
(* Attendance, for any finite set of rows and any number of students, days,     *)
(* sport groups and concurrent calls; then the backfill, the promotion of a     *)
(* student, the judgement of evaluations and the reports of MCRecords, each by  *)
(* itself.                                                                     *)
EXTENDS MCRecords, Sequences, FiniteSetTheorems, WellFoundedInduction, TLAPS

USE AttendanceAssumption

-----------------------------------------------------------------------------
(* Attendance: the operators *)

LEMMA AbsencesType ==
    ASSUME NEW table, NEW s
    PROVE  Absences(table, s) \in Nat
<1>1. {i \in Ids : table[i] # Null /\ table[i].student = s /\ table[i].status = "ABSENT"}
        \subseteq Ids
  OBVIOUS
<1> QED
  BY <1>1, FS_Subset, FS_CardinalityType DEF Absences

LEMMA LowestIn ==
    ASSUME NEW left \in SUBSET Thresholds, left # {}
    PROVE  Lowest(left) \in left /\ \A u \in left : Lowest(left) <= u
<1>1. left \subseteq Nat
  BY DEF Thresholds
<1>2. \E t \in left : \A u \in left : t <= u
  <2> DEFINE Below == OpToRel(<, Nat)
  <2>1. IsWellFoundedOn(Below, Nat)
    BY NatLessThanWellFounded
  <2>2. \A x, y \in Nat : y < x => <<y, x>> \in Below
    BY DEF OpToRel
  <2> HIDE DEF Below
  <2>3. PICK t \in left : \A u \in left : ~ (<<u, t>> \in Below)
    BY <1>1, <2>1, WFMin
  <2>4. ASSUME NEW u \in left PROVE t <= u
    <3>1. t \in Nat /\ u \in Nat
      BY <1>1, <2>3
    <3>2. ~ (u < t)
      BY <2>2, <2>3, <3>1
    <3> QED
      BY <3>1, <3>2
  <2> QED
    BY <2>3, <2>4
<1> QED
  BY <1>2 DEF Lowest

LEMMA DtoType ==
    ASSUME NEW dto
    PROVE  dto \in Dtos \cup {NoDto} <=>
             DOMAIN dto \subseteq Students /\ dto \in [DOMAIN dto -> Said]
<1>1. ASSUME dto \in Dtos \cup {NoDto}
      PROVE  DOMAIN dto \subseteq Students /\ dto \in [DOMAIN dto -> Said]
  BY <1>1 DEF Dtos, NoDto
<1>2. ASSUME DOMAIN dto \subseteq Students, dto \in [DOMAIN dto -> Said], DOMAIN dto # {}
      PROVE  dto \in Dtos
  BY <1>2 DEF Dtos
<1>3. ASSUME dto \in [DOMAIN dto -> Said], DOMAIN dto = {}
      PROVE  dto = NoDto
  BY <1>3 DEF NoDto
<1> QED
  BY <1>1, <1>2, <1>3

\* What is left of a dto.
LEMMA DtoRest ==
    ASSUME NEW dto \in Dtos \cup {NoDto}, NEW s
    PROVE  /\ Restrict(dto, DOMAIN dto \ {s}) \in Dtos \cup {NoDto}
           /\ DOMAIN Restrict(dto, DOMAIN dto \ {s}) = DOMAIN dto \ {s}
<1> DEFINE rest == Restrict(dto, DOMAIN dto \ {s})
<1>1. /\ DOMAIN rest = DOMAIN dto \ {s}
      /\ \A u \in DOMAIN rest : rest[u] = dto[u]
      /\ rest = [u \in DOMAIN rest |-> rest[u]]
  BY DEF Restrict
<1>2. DOMAIN dto \subseteq Students /\ dto \in [DOMAIN dto -> Said]
  BY DtoType
<1>3. DOMAIN rest \subseteq Students /\ rest \in [DOMAIN rest -> Said]
  BY <1>1, <1>2
<1> HIDE DEF rest
<1>4. rest \in Dtos \cup {NoDto}
  BY <1>3, DtoType
<1> QED
  BY <1>1, <1>4 DEF rest

LEMMA RequestKinds ==
    ASSUME TypeOK, NEW p \in Requests, request[p] # Null
    PROVE  /\ request[p] \in Request
           /\ request[p].step \in {"find", "write", "list", "checks"} =>
                request[p] \in BulkRequest
           /\ request[p].step = "sport" =>
                request[p] \in [step : {"sport"}, group : Groups, day : Days, dto : Dtos,
                                listed : SUBSET Students]
           /\ request[p].step = "sportChecks" =>
                request[p] \in [step : {"sportChecks"}, listed : SUBSET Students]
           /\ request[p].step = "justify" => request[p] \in JustifyRequest
<1>1. request[p] \in Request
  BY DEF TypeOK
<1> QED
  BY <1>1 DEF Request, BulkRequest, SportRequest, JustifyRequest, MarkRequest

LEMMA BulkChange ==
    ASSUME NEW r \in BulkRequest,
           NEW stage \in {"find", "write", "list", "checks"}, NEW dto \in Dtos \cup {NoDto},
           NEW student \in Students \cup {Null}, NEW found \in Ids \cup {Null},
           NEW new, new = [r EXCEPT !.step = stage, !.dto = dto, !.student = student,
                                    !.found = found]
    PROVE  /\ new \in BulkRequest /\ new \in Request /\ new # Null
           /\ new.step = stage /\ new.dto = dto /\ new.student = student /\ new.found = found
           /\ new.day = r.day /\ new.listed = r.listed
<1>1. /\ new \in BulkRequest
      /\ new.step = stage /\ new.dto = dto /\ new.student = student /\ new.found = found
      /\ new.day = r.day /\ new.listed = r.listed
  BY DEF BulkRequest
<1> QED
  BY <1>1 DEF Request

-----------------------------------------------------------------------------
(* Types *)

\* What the other parts of a call know of its request and of its checks.
CallOK(p) ==
    /\ request[p] # Null =>
         /\ request[p].step = "justify" => Taken(request[p].row)
         /\ request[p].step \notin {"checks", "sportChecks"} => checks[p] = NoChecks
         /\ request[p].step = "write" =>
              /\ request[p].student \in DOMAIN request[p].dto
              /\ request[p].found # Null =>
                   request[p].found \in Found(request[p].student, Null, request[p].day)
    /\ \A i \in Ids : Checking(p, i) =>
         /\ p \in Takers \cup Coaches
         /\ Taken(i)
         /\ checks[p][i].step # "count" => checks[p][i].left # {}

TypeInv == TypeOK /\ \A p \in Requests : CallOK(p)

\* Rows are never deleted, and only their status changes.
RowsStay ==
    \A i \in Ids : Taken(i) =>
        /\ Taken(i)'
        /\ rows'[i].student = rows[i].student
        /\ rows'[i].group = rows[i].group
        /\ rows'[i].day = rows[i].day

LEMMA CallFrame ==
    ASSUME TypeInv, RowsStay, NEW p \in Requests,
           request'[p] = request[p], checks'[p] = checks[p]
    PROVE  CallOK(p)'
<1>1. CallOK(p)
  BY DEF TypeInv
<1>2. request[p] # Null /\ request[p].step = "justify" => request[p].row \in Ids
  BY RequestKinds DEF TypeInv, JustifyRequest
<1>3. request[p] # Null /\ request[p].step = "write" => request[p].found \in Ids \cup {Null}
  BY RequestKinds DEF TypeInv, BulkRequest
<1>4. \A s, g, d : Found(s, g, d) \subseteq Found(s, g, d)'
  BY DEF Found, RowsStay
<1> QED
  BY <1>1, <1>2, <1>3, <1>4 DEF CallOK, Checking, RowsStay, NoChecks

LEMMA WriteType ==
    ASSUME TypeOK, NEW table \in [Ids -> Row \cup {Null}], Write(table)
    PROVE  /\ rows' = table
           /\ rows' \in [Ids -> Row \cup {Null}]
           /\ peak' \in [Students -> Nat]
           /\ superseded' \in SUBSET Editors
<1>1. \A s \in Students : Absences(table, s) \in Nat /\ peak[s] \in Nat
  BY AbsencesType DEF TypeOK
<1>2. \A s \in Students : Higher(peak[s], Absences(table, s)) \in Nat
  BY <1>1 DEF Higher
<1> QED
  BY <1>2 DEF Write

\* A write to the status of a row.
LEMMA StatusRows ==
    ASSUME TypeOK, NEW i \in Ids, Taken(i), NEW status \in AttendanceStatus,
           NEW table, table = [rows EXCEPT ![i].status = status]
    PROVE  /\ table \in [Ids -> Row \cup {Null}]
           /\ table[i] \in Row /\ table[i].status = status
           /\ table[i].student = rows[i].student
           /\ table[i].group = rows[i].group
           /\ table[i].day = rows[i].day
           /\ \A j \in Ids : j # i => table[j] = rows[j]
           /\ rows' = table => RowsStay
<1>1. rows \in [Ids -> Row \cup {Null}] /\ rows[i] \in Row
  BY DEF TypeOK, Taken
<1>2. table[i] = [rows[i] EXCEPT !.status = status]
  BY <1>1
<1>3. /\ table[i] \in Row /\ table[i].status = status
      /\ table[i].student = rows[i].student
      /\ table[i].group = rows[i].group
      /\ table[i].day = rows[i].day
  BY <1>1, <1>2 DEF Row
<1>4. \A j \in Ids : j # i => table[j] = rows[j]
  BY <1>1
<1>5. table \in [Ids -> Row \cup {Null}]
  BY <1>1, <1>3, <1>4
<1>6. table[i] # Null
  BY <1>3
<1> QED
  BY <1>3, <1>4, <1>5, <1>6 DEF RowsStay, Taken

\* A new row.
LEMMA NewRows ==
    ASSUME TypeOK, NEW i \in Ids, ~Taken(i), NEW row \in Row,
           NEW table, table = [rows EXCEPT ![i] = row]
    PROVE  /\ table \in [Ids -> Row \cup {Null}]
           /\ table[i] = row
           /\ \A j \in Ids : j # i => table[j] = rows[j]
           /\ rows' = table => RowsStay
BY DEF TypeOK, RowsStay, Taken

\* A step of one check, which may end its call.
LEMMA CheckType ==
    ASSUME TypeInv, NEW p \in Requests, NEW i \in Ids, Checking(p, i),
           NEW c \in CheckRun \cup {Null}, c # Null /\ c.step # "count" => c.left # {},
           Check(p, i, c), rows' = rows,
           request' = request \/ request' = [request EXCEPT ![p] = Null]
    PROVE  /\ request' \in [Requests -> Request \cup {Null}]
           /\ checks' \in [Requests -> [Ids -> CheckRun \cup {Null}]]
           /\ \A q \in Requests : CallOK(q)'
           /\ \A q \in Requests : q # p => request'[q] = request[q] /\ checks'[q] = checks[q]
           /\ checks'[p][i] = c /\ \A j \in Ids : j # i => checks'[p][j] = checks[p][j]
<1>1. /\ request \in [Requests -> Request \cup {Null}]
      /\ checks \in [Requests -> [Ids -> CheckRun \cup {Null}]]
  BY DEF TypeInv, TypeOK
<1>2. /\ request' \in [Requests -> Request \cup {Null}]
      /\ \A q \in Requests : q # p => request'[q] = request[q]
      /\ request'[p] \in {request[p], Null}
  BY <1>1
<1>3. /\ checks' \in [Requests -> [Ids -> CheckRun \cup {Null}]]
      /\ \A q \in Requests : q # p => checks'[q] = checks[q]
      /\ checks'[p][i] = c /\ \A j \in Ids : j # i => checks'[p][j] = checks[p][j]
  BY <1>1 DEF Check
<1>4. RowsStay
  BY DEF RowsStay, Taken
<1>5. \A q \in Requests : q # p => CallOK(q)'
  BY <1>2, <1>3, <1>4, CallFrame
<1>6. CallOK(p)'
  <2>1. CallOK(p)
    BY DEF TypeInv
  <2>2. request[p] # Null => request[p].step \in {"checks", "sportChecks"}
    BY <2>1 DEF CallOK, Checking, NoChecks
  <2>3. request'[p] # Null => request'[p].step \in {"checks", "sportChecks"}
    BY <1>2, <2>2
  <2>4. ASSUME NEW j \in Ids, Checking(p, j)'
        PROVE  p \in Takers \cup Coaches /\ Taken(j)'
                 /\ (checks'[p][j].step # "count" => checks'[p][j].left # {})
    <3>1. CASE j = i
      BY <1>3, <2>1, <2>4, <3>1 DEF CallOK, Checking, Taken
    <3>2. CASE j # i
      BY <1>3, <2>1, <2>4, <3>2 DEF CallOK, Checking, Taken
    <3> QED
      BY <3>1, <3>2
  <2> QED
    BY <2>3, <2>4 DEF CallOK
<1> QED
  BY <1>2, <1>3, <1>5, <1>6

LEMMA StartType ==
    ASSUME TypeInv, NEW p \in Requests, NEW table, NEW S \in SUBSET Ids,
           StartChecks(p, table, S)
    PROVE  /\ checks' \in [Requests -> [Ids -> CheckRun \cup {Null}]]
           /\ \A q \in Requests : q # p => checks'[q] = checks[q]
           /\ \A i \in Ids : checks'[p][i] =
                IF i \in S THEN [step |-> "count", left |-> {}] ELSE Null
           /\ \A i \in S : checks'[p][i] # Null
           /\ overlapped' \in SUBSET Students
<1>1. [step |-> "count", left |-> {}] \in CheckRun
  BY DEF CheckRun
<1>2. checks \in [Requests -> [Ids -> CheckRun \cup {Null}]] /\ overlapped \in SUBSET Students
  BY DEF TypeInv, TypeOK
<1> DEFINE started ==
             [i \in Ids |-> IF i \in S THEN [step |-> "count", left |-> {}] ELSE Null]
<1>3. /\ started \in [Ids -> CheckRun \cup {Null}]
      /\ \A i \in S : started[i] # Null
  BY <1>1
<1>4. checks' = [checks EXCEPT ![p] = started]
  BY DEF StartChecks
<1>5. \A i \in Ids : started[i] = IF i \in S THEN [step |-> "count", left |-> {}] ELSE Null
  OBVIOUS
<1>6. overlapped' \in SUBSET Students
  BY <1>2 DEF StartChecks
<1> HIDE DEF started
<1> QED
  BY <1>2, <1>3, <1>4, <1>5, <1>6

\* A call that begins, ends or goes on while nothing runs for it.
LEMMA RequestType ==
    ASSUME TypeInv, RowsStay, NEW p \in Requests, NEW r \in Request \cup {Null},
           request' = [request EXCEPT ![p] = r], checks' = checks,
           r # Null =>
             /\ r.step = "justify" => r.row \in Ids /\ Taken(r.row)
             /\ r.step \notin {"checks", "sportChecks"} => checks[p] = NoChecks
             /\ r.step = "write" =>
                  /\ r.student \in DOMAIN r.dto
                  /\ r.found # Null => r.found \in Found(r.student, Null, r.day)
    PROVE  /\ request' \in [Requests -> Request \cup {Null}]
           /\ request'[p] = r
           /\ \A q \in Requests : q # p => request'[q] = request[q]
           /\ \A q \in Requests : CallOK(q)'
<1>1. request \in [Requests -> Request \cup {Null}]
  BY DEF TypeInv, TypeOK
<1>2. /\ request' \in [Requests -> Request \cup {Null}]
      /\ request'[p] = r
      /\ \A q \in Requests : q # p => request'[q] = request[q]
  BY <1>1
<1>3. \A q \in Requests : q # p => CallOK(q)'
  BY <1>2, CallFrame
<1>4. CallOK(p)'
  <2>1. CallOK(p)
    BY DEF TypeInv
  <2>2. \A i \in Ids : Checking(p, i)' =>
          p \in Takers \cup Coaches /\ Taken(i)'
            /\ (checks'[p][i].step # "count" => checks'[p][i].left # {})
    BY <2>1 DEF CallOK, Checking, RowsStay
  <2>3. r # Null /\ r.step = "justify" => rows'[r.row] # Null
    BY DEF RowsStay, Taken
  <2>4. r # Null /\ r.step = "write" /\ r.found # Null =>
          r.found \in Found(r.student, Null, r.day)'
    BY DEF RowsStay, Found
  <2> QED
    BY <1>2, <2>2, <2>3, <2>4 DEF CallOK, Taken, Found
<1> QED
  BY <1>2, <1>3, <1>4

LEMMA SameRows == rows' = rows => RowsStay
BY DEF RowsStay, Taken

-----------------------------------------------------------------------------
\* bulkCreate.
LEMMA BulkBeginType ==
    ASSUME TypeInv, NEW p \in Takers, NEW d \in Days, NEW dto \in Dtos, BulkBegin(p, d, dto)
    PROVE  TypeInv' /\ RowsStay
<1> DEFINE r == [step |-> "find", day |-> d, dto |-> dto, listed |-> DOMAIN dto,
                 student |-> Null, found |-> Null]
<1>1. p \in Requests /\ request' = [request EXCEPT ![p] = r] /\ checks[p] = NoChecks
  BY DEF BulkBegin, Begin, Idle, Requests
<1>2. r \in BulkRequest
  BY DtoType DEF BulkRequest
<1>3. RowsStay
  BY SameRows DEF BulkBegin, tables
<1>4. r \in Request /\ r.step = "find"
  BY <1>2 DEF Request
<1>5. checks' = checks
  BY DEF BulkBegin
<1> HIDE DEF r
<1>6. /\ request' \in [Requests -> Request \cup {Null}]
      /\ \A q \in Requests : CallOK(q)'
  BY <1>1, <1>3, <1>4, <1>5, RequestType
<1> QED
  BY <1>3, <1>6 DEF TypeInv, TypeOK, BulkBegin, tables, ghosts

LEMMA FindRowType ==
    ASSUME TypeInv, NEW p \in Takers, NEW s \in Students, FindRow(p, s)
    PROVE  TypeInv' /\ RowsStay
<1>1. /\ p \in Requests /\ request[p] # Null /\ request[p].step = "find"
      /\ s \in DOMAIN request[p].dto
  BY DEF FindRow, At, Requests
<1>2. request[p] \in BulkRequest /\ checks[p] = NoChecks
  BY <1>1, RequestKinds DEF TypeInv, CallOK
<1>3. PICK i \in IF Found(s, Null, request[p].day) = {} THEN {Null}
                 ELSE Found(s, Null, request[p].day) :
        request' = [request EXCEPT ![p] =
          [@ EXCEPT !.step = "write", !.student = s, !.found = i]]
  BY DEF FindRow
<1>4. i \in Ids \cup {Null} /\ (i # Null => i \in Found(s, Null, request[p].day))
  BY <1>3 DEF Found
<1> DEFINE r == [request[p] EXCEPT !.step = "write", !.student = s, !.found = i]
<1>5. request' = [request EXCEPT ![p] = r]
  BY <1>1, <1>3 DEF TypeInv, TypeOK
<1>6. /\ r \in Request /\ r.step = "write" /\ r.dto = request[p].dto
      /\ r.student = s /\ r.found = i /\ r.day = request[p].day
  <2>1. r \in BulkRequest
    BY <1>2, <1>4 DEF BulkRequest
  <2>2. r.step = "write" /\ r.dto = request[p].dto /\ r.student = s /\ r.found = i
          /\ r.day = request[p].day
    BY <1>2 DEF BulkRequest
  <2> QED
    BY <2>1, <2>2 DEF Request
<1> HIDE DEF r
<1>7. RowsStay /\ checks' = checks /\ rows' = rows
  BY SameRows DEF FindRow, tables
<1>8. r.found # Null => r.found \in Found(r.student, Null, r.day)
  BY <1>4, <1>6
<1>9. /\ request' \in [Requests -> Request \cup {Null}]
      /\ \A q \in Requests : CallOK(q)'
  BY <1>1, <1>2, <1>5, <1>6, <1>7, <1>8, RequestType
<1>10. raced' \in SUBSET Students
  BY DEF FindRow, TypeInv, TypeOK
<1>11. UNCHANGED <<tables, promotionSummaryStale, checks, peak, exempt, overlapped, superseded>>
  BY DEF FindRow
<1> QED
  BY <1>7, <1>9, <1>10, <1>11 DEF TypeInv, TypeOK, tables

LEMMA WriteRowType ==
    ASSUME TypeInv, NEW p \in Takers, WriteRow(p)
    PROVE  TypeInv' /\ RowsStay
<1> DEFINE row == [student |-> request[p].student, group |-> Null, day |-> request[p].day,
                   status |-> request[p].dto[request[p].student]]
           r == [request[p] EXCEPT
                   !.step = IF DOMAIN request[p].dto = {request[p].student}
                            THEN "list" ELSE "find",
                   !.dto = Restrict(request[p].dto, DOMAIN request[p].dto \ {request[p].student}),
                   !.student = Null, !.found = Null]
<1>1. p \in Requests /\ request[p] # Null /\ request[p].step = "write"
  BY DEF WriteRow, At, Requests
<1>2. /\ request[p] \in BulkRequest /\ checks[p] = NoChecks
      /\ request[p].student \in DOMAIN request[p].dto
      /\ request[p].found # Null =>
           request[p].found \in Found(request[p].student, Null, request[p].day)
  BY <1>1, RequestKinds DEF TypeInv, CallOK
<1>3. /\ request[p].dto \in Dtos \cup {NoDto} /\ request[p].day \in Days
      /\ request[p].student \in Students
      /\ request[p].dto[request[p].student] \in Said
  BY <1>2, DtoType DEF BulkRequest
<1>4. row \in Row /\ row.status \in AttendanceStatus
  BY <1>3 DEF Row, Said, AttendanceStatus
<1>5. /\ \/ /\ request[p].found # Null
            /\ Write([rows EXCEPT ![request[p].found].status = row.status])
         \/ /\ request[p].found = Null
            /\ \E i \in Ids : ~Taken(i) /\ Write([rows EXCEPT ![i] = row])
      /\ request' = [request EXCEPT ![p] =
           [@ EXCEPT !.step = IF DOMAIN request[p].dto = {request[p].student}
                              THEN "list" ELSE "find",
                     !.dto = Restrict(request[p].dto, DOMAIN request[p].dto \ {request[p].student}),
                     !.student = Null, !.found = Null]]
      /\ UNCHANGED <<justifications, thresholds, absenceRecords, promotionSummaryStale,
                     checks, exempt, overlapped, raced>>
  BY DEF WriteRow
<1>6. request' = [request EXCEPT ![p] = r]
  BY DEF WriteRow
<1>7. r \in Request /\ r.step \in {"list", "find"}
  <2>1. Restrict(request[p].dto, DOMAIN request[p].dto \ {request[p].student})
          \in Dtos \cup {NoDto}
    BY <1>3, DtoRest
  <2>2. r \in BulkRequest /\ r.step \in {"list", "find"}
    BY <1>2, <2>1 DEF BulkRequest
  <2> QED
    BY <2>2 DEF Request
<1> HIDE DEF r, row
<1>8. /\ rows' \in [Ids -> Row \cup {Null}] /\ peak' \in [Students -> Nat]
      /\ superseded' \in SUBSET Editors /\ RowsStay
  <2>1. CASE request[p].found # Null
    <3>1. PICK f \in Ids, status \in AttendanceStatus :
            f = request[p].found /\ Taken(f) /\ status = row.status
      BY <1>2, <1>4, <2>1 DEF Found
    <3> DEFINE table == [rows EXCEPT ![f].status = status]
    <3>2. table \in [Ids -> Row \cup {Null}] /\ (rows' = table => RowsStay)
      <4>1. TypeOK
        BY DEF TypeInv
      <4> QED
        BY <3>1, <4>1, StatusRows
    <3>3. Write(table)
      BY <1>5, <2>1, <3>1
    <3> HIDE DEF table
    <3> QED
      BY <3>2, <3>3, WriteType DEF TypeInv
  <2>2. CASE request[p].found = Null
    <3>1. PICK i \in Ids : ~Taken(i) /\ Write([rows EXCEPT ![i] = row])
      BY <1>5, <2>2
    <3> DEFINE table == [rows EXCEPT ![i] = row]
    <3>2. table \in [Ids -> Row \cup {Null}] /\ (rows' = table => RowsStay)
      BY <1>4, <3>1, NewRows DEF TypeInv
    <3>3. Write(table)
      BY <3>1
    <3> HIDE DEF table
    <3> QED
      BY <3>2, <3>3, WriteType DEF TypeInv
  <2> QED
    BY <2>1, <2>2
<1>9. /\ request' \in [Requests -> Request \cup {Null}]
      /\ \A q \in Requests : CallOK(q)'
  BY <1>1, <1>2, <1>5, <1>6, <1>7, <1>8, RequestType
<1> QED
  BY <1>5, <1>8, <1>9 DEF TypeInv, TypeOK

\* A call that starts its checks.
LEMMA StartCalls ==
    ASSUME TypeInv, RowsStay, NEW p \in Takers \cup Coaches,
           NEW table, NEW S \in SUBSET Ids, StartChecks(p, table, S), \A i \in S : Taken(i)',
           NEW r \in Request, r.step \in {"checks", "sportChecks"},
           request' = [request EXCEPT ![p] = r]
    PROVE  /\ request' \in [Requests -> Request \cup {Null}]
           /\ \A q \in Requests : CallOK(q)'
<1>1. p \in Requests
  BY DEF Requests
<1>2. /\ checks' \in [Requests -> [Ids -> CheckRun \cup {Null}]]
      /\ \A q \in Requests : q # p => checks'[q] = checks[q]
      /\ \A i \in Ids : checks'[p][i] =
           IF i \in S THEN [step |-> "count", left |-> {}] ELSE Null
  BY <1>1, StartType
<1>3. /\ request' \in [Requests -> Request \cup {Null}]
      /\ request'[p] = r
      /\ \A q \in Requests : q # p => request'[q] = request[q]
  BY <1>1 DEF TypeInv, TypeOK
<1>4. \A q \in Requests : q # p => CallOK(q)'
  BY <1>2, <1>3, CallFrame
<1>5. CallOK(p)'
  BY <1>2, <1>3 DEF CallOK, Checking
<1> QED
  BY <1>3, <1>4, <1>5

LEMMA ListAbsentType ==
    ASSUME TypeInv, NEW p \in Takers, ListAbsent(p)
    PROVE  TypeInv' /\ RowsStay
<1> DEFINE S == AbsentOn(request[p].day)
           r == [request[p] EXCEPT !.step = "checks"]
<1>1. p \in Requests /\ request[p] # Null /\ request[p].step = "list"
  BY DEF ListAbsent, At, Requests
<1>2. r \in Request /\ r.step = "checks"
  <2>1. request[p] \in BulkRequest
    BY <1>1, RequestKinds DEF TypeInv
  <2>2. r \in BulkRequest /\ r.step = "checks"
    BY <2>1 DEF BulkRequest
  <2> QED
    BY <2>2 DEF Request
<1>3. request' = [request EXCEPT ![p] = r]
  BY <1>1 DEF ListAbsent, Goto, TypeInv, TypeOK
<1>4. S \in SUBSET Ids /\ \A i \in S : Taken(i)
  BY DEF AbsentOn
<1>5. /\ StartChecks(p, rows, S)
      /\ UNCHANGED <<tables, promotionSummaryStale, peak, exempt, superseded, raced>>
  BY DEF ListAbsent
<1>6. RowsStay /\ \A i \in S : Taken(i)'
  BY <1>4, <1>5 DEF RowsStay, Taken, tables
<1> HIDE DEF r, S
<1>7. /\ request' \in [Requests -> Request \cup {Null}]
      /\ \A q \in Requests : CallOK(q)'
  BY <1>2, <1>3, <1>4, <1>5, <1>6, StartCalls
<1>8. /\ checks' \in [Requests -> [Ids -> CheckRun \cup {Null}]]
      /\ overlapped' \in SUBSET Students
  BY <1>1, <1>4, <1>5, StartType
<1> QED
  BY <1>5, <1>6, <1>7, <1>8 DEF TypeInv, TypeOK, tables

\* A check.
LEMMA CountType ==
    ASSUME TypeInv, NEW p \in Requests, NEW i \in Ids, Count(p, i)
    PROVE  TypeInv' /\ RowsStay
<1> DEFINE c == Searching(Reached(thresholds, Absences(rows, rows[i].student)))
<1>1. /\ Checking(p, i) /\ Check(p, i, c)
      /\ exempt' = exempt \ {rows[i].student}
      /\ UNCHANGED <<tables, promotionSummaryStale, request, peak, overlapped, superseded,
                     raced>>
  BY DEF Count
<1>2. c \in CheckRun \cup {Null} /\ (c # Null => c.left # {})
  <2>1. thresholds \subseteq Thresholds
    BY DEF TypeInv, TypeOK, Thresholds
  <2> QED
    BY <2>1 DEF Searching, Reached, CheckRun
<1> HIDE DEF c
<1>3. RowsStay
  BY <1>1, SameRows DEF tables
<1>4. /\ request' \in [Requests -> Request \cup {Null}]
      /\ checks' \in [Requests -> [Ids -> CheckRun \cup {Null}]]
      /\ \A q \in Requests : CallOK(q)'
  BY <1>1, <1>2, CheckType DEF tables
<1> QED
  BY <1>1, <1>3, <1>4 DEF TypeInv, TypeOK, tables

LEMMA FindRecordType ==
    ASSUME TypeInv, NEW p \in Requests, NEW i \in Ids, FindRecord(p, i)
    PROVE  TypeInv' /\ RowsStay
<1> DEFINE left == checks[p][i].left
           t == Lowest(left)
<1>1. /\ Checking(p, i) /\ checks[p][i].step = "find"
      /\ IF Recorded(rows[i].student, t)
         THEN Check(p, i, Searching(left \ {t}))
         ELSE Check(p, i, [step |-> "create", left |-> left])
      /\ UNCHANGED <<tables, promotionSummaryStale, request, ghosts>>
  BY DEF FindRecord
<1>2. left \in SUBSET Thresholds /\ left # {}
  BY <1>1 DEF TypeInv, TypeOK, CallOK, Checking, CheckRun
<1>3. PICK c \in CheckRun \cup {Null} : Check(p, i, c) /\ (c # Null => c.left # {})
  <2> HIDE DEF t, left
  <2>1. Searching(left \ {t}) \in CheckRun \cup {Null}
          /\ (Searching(left \ {t}) # Null => Searching(left \ {t}).left # {})
    BY <1>2 DEF Searching, CheckRun
  <2>2. [step |-> "create", left |-> left] \in CheckRun
    BY <1>2 DEF CheckRun
  <2>3. CASE Recorded(rows[i].student, t)
    BY <1>1, <2>1, <2>3
  <2>4. CASE ~Recorded(rows[i].student, t)
    <3>1. Check(p, i, [step |-> "create", left |-> left])
      BY <1>1, <2>4
    <3> QED
      BY <1>2, <2>2, <3>1
  <2> QED
    BY <2>3, <2>4
<1>4. RowsStay
  BY <1>1, SameRows DEF tables
<1>5. /\ request' \in [Requests -> Request \cup {Null}]
      /\ checks' \in [Requests -> [Ids -> CheckRun \cup {Null}]]
      /\ \A q \in Requests : CallOK(q)'
  BY <1>1, <1>3, CheckType DEF tables
<1> QED
  BY <1>1, <1>4, <1>5 DEF TypeInv, TypeOK, tables, ghosts

LEMMA CreateRecordType ==
    ASSUME TypeInv, NEW p \in Requests, NEW i \in Ids, CreateRecord(p, i)
    PROVE  TypeInv' /\ RowsStay
<1> DEFINE left == checks[p][i].left
           t == Lowest(left)
           c == Searching(left \ {t})
<1>1. /\ Checking(p, i) /\ checks[p][i].step = "create"
      /\ absenceRecords' = [absenceRecords EXCEPT ![rows[i].student][t] = @ + 1]
      /\ Check(p, i, c)
      /\ UNCHANGED <<rows, justifications, thresholds, promotionSummaryStale, request, ghosts>>
  BY DEF CreateRecord
<1>2. left \in SUBSET Thresholds /\ left # {}
  BY <1>1 DEF TypeInv, TypeOK, CallOK, Checking, CheckRun
<1>3. c \in CheckRun \cup {Null} /\ (c # Null => c.left # {})
  <2> HIDE DEF t, left
  <2> QED
    BY <1>2 DEF Searching, CheckRun
<1>4. absenceRecords' \in [Students -> [Thresholds -> Nat]]
  <2>1. rows[i].student \in Students
    BY <1>1 DEF TypeInv, TypeOK, CallOK, Taken, Row
  <2>2. t \in Thresholds
    BY <1>2, LowestIn
  <2> HIDE DEF t, c
  <2>3. PICK s \in Students, u \in Thresholds :
          absenceRecords' = [absenceRecords EXCEPT ![s][u] = @ + 1]
    BY <1>1, <2>1, <2>2
  <2>4. absenceRecords \in [Students -> [Thresholds -> Nat]]
    BY DEF TypeInv, TypeOK
  <2>5. absenceRecords[s][u] + 1 \in Nat
    BY <2>4
  <2> QED
    BY <2>3, <2>4, <2>5
<1> HIDE DEF c
<1>5. RowsStay
  BY <1>1, SameRows
<1>6. /\ request' \in [Requests -> Request \cup {Null}]
      /\ checks' \in [Requests -> [Ids -> CheckRun \cup {Null}]]
      /\ \A q \in Requests : CallOK(q)'
  BY <1>1, <1>3, CheckType
<1> QED
  BY <1>1, <1>4, <1>5, <1>6 DEF TypeInv, TypeOK, ghosts

LEMMA CheckFailsType ==
    ASSUME TypeInv, NEW p \in Requests, NEW i \in Ids, CheckFails(p, i)
    PROVE  TypeInv' /\ RowsStay
<1>1. /\ Checking(p, i) /\ Check(p, i, Null)
      /\ request' = [request EXCEPT ![p] = Null]
      /\ exempt' = exempt \cup {rows[i].student}
      /\ UNCHANGED <<tables, promotionSummaryStale, peak, overlapped, superseded, raced>>
  BY DEF CheckFails
<1>2. rows[i].student \in Students
  BY <1>1 DEF TypeInv, TypeOK, CallOK, Taken, Row
<1>3. RowsStay
  BY <1>1, SameRows DEF tables
<1>4. /\ request' \in [Requests -> Request \cup {Null}]
      /\ checks' \in [Requests -> [Ids -> CheckRun \cup {Null}]]
      /\ \A q \in Requests : CallOK(q)'
  BY <1>1, CheckType DEF tables
<1> QED
  BY <1>1, <1>2, <1>3, <1>4 DEF TypeInv, TypeOK, tables

-----------------------------------------------------------------------------
\* The attendance of a sport group: the rows that the upserts write.
LEMMA UpsertRows ==
    ASSUME TypeOK, NEW r, r.dto \in Dtos, r.group \in Groups, r.day \in Days,
           NEW f \in Upserted(r)
    PROVE  /\ Upsert(r, f) \in [Ids -> Row \cup {Null}]
           /\ Written(r, f) \subseteq Ids
           /\ \A i \in Ids : i \notin Written(r, f) => Upsert(r, f)[i] = rows[i]
           /\ \A i \in Written(r, f) : \E s \in DOMAIN r.dto :
                /\ i = f[s]
                /\ Upsert(r, f)[i] \in Row
                /\ Upsert(r, f)[i].student = s
                /\ Upsert(r, f)[i].group = r.group
                /\ Upsert(r, f)[i].day = r.day
                /\ Taken(i) =>
                     rows[i].student = s /\ rows[i].group = r.group /\ rows[i].day = r.day
                /\ ~Taken(i) => Found(s, r.group, r.day) = {}
           /\ \A i, j \in Written(r, f) : i # j =>
                Upsert(r, f)[i].student # Upsert(r, f)[j].student
           /\ rows' = Upsert(r, f) => RowsStay
<1>1. /\ DOMAIN r.dto \subseteq Students /\ r.dto \in [DOMAIN r.dto -> Said]
  BY DtoType
<1>2. /\ f \in [DOMAIN r.dto -> Ids]
      /\ \A s, u \in DOMAIN r.dto : f[s] = f[u] => s = u
      /\ \A s \in DOMAIN r.dto :
           IF Found(s, r.group, r.day) = {}
           THEN ~Taken(f[s])
           ELSE f[s] \in Found(s, r.group, r.day)
  BY DEF Upserted
<1>3. Written(r, f) \subseteq Ids
  BY <1>2 DEF Written
<1>4. \A i \in Ids : i \notin Written(r, f) => Upsert(r, f)[i] = rows[i]
  BY DEF Upsert
<1>5. ASSUME NEW s \in DOMAIN r.dto
      PROVE  /\ f[s] \in Ids /\ f[s] \in Written(r, f)
             /\ Upsert(r, f)[f[s]] \in Row
             /\ Upsert(r, f)[f[s]].student = s
             /\ Upsert(r, f)[f[s]].group = r.group
             /\ Upsert(r, f)[f[s]].day = r.day
  <2>1. f[s] \in Written(r, f) /\ f[s] \in Ids
    BY <1>2 DEF Written
  <2>2. (CHOOSE u \in DOMAIN r.dto : f[u] = f[s]) = s
    BY <1>2
  <2> DEFINE row == [student |-> s, group |-> r.group, day |-> r.day, status |-> r.dto[s]]
  <2>3. Upsert(r, f)[f[s]] = row
    BY <2>1, <2>2 DEF Upsert
  <2>4. row \in Row
    BY <1>1 DEF Row, Said, AttendanceStatus
  <2> QED
    BY <2>1, <2>3, <2>4
<1>6. ASSUME NEW s \in DOMAIN r.dto
      PROVE  /\ Taken(f[s]) => /\ rows[f[s]].student = s
                               /\ rows[f[s]].group = r.group /\ rows[f[s]].day = r.day
             /\ ~Taken(f[s]) => Found(s, r.group, r.day) = {}
  BY <1>2 DEF Found
<1>7. \A i \in Written(r, f) : \E s \in DOMAIN r.dto : i = f[s]
  BY DEF Written
<1>8. Upsert(r, f) \in [Ids -> Row \cup {Null}]
  <2>1. \A i \in Ids : Upsert(r, f)[i] \in Row \cup {Null}
    BY <1>4, <1>5, <1>7 DEF TypeOK
  <2>2. Upsert(r, f) = [i \in Ids |-> Upsert(r, f)[i]]
    BY DEF Upsert
  <2> QED
    BY <2>1, <2>2
<1>9. rows' = Upsert(r, f) => RowsStay
  BY <1>4, <1>5, <1>6, <1>7 DEF RowsStay, Taken
<1> QED
  BY <1>3, <1>4, <1>5, <1>6, <1>7, <1>8, <1>9

LEMMA SportBeginType ==
    ASSUME TypeInv, NEW p \in Coaches, NEW g \in Groups, NEW d \in Days, NEW dto \in Dtos,
           SportBegin(p, g, d, dto)
    PROVE  TypeInv' /\ RowsStay
<1> DEFINE r == [step |-> "sport", group |-> g, day |-> d, dto |-> dto, listed |-> DOMAIN dto]
<1>1. p \in Requests /\ request' = [request EXCEPT ![p] = r] /\ checks[p] = NoChecks
  BY DEF SportBegin, Begin, Idle, Requests
<1>2. r \in Request /\ r.step = "sport"
  BY DtoType DEF Request, SportRequest
<1>3. RowsStay
  BY SameRows DEF SportBegin, tables
<1>4. checks' = checks
  BY DEF SportBegin
<1> HIDE DEF r
<1>5. /\ request' \in [Requests -> Request \cup {Null}]
      /\ \A q \in Requests : CallOK(q)'
  BY <1>1, <1>2, <1>3, <1>4, RequestType
<1> QED
  BY <1>3, <1>5 DEF TypeInv, TypeOK, SportBegin, tables, ghosts

LEMMA SportUpsertType ==
    ASSUME TypeInv, NEW p \in Coaches, SportUpsert(p)
    PROVE  TypeInv' /\ RowsStay
<1> DEFINE r == [step |-> "sportChecks", listed |-> request[p].listed]
<1>1. p \in Requests /\ request[p] # Null /\ request[p].step = "sport"
  BY DEF SportUpsert, At, Requests
<1>2. /\ request[p].dto \in Dtos /\ request[p].group \in Groups /\ request[p].day \in Days
      /\ request[p].listed \in SUBSET Students
  BY <1>1, RequestKinds DEF TypeInv
<1>3. r \in Request /\ r.step = "sportChecks"
  BY <1>2 DEF Request, SportRequest
<1>4. PICK f \in Upserted(request[p]) :
        /\ Write(Upsert(request[p], f))
        /\ StartChecks(p, Upsert(request[p], f),
             {i \in Written(request[p], f) : Upsert(request[p], f)[i].status = "ABSENT"})
  BY DEF SportUpsert
<1> DEFINE S == {i \in Written(request[p], f) : Upsert(request[p], f)[i].status = "ABSENT"}
           table == Upsert(request[p], f)
<1>5. /\ request' = [request EXCEPT ![p] = r]
      /\ UNCHANGED <<justifications, thresholds, absenceRecords, promotionSummaryStale,
                     exempt, raced>>
  BY DEF SportUpsert
<1>6. /\ table \in [Ids -> Row \cup {Null}] /\ (rows' = table => RowsStay)
      /\ S \in SUBSET Ids /\ \A i \in S : table[i] # Null
  <2>1. \A i \in Written(request[p], f) : table[i] \in Row
    BY <1>2, UpsertRows DEF TypeInv
  <2> QED
    BY <1>2, <2>1, UpsertRows DEF TypeInv
<1>7. Write(table) /\ StartChecks(p, table, S)
  BY <1>4
<1> HIDE DEF r, S, table
<1>8. /\ rows' = table /\ rows' \in [Ids -> Row \cup {Null}] /\ peak' \in [Students -> Nat]
      /\ superseded' \in SUBSET Editors /\ RowsStay
  BY <1>6, <1>7, WriteType DEF TypeInv
<1>9. \A i \in S : Taken(i)'
  BY <1>6, <1>8 DEF Taken
<1>10. /\ request' \in [Requests -> Request \cup {Null}]
       /\ \A q \in Requests : CallOK(q)'
  BY <1>3, <1>5, <1>6, <1>7, <1>8, <1>9, StartCalls
<1>11. /\ checks' \in [Requests -> [Ids -> CheckRun \cup {Null}]]
       /\ overlapped' \in SUBSET Students
  BY <1>1, <1>6, <1>7, StartType
<1> QED
  BY <1>5, <1>8, <1>10, <1>11 DEF TypeInv, TypeOK

\* The calls about one row.
LEMMA UpdateType ==
    ASSUME TypeInv, NEW p \in Editors, NEW i \in Ids, NEW status \in Said, Update(p, i, status)
    PROVE  TypeInv' /\ RowsStay
<1> DEFINE table == [rows EXCEPT ![i].status = status]
<1>1. /\ p \in Requests /\ Taken(i)
      /\ request' = [request EXCEPT ![p] = Marking] /\ checks[p] = NoChecks
      /\ Write(table)
      /\ Unaccounted(i, status)
      /\ UNCHANGED <<justifications, thresholds, absenceRecords, promotionSummaryStale,
                     checks, overlapped, raced>>
  BY DEF Update, Begin, Idle, Requests
<1>2. table \in [Ids -> Row \cup {Null}] /\ (rows' = table => RowsStay)
  <2>1. status \in AttendanceStatus
    BY DEF Said, AttendanceStatus
  <2> QED
    BY <1>1, <2>1, StatusRows DEF TypeInv
<1> HIDE DEF table
<1>3. /\ rows' \in [Ids -> Row \cup {Null}] /\ peak' \in [Students -> Nat]
      /\ superseded' \in SUBSET Editors /\ RowsStay
  BY <1>1, <1>2, WriteType DEF TypeInv
<1>4. Marking \in Request /\ Marking.step = "mark"
  BY DEF Marking, Request, MarkRequest
<1>5. /\ request' \in [Requests -> Request \cup {Null}]
      /\ \A q \in Requests : CallOK(q)'
  BY <1>1, <1>3, <1>4, RequestType
<1>6. exempt' \in SUBSET Students
  BY <1>1 DEF Unaccounted, TypeInv, TypeOK, Taken, Row
<1> QED
  BY <1>1, <1>3, <1>5, <1>6 DEF TypeInv, TypeOK

LEMMA RemoveJustificationType ==
    ASSUME TypeInv, NEW p \in Editors, NEW i \in Ids, Taken(i), RemoveJustification(p, i)
    PROVE  TypeInv' /\ RowsStay
<1> DEFINE table == [rows EXCEPT ![i].status = "ABSENT"]
<1>1. /\ p \in Requests
      /\ request' = [request EXCEPT ![p] = Marking] /\ checks[p] = NoChecks
      /\ justifications' = justifications \ {i}
      /\ Write(table)
      /\ Unaccounted(i, "ABSENT")
      /\ UNCHANGED <<thresholds, absenceRecords, promotionSummaryStale,
                     checks, overlapped, raced>>
  BY DEF RemoveJustification, Begin, Idle, Requests
<1>2. table \in [Ids -> Row \cup {Null}] /\ (rows' = table => RowsStay)
  <2>1. TypeOK /\ "ABSENT" \in AttendanceStatus
    BY DEF TypeInv, AttendanceStatus
  <2> QED
    BY <1>1, <2>1, StatusRows, ZenonT(30)
<1> HIDE DEF table
<1>3. /\ rows' \in [Ids -> Row \cup {Null}] /\ peak' \in [Students -> Nat]
      /\ superseded' \in SUBSET Editors /\ RowsStay
  BY <1>1, <1>2, WriteType DEF TypeInv
<1>4. Marking \in Request /\ Marking.step = "mark"
  BY DEF Marking, Request, MarkRequest
<1>5. /\ request' \in [Requests -> Request \cup {Null}]
      /\ \A q \in Requests : CallOK(q)'
  BY <1>1, <1>3, <1>4, RequestType
<1>6. exempt' \in SUBSET Students
  BY <1>1 DEF Unaccounted, TypeInv, TypeOK, Taken, Row
<1> QED
  BY <1>1, <1>3, <1>5, <1>6 DEF TypeInv, TypeOK

LEMMA JustifyBeginType ==
    ASSUME TypeInv, NEW p \in Editors, NEW i \in Ids, JustifyBegin(p, i)
    PROVE  TypeInv' /\ RowsStay
<1> DEFINE r == [step |-> "justify", row |-> i]
<1>1. /\ p \in Requests /\ Taken(i)
      /\ request' = [request EXCEPT ![p] = r] /\ checks[p] = NoChecks
      /\ superseded' = superseded \ {p}
      /\ UNCHANGED <<tables, promotionSummaryStale, checks, peak, exempt, overlapped, raced>>
  BY DEF JustifyBegin, Begin, Idle, Requests
<1>2. r \in Request /\ r.step = "justify" /\ r.row = i
  BY DEF Request, JustifyRequest
<1> HIDE DEF r
<1>3. RowsStay
  BY <1>1, SameRows DEF tables
<1>4. /\ request' \in [Requests -> Request \cup {Null}]
      /\ \A q \in Requests : CallOK(q)'
  BY <1>1, <1>2, <1>3, RequestType
<1> QED
  BY <1>1, <1>3, <1>4 DEF TypeInv, TypeOK, tables

LEMMA JustifyType ==
    ASSUME TypeInv, NEW p \in Editors, Justify(p)
    PROVE  TypeInv' /\ RowsStay
<1>1. PICK i \in Ids : i = request[p].row /\ Taken(i)
  <2>1. p \in Requests /\ request[p] # Null /\ request[p].step = "justify"
    BY DEF Justify, At, Requests
  <2>2. request[p] \in JustifyRequest /\ Taken(request[p].row)
    BY <2>1, RequestKinds DEF TypeInv, CallOK
  <2> QED
    BY <2>2 DEF JustifyRequest
<1> DEFINE table == [rows EXCEPT ![i].status = "JUSTIFIED"]
<1>2. /\ p \in Requests /\ checks[p] = NoChecks
      /\ request' = [request EXCEPT ![p] = Marking]
      /\ justifications' = justifications \cup {i}
      /\ Write(table)
      /\ UNCHANGED <<thresholds, absenceRecords, promotionSummaryStale, checks,
                     exempt, overlapped, raced>>
  BY <1>1 DEF Justify, At, Requests, TypeInv, CallOK
<1>3. table \in [Ids -> Row \cup {Null}] /\ (rows' = table => RowsStay)
  <2>1. TypeOK /\ "JUSTIFIED" \in AttendanceStatus
    BY DEF TypeInv, AttendanceStatus
  <2> QED
    BY <1>1, <2>1, StatusRows
<1> HIDE DEF table
<1>4. /\ rows' \in [Ids -> Row \cup {Null}] /\ peak' \in [Students -> Nat]
      /\ superseded' \in SUBSET Editors /\ RowsStay
  BY <1>2, <1>3, WriteType DEF TypeInv
<1>5. Marking \in Request /\ Marking.step = "mark"
  BY DEF Marking, Request, MarkRequest
<1>6. /\ request' \in [Requests -> Request \cup {Null}]
      /\ \A q \in Requests : CallOK(q)'
  BY <1>2, <1>4, <1>5, RequestType
<1> QED
  BY <1>2, <1>4, <1>6 DEF TypeInv, TypeOK

\* The end of a call, and a change of the settings.
LEMMA SportDoneType ==
    ASSUME TypeInv, NEW p \in Coaches, SportDone(p)
    PROVE  TypeInv' /\ RowsStay
<1>1. /\ p \in Requests /\ request' = [request EXCEPT ![p] = Null]
      /\ UNCHANGED <<tables, promotionSummaryStale, checks, ghosts>>
  BY DEF SportDone, Requests
<1>2. RowsStay
  BY <1>1, SameRows DEF tables
<1>3. /\ request' \in [Requests -> Request \cup {Null}]
      /\ \A q \in Requests : CallOK(q)'
  BY <1>1, <1>2, RequestType
<1> QED
  BY <1>1, <1>2, <1>3 DEF TypeInv, TypeOK, tables, ghosts

LEMMA MarkType ==
    ASSUME TypeInv, NEW p \in Requests, Mark(p)
    PROVE  TypeInv' /\ RowsStay
<1>1. /\ request' = [request EXCEPT ![p] = Null]
      /\ promotionSummaryStale' = TRUE
      /\ UNCHANGED <<tables, checks, ghosts>>
  BY DEF Mark
<1>2. RowsStay
  BY <1>1, SameRows DEF tables
<1>3. /\ request' \in [Requests -> Request \cup {Null}]
      /\ \A q \in Requests : CallOK(q)'
  BY <1>1, <1>2, RequestType
<1> QED
  BY <1>1, <1>2, <1>3 DEF TypeInv, TypeOK, tables, ghosts

LEMMA AbortType ==
    ASSUME TypeInv, NEW p \in Requests, Abort(p)
    PROVE  TypeInv' /\ RowsStay
<1>1. /\ request' = [request EXCEPT ![p] = Null]
      /\ checks' = [checks EXCEPT ![p] = NoChecks]
      /\ UNCHANGED <<tables, promotionSummaryStale, peak, overlapped, superseded, raced>>
  BY DEF Abort
<1>2. RowsStay
  BY <1>1, SameRows DEF tables
<1>3. /\ request' \in [Requests -> Request \cup {Null}]
      /\ request'[p] = Null
      /\ \A q \in Requests : q # p => request'[q] = request[q]
  BY <1>1 DEF TypeInv, TypeOK
<1>4. /\ checks' \in [Requests -> [Ids -> CheckRun \cup {Null}]]
      /\ checks'[p] = NoChecks
      /\ \A q \in Requests : q # p => checks'[q] = checks[q]
  <2>1. NoChecks \in [Ids -> CheckRun \cup {Null}]
    BY DEF NoChecks
  <2> QED
    BY <1>1, <2>1 DEF TypeInv, TypeOK
<1>5. \A q \in Requests : CallOK(q)'
  <2>1. \A q \in Requests : q # p => CallOK(q)'
    BY <1>2, <1>3, <1>4, CallFrame
  <2>2. CallOK(p)'
    BY <1>3, <1>4 DEF CallOK, Checking, NoChecks
  <2> QED
    BY <2>1, <2>2
<1>6. exempt' \in SUBSET Students
  <2>1. request[p] # Null /\ "listed" \in DOMAIN request[p] =>
          request[p].listed \in SUBSET Students
    <3>1. ASSUME request[p] # Null, "listed" \in DOMAIN request[p]
          PROVE  request[p].listed \in SUBSET Students
      <4>1. request[p] \in BulkRequest \cup SportRequest
        BY <3>1, RequestKinds DEF TypeInv, Request, JustifyRequest, MarkRequest
      <4> QED
        BY <4>1 DEF BulkRequest, SportRequest
    <3> QED
      BY <3>1
  <2>2. \A i \in Ids : Checking(p, i) => rows[i].student \in Students
    BY DEF TypeInv, TypeOK, CallOK, Taken, Row
  <2> QED
    BY <2>1, <2>2 DEF Abort, TypeInv, TypeOK
<1> QED
  BY <1>1, <1>2, <1>3, <1>4, <1>5, <1>6 DEF TypeInv, TypeOK, tables

LEMMA UpdateThresholdsType ==
    ASSUME TypeInv, NEW value \in Settings, UpdateThresholds(value)
    PROVE  TypeInv' /\ RowsStay
<1>1. /\ thresholds' = value /\ exempt' = Students
      /\ UNCHANGED <<rows, justifications, absenceRecords, promotionSummaryStale, calls,
                     peak, overlapped, superseded, raced>>
  BY DEF UpdateThresholds
<1>2. RowsStay
  BY <1>1, SameRows
<1>3. \A q \in Requests : CallOK(q)'
  BY <1>1, <1>2, CallFrame DEF calls
<1> QED
  BY <1>1, <1>2, <1>3 DEF TypeInv, TypeOK, calls

-----------------------------------------------------------------------------
\* What is justified is a row.
RowsInv == TypeInv /\ \A i \in justifications : Taken(i)

LEMMA InitType == Init => RowsInv
<1> SUFFICES ASSUME Init PROVE RowsInv
  OBVIOUS
<1>1. TypeOK
  BY DEF Init, TypeOK, NoChecks, Thresholds
<1>2. \A p \in Requests : CallOK(p)
  BY DEF Init, CallOK, Checking, NoChecks
<1> QED
  BY <1>1, <1>2 DEF RowsInv, TypeInv, Init

\* Only the transaction of a call that justifies adds a justification.
LEMMA NewJustification ==
    ASSUME [Next]_vars, NEW i \in justifications' \ justifications
    PROVE  \E p \in Editors : Justify(p) /\ i = request[p].row
<1>1. ASSUME NEW p \in Editors, Justify(p) PROVE i = request[p].row
  BY <1>1 DEF Justify
<1>2. ASSUME NEW p \in Requests, Taking(p) \/ Coaching(p)
      PROVE  justifications' = justifications
  BY <1>2 DEF Taking, Coaching, BulkBegin, FindRow, WriteRow, ListAbsent, SportBegin,
    SportUpsert, SportDone, tables
<1>3. ASSUME NEW p \in Requests, CheckStep(p) \/ Mark(p) \/ Abort(p)
      PROVE  justifications' = justifications
  BY <1>3 DEF CheckStep, Count, FindRecord, CreateRecord, CheckFails, Mark, Abort, tables
<1>4. ASSUME NEW p \in Editors, Editing(p)
      PROVE  justifications' \subseteq justifications \/ Justify(p)
  BY <1>4 DEF Editing, Update, JustifyBegin, RemoveJustification, tables
<1>5. ASSUME NEW value \in Settings, UpdateThresholds(value)
      PROVE  justifications' = justifications
  BY <1>5 DEF UpdateThresholds
<1>6. CASE UNCHANGED vars
  BY <1>6 DEF vars, tables
<1> QED
  BY <1>1, <1>2, <1>3, <1>4, <1>5, <1>6 DEF Next, Act

LEMMA NextType == RowsInv /\ [Next]_vars => RowsInv' /\ RowsStay
<1> SUFFICES ASSUME RowsInv, [Next]_vars PROVE RowsInv' /\ RowsStay
  OBVIOUS
<1>1. TypeInv' /\ RowsStay
  <2>1. CASE UNCHANGED vars
    <3>1. RowsStay /\ UNCHANGED <<request, checks>>
      BY <2>1, SameRows DEF vars, tables, calls
    <3>2. \A q \in Requests : CallOK(q)'
      BY <3>1, CallFrame DEF RowsInv
    <3>3. TypeOK'
      BY <2>1 DEF vars, tables, calls, ghosts, RowsInv, TypeInv, TypeOK
    <3> QED
      BY <3>1, <3>2, <3>3 DEF TypeInv
  <2>2. ASSUME NEW p \in Takers, Taking(p) PROVE TypeInv' /\ RowsStay
    BY <2>2, BulkBeginType, FindRowType, WriteRowType, ListAbsentType DEF RowsInv, Taking
  <2>3. ASSUME NEW p \in Coaches, Coaching(p) PROVE TypeInv' /\ RowsStay
    BY <2>3, SportBeginType, SportUpsertType, SportDoneType DEF RowsInv, Coaching
  <2>4. ASSUME NEW p \in Editors, Editing(p) PROVE TypeInv' /\ RowsStay
    <3>1. CASE \E i \in Ids : RemoveJustification(p, i)
      <4>1. PICK i \in Ids : RemoveJustification(p, i)
        BY <3>1
      <4>2. Taken(i)
        BY <4>1 DEF RemoveJustification, RowsInv
      <4> QED
        BY <4>1, <4>2, RemoveJustificationType DEF RowsInv
    <3>2. CASE ~ \E i \in Ids : RemoveJustification(p, i)
      BY <2>4, <3>2, UpdateType, JustifyBeginType, JustifyType DEF RowsInv, Editing
    <3> QED
      BY <3>1, <3>2
  <2>5. ASSUME NEW p \in Requests, CheckStep(p) \/ Mark(p) \/ Abort(p)
        PROVE  TypeInv' /\ RowsStay
    BY <2>5, CountType, FindRecordType, CreateRecordType, CheckFailsType, MarkType, AbortType
    DEF RowsInv, CheckStep
  <2>6. ASSUME NEW value \in Settings, UpdateThresholds(value) PROVE TypeInv' /\ RowsStay
    BY <2>6, UpdateThresholdsType DEF RowsInv
  <2> QED
    BY <2>1, <2>2, <2>3, <2>4, <2>5, <2>6 DEF Next, Act
<1>2. ASSUME NEW i \in justifications' \ justifications PROVE Taken(i)
  <2>1. PICK p \in Editors : Justify(p) /\ i = request[p].row
    BY <1>2, NewJustification
  <2>2. p \in Requests /\ At(p, "justify")
    BY <2>1 DEF Requests, Justify
  <2>3. CallOK(p)
    BY <2>2 DEF RowsInv, TypeInv
  <2> QED
    BY <2>1, <2>2, <2>3 DEF CallOK, At
<1>3. (\A i \in justifications : Taken(i))'
  BY <1>1, <1>2 DEF RowsInv, RowsStay, TypeInv, TypeOK
<1> QED
  BY <1>1, <1>3 DEF RowsInv

LEMMA TypeInvariant == Spec => []RowsInv
BY InitType, NextType, PTL DEF Spec

\* Rows, absence records, calls in flight and their checks keep their types.
THEOREM TypeCorrect == Spec => []TypeOK
<1>1. RowsInv => TypeOK
  BY DEF RowsInv, TypeInv
<1> QED
  BY <1>1, TypeInvariant, PTL

-----------------------------------------------------------------------------
(* One row per student, day and group *)

\* A step is about the call that takes it.
LEMMA OtherCalls ==
    ASSUME RowsInv, NEW p \in Requests, NEW q \in Requests, p # q, Act(p)
    PROVE  request'[q] = request[q] /\ checks'[q] = checks[q]
<1>1. request \in [Requests -> Request \cup {Null}]
        /\ checks \in [Requests -> [Ids -> CheckRun \cup {Null}]]
  BY DEF RowsInv, TypeInv, TypeOK
<1>2. CASE Taking(p)
  BY <1>1, <1>2 DEF Taking, BulkBegin, FindRow, WriteRow, ListAbsent, Begin, Goto, StartChecks
<1>3. CASE Coaching(p)
  BY <1>1, <1>3 DEF Coaching, SportBegin, SportUpsert, SportDone, Begin, StartChecks
<1>4. CASE Editing(p)
  BY <1>1, <1>4 DEF Editing, Update, JustifyBegin, RemoveJustification, Justify, Begin
<1>5. CASE CheckStep(p) \/ Mark(p) \/ Abort(p)
  BY <1>1, <1>5 DEF CheckStep, Count, FindRecord, CreateRecord, CheckFails, Check, Mark, Abort
<1> QED
  BY <1>2, <1>3, <1>4, <1>5 DEF Act

\* A call that is about to create a row has just found none, or was about to before.
LEMMA CreatingStep ==
    ASSUME RowsInv, [Next]_vars, NEW p \in Takers, NEW s \in Students, NEW d \in Days,
           Creating(p, s, d)'
    PROVE  \/ Creating(p, s, d) /\ ~WriteRow(p)
           \/ FindRow(p, s) /\ request[p].day = d /\ Found(s, Null, d) = {}
<1>1. p \in Requests /\ request \in [Requests -> Request \cup {Null}]
  BY DEF Requests, RowsInv, TypeInv, TypeOK
<1>2. /\ request'[p] # Null /\ request'[p].step = "write" /\ request'[p].student = s
      /\ request'[p].day = d /\ request'[p].found = Null
  BY DEF Creating, At
<1>3. request'[p] = request[p] => Creating(p, s, d)
  BY <1>2 DEF Creating, At
<1>4. ~WriteRow(p)
  <2>1. ASSUME WriteRow(p) PROVE FALSE
    <3>1. request[p] \in BulkRequest
      BY <1>1, <2>1, RequestKinds DEF RowsInv, TypeInv, WriteRow, At
    <3>2. request'[p].step \in {"list", "find"}
      BY <1>1, <2>1, <3>1 DEF WriteRow, BulkRequest
    <3> QED
      BY <1>2, <3>2
  <2> QED
    BY <2>1
<1>5. ASSUME NEW u \in Students, FindRow(p, u)
      PROVE  u = s /\ request[p].day = d /\ Found(s, Null, d) = {}
  <2>1. request[p] \in BulkRequest
    BY <1>1, <1>5, RequestKinds DEF RowsInv, TypeInv, FindRow, At
  <2>2. PICK i \in IF Found(u, Null, request[p].day) = {} THEN {Null}
                   ELSE Found(u, Null, request[p].day) :
          request' = [request EXCEPT ![p] =
            [@ EXCEPT !.step = "write", !.student = u, !.found = i]]
    BY <1>5 DEF FindRow
  <2>3. /\ request'[p].student = u /\ request'[p].found = i
        /\ request'[p].day = request[p].day
    BY <1>1, <2>1, <2>2 DEF BulkRequest
  <2>4. u = s /\ i = Null /\ request[p].day = d
    BY <1>2, <2>3
  <2>5. Found(u, Null, request[p].day) = {}
    BY <2>2, <2>4 DEF Found
  <2> QED
    BY <2>4, <2>5
<1>6. CASE UNCHANGED vars
  BY <1>3, <1>4, <1>6 DEF vars, calls
<1>7. CASE \E value \in Settings : UpdateThresholds(value)
  BY <1>3, <1>4, <1>7 DEF UpdateThresholds, calls
<1>8. CASE \E q \in Requests : q # p /\ Act(q)
  BY <1>1, <1>3, <1>4, <1>8, OtherCalls
<1>9. CASE Act(p)
  <2>1. CASE Taking(p)
    <3>1. CASE \E u \in Students : FindRow(p, u)
      BY <1>5, <3>1
    <3>2. CASE ListAbsent(p)
      <4>1. request[p] \in BulkRequest
        BY <1>1, <3>2, RequestKinds DEF RowsInv, TypeInv, ListAbsent, At
      <4>2. request'[p].step = "checks"
        BY <1>1, <3>2, <4>1 DEF ListAbsent, Goto, BulkRequest
      <4> QED
        BY <1>2, <4>2
    <3>3. CASE \E e \in Days, dto \in Dtos : BulkBegin(p, e, dto)
      <4>1. request'[p].step = "find"
        BY <1>1, <3>3 DEF BulkBegin, Begin
      <4> QED
        BY <1>2, <4>1
    <3> QED
      BY <1>4, <2>1, <3>1, <3>2, <3>3 DEF Taking
  <2>2. CASE Coaching(p)
    <3>1. request'[p] = Null \/ request'[p].step \in {"sport", "sportChecks"}
      BY <1>1, <2>2 DEF Coaching, SportBegin, SportUpsert, SportDone, Begin
    <3> QED
      BY <1>2, <3>1
  <2>3. CASE Editing(p)
    <3>1. CASE \E i \in Ids : JustifyBegin(p, i)
      <4>1. request'[p].step = "justify"
        BY <1>1, <3>1 DEF JustifyBegin, Begin
      <4> QED
        BY <1>2, <4>1
    <3>2. CASE ~ \E i \in Ids : JustifyBegin(p, i)
      <4>1. request' = [request EXCEPT ![p] = Marking]
        BY <2>3, <3>2 DEF Editing, Update, RemoveJustification, Justify, Begin
      <4>2. request'[p].step = "mark"
        BY <1>1, <4>1 DEF Marking
      <4> QED
        BY <1>2, <4>2
    <3> QED
      BY <3>1, <3>2
  <2>4. CASE CheckStep(p) \/ Mark(p) \/ Abort(p)
    <3>1. request'[p] = Null \/ request'[p] = request[p]
      BY <1>1, <2>4 DEF CheckStep, Count, FindRecord, CreateRecord, CheckFails, Mark, Abort,
        ghosts
    <3> QED
      BY <1>2, <1>3, <1>4, <3>1
  <2> QED
    BY <1>9, <2>1, <2>2, <2>3, <2>4 DEF Act
<1> QED
  BY <1>1, <1>6, <1>7, <1>8, <1>9 DEF Next

NewRow(i) == ~Taken(i) /\ Taken(i)'

\* Only bulkCreate and the upserts of a coach create rows.
LEMMA NewRowBy ==
    ASSUME RowsInv, [Next]_vars, NEW i \in Ids, NewRow(i)
    PROVE  \/ \E p \in Takers : WriteRow(p)
           \/ \E p \in Coaches : SportUpsert(p)
<1>1. rows' # rows
  BY DEF NewRow, Taken
<1>2. rows \in [Ids -> Row \cup {Null}]
  BY DEF RowsInv, TypeInv, TypeOK
<1>3. ASSUME NEW p \in Editors, NEW j \in Ids, Taken(j), NEW status,
             rows' = [rows EXCEPT ![j].status = status]
      PROVE  FALSE
  BY <1>2, <1>3 DEF NewRow, Taken
<1>4. ASSUME NEW p \in Editors, Editing(p) PROVE FALSE
  <2>1. \A j \in Ids, status \in Said : ~Update(p, j, status)
    BY <1>3 DEF Update, Write
  <2>2. \A j \in Ids : ~RemoveJustification(p, j)
    BY <1>3 DEF RemoveJustification, Write, RowsInv
  <2>3. ~Justify(p)
    <3>1. At(p, "justify") => request[p].row \in Ids /\ Taken(request[p].row)
      <4>1. p \in Requests
        BY DEF Requests
      <4>2. At(p, "justify") => request[p] \in JustifyRequest /\ Taken(request[p].row)
        BY <4>1, RequestKinds DEF At, RowsInv, TypeInv, CallOK
      <4> QED
        BY <4>2 DEF JustifyRequest
    <3> QED
      BY <1>3, <3>1 DEF Justify, Write
  <2>4. \A j \in Ids : ~JustifyBegin(p, j)
    BY <1>1 DEF JustifyBegin, tables
  <2> QED
    BY <1>4, <2>1, <2>2, <2>3, <2>4 DEF Editing
<1>5. ASSUME NEW p \in Requests, CheckStep(p) \/ Mark(p) \/ Abort(p) PROVE FALSE
  BY <1>1, <1>5 DEF CheckStep, Count, FindRecord, CreateRecord, CheckFails, Mark, Abort, tables
<1>6. ASSUME NEW p \in Takers, Taking(p) PROVE WriteRow(p)
  BY <1>1, <1>6 DEF Taking, BulkBegin, FindRow, ListAbsent, tables
<1>7. ASSUME NEW p \in Coaches, Coaching(p) PROVE SportUpsert(p)
  BY <1>1, <1>7 DEF Coaching, SportBegin, SportDone, tables
<1>8. ~UNCHANGED vars /\ \A value \in Settings : ~UpdateThresholds(value)
  BY <1>1 DEF vars, tables, UpdateThresholds
<1> QED
  BY <1>4, <1>5, <1>6, <1>7, <1>8 DEF Next, Act

\* A new row is the one a call of bulkCreate was about to create, or one of those a
\* coach's upserts found nothing for.
LEMMA NewRowOf ==
    ASSUME RowsInv, [Next]_vars, NEW i \in Ids, NewRow(i)
    PROVE  \/ /\ rows'[i].group \in Groups
              /\ Found(rows'[i].student, rows'[i].group, rows'[i].day) = {}
           \/ /\ rows'[i].group = Null
              /\ \E p \in Takers :
                   WriteRow(p) /\ Creating(p, rows'[i].student, rows'[i].day)
<1>1. \/ \E p \in Takers : WriteRow(p)
      \/ \E p \in Coaches : SportUpsert(p)
  BY NewRowBy
<1>2. rows \in [Ids -> Row \cup {Null}]
  BY DEF RowsInv, TypeInv, TypeOK
<1>3. ASSUME NEW p \in Takers, WriteRow(p)
      PROVE  rows'[i].group = Null /\ Creating(p, rows'[i].student, rows'[i].day)
  <2> DEFINE row == [student |-> request[p].student, group |-> Null, day |-> request[p].day,
                     status |-> request[p].dto[request[p].student]]
  <2>1. /\ At(p, "write")
        /\ \/ /\ request[p].found # Null
              /\ rows' = [rows EXCEPT ![request[p].found].status = row.status]
           \/ /\ request[p].found = Null
              /\ \E j \in Ids : ~Taken(j) /\ rows' = [rows EXCEPT ![j] = row]
    BY <1>3 DEF WriteRow, Write
  <2>2. CASE request[p].found # Null
    <3>1. Taken(request[p].found) /\ request[p].found \in Ids
      BY <1>3, <2>1, <2>2 DEF At, Requests, RowsInv, TypeInv, CallOK, Found
    <3>2. rows'[i] = rows[i]
      BY <1>2, <2>1, <2>2, <3>1 DEF NewRow
    <3> QED
      BY <3>2 DEF NewRow, Taken
  <2>3. CASE request[p].found = Null
    <3>1. PICK j \in Ids : rows' = [rows EXCEPT ![j] = row]
      BY <2>1, <2>3
    <3>2. i = j
      BY <1>2, <3>1 DEF NewRow, Taken
    <3>3. rows'[i] = row
      BY <1>2, <3>1, <3>2
    <3> QED
      BY <2>1, <2>3, <3>3 DEF Creating
  <2> QED
    BY <2>2, <2>3
<1>4. ASSUME NEW p \in Coaches, SportUpsert(p)
      PROVE  /\ rows'[i].group \in Groups
             /\ Found(rows'[i].student, rows'[i].group, rows'[i].day) = {}
  <2>1. /\ request[p].dto \in Dtos /\ request[p].group \in Groups /\ request[p].day \in Days
    BY <1>4, RequestKinds DEF SportUpsert, At, Requests, RowsInv, TypeInv
  <2>2. PICK f \in Upserted(request[p]) : rows' = Upsert(request[p], f)
    BY <1>4 DEF SportUpsert, Write
  <2>3. i \in Written(request[p], f)
    BY <2>1, <2>2, UpsertRows DEF RowsInv, TypeInv, NewRow, Taken
  <2> QED
    BY <2>1, <2>2, <2>3, UpsertRows DEF RowsInv, TypeInv, NewRow
<1> QED
  BY <1>1, <1>3, <1>4

\* No step creates two rows of one student.
LEMMA NewRowsApart ==
    ASSUME RowsInv, [Next]_vars, NEW i \in Ids, NEW j \in Ids, i # j, NewRow(i), NewRow(j)
    PROVE  rows'[i].student # rows'[j].student
<1>1. rows \in [Ids -> Row \cup {Null}]
  BY DEF RowsInv, TypeInv, TypeOK
<1>2. ASSUME NEW k \in Ids, NEW row, rows' = [rows EXCEPT ![k] = row] PROVE FALSE
  BY <1>1, <1>2 DEF NewRow, Taken
<1>3. ASSUME NEW p \in Takers, WriteRow(p) PROVE FALSE
  <2>1. \/ \E status : rows' = [rows EXCEPT ![request[p].found].status = status]
        \/ \E k \in Ids : \E row : rows' = [rows EXCEPT ![k] = row]
    BY <1>3 DEF WriteRow, Write
  <2>2. PICK status : rows' = [rows EXCEPT ![request[p].found].status = status]
    BY <1>2, <2>1
  <2>3. request[p].found = i \/ request[p].found # i
    OBVIOUS
  <2>4. \A k \in Ids : k # request[p].found => rows'[k] = rows[k]
    BY <1>1, <2>2
  <2> QED
    BY <2>4 DEF NewRow, Taken
<1>4. ASSUME NEW p \in Coaches, SportUpsert(p)
      PROVE  rows'[i].student # rows'[j].student
  <2>1. /\ request[p].dto \in Dtos /\ request[p].group \in Groups /\ request[p].day \in Days
    BY <1>4, RequestKinds DEF SportUpsert, At, Requests, RowsInv, TypeInv
  <2>2. PICK f \in Upserted(request[p]) : rows' = Upsert(request[p], f)
    BY <1>4 DEF SportUpsert, Write
  <2>3. i \in Written(request[p], f) /\ j \in Written(request[p], f)
    BY <2>1, <2>2, UpsertRows DEF RowsInv, TypeInv, NewRow, Taken
  <2> QED
    BY <2>1, <2>2, <2>3, UpsertRows DEF RowsInv, TypeInv
<1> QED
  BY <1>3, <1>4, NewRowBy

\* A call about to create a row found none, and no other call is about to create it.
CreatingInv ==
    /\ \A p \in Takers, s \in Students, d \in Days :
         Creating(p, s, d) => Found(s, Null, d) = {} \/ s \in raced
    /\ \A p, q \in Takers, s \in Students, d \in Days :
         p # q /\ Creating(p, s, d) /\ Creating(q, s, d) => s \in raced
    /\ OneRowPerDay

LEMMA RacedStays == RowsInv /\ [Next]_vars => raced \subseteq raced'
<1> SUFFICES ASSUME RowsInv, [Next]_vars PROVE raced \subseteq raced'
  OBVIOUS
<1>1. ASSUME NEW p \in Requests, Taking(p) \/ Coaching(p) PROVE raced \subseteq raced'
  BY <1>1 DEF Taking, Coaching, BulkBegin, FindRow, WriteRow, ListAbsent, SportBegin,
    SportUpsert, SportDone, ghosts
<1>2. ASSUME NEW p \in Requests, Editing(p) \/ CheckStep(p) \/ Mark(p) \/ Abort(p)
      PROVE  raced' = raced
  BY <1>2 DEF Editing, Update, JustifyBegin, Justify, RemoveJustification, CheckStep, Count,
    FindRecord, CreateRecord, CheckFails, Mark, Abort, ghosts
<1>3. ASSUME NEW value \in Settings, UpdateThresholds(value) PROVE raced' = raced
  BY <1>3 DEF UpdateThresholds
<1>4. CASE UNCHANGED vars
  BY <1>4 DEF vars, ghosts
<1> QED
  BY <1>1, <1>2, <1>3, <1>4 DEF Next, Act, Requests

LEMMA NextCreating == RowsInv /\ CreatingInv /\ [Next]_vars => CreatingInv'
<1> SUFFICES ASSUME RowsInv, CreatingInv, [Next]_vars PROVE CreatingInv'
  OBVIOUS
<1>1. RowsInv' /\ RowsStay /\ raced \subseteq raced'
  BY NextType, RacedStays
<1>2. ASSUME NEW p \in Takers, NEW s \in Students, NEW d \in Days, Creating(p, s, d)'
      PROVE  Found(s, Null, d)' = {} \/ s \in raced'
  <2>1. SUFFICES ASSUME NEW i \in Ids, i \in Found(s, Null, d)' PROVE s \in raced'
    BY DEF Found
  <2>2. rows'[i].student = s /\ rows'[i].group = Null /\ rows'[i].day = d /\ Taken(i)'
    BY <2>1 DEF Found
  <2>3. CASE Taken(i)
    <3>1. i \in Found(s, Null, d)
      BY <1>1, <2>2, <2>3 DEF Found, RowsStay
    <3> QED
      BY <1>1, <1>2, <3>1, CreatingStep DEF CreatingInv
  <2>4. CASE ~Taken(i)
    <3>1. PICK q \in Takers : WriteRow(q) /\ Creating(q, s, d)
      BY <2>2, <2>4, NewRowOf DEF NewRow
    <3>2. Creating(p, s, d) /\ p # q
      <4>1. ~FindRow(p, s)
        <5>1. ASSUME FindRow(p, s) PROVE FALSE
          BY <2>2, <2>4, <5>1 DEF FindRow, tables, Taken
        <5> QED
          BY <5>1
      <4> QED
        BY <1>2, <3>1, <4>1, CreatingStep
    <3> QED
      BY <1>1, <3>1, <3>2 DEF CreatingInv
  <2> QED
    BY <2>3, <2>4
<1>3. ASSUME NEW p \in Takers, NEW q \in Takers, NEW s \in Students, NEW d \in Days,
             p # q, Creating(p, s, d)', Creating(q, s, d)'
      PROVE  s \in raced'
  <2>1. ASSUME NEW a \in Takers, NEW b \in Takers, a # b, Creating(b, s, d),
               FindRow(a, s), request[a].day = d, Found(s, Null, d) = {}
        PROVE  s \in raced'
    BY <2>1 DEF FindRow
  <2>2. ~(FindRow(p, s) /\ FindRow(q, s))
    <3>1. ASSUME FindRow(p, s), FindRow(q, s) PROVE FALSE
      <4>1. request'[q] = request[q]
        BY <3>1, <1>3 DEF FindRow, RowsInv, TypeInv, TypeOK, Requests
      <4>2. request'[q].step = "write" /\ request[q].step = "find"
        BY <1>3, <3>1 DEF Creating, At, FindRow
      <4> QED
        BY <4>1, <4>2
    <3> QED
      BY <3>1
  <2>3. CASE Creating(p, s, d) /\ Creating(q, s, d)
    BY <1>1, <1>3, <2>3 DEF CreatingInv
  <2> QED
    BY <1>3, <2>1, <2>2, <2>3, CreatingStep
<1>4. OneRowPerDay'
  <2>1. SUFFICES ASSUME NEW i \in Ids, NEW j \in Ids, i # j, Taken(i)', Taken(j)',
                        rows'[i].student = rows'[j].student, rows'[i].day = rows'[j].day,
                        rows'[i].group = rows'[j].group
                 PROVE  rows'[i].group = Null /\ rows'[i].student \in raced'
    BY DEF OneRowPerDay, Taken
  <2>2. ASSUME NEW a \in Ids, NEW b \in Ids, NewRow(a), Taken(b),
               rows'[a].student = rows'[b].student, rows'[a].day = rows'[b].day,
               rows'[a].group = rows'[b].group
        PROVE  rows'[a].group = Null /\ rows'[a].student \in raced'
    <3>1. b \in Found(rows'[a].student, rows'[a].group, rows'[a].day)
      BY <1>1, <2>2 DEF Found, RowsStay
    <3>2. rows'[a].group = Null
      BY <2>2, <3>1, NewRowOf
    <3>3. PICK p \in Takers : Creating(p, rows'[a].student, rows'[a].day)
      BY <2>2, <3>1, NewRowOf
    <3>4. rows'[a].student \in Students /\ rows'[a].day \in Days
      BY <1>1, <2>2 DEF RowsInv, TypeInv, TypeOK, NewRow, Taken, Row
    <3> QED
      BY <1>1, <3>1, <3>2, <3>3, <3>4 DEF CreatingInv
  <2>3. CASE Taken(i) /\ Taken(j)
    BY <1>1, <2>1, <2>3 DEF CreatingInv, OneRowPerDay, RowsStay
  <2>4. CASE ~Taken(i) /\ ~Taken(j)
    BY <2>1, <2>4, NewRowsApart DEF NewRow
  <2>5. CASE ~Taken(i) /\ Taken(j)
    BY <2>1, <2>2, <2>5 DEF NewRow
  <2>6. CASE Taken(i) /\ ~Taken(j)
    BY <2>1, <2>2, <2>6 DEF NewRow
  <2> QED
    BY <2>3, <2>4, <2>5, <2>6
<1> QED
  BY <1>2, <1>3, <1>4 DEF CreatingInv

\* A student has one row per day and group, unless two calls of bulkCreate that
\* found no row for the student were in flight at once.
THEOREM RowsUnique == Spec => []OneRowPerDay
<1>1. Init => CreatingInv
  BY DEF Init, CreatingInv, OneRowPerDay, Creating, At, Taken, Requests
<1>2. CreatingInv => OneRowPerDay
  BY DEF CreatingInv
<1> QED
  BY <1>1, <1>2, TypeInvariant, NextCreating, PTL DEF Spec

-----------------------------------------------------------------------------
(* One record per student and threshold *)

Starting(p) == (p \in Takers /\ ListAbsent(p)) \/ (p \in Coaches /\ SportUpsert(p))

\* A check that goes on was running, in the same place or one step back, or has been
\* started together with all the others of its call.
LEMMA CheckChange ==
    ASSUME RowsInv, [Next]_vars, NEW p \in Requests, NEW i \in Ids, Checking(p, i)'
    PROVE  \/ checks'[p][i] = checks[p][i]
           \/ Starting(p)
           \/ Count(p, i) \/ FindRecord(p, i) \/ CreateRecord(p, i)
<1>1. checks \in [Requests -> [Ids -> CheckRun \cup {Null}]]
  BY DEF RowsInv, TypeInv, TypeOK
<1>2. CASE UNCHANGED vars \/ \E value \in Settings : UpdateThresholds(value)
  BY <1>2 DEF vars, calls, UpdateThresholds
<1>3. CASE \E q \in Requests : q # p /\ Act(q)
  BY <1>3, OtherCalls
<1>4. CASE Act(p)
  <2>1. CASE CheckStep(p)
    <3>1. PICK j \in Ids :
            Count(p, j) \/ FindRecord(p, j) \/ CreateRecord(p, j) \/ CheckFails(p, j)
      BY <2>1 DEF CheckStep
    <3>2. PICK c : checks' = [checks EXCEPT ![p][j] = c]
      BY <3>1 DEF Count, FindRecord, CreateRecord, CheckFails, Check
    <3>3. i # j => checks'[p][i] = checks[p][i]
      BY <1>1, <3>2
    <3>4. CheckFails(p, i) => checks'[p][i] = Null
      BY <1>1 DEF CheckFails, Check
    <3> QED
      BY <3>1, <3>3, <3>4 DEF Checking
  <2>2. CASE Abort(p)
    <3>1. checks' = [checks EXCEPT ![p] = NoChecks]
      BY <2>2 DEF Abort
    <3>2. checks'[p][i] = Null
      BY <1>1, <3>1 DEF NoChecks
    <3> QED
      BY <3>2 DEF Checking
  <2>3. CASE p \in Takers /\ Taking(p)
    BY <2>3 DEF Taking, BulkBegin, FindRow, WriteRow, Starting
  <2>4. CASE p \in Coaches /\ Coaching(p)
    BY <2>4 DEF Coaching, SportBegin, SportDone, Starting
  <2>5. CASE Editing(p) \/ Mark(p)
    BY <2>5 DEF Editing, Update, JustifyBegin, Justify, RemoveJustification, Mark
  <2> QED
    BY <1>4, <2>1, <2>2, <2>3, <2>4, <2>5 DEF Act
<1> QED
  BY <1>2, <1>3, <1>4 DEF Next

\* A call that starts its checks tells which of them overlap.
LEMMA StartChange ==
    ASSUME RowsInv, [Next]_vars, NEW p \in Requests, Starting(p), NEW i \in Ids, Checking(p, i)'
    PROVE  /\ checks'[p][i].step = "count"
           /\ Checked(rows'[i].student) => rows'[i].student \in overlapped'
           /\ \A j \in Ids : j # i /\ Checking(p, j)' /\ rows'[j].student = rows'[i].student
                => rows'[i].student \in overlapped'
<1>1. PICK S \in SUBSET Ids : StartChecks(p, rows', S)
  <2>1. CASE p \in Takers /\ ListAbsent(p)
    <3>1. rows' = rows /\ StartChecks(p, rows, AbsentOn(request[p].day))
      BY <2>1 DEF ListAbsent, tables
    <3> QED
      BY <3>1 DEF AbsentOn
  <2>2. CASE p \in Coaches /\ SportUpsert(p)
    <3>1. /\ request[p].dto \in Dtos /\ request[p].group \in Groups /\ request[p].day \in Days
      BY <2>2, RequestKinds DEF SportUpsert, At, RowsInv, TypeInv
    <3>2. PICK f \in Upserted(request[p]) :
            /\ Write(Upsert(request[p], f))
            /\ StartChecks(p, Upsert(request[p], f),
                 {k \in Written(request[p], f) : Upsert(request[p], f)[k].status = "ABSENT"})
      BY <2>2 DEF SportUpsert
    <3>3. Written(request[p], f) \subseteq Ids
      BY <3>1, UpsertRows DEF RowsInv, TypeInv
    <3> QED
      BY <3>2, <3>3 DEF Write
  <2> QED
    BY <2>1, <2>2 DEF Starting
<1>2. \A k \in Ids : checks'[p][k] = IF k \in S THEN [step |-> "count", left |-> {}] ELSE Null
  BY <1>1, StartType DEF RowsInv
<1>3. rows'[i].student \in Students
  BY NextType DEF RowsInv, TypeInv, TypeOK, CallOK, Checking, Taken, Row
<1>4. i \in S /\ \A j \in Ids : Checking(p, j)' => j \in S
  BY <1>2 DEF Checking
<1>5. overlapped' = overlapped \cup
        {s \in Students : \E k \in S :
           /\ rows'[k].student = s
           /\ \/ Checked(s)
              \/ \E j \in S \ {k} : rows'[j].student = s}
  BY <1>1 DEF StartChecks
<1> QED
  BY <1>2, <1>3, <1>4, <1>5

LEMMA OverlappedStays == RowsInv /\ [Next]_vars => overlapped \subseteq overlapped'
<1> SUFFICES ASSUME RowsInv, [Next]_vars PROVE overlapped \subseteq overlapped'
  OBVIOUS
<1>1. ASSUME NEW p \in Requests, Taking(p) \/ Coaching(p) PROVE overlapped \subseteq overlapped'
  BY <1>1 DEF Taking, Coaching, BulkBegin, FindRow, WriteRow, ListAbsent, SportBegin,
    SportUpsert, SportDone, StartChecks, ghosts
<1>2. ASSUME NEW p \in Requests, Editing(p) \/ CheckStep(p) \/ Mark(p) \/ Abort(p)
      PROVE  overlapped' = overlapped
  BY <1>2 DEF Editing, Update, JustifyBegin, Justify, RemoveJustification, CheckStep, Count,
    FindRecord, CreateRecord, CheckFails, Mark, Abort, ghosts
<1>3. ASSUME NEW value \in Settings, UpdateThresholds(value) PROVE overlapped' = overlapped
  BY <1>3 DEF UpdateThresholds
<1>4. CASE UNCHANGED vars
  BY <1>4 DEF vars, ghosts
<1> QED
  BY <1>1, <1>2, <1>3, <1>4 DEF Next, Act, Requests

LEMMA RecordsChange ==
    ASSUME RowsInv, [Next]_vars, ~ \E p \in Requests, i \in Ids : CreateRecord(p, i)
    PROVE  absenceRecords' = absenceRecords
<1>1. ASSUME NEW p \in Requests, Taking(p) \/ Coaching(p) \/ Editing(p)
      PROVE  absenceRecords' = absenceRecords
  BY <1>1 DEF Taking, Coaching, BulkBegin, FindRow, WriteRow, ListAbsent, SportBegin,
    SportUpsert, SportDone, Editing, Update, JustifyBegin, Justify, RemoveJustification, tables
<1>2. ASSUME NEW p \in Requests, CheckStep(p) \/ Mark(p) \/ Abort(p)
      PROVE  absenceRecords' = absenceRecords
  BY <1>2 DEF CheckStep, Count, FindRecord, CheckFails, Mark, Abort, tables
<1>3. ASSUME NEW value \in Settings, UpdateThresholds(value) PROVE absenceRecords' = absenceRecords
  BY <1>3 DEF UpdateThresholds
<1>4. CASE UNCHANGED vars
  BY <1>4 DEF vars, tables
<1> QED
  BY <1>1, <1>2, <1>3, <1>4 DEF Next, Act, Requests

\* Two checks of one student overlap, and one that is about to create a record has
\* found none that anybody else has created since.
ChecksInv ==
    /\ \A p, q \in Requests, i, j \in Ids :
         /\ Checking(p, i) /\ Checking(q, j) /\ (p # q \/ i # j)
         /\ rows[i].student = rows[j].student
         => rows[i].student \in overlapped
    /\ \A p \in Requests, i \in Ids :
         Checking(p, i) /\ checks[p][i].step = "create" =>
           \/ rows[i].student \in overlapped
           \/ absenceRecords[rows[i].student][Lowest(checks[p][i].left)] = 0
    /\ OneRecordPerThreshold

\* What CreateRecord does to the records.
LEMMA CreateRecords ==
    ASSUME RowsInv, NEW p \in Requests, NEW i \in Ids, CreateRecord(p, i)
    PROVE  /\ rows[i].student \in Students /\ Lowest(checks[p][i].left) \in checks[p][i].left
           /\ checks[p][i].left \subseteq Thresholds
           /\ \A s \in Students, t \in Thresholds : absenceRecords'[s][t] =
                IF s = rows[i].student /\ t = Lowest(checks[p][i].left)
                THEN absenceRecords[s][t] + 1 ELSE absenceRecords[s][t]
<1>1. rows[i].student \in Students
  BY DEF CreateRecord, RowsInv, TypeInv, TypeOK, CallOK, Taken, Row
<1>2. checks[p][i].left \in SUBSET Thresholds /\ checks[p][i].left # {}
  BY DEF CreateRecord, RowsInv, TypeInv, TypeOK, CallOK, Checking, CheckRun
<1> DEFINE u == Lowest(checks[p][i].left)
           v == rows[i].student
<1>3. u \in checks[p][i].left
  BY <1>2, LowestIn
<1>4. absenceRecords' = [absenceRecords EXCEPT ![v][u] = @ + 1]
  BY DEF CreateRecord
<1>5. absenceRecords \in [Students -> [Thresholds -> Nat]]
  BY DEF RowsInv, TypeInv, TypeOK
<1> HIDE DEF u, v
<1>6. u \in Thresholds
  BY <1>2, <1>3
<1>7. \A s \in Students, t \in Thresholds : absenceRecords'[s][t] =
        IF s = v /\ t = u THEN absenceRecords[s][t] + 1 ELSE absenceRecords[s][t]
  BY <1>4, <1>5, <1>6
<1> QED
  BY <1>1, <1>2, <1>3, <1>7 DEF u, v

LEMMA NextChecks == RowsInv /\ ChecksInv /\ [Next]_vars => ChecksInv'
<1> SUFFICES ASSUME RowsInv, ChecksInv, [Next]_vars PROVE ChecksInv'
  OBVIOUS
<1>1. /\ RowsInv' /\ RowsStay /\ overlapped \subseteq overlapped'
      /\ absenceRecords \in [Students -> [Thresholds -> Nat]]
  BY NextType, OverlappedStays DEF RowsInv, TypeInv, TypeOK
<1>2. ASSUME NEW p \in Requests, NEW i \in Ids, Checking(p, i)', ~Starting(p)
      PROVE  /\ Checking(p, i) /\ rows'[i].student = rows[i].student
             /\ rows[i].student \in Students
  <2>1. Checking(p, i)
    BY <1>2, CheckChange DEF Checking, Count, FindRecord, CreateRecord
  <2> QED
    BY <1>1, <2>1 DEF RowsInv, TypeInv, TypeOK, CallOK, RowsStay, Taken, Row
<1>3. ASSUME NEW p \in Requests, NEW q \in Requests, p # q, Starting(p), Starting(q)
      PROVE  FALSE
  <2>1. request'[p] # request[p]
    <3>1. CASE ListAbsent(p)
      <4>1. request[p] \in BulkRequest /\ request[p].step = "list"
        BY <1>3, <3>1, RequestKinds DEF RowsInv, TypeInv, ListAbsent, At
      <4>2. request'[p] = [request[p] EXCEPT !.step = "checks"]
        BY <3>1 DEF ListAbsent, Goto, RowsInv, TypeInv, TypeOK
      <4> QED
        BY <4>1, <4>2 DEF BulkRequest
    <3>2. CASE SportUpsert(p)
      <4>1. request'[p].step = "sportChecks" /\ request[p].step = "sport"
        BY <3>2 DEF SportUpsert, At, RowsInv, TypeInv, TypeOK
      <4> QED
        BY <4>1
    <3> QED
      BY <1>3, <3>1, <3>2 DEF Starting
  <2>2. request'[p] = request[p]
    BY <1>3 DEF Starting, ListAbsent, SportUpsert, Goto, RowsInv, TypeInv, TypeOK
  <2> QED
    BY <2>1, <2>2
<1>4. ASSUME NEW p \in Requests, NEW q \in Requests, NEW i \in Ids, NEW j \in Ids,
             Checking(p, i)', Checking(q, j)', p # q \/ i # j,
             rows'[i].student = rows'[j].student
      PROVE  rows'[i].student \in overlapped'
  <2>1. CASE ~Starting(p) /\ ~Starting(q)
    BY <1>1, <1>2, <1>4, <2>1 DEF ChecksInv
  <2>2. CASE p = q /\ Starting(p)
    BY <1>4, <2>2, StartChange
  <2>3. ASSUME NEW a \in Requests, NEW b \in Requests, NEW k \in Ids, NEW l \in Ids,
               a # b, Starting(a), Checking(a, k)', Checking(b, l)',
               rows'[k].student = rows'[l].student
        PROVE  rows'[k].student \in overlapped'
    <3>1. Checking(b, l) /\ rows'[l].student = rows[l].student
      BY <1>2, <1>3, <2>3
    <3>2. Checked(rows'[k].student)
      BY <2>3, <3>1 DEF Checked
    <3> QED
      BY <2>3, <3>2, StartChange
  <2> QED
    BY <1>4, <2>1, <2>2, <2>3
<1>5. ASSUME NEW p \in Requests, NEW i \in Ids, Checking(p, i)', checks'[p][i].step = "create"
      PROVE  \/ rows'[i].student \in overlapped'
             \/ absenceRecords'[rows'[i].student][Lowest(checks'[p][i].left)] = 0
  <2>1. ~Starting(p)
    BY <1>5, StartChange
  <2>2. Checking(p, i) /\ rows'[i].student = rows[i].student /\ rows[i].student \in Students
    BY <1>2, <1>5, <2>1
  <2>3. ~Count(p, i) /\ ~CreateRecord(p, i)
    <3>1. checks \in [Requests -> [Ids -> CheckRun \cup {Null}]]
      BY DEF RowsInv, TypeInv, TypeOK
    <3>2. ASSUME NEW left, Check(p, i, Searching(left)) PROVE FALSE
      <4>1. checks'[p][i] = Searching(left)
        BY <3>1, <3>2 DEF Check
      <4> QED
        BY <1>5, <4>1 DEF Searching, Checking
    <3> QED
      BY <3>2 DEF Count, CreateRecord
  <2>4. CASE FindRecord(p, i)
    <3> DEFINE left == checks[p][i].left
               t == Lowest(left)
    <3>1. /\ IF Recorded(rows[i].student, t)
             THEN Check(p, i, Searching(left \ {t}))
             ELSE Check(p, i, [step |-> "create", left |-> left])
          /\ absenceRecords' = absenceRecords
          /\ checks \in [Requests -> [Ids -> CheckRun \cup {Null}]]
      BY <2>4 DEF FindRecord, tables, RowsInv, TypeInv, TypeOK
    <3>2. left \in SUBSET Thresholds /\ left # {}
      BY <2>4 DEF FindRecord, RowsInv, TypeInv, TypeOK, CallOK, Checking, CheckRun
    <3>3. t \in Thresholds
      BY <3>2, LowestIn
    <3>4. ~Check(p, i, Searching(left \ {t}))
      <4>1. ASSUME Check(p, i, Searching(left \ {t})) PROVE FALSE
        <5>1. checks'[p][i] = Searching(left \ {t})
          BY <3>1, <4>1 DEF Check
        <5> QED
          BY <1>5, <5>1 DEF Searching, Checking
      <4> QED
        BY <4>1
    <3>5. ~Recorded(rows[i].student, t) /\ checks'[p][i].left = left
      BY <3>1, <3>4 DEF Check
    <3> HIDE DEF t
    <3>6. absenceRecords[rows[i].student][t] = 0
      BY <1>1, <2>2, <3>3, <3>5 DEF Recorded
    <3> QED
      BY <2>2, <3>1, <3>5, <3>6 DEF t
  <2>5. CASE checks'[p][i] = checks[p][i]
    <3>1. \/ rows[i].student \in overlapped
          \/ absenceRecords[rows[i].student][Lowest(checks[p][i].left)] = 0
      BY <1>5, <2>2, <2>5 DEF ChecksInv
    <3>2. CASE \E q \in Requests, j \in Ids : CreateRecord(q, j)
      <4>1. PICK q \in Requests, j \in Ids : CreateRecord(q, j)
        BY <3>2
      <4>2. Checking(q, j) /\ (q # p \/ j # i)
        BY <2>3, <4>1 DEF CreateRecord
      <4>3. CASE rows[j].student = rows[i].student
        BY <1>1, <2>2, <4>2, <4>3 DEF ChecksInv
      <4>4. CASE rows[j].student # rows[i].student
        <5>1. Lowest(checks[p][i].left) \in Thresholds
          BY <1>5, <2>2, <2>5, LowestIn
          DEF RowsInv, TypeInv, TypeOK, CallOK, Checking, CheckRun
        <5> QED
          BY <1>1, <2>2, <2>5, <3>1, <4>1, <4>4, <5>1, CreateRecords
      <4> QED
        BY <4>3, <4>4
    <3>3. CASE ~ \E q \in Requests, j \in Ids : CreateRecord(q, j)
      BY <1>1, <2>2, <2>5, <3>1, <3>3, RecordsChange
    <3> QED
      BY <3>2, <3>3
  <2> QED
    BY <1>5, <2>1, <2>3, <2>4, <2>5, CheckChange
<1>6. OneRecordPerThreshold'
  <2>1. SUFFICES ASSUME NEW s \in Students, NEW t \in Thresholds, absenceRecords'[s][t] > 1
                 PROVE  s \in overlapped'
    BY DEF OneRecordPerThreshold
  <2>2. absenceRecords[s][t] > 1 => s \in overlapped
    BY DEF ChecksInv, OneRecordPerThreshold
  <2>3. CASE absenceRecords'[s][t] = absenceRecords[s][t]
    BY <1>1, <2>1, <2>2, <2>3
  <2>4. CASE absenceRecords'[s][t] # absenceRecords[s][t]
    <3>1. PICK p \in Requests, i \in Ids : CreateRecord(p, i)
      BY <2>4, RecordsChange
    <3>2. /\ s = rows[i].student /\ t = Lowest(checks[p][i].left)
          /\ absenceRecords'[s][t] = absenceRecords[s][t] + 1
      BY <2>4, <3>1, CreateRecords
    <3>3. s \in overlapped \/ absenceRecords[s][t] = 0
      BY <3>1, <3>2 DEF CreateRecord, ChecksInv
    <3> QED
      BY <1>1, <2>1, <3>2, <3>3
  <2> QED
    BY <2>3, <2>4
<1> QED
  BY <1>4, <1>5, <1>6 DEF ChecksInv

\* No student has two records for one threshold, unless two of its checks ran at once.
THEOREM RecordsUnique == Spec => []OneRecordPerThreshold
<1>1. Init => ChecksInv
  BY DEF Init, ChecksInv, OneRecordPerThreshold, Checking, NoChecks, Requests
<1>2. ChecksInv => OneRecordPerThreshold
  BY DEF ChecksInv
<1> QED
  BY <1>1, <1>2, TypeInvariant, NextChecks, PTL DEF Spec

-----------------------------------------------------------------------------
(* Records that were earned *)

LEMMA RowsChange ==
    ASSUME RowsInv, [Next]_vars
    PROVE  UNCHANGED <<rows, peak>> \/ Write(rows')
<1>1. ASSUME NEW p \in Requests, Taking(p) \/ Coaching(p)
      PROVE  UNCHANGED <<rows, peak>> \/ Write(rows')
  BY <1>1 DEF Taking, Coaching, BulkBegin, FindRow, WriteRow, ListAbsent, SportBegin,
    SportUpsert, SportDone, Write, tables, ghosts
<1>2. ASSUME NEW p \in Requests, Editing(p)
      PROVE  UNCHANGED <<rows, peak>> \/ Write(rows')
  BY <1>2 DEF Editing, Update, JustifyBegin, Justify, RemoveJustification, Write, tables
<1>3. ASSUME NEW p \in Requests, CheckStep(p) \/ Mark(p) \/ Abort(p)
      PROVE  UNCHANGED <<rows, peak>>
  BY <1>3 DEF CheckStep, Count, FindRecord, CreateRecord, CheckFails, Mark, Abort, tables, ghosts
<1>4. ASSUME NEW value \in Settings, UpdateThresholds(value) PROVE UNCHANGED <<rows, peak>>
  BY <1>4 DEF UpdateThresholds
<1>5. CASE UNCHANGED vars
  BY <1>5 DEF vars, tables, ghosts
<1> QED
  BY <1>1, <1>2, <1>3, <1>4, <1>5 DEF Next, Act, Requests

\* The most absences a student has had so far, and what a check knows of them.
PeakInv ==
    /\ \A s \in Students : Absences(rows, s) <= peak[s]
    /\ \A p \in Requests, i \in Ids : Checking(p, i) /\ checks[p][i].step # "count" =>
         \A t \in checks[p][i].left : t <= peak[rows[i].student]
    /\ RecordsDeserved

LEMMA NextPeak == RowsInv /\ PeakInv /\ [Next]_vars => PeakInv'
<1> SUFFICES ASSUME RowsInv, PeakInv, [Next]_vars PROVE PeakInv'
  OBVIOUS
<1>1. /\ RowsInv' /\ RowsStay
      /\ checks \in [Requests -> [Ids -> CheckRun \cup {Null}]]
      /\ peak \in [Students -> Nat] /\ peak' \in [Students -> Nat]
      /\ Thresholds \subseteq Nat /\ thresholds \subseteq Thresholds
  BY NextType DEF RowsInv, TypeInv, TypeOK, Thresholds
<1>2. \A s \in Students : peak[s] <= peak'[s] /\ Absences(rows', s) <= peak'[s]
  <2>1. CASE UNCHANGED <<rows, peak>>
    BY <1>1, <2>1 DEF PeakInv
  <2>2. CASE Write(rows')
    <3>1. ASSUME NEW s \in Students
          PROVE  peak[s] <= peak'[s] /\ Absences(rows', s) <= peak'[s]
      <4>1. peak'[s] = Higher(peak[s], Absences(rows', s))
        BY <2>2 DEF Write
      <4>2. peak[s] \in Nat /\ Absences(rows', s) \in Nat
        BY <1>1, AbsencesType
      <4> QED
        BY <4>1, <4>2 DEF Higher
    <3> QED
      BY <3>1
  <2> QED
    BY <2>1, <2>2, RowsChange
<1>3. ASSUME NEW p \in Requests, NEW i \in Ids, Checking(p, i)', checks'[p][i].step # "count",
             NEW t \in checks'[p][i].left
      PROVE  t <= peak'[rows'[i].student]
  <2>1. ~Starting(p)
    BY <1>3, StartChange
  <2>2. Checking(p, i)
    BY <1>3, <2>1, CheckChange DEF Checking, Count, FindRecord, CreateRecord
  <2>3. rows'[i].student = rows[i].student /\ rows[i].student \in Students
    BY <1>1, <2>2 DEF RowsInv, TypeInv, TypeOK, CallOK, RowsStay, Taken, Row
  <2>4. t \in Thresholds
    BY <1>1, <1>3 DEF RowsInv, TypeInv, TypeOK, Checking, CheckRun
  <2>7. /\ t \in Nat
        /\ peak[rows[i].student] \in Nat /\ peak'[rows[i].student] \in Nat
        /\ peak[rows[i].student] <= peak'[rows[i].student]
    BY <1>1, <1>2, <2>3, <2>4
  <2>5. CASE Count(p, i)
    <3> DEFINE left == Reached(thresholds, Absences(rows, rows[i].student))
    <3>1. checks'[p][i] = Searching(left)
      BY <1>1, <2>5 DEF Count, Check
    <3>2. t \in left
      BY <1>3, <3>1 DEF Searching, Checking
    <3>3. t <= Absences(rows, rows[i].student)
      BY <3>2 DEF Reached
    <3>4. Absences(rows, rows[i].student) \in Nat
      BY AbsencesType
    <3>5. Absences(rows, rows[i].student) <= peak[rows[i].student]
      BY <2>3 DEF PeakInv
    <3> HIDE DEF left
    <3> QED
      BY <2>3, <2>7, <3>3, <3>4, <3>5
  <2>6. CASE ~Count(p, i)
    <3>1. checks[p][i].step # "count" /\ t \in checks[p][i].left
      <4>1. CASE checks'[p][i] = checks[p][i]
        BY <1>3, <4>1
      <4>2. CASE CreateRecord(p, i)
        <5>1. checks[p][i].step = "create"
              /\ checks'[p][i]
                   = Searching(checks[p][i].left \ {Lowest(checks[p][i].left)})
          BY <1>1, <4>2 DEF CreateRecord, Check
        <5> QED
          BY <1>3, <5>1 DEF Searching, Checking
      <4>3. CASE FindRecord(p, i)
        <5>1. /\ checks[p][i].step = "find"
              /\ \/ checks'[p][i]
                      = Searching(checks[p][i].left \ {Lowest(checks[p][i].left)})
                 \/ checks'[p][i] = [step |-> "create", left |-> checks[p][i].left]
          BY <1>1, <4>3 DEF FindRecord, Check
        <5> QED
          BY <1>3, <5>1 DEF Searching, Checking
      <4> QED
        BY <1>3, <2>1, <2>6, <4>1, <4>2, <4>3, CheckChange
    <3>2. t <= peak[rows[i].student]
      BY <2>2, <3>1 DEF PeakInv
    <3> QED
      BY <2>3, <2>7, <3>2
  <2> QED
    BY <2>5, <2>6
<1>4. RecordsDeserved'
  <2>1. SUFFICES ASSUME NEW s \in Students, NEW t \in Thresholds, absenceRecords'[s][t] > 0
                 PROVE  peak'[s] >= t
    BY DEF RecordsDeserved
  <2>2. peak[s] >= t
    <3>1. CASE \E p \in Requests, i \in Ids : CreateRecord(p, i)
      <4>1. PICK p \in Requests, i \in Ids : CreateRecord(p, i)
        BY <3>1
      <4>2. CASE s = rows[i].student /\ t = Lowest(checks[p][i].left)
        <5>1. Checking(p, i) /\ checks[p][i].step = "create" /\ t \in checks[p][i].left
          BY <4>1, <4>2, CreateRecords DEF CreateRecord
        <5>2. t <= peak[s]
          BY <4>2, <5>1 DEF PeakInv
        <5> QED
          BY <1>1, <5>2
      <4>3. CASE ~(s = rows[i].student /\ t = Lowest(checks[p][i].left))
        BY <2>1, <4>1, <4>3, CreateRecords DEF PeakInv, RecordsDeserved
      <4> QED
        BY <4>2, <4>3
    <3>2. CASE ~ \E p \in Requests, i \in Ids : CreateRecord(p, i)
      BY <2>1, <3>2, RecordsChange DEF PeakInv, RecordsDeserved
    <3> QED
      BY <3>1, <3>2
  <2> QED
    BY <1>1, <1>2, <2>2
<1> QED
  BY <1>2, <1>3, <1>4 DEF PeakInv

\* Whoever has a record for a threshold had been absent that often at one moment.
THEOREM RecordsEarned == Spec => []RecordsDeserved
<1>1. Init => PeakInv
  <2> SUFFICES ASSUME Init PROVE PeakInv
    OBVIOUS
  <2>1. ASSUME NEW s \in Students PROVE Absences(rows, s) = 0
    <3>1. {i \in Ids : rows[i] # Null /\ rows[i].student = s /\ rows[i].status = "ABSENT"} = {}
      BY DEF Init
    <3> QED
      BY <3>1, FS_EmptySet DEF Absences
  <2> QED
    BY <2>1 DEF Init, PeakInv, RecordsDeserved, Checking, NoChecks, Requests
<1>2. PeakInv => RecordsDeserved
  BY DEF PeakInv
<1> QED
  BY <1>1, <1>2, TypeInvariant, NextPeak, PTL DEF Spec

-----------------------------------------------------------------------------
(* What is justified *)

\* Its row is ABSENT as it was read, or another call has changed it since.
JustifyInv ==
    \A p \in Editors : At(p, "justify") =>
        rows[request[p].row].status = "ABSENT" \/ p \in superseded

LEMMA JustifyingStep ==
    ASSUME RowsInv, [Next]_vars, NEW p \in Editors, At(p, "justify")'
    PROVE  request'[p] = request[p] \/ \E i \in Ids : JustifyBegin(p, i)
<1>1. p \in Requests /\ request \in [Requests -> Request \cup {Null}]
  BY DEF Requests, RowsInv, TypeInv, TypeOK
<1>2. request'[p] # Null /\ request'[p].step = "justify"
  BY DEF At
<1>3. CASE UNCHANGED vars \/ \E value \in Settings : UpdateThresholds(value)
  BY <1>3 DEF vars, calls, UpdateThresholds
<1>4. CASE \E q \in Requests : q # p /\ Act(q)
  BY <1>1, <1>4, OtherCalls
<1>5. CASE Act(p)
  <2>1. CASE Taking(p)
    <3>1. CASE \E d \in Days, dto \in Dtos : BulkBegin(p, d, dto)
      <4>1. request'[p].step = "find"
        BY <1>1, <3>1 DEF BulkBegin, Begin
      <4> QED
        BY <1>2, <4>1
    <3>2. CASE ~ \E d \in Days, dto \in Dtos : BulkBegin(p, d, dto)
      <4>1. request[p] \in BulkRequest
        BY <1>1, <2>1, <3>2, RequestKinds
        DEF Taking, FindRow, WriteRow, ListAbsent, At, RowsInv, TypeInv
      <4>2. request'[p].step \in {"find", "write", "list", "checks"}
        <5>1. CASE \E s \in Students : FindRow(p, s)
          <6>1. PICK s \in Students : FindRow(p, s)
            BY <5>1
          <6>2. request'[p].step = "write"
            BY <1>1, <4>1, <6>1 DEF FindRow, BulkRequest
          <6> QED
            BY <6>2
        <5>2. CASE WriteRow(p)
          BY <1>1, <4>1, <5>2 DEF WriteRow, BulkRequest
        <5>3. CASE ListAbsent(p)
          BY <1>1, <4>1, <5>3 DEF ListAbsent, Goto, BulkRequest
        <5> QED
          BY <2>1, <3>2, <5>1, <5>2, <5>3 DEF Taking
      <4> QED
        BY <1>2, <4>2
    <3> QED
      BY <3>1, <3>2
  <2>2. CASE Coaching(p)
    <3>1. request'[p] = Null \/ request'[p].step \in {"sport", "sportChecks"}
      BY <1>1, <2>2 DEF Coaching, SportBegin, SportUpsert, SportDone, Begin
    <3> QED
      BY <1>2, <3>1
  <2>3. CASE Editing(p) /\ ~ \E i \in Ids : JustifyBegin(p, i)
    <3>1. request' = [request EXCEPT ![p] = Marking]
      BY <2>3 DEF Editing, Update, RemoveJustification, Justify, Begin
    <3>2. request'[p].step = "mark"
      BY <1>1, <3>1 DEF Marking
    <3> QED
      BY <1>2, <3>2
  <2>4. CASE CheckStep(p) \/ Mark(p) \/ Abort(p)
    <3>1. request'[p] = Null \/ request'[p] = request[p]
      BY <1>1, <2>4 DEF CheckStep, Count, FindRecord, CreateRecord, CheckFails, Mark, Abort,
        ghosts
    <3> QED
      BY <1>2, <3>1
  <2> QED
    BY <1>5, <2>1, <2>2, <2>3, <2>4 DEF Act
<1> QED
  BY <1>3, <1>4, <1>5 DEF Next

LEMMA SupersededChange ==
    ASSUME RowsInv, [Next]_vars
    PROVE  \/ Write(rows')
           \/ /\ rows' = rows
              /\ \/ superseded' = superseded
                 \/ \E q \in Editors, i \in Ids :
                      JustifyBegin(q, i) /\ superseded' = superseded \ {q}
<1>1. ASSUME NEW p \in Requests, Taking(p) \/ Coaching(p)
      PROVE  UNCHANGED <<rows, superseded>> \/ Write(rows')
  BY <1>1 DEF Taking, Coaching, BulkBegin, FindRow, WriteRow, ListAbsent, SportBegin,
    SportUpsert, SportDone, Write, tables, ghosts
<1>2. ASSUME NEW p \in Editors, Editing(p)
      PROVE  \/ Write(rows')
             \/ /\ rows' = rows
                /\ \E i \in Ids : JustifyBegin(p, i) /\ superseded' = superseded \ {p}
  BY <1>2 DEF Editing, Update, JustifyBegin, Justify, RemoveJustification, Write, tables
<1>3. ASSUME NEW p \in Requests, CheckStep(p) \/ Mark(p) \/ Abort(p)
      PROVE  UNCHANGED <<rows, superseded>>
  BY <1>3 DEF CheckStep, Count, FindRecord, CreateRecord, CheckFails, Mark, Abort, tables, ghosts
<1>4. ASSUME NEW value \in Settings, UpdateThresholds(value) PROVE UNCHANGED <<rows, superseded>>
  BY <1>4 DEF UpdateThresholds
<1>5. CASE UNCHANGED vars
  BY <1>5 DEF vars, tables, ghosts
<1> QED
  BY <1>1, <1>2, <1>3, <1>4, <1>5 DEF Next, Act

LEMMA NextJustify == RowsInv /\ JustifyInv /\ [Next]_vars => JustifyInv'
<1> SUFFICES ASSUME RowsInv, JustifyInv, [Next]_vars, NEW p \in Editors, At(p, "justify")'
             PROVE  rows'[request'[p].row].status = "ABSENT" \/ p \in superseded'
  BY DEF JustifyInv
<1>1. p \in Requests /\ request \in [Requests -> Request \cup {Null}]
  BY DEF Requests, RowsInv, TypeInv, TypeOK
<1>2. CASE \E i \in Ids : JustifyBegin(p, i)
  <2>1. PICK i \in Ids : JustifyBegin(p, i)
    BY <1>2
  <2>2. rows[i].status = "ABSENT" /\ rows' = rows /\ request'[p].row = i
    BY <1>1, <2>1 DEF JustifyBegin, Begin, tables
  <2> QED
    BY <2>2
<1>3. CASE request'[p] = request[p] /\ ~ \E i \in Ids : JustifyBegin(p, i)
  <2>1. At(p, "justify")
    BY <1>3 DEF At
  <2>2. rows[request[p].row].status = "ABSENT" \/ p \in superseded
    BY <2>1 DEF JustifyInv
  <2>3. CASE Write(rows')
    <3>1. p \in superseded \/ rows'[request[p].row] # rows[request[p].row]
            => p \in superseded'
      BY <2>1, <2>3 DEF Write, At
    <3> QED
      BY <1>3, <2>2, <3>1
  <2>4. CASE rows' = rows /\ superseded' = superseded
    BY <1>3, <2>2, <2>4
  <2>5. CASE rows' = rows /\ \E q \in Editors, i \in Ids :
               JustifyBegin(q, i) /\ superseded' = superseded \ {q}
    BY <1>3, <2>2, <2>5
  <2> QED
    BY <2>3, <2>4, <2>5, SupersededChange
<1> QED
  BY <1>2, <1>3, JustifyingStep

\* What is justified is an absence at that moment, unless another call has changed
\* the row since this one read it.
THEOREM JustifiedAbsence == Spec => OnlyAbsencesJustified
<1>1. Init => JustifyInv
  BY DEF Init, JustifyInv, At, Requests
<1>2. RowsInv /\ JustifyInv /\ [Next]_vars =>
        [\A i \in justifications' \ justifications :
            \/ rows[i].status = "ABSENT"
            \/ \E p \in superseded : At(p, "justify") /\ request[p].row = i]_vars
  <2> SUFFICES ASSUME RowsInv, JustifyInv, [Next]_vars, NEW i \in justifications' \ justifications
               PROVE  \/ rows[i].status = "ABSENT"
                      \/ \E p \in superseded : At(p, "justify") /\ request[p].row = i
    OBVIOUS
  <2>1. PICK p \in Editors : Justify(p) /\ i = request[p].row
    BY NewJustification
  <2> QED
    BY <2>1 DEF JustifyInv, Justify
<1> QED
  BY <1>1, <1>2, TypeInvariant, NextJustify, PTL DEF Spec, OnlyAbsencesJustified

-----------------------------------------------------------------------------
(* Every threshold that bulk calls reach is recorded *)

\* UpdateInstitutionDto takes positive thresholds only.  POST /thresholds takes any:
\* everybody reaches 0 before anything is checked.
PositiveThresholds == \A value \in Settings : 0 \notin value

\* A bulk call that is going to list the absences of a day will check this student.
Covered(p, s, d) ==
    /\ request[p] # Null /\ request[p].step \in {"find", "write", "list"}
    /\ s \in request[p].listed /\ request[p].day = d

\* The absences of a student that no bulk call has still to check.
Settled(s) ==
    {i \in Ids : /\ Taken(i) /\ rows[i].student = s /\ rows[i].status = "ABSENT"
                 /\ ~ \E p \in Takers : Covered(p, s, rows[i].day)}

\* A check that runs will create the record, or count once more.
Due(s, t) ==
    \E p \in Requests, i \in Ids :
        /\ Checking(p, i) /\ rows[i].student = s
        /\ checks[p][i].step = "count" \/ t \in checks[p][i].left

RecordedInv ==
    /\ \A p \in Takers :
         request[p] # Null /\ request[p].step \in {"find", "write"} =>
           DOMAIN request[p].dto \subseteq request[p].listed
    /\ \A s \in Students \ exempt, t \in thresholds :
         Cardinality(Settled(s)) < t \/ Recorded(s, t) \/ Due(s, t)

\* A bulk call that goes on keeps its day and its list, and has not more to write.
LEMMA BulkStep ==
    ASSUME RowsInv, NEW p \in Takers, (\E s \in Students : FindRow(p, s)) \/ WriteRow(p)
    PROVE  /\ request[p] # Null /\ request[p].step \in {"find", "write"}
           /\ request'[p] # Null /\ request'[p].step \in {"find", "write", "list"}
           /\ request'[p].listed = request[p].listed /\ request'[p].day = request[p].day
           /\ DOMAIN request'[p].dto \subseteq DOMAIN request[p].dto
<1>1. /\ p \in Requests /\ request \in [Requests -> Request \cup {Null}]
      /\ request[p] # Null /\ request[p].step \in {"find", "write"}
      /\ request[p] \in BulkRequest
      /\ request[p].step = "write" => request[p].student \in DOMAIN request[p].dto
  BY RequestKinds DEF Requests, RowsInv, TypeInv, TypeOK, CallOK, FindRow, WriteRow, At
<1>2. CASE \E s \in Students : FindRow(p, s)
  <2>1. PICK s \in Students : FindRow(p, s)
    BY <1>2
  <2>2. PICK i \in IF Found(s, Null, request[p].day) = {} THEN {Null}
                   ELSE Found(s, Null, request[p].day) :
          request' = [request EXCEPT ![p] =
            [@ EXCEPT !.step = "write", !.student = s, !.found = i]]
    BY <2>1 DEF FindRow
  <2> DEFINE r == [request[p] EXCEPT !.step = "write", !.student = s, !.found = i]
  <2>3. request'[p] = r
    BY <1>1, <2>2
  <2>4. i \in Ids \cup {Null}
    BY <2>2 DEF Found
  <2>5. r \in BulkRequest
    BY <1>1, <2>4 DEF BulkRequest
  <2>6. /\ r.step = "write" /\ r.listed = request[p].listed /\ r.day = request[p].day
        /\ r.dto = request[p].dto
    BY <1>1 DEF BulkRequest
  <2> HIDE DEF r
  <2>7. r # Null
    BY <2>5 DEF Request
  <2> QED
    BY <1>1, <2>3, <2>6, <2>7
<1>3. CASE WriteRow(p)
  <2> DEFINE r == [request[p] EXCEPT
                     !.step = IF DOMAIN request[p].dto = {request[p].student}
                              THEN "list" ELSE "find",
                     !.dto = Restrict(request[p].dto,
                                      DOMAIN request[p].dto \ {request[p].student}),
                     !.student = Null, !.found = Null]
  <2>1. request' = [request EXCEPT ![p] = r]
    BY <1>3 DEF WriteRow
  <2>2. PICK dto \in Dtos \cup {NoDto} : dto = request[p].dto
    BY <1>1 DEF BulkRequest
  <2>3. /\ Restrict(dto, DOMAIN dto \ {request[p].student}) \in Dtos \cup {NoDto}
        /\ DOMAIN Restrict(dto, DOMAIN dto \ {request[p].student})
             = DOMAIN dto \ {request[p].student}
    BY DtoRest
  <2>4. r \in BulkRequest
    BY <1>1, <2>2, <2>3 DEF BulkRequest
  <2>5. /\ r.step \in {"find", "list"} /\ r.listed = request[p].listed
        /\ r.day = request[p].day
        /\ r.dto = Restrict(dto, DOMAIN dto \ {request[p].student})
    BY <1>1, <2>2 DEF BulkRequest
  <2> HIDE DEF r
  <2>6. r # Null /\ request'[p] = r
    BY <1>1, <2>1, <2>4 DEF Request
  <2> QED
    BY <1>1, <2>2, <2>3, <2>5, <2>6
<1> QED
  BY <1>2, <1>3

\* A call keeps its list to the end of its writes.
LEMMA NextListed ==
    ASSUME RowsInv, RecordedInv, [Next]_vars, NEW p \in Takers,
           request'[p] # Null, request'[p].step \in {"find", "write"}
    PROVE  DOMAIN request'[p].dto \subseteq request'[p].listed
<1>1. p \in Requests /\ request \in [Requests -> Request \cup {Null}]
  BY DEF Requests, RowsInv, TypeInv, TypeOK
<1>2. CASE request'[p] = request[p]
  BY <1>2 DEF RecordedInv
<1>3. CASE UNCHANGED vars \/ \E value \in Settings : UpdateThresholds(value)
  BY <1>2, <1>3 DEF vars, calls, UpdateThresholds
<1>4. CASE \E q \in Requests : q # p /\ Act(q)
  BY <1>1, <1>2, <1>4, OtherCalls
<1>5. CASE Act(p)
  <2>1. CASE \E d \in Days, dto \in Dtos : BulkBegin(p, d, dto)
    <3>1. PICK d \in Days, dto \in Dtos : BulkBegin(p, d, dto)
      BY <2>1
    <3>2. request'[p].dto = dto /\ request'[p].listed = DOMAIN dto
      BY <1>1, <3>1 DEF BulkBegin, Begin
    <3> QED
      BY <3>2
  <2>2. CASE (\E s \in Students : FindRow(p, s)) \/ WriteRow(p)
    BY <2>2, BulkStep DEF RecordedInv
  <2>3. CASE ListAbsent(p)
    <3>1. request[p] # Null /\ request[p] \in BulkRequest
      BY <1>1, <2>3, RequestKinds DEF ListAbsent, At, RowsInv, TypeInv
    <3>2. request'[p].step = "checks"
      BY <1>1, <2>3, <3>1 DEF ListAbsent, Goto, BulkRequest
    <3> QED
      BY <3>2
  <2>4. CASE Coaching(p)
    <3>1. request'[p] = Null \/ request'[p].step \in {"sport", "sportChecks"}
      BY <1>1, <2>4 DEF Coaching, SportBegin, SportUpsert, SportDone, Begin
    <3> QED
      BY <3>1
  <2>5. CASE Editing(p)
    <3>1. request' = [request EXCEPT ![p] = Marking]
            \/ \E i \in Ids : request' = [request EXCEPT ![p] = [step |-> "justify", row |-> i]]
      BY <2>5 DEF Editing, Update, JustifyBegin, RemoveJustification, Justify, Begin
    <3>2. request'[p].step \in {"mark", "justify"}
      BY <1>1, <3>1 DEF Marking
    <3> QED
      BY <3>2
  <2>6. CASE CheckStep(p) \/ Mark(p) \/ Abort(p)
    <3>1. request'[p] = Null \/ request'[p] = request[p]
      BY <1>1, <2>6 DEF CheckStep, Count, FindRecord, CreateRecord, CheckFails, Mark, Abort,
        ghosts
    <3> QED
      BY <1>2, <3>1
  <2> QED
    BY <1>5, <2>1, <2>2, <2>3, <2>4, <2>5, <2>6 DEF Act, Taking
<1> QED
  BY <1>3, <1>4, <1>5 DEF Next

\* A call stops covering a student when it checks the absences of the day.
LEMMA CoveredChange ==
    ASSUME RowsInv, [Next]_vars, NEW p \in Takers, NEW s \in Students, NEW d \in Days,
           Covered(p, s, d), s \notin exempt'
    PROVE  Covered(p, s, d)' \/ (ListAbsent(p) /\ request[p].day = d)
<1>1. /\ p \in Requests /\ request \in [Requests -> Request \cup {Null}]
      /\ checks[p] = NoChecks
      /\ request[p] # Null /\ request[p] \in BulkRequest
      /\ request[p].step \in {"find", "write", "list"}
      /\ s \in request[p].listed /\ request[p].day = d
  BY RequestKinds DEF Requests, RowsInv, TypeInv, TypeOK, CallOK, Covered
<1>2. CASE request'[p] = request[p]
  BY <1>1, <1>2 DEF Covered
<1>3. CASE UNCHANGED vars \/ \E value \in Settings : UpdateThresholds(value)
  BY <1>2, <1>3 DEF vars, calls, UpdateThresholds
<1>4. CASE \E q \in Requests : q # p /\ Act(q)
  BY <1>1, <1>2, <1>4, OtherCalls
<1>5. CASE Act(p)
  <2>1. CASE (\E u \in Students : FindRow(p, u)) \/ WriteRow(p)
    BY <1>1, <2>1, BulkStep DEF Covered
  <2>2. CASE ListAbsent(p)
    BY <1>1, <2>2
  <2>3. CASE \E e \in Days, dto \in Dtos : BulkBegin(p, e, dto)
    BY <1>1, <2>3 DEF BulkBegin, Begin, Idle
  <2>4. CASE Coaching(p)
    BY <1>1, <2>4 DEF Coaching, SportBegin, SportUpsert, SportDone, Begin, Idle, At
  <2>5. CASE Editing(p)
    BY <1>1, <2>5 DEF Editing, Update, JustifyBegin, RemoveJustification, Justify, Begin, Idle,
      At
  <2>6. CASE CheckStep(p)
    BY <1>1, <2>6 DEF CheckStep, Count, FindRecord, CreateRecord, CheckFails, Checking, NoChecks
  <2>7. CASE Mark(p)
    BY <1>1, <2>7 DEF Mark, At
  <2>8. CASE Abort(p)
    <3>1. "listed" \in DOMAIN request[p]
      BY <1>1 DEF BulkRequest
    <3>2. s \in exempt'
      BY <1>1, <2>8, <3>1 DEF Abort
    <3> QED
      BY <3>2
  <2> QED
    BY <1>5, <2>1, <2>2, <2>3, <2>4, <2>5, <2>6, <2>7, <2>8 DEF Act, Taking
<1> QED
  BY <1>3, <1>4, <1>5 DEF Next

\* A row becomes an absence by a bulk call that has still to check it, by a sport call that
\* checks it at once, or in a way that exempts the student.
LEMMA NewAbsence ==
    ASSUME RowsInv, RecordedInv, [Next]_vars, NEW i \in Ids, Taken(i)',
           rows'[i].status = "ABSENT", ~(Taken(i) /\ rows[i].status = "ABSENT"),
           rows'[i].student \notin exempt'
    PROVE  \/ \E p \in Takers :
                /\ request'[p] # Null /\ request'[p].step \in {"find", "write", "list"}
                /\ rows'[i].student \in request'[p].listed /\ request'[p].day = rows'[i].day
           \/ \E p \in Requests : Checking(p, i)' /\ checks'[p][i].step = "count"
<1>1. TypeOK
  BY DEF RowsInv, TypeInv
<1>2. rows' # rows
  BY DEF Taken
<1>3. ASSUME NEW p \in Takers, WriteRow(p)
      PROVE  /\ request'[p] # Null /\ request'[p].step \in {"find", "write", "list"}
             /\ rows'[i].student \in request'[p].listed /\ request'[p].day = rows'[i].day
  <2>1. /\ p \in Requests /\ request[p] # Null /\ request[p].step = "write"
        /\ request[p] \in BulkRequest
        /\ request[p].student \in DOMAIN request[p].dto
        /\ request[p].found # Null =>
             request[p].found \in Found(request[p].student, Null, request[p].day)
    BY <1>1, <1>3, RequestKinds DEF Requests, RowsInv, TypeInv, CallOK, WriteRow, At
  <2>2. rows'[i].student = request[p].student /\ rows'[i].day = request[p].day
    <3>1. request[p].student \in Students /\ request[p].day \in Days
          /\ request[p].dto[request[p].student] \in Said
      <4>1. PICK dto \in Dtos \cup {NoDto} : dto = request[p].dto
        BY <2>1 DEF BulkRequest
      <4> QED
        BY <2>1, <4>1, DtoType DEF BulkRequest
    <3> DEFINE row == [student |-> request[p].student, group |-> Null, day |-> request[p].day,
                       status |-> request[p].dto[request[p].student]]
    <3>2. \/ /\ request[p].found # Null
             /\ Write([rows EXCEPT ![request[p].found].status = row.status])
          \/ /\ request[p].found = Null
             /\ \E j \in Ids : ~Taken(j) /\ Write([rows EXCEPT ![j] = row])
      BY <1>3 DEF WriteRow
    <3>3. row \in Row /\ row.status \in AttendanceStatus /\ row.student = request[p].student
            /\ row.day = request[p].day
      BY <3>1 DEF Row, Said, AttendanceStatus
    <3> HIDE DEF row
    <3>4. CASE request[p].found # Null
      <4>1. PICK f \in Ids, status \in AttendanceStatus :
              f = request[p].found /\ Taken(f) /\ status = row.status
              /\ rows[f].student = request[p].student /\ rows[f].day = request[p].day
        BY <2>1, <3>3, <3>4 DEF Found
      <4> DEFINE table == [rows EXCEPT ![f].status = status]
      <4>2. /\ table[f].student = rows[f].student /\ table[f].day = rows[f].day
            /\ \A j \in Ids : j # f => table[j] = rows[j]
        BY <1>1, <4>1, StatusRows
      <4>3. rows' = table
        BY <3>2, <3>4, <4>1 DEF Write
      <4> HIDE DEF table
      <4>4. i = f
        BY <4>2, <4>3 DEF Taken
      <4> QED
        BY <4>1, <4>2, <4>3, <4>4
    <3>5. CASE request[p].found = Null
      <4>1. PICK j \in Ids : ~Taken(j) /\ Write([rows EXCEPT ![j] = row])
        BY <3>2, <3>5
      <4> DEFINE table == [rows EXCEPT ![j] = row]
      <4>2. table[j] = row /\ \A k \in Ids : k # j => table[k] = rows[k]
        BY <1>1, <3>3, <4>1, NewRows
      <4>3. rows' = table
        BY <4>1 DEF Write
      <4> HIDE DEF table
      <4>4. i = j
        BY <4>2, <4>3 DEF Taken
      <4> QED
        BY <3>3, <4>2, <4>3, <4>4
    <3> QED
      BY <3>4, <3>5
  <2>3. request[p].student \in request[p].listed
    BY <2>1 DEF RecordedInv
  <2> QED
    BY <1>3, <2>2, <2>3, BulkStep
<1>4. ASSUME NEW p \in Coaches, SportUpsert(p)
      PROVE  Checking(p, i)' /\ checks'[p][i].step = "count"
  <2>1. p \in Requests
    BY DEF Requests
  <2>2. request[p].dto \in Dtos /\ request[p].group \in Groups /\ request[p].day \in Days
    BY <1>1, <1>4, <2>1, RequestKinds DEF SportUpsert, At
  <2>3. PICK f \in Upserted(request[p]) :
          /\ Write(Upsert(request[p], f))
          /\ StartChecks(p, Upsert(request[p], f),
               {k \in Written(request[p], f) : Upsert(request[p], f)[k].status = "ABSENT"})
    BY <1>4 DEF SportUpsert
  <2>4. /\ Written(request[p], f) \subseteq Ids
        /\ \A k \in Ids : k \notin Written(request[p], f) => Upsert(request[p], f)[k] = rows[k]
    BY <1>1, <2>2, UpsertRows
  <2>5. rows' = Upsert(request[p], f)
    BY <2>3 DEF Write
  <2> DEFINE S == {k \in Written(request[p], f) : rows'[k].status = "ABSENT"}
  <2>6. i \in Written(request[p], f)
    BY <2>4, <2>5 DEF Taken
  <2>7. i \in S /\ S \in SUBSET Ids /\ StartChecks(p, rows', S)
    BY <2>3, <2>4, <2>5, <2>6
  <2> HIDE DEF S
  <2>8. checks'[p][i] = [step |-> "count", left |-> {}] /\ checks'[p][i] # Null
    BY <2>1, <2>7, StartType DEF RowsInv
  <2> QED
    BY <2>8 DEF Checking
<1>5. ASSUME NEW p \in Editors, Editing(p) PROVE FALSE
  <2>1. ASSUME NEW j \in Ids, NEW status \in AttendanceStatus, Taken(j),
               rows' = [rows EXCEPT ![j].status = status]
        PROVE  i = j /\ status = "ABSENT" /\ rows'[i].student = rows[i].student
    <3> DEFINE table == [rows EXCEPT ![j].status = status]
    <3>1. /\ table[j].student = rows[j].student /\ table[j].status = status
          /\ \A k \in Ids : k # j => table[k] = rows[k]
      BY <1>1, <2>1, StatusRows
    <3>2. rows' = table
      BY <2>1
    <3> HIDE DEF table
    <3> QED
      BY <3>1, <3>2 DEF Taken
  <2>2. ASSUME NEW j \in Ids, NEW status \in Said, Update(p, j, status) PROVE FALSE
    <3>1. status \in AttendanceStatus /\ Taken(j) /\ rows' = [rows EXCEPT ![j].status = status]
      BY <2>2 DEF Update, Write, Said, AttendanceStatus
    <3>2. i = j /\ status = "ABSENT" /\ rows'[i].student = rows[i].student
      BY <2>1, <3>1
    <3> QED
      BY <2>2, <3>2 DEF Update, Unaccounted
  <2>3. ASSUME NEW j \in Ids, RemoveJustification(p, j) PROVE FALSE
    <3>1. Taken(j) /\ rows' = [rows EXCEPT ![j].status = "ABSENT"]
      BY <2>3 DEF RemoveJustification, Write, RowsInv
    <3>2. i = j /\ rows'[i].student = rows[i].student
      BY <2>1, <3>1 DEF AttendanceStatus
    <3> QED
      BY <2>3, <3>2 DEF RemoveJustification, Unaccounted
  <2>4. ASSUME Justify(p) PROVE FALSE
    <3>1. PICK j : j = request[p].row
      OBVIOUS
    <3>2. p \in Requests /\ request[p] # Null /\ request[p].step = "justify"
      BY <2>4 DEF Justify, At, Requests
    <3>3. j \in Ids /\ Taken(j)
      BY <1>1, <3>1, <3>2, RequestKinds DEF RowsInv, TypeInv, CallOK, JustifyRequest
    <3>4. rows' = [rows EXCEPT ![j].status = "JUSTIFIED"]
      BY <2>4, <3>1 DEF Justify, Write
    <3> QED
      BY <2>1, <3>3, <3>4 DEF AttendanceStatus
  <2>5. ASSUME NEW j \in Ids, JustifyBegin(p, j) PROVE FALSE
    BY <1>2, <2>5 DEF JustifyBegin, tables
  <2> QED
    BY <1>5, <2>2, <2>3, <2>4, <2>5 DEF Editing
<1>6. ASSUME NEW p \in Requests, CheckStep(p) \/ Mark(p) \/ Abort(p) PROVE rows' = rows
  BY <1>6 DEF CheckStep, Count, FindRecord, CreateRecord, CheckFails, Mark, Abort, tables
<1>7. ASSUME NEW p \in Takers, Taking(p), ~WriteRow(p) PROVE rows' = rows
  BY <1>7 DEF Taking, BulkBegin, FindRow, ListAbsent, tables
<1>8. ASSUME NEW p \in Coaches, Coaching(p), ~SportUpsert(p) PROVE rows' = rows
  BY <1>8 DEF Coaching, SportBegin, SportDone, tables
<1>9. CASE UNCHANGED vars \/ \E value \in Settings : UpdateThresholds(value)
  BY <1>2, <1>9 DEF vars, tables, UpdateThresholds
<1>10. ASSUME NEW p \in Requests, Act(p)
       PROVE  (p \in Takers /\ WriteRow(p)) \/ (p \in Coaches /\ SportUpsert(p))
  BY <1>2, <1>5, <1>6, <1>7, <1>8, <1>10 DEF Act
<1> QED
  BY <1>3, <1>4, <1>9, <1>10 DEF Next

\* An absence is settled only once it is being checked.
LEMMA SettledChange ==
    ASSUME RowsInv, RecordedInv, [Next]_vars, NEW s \in Students, s \notin exempt',
           NEW i \in Settled(s)', i \notin Settled(s)
    PROVE  /\ i \in Ids /\ rows'[i].student = s
           /\ \E p \in Requests : Checking(p, i)' /\ checks'[p][i].step = "count"
<1>1. i \in Ids /\ Taken(i)' /\ rows'[i].student = s /\ rows'[i].status = "ABSENT"
  BY DEF Settled
<1>2. ~ \E p \in Takers :
          /\ request'[p] # Null /\ request'[p].step \in {"find", "write", "list"}
          /\ s \in request'[p].listed /\ request'[p].day = rows'[i].day
  BY DEF Settled, Covered
<1>3. CASE ~(Taken(i) /\ rows[i].status = "ABSENT")
  BY <1>1, <1>2, <1>3, NewAbsence
<1>4. CASE Taken(i) /\ rows[i].status = "ABSENT"
  <2>1. rows[i].student = s /\ rows'[i].day = rows[i].day
    BY <1>1, <1>4, NextType DEF RowsStay
  <2>2. PICK d \in Days : d = rows[i].day
    BY <1>1, <1>4 DEF RowsInv, TypeInv, TypeOK, Taken, Row
  <2>3. PICK p \in Takers : Covered(p, s, d)
    BY <1>1, <1>4, <2>1, <2>2 DEF Settled
  <2>4. ListAbsent(p) /\ request[p].day = d
    <3>1. ~ Covered(p, s, d)'
      BY <1>2, <2>1, <2>2 DEF Covered
    <3> QED
      BY <2>3, <3>1, CoveredChange
  <2>5. p \in Requests
    BY DEF Requests
  <2> DEFINE S == AbsentOn(d)
  <2>6. S \in SUBSET Ids /\ i \in S /\ StartChecks(p, rows, S)
    BY <1>1, <1>4, <2>2, <2>4 DEF ListAbsent, AbsentOn
  <2> HIDE DEF S
  <2>7. checks'[p][i] = [step |-> "count", left |-> {}] /\ checks'[p][i] # Null
    BY <1>1, <2>5, <2>6, StartType DEF RowsInv
  <2> QED
    BY <1>1, <2>5, <2>7 DEF Checking
<1> QED
  BY <1>3, <1>4

LEMMA CheckKept ==
    ASSUME RowsInv, [Next]_vars, NEW p \in Requests, NEW i \in Ids, Checking(p, i),
           rows[i].student \notin exempt'
    PROVE  checks'[p][i] = checks[p][i] \/ Count(p, i) \/ FindRecord(p, i) \/ CreateRecord(p, i)
<1>1. checks \in [Requests -> [Ids -> CheckRun \cup {Null}]]
  BY DEF RowsInv, TypeInv, TypeOK
<1>2. CASE UNCHANGED vars \/ \E value \in Settings : UpdateThresholds(value)
  BY <1>2 DEF vars, calls, UpdateThresholds
<1>3. CASE \E q \in Requests : q # p /\ Act(q)
  BY <1>3, OtherCalls
<1>4. CASE Act(p)
  <2>1. CASE CheckStep(p)
    <3>1. PICK j \in Ids :
            Count(p, j) \/ FindRecord(p, j) \/ CreateRecord(p, j) \/ CheckFails(p, j)
      BY <2>1 DEF CheckStep
    <3>2. PICK c : checks' = [checks EXCEPT ![p][j] = c]
      BY <3>1 DEF Count, FindRecord, CreateRecord, CheckFails, Check
    <3>3. i # j => checks'[p][i] = checks[p][i]
      BY <1>1, <3>2
    <3>4. ~CheckFails(p, i)
      BY DEF CheckFails
    <3> QED
      BY <3>1, <3>3, <3>4
  <2>2. CASE Abort(p)
    <3>1. exempt' = exempt
            \cup (IF request[p] # Null /\ "listed" \in DOMAIN request[p]
                  THEN request[p].listed ELSE {})
            \cup {rows[k].student : k \in {j \in Ids : Checking(p, j)}}
      BY <2>2 DEF Abort
    <3>2. rows[i].student \in exempt'
      BY <3>1
    <3> QED
      BY <3>2
  <2>3. CASE p \in Takers /\ ListAbsent(p)
    BY <2>3 DEF ListAbsent, At, RowsInv, TypeInv, CallOK, Checking, NoChecks
  <2>4. CASE p \in Coaches /\ SportUpsert(p)
    BY <2>4 DEF SportUpsert, At, RowsInv, TypeInv, CallOK, Checking, NoChecks
  <2>5. CASE p \in Takers /\ Taking(p) /\ ~ListAbsent(p)
    BY <2>5 DEF Taking, BulkBegin, FindRow, WriteRow
  <2>6. CASE p \in Coaches /\ Coaching(p) /\ ~SportUpsert(p)
    BY <2>6 DEF Coaching, SportBegin, SportDone
  <2>7. CASE Editing(p) \/ Mark(p)
    BY <2>7 DEF Editing, Update, JustifyBegin, Justify, RemoveJustification, Mark
  <2> QED
    BY <1>4, <2>1, <2>2, <2>3, <2>4, <2>5, <2>6, <2>7 DEF Act
<1> QED
  BY <1>2, <1>3, <1>4 DEF Next

\* A count is the only step after which a student is exempt no longer.
LEMMA ExemptChange ==
    ASSUME RowsInv, [Next]_vars, NEW s \in exempt, s \notin exempt'
    PROVE  \E p \in Requests, i \in Ids : Count(p, i) /\ rows[i].student = s
<1>1. ASSUME NEW p \in Requests, Taking(p) \/ Coaching(p) PROVE exempt' = exempt
  BY <1>1 DEF Taking, Coaching, BulkBegin, FindRow, WriteRow, ListAbsent, SportBegin,
    SportUpsert, SportDone, ghosts
<1>2. ASSUME NEW p \in Requests, Editing(p) PROVE exempt \subseteq exempt'
  BY <1>2 DEF Editing, Update, JustifyBegin, Justify, RemoveJustification, Unaccounted
<1>3. ASSUME NEW p \in Requests, NEW i \in Ids,
             FindRecord(p, i) \/ CreateRecord(p, i) \/ CheckFails(p, i) \/ Mark(p) \/ Abort(p)
      PROVE  exempt \subseteq exempt'
  BY <1>3 DEF FindRecord, CreateRecord, CheckFails, Mark, Abort, ghosts
<1>4. ASSUME NEW p \in Requests, Mark(p) \/ Abort(p) PROVE exempt \subseteq exempt'
  BY <1>4 DEF Mark, Abort, ghosts
<1>5. ASSUME NEW p \in Requests, NEW i \in Ids, Count(p, i) PROVE rows[i].student = s
  BY <1>5 DEF Count
<1>6. ASSUME NEW value \in Settings, UpdateThresholds(value) PROVE exempt \subseteq exempt'
  BY <1>6 DEF UpdateThresholds, RowsInv, TypeInv, TypeOK
<1>7. CASE UNCHANGED vars
  BY <1>7 DEF vars, ghosts
<1> QED
  BY <1>1, <1>2, <1>3, <1>4, <1>5, <1>6, <1>7 DEF Next, Act, CheckStep, Requests

LEMMA ThresholdsChange ==
    ASSUME RowsInv, [Next]_vars
    PROVE  thresholds' = thresholds \/ exempt' = Students
<1>1. ASSUME NEW p \in Requests, Taking(p) \/ Coaching(p) PROVE thresholds' = thresholds
  BY <1>1 DEF Taking, Coaching, BulkBegin, FindRow, WriteRow, ListAbsent, SportBegin,
    SportUpsert, SportDone, tables
<1>2. ASSUME NEW p \in Requests, Editing(p) PROVE thresholds' = thresholds
  BY <1>2 DEF Editing, Update, JustifyBegin, Justify, RemoveJustification, tables
<1>3. ASSUME NEW p \in Requests, CheckStep(p) \/ Mark(p) \/ Abort(p)
      PROVE  thresholds' = thresholds
  BY <1>3 DEF CheckStep, Count, FindRecord, CreateRecord, CheckFails, Mark, Abort, tables
<1>4. ASSUME NEW value \in Settings, UpdateThresholds(value) PROVE exempt' = Students
  BY <1>4 DEF UpdateThresholds
<1>5. CASE UNCHANGED vars
  BY <1>5 DEF vars, tables
<1> QED
  BY <1>1, <1>2, <1>3, <1>4, <1>5 DEF Next, Act, Requests

\* Records are never deleted.
LEMMA RecordsStay ==
    ASSUME RowsInv, [Next]_vars, NEW s \in Students, NEW t \in Thresholds, Recorded(s, t)
    PROVE  absenceRecords'[s][t] > 0
<1>1. absenceRecords[s][t] \in Nat
  BY DEF RowsInv, TypeInv, TypeOK
<1>2. CASE \E p \in Requests, i \in Ids : CreateRecord(p, i)
  BY <1>1, <1>2, CreateRecords DEF Recorded
<1>3. CASE ~ \E p \in Requests, i \in Ids : CreateRecord(p, i)
  BY <1>3, RecordsChange DEF Recorded
<1> QED
  BY <1>2, <1>3

LEMMA AbsencesBound ==
    ASSUME NEW table, NEW s,
           NEW S \in SUBSET {i \in Ids : /\ table[i] # Null /\ table[i].student = s
                                         /\ table[i].status = "ABSENT"}
    PROVE  /\ IsFiniteSet(S) /\ Cardinality(S) \in Nat
           /\ Cardinality(S) <= Absences(table, s)
<1> DEFINE absent == {i \in Ids : /\ table[i] # Null /\ table[i].student = s
                                  /\ table[i].status = "ABSENT"}
<1>1. IsFiniteSet(absent) /\ S \subseteq absent
  BY FS_Subset
<1>2. Absences(table, s) = Cardinality(absent)
  BY DEF Absences
<1> HIDE DEF absent
<1>3. /\ IsFiniteSet(S) /\ Cardinality(S) \in Nat
      /\ Cardinality(S) <= Cardinality(absent)
  BY <1>1, FS_Subset, FS_CardinalityType
<1> QED
  BY <1>2, <1>3

\* A check that has something to look for keeps looking, or has recorded it.
LEMMA DueChange ==
    ASSUME RowsInv, [Next]_vars, NEW s \in Students, s \notin exempt',
           NEW t \in Thresholds, Due(s, t),
           ~ \E p \in Requests, i \in Ids : Count(p, i) /\ rows[i].student = s
    PROVE  absenceRecords'[s][t] > 0 \/ Due(s, t)'
<1>1. PICK p \in Requests, i \in Ids :
        /\ Checking(p, i) /\ rows[i].student = s
        /\ checks[p][i].step = "count" \/ t \in checks[p][i].left
  BY DEF Due
<1>2. rows'[i].student = s /\ rows'[i] # Null
  BY <1>1, NextType DEF RowsInv, TypeInv, CallOK, RowsStay, Taken
<1>3. /\ checks \in [Requests -> [Ids -> CheckRun \cup {Null}]]
      /\ checks[p][i] \in CheckRun /\ checks[p][i] # Null
      /\ checks[p][i].left \in SUBSET Thresholds
  BY <1>1 DEF RowsInv, TypeInv, TypeOK, Checking, CheckRun
<1>4. CASE checks'[p][i] = checks[p][i]
  BY <1>1, <1>2, <1>4 DEF Due, Checking
<1>5. PICK l : l = Lowest(checks[p][i].left)
  OBVIOUS
<1>6. ASSUME t \in checks[p][i].left, t # l,
             Check(p, i, Searching(checks[p][i].left \ {l}))
      PROVE  Due(s, t)'
  <2>1. Searching(checks[p][i].left \ {l}) = [step |-> "find", left |-> checks[p][i].left \ {l}]
    BY <1>6 DEF Searching
  <2>2. checks'[p][i] = [step |-> "find", left |-> checks[p][i].left \ {l}]
    BY <1>3, <1>6, <2>1 DEF Check
  <2>3. [step |-> "find", left |-> checks[p][i].left \ {l}] \in CheckRun
    BY <1>3 DEF CheckRun
  <2>4. t \in [step |-> "find", left |-> checks[p][i].left \ {l}].left
    BY <1>6
  <2>5. checks'[p][i] # Null /\ t \in checks'[p][i].left
    BY <2>2, <2>3, <2>4
  <2> QED
    BY <1>2, <2>5 DEF Due, Checking
<1>7. CASE FindRecord(p, i)
  <2>1. checks[p][i].step = "find" /\ t \in checks[p][i].left
    BY <1>1, <1>7 DEF FindRecord
  <2>2. CASE Recorded(s, l)
    <3>1. Check(p, i, Searching(checks[p][i].left \ {l}))
      BY <1>1, <1>5, <1>7, <2>2 DEF FindRecord
    <3>2. t = l => absenceRecords'[s][t] > 0
      BY <2>2, RecordsStay
    <3> QED
      BY <1>6, <2>1, <3>1, <3>2
  <2>3. CASE ~Recorded(s, l)
    <3>1. Check(p, i, [step |-> "create", left |-> checks[p][i].left])
      BY <1>1, <1>5, <1>7, <2>3 DEF FindRecord
    <3>2. checks'[p][i] = [step |-> "create", left |-> checks[p][i].left]
      BY <1>3, <3>1 DEF Check
    <3>3. [step |-> "create", left |-> checks[p][i].left] \in CheckRun
      BY <1>3 DEF CheckRun
    <3>4. checks'[p][i] # Null /\ t \in checks'[p][i].left
      BY <2>1, <3>2, <3>3
    <3> QED
      BY <1>2, <3>4 DEF Due, Checking
  <2> QED
    BY <2>2, <2>3
<1>8. CASE CreateRecord(p, i)
  <2>1. checks[p][i].step = "create" /\ t \in checks[p][i].left
    BY <1>1, <1>8 DEF CreateRecord
  <2>2. Check(p, i, Searching(checks[p][i].left \ {l}))
    BY <1>5, <1>8 DEF CreateRecord
  <2>3. ASSUME t = l PROVE absenceRecords'[s][t] > 0
    <3>1. absenceRecords'[s][t] = absenceRecords[s][t] + 1
      BY <1>1, <1>5, <1>8, <2>3, CreateRecords
    <3>2. absenceRecords[s][t] \in Nat
      BY DEF RowsInv, TypeInv, TypeOK
    <3> QED
      BY <3>1, <3>2
  <2> QED
    BY <1>6, <2>1, <2>2, <2>3
<1> QED
  BY <1>1, <1>4, <1>7, <1>8, CheckKept

LEMMA NextRecorded == RowsInv /\ RecordedInv /\ [Next]_vars => RecordedInv'
<1> SUFFICES ASSUME RowsInv, RecordedInv, [Next]_vars PROVE RecordedInv'
  OBVIOUS
<1>1. ASSUME NEW s \in Students, s \notin exempt', NEW t \in thresholds'
      PROVE  Cardinality(Settled(s)') < t \/ absenceRecords'[s][t] > 0 \/ Due(s, t)'
  <2>1. /\ RowsInv' /\ RowsStay
        /\ thresholds' = thresholds /\ t \in thresholds
        /\ t \in Thresholds /\ t \in Nat
    BY <1>1, NextType, ThresholdsChange DEF RowsInv, TypeInv, TypeOK, Thresholds
  <2>2. /\ IsFiniteSet(Settled(s)) /\ Cardinality(Settled(s)) \in Nat
        /\ IsFiniteSet(Settled(s)') /\ Cardinality(Settled(s)') \in Nat
        /\ Cardinality(Settled(s)') <= Absences(rows', s)
    BY AbsencesBound DEF Settled, Taken
  <2>3. CASE \E p \in Requests, i \in Ids : Count(p, i) /\ rows[i].student = s
    <3>1. PICK p \in Requests, i \in Ids : Count(p, i) /\ rows[i].student = s
      BY <2>3
    <3> DEFINE n == Absences(rows, s)
               left == Reached(thresholds, n)
    <3>2. /\ Checking(p, i) /\ rows' = rows
          /\ Check(p, i, Searching(left))
      BY <3>1 DEF Count, tables
    <3>3. n \in Nat
      BY AbsencesType
    <3> HIDE DEF n
    <3>4. CASE n >= t
      <4>1. t \in left /\ left \in SUBSET Thresholds
        BY <2>1, <3>4 DEF Reached, RowsInv, TypeInv, TypeOK, Thresholds
      <4> HIDE DEF left
      <4>2. [step |-> "find", left |-> left] \in CheckRun
        BY <4>1 DEF CheckRun
      <4>3. checks'[p][i] = [step |-> "find", left |-> left]
        BY <3>2, <4>1 DEF Check, Searching, RowsInv, TypeInv, TypeOK
      <4>4. checks'[p][i] # Null /\ t \in checks'[p][i].left
        BY <4>1, <4>2, <4>3
      <4> QED
        BY <3>1, <3>2, <4>4 DEF Due, Checking
    <3>5. CASE ~(n >= t)
      <4>1. Cardinality(Settled(s)') <= n
        BY <2>2, <3>2 DEF n
      <4> QED
        BY <2>1, <2>2, <3>3, <3>5, <4>1
    <3> QED
      BY <3>4, <3>5
  <2>4. CASE ~ \E p \in Requests, i \in Ids : Count(p, i) /\ rows[i].student = s
    <3>1. s \notin exempt
      BY <1>1, <2>4, ExemptChange
    <3>2. CASE Cardinality(Settled(s)) < t
      <4>1. CASE Settled(s)' \subseteq Settled(s)
        <5>1. Cardinality(Settled(s)') <= Cardinality(Settled(s))
          BY <2>2, <4>1, FS_Subset
        <5> QED
          BY <2>1, <2>2, <3>2, <5>1
      <4>2. CASE ~(Settled(s)' \subseteq Settled(s))
        <5>1. PICK i \in Settled(s)' : i \notin Settled(s)
          BY <4>2
        <5>2. /\ i \in Ids /\ rows'[i].student = s
              /\ \E p \in Requests : Checking(p, i)' /\ checks'[p][i].step = "count"
          BY <1>1, <5>1, SettledChange
        <5> QED
          BY <5>2 DEF Due
      <4> QED
        BY <4>1, <4>2
    <3>3. CASE Recorded(s, t)
      BY <2>1, <3>3, RecordsStay
    <3>4. CASE Due(s, t)
      BY <1>1, <2>1, <2>4, <3>4, DueChange
    <3> QED
      BY <2>1, <3>1, <3>2, <3>3, <3>4 DEF RecordedInv
  <2> QED
    BY <2>3, <2>4
<1> QED
  BY <1>1, NextListed DEF RecordedInv, Recorded

\* Whoever reaches a threshold by bulk calls has the record once they are answered: every
\* absence is then settled, and no check is due.
THEOREM ReachedIsRecorded == ASSUME PositiveThresholds PROVE Spec => []AbsencesRecorded
<1>1. Init => RecordedInv
  <2> SUFFICES ASSUME Init PROVE RecordedInv
    OBVIOUS
  <2>1. ASSUME NEW s \in Students, NEW t \in thresholds PROVE Cardinality(Settled(s)) < t
    <3>1. Settled(s) = {}
      BY DEF Settled, Init, Taken
    <3>2. t \in Nat /\ t # 0
      BY DEF Init, PositiveThresholds
    <3> QED
      BY <3>1, <3>2, FS_EmptySet
  <2> QED
    BY <2>1 DEF RecordedInv, Init, Requests
<1>2. RowsInv /\ RecordedInv => AbsencesRecorded
  <2> SUFFICES ASSUME RowsInv, RecordedInv, \A p \in Takers \cup Coaches : Idle(p),
                      NEW s \in Students \ exempt, NEW t \in thresholds, Absences(rows, s) >= t
               PROVE  Recorded(s, t)
    BY DEF AbsencesRecorded
  <2>1. Settled(s) = {i \in Ids : rows[i] # Null /\ rows[i].student = s /\ rows[i].status = "ABSENT"}
    BY DEF Settled, Covered, Idle, Taken
  <2>2. Cardinality(Settled(s)) = Absences(rows, s)
    BY <2>1 DEF Absences
  <2>3. ~Due(s, t)
    BY DEF Due, Checking, Idle, NoChecks, RowsInv, TypeInv, CallOK
  <2>4. t \in Nat /\ Absences(rows, s) \in Nat
    BY AbsencesType DEF RowsInv, TypeInv, TypeOK
  <2> QED
    BY <2>2, <2>3, <2>4 DEF RecordedInv
<1> QED
  BY <1>1, <1>2, TypeInvariant, NextRecorded, PTL DEF Spec

HIDE AttendanceAssumption

-----------------------------------------------------------------------------
(* The backfill *)

\* The loops that come after the seeds, after the courses, and so on.
BAfterLevels == {"levelGrades", "courses", "scoped", "indicators", "settings", "done"}
BAfterGrades == {"courses", "scoped", "indicators", "settings", "done"}
BAfterCourses == {"scoped", "indicators", "settings", "done"}
BAfterScoped == {"indicators", "settings", "done"}

\* The rows of old, and the tables, have their types.
BTypes ==
    /\ course \in [Courses -> B!LevelGrade]
    /\ scoped \in [Scoped -> B!EducationLevel \cup {Null}]
    /\ indicator \in [Indicators -> [courses : SUBSET Courses, grade : Grades \cup {Null}]]
    /\ educationLevels \subseteq B!EducationLevel
    /\ levelGrades \subseteq B!LevelGrade
    /\ courseGrade \in [Courses -> levelGrades \cup {Null}]
    /\ scopedLevel \in [Scoped -> educationLevels \cup {Null}]
    /\ indicatorGrade \in [Indicators -> levelGrades \cup {Null}]
    /\ migrated \subseteq Institutions
    /\ step \in BAfterLevels \cup {"off", "educationLevels", "repair", "repaired"}
    /\ eduLevelMap \subseteq educationLevels
    /\ lgMap \subseteq levelGrades
    /\ step \in BAfterScoped =>
         lgBySlugAndGrade \in [{B!SlugAndGrade(g) : g \in levelGrades} -> levelGrades]

\* What each loop has done, but for what it has still to go through.
BLoops ==
    /\ step = "educationLevels" => B!EducationLevel \ todo \subseteq eduLevelMap
    /\ step \in BAfterLevels => B!EducationLevel \subseteq eduLevelMap
    /\ step = "levelGrades" => \A c \in Courses \ todo : course[c] \in lgMap
    /\ step \in BAfterGrades => \A c \in Courses : course[c] \in lgMap
    /\ step = "courses" => \A c \in Courses \ todo : courseGrade[c] = course[c]
    /\ step \in BAfterCourses => \A c \in Courses : courseGrade[c] = course[c]
    /\ step = "scoped" => \A r \in Scoped \ todo : scopedLevel[r] = scoped[r]
    /\ step \in BAfterScoped => \A r \in Scoped : scopedLevel[r] = scoped[r]
    /\ step = "indicators" =>
         \A i \in Indicators \ todo : indicator[i].courses # {} => indicatorGrade[i] # Null
    /\ step \in {"settings", "done"} =>
         \A i \in Indicators : indicator[i].courses # {} => indicatorGrade[i] # Null
    /\ step = "settings" => Institutions \ todo \subseteq migrated
    /\ step = "done" => Institutions \subseteq migrated
    /\ step = "repair" => B!Catalogued(educationLevels) \ todo \subseteq levelGrades
    /\ step = "repaired" => B!Catalogued(educationLevels) \subseteq levelGrades

\* What is filled in is right, wherever earlier runs stopped; a grade has its level.
BRight ==
    /\ \A c \in Courses : courseGrade[c] \in {Null, course[c]}
    /\ \A r \in Scoped : scopedLevel[r] \in {Null, scoped[r]}
    /\ \A i \in Indicators : indicatorGrade[i] # Null => indicator[i].courses # {}
    /\ \A g \in levelGrades : B!LevelOf(g) \in educationLevels
    /\ step = "repair" => todo \subseteq B!Catalogued(educationLevels)

\* What every step of the scripts keeps.
BInv == BTypes /\ BLoops /\ BRight

\* It is enough for the types.
LEMMA BTyped == BInv => B!TypeOK
BY DEF BInv, BTypes, B!TypeOK, BAfterLevels

\* It holds at first.
LEMMA BInitial == B!Init => BInv
<1> SUFFICES ASSUME B!Init PROVE BInv
  OBVIOUS
<1>1. PICK some \in SUBSET Institutions :
        /\ educationLevels = some \X Levels
        /\ levelGrades = B!Catalogued(some \X Levels)
        /\ migrated = some
  BY DEF B!Init
<1>2. /\ course \in [Courses -> B!LevelGrade] /\ scoped \in [Scoped -> B!EducationLevel \cup {Null}]
      /\ courseGrade = [c \in Courses |-> Null] /\ scopedLevel = [r \in Scoped |-> Null]
      /\ indicatorGrade = [i \in Indicators |-> Null]
      /\ step = "off" /\ todo = {} /\ eduLevelMap = {} /\ lgMap = {}
  BY DEF B!Init
<1>3. indicator \in [Indicators -> [courses : SUBSET Courses, grade : Grades \cup {Null}]]
  <2>1. PICK i \in Institutions :
          indicator \in [Indicators -> [courses : SUBSET {c \in Courses : B!InstitutionOf(course[c]) = i},
                                        grade : Grades \cup {Null}]]
    BY DEF B!Init
  <2> QED BY <2>1
<1>4. educationLevels \subseteq B!EducationLevel /\ levelGrades \subseteq B!LevelGrade
      /\ \A g \in levelGrades : B!LevelOf(g) \in educationLevels
  BY <1>1 DEF B!EducationLevel, B!Catalogued
<1>5. BTypes
  BY <1>1, <1>2, <1>3, <1>4 DEF BTypes, BAfterScoped
<1>6. BLoops
  BY <1>2 DEF BLoops, BAfterLevels, BAfterGrades, BAfterCourses, BAfterScoped
<1> QED BY <1>2, <1>4, <1>5, <1>6 DEF BInv, BRight

\* An indicator that no course teaches has no candidate; one that is taught has, when
\* the grades of its courses are listed.
LEMMA BCandidates ==
    ASSUME BTypes, NEW i \in Indicators, NEW listed
    PROVE  /\ indicator[i].courses = {} => B!Candidates(i, listed) = {}
           /\ B!Candidates(i, listed) \subseteq listed
           /\ indicator[i].courses # {} /\ (\A c \in Courses : B!SlugAndGrade(course[c]) \in listed) =>
                B!Candidates(i, listed) # {}
<1> DEFINE taught == {B!SlugAndGrade(course[c]) : c \in indicator[i].courses}
           direct == {k \in taught : k[2] = indicator[i].grade} \cap listed
           sibling == {<<k[1], indicator[i].grade>> : k \in taught} \cap listed
<1>1. B!Candidates(i, listed) = IF direct # {} THEN direct ELSE IF taught \cap listed # {} THEN taught \cap listed
                               ELSE sibling
  BY DEF B!Candidates
<1>2. direct \subseteq listed /\ sibling \subseteq listed
  OBVIOUS
<1>3. ASSUME indicator[i].courses = {} PROVE direct = {} /\ taught = {} /\ sibling = {}
  BY <1>3
<1>4. ASSUME indicator[i].courses # {}, \A c \in Courses : B!SlugAndGrade(course[c]) \in listed
      PROVE  taught \cap listed # {}
  <2>1. PICK c \in indicator[i].courses : TRUE
    BY <1>4
  <2>2. c \in Courses
    BY <2>1 DEF BTypes
  <2>3. B!SlugAndGrade(course[c]) \in taught
    BY <2>1
  <2> QED BY <1>4, <2>2, <2>3
<1> HIDE DEF taught, direct, sibling
<1> QED BY <1>1, <1>2, <1>3, <1>4

\* Going on to the next loop keeps it: what was left to go through is done.
LEMMA BLooped ==
    ASSUME BInv, NEW this, NEW next, NEW set, B!Loop(this, next, set),
           <<this, next, set>> \in {<<"off", "educationLevels", B!EducationLevel>>,
             <<"educationLevels", "levelGrades", Courses>>, <<"levelGrades", "courses", Courses>>,
             <<"courses", "scoped", Scoped>>, <<"indicators", "settings", Institutions>>,
             <<"settings", "done", {}>>},
           UNCHANGED <<course, scoped, indicator, educationLevels, levelGrades, courseGrade, scopedLevel,
                       indicatorGrade, migrated, eduLevelMap, lgMap, lgBySlugAndGrade>>
    PROVE  BInv'
<1>1. step = this /\ todo = {} /\ step' = next /\ todo' = set
  BY DEF B!Loop
<1>2. BTypes'
  <2>1. step' \in BAfterScoped => step \in BAfterScoped
    BY <1>1 DEF BAfterScoped
  <2>2. step' \in BAfterLevels \cup {"off", "educationLevels", "repair", "repaired"}
    BY <1>1 DEF BAfterLevels
  <2> QED BY <2>1, <2>2 DEF BInv, BTypes
<1>3. BRight'
  BY <1>1 DEF BInv, BRight
<1>4. BLoops'
  BY <1>1 DEF BInv, BLoops, BAfterLevels, BAfterGrades, BAfterCourses, BAfterScoped
<1> QED BY <1>2, <1>3, <1>4 DEF BInv

\* Seeding a level,
LEMMA BLevel == ASSUME BInv, NEW e \in B!EducationLevel, B!SeedEducationLevel(e) PROVE BInv'
<1>1. /\ step = "educationLevels" /\ step' = step /\ todo' = todo \ {e}
      /\ educationLevels' = educationLevels \cup {e} /\ eduLevelMap' = eduLevelMap \cup {e}
      /\ UNCHANGED <<course, scoped, indicator, levelGrades, courseGrade, scopedLevel, indicatorGrade,
                     migrated, lgMap, lgBySlugAndGrade>>
  BY DEF B!SeedEducationLevel, B!Each, B!old, B!tables, B!memory
<1>2. BTypes'
  BY <1>1 DEF BInv, BTypes, BAfterScoped
<1>3. BRight'
  BY <1>1 DEF BInv, BRight
<1>4. BLoops'
  BY <1>1 DEF BInv, BLoops, BAfterLevels, BAfterGrades, BAfterCourses, BAfterScoped
<1> QED BY <1>2, <1>3, <1>4 DEF BInv

\* a grade,
LEMMA BGrade == ASSUME BInv, NEW c \in Courses, B!SeedLevelGrade(c) PROVE BInv'
<1>1. /\ step = "levelGrades" /\ step' = step /\ todo' = todo \ {c}
      /\ UNCHANGED <<course, scoped, indicator, educationLevels, courseGrade, scopedLevel, indicatorGrade,
                     migrated, eduLevelMap, lgBySlugAndGrade>>
  BY DEF B!SeedLevelGrade, B!Each, B!old, B!tables, B!memory
<1>2. B!LevelOf(course[c]) \in eduLevelMap
  BY <1>1 DEF BInv, BTypes, BLoops, BAfterLevels, B!LevelOf, B!LevelGrade, B!EducationLevel
<1>3. levelGrades' = levelGrades \cup {course[c]} /\ lgMap' = lgMap \cup {course[c]}
  BY <1>2 DEF B!SeedLevelGrade, B!Known
<1>4. BTypes'
  BY <1>1, <1>3 DEF BInv, BTypes, BAfterScoped
<1>5. BRight'
  BY <1>1, <1>2, <1>3 DEF BInv, BRight, BTypes
<1>6. BLoops'
  BY <1>1, <1>3 DEF BInv, BLoops, BAfterLevels, BAfterGrades, BAfterCourses, BAfterScoped
<1> QED BY <1>4, <1>5, <1>6 DEF BInv

\* pointing a course at its grade,
LEMMA BCourse == ASSUME BInv, NEW c \in Courses, B!BackfillCourse(c) PROVE BInv'
<1>1. /\ step = "courses" /\ step' = step /\ todo' = todo \ {c}
      /\ UNCHANGED <<course, scoped, indicator, educationLevels, levelGrades, scopedLevel, indicatorGrade,
                     migrated, eduLevelMap, lgMap, lgBySlugAndGrade>>
  BY DEF B!BackfillCourse, B!Each, B!old, B!tables, B!memory
<1>2. course[c] \in lgMap /\ course[c] \in levelGrades /\ courseGrade[c] \in {Null, course[c]}
  BY <1>1 DEF BInv, BTypes, BLoops, BRight, BAfterGrades
<1>3. courseGrade' = [courseGrade EXCEPT ![c] = course[c]]
  BY <1>2 DEF B!BackfillCourse, BInv, BTypes
<1>4. BTypes'
  BY <1>1, <1>2, <1>3 DEF BInv, BTypes, BAfterScoped
<1>5. BRight'
  BY <1>1, <1>3 DEF BInv, BRight, BTypes
<1>6. BLoops'
  BY <1>1, <1>3 DEF BInv, BLoops, BTypes, BAfterLevels, BAfterGrades, BAfterCourses, BAfterScoped
<1> QED BY <1>4, <1>5, <1>6 DEF BInv

\* a scoped row at its level,
LEMMA BScopedRow == ASSUME BInv, NEW r \in Scoped, B!BackfillScopedRow(r) PROVE BInv'
<1>1. /\ step = "scoped" /\ step' = step /\ todo' = todo \ {r}
      /\ UNCHANGED <<course, scoped, indicator, educationLevels, levelGrades, courseGrade, indicatorGrade,
                     migrated, eduLevelMap, lgMap, lgBySlugAndGrade>>
  BY DEF B!BackfillScopedRow, B!Each, B!old, B!tables, B!memory
<1>2. scoped[r] \in eduLevelMap \cup {Null} /\ scopedLevel[r] \in {Null, scoped[r]}
      /\ eduLevelMap \subseteq educationLevels
  BY <1>1 DEF BInv, BTypes, BLoops, BRight, BAfterLevels
<1>3. scopedLevel' = [scopedLevel EXCEPT ![r] = scoped[r]]
  <2>1. CASE scopedLevel[r] = Null /\ scoped[r] \in eduLevelMap
    BY <2>1 DEF B!BackfillScopedRow
  <2>2. CASE ~(scopedLevel[r] = Null /\ scoped[r] \in eduLevelMap)
    <3>1. scopedLevel' = scopedLevel
      BY <2>2 DEF B!BackfillScopedRow
    <3>2. scopedLevel[r] = scoped[r]
      BY <1>2, <2>2
    <3> QED BY <3>1, <3>2 DEF BInv, BTypes
  <2> QED BY <2>1, <2>2
<1>4. BTypes'
  BY <1>1, <1>2, <1>3 DEF BInv, BTypes, BAfterScoped
<1>5. BRight'
  BY <1>1, <1>3 DEF BInv, BRight, BTypes
<1>6. BLoops'
  BY <1>1, <1>3 DEF BInv, BLoops, BTypes, BAfterLevels, BAfterGrades, BAfterCourses, BAfterScoped
<1> QED BY <1>4, <1>5, <1>6 DEF BInv

\* making the map of grades,
LEMMA BIndicators == ASSUME BInv, B!BackfillIndicators PROVE BInv'
<1>1. /\ step = "scoped" /\ todo = {} /\ step' = "indicators" /\ todo' = Indicators
      /\ lgBySlugAndGrade' \in [{B!SlugAndGrade(g) : g \in levelGrades} -> levelGrades]
      /\ UNCHANGED <<course, scoped, indicator, educationLevels, levelGrades, courseGrade, scopedLevel,
                     indicatorGrade, migrated, eduLevelMap, lgMap>>
  BY DEF B!BackfillIndicators, B!Loop, B!old, B!tables, B!memory
<1>2. BTypes'
  BY <1>1 DEF BInv, BTypes, BAfterLevels
<1>3. BRight'
  BY <1>1 DEF BInv, BRight
<1>4. BLoops'
  BY <1>1 DEF BInv, BLoops, BAfterLevels, BAfterGrades, BAfterCourses, BAfterScoped
<1> QED BY <1>2, <1>3, <1>4 DEF BInv

\* an indicator at a grade,
LEMMA BIndicator == ASSUME BInv, NEW i \in Indicators, B!BackfillIndicator(i) PROVE BInv'
<1>1. /\ step = "indicators" /\ step' = step /\ todo' = todo \ {i}
      /\ UNCHANGED <<course, scoped, indicator, educationLevels, levelGrades, courseGrade, scopedLevel,
                     migrated, eduLevelMap, lgMap, lgBySlugAndGrade>>
  BY DEF B!BackfillIndicator, B!Each, B!old, B!tables, B!memory
<1>2. lgBySlugAndGrade \in [{B!SlugAndGrade(g) : g \in levelGrades} -> levelGrades]
  BY <1>1 DEF BInv, BTypes, BAfterScoped
<1>3. \A c \in Courses : B!SlugAndGrade(course[c]) \in DOMAIN lgBySlugAndGrade
  <2>1. \A c \in Courses : course[c] \in levelGrades
    BY <1>1 DEF BInv, BTypes, BLoops, BAfterGrades
  <2> QED BY <1>2, <2>1
<1>4. /\ indicator[i].courses = {} => B!Candidates(i, DOMAIN lgBySlugAndGrade) = {}
      /\ B!Candidates(i, DOMAIN lgBySlugAndGrade) \subseteq DOMAIN lgBySlugAndGrade
      /\ indicator[i].courses # {} => B!Candidates(i, DOMAIN lgBySlugAndGrade) # {}
  BY <1>3, BCandidates DEF BInv
<1>5. /\ indicatorGrade' \in [Indicators -> levelGrades \cup {Null}]
      /\ \A j \in Indicators : j # i => indicatorGrade'[j] = indicatorGrade[j]
      /\ indicatorGrade'[i] # Null <=> indicator[i].courses # {}
  <2>1. CASE indicatorGrade[i] # Null \/ B!Candidates(i, DOMAIN lgBySlugAndGrade) = {}
    <3>1. indicatorGrade' = indicatorGrade
      BY <2>1 DEF B!BackfillIndicator
    <3> QED BY <1>4, <2>1, <3>1 DEF BInv, BTypes, BRight
  <2>2. CASE ~(indicatorGrade[i] # Null \/ B!Candidates(i, DOMAIN lgBySlugAndGrade) = {})
    <3>1. PICK k \in B!Candidates(i, DOMAIN lgBySlugAndGrade) :
            indicatorGrade' = [indicatorGrade EXCEPT ![i] = lgBySlugAndGrade[k]]
      BY <2>2 DEF B!BackfillIndicator
    <3>2. lgBySlugAndGrade[k] \in levelGrades
      BY <1>2, <1>4
    <3>3. lgBySlugAndGrade[k] # Null
      BY <3>2, RecordsAssumption DEF BInv, BTypes
    <3> QED BY <1>4, <2>2, <3>1, <3>2, <3>3 DEF BInv, BTypes
  <2> QED BY <2>1, <2>2
<1>6. BTypes'
  BY <1>1, <1>5 DEF BInv, BTypes
<1>7. BRight'
  BY <1>1, <1>5 DEF BInv, BRight
<1>8. BLoops'
  BY <1>1, <1>5 DEF BInv, BLoops, BAfterLevels, BAfterGrades, BAfterCourses, BAfterScoped
<1> QED BY <1>6, <1>7, <1>8 DEF BInv

\* renewing the settings,
LEMMA BSetting == ASSUME BInv, NEW i \in Institutions, B!MigrateSetting(i) PROVE BInv'
<1>1. /\ step = "settings" /\ step' = step /\ todo' = todo \ {i} /\ migrated' = migrated \cup {i}
      /\ UNCHANGED <<course, scoped, indicator, educationLevels, levelGrades, courseGrade, scopedLevel,
                     indicatorGrade, eduLevelMap, lgMap, lgBySlugAndGrade>>
  BY DEF B!MigrateSetting, B!Each, B!old, B!tables, B!memory
<1>2. BTypes'
  BY <1>1 DEF BInv, BTypes
<1>3. BRight'
  BY <1>1 DEF BInv, BRight
<1>4. BLoops'
  BY <1>1 DEF BInv, BLoops, BAfterLevels, BAfterGrades, BAfterCourses, BAfterScoped
<1> QED BY <1>2, <1>3, <1>4 DEF BInv

\* and a repair, keep it.
LEMMA BRepair == ASSUME BInv, B!Repair \/ B!RepairDone \/ (\E g \in B!LevelGrade : B!RepairGrade(g)) PROVE BInv'
<1>1. CASE B!Repair
  <2>1. PICK set : set = B!Catalogued(educationLevels)
    OBVIOUS
  <2>2. /\ step = "off" /\ step' = "repair" /\ todo' = set
        /\ UNCHANGED <<course, scoped, indicator, educationLevels, levelGrades, courseGrade, scopedLevel,
                       indicatorGrade, migrated, eduLevelMap, lgMap, lgBySlugAndGrade>>
    BY <1>1, <2>1 DEF B!Repair, B!Loop, B!old, B!tables, B!memory
  <2>3. set = B!Catalogued(educationLevels)'
    BY <2>1, <2>2 DEF B!Catalogued
  <2>4. BTypes'
    BY <2>2 DEF BInv, BTypes, BAfterScoped
  <2>5. BRight'
    BY <2>2, <2>3 DEF BInv, BRight
  <2>6. BLoops'
    BY <2>2, <2>3 DEF BInv, BLoops, BAfterLevels, BAfterGrades, BAfterCourses, BAfterScoped
  <2> QED BY <2>4, <2>5, <2>6 DEF BInv
<1>2. CASE B!RepairDone
  <2>2. /\ step = "repair" /\ step' = "repaired" /\ todo = {}
        /\ UNCHANGED <<course, scoped, indicator, educationLevels, levelGrades, courseGrade, scopedLevel,
                       indicatorGrade, migrated, eduLevelMap, lgMap, lgBySlugAndGrade>>
    BY <1>2 DEF B!RepairDone, B!Loop, B!old, B!tables, B!memory
  <2>3. B!Catalogued(educationLevels)' \subseteq levelGrades
    BY <2>2 DEF B!Catalogued, BInv, BLoops
  <2>4. BTypes'
    BY <2>2 DEF BInv, BTypes, BAfterScoped
  <2>5. BRight'
    BY <2>2 DEF BInv, BRight
  <2>6. BLoops'
    BY <2>2, <2>3 DEF BInv, BLoops, BAfterLevels, BAfterGrades, BAfterCourses, BAfterScoped
  <2> QED BY <2>4, <2>5, <2>6 DEF BInv
<1>3. ASSUME NEW g \in B!LevelGrade, B!RepairGrade(g) PROVE BInv'
  <2>2. /\ step = "repair" /\ step' = step /\ g \in todo /\ todo' = todo \ {g} /\ levelGrades' = levelGrades \cup {g}
        /\ UNCHANGED <<course, scoped, indicator, educationLevels, courseGrade, scopedLevel,
                       indicatorGrade, migrated, eduLevelMap, lgMap, lgBySlugAndGrade>>
    BY <1>3 DEF B!RepairGrade, B!Each, B!old, B!tables, B!memory
  <2>a. PICK set : set = B!Catalogued(educationLevels)
    OBVIOUS
  <2>3. set = B!Catalogued(educationLevels)'
    BY <2>2, <2>a DEF B!Catalogued
  <2>b. todo \subseteq set /\ set \ todo \subseteq levelGrades
    BY <2>2, <2>a DEF BInv, BRight, BLoops
  <2>c. g \in B!LevelGrade /\ B!LevelOf(g) \in educationLevels
    BY <2>2, <2>a, <2>b DEF B!Catalogued
  <2>4. BTypes'
    BY <2>2 DEF BInv, BTypes, BAfterScoped
  <2>5. BRight'
    BY <2>2, <2>3, <2>b, <2>c DEF BInv, BRight
  <2>6. BLoops'
    BY <2>2, <2>3, <2>b DEF BInv, BLoops, BAfterLevels, BAfterGrades, BAfterCourses, BAfterScoped
  <2> QED BY <2>4, <2>5, <2>6 DEF BInv
<1> QED BY <1>1, <1>2, <1>3

\* Every step of the scripts keeps it.
LEMMA BStep == BInv /\ [B!Next]_bVars => BInv'
<1> SUFFICES ASSUME BInv, [B!Next]_bVars PROVE BInv'
  OBVIOUS
<1>1. CASE B!SeedEducationLevels \/ B!SeedLevelGrades \/ B!BackfillCourses \/ B!BackfillScoped
           \/ B!MigrateSettings \/ B!Done
  BY <1>1, BLooped DEF B!SeedEducationLevels, B!SeedLevelGrades, B!BackfillCourses, B!BackfillScoped,
     B!MigrateSettings, B!Done, B!old, B!tables, B!memory
<1>2. CASE B!Exit
  <2>1. /\ step' = "off" /\ eduLevelMap' = {} /\ lgMap' = {}
        /\ UNCHANGED <<course, scoped, indicator, educationLevels, levelGrades, courseGrade, scopedLevel,
                       indicatorGrade, migrated>>
    BY <1>2 DEF B!Exit, B!old, B!tables
  <2>2. BTypes'
    BY <2>1 DEF BInv, BTypes, BAfterScoped
  <2>3. BRight' /\ BLoops'
    BY <2>1 DEF BInv, BRight, BLoops, BAfterLevels, BAfterGrades, BAfterCourses, BAfterScoped
  <2> QED BY <2>2, <2>3 DEF BInv
<1>3. CASE UNCHANGED bVars
  BY <1>3 DEF bVars, BInv, BTypes, BRight, BLoops, B!Catalogued
<1> QED BY <1>1, <1>2, <1>3, BLevel, BGrade, BCourse, BScopedRow, BIndicators, BIndicator, BSetting, BRepair
     DEF B!Next

\* It is enough for what the backfill completes,
LEMMA BCompletes == BInv => B!BackfillCompletes
<1> SUFFICES ASSUME BInv PROVE B!BackfillCompletes
  OBVIOUS
<1>1. step \in BAfterCourses => courseGrade = course
  BY DEF BInv, BTypes, BLoops
<1>2. step \in BAfterScoped => scopedLevel = scoped
  BY DEF BInv, BTypes, BLoops
<1>3. step \in {"settings", "done"} =>
        \A i \in Indicators : indicatorGrade[i] = Null <=> indicator[i].courses = {}
  BY DEF BInv, BLoops, BRight
<1>4. step = "done" => migrated = Institutions
  BY DEF BInv, BTypes, BLoops
<1> QED BY <1>1, <1>2, <1>3, <1>4 DEF B!BackfillCompletes, BAfterCourses, BAfterScoped

\* for what the dry run says,
LEMMA BHonest == BInv => B!DryRunHonest
<1> SUFFICES ASSUME BInv PROVE B!DryRunHonest
  OBVIOUS
<1> DEFINE listed == {B!SlugAndGrade(g) : g \in levelGrades}
<1>1. step \in BAfterGrades => \A c \in Courses : B!SlugAndGrade(course[c]) \in listed
  <2>1. step \in BAfterGrades => \A c \in Courses : course[c] \in levelGrades
    BY DEF BInv, BTypes, BLoops
  <2> QED BY <2>1
<1>2. B!ManualReview = {i \in Indicators : B!Candidates(i, listed) = {}}
  BY DEF B!ManualReview
<1> HIDE DEF listed
<1>3. \A i \in Indicators : /\ indicator[i].courses = {} => B!Candidates(i, listed) = {}
                            /\ step \in BAfterGrades /\ indicator[i].courses # {} => B!Candidates(i, listed) # {}
  BY <1>1, BCandidates DEF BInv
<1> QED BY <1>2, <1>3 DEF B!DryRunHonest, BAfterGrades

\* The cardinality of the instance is that of the library.
LEMMA BCardinality == \A set : B!Cardinality(set) = Cardinality(set)
BY DEF B!Cardinality, Cardinality

\* The catalog of one institution has as many grades as the catalog.
LEMMA BCatalog ==
    ASSUME NEW i \in Institutions
    PROVE  LET all == B!Catalogued({i} \X Levels) IN
             /\ all = {<<i, k[1], k[2]>> : k \in Catalog}
             /\ IsFiniteSet(all) /\ Cardinality(all) = Cardinality(Catalog)
             /\ IsFiniteSet({i} \X Levels) /\ Cardinality({i} \X Levels) = Cardinality(Levels)
             /\ Cardinality(Levels) \in Nat /\ Cardinality(Catalog) \in Nat
<1> DEFINE all == B!Catalogued({i} \X Levels)
           triples == {<<i, k[1], k[2]>> : k \in Catalog}
<1>0. IsFiniteSet(Levels) /\ IsFiniteSet(Grades) /\ Catalog \subseteq Levels \X Grades
  BY RecordsAssumption
<1>1. all = triples
  <2>1. ASSUME NEW g \in all PROVE g \in triples
    <3>1. g \in Institutions \X Levels \X Grades /\ g[1] = i /\ <<g[2], g[3]>> \in Catalog
      BY DEF B!Catalogued, B!LevelGrade, B!LevelOf, B!SlugAndGrade
    <3>2. g = <<i, g[2], g[3]>>
      BY <3>1
    <3> QED BY <3>1, <3>2
  <2>2. ASSUME NEW k \in Catalog PROVE <<i, k[1], k[2]>> \in all
    <3>1. k[1] \in Levels /\ k[2] \in Grades /\ k = <<k[1], k[2]>>
      BY <1>0
    <3> QED BY <3>1 DEF B!Catalogued, B!LevelGrade, B!LevelOf, B!SlugAndGrade
  <2> HIDE DEF all
  <2> QED BY <2>1, <2>2
<1>a. IsFiniteSet({i}) /\ Cardinality({i}) = 1
  BY FS_Singleton, Zenon
<1>4. Cardinality(Levels) \in Nat
  BY <1>0, FS_CardinalityType
<1>b. IsFiniteSet(Catalog) /\ Cardinality(Catalog) \in Nat
  <2>1. IsFiniteSet(Levels \X Grades)
    BY <1>0, FS_Product, Zenon
  <2> QED BY <1>0, <2>1, FS_Subset, FS_CardinalityType
<1>c. IsFiniteSet({i} \X Levels) /\ Cardinality({i} \X Levels) = Cardinality({i}) * Cardinality(Levels)
  BY <1>0, <1>a, FS_Product, Zenon
<1>3. Cardinality({i} \X Levels) = Cardinality(Levels)
  BY <1>a, <1>c, <1>4
<1>5. ExistsBijection(Catalog, triples)
  <2> DEFINE f == [k \in Catalog |-> <<i, k[1], k[2]>>]
  <2>0. \A k \in Catalog : k = <<k[1], k[2]>>
    BY <1>0
  <2>1. f \in Injection(Catalog, triples)
    BY <2>0 DEF Injection, IsInjective
  <2>2. f \in Surjection(Catalog, triples)
    BY DEF Surjection
  <2> QED BY <2>1, <2>2 DEF ExistsBijection, Bijection
<1>6. IsFiniteSet(triples) /\ Cardinality(triples) = Cardinality(Catalog)
  BY <1>b, <1>5, FS_Bijection
<1> HIDE DEF all, triples
<1>7. all = triples /\ IsFiniteSet(all) /\ Cardinality(all) = Cardinality(Catalog)
  BY <1>1, <1>6
<1> USE DEF all, triples
<1> QED BY <1>3, <1>4, <1>7, <1>b, <1>c, Zenon

\* and for what a repair tells.
LEMMA BTells == BInv => B!RepairTells
<1> SUFFICES ASSUME BInv, step = "repaired", NEW i \in Institutions
             PROVE  /\ B!Catalogued({e \in educationLevels : e[1] = i}) \subseteq levelGrades
                    /\ B!Status(i) = "HEALTHY" <=>
                         {g \in levelGrades : B!InstitutionOf(g) = i} = B!Catalogued({i} \X Levels)
  BY DEF B!RepairTells
<1> DEFINE levels == {e \in educationLevels : e[1] = i}
           mine == {g \in levelGrades : B!InstitutionOf(g) = i}
           all == B!Catalogued({i} \X Levels)
<1>0. IsFiniteSet(Levels) /\ IsFiniteSet(Grades) /\ Catalog \subseteq Levels \X Grades
  BY RecordsAssumption
<1>1. B!Catalogued(educationLevels) \subseteq levelGrades
  BY DEF BInv, BLoops
<1>2. B!Catalogued(levels) \subseteq levelGrades
  BY <1>1 DEF B!Catalogued
<1>3. levels \subseteq {i} \X Levels
  BY DEF BInv, BTypes, B!EducationLevel
<1>4. /\ all = {<<i, k[1], k[2]>> : k \in Catalog}
      /\ IsFiniteSet(all) /\ Cardinality(all) = Cardinality(Catalog)
      /\ IsFiniteSet({i} \X Levels) /\ Cardinality({i} \X Levels) = Cardinality(Levels)
      /\ Cardinality(Levels) \in Nat /\ Cardinality(Catalog) \in Nat
  BY BCatalog, Zenon
<1>5. Cardinality(levels) \in Nat /\ Cardinality(levels) <= Cardinality(Levels)
      /\ (Cardinality(levels) = Cardinality(Levels) => levels = {i} \X Levels)
  BY <1>3, <1>4, FS_Subset, FS_CardinalityType
<1>6. IsFiniteSet(mine) /\ Cardinality(mine) \in Nat
  <2>1. mine \subseteq {i} \X Levels \X Grades
    BY DEF BInv, BTypes, B!LevelGrade, B!InstitutionOf
  <2>2. IsFiniteSet({i} \X (Levels \X Grades))
    <3>1. IsFiniteSet({i}) /\ IsFiniteSet(Levels \X Grades)
      BY <1>0, FS_Product, FS_Singleton, Zenon
    <3> QED BY <3>1, FS_Product, Zenon
  <2>4. ExistsBijection({i} \X (Levels \X Grades), {i} \X Levels \X Grades)
    <3> DEFINE f == [p \in {i} \X (Levels \X Grades) |-> <<p[1], p[2][1], p[2][2]>>]
    <3>1. f \in Injection({i} \X (Levels \X Grades), {i} \X Levels \X Grades)
      BY DEF Injection, IsInjective
    <3>2. f \in Surjection({i} \X (Levels \X Grades), {i} \X Levels \X Grades)
      <4>1. \A t \in {i} \X Levels \X Grades :
              <<t[1], <<t[2], t[3]>>>> \in {i} \X (Levels \X Grades) /\ f[<<t[1], <<t[2], t[3]>>>>] = t
        OBVIOUS
      <4>2. f \in [{i} \X (Levels \X Grades) -> {i} \X Levels \X Grades]
        OBVIOUS
      <4> HIDE DEF f
      <4> QED BY <4>1, <4>2 DEF Surjection
    <3> QED BY <3>1, <3>2 DEF ExistsBijection, Bijection
  <2>5. IsFiniteSet({i} \X Levels \X Grades)
    BY <2>2, <2>4, FS_Bijection
  <2> QED BY <2>1, <2>5, FS_Subset, FS_CardinalityType
<1>7. B!Status(i) = "HEALTHY" <=>
        Cardinality(Levels) - Cardinality(levels) = 0 /\ Cardinality(Catalog) - Cardinality(mine) = 0
  <2>1. B!Status(i) = IF Cardinality(Levels) - Cardinality(levels) = 0 /\ Cardinality(Catalog) - Cardinality(mine) = 0
                      THEN "HEALTHY"
                      ELSE IF Cardinality(Levels) - Cardinality(levels) < 0 \/ Cardinality(Catalog) - Cardinality(mine) < 0
                      THEN "INVALID" ELSE "INCOMPLETE"
    BY BCardinality DEF B!Status
  <2> QED BY <2>1
<1>8. ASSUME B!Status(i) = "HEALTHY" PROVE mine = all
  <2>1. Cardinality(levels) = Cardinality(Levels) /\ Cardinality(mine) = Cardinality(Catalog)
    BY <1>4, <1>5, <1>6, <1>7, <1>8
  <2>2. levels = {i} \X Levels
    BY <1>5, <2>1
  <2>a. all \subseteq levelGrades
    <3> HIDE DEF levels
    <3> QED BY <1>2, <2>2
  <2>b. \A g \in all : g[1] = i
    BY DEF B!Catalogued, B!LevelOf
  <2>3. all \subseteq mine
    <3> HIDE DEF all
    <3> QED BY <2>a, <2>b DEF B!InstitutionOf
  <2> HIDE DEF mine, all
  <2> QED BY <1>4, <1>6, <2>1, <2>3, FS_Subset
<1>9. ASSUME mine = all PROVE B!Status(i) = "HEALTHY"
  <2>1. \A l \in Levels : \E n \in Grades : <<l, n>> \in Catalog /\ <<i, l, n>> \in levelGrades
    <3> SUFFICES ASSUME NEW l \in Levels PROVE \E n \in Grades : <<l, n>> \in Catalog /\ <<i, l, n>> \in levelGrades
      OBVIOUS
    <3>1. PICK n \in Grades : <<l, n>> \in Catalog
      BY RecordsAssumption
    <3>2. <<i, l, n>> \in all
      <4> HIDE DEF all
      <4> QED BY <1>4, <3>1
    <3>3. <<i, l, n>> \in mine
      BY <1>9, <3>2
    <3> QED BY <3>1, <3>3
  <2>2. \A l \in Levels : <<i, l>> \in educationLevels
    BY <2>1 DEF BInv, BRight, B!LevelOf
  <2>3. levels = {i} \X Levels
    BY <1>3, <2>2
  <2>4. Cardinality(levels) = Cardinality(Levels) /\ Cardinality(mine) = Cardinality(Catalog)
    BY <1>4, <1>9, <2>3
  <2> HIDE DEF levels, mine, all
  <2> QED BY <1>4, <1>7, <2>4
<1> QED BY <1>2, <1>8, <1>9

\* The backfill by itself, wherever runs of it stopped before: once it is done every row has what its
\* old columns say, a dry run tells what the run will do, and a repair what it leaves.
THEOREM BackfillSound == B!Spec => [](B!TypeOK /\ B!BackfillCompletes /\ B!DryRunHonest /\ B!RepairTells)
<1>1. B!Init => BInv
  BY BInitial
<1>2. BInv /\ [B!Next]_(B!vars) => BInv'
  <2>1. [B!Next]_(B!vars) => [B!Next]_bVars
    BY DEF B!vars, bVars, B!old, B!tables, B!memory
  <2> QED BY <2>1, BStep
<1>3. BInv => B!TypeOK /\ B!BackfillCompletes /\ B!DryRunHonest /\ B!RepairTells
  BY BTyped, BCompletes, BHonest, BTells
<1> QED BY <1>1, <1>2, <1>3, PTL DEF B!Spec

-----------------------------------------------------------------------------
(* Folds *)

\* A set of naturals that is not empty has a least one.
LEMMA Least == ASSUME NEW ts \in SUBSET Nat, ts # {} PROVE \E t \in ts : \A u \in ts : t <= u
<1> DEFINE rel == OpToRel(<, Nat)
<1>1. IsWellFoundedOn(rel, Nat)
  BY NatLessThanWellFounded
<1>2. \A x, y \in Nat : y < x => <<y, x>> \in rel
  BY DEF OpToRel
<1> HIDE DEF rel
<1>3. PICK t \in ts : \A u \in ts : ~(<<u, t>> \in rel)
  BY <1>1, WFMin
<1>4. ASSUME NEW u \in ts PROVE t <= u
  <2>1. t \in Nat /\ u \in Nat
    OBVIOUS
  <2>2. ~(u < t)
    BY <1>2, <1>3, <2>1
  <2> QED BY <2>1, <2>2
<1> QED BY <1>4

\* What holds 0, and n + 1 with n, holds them all.
LEMMA Climb == ASSUME NEW ts, 0 \in ts, \A n \in Nat : n \in ts => n + 1 \in ts PROVE Nat \subseteq ts
<1> SUFFICES ASSUME Nat \ ts # {} PROVE FALSE
  OBVIOUS
<1>1. PICK t \in Nat \ ts : \A u \in Nat \ ts : t <= u
  BY Least
<1>2. t - 1 \in Nat /\ t - 1 \notin Nat \ ts /\ (t - 1) + 1 = t
  BY <1>1
<1> QED BY <1>1, <1>2

\* f folds the sets of xs: ch chooses the element that op adds to the rest.
FoldsBy(f, xs, base, op, ch) ==
    f = [s \in SUBSET xs |-> IF s = {} THEN base ELSE op[<<f[s \ {ch[s]}], ch[s]>>]]

\* ch chooses from each of them.
Chooses(ch, xs) == \A s \in SUBSET xs : s # {} => ch[s] \in s

\* Without the chosen element a set is smaller.
LEMMA Chosen ==
    ASSUME NEW xs, IsFiniteSet(xs), NEW ch, Chooses(ch, xs),
           NEW s \in SUBSET xs, s # {}
    PROVE  /\ s \ {ch[s]} \in SUBSET xs /\ ch[s] \in xs
           /\ Cardinality(s) \in Nat /\ Cardinality(s \ {ch[s]}) \in Nat
           /\ Cardinality(s \ {ch[s]}) = Cardinality(s) - 1
<1>1. IsFiniteSet(s) /\ ch[s] \in s
  BY FS_Subset DEF Chooses
<1>2. Cardinality(s) \in Nat
  BY <1>1, FS_CardinalityType
<1>3. IsFiniteSet(s \ {ch[s]}) /\ Cardinality(s \ {ch[s]}) = Cardinality(s) - 1
  BY <1>1, FS_RemoveElement
<1>4. Cardinality(s \ {ch[s]}) \in Nat
  BY <1>3, FS_CardinalityType
<1> QED BY <1>1, <1>2, <1>3, <1>4

\* op adds an element of xs to a value and gives a value.
Keeps(op, vs, xs) == \A v \in vs, x \in xs : op[<<v, x>>] \in vs

\* There is such a function,
LEMMA FoldExists ==
    ASSUME NEW xs, IsFiniteSet(xs), NEW ch, Chooses(ch, xs),
           NEW vs, NEW base \in vs, NEW op, Keeps(op, vs, xs)
    PROVE  \E f \in [SUBSET xs -> vs] : FoldsBy(f, xs, base, op, ch)
<1>0. ASSUME NEW s \in SUBSET xs, s # {}
      PROVE  /\ s \ {ch[s]} \in SUBSET xs /\ Cardinality(s) \in Nat /\ Cardinality(s \ {ch[s]}) \in Nat
             /\ Cardinality(s \ {ch[s]}) = Cardinality(s) - 1
  BY <1>0, Chosen
<1> DEFINE Value(f, s) == IF s = {} THEN base ELSE op[<<f[s \ {ch[s]}], ch[s]>>]
           ts == {n \in Nat : \E f \in [SUBSET xs -> vs] :
                    \A s \in SUBSET xs : Cardinality(s) <= n => f[s] = Value(f, s)}
<1>1. 0 \in ts
  <2>1. \A s \in SUBSET xs : Cardinality(s) <= 0 => s = {}
    <3> SUFFICES ASSUME NEW s \in SUBSET xs, Cardinality(s) <= 0, s # {} PROVE FALSE
      OBVIOUS
    <3>1. IsFiniteSet(s) /\ Cardinality(s) \in Nat
      BY FS_Subset, FS_CardinalityType
    <3> QED BY <3>1, FS_EmptySet
  <2>2. [s \in SUBSET xs |-> base] \in [SUBSET xs -> vs]
    OBVIOUS
  <2> QED BY <2>1, <2>2
<1>2. ASSUME NEW n \in Nat, n \in ts PROVE n + 1 \in ts
  <2>1. PICK f \in [SUBSET xs -> vs] : \A s \in SUBSET xs : Cardinality(s) <= n => f[s] = Value(f, s)
    BY <1>2
  <2> DEFINE h == [s \in SUBSET xs |-> Value(f, s)]
  <2>2. h \in [SUBSET xs -> vs]
    <3>1. ASSUME NEW s \in SUBSET xs, s # {} PROVE op[<<f[s \ {ch[s]}], ch[s]>>] \in vs
      <4>1. s \ {ch[s]} \in SUBSET xs /\ ch[s] \in xs
        BY <3>1, Chosen
      <4>2. f[s \ {ch[s]}] \in vs
        BY <4>1
      <4> QED BY <4>1, <4>2 DEF Keeps
    <3> QED BY <3>1
  <2>3. ASSUME NEW s \in SUBSET xs, Cardinality(s) <= n PROVE h[s] = f[s]
    BY <2>1, <2>3
  <2>4. ASSUME NEW s \in SUBSET xs, Cardinality(s) <= n + 1 PROVE h[s] = Value(h, s)
    <3>1. CASE s = {}
      BY <3>1
    <3>2. CASE s # {}
      <4>1. /\ s \ {ch[s]} \in SUBSET xs /\ Cardinality(s) \in Nat /\ Cardinality(s \ {ch[s]}) \in Nat
            /\ Cardinality(s \ {ch[s]}) = Cardinality(s) - 1
        BY <1>0, <3>2
      <4>2. Cardinality(s \ {ch[s]}) <= n
        BY <2>4, <4>1
      <4>3. h[s \ {ch[s]}] = f[s \ {ch[s]}]
        BY <2>3, <4>1, <4>2
      <4>4. h[s] = op[<<f[s \ {ch[s]}], ch[s]>>]
        BY <3>2
      <4> HIDE DEF h
      <4> QED BY <3>2, <4>3, <4>4
    <3> QED BY <3>1, <3>2
  <2> HIDE DEF h, Value
  <2> QED BY <2>2, <2>4
<1>3. Cardinality(xs) \in Nat
  BY FS_CardinalityType
<1>4. Cardinality(xs) \in ts
  <2> HIDE DEF ts
  <2> QED BY <1>1, <1>2, <1>3, Climb
<1>5. PICK f \in [SUBSET xs -> vs] : \A s \in SUBSET xs : Cardinality(s) <= Cardinality(xs) => f[s] = Value(f, s)
  BY <1>4
<1>6. \A s \in SUBSET xs : Cardinality(s) <= Cardinality(xs)
  BY FS_Subset
<1>7. \A s \in SUBSET xs : f[s] = Value(f, s)
  BY <1>5, <1>6
<1>8. f = [s \in SUBSET xs |-> Value(f, s)]
  <2> HIDE DEF Value
  <2> QED BY <1>7
<1> QED BY <1>8 DEF FoldsBy

\* f and h give the same when they give the same without the chosen element.
GoTogether(f, h, xs, ch) ==
    /\ f[{}] = h[{}]
    /\ \A s \in SUBSET xs : s # {} /\ f[s \ {ch[s]}] = h[s \ {ch[s]}] => f[s] = h[s]

\* and another that goes the same way is the same.
LEMMA FoldSame ==
    ASSUME NEW xs, IsFiniteSet(xs), NEW ch, Chooses(ch, xs),
           NEW f, NEW h, GoTogether(f, h, xs, ch)
    PROVE  \A s \in SUBSET xs : f[s] = h[s]
<1>0. ASSUME NEW s \in SUBSET xs, s # {}
      PROVE  /\ s \ {ch[s]} \in SUBSET xs /\ Cardinality(s) \in Nat /\ Cardinality(s \ {ch[s]}) \in Nat
             /\ Cardinality(s \ {ch[s]}) = Cardinality(s) - 1
  BY <1>0, Chosen
<1> DEFINE ts == {n \in Nat : \A s \in SUBSET xs : Cardinality(s) <= n => f[s] = h[s]}
<1>1. 0 \in ts
  <2>1. \A s \in SUBSET xs : Cardinality(s) <= 0 => s = {}
    <3> SUFFICES ASSUME NEW s \in SUBSET xs, Cardinality(s) <= 0, s # {} PROVE FALSE
      OBVIOUS
    <3>1. IsFiniteSet(s) /\ Cardinality(s) \in Nat
      BY FS_Subset, FS_CardinalityType
    <3> QED BY <3>1, FS_EmptySet
  <2> QED BY <2>1 DEF GoTogether
<1>2. ASSUME NEW n \in Nat, n \in ts PROVE n + 1 \in ts
  <2>1. \A s \in SUBSET xs : Cardinality(s) <= n => f[s] = h[s]
    BY <1>2
  <2>2. ASSUME NEW s \in SUBSET xs, Cardinality(s) <= n + 1, s # {} PROVE f[s] = h[s]
    <3>1. /\ s \ {ch[s]} \in SUBSET xs /\ Cardinality(s) \in Nat /\ Cardinality(s \ {ch[s]}) \in Nat
          /\ Cardinality(s \ {ch[s]}) = Cardinality(s) - 1
      BY <1>0, <2>2
    <3>2. Cardinality(s \ {ch[s]}) <= n
      BY <2>2, <3>1
    <3>3. f[s \ {ch[s]}] = h[s \ {ch[s]}]
      BY <2>1, <3>1, <3>2
    <3> QED BY <2>2, <3>3 DEF GoTogether
  <2>3. ASSUME NEW s \in SUBSET xs, Cardinality(s) <= n + 1 PROVE f[s] = h[s]
    <3>1. CASE s = {}
      BY <3>1 DEF GoTogether
    <3>2. CASE s # {}
      BY <2>2, <2>3, <3>2
    <3> QED BY <3>1, <3>2
  <2> QED BY <2>3
<1>3. Nat \subseteq ts
  <2> HIDE DEF ts
  <2> QED BY <1>1, <1>2, Climb
<1>4. ASSUME NEW s \in SUBSET xs PROVE f[s] = h[s]
  <2>1. Cardinality(s) \in Nat
    BY FS_Subset, FS_CardinalityType
  <2>2. Cardinality(s) \in ts
    <3> HIDE DEF ts
    <3> QED BY <1>3, <2>1
  <2> QED BY <2>1, <2>2
<1> QED BY <1>4

\* The sum of e over the subsets of xs, as the library folds it.
SumOf(xs, e) ==
    CHOOSE f : f = [s \in SUBSET xs |->
        IF s = {} THEN 0 ELSE e[CHOOSE x \in s : TRUE] + f[s \ {CHOOSE x \in s : TRUE}]]

\* All are naturals.
Naturals(e, xs) == \A x \in xs : e[x] \in Nat

\* f adds up e over the subsets of xs: whichever element is taken off, the rest is added
\* to it.
AddsUp(f, e, xs) ==
    /\ f \in [SUBSET xs -> Nat] /\ f[{}] = 0
    /\ \A s \in SUBSET xs : \A x \in s : f[s] = f[s \ {x}] + e[x]

\* So does the sum.
LEMMA SumAdds ==
    ASSUME NEW xs, IsFiniteSet(xs), NEW e, Naturals(e, xs)
    PROVE  AddsUp(SumOf(xs, e), e, xs)
<1> DEFINE ch == [s \in SUBSET xs |-> CHOOSE x \in s : TRUE]
           op == [p \in Nat \X xs |-> e[p[2]] + p[1]]
           g == SumOf(xs, e)
<1>n. \A x \in xs : e[x] \in Nat
  BY DEF Naturals
<1>0. Chooses(ch, xs)
  BY DEF Chooses
<1>1. PICK f \in [SUBSET xs -> Nat] : FoldsBy(f, xs, 0, op, ch)
  <2>2. Keeps(op, Nat, xs)
    BY <1>n DEF Keeps
  <2> HIDE DEF ch, op
  <2> QED BY <1>0, <2>2, FoldExists
<1>2. f[{}] = 0
  BY <1>1 DEF FoldsBy
<1>3. ASSUME NEW s \in SUBSET xs, s # {}
      PROVE  /\ ch[s] \in s /\ s \ {ch[s]} \in SUBSET xs
             /\ f[s] = e[ch[s]] + f[s \ {ch[s]}]
  <2>1. ch[s] \in s /\ s \ {ch[s]} \in SUBSET xs
    BY <1>0, <1>3 DEF Chooses
  <2>2. f[s] = op[<<f[s \ {ch[s]}], ch[s]>>]
    <3> HIDE DEF op, ch
    <3> QED BY <1>1, <1>3 DEF FoldsBy
  <2>3. <<f[s \ {ch[s]}], ch[s]>> \in Nat \X xs
    <3> HIDE DEF op, ch
    <3> QED BY <2>1
  <2> QED BY <2>1, <2>2, <2>3
<1>4. f = [s \in SUBSET xs |->
        IF s = {} THEN 0 ELSE e[CHOOSE x \in s : TRUE] + f[s \ {CHOOSE x \in s : TRUE}]]
  <2>1. \A s \in SUBSET xs : f[s] = IF s = {} THEN 0 ELSE e[ch[s]] + f[s \ {ch[s]}]
    <3> HIDE DEF op, ch
    <3> QED BY <1>2, <1>3
  <2> QED BY <2>1
<1>5. g = [s \in SUBSET xs |->
        IF s = {} THEN 0 ELSE e[CHOOSE x \in s : TRUE] + g[s \ {CHOOSE x \in s : TRUE}]]
  BY <1>4, Zenon DEF SumOf
<1> HIDE DEF g
<1>6. g[{}] = 0
  BY <1>5
<1>7. ASSUME NEW s \in SUBSET xs, s # {} PROVE g[s] = e[ch[s]] + g[s \ {ch[s]}]
  BY <1>5, <1>7
<1>8. \A s \in SUBSET xs : f[s] = g[s]
  <2> HIDE DEF ch, op
  <2>1. ASSUME NEW s \in SUBSET xs, s # {}, f[s \ {ch[s]}] = g[s \ {ch[s]}] PROVE f[s] = g[s]
    BY <1>3, <1>7, <2>1
  <2>2. f[{}] = g[{}]
    BY <1>2, <1>6
  <2>3. GoTogether(f, g, xs, ch)
    BY <2>1, <2>2 DEF GoTogether
  <2> QED BY <1>0, <2>3, FoldSame
<1>9. g = f
  BY <1>5, <1>8
<1> HIDE DEF ch, op
<1> DEFINE ts == {n \in Nat : \A s \in SUBSET xs : Cardinality(s) <= n =>
                    \A x \in s : f[s] = f[s \ {x}] + e[x]}
<1>a. ASSUME NEW s \in SUBSET xs, NEW x \in s
      PROVE  /\ s \ {x} \in SUBSET xs /\ x \in xs /\ Cardinality(s) \in Nat \ {0}
             /\ Cardinality(s \ {x}) = Cardinality(s) - 1
  <2>1. IsFiniteSet(s) /\ Cardinality(s) \in Nat
    BY FS_Subset, FS_CardinalityType
  <2>2. Cardinality(s) # 0
    BY <2>1, FS_EmptySet
  <2>3. Cardinality(s \ {x}) = Cardinality(s) - 1
    BY <2>1, FS_RemoveElement
  <2> QED BY <2>1, <2>2, <2>3
<1>b. 0 \in ts
  <2>1. ASSUME NEW s \in SUBSET xs, Cardinality(s) <= 0, NEW x \in s PROVE FALSE
    <3>1. Cardinality(s) \in Nat \ {0}
      BY <1>a
    <3> QED BY <2>1, <3>1
  <2> QED BY <2>1
<1>c. ASSUME NEW n \in Nat, n \in ts PROVE n + 1 \in ts
  <2>1. \A s \in SUBSET xs : Cardinality(s) <= n => \A x \in s : f[s] = f[s \ {x}] + e[x]
    BY <1>c
  <2> HIDE DEF ts
  <2>2. ASSUME NEW s \in SUBSET xs, Cardinality(s) <= n + 1, NEW x \in s PROVE f[s] = f[s \ {x}] + e[x]
    <3> DEFINE c == ch[s]
    <3>1. c \in s /\ f[s] = e[c] + f[s \ {c}]
      BY <1>3
    <3> HIDE DEF c
    <3>2. /\ s \ {c} \in SUBSET xs /\ c \in xs /\ s \ {x} \in SUBSET xs /\ x \in xs
          /\ Cardinality(s) \in Nat \ {0}
          /\ Cardinality(s \ {c}) = Cardinality(s) - 1 /\ Cardinality(s \ {x}) = Cardinality(s) - 1
      BY <1>a, <3>1
    <3>3. /\ f[s] \in Nat /\ f[s \ {x}] \in Nat /\ f[s \ {c}] \in Nat /\ e[c] \in Nat /\ e[x] \in Nat
          /\ f[(s \ {x}) \ {c}] \in Nat
      BY <1>n, <3>2
    <3>4. CASE x = c
      BY <3>1, <3>3, <3>4
    <3>5. CASE x # c
      <4>0. Cardinality(s \ {c}) <= n /\ Cardinality(s \ {x}) <= n
        BY <2>2, <3>2
      <4>1. f[s \ {c}] = f[(s \ {c}) \ {x}] + e[x]
        <5>1. x \in s \ {c}
          BY <3>5
        <5> QED BY <2>1, <3>2, <4>0, <5>1
      <4>2. f[s \ {x}] = f[(s \ {x}) \ {c}] + e[c]
        <5>1. c \in s \ {x}
          BY <3>1, <3>5
        <5> QED BY <2>1, <3>2, <4>0, <5>1
      <4>3. (s \ {c}) \ {x} = (s \ {x}) \ {c}
        OBVIOUS
      <4>4. PICK a, b, d, k, ec, ex \in Nat :
              /\ a = f[s] /\ b = f[s \ {x}] /\ d = f[s \ {c}] /\ k = f[(s \ {x}) \ {c}]
              /\ ec = e[c] /\ ex = e[x]
        BY <3>3
      <4>5. a = ec + d /\ d = k + ex /\ b = k + ec
        BY <3>1, <4>1, <4>2, <4>3, <4>4
      <4>6. a = b + ex
        BY <4>5
      <4> QED BY <4>4, <4>6
    <3> QED BY <3>4, <3>5
  <2> QED BY <2>2 DEF ts
<1>d. Nat \subseteq ts
  <2> HIDE DEF ts
  <2> QED BY <1>b, <1>c, Climb
<1>e. ASSUME NEW s \in SUBSET xs, NEW x \in s PROVE f[s] = f[s \ {x}] + e[x]
  <2>1. Cardinality(s) \in ts
    <3> HIDE DEF ts
    <3> QED BY <1>a, <1>d
  <2> QED BY <1>a, <2>1
<1>f. AddsUp(f, e, xs)
  BY <1>2, <1>e DEF AddsUp
<1> QED BY <1>9, <1>f DEF g

\* The sum that Trayectoria takes is one.
LEMMA TSum == ASSUME NEW e, NEW xs PROVE T!MapThenSumSet(LAMBDA v : e[v], xs) = SumOf(xs, e)[xs]
BY Zenon DEF T!MapThenSumSet, T!MapThenFoldSet, SumOf

\* So is the one of the rules.
LEMMA PSum == ASSUME NEW e, NEW xs PROVE P!MapThenSumSet(LAMBDA i : e[i], xs) = SumOf(xs, e)[xs]
BY Zenon DEF P!MapThenSumSet, P!MapThenFoldSet, SumOf


-----------------------------------------------------------------------------
(* The rules of promotion *)

\* Scores that a student may have.
PGrades == [Graded -> GradeScores \cup {Null}]

\* The sum and the number of the grades are naturals, and there are none when there is no grade.
LEMMA PCounts ==
    ASSUME NEW g \in PGrades
    PROVE  /\ P!Sum(g) \in Nat /\ P!Count(g) \in Nat
           /\ P!Count(g) = 0 <=> P!Scored(g) = {}
<1> DEFINE xs == P!Scored(g)
<1>1. xs \subseteq Graded /\ Naturals(g, xs)
  BY RecordsAssumption DEF P!Scored, PGrades, Naturals
<1>c. P!Count(g) = Cardinality(xs)
  <2>1. \A s : P!Cardinality(s) = Cardinality(s)
    BY DEF P!Cardinality, Cardinality
  <2> QED BY <2>1 DEF P!Count
<1>2. IsFiniteSet(xs)
  <2>1. IsFiniteSet(Graded)
    BY RecordsAssumption
  <2> QED BY <1>1, <2>1, FS_Subset
<1>3. SumOf(xs, g)[xs] \in Nat
  <2> HIDE DEF xs
  <2>1. SumOf(xs, g) \in [SUBSET xs -> Nat]
    BY <1>1, <1>2, SumAdds DEF AddsUp
  <2> QED BY <2>1
<1>4. P!Sum(g) = SumOf(xs, g)[xs]
  <2>1. P!Sum(g) = P!MapThenSumSet(LAMBDA i : g[i], xs)
    BY DEF P!Sum
  <2> QED BY <2>1, PSum
<1>5. Cardinality(xs) \in Nat /\ (Cardinality(xs) = 0 <=> xs = {})
  BY <1>2, FS_CardinalityType, FS_EmptySet
<1> HIDE DEF xs
<1>6. P!Sum(g) \in Nat /\ P!Count(g) \in Nat /\ (P!Count(g) = 0 <=> xs = {})
  BY <1>3, <1>4, <1>5, <1>c
<1> QED BY <1>6 DEF xs

\* An average that is reached is reached by every average that is no less.
LEMMA PAverage ==
    ASSUME NEW s \in Nat, NEW c \in Nat \ {0}, NEW t \in Nat, NEW d \in Nat \ {0},
           s >= 70 * c, s * d <= t * c
    PROVE  t >= 70 * d
<1>1. (s - 70 * c) * d >= 0
  BY SMTT(30)
<1>2. s * d >= (70 * d) * c
  BY <1>1, SMTT(30)
<1>3. (t - 70 * d) * c >= 0
  BY <1>2, SMTT(30)
<1> QED BY <1>3, SMTT(30)

\* Grades that reach the average, and are not followed by worse ones, are followed by
\* others that reach it.
PReached(g) == P!Scored(g) # {} /\ P!Sum(g) >= 70 * P!Count(g)

\* Are there?
LEMMA PNoWorse ==
    ASSUME NEW g \in PGrades, NEW h \in PGrades, ~P!Better(g, h), PReached(g)
    PROVE  PReached(h)
<1>1. P!Scored(g) # {} /\ P!Scored(h) # {} /\ ~(P!Sum(g) * P!Count(h) > P!Sum(h) * P!Count(g))
  BY DEF P!Better, PReached
<1>2. PICK s \in Nat, c \in Nat, t \in Nat, d \in Nat :
        s = P!Sum(g) /\ c = P!Count(g) /\ t = P!Sum(h) /\ d = P!Count(h)
  BY PCounts
<1>3. c # 0 /\ d # 0
  BY <1>1, <1>2, PCounts
<1>4. s >= 70 * c /\ ~(s * d > t * c)
  BY <1>1, <1>2 DEF PReached
<1>5. s * d \in Nat /\ t * c \in Nat
  OBVIOUS
<1>6. s * d <= t * c
  BY <1>4, <1>5
<1>7. t >= 70 * d
  BY <1>3, <1>4, <1>6, PAverage
<1> QED BY <1>1, <1>2, <1>7 DEF PReached

\* Few enough pending subjects.
PFew(p) == p.notCompleted <= 2

\* Attendance enough.
PPresent(a) == 5 * a.attended >= 4 * P!DaysOf(a)

\* Days and pending subjects are counted.
LEMMA PDays ==
    /\ \A new \in PendingCounts : new.notCompleted \in Nat
    /\ \A a \in Presence : a.attended \in Nat /\ a.missed \in Nat /\ P!DaysOf(a) \in Nat /\ P!DaysOf(a) >= a.attended
<1>1. ASSUME NEW a \in Presence
      PROVE  a.attended \in Nat /\ a.missed \in Nat /\ P!DaysOf(a) \in Nat /\ P!DaysOf(a) >= a.attended
  <2>1. a.attended \in Nat /\ a.missed \in Nat
    BY RecordsAssumption
  <2> QED BY <2>1 DEF P!DaysOf
<1>2. \A new \in PendingCounts : new.notCompleted \in Nat
  BY RecordsAssumption
<1> QED BY <1>1, <1>2

\* Shares are compared by multiplying crosswise: one that reaches four fifths is reached by
\* every one that is no less.
LEMMA PShare ==
    ASSUME NEW s \in Nat, NEW c \in Nat \ {0}, NEW t \in Nat, NEW d \in Nat \ {0},
           5 * s >= 4 * c, s * d <= t * c
    PROVE  5 * t >= 4 * d
<1>1. (5 * s - 4 * c) * d >= 0
  BY SMTT(30)
<1>2. 5 * (s * d) >= 4 * (d * c)
  BY <1>1, SMTT(30)
<1>3. (5 * t - 4 * d) * c >= 0
  BY <1>2, SMTT(30)
<1> QED BY <1>3, SMTT(30)

\* Enough attendance that is not followed by less is followed by enough.
LEMMA PNoLess ==
    ASSUME NEW a \in Presence, NEW b \in Presence, ~(P!Attended(b, a) < P!Attended(a, b)),
           PPresent(a)
    PROVE  PPresent(b)
<1>1. PICK s \in Nat, c \in Nat, t \in Nat, d \in Nat :
        /\ s = a.attended /\ c = P!DaysOf(a) /\ t = b.attended /\ d = P!DaysOf(b)
        /\ c >= s /\ d >= t
  BY PDays
<1>2. P!Attended(a, b) = (IF c = 0 THEN 1 ELSE s) * (IF d = 0 THEN 1 ELSE d)
      /\ P!Attended(b, a) = (IF d = 0 THEN 1 ELSE t) * (IF c = 0 THEN 1 ELSE c)
  BY <1>1 DEF P!Attended
<1>3. 5 * s >= 4 * c
  BY <1>1 DEF PPresent
<1>4. 5 * t >= 4 * d
  <2>1. CASE d = 0
    BY <2>1
  <2>2. CASE d # 0 /\ c = 0
    <3>1. P!Attended(a, b) = d /\ P!Attended(b, a) = t
      BY <1>2, <2>2
    <3> QED BY <3>1
  <2>3. CASE d # 0 /\ c # 0
    <3>1. P!Attended(a, b) = s * d /\ P!Attended(b, a) = t * c
      BY <1>2, <2>3
    <3>2. s * d \in Nat /\ t * c \in Nat
      OBVIOUS
    <3>3. s * d <= t * c
      BY <3>1, <3>2
    <3> QED BY <1>3, <2>3, <3>3, PShare
  <2> QED BY <2>1, <2>2, <2>3
<1> QED BY <1>1, <1>4 DEF PPresent


\* The records, the data read from them and the verdict have their types.
PTypes ==
    /\ scores \in PGrades /\ pending \in PendingCounts /\ presence \in Presence
    /\ query \in {Null, "pending", "attendance", "rules"}
    /\ data \in [sum : Nat, totalGrades : Nat, rounded : BOOLEAN,
                 notCompleted : Nat, attended : Nat, totalAttendance : Nat]
    /\ result \in BOOLEAN \cup {Null} /\ (query # Null => result = Null)
    /\ before \in BOOLEAN /\ rose \in BOOLEAN /\ fell \in BOOLEAN

\* What was read is no better than what it was read from was, at first, and what is read
\* now is no worse than what was read: so it is as long as no record became worse.
PUpwards ==
    ~data.rounded /\ ~fell =>
        /\ query = "pending" =>
             /\ before => P!AverageScoreRule(data) /\ PFew(pending) /\ PPresent(presence)
             /\ P!AverageScoreRule(data) => PReached(scores)
        /\ query = "attendance" =>
             /\ before => P!AverageScoreRule(data) /\ P!PendingSubjectsRule(data) /\ PPresent(presence)
             /\ P!AverageScoreRule(data) => PReached(scores)
             /\ P!PendingSubjectsRule(data) => PFew(pending)
        /\ query = "rules" =>
             /\ before => P!evaluate(data)
             /\ P!evaluate(data) => P!GoodEnough
        /\ query = Null /\ result # Null => (before => result) /\ (result => P!GoodEnough)

\* The other way round, as long as none became better.
PDownwards ==
    ~data.rounded /\ ~rose =>
        /\ query = "pending" =>
             /\ P!AverageScoreRule(data) /\ PFew(pending) /\ PPresent(presence) => before
             /\ PReached(scores) => P!AverageScoreRule(data)
        /\ query = "attendance" =>
             /\ P!AverageScoreRule(data) /\ P!PendingSubjectsRule(data) /\ PPresent(presence) => before
             /\ PReached(scores) => P!AverageScoreRule(data)
             /\ PFew(pending) => P!PendingSubjectsRule(data)
        /\ query = "rules" =>
             /\ P!evaluate(data) => before
             /\ P!GoodEnough => P!evaluate(data)
        /\ query = Null /\ result # Null => (P!GoodEnough => result) /\ (result => before)

\* What every step of the rules keeps.
PInv == PTypes /\ PUpwards /\ PDownwards

\* Records are good enough by each of the three.
LEMMA PGood ==
    /\ P!GoodEnough <=> PReached(scores) /\ PFew(pending) /\ PPresent(presence)
    /\ PTypes => pending.notCompleted \in Nat /\ presence.attended \in Nat /\ P!DaysOf(presence) \in Nat
<1>1. P!GoodEnough <=> PReached(scores) /\ PFew(pending) /\ PPresent(presence)
  BY DEF P!GoodEnough, PReached, PFew, PPresent
<1>2. PTypes => pending.notCompleted \in Nat /\ presence.attended \in Nat /\ P!DaysOf(presence) \in Nat
  BY PDays DEF PTypes
<1> QED BY <1>1, <1>2

\* It holds at first, when there is no verdict.
LEMMA PInitial == P!Init => PInv
<1> SUFFICES ASSUME P!Init PROVE PInv
  OBVIOUS
<1>1. query = Null /\ result = Null /\ query \notin {"pending", "attendance", "rules"}
  BY RecordsAssumption DEF P!Init
<1>2. PTypes
  BY <1>1 DEF P!Init, PTypes, PGrades, P!NoData
<1>3. PUpwards
  BY <1>1 DEF PUpwards
<1>4. PDownwards
  BY <1>1 DEF PDownwards
<1> QED BY <1>2, <1>3, <1>4 DEF PInv

\* The average of the data is that of the grades that were read, unless rounded.
LEMMA PReadsGrades ==
    ASSUME PInv, P!ReadGrades PROVE PInv'
<1> USE DEF PInv
<1>1. scores \in PGrades
  BY DEF PTypes
<1>2. P!Sum(scores) \in Nat /\ P!Count(scores) \in Nat /\ (P!Count(scores) = 0 <=> P!Scored(scores) = {})
  BY <1>1, PCounts
<1>3. PICK low \in BOOLEAN :
        /\ low => P!Inexact(scores) /\ P!Sum(scores) = 70 * P!Count(scores)
        /\ data' = [P!NoData EXCEPT !.sum = IF low THEN P!Sum(scores) - 1 ELSE P!Sum(scores),
                                    !.totalGrades = P!Count(scores), !.rounded = low]
  BY DEF P!ReadGrades, P!minAverageScore
<1>4. low => P!Sum(scores) - 1 \in Nat
  BY <1>2, <1>3 DEF P!Inexact
<1>5. data' = [sum |-> IF low THEN P!Sum(scores) - 1 ELSE P!Sum(scores),
               totalGrades |-> P!Count(scores), rounded |-> low,
               notCompleted |-> 0, attended |-> 0, totalAttendance |-> 0]
  BY <1>3 DEF P!NoData
<1>6. query' = "pending" /\ result' = Null /\ rose' = FALSE /\ fell' = FALSE /\ before' = P!GoodEnough
      /\ scores' = scores /\ pending' = pending /\ presence' = presence
  BY DEF P!ReadGrades, P!records
<1>7. before' \in BOOLEAN
  <2>1. P!GoodEnough \in BOOLEAN
    BY DEF P!GoodEnough
  <2> QED BY <1>6, <2>1
<1>8. PTypes'
  <2>1. data' \in [sum : Nat, totalGrades : Nat, rounded : BOOLEAN,
                   notCompleted : Nat, attended : Nat, totalAttendance : Nat]
    BY <1>2, <1>4, <1>5
  <2> QED BY <1>6, <1>7, <2>1 DEF PTypes
<1>9. ~data'.rounded => (P!AverageScoreRule(data') <=> PReached(scores))
  <2>1. ~data'.rounded => data'.sum = P!Sum(scores) /\ data'.totalGrades = P!Count(scores)
    BY <1>5
  <2> QED BY <1>2, <2>1 DEF P!AverageScoreRule, P!AtLeast, P!minAverageScore, PReached
<1>a. before' <=> PReached(scores) /\ PFew(pending) /\ PPresent(presence)
  BY <1>6, PGood
<1>b. PUpwards'
  BY <1>6, <1>9, <1>a, RecordsAssumption DEF PUpwards
<1>c. PDownwards'
  BY <1>6, <1>9, <1>a, RecordsAssumption DEF PDownwards
<1> QED BY <1>8, <1>b, <1>c

\* The number of pending subjects that is read is the one there is.
LEMMA PReadsPending ==
    ASSUME PInv, P!ReadPending PROVE PInv'
<1> USE DEF PInv
<1>1. /\ query = "pending" /\ query' = "attendance"
      /\ data' = [data EXCEPT !.notCompleted = pending.notCompleted]
      /\ scores' = scores /\ pending' = pending /\ presence' = presence
      /\ result' = result /\ before' = before /\ rose' = rose /\ fell' = fell
  BY DEF P!ReadPending, P!NotCompleted, P!records, P!history
<1>2. data'.sum = data.sum /\ data'.totalGrades = data.totalGrades /\ data'.rounded = data.rounded
      /\ data'.notCompleted = pending.notCompleted
  BY <1>1 DEF PTypes
<1>3. PTypes'
  <2>1. pending.notCompleted \in Nat
    BY PGood
  <2>2. data' \in [sum : Nat, totalGrades : Nat, rounded : BOOLEAN,
                   notCompleted : Nat, attended : Nat, totalAttendance : Nat]
    BY <1>1, <2>1 DEF PTypes
  <2> QED BY <1>1, <2>2, RecordsAssumption DEF PTypes
<1>4. P!AverageScoreRule(data') <=> P!AverageScoreRule(data)
  BY <1>2 DEF P!AverageScoreRule
<1>5. P!PendingSubjectsRule(data') <=> PFew(pending)
  BY <1>2 DEF P!PendingSubjectsRule, P!maxPendingSubjects, PFew
<1>6. PUpwards'
  BY <1>1, <1>2, <1>4, <1>5, RecordsAssumption DEF PUpwards
<1>7. PDownwards'
  BY <1>1, <1>2, <1>4, <1>5, RecordsAssumption DEF PDownwards
<1> QED BY <1>3, <1>6, <1>7

\* The attendance that is read is the one there is.
LEMMA PReadsAttendance ==
    ASSUME PInv, P!ReadAttendance PROVE PInv'
<1> USE DEF PInv
<1>1. /\ query = "attendance" /\ query' = "rules"
      /\ data' = [data EXCEPT !.attended = presence.attended, !.totalAttendance = P!DaysOf(presence)]
      /\ scores' = scores /\ pending' = pending /\ presence' = presence
      /\ result' = result /\ before' = before /\ rose' = rose /\ fell' = fell
  BY DEF P!ReadAttendance, P!records, P!history
<1>2. data'.sum = data.sum /\ data'.totalGrades = data.totalGrades /\ data'.rounded = data.rounded
      /\ data'.notCompleted = data.notCompleted
      /\ data'.attended = presence.attended /\ data'.totalAttendance = P!DaysOf(presence)
  BY <1>1 DEF PTypes
<1>d. presence.attended \in Nat /\ P!DaysOf(presence) \in Nat
  BY PGood
<1>3. PTypes'
  <2>2. data' \in [sum : Nat, totalGrades : Nat, rounded : BOOLEAN,
                   notCompleted : Nat, attended : Nat, totalAttendance : Nat]
    BY <1>1, <1>d DEF PTypes
  <2> QED BY <1>1, <2>2, RecordsAssumption DEF PTypes
<1>4. /\ P!AverageScoreRule(data') <=> P!AverageScoreRule(data)
      /\ P!PendingSubjectsRule(data') <=> P!PendingSubjectsRule(data)
  BY <1>2 DEF P!AverageScoreRule, P!PendingSubjectsRule
<1>5. P!AttendanceRule(data') <=> PPresent(presence)
  <2>1. presence.attended >= 0 /\ (P!DaysOf(presence) = 0 => PPresent(presence))
    BY <1>d DEF PPresent
  <2>2. 100 * presence.attended >= 80 * P!DaysOf(presence) <=> PPresent(presence)
    BY <1>d DEF PPresent
  <2> QED BY <1>2, <2>1, <2>2 DEF P!AttendanceRule, P!attendanceMinimum, P!AtLeast
<1>6. P!evaluate(data') <=> P!AverageScoreRule(data) /\ P!PendingSubjectsRule(data) /\ PPresent(presence)
  BY <1>4, <1>5 DEF P!evaluate
<1>7. P!GoodEnough' <=> PReached(scores) /\ PFew(pending) /\ PPresent(presence)
  <2>1. P!GoodEnough' <=> P!GoodEnough
    BY <1>1 DEF P!GoodEnough
  <2> QED BY <2>1, PGood
<1>8. PUpwards'
  <2> SUFFICES ASSUME ~data'.rounded, ~fell'
               PROVE  (before' => P!evaluate(data')) /\ (P!evaluate(data') => P!GoodEnough')
    BY <1>1, RecordsAssumption DEF PUpwards
  <2> QED BY <1>1, <1>2, <1>6, <1>7 DEF PUpwards
<1>9. PDownwards'
  <2> SUFFICES ASSUME ~data'.rounded, ~rose'
               PROVE  (P!evaluate(data') => before') /\ (P!GoodEnough' => P!evaluate(data'))
    BY <1>1, RecordsAssumption DEF PDownwards
  <2> QED BY <1>1, <1>2, <1>6, <1>7 DEF PDownwards
<1> QED BY <1>3, <1>8, <1>9

\* The verdict is what the rules make of the data.
LEMMA PEvaluates ==
    ASSUME PInv, P!Evaluate PROVE PInv'
<1> USE DEF PInv
<1>1. /\ query = "rules" /\ query' = Null /\ result' = P!evaluate(data) /\ data' = data
      /\ scores' = scores /\ pending' = pending /\ presence' = presence
      /\ before' = before /\ rose' = rose /\ fell' = fell
  BY DEF P!Evaluate, P!records, P!history
<1>2. P!evaluate(data) \in BOOLEAN
  BY DEF P!evaluate, P!AverageScoreRule, P!PendingSubjectsRule, P!AttendanceRule, P!AtLeast
<1>3. PTypes'
  BY <1>1, <1>2 DEF PTypes
<1>4. P!GoodEnough' <=> P!GoodEnough
  BY <1>1 DEF P!GoodEnough
<1>5. PUpwards'
  BY <1>1, <1>4, RecordsAssumption DEF PUpwards
<1>6. PDownwards'
  BY <1>1, <1>4, RecordsAssumption DEF PDownwards
<1> QED BY <1>3, <1>5, <1>6

\* A write of the others keeps it: rose and fell tell which way the records go.
LEMMA PWrites ==
    ASSUME PInv, scores' \in PGrades, pending' \in PendingCounts, presence' \in Presence, P!Changed
    PROVE  PInv'
<1> USE DEF PInv
<1>0. scores \in PGrades /\ pending \in PendingCounts /\ presence \in Presence
  BY DEF PTypes
<1>1. query' = query /\ data' = data /\ result' = result /\ before' = before
  BY DEF P!Changed
<1>2. /\ ~fell' => /\ ~fell /\ ~P!Better(scores, scores') /\ ~(pending'.notCompleted > pending.notCompleted)
                   /\ ~(P!Attended(presence', presence) < P!Attended(presence, presence'))
      /\ ~rose' => /\ ~rose /\ ~P!Better(scores', scores) /\ ~(pending'.notCompleted < pending.notCompleted)
                   /\ ~(P!Attended(presence', presence) > P!Attended(presence, presence'))
  BY DEF P!Changed
<1>3. PTypes'
  <2>1. rose' \in BOOLEAN
    BY Zenon DEF P!Changed
  <2>2. fell' \in BOOLEAN
    BY Zenon DEF P!Changed
  <2> QED BY <1>1, <2>1, <2>2 DEF PTypes
<1>4. pending.notCompleted \in Nat /\ pending'.notCompleted \in Nat
  BY <1>0, PDays
<1>5. ~fell' => (PFew(pending) => PFew(pending'))
  BY <1>2, <1>4 DEF PFew
<1>6. ~rose' => (PFew(pending') => PFew(pending))
  BY <1>2, <1>4 DEF PFew
<1>7. PICK g \in PGrades, h \in PGrades, a \in Presence, b \in Presence :
        g = scores /\ h = scores' /\ a = presence /\ b = presence'
  BY <1>0
<1>8. ~fell' => (PReached(g) => PReached(h)) /\ (PPresent(a) => PPresent(b))
  BY <1>2, <1>7, PNoWorse, PNoLess
<1>9. P!Attended(a, b) \in Nat /\ P!Attended(b, a) \in Nat
  <2>1. /\ P!DaysOf(a) \in Nat /\ a.attended \in Nat
        /\ P!DaysOf(b) \in Nat /\ b.attended \in Nat
    BY PDays
  <2>2. \A m, n \in Nat : m * n \in Nat
    OBVIOUS
  <2>3. /\ (IF P!DaysOf(a) = 0 THEN 1 ELSE a.attended) \in Nat
        /\ (IF P!DaysOf(b) = 0 THEN 1 ELSE b.attended) \in Nat
        /\ (IF P!DaysOf(a) = 0 THEN 1 ELSE P!DaysOf(a)) \in Nat
        /\ (IF P!DaysOf(b) = 0 THEN 1 ELSE P!DaysOf(b)) \in Nat
    BY <2>1
  <2> QED BY <2>2, <2>3 DEF P!Attended
<1>a. ~rose' => (PReached(h) => PReached(g)) /\ (PPresent(b) => PPresent(a))
  BY <1>2, <1>7, <1>9, PNoWorse, PNoLess
<1>b. P!GoodEnough <=> PReached(g) /\ PFew(pending) /\ PPresent(a)
  BY <1>7, PGood
<1>c. P!GoodEnough' <=> PReached(h) /\ PFew(pending') /\ PPresent(b)
  <2>1. P!GoodEnough' <=> PReached(scores') /\ PFew(pending') /\ PPresent(presence')
    BY DEF P!GoodEnough, PReached, PFew, PPresent
  <2> QED BY <1>7, <2>1
<1>d. PUpwards'
  BY <1>1, <1>2, <1>5, <1>7, <1>8, <1>b, <1>c DEF PUpwards
<1>e. PDownwards'
  BY <1>1, <1>2, <1>6, <1>7, <1>a, <1>b, <1>c DEF PDownwards
<1> QED BY <1>3, <1>d, <1>e

\* Every step of the rules keeps it.
LEMMA PStep == PInv /\ [P!Next]_pVars => PInv'
<1> SUFFICES ASSUME PInv, [P!Next]_pVars PROVE PInv'
  OBVIOUS
<1>0. scores \in PGrades /\ pending \in PendingCounts /\ presence \in Presence
  BY DEF PInv, PTypes
<1>1. ASSUME NEW i \in Graded, NEW score \in GradeScores \cup {Null}, P!WriteGrade(i, score)
      PROVE  PInv'
  <2>1. scores' \in PGrades /\ pending' = pending /\ presence' = presence /\ P!Changed
    BY <1>0, <1>1 DEF P!WriteGrade, PGrades
  <2> QED BY <1>0, <2>1, PWrites
<1>2. ASSUME NEW new \in PendingCounts, P!WritePending(new) PROVE PInv'
  <2>1. scores' = scores /\ pending' = new /\ presence' = presence /\ P!Changed
    BY <1>2 DEF P!WritePending
  <2> QED BY <1>0, <2>1, PWrites
<1>3. ASSUME NEW new \in Presence, P!WriteAttendance(new) PROVE PInv'
  <2>1. scores' = scores /\ pending' = pending /\ presence' = new /\ P!Changed
    BY <1>3 DEF P!WriteAttendance
  <2> QED BY <1>0, <2>1, PWrites
<1>4. CASE UNCHANGED pVars
  <2>1. P!GoodEnough' <=> P!GoodEnough
    BY <1>4 DEF pVars, P!GoodEnough
  <2>2. PTypes'
    BY <1>4 DEF pVars, PInv, PTypes
  <2>3. PUpwards'
    BY <1>4, <2>1 DEF pVars, PInv, PUpwards
  <2>4. PDownwards'
    BY <1>4, <2>1 DEF pVars, PInv, PDownwards
  <2> QED BY <2>2, <2>3, <2>4 DEF PInv
<1> QED BY <1>1, <1>2, <1>3, <1>4, PReadsGrades, PReadsPending, PReadsAttendance, PEvaluates DEF P!Next

\* The types of the rules,
LEMMA PTyped == PInv => P!TypeOK
<1> SUFFICES ASSUME PInv PROVE P!TypeOK
  OBVIOUS
<1>1. DOMAIN data = DOMAIN P!NoData
  BY DEF PInv, PTypes, P!NoData
<1> QED BY <1>1 DEF PInv, PTypes, PGrades, P!TypeOK

\* and what the verdict lies between.
LEMMA PBetween == PInv => P!VerdictBetween
<1> SUFFICES ASSUME PInv, result # Null, ~data.rounded
             PROVE  /\ ~fell => (before => result) /\ (result => P!GoodEnough)
                    /\ ~rose => (P!GoodEnough => result) /\ (result => before)
  BY DEF P!VerdictBetween
<1>1. query = Null
  BY DEF PInv, PTypes
<1> QED BY <1>1 DEF PInv, PUpwards, PDownwards

\* The promotion engine by itself, for any grades and scores of a student, any pending subjects and any attendance,
\* whatever is written between its queries: the verdict lies between what the records were
\* worth when the first query ran and what they are worth now.
THEOREM VerdictSound == P!Spec => [](P!TypeOK /\ P!VerdictBetween)
<1>1. P!Init => PInv
  BY PInitial
<1>2. PInv /\ [P!Next]_(P!vars) => PInv'
  <2>1. [P!Next]_(P!vars) => [P!Next]_pVars
    BY DEF P!vars, pVars, P!records, P!history
  <2> QED BY <2>1, PStep
<1>3. PInv => P!TypeOK /\ P!VerdictBetween
  BY PTyped, PBetween
<1> QED BY <1>1, <1>2, <1>3, PTL DEF P!Spec


-----------------------------------------------------------------------------
(* Trayectoria *)

\* A sum over one value,
LEMMA SumOne ==
    ASSUME NEW e, NEW a, e[a] \in Nat
    PROVE  SumOf({a}, e)[{a}] = e[a]
<1>a. IsFiniteSet({a})
  BY FS_Singleton, Zenon
<1> DEFINE xs == {a}
           f == SumOf(xs, e)
<1>0. Naturals(e, xs)
  BY DEF Naturals
<1>1. f[{}] = 0 /\ \A s \in SUBSET xs : \A x \in s : f[s] = f[s \ {x}] + e[x]
  <2>1. IsFiniteSet(xs)
    BY <1>a
  <2> HIDE DEF xs
  <2>2. AddsUp(f, e, xs)
    BY <1>0, <2>1, SumAdds
  <2> HIDE DEF f
  <2> QED BY <2>2 DEF AddsUp
<1> HIDE DEF f
<1>2. f[{a}] = f[{}] + e[a]
  <2>1. {a} \in SUBSET xs /\ a \in {a} /\ {a} \ {a} = {}
    OBVIOUS
  <2> HIDE DEF xs
  <2> QED BY <1>1, <2>1
<1>3. f[{a}] = e[a]
  BY <1>1, <1>2
<1> QED BY <1>3 DEF f

\* over two,
LEMMA SumTwo ==
    ASSUME NEW e, NEW a, NEW b, e[a] \in Nat, e[b] \in Nat, a # b
    PROVE  SumOf({a, b}, e)[{a, b}] = e[a] + e[b]
<1>a. IsFiniteSet({a, b})
  <2>1. IsFiniteSet({a})
    BY FS_Singleton, Zenon
  <2>2. IsFiniteSet({a} \cup {b})
    BY <2>1, FS_AddElement
  <2>3. {a} \cup {b} = {a, b}
    OBVIOUS
  <2> QED BY <2>2, <2>3
<1> DEFINE xs == {a, b}
           f == SumOf(xs, e)
<1>0. Naturals(e, xs)
  BY DEF Naturals
<1>1. f[{}] = 0 /\ \A s \in SUBSET xs : \A x \in s : f[s] = f[s \ {x}] + e[x]
  <2>1. IsFiniteSet(xs)
    BY <1>a
  <2> HIDE DEF xs
  <2>2. AddsUp(f, e, xs)
    BY <1>0, <2>1, SumAdds
  <2> HIDE DEF f
  <2> QED BY <2>2 DEF AddsUp
<1> HIDE DEF f
<1>2. f[{a, b}] = f[{a}] + e[b]
  <2>1. {a, b} \in SUBSET xs /\ b \in {a, b} /\ {a, b} \ {b} = {a}
    OBVIOUS
  <2> HIDE DEF xs
  <2> QED BY <1>1, <2>1
<1>3. f[{a}] = f[{}] + e[a]
  <2>1. {a} \in SUBSET xs /\ a \in {a} /\ {a} \ {a} = {}
    OBVIOUS
  <2> HIDE DEF xs
  <2> QED BY <1>1, <2>1
<1>4. f[{a, b}] = e[a] + e[b]
  BY <1>1, <1>2, <1>3
<1> QED BY <1>4 DEF f

\* The four of a set.
AreFour(xs, a, b, c, d) ==
    xs = {a, b, c, d} /\ a # b /\ a # c /\ a # d /\ b # c /\ b # d /\ c # d

\* and over four, added up.
LEMMA SumFour ==
    ASSUME NEW e, NEW a, NEW b, NEW c, NEW d, NEW all, AreFour(all, a, b, c, d), Naturals(e, all)
    PROVE  SumOf(all, e)[all] = e[a] + e[b] + e[c] + e[d]
<1> USE DEF AreFour
<1>a. IsFiniteSet({a, b, c, d})
  <2>1. IsFiniteSet({a})
    BY FS_Singleton, Zenon
  <2>2. IsFiniteSet({a} \cup {b})
    BY <2>1, FS_AddElement
  <2>3. IsFiniteSet(({a} \cup {b}) \cup {c})
    BY <2>2, FS_AddElement
  <2>4. IsFiniteSet((({a} \cup {b}) \cup {c}) \cup {d})
    BY <2>3, FS_AddElement
  <2>5. (({a} \cup {b}) \cup {c}) \cup {d} = {a, b, c, d}
    OBVIOUS
  <2> QED BY <2>4, <2>5
<1> DEFINE xs == {a, b, c, d}
           f == SumOf(xs, e)
<1>0. Naturals(e, xs)
  BY DEF Naturals
<1>n. e[a] \in Nat /\ e[b] \in Nat /\ e[c] \in Nat /\ e[d] \in Nat
  BY DEF Naturals
<1>1. f[{}] = 0 /\ \A s \in SUBSET xs : \A x \in s : f[s] = f[s \ {x}] + e[x]
  <2>1. IsFiniteSet(xs)
    BY <1>a
  <2> HIDE DEF xs
  <2>2. AddsUp(f, e, xs)
    BY <1>0, <2>1, SumAdds
  <2> HIDE DEF f
  <2> QED BY <2>2 DEF AddsUp
<1> HIDE DEF f
<1>2. f[{a, b, c, d}] = f[{a, b, c}] + e[d]
  <2>1. {a, b, c, d} \in SUBSET xs /\ d \in {a, b, c, d} /\ {a, b, c, d} \ {d} = {a, b, c}
    OBVIOUS
  <2> HIDE DEF xs
  <2> QED BY <1>1, <2>1
<1>3. f[{a, b, c}] = f[{a, b}] + e[c]
  <2>1. {a, b, c} \in SUBSET xs /\ c \in {a, b, c} /\ {a, b, c} \ {c} = {a, b}
    OBVIOUS
  <2> HIDE DEF xs
  <2> QED BY <1>1, <2>1
<1>4. f[{a, b}] = f[{a}] + e[b]
  <2>1. {a, b} \in SUBSET xs /\ b \in {a, b} /\ {a, b} \ {b} = {a}
    OBVIOUS
  <2> HIDE DEF xs
  <2> QED BY <1>1, <2>1
<1>5. f[{a}] = f[{}] + e[a]
  <2>1. {a} \in SUBSET xs /\ a \in {a} /\ {a} \ {a} = {}
    OBVIOUS
  <2> HIDE DEF xs
  <2> QED BY <1>1, <2>1
<1>6. f[{a, b}] = e[a] + e[b]
  BY <1>1, <1>4, <1>5, <1>n
<1>7. f[{a, b, c}] = e[a] + e[b] + e[c]
  BY <1>3, <1>6, <1>n
<1>8. f[{a, b, c, d}] = e[a] + e[b] + e[c] + e[d]
  BY <1>2, <1>7, <1>n
<1> QED BY <1>8 DEF f

\* The sum of weighted counts is one as well.
LEMMA TProducts ==
    ASSUME NEW xs, IsFiniteSet(xs), NEW c, NEW weights, \A v \in xs : c[v] * weights[v] \in Nat
    PROVE  T!MapThenSumSet(LAMBDA v : c[v] * weights[v], xs)
             = SumOf(xs, [v \in xs |-> c[v] * weights[v]])[xs]
<1> DEFINE e == [v \in xs |-> c[v] * weights[v]]
           f == SumOf(xs, e)
           h == CHOOSE r : r = [s \in SUBSET xs |->
                  IF s = {} THEN 0
                  ELSE c[CHOOSE x \in s : TRUE] * weights[CHOOSE x \in s : TRUE]
                         + r[s \ {CHOOSE x \in s : TRUE}]]
           ch == [s \in SUBSET xs |-> CHOOSE x \in s : TRUE]
<1>1. T!MapThenSumSet(LAMBDA v : c[v] * weights[v], xs) = h[xs]
  BY Zenon DEF T!MapThenSumSet, T!MapThenFoldSet
<1>2. \A s \in SUBSET xs : s # {} => ch[s] \in s /\ ch[s] = CHOOSE x \in s : TRUE
  OBVIOUS
<1>3. /\ f \in [SUBSET xs -> Nat] /\ f[{}] = 0
      /\ \A s \in SUBSET xs : \A x \in s : f[s] = f[s \ {x}] + e[x]
  <2>1. Naturals(e, xs)
    BY DEF Naturals
  <2> HIDE DEF e, h, ch
  <2>2. AddsUp(f, e, xs)
    BY <2>1, SumAdds
  <2> HIDE DEF f
  <2> QED BY <2>2 DEF AddsUp
<1> HIDE DEF f
<1>4. ASSUME NEW s \in SUBSET xs, s # {}
      PROVE  f[s] = c[CHOOSE x \in s : TRUE] * weights[CHOOSE x \in s : TRUE]
                      + f[s \ {CHOOSE x \in s : TRUE}]
  <2>1. PICK x \in s : x = CHOOSE y \in s : TRUE
    BY <1>4
  <2>2. f[s] = f[s \ {x}] + e[x] /\ e[x] = c[x] * weights[x] /\ e[x] \in Nat /\ f[s \ {x}] \in Nat
    BY <1>3, <2>1
  <2>3. f[s] = c[x] * weights[x] + f[s \ {x}]
    BY <2>2
  <2> QED BY <2>1, <2>3
<1>5. f = [s \in SUBSET xs |->
             IF s = {} THEN 0
             ELSE c[CHOOSE x \in s : TRUE] * weights[CHOOSE x \in s : TRUE]
                    + f[s \ {CHOOSE x \in s : TRUE}]]
  BY <1>3, <1>4
<1>6. h = [s \in SUBSET xs |->
             IF s = {} THEN 0
             ELSE c[CHOOSE x \in s : TRUE] * weights[CHOOSE x \in s : TRUE]
                    + h[s \ {CHOOSE x \in s : TRUE}]]
  BY <1>5, Zenon
<1> HIDE DEF h
<1>7. \A s \in SUBSET xs : f[s] = h[s]
  <2>1. f[{}] = h[{}]
    BY <1>3, <1>6
  <2>2. ASSUME NEW s \in SUBSET xs, s # {}, f[s \ {ch[s]}] = h[s \ {ch[s]}] PROVE f[s] = h[s]
    <3>1. PICK x \in s : x = ch[s] /\ x = CHOOSE y \in s : TRUE
      BY <1>2, <2>2
    <3>2. f[s] = c[x] * weights[x] + f[s \ {x}]
      BY <1>4, <2>2, <3>1
    <3>3. h[s] = c[x] * weights[x] + h[s \ {x}]
      BY <1>6, <2>2, <3>1
    <3> QED BY <2>2, <3>1, <3>2, <3>3
  <2>3. Chooses(ch, xs)
    BY <1>2 DEF Chooses
  <2>4. GoTogether(f, h, xs, ch)
    BY <2>1, <2>2 DEF GoTogether
  <2> HIDE DEF ch, e
  <2> QED BY <2>3, <2>4, FoldSame
<1>8. h[xs] = f[xs]
  BY <1>7
<1> QED BY <1>1, <1>8 DEF f


\* Evaluations of each value.
TEvaluations == [T!Values -> Nat]

\* Counts of the four values.
TCount == [T!VALID_VALUES -> Nat]

\* The old values are counted with the new ones.
LEMMA TCounts ==
    ASSUME NEW e \in TEvaluations
    PROVE  /\ T!countByValue(e) \in TCount
           /\ T!countByValue(e)["LFD"] = e["LFD"] + e["achieved"]
           /\ T!countByValue(e)["LS"] = e["LS"]
           /\ T!countByValue(e)["LP"] = e["LP"] + e["in-progress"]
           /\ T!countByValue(e)["ANL"] = e["ANL"] + e["not-achieved"]
<1>1. /\ {v \in T!Values : T!mapValue(v) = "LFD"} = {"LFD", "achieved"}
      /\ {v \in T!Values : T!mapValue(v) = "LS"} = {"LS"}
      /\ {v \in T!Values : T!mapValue(v) = "LP"} = {"LP", "in-progress"}
      /\ {v \in T!Values : T!mapValue(v) = "ANL"} = {"ANL", "not-achieved"}
  BY DEF T!Values, T!VALID_VALUES, T!mapValue
<1>2. \A v \in T!Values : e[v] \in Nat
  BY DEF TEvaluations
<1>3. /\ e["LFD"] \in Nat /\ e["achieved"] \in Nat /\ e["LS"] \in Nat /\ e["LP"] \in Nat
      /\ e["in-progress"] \in Nat /\ e["ANL"] \in Nat /\ e["not-achieved"] \in Nat
  BY <1>2 DEF T!Values, T!VALID_VALUES
<1>4. /\ SumOf({"LFD", "achieved"}, e)[{"LFD", "achieved"}] = e["LFD"] + e["achieved"]
      /\ SumOf({"LS"}, e)[{"LS"}] = e["LS"]
      /\ SumOf({"LP", "in-progress"}, e)[{"LP", "in-progress"}] = e["LP"] + e["in-progress"]
      /\ SumOf({"ANL", "not-achieved"}, e)[{"ANL", "not-achieved"}] = e["ANL"] + e["not-achieved"]
  <2>1. SumOf({"LFD", "achieved"}, e)[{"LFD", "achieved"}] = e["LFD"] + e["achieved"]
    BY <1>3, "LFD" # "achieved", SumTwo
  <2>2. SumOf({"LS"}, e)[{"LS"}] = e["LS"]
    BY <1>3, SumOne
  <2>3. SumOf({"LP", "in-progress"}, e)[{"LP", "in-progress"}] = e["LP"] + e["in-progress"]
    BY <1>3, "LP" # "in-progress", SumTwo
  <2>4. SumOf({"ANL", "not-achieved"}, e)[{"ANL", "not-achieved"}] = e["ANL"] + e["not-achieved"]
    BY <1>3, "ANL" # "not-achieved", SumTwo
  <2> QED BY <2>1, <2>2, <2>3, <2>4
<1>5. \A u \in T!VALID_VALUES :
        T!countByValue(e)[u] = T!MapThenSumSet(LAMBDA v : e[v], {v \in T!Values : T!mapValue(v) = u})
  BY DEF T!countByValue
<1>6. /\ T!countByValue(e)["LFD"] = e["LFD"] + e["achieved"]
      /\ T!countByValue(e)["LS"] = e["LS"]
      /\ T!countByValue(e)["LP"] = e["LP"] + e["in-progress"]
      /\ T!countByValue(e)["ANL"] = e["ANL"] + e["not-achieved"]
  <2>1. /\ T!countByValue(e)["LFD"] = T!MapThenSumSet(LAMBDA v : e[v], {"LFD", "achieved"})
        /\ T!countByValue(e)["LS"] = T!MapThenSumSet(LAMBDA v : e[v], {"LS"})
        /\ T!countByValue(e)["LP"] = T!MapThenSumSet(LAMBDA v : e[v], {"LP", "in-progress"})
        /\ T!countByValue(e)["ANL"] = T!MapThenSumSet(LAMBDA v : e[v], {"ANL", "not-achieved"})
    BY <1>1, <1>5 DEF T!VALID_VALUES
  <2> QED BY <1>4, <2>1, TSum
<1>7. T!countByValue(e) \in TCount
  <2>1. \A u \in T!VALID_VALUES : T!countByValue(e)[u] \in Nat
    BY <1>3, <1>6 DEF T!VALID_VALUES
  <2> DEFINE sums == [u \in T!VALID_VALUES |->
                        T!MapThenSumSet(LAMBDA v : e[v], {v \in T!Values : T!mapValue(v) = u})]
  <2>2. T!countByValue(e) = sums
    BY DEF T!countByValue
  <2>3. sums = [u \in T!VALID_VALUES |-> sums[u]]
    OBVIOUS
  <2> HIDE DEF sums
  <2>4. sums \in [T!VALID_VALUES -> Nat]
    BY <2>1, <2>2, <2>3
  <2> QED BY <2>2, <2>4 DEF TCount
<1> QED BY <1>6, <1>7

\* One more of y and one less of x, which is worth less.
TRaised(c, d, x, y) ==
    /\ c \in TCount /\ d \in TCount
    /\ x \in T!VALID_VALUES /\ y \in T!VALID_VALUES
    /\ T!DefaultWeights[y] > T!DefaultWeights[x]
    /\ c[x] > 0 /\ d = [c EXCEPT ![x] = @ - 1, ![y] = @ + 1]

\* A better evaluation raises the counts.
LEMMA TRaises ==
    ASSUME NEW e \in TEvaluations, NEW v \in T!Values, NEW w \in T!Values, e[v] > 0,
           T!Worth(w) > T!Worth(v)
    PROVE  TRaised(T!countByValue(e), T!countByValue([e EXCEPT ![v] = @ - 1, ![w] = @ + 1]),
                   T!mapValue(v), T!mapValue(w))
<1> DEFINE h == [e EXCEPT ![v] = @ - 1, ![w] = @ + 1]
           x == T!mapValue(v)
           y == T!mapValue(w)
           c == T!countByValue(e)
           d == T!countByValue(h)
<1>1. x \in T!VALID_VALUES /\ y \in T!VALID_VALUES
  BY DEF T!Values, T!VALID_VALUES, T!mapValue
<1>2. T!DefaultWeights[y] > T!DefaultWeights[x] /\ x # y /\ v # w
  BY <1>1 DEF T!Worth, T!VALID_VALUES, T!DefaultWeights
<1>3. /\ e[v] - 1 \in Nat /\ e[w] + 1 \in Nat
  BY DEF TEvaluations
<1>4. h \in TEvaluations /\ h[v] = e[v] - 1 /\ h[w] = e[w] + 1
      /\ \A z \in T!Values : z # v /\ z # w => h[z] = e[z]
  BY <1>2, <1>3 DEF TEvaluations
<1>5. /\ c["LFD"] = e["LFD"] + e["achieved"]
      /\ c["LS"] = e["LS"]
      /\ c["LP"] = e["LP"] + e["in-progress"]
      /\ c["ANL"] = e["ANL"] + e["not-achieved"]
      /\ c \in TCount
  BY TCounts
<1> HIDE DEF h
<1>6. /\ d["LFD"] = h["LFD"] + h["achieved"]
      /\ d["LS"] = h["LS"]
      /\ d["LP"] = h["LP"] + h["in-progress"]
      /\ d["ANL"] = h["ANL"] + h["not-achieved"]
      /\ d \in TCount
  BY <1>4, TCounts
<1> HIDE DEF c, d
<1>8. /\ e["LFD"] \in Nat /\ e["achieved"] \in Nat /\ e["LS"] \in Nat /\ e["LP"] \in Nat
      /\ e["in-progress"] \in Nat /\ e["ANL"] \in Nat /\ e["not-achieved"] \in Nat
      /\ h["LFD"] \in Nat /\ h["achieved"] \in Nat /\ h["LS"] \in Nat /\ h["LP"] \in Nat
      /\ h["in-progress"] \in Nat /\ h["ANL"] \in Nat /\ h["not-achieved"] \in Nat
  BY <1>4 DEF TEvaluations, T!Values, T!VALID_VALUES
<1>9. c \in TCount /\ d \in TCount
  BY <1>5, <1>6
<1>a. c[x] > 0
  BY <1>5, <1>8 DEF T!Values, T!VALID_VALUES, T!mapValue
<1>b. /\ \A u \in T!VALID_VALUES : u # x /\ u # y => d[u] = c[u]
      /\ d[x] = c[x] - 1 /\ d[y] = c[y] + 1
  <2> DEFINE less(z) == IF z = v THEN 1 ELSE 0
             more(z) == IF z = w THEN 1 ELSE 0
  <2>1. \A z \in T!Values : h[z] = e[z] - less(z) + more(z)
    BY <1>2, <1>4, <1>8 DEF TEvaluations
  <2>2. /\ d["LFD"] = c["LFD"] - (less("LFD") + less("achieved")) + (more("LFD") + more("achieved"))
        /\ d["LS"] = c["LS"] - less("LS") + more("LS")
        /\ d["LP"] = c["LP"] - (less("LP") + less("in-progress")) + (more("LP") + more("in-progress"))
        /\ d["ANL"] = c["ANL"] - (less("ANL") + less("not-achieved")) + (more("ANL") + more("not-achieved"))
    <3>1. /\ less("LFD") \in {0, 1} /\ less("achieved") \in {0, 1} /\ less("LS") \in {0, 1}
          /\ less("LP") \in {0, 1} /\ less("in-progress") \in {0, 1} /\ less("ANL") \in {0, 1}
          /\ less("not-achieved") \in {0, 1}
          /\ more("LFD") \in {0, 1} /\ more("achieved") \in {0, 1} /\ more("LS") \in {0, 1}
          /\ more("LP") \in {0, 1} /\ more("in-progress") \in {0, 1} /\ more("ANL") \in {0, 1}
          /\ more("not-achieved") \in {0, 1}
      OBVIOUS
    <3>2. /\ h["LFD"] = e["LFD"] - less("LFD") + more("LFD")
          /\ h["achieved"] = e["achieved"] - less("achieved") + more("achieved")
          /\ h["LS"] = e["LS"] - less("LS") + more("LS")
          /\ h["LP"] = e["LP"] - less("LP") + more("LP")
          /\ h["in-progress"] = e["in-progress"] - less("in-progress") + more("in-progress")
          /\ h["ANL"] = e["ANL"] - less("ANL") + more("ANL")
          /\ h["not-achieved"] = e["not-achieved"] - less("not-achieved") + more("not-achieved")
      BY <2>1 DEF T!Values, T!VALID_VALUES
    <3> HIDE DEF less, more
    <3> QED BY <1>5, <1>6, <1>8, <3>1, <3>2
  <2>3. /\ less("LFD") + less("achieved") = (IF x = "LFD" THEN 1 ELSE 0)
        /\ less("LS") = (IF x = "LS" THEN 1 ELSE 0)
        /\ less("LP") + less("in-progress") = (IF x = "LP" THEN 1 ELSE 0)
        /\ less("ANL") + less("not-achieved") = (IF x = "ANL" THEN 1 ELSE 0)
    BY DEF T!Values, T!VALID_VALUES, T!mapValue
  <2>4. /\ more("LFD") + more("achieved") = (IF y = "LFD" THEN 1 ELSE 0)
        /\ more("LS") = (IF y = "LS" THEN 1 ELSE 0)
        /\ more("LP") + more("in-progress") = (IF y = "LP" THEN 1 ELSE 0)
        /\ more("ANL") + more("not-achieved") = (IF y = "ANL" THEN 1 ELSE 0)
    BY DEF T!Values, T!VALID_VALUES, T!mapValue
  <2>5. c["LFD"] \in Nat /\ c["LS"] \in Nat /\ c["LP"] \in Nat /\ c["ANL"] \in Nat
    BY <1>9 DEF TCount, T!VALID_VALUES
  <2> HIDE DEF less, more, x, y
  <2>6. \A u \in T!VALID_VALUES :
          d[u] = c[u] - (IF x = u THEN 1 ELSE 0) + (IF y = u THEN 1 ELSE 0) /\ c[u] \in Nat
    BY <2>2, <2>3, <2>4, <2>5 DEF T!VALID_VALUES
  <2> QED BY <1>1, <1>2, <2>6
<1>c. d = [c EXCEPT ![x] = @ - 1, ![y] = @ + 1]
  <2> HIDE DEF x, y
  <2> QED BY <1>1, <1>2, <1>9, <1>b DEF TCount
<1>d. TRaised(c, d, x, y)
  BY <1>1, <1>2, <1>9, <1>a, <1>c DEF TRaised
<1> QED BY <1>d DEF c, d, h

\* The judgements in their order.
LEMMA TRank == T!Rank("TED") = 0 /\ T!Rank("TEP") = 1 /\ T!Rank("TEA") = 2
<1>1. /\ <<"TED", "TEP", "TEA">>[0 + 1] = "TED" /\ <<"TED", "TEP", "TEA">>[1 + 1] = "TEP"
      /\ <<"TED", "TEP", "TEA">>[2 + 1] = "TEA"
  OBVIOUS
<1>2. \A t, m : m \in 0 .. 2 /\ <<"TED", "TEP", "TEA">>[m + 1] = t
         => T!Rank(t) \in 0 .. 2 /\ <<"TED", "TEP", "TEA">>[T!Rank(t) + 1] = t
  BY Zenon DEF T!Rank
<1>3. \A m \in 0 .. 2 : m = 0 \/ m = 1 \/ m = 2
  OBVIOUS
<1>4. /\ T!Rank("TED") \in 0 .. 2 /\ <<"TED", "TEP", "TEA">>[T!Rank("TED") + 1] = "TED"
      /\ T!Rank("TEP") \in 0 .. 2 /\ <<"TED", "TEP", "TEA">>[T!Rank("TEP") + 1] = "TEP"
      /\ T!Rank("TEA") \in 0 .. 2 /\ <<"TED", "TEP", "TEA">>[T!Rank("TEA") + 1] = "TEA"
  <2>1. 0 \in 0 .. 2 /\ 1 \in 0 .. 2 /\ 2 \in 0 .. 2
    OBVIOUS
  <2> QED BY <1>1, <1>2, <2>1
<1> QED BY <1>1, <1>3, <1>4

\* The weighted sum, added up.
LEMMA TWeights ==
    ASSUME NEW c \in TCount
    PROVE  T!MapThenSumSet(LAMBDA v : c[v] * T!DefaultWeights[v], T!VALID_VALUES)
             = 4 * c["LFD"] + 3 * c["LS"] + 2 * c["LP"] + c["ANL"]
<1> DEFINE e == [v \in T!VALID_VALUES |-> c[v] * T!DefaultWeights[v]]
<1>1. /\ c["LFD"] \in Nat /\ c["LS"] \in Nat /\ c["LP"] \in Nat /\ c["ANL"] \in Nat
  BY DEF TCount, T!VALID_VALUES
<1>2. /\ e["LFD"] = c["LFD"] * 4 /\ e["LS"] = c["LS"] * 3 /\ e["LP"] = c["LP"] * 2
      /\ e["ANL"] = c["ANL"] * 1
  BY DEF T!VALID_VALUES, T!DefaultWeights
<1>3. /\ e["LFD"] \in Nat /\ e["LS"] \in Nat /\ e["LP"] \in Nat /\ e["ANL"] \in Nat
  <2> HIDE DEF e
  <2> QED BY <1>1, <1>2
<1>4. IsFiniteSet(T!VALID_VALUES)
  <2>1. IsFiniteSet({"LFD"})
    BY FS_Singleton, Zenon
  <2>2. IsFiniteSet({"LFD"} \cup {"LS"})
    BY <2>1, FS_AddElement
  <2>3. IsFiniteSet(({"LFD"} \cup {"LS"}) \cup {"LP"})
    BY <2>2, FS_AddElement
  <2>4. IsFiniteSet((({"LFD"} \cup {"LS"}) \cup {"LP"}) \cup {"ANL"})
    BY <2>3, FS_AddElement
  <2>5. (({"LFD"} \cup {"LS"}) \cup {"LP"}) \cup {"ANL"} = T!VALID_VALUES
    BY DEF T!VALID_VALUES
  <2> QED BY <2>4, <2>5
<1>5. \A v \in T!VALID_VALUES : c[v] * T!DefaultWeights[v] \in Nat
  <2>1. \A v \in T!VALID_VALUES : e[v] \in Nat
    <3> HIDE DEF e
    <3> QED BY <1>3 DEF T!VALID_VALUES
  <2> QED BY <2>1
<1>6. T!MapThenSumSet(LAMBDA v : c[v] * T!DefaultWeights[v], T!VALID_VALUES)
        = SumOf(T!VALID_VALUES, e)[T!VALID_VALUES]
  BY <1>4, <1>5, TProducts
<1>7. SumOf(T!VALID_VALUES, e)[T!VALID_VALUES] = e["LFD"] + e["LS"] + e["LP"] + e["ANL"]
  <2>1. T!VALID_VALUES = {"LFD", "LS", "LP", "ANL"}
    BY DEF T!VALID_VALUES
  <2> HIDE DEF e
  <2>2. SumOf(T!VALID_VALUES, e)[T!VALID_VALUES] = e["LFD"] + e["LS"] + e["LP"] + e["ANL"]
    <3>1. AreFour(T!VALID_VALUES, "LFD", "LS", "LP", "ANL")
      BY <2>1 DEF AreFour
    <3>2. Naturals(e, T!VALID_VALUES)
      BY <1>3, <2>1 DEF Naturals
    <3> QED BY <3>1, <3>2, SumFour
  <2> QED BY <2>1, <2>2
<1> HIDE DEF e
<1>8. e["LFD"] + e["LS"] + e["LP"] + e["ANL"] = 4 * c["LFD"] + 3 * c["LS"] + 2 * c["LP"] + c["ANL"]
  BY <1>1, <1>2
<1> QED BY <1>6, <1>7, <1>8


\* A raised count, spelled out.
LEMMA TSpelled ==
    ASSUME NEW c, NEW d, NEW x, NEW y, TRaised(c, d, x, y)
    PROVE  /\ c["LFD"] \in Nat /\ c["LS"] \in Nat /\ c["LP"] \in Nat /\ c["ANL"] \in Nat
           /\ d["LFD"] \in Nat /\ d["LS"] \in Nat /\ d["LP"] \in Nat /\ d["ANL"] \in Nat
           /\ \/ /\ x = "LS" /\ y = "LFD" /\ d["LS"] = c["LS"] - 1 /\ d["LFD"] = c["LFD"] + 1
                 /\ d["LP"] = c["LP"] /\ d["ANL"] = c["ANL"]
              \/ /\ x = "LP" /\ y = "LFD" /\ d["LP"] = c["LP"] - 1 /\ d["LFD"] = c["LFD"] + 1
                 /\ d["LS"] = c["LS"] /\ d["ANL"] = c["ANL"]
              \/ /\ x = "LP" /\ y = "LS" /\ d["LP"] = c["LP"] - 1 /\ d["LS"] = c["LS"] + 1
                 /\ d["LFD"] = c["LFD"] /\ d["ANL"] = c["ANL"]
              \/ /\ x = "ANL" /\ y = "LFD" /\ d["ANL"] = c["ANL"] - 1 /\ d["LFD"] = c["LFD"] + 1
                 /\ d["LS"] = c["LS"] /\ d["LP"] = c["LP"]
              \/ /\ x = "ANL" /\ y = "LS" /\ d["ANL"] = c["ANL"] - 1 /\ d["LS"] = c["LS"] + 1
                 /\ d["LFD"] = c["LFD"] /\ d["LP"] = c["LP"]
              \/ /\ x = "ANL" /\ y = "LP" /\ d["ANL"] = c["ANL"] - 1 /\ d["LP"] = c["LP"] + 1
                 /\ d["LFD"] = c["LFD"] /\ d["LS"] = c["LS"]
<1>1. \A z \in T!VALID_VALUES : c[z] \in Nat /\ d[z] \in Nat
  BY DEF TRaised, TCount
<1>2. x \in T!VALID_VALUES /\ y \in T!VALID_VALUES /\ x # y
      /\ T!DefaultWeights[y] > T!DefaultWeights[x]
  BY DEF TRaised, T!DefaultWeights, T!VALID_VALUES
<1>3. /\ d[x] = c[x] - 1 /\ d[y] = c[y] + 1
      /\ \A z \in T!VALID_VALUES : z # x /\ z # y => d[z] = c[z]
  BY <1>2 DEF TRaised, TCount
<1>4. \/ x = "LS" /\ y = "LFD"
      \/ x = "LP" /\ y \in {"LFD", "LS"}
      \/ x = "ANL" /\ y \in {"LFD", "LS", "LP"}
  BY <1>2 DEF T!VALID_VALUES, T!DefaultWeights
<1> QED BY <1>1, <1>3, <1>4 DEF T!VALID_VALUES

\* By majority,
LEMMA TMajority ==
    ASSUME NEW c, NEW d, NEW x, NEW y, TRaised(c, d, x, y)
    PROVE  \/ T!Rank(T!majorityStrategy(d)) >= T!Rank(T!majorityStrategy(c))
           \/ x = "LP" /\ c["LP"] = c["ANL"]
BY TSpelled, TRank DEF T!majorityStrategy, T!Total

\* strictly,
LEMMA TStrict ==
    ASSUME NEW c, NEW d, NEW x, NEW y, TRaised(c, d, x, y)
    PROVE  T!Rank(T!strictStrategy(d)) >= T!Rank(T!strictStrategy(c))
BY TSpelled, TRank DEF T!strictStrategy, T!Total

\* and weighted, a raised count is not to the student's disadvantage.
LEMMA TWeighted ==
    ASSUME NEW c, NEW d, NEW x, NEW y, TRaised(c, d, x, y)
    PROVE  T!Rank(T!weightedStrategy(d, T!DefaultWeights))
             >= T!Rank(T!weightedStrategy(c, T!DefaultWeights))
<1> DEFINE sum(k) == 4 * k["LFD"] + 3 * k["LS"] + 2 * k["LP"] + k["ANL"]
           judged(k) == IF T!Total(k) = 0 THEN "TED"
                        ELSE IF 100 * (sum(k) - T!Total(k)) >= 66 * (T!Total(k) * 3) THEN "TEA"
                        ELSE IF 100 * (sum(k) - T!Total(k)) >= 33 * (T!Total(k) * 3) THEN "TEP"
                        ELSE "TED"
<1>1. c \in TCount /\ d \in TCount
  BY DEF TRaised
<1>2. T!DefaultWeights["ANL"] = 1 /\ T!DefaultWeights["LFD"] = 4
  BY DEF T!DefaultWeights
<1>3. ASSUME NEW k \in TCount PROVE T!weightedStrategy(k, T!DefaultWeights) = judged(k)
  <2>1. T!Total(k) \in Nat
    BY DEF TCount, T!VALID_VALUES, T!Total
  <2>2. T!Total(k) * 1 = T!Total(k) /\ 4 - 1 = 3
    BY <2>1
  <2>3. T!MapThenSumSet(LAMBDA v : k[v] * T!DefaultWeights[v], T!VALID_VALUES) = sum(k)
    BY TWeights
  <2> HIDE DEF sum
  <2> QED BY <1>2, <2>2, <2>3 DEF T!weightedStrategy
<1>4. T!Rank(judged(d)) >= T!Rank(judged(c))
  <2>1. T!Total(d) = T!Total(c) /\ T!Total(c) \in Nat /\ sum(d) \in Nat /\ sum(c) \in Nat
        /\ sum(d) >= sum(c)
    BY TSpelled DEF T!Total
  <2> HIDE DEF sum
  <2> QED BY <2>1, TRank
<1> HIDE DEF judged
<1> QED BY <1>1, <1>3, <1>4

\* Evaluations of each value are made and changed.
LEMMA TStep == (T!Init => T!TypeOK) /\ (T!TypeOK /\ [T!Next]_valuations => T!TypeOK')
<1>1. T!Init => T!TypeOK
  BY DEF T!Init, T!TypeOK
<1>2. ASSUME T!TypeOK, NEW w \in T!VALID_VALUES, T!Evaluate(w) PROVE T!TypeOK'
  <2>1. w \in T!Values
    BY DEF T!Values
  <2> QED BY <1>2, <2>1, RecordsAssumption DEF T!TypeOK, T!Evaluate
<1>3. ASSUME T!TypeOK, NEW w \in T!VALID_VALUES, NEW v \in T!Values, T!Revise(v, w) PROVE T!TypeOK'
  <2>1. w \in T!Values
    BY DEF T!Values
  <2> QED BY <1>3, <2>1, RecordsAssumption DEF T!TypeOK, T!Revise
<1>4. T!TypeOK /\ UNCHANGED valuations => T!TypeOK'
  BY DEF T!TypeOK
<1> QED BY <1>1, <1>2, <1>3, <1>4 DEF T!Next

\* A better evaluation is not to the student's disadvantage.
LEMMA TBetter == T!TypeOK => T!BetterIsNotWorse
<1> SUFFICES ASSUME T!TypeOK, NEW v \in T!Values, NEW w \in T!Values, NEW strategy \in T!TrayectoriaStrategy,
                    valuations[v] > 0, T!Worth(w) > T!Worth(v)
             PROVE  LET better == [valuations EXCEPT ![v] = @ - 1, ![w] = @ + 1]
                        counts == T!countByValue(valuations)
                    IN  \/ T!Rank(T!computeTrayectoria(better, strategy))
                             >= T!Rank(T!computeTrayectoria(valuations, strategy))
                        \/ /\ strategy \in {"MAJORITY", "CUSTOM"}
                           /\ T!mapValue(v) = "LP" /\ counts["LP"] = counts["ANL"]
  BY DEF T!BetterIsNotWorse
<1>1. valuations \in TEvaluations
  BY DEF T!TypeOK, TEvaluations
<1>2. PICK e \in TEvaluations : e = valuations
  BY <1>1
<1> DEFINE h == [e EXCEPT ![v] = @ - 1, ![w] = @ + 1]
           c == T!countByValue(e)
           d == T!countByValue(h)
           x == T!mapValue(v)
           y == T!mapValue(w)
<1>3. TRaised(c, d, x, y)
  BY <1>2, TRaises
<1>4. /\ \/ T!Rank(T!majorityStrategy(d)) >= T!Rank(T!majorityStrategy(c))
         \/ x = "LP" /\ c["LP"] = c["ANL"]
      /\ T!Rank(T!strictStrategy(d)) >= T!Rank(T!strictStrategy(c))
      /\ T!Rank(T!weightedStrategy(d, T!DefaultWeights))
           >= T!Rank(T!weightedStrategy(c, T!DefaultWeights))
  <2> HIDE DEF c, d, x, y
  <2>1. T!Rank(T!majorityStrategy(d)) >= T!Rank(T!majorityStrategy(c)) \/ (x = "LP" /\ c["LP"] = c["ANL"])
    BY <1>3, TMajority
  <2>2. T!Rank(T!strictStrategy(d)) >= T!Rank(T!strictStrategy(c))
    BY <1>3, TStrict
  <2>3. T!Rank(T!weightedStrategy(d, T!DefaultWeights))
          >= T!Rank(T!weightedStrategy(c, T!DefaultWeights))
    BY <1>3, TWeighted
  <2> QED BY <2>1, <2>2, <2>3
<1>5. \/ T!Rank(T!computeTrayectoria(h, strategy)) >= T!Rank(T!computeTrayectoria(e, strategy))
      \/ strategy \in {"MAJORITY", "CUSTOM"} /\ x = "LP" /\ c["LP"] = c["ANL"]
  <2>1. /\ strategy = "STRICT" =>
             /\ T!computeTrayectoria(h, strategy) = T!strictStrategy(d)
             /\ T!computeTrayectoria(e, strategy) = T!strictStrategy(c)
        /\ strategy = "WEIGHTED" =>
             /\ T!computeTrayectoria(h, strategy) = T!weightedStrategy(d, T!DefaultWeights)
             /\ T!computeTrayectoria(e, strategy) = T!weightedStrategy(c, T!DefaultWeights)
        /\ strategy \in {"MAJORITY", "CUSTOM"} =>
             /\ T!computeTrayectoria(h, strategy) = T!majorityStrategy(d)
             /\ T!computeTrayectoria(e, strategy) = T!majorityStrategy(c)
    BY DEF T!computeTrayectoria
  <2>2. strategy \in {"STRICT", "WEIGHTED", "MAJORITY", "CUSTOM"}
    BY DEF T!TrayectoriaStrategy
  <2> HIDE DEF c, d, h, x
  <2> QED BY <1>4, <2>1, <2>2
<1> QED BY <1>2, <1>5

\* The judgement by itself, however many evaluations there are of each value: a better one never gives a
\* worse judgement, but for the ties by majority.
THEOREM JudgementSound == T!Init /\ [][T!Next]_valuations => [](T!TypeOK /\ T!BetterIsNotWorse)
<1>1. T!Init => T!TypeOK
  BY TStep
<1>2. T!TypeOK /\ [T!Next]_valuations => T!TypeOK'
  BY TStep
<1>3. T!TypeOK => T!TypeOK /\ T!BetterIsNotWorse
  BY TBetter
<1> QED BY <1>1, <1>2, <1>3, PTL


-----------------------------------------------------------------------------
(* The sums of a report *)

\* The largest of a set of positions.
RLast(n) == [s \in SUBSET (1 .. n) |-> R!Max(s)]

\* It is one of them.
LEMMA RLastOf == ASSUME NEW n \in Nat PROVE Chooses(RLast(n), 1 .. n)
<1> SUFFICES ASSUME NEW s \in SUBSET (1 .. n), s # {} PROVE R!Max(s) \in s
  BY DEF Chooses, RLast
<1>1. \E t \in s : \A u \in s : t >= u
  <2> DEFINE ts == {n - t : t \in s}
  <2>1. ts \in SUBSET Nat /\ ts # {}
    <3>1. \A t \in s : n - t \in Nat
      OBVIOUS
    <3>2. \E t \in s : TRUE
      OBVIOUS
    <3> QED BY <3>1, <3>2
  <2>2. PICK m \in ts : \A k \in ts : m <= k
    <3> HIDE DEF ts
    <3> QED BY <2>1, Least
  <2>3. PICK t \in s : m = n - t
    BY <2>2
  <2>4. \A u \in s : t >= u
    <3> SUFFICES ASSUME NEW u \in s PROVE t >= u
      OBVIOUS
    <3>1. n - t <= n - u
      BY <2>2, <2>3
    <3>2. t \in Nat /\ u \in Nat
      OBVIOUS
    <3> QED BY <3>1, <3>2
  <2> QED BY <2>4
<1> QED BY <1>1, Zenon DEF R!Max

\* Two that go together from position to position are the same.
LEMMA RSame ==
    ASSUME NEW n \in Nat, NEW f, NEW h, GoTogether(f, h, 1 .. n, RLast(n))
    PROVE  \A s \in SUBSET (1 .. n) : f[s] = h[s]
<1> DEFINE xs == 1 .. n
           ch == RLast(n)
<1>1. Chooses(ch, xs) /\ IsFiniteSet(xs) /\ GoTogether(f, h, xs, ch)
  BY RLastOf, FS_Interval
<1> HIDE DEF xs, ch
<1>2. \A s \in SUBSET xs : f[s] = h[s]
  BY <1>1, FoldSame
<1> QED BY <1>2 DEF xs

\* A list of naturals is summed up from its first element.
RSumOf(list) ==
    CHOOSE f : f = [s \in SUBSET (DOMAIN list) |->
        IF s = {} THEN 0 ELSE f[s \ {R!Max(s)}] + list[R!Max(s)]]

\* R!Sum does it.
LEMMA RSums == ASSUME NEW list PROVE R!Sum(list) = RSumOf(list)[DOMAIN list]
BY Zenon DEF R!Sum, R!FoldLeft, R!MapThenFoldSet, RSumOf

\* Scores are summed up likewise, as numbers or as digits.
RPlusOf(list) ==
    CHOOSE f : f = [s \in SUBSET (DOMAIN list) |->
        IF s = {} THEN [score |-> 0, decimal |-> FALSE]
        ELSE R!Plus(f[s \ {R!Max(s)}], list[R!Max(s)])]

\* The reduce does it.
LEMMA RPluses ==
    ASSUME NEW list
    PROVE  R!FoldLeft(R!Plus, [score |-> 0, decimal |-> FALSE], list) = RPlusOf(list)[DOMAIN list]
BY Zenon DEF R!FoldLeft, R!MapThenFoldSet, RPlusOf


\* f sums up the first elements of a list.
RSumming(f, n, list) ==
    /\ f \in [SUBSET (1 .. n) -> Nat] /\ f[{}] = 0
    /\ \A s \in SUBSET (1 .. n) : s # {} =>
         /\ s \ {RLast(n)[s]} \in SUBSET (1 .. n) /\ RLast(n)[s] \in 1 .. n
         /\ f[s] = f[s \ {RLast(n)[s]}] + list[RLast(n)[s]]

\* So does R!Sum.
LEMMA RSummed ==
    ASSUME NEW n \in Nat, NEW list \in [1 .. n -> Nat]
    PROVE  RSumming(RSumOf(list), n, list)
<1> DEFINE op == [p \in Nat \X (1 .. n) |-> p[1] + list[p[2]]]
           ch == RLast(n)
           g == RSumOf(list)
<1>0. Chooses(ch, 1 .. n) /\ IsFiniteSet(1 .. n)
  BY RLastOf, FS_Interval
<1>1. PICK f \in [SUBSET (1 .. n) -> Nat] : FoldsBy(f, 1 .. n, 0, op, ch)
  <2>1. Keeps(op, Nat, 1 .. n)
    BY DEF Keeps
  <2>2. 0 \in Nat
    OBVIOUS
  <2> HIDE DEF op, ch
  <2> QED BY <1>0, <2>1, <2>2, FoldExists
<1>2. f[{}] = 0
  BY <1>1 DEF FoldsBy
<1>3. ASSUME NEW s \in SUBSET (1 .. n), s # {}
      PROVE  /\ s \ {ch[s]} \in SUBSET (1 .. n) /\ ch[s] \in 1 .. n /\ ch[s] = R!Max(s)
             /\ f[s] = f[s \ {ch[s]}] + list[ch[s]]
  <2>0. ch[s] \in s
    BY <1>0, <1>3 DEF Chooses
  <2>1. s \ {ch[s]} \in SUBSET (1 .. n) /\ ch[s] \in 1 .. n
    BY <2>0
  <2>2. ch[s] = R!Max(s)
    BY DEF RLast
  <2>3. f[s] = op[<<f[s \ {ch[s]}], ch[s]>>]
    <3> HIDE DEF op, ch
    <3> QED BY <1>1, <1>3 DEF FoldsBy
  <2>4. <<f[s \ {ch[s]}], ch[s]>> \in Nat \X (1 .. n)
    <3> HIDE DEF ch
    <3> QED BY <2>1
  <2>5. f[s] = f[s \ {ch[s]}] + list[ch[s]]
    <3> HIDE DEF ch
    <3> QED BY <2>3, <2>4
  <2> QED BY <2>1, <2>2, <2>5
<1> HIDE DEF ch, op
<1>4. f = [s \in SUBSET (DOMAIN list) |->
             IF s = {} THEN 0 ELSE f[s \ {R!Max(s)}] + list[R!Max(s)]]
  <2>1. \A s \in SUBSET (1 .. n) : f[s] = IF s = {} THEN 0 ELSE f[s \ {R!Max(s)}] + list[R!Max(s)]
    BY <1>2, <1>3
  <2>2. DOMAIN list = 1 .. n
    OBVIOUS
  <2> QED BY <2>1, <2>2
<1>5. g = [s \in SUBSET (DOMAIN list) |->
             IF s = {} THEN 0 ELSE g[s \ {R!Max(s)}] + list[R!Max(s)]]
  BY <1>4, Zenon DEF RSumOf
<1> HIDE DEF g
<1>6. g[{}] = 0
  BY <1>5
<1>7. ASSUME NEW s \in SUBSET (1 .. n), s # {} PROVE g[s] = g[s \ {ch[s]}] + list[ch[s]]
  <2>1. g[s] = g[s \ {R!Max(s)}] + list[R!Max(s)]
    BY <1>5, <1>7
  <2> QED BY <1>3, <1>7, <2>1
<1>8. \A s \in SUBSET (1 .. n) : f[s] = g[s]
  <2>1. ASSUME NEW s \in SUBSET (1 .. n), s # {}, f[s \ {ch[s]}] = g[s \ {ch[s]}] PROVE f[s] = g[s]
    BY <1>3, <1>7, <2>1
  <2>2. GoTogether(f, g, 1 .. n, ch)
    BY <1>2, <1>6, <2>1 DEF GoTogether
  <2>3. GoTogether(f, g, 1 .. n, RLast(n))
    BY <2>2 DEF ch
  <2>4. \A h1, h2 : GoTogether(h1, h2, 1 .. n, RLast(n)) => \A s \in SUBSET (1 .. n) : h1[s] = h2[s]
    BY RSame
  <2> QED BY <2>3, <2>4, Zenon
<1>9. g = f
  BY <1>5, <1>8
<1>a. RSumming(f, n, list)
  BY <1>2, <1>3 DEF RSumming, ch
<1> QED BY <1>9, <1>a DEF g

\* f reduces them with R!Plus.
RAdding(f, n, list) ==
    /\ f \in [SUBSET (1 .. n) -> [score : Nat, decimal : BOOLEAN]]
    /\ f[{}] = [score |-> 0, decimal |-> FALSE]
    /\ \A s \in SUBSET (1 .. n) : s # {} =>
         f[s] = R!Plus(f[s \ {RLast(n)[s]}], list[RLast(n)[s]])

\* R!Plus gives a score, of numbers or of digits.
LEMMA RPlusType ==
    ASSUME NEW x \in [score : Nat, decimal : BOOLEAN], NEW y \in [score : Nat, decimal : BOOLEAN]
    PROVE  R!Plus(x, y) \in [score : Nat, decimal : BOOLEAN]
<1>1. x.score \in Nat /\ y.score \in Nat /\ x.score * 10 \in Nat /\ x.score * 100 \in Nat
  OBVIOUS
<1>2. x.score * 10 + y.score \in Nat /\ x.score * 100 + y.score \in Nat /\ x.score + y.score \in Nat
  BY <1>1
<1>3. x.score * (IF y.score < 10 THEN 10 ELSE 100) + y.score \in Nat
  BY <1>2
<1> QED BY <1>2, <1>3 DEF R!Plus

\* So does the reduce.
LEMMA RAdded ==
    ASSUME NEW n \in Nat, NEW list \in [1 .. n -> [score : Nat, decimal : BOOLEAN]]
    PROVE  RAdding(RPlusOf(list), n, list)
<1> DEFINE V == [score : Nat, decimal : BOOLEAN]
           zero == [score |-> 0, decimal |-> FALSE]
           op == [p \in V \X (1 .. n) |-> R!Plus(p[1], list[p[2]])]
           ch == RLast(n)
           g == RPlusOf(list)
<1>0. Chooses(ch, 1 .. n) /\ IsFiniteSet(1 .. n)
  BY RLastOf, FS_Interval
<1>1. PICK f \in [SUBSET (1 .. n) -> V] : FoldsBy(f, 1 .. n, zero, op, ch)
  <2>1. Keeps(op, V, 1 .. n)
    <3>1. ASSUME NEW x \in V, NEW i \in 1 .. n PROVE op[<<x, i>>] \in V
      <4>1. op[<<x, i>>] = R!Plus(x, list[i]) /\ list[i] \in V
        OBVIOUS
      <4> QED BY <4>1, RPlusType
    <3> HIDE DEF op, V
    <3> QED BY <3>1 DEF Keeps
  <2>2. zero \in V
    OBVIOUS
  <2> HIDE DEF op, ch, V, zero
  <2> QED BY <1>0, <2>1, <2>2, FoldExists
<1>2. f[{}] = zero
  <2> HIDE DEF zero
  <2> QED BY <1>1 DEF FoldsBy
<1>3. ASSUME NEW s \in SUBSET (1 .. n), s # {}
      PROVE  /\ ch[s] = R!Max(s)
             /\ f[s] = R!Plus(f[s \ {ch[s]}], list[ch[s]])
  <2>0. ch[s] \in s
    BY <1>0, <1>3 DEF Chooses
  <2>1. s \ {ch[s]} \in SUBSET (1 .. n) /\ ch[s] \in 1 .. n
    BY <2>0
  <2>2. ch[s] = R!Max(s)
    BY DEF RLast
  <2>3. f[s] = op[<<f[s \ {ch[s]}], ch[s]>>]
    <3> HIDE DEF op, ch, zero, V
    <3> QED BY <1>1, <1>3 DEF FoldsBy
  <2>4. <<f[s \ {ch[s]}], ch[s]>> \in V \X (1 .. n)
    <3> HIDE DEF ch, V
    <3> QED BY <2>1
  <2>5. f[s] = R!Plus(f[s \ {ch[s]}], list[ch[s]])
    <3> HIDE DEF ch, V
    <3> QED BY <2>3, <2>4
  <2> QED BY <2>2, <2>5
<1> HIDE DEF ch, op
<1>4. f = [s \in SUBSET (DOMAIN list) |->
             IF s = {} THEN [score |-> 0, decimal |-> FALSE] ELSE R!Plus(f[s \ {R!Max(s)}], list[R!Max(s)])]
  <2>1. \A s \in SUBSET (1 .. n) : f[s] = IF s = {} THEN zero ELSE R!Plus(f[s \ {R!Max(s)}], list[R!Max(s)])
    <3> HIDE DEF zero
    <3> QED BY <1>2, <1>3
  <2>2. DOMAIN list = 1 .. n
    OBVIOUS
  <2> QED BY <2>1, <2>2
<1>5. g = [s \in SUBSET (DOMAIN list) |->
             IF s = {} THEN [score |-> 0, decimal |-> FALSE] ELSE R!Plus(g[s \ {R!Max(s)}], list[R!Max(s)])]
  BY <1>4, Zenon DEF RPlusOf
<1> HIDE DEF g
<1>6. g[{}] = zero
  BY <1>5
<1> HIDE DEF zero
<1>7. ASSUME NEW s \in SUBSET (1 .. n), s # {} PROVE g[s] = R!Plus(g[s \ {ch[s]}], list[ch[s]])
  <2>1. g[s] = R!Plus(g[s \ {R!Max(s)}], list[R!Max(s)])
    BY <1>5, <1>7
  <2> QED BY <1>3, <1>7, <2>1
<1>8. \A s \in SUBSET (1 .. n) : f[s] = g[s]
  <2>1. ASSUME NEW s \in SUBSET (1 .. n), s # {}, f[s \ {ch[s]}] = g[s \ {ch[s]}] PROVE f[s] = g[s]
    BY <1>3, <1>7, <2>1
  <2>2. GoTogether(f, g, 1 .. n, ch)
    BY <1>2, <1>6, <2>1 DEF GoTogether
  <2>3. GoTogether(f, g, 1 .. n, RLast(n))
    BY <2>2 DEF ch
  <2>4. \A h1, h2 : GoTogether(h1, h2, 1 .. n, RLast(n)) => \A s \in SUBSET (1 .. n) : h1[s] = h2[s]
    BY RSame
  <2> QED BY <2>3, <2>4, Zenon
<1>9. g = f
  BY <1>5, <1>8
<1>a. RAdding(f, n, list)
  BY <1>2, <1>3 DEF RAdding, ch, zero
<1> QED BY <1>9, <1>a DEF g

\* Numbers are reduced to their sum,
LEMMA RAddsNumbers ==
    ASSUME NEW n \in Nat, NEW list \in [1 .. n -> Nat]
    PROVE  RPlusOf([i \in 1 .. n |-> [score |-> list[i], decimal |-> FALSE]])[1 .. n]
             = [score |-> RSumOf(list)[1 .. n], decimal |-> FALSE]
<1> DEFINE l2 == [i \in 1 .. n |-> [score |-> list[i], decimal |-> FALSE]]
           f == RSumOf(list)
           g == RPlusOf(l2)
           h == [s \in SUBSET (1 .. n) |-> [score |-> f[s], decimal |-> FALSE]]
           ch == RLast(n)
<1>0. Chooses(ch, 1 .. n) /\ IsFiniteSet(1 .. n)
  BY RLastOf, FS_Interval
<1>1. l2 \in [1 .. n -> [score : Nat, decimal : BOOLEAN]]
  OBVIOUS
<1>2. RSumming(f, n, list)
  BY RSummed
<1>3. RAdding(g, n, l2)
  <2> HIDE DEF l2
  <2> QED BY <1>1, RAdded
<1> HIDE DEF f, g
<1>p. \A x, y \in Nat :
        R!Plus([score |-> x, decimal |-> FALSE], [score |-> y, decimal |-> FALSE])
          = [score |-> x + y, decimal |-> FALSE]
  BY DEF R!Plus
<1>4. g[{}] = h[{}]
  BY <1>2, <1>3 DEF RSumming, RAdding
<1>5. ASSUME NEW s \in SUBSET (1 .. n), s # {}, g[s \ {ch[s]}] = h[s \ {ch[s]}] PROVE g[s] = h[s]
  <2>1. /\ s \ {ch[s]} \in SUBSET (1 .. n) /\ ch[s] \in 1 .. n
        /\ f[s] = f[s \ {ch[s]}] + list[ch[s]]
        /\ g[s] = R!Plus(g[s \ {ch[s]}], l2[ch[s]])
    BY <1>2, <1>3, <1>5 DEF RSumming, RAdding
  <2> HIDE DEF ch
  <2>2. g[s \ {ch[s]}] = [score |-> f[s \ {ch[s]}], decimal |-> FALSE]
        /\ l2[ch[s]] = [score |-> list[ch[s]], decimal |-> FALSE]
    BY <1>5, <2>1
  <2>3. g[s] = [score |-> f[s \ {ch[s]}] + list[ch[s]], decimal |-> FALSE]
    <3>1. f[s \ {ch[s]}] \in Nat /\ list[ch[s]] \in Nat
      BY <1>2, <2>1 DEF RSumming
    <3> QED BY <1>p, <2>1, <2>2, <3>1
  <2> QED BY <2>1, <2>3
<1>6. GoTogether(g, h, 1 .. n, ch)
  BY <1>4, <1>5 DEF GoTogether
<1>7. \A s \in SUBSET (1 .. n) : g[s] = h[s]
  <2> HIDE DEF h
  <2> QED BY <1>6, RSame
<1> QED BY <1>7 DEF f, g

\* and a closing score to itself.
LEMMA RAddsOne ==
    ASSUME NEW s \in Nat
    PROVE  RPlusOf(<<[score |-> s, decimal |-> TRUE]>>)[1 .. 1] = [score |-> s, decimal |-> TRUE]
<1> DEFINE list == <<[score |-> s, decimal |-> TRUE]>>
           g == RPlusOf(list)
<1>1. list \in [1 .. 1 -> [score : Nat, decimal : BOOLEAN]] /\ list[1] = [score |-> s, decimal |-> TRUE]
  <2>1. list \in Seq([score : Nat, decimal : BOOLEAN]) /\ Len(list) = 1
    OBVIOUS
  <2>2. list[1] = [score |-> s, decimal |-> TRUE]
    OBVIOUS
  <2> HIDE DEF list
  <2> QED BY <2>1, <2>2
<1>2. RAdding(g, 1, list)
  <2> HIDE DEF list
  <2> QED BY <1>1, RAdded
<1>3. RLast(1)[1 .. 1] = 1 /\ 1 .. 1 = {1} /\ 1 .. 1 # {}
  <2>1. Chooses(RLast(1), 1 .. 1)
    BY RLastOf
  <2>2. 1 .. 1 = {1}
    OBVIOUS
  <2> QED BY <2>1, <2>2 DEF Chooses
<1> HIDE DEF list, g
<1>4. g[1 .. 1] = R!Plus(g[{}], list[1]) /\ g[{}] = [score |-> 0, decimal |-> FALSE]
  <2>1. (1 .. 1) \ {RLast(1)[1 .. 1]} = {}
    BY <1>3
  <2> QED BY <1>2, <1>3, <2>1 DEF RAdding
<1>5. R!Plus([score |-> 0, decimal |-> FALSE], [score |-> s, decimal |-> TRUE]) = [score |-> s, decimal |-> TRUE]
  BY DEF R!Plus
<1> QED BY <1>1, <1>4, <1>5 DEF g, list


\* The grades of a student in a period.
RRow == [Marks -> Scores \cup {Null}]

\* The scores of a row, in some order.
RListOf(row) ==
    LET given == R!SetToSeq({g \in Marks : row[g] # Null})
    IN  [i \in 1 .. Len(given) |-> row[given[i]]]

\* They are what R!Listed lists, as many as there are.
LEMMA RLists ==
    /\ \A table, p : R!Listed(table, p) = RListOf(table[p])
    /\ \A row \in RRow : /\ Len(RListOf(row)) \in Nat
                         /\ RListOf(row) \in [1 .. Len(RListOf(row)) -> Nat]
                         /\ DOMAIN RListOf(row) = 1 .. Len(RListOf(row))
<1>1. \A table, p : R!Listed(table, p) = RListOf(table[p])
  BY DEF R!Listed, RListOf
<1>2. ASSUME NEW row \in RRow
      PROVE  /\ Len(RListOf(row)) \in Nat
             /\ RListOf(row) \in [1 .. Len(RListOf(row)) -> Nat]
             /\ DOMAIN RListOf(row) = 1 .. Len(RListOf(row))
  <2> DEFINE xs == {g \in Marks : row[g] # Null}
             given == R!SetToSeq(xs)
             c == Cardinality(xs)
  <2>1. IsFiniteSet(xs)
    BY RecordsAssumption, FS_Subset
  <2>2. c \in Nat /\ ExistsBijection(1 .. c, xs)
    BY <2>1, FS_CardinalityType
  <2>3. R!Cardinality(xs) = c
    BY DEF R!Cardinality, Cardinality
  <2>4. \E f \in [1 .. c -> xs] : R!IsInjective(f)
    <3>1. PICK f \in [1 .. c -> xs] : \A a, b \in 1 .. c : f[a] = f[b] => a = b
      <4> HIDE DEF c, xs
      <4> QED BY <2>2 DEF ExistsBijection, Bijection, Injection, IsInjective
    <3> HIDE DEF c, xs
    <3> QED BY <3>1 DEF R!IsInjective
  <2>5. given \in [1 .. c -> xs]
    <3> HIDE DEF c, xs
    <3> QED BY <2>3, <2>4, Zenon DEF R!SetToSeq
  <2>6. \A g \in xs : row[g] \in Nat
    BY RecordsAssumption DEF RRow
  <2>7. RListOf(row) = [i \in 1 .. Len(given) |-> row[given[i]]]
    BY DEF RListOf
  <2> HIDE DEF c, given, xs
  <2>8. given \in Seq(xs) /\ Len(given) = c
    BY <2>2, <2>5
  <2>9. RListOf(row) \in [1 .. c -> Nat]
    BY <2>5, <2>6, <2>7, <2>8
  <2>a. RListOf(row) \in Seq(Nat) /\ Len(RListOf(row)) = c
    BY <2>2, <2>9
  <2> QED BY <2>2, <2>9, <2>a
<1> QED BY <1>1, <1>2

\* What the scores of a row amount to.
RMeanOf(row) == R!Mean(R!Sum(RListOf(row)), Len(RListOf(row)))

\* An average is a number, or there is none.
LEMMA RMean == \A sum, n \in Nat : R!Mean(sum, n) \in Nat \cup {Null}
<1> SUFFICES ASSUME NEW sum \in Nat, NEW n \in Nat, n # 0 PROVE (200 * sum + n) \div (2 * n) \in Nat
  BY DEF R!Mean
<1>1. 200 * sum + n \in Nat /\ 2 * n \in Nat /\ 2 * n > 0
  OBVIOUS
<1>2. \A a, b \in Nat : b > 0 => a \div b \in Nat
  OBVIOUS
<1> QED BY <1>1, <1>2

\* w puts the first lists together.
RJoining(w, n, seqs) == \A i \in 1 .. n : w[i] = IF i = 1 THEN seqs[i] ELSE w[i - 1] \o seqs[i]

\* There is such a w, however many lists there are.
LEMMA RJoined ==
    ASSUME NEW V, NEW n \in Nat, NEW seqs \in [1 .. n -> Seq(V)]
    PROVE  \E w \in [1 .. n -> Seq(V)] : RJoining(w, n, seqs)
<1> DEFINE Fine(m) == \E w \in [1 .. m -> Seq(V)] : RJoining(w, m, seqs)
           bad == {m \in 0 .. n : ~Fine(m)}
<1>1. bad = {}
  <2> SUFFICES ASSUME bad # {} PROVE FALSE
    OBVIOUS
  <2>1. PICK m \in bad : \A k \in bad : m <= k
    <3>1. bad \in SUBSET Nat
      OBVIOUS
    <3> HIDE DEF bad
    <3> QED BY <3>1, Least
  <2>2. m \in 0 .. n /\ ~Fine(m)
    OBVIOUS
  <2>3. m # 0
    <3>1. ASSUME m = 0 PROVE Fine(0)
      <4> DEFINE w == [i \in 1 .. 0 |-> <<>>]
      <4>1. w \in [1 .. 0 -> Seq(V)] /\ RJoining(w, 0, seqs)
        BY DEF RJoining
      <4> HIDE DEF w
      <4> QED BY <4>1
    <3> HIDE DEF Fine
    <3> QED BY <2>2, <3>1
  <2>4. m - 1 \in 0 .. n /\ m - 1 < m /\ m \in 1 .. n
    BY <2>2, <2>3
  <2>5. Fine(m - 1)
    <3>1. m - 1 \notin bad
      <4> HIDE DEF bad
      <4> QED BY <2>1, <2>2, <2>4
    <3> HIDE DEF Fine
    <3> QED BY <2>4, <3>1
  <2>6. PICK u \in [1 .. m - 1 -> Seq(V)] : RJoining(u, m - 1, seqs)
    BY <2>5
  <2> DEFINE last == IF m = 1 THEN seqs[m] ELSE u[m - 1] \o seqs[m]
             w == [i \in 1 .. m |-> IF i = m THEN last ELSE u[i]]
  <2>7. last \in Seq(V)
    <3>1. seqs[m] \in Seq(V)
      BY <2>4
    <3>2. m # 1 => u[m - 1] \in Seq(V)
      BY <2>2, <2>4
    <3> QED BY <3>1, <3>2
  <2>8. w[m] = last /\ \A i \in 1 .. m - 1 : w[i] = u[i]
    BY <2>2, <2>4
  <2>9. w \in [1 .. m -> Seq(V)]
    <3>1. \A i \in 1 .. m : i # m => i \in 1 .. m - 1
      BY <2>2
    <3> HIDE DEF last
    <3> QED BY <2>6, <2>7, <3>1
  <2> HIDE DEF w
  <2>a. RJoining(w, m, seqs)
    <3> SUFFICES ASSUME NEW i \in 1 .. m PROVE w[i] = IF i = 1 THEN seqs[i] ELSE w[i - 1] \o seqs[i]
      BY DEF RJoining
    <3>1. CASE i = m
      <4>1. i # 1 => i - 1 \in 1 .. m - 1
        BY <2>2, <3>1
      <4>2. i # 1 => w[i - 1] = u[m - 1]
        BY <2>8, <3>1, <4>1
      <4> QED BY <2>8, <3>1, <4>2
    <3>2. CASE i # m
      <4>1. i \in 1 .. m - 1 /\ (i # 1 => i - 1 \in 1 .. m - 1)
        BY <2>2, <3>2
      <4> QED BY <2>6, <2>8, <4>1 DEF RJoining
    <3> QED BY <3>1, <3>2
  <2>b. Fine(m)
    BY <2>9, <2>a
  <2> HIDE DEF Fine
  <2> QED BY <2>2, <2>b
<1>2. Fine(n)
  <2> HIDE DEF Fine
  <2> QED BY <1>1
<1> QED BY <1>2

\* It is the only one: what it says of the last is what R!FlattenSeq gives.
LEMMA RFlat ==
    ASSUME NEW V, NEW n \in Nat \ {0}, NEW seqs \in [1 .. n -> Seq(V)],
           NEW w \in [1 .. n -> Seq(V)], RJoining(w, n, seqs)
    PROVE  R!FlattenSeq(seqs) = w[n]
<1> DEFINE g == CHOOSE f : f = [i \in 1 .. n |-> IF i = 1 THEN seqs[i] ELSE f[i - 1] \o seqs[i]]
           bad == {m \in 1 .. n : g[m] # w[m]}
<1>1. seqs \in Seq(Seq(V)) /\ Len(seqs) = n /\ n # 0
  OBVIOUS
<1>2. w = [i \in 1 .. n |-> IF i = 1 THEN seqs[i] ELSE w[i - 1] \o seqs[i]]
  BY DEF RJoining
<1>3. g = [i \in 1 .. n |-> IF i = 1 THEN seqs[i] ELSE g[i - 1] \o seqs[i]]
  BY <1>2, Zenon
<1>4. R!FlattenSeq(seqs) = g[n]
  BY <1>1 DEF R!FlattenSeq
<1> HIDE DEF g
<1>5. \A i \in 1 .. n : g[i] = IF i = 1 THEN seqs[i] ELSE g[i - 1] \o seqs[i]
  BY <1>3
<1>6. bad = {}
  <2> SUFFICES ASSUME bad # {} PROVE FALSE
    OBVIOUS
  <2>1. PICK m \in bad : \A k \in bad : m <= k
    <3>1. bad \in SUBSET Nat
      OBVIOUS
    <3> HIDE DEF bad
    <3> QED BY <3>1, Least
  <2>2. m \in 1 .. n /\ g[m] # w[m]
    OBVIOUS
  <2>3. m # 1 => m - 1 \in 1 .. n /\ m - 1 \notin bad
    <3> HIDE DEF bad
    <3> QED BY <2>1, <2>2
  <2>4. m # 1 => g[m - 1] = w[m - 1]
    BY <2>3
  <2>5. w[m] = IF m = 1 THEN seqs[m] ELSE w[m - 1] \o seqs[m]
    BY <2>2 DEF RJoining
  <2> HIDE DEF bad
  <2> QED BY <1>5, <2>2, <2>4, <2>5
<1>7. g[n] = w[n]
  <2>1. \A m \in 1 .. n : g[m] = w[m]
    BY <1>6
  <2> QED BY <2>1
<1> QED BY <1>4, <1>7

\* Tables of grades and closing grades.
RTables == [1 .. LastPeriod -> RRow]
RClosings == [1 .. LastPeriod -> R!Closing \cup {Null}]

\* What is listed for a period.
RScores == [score : Nat, decimal : BOOLEAN]

\* The scores of a period,
LEMMA RPeriod ==
    ASSUME closingGrade \in RClosings, NEW given \in RTables, NEW p \in 1 .. LastPeriod
    PROVE  /\ R!PeriodScores(p, given) \in Seq(RScores)
           /\ R!isClosed(p) => /\ closingGrade[p].closingScore \in Nat
                               /\ R!PeriodScores(p, given) = <<[score |-> closingGrade[p].closingScore, decimal |-> TRUE]>>
           /\ ~R!isClosed(p) => R!PeriodScores(p, given) =
                [i \in 1 .. Len(RListOf(given[p])) |-> [score |-> RListOf(given[p])[i], decimal |-> FALSE]]
<1>1. given[p] \in RRow
  BY DEF RTables
<1>2. PICK list : list = RListOf(given[p]) /\ list = R!Listed(given, p)
  BY RLists
<1>3. Len(list) \in Nat /\ list \in [1 .. Len(list) -> Nat] /\ DOMAIN list = 1 .. Len(list)
  BY <1>1, <1>2, RLists
<1>4. R!isClosed(p) => closingGrade[p].closingScore \in Nat
  BY RecordsAssumption DEF RClosings, R!Closing, R!isClosed
<1>5. R!isClosed(p) => R!PeriodScores(p, given) = <<[score |-> closingGrade[p].closingScore, decimal |-> TRUE]>>
  BY DEF R!PeriodScores
<1>6. ~R!isClosed(p) => R!PeriodScores(p, given) =
                [i \in 1 .. Len(list) |-> [score |-> list[i], decimal |-> FALSE]]
  BY <1>2, <1>3 DEF R!PeriodScores
<1>8. R!PeriodScores(p, given) \in Seq(RScores)
  <2>1. CASE R!isClosed(p)
    <3>1. PICK x \in RScores : x = [score |-> closingGrade[p].closingScore, decimal |-> TRUE]
      BY <1>4, <2>1 DEF RScores
    <3>2. <<x>> \in Seq(RScores)
      OBVIOUS
    <3> QED BY <1>5, <2>1, <3>1, <3>2
  <2>2. CASE ~R!isClosed(p)
    <3> DEFINE l2 == [i \in 1 .. Len(list) |-> [score |-> list[i], decimal |-> FALSE]]
    <3>1. l2 \in [1 .. Len(list) -> RScores]
      BY <1>3 DEF RScores
    <3>2. l2 \in Seq(RScores)
      <4> HIDE DEF l2
      <4> QED BY <1>3, <3>1
    <3> QED BY <1>6, <2>2, <3>2
  <2> QED BY <2>1, <2>2
<1> QED BY <1>2, <1>4, <1>5, <1>6, <1>8

\* and of a column.
LEMMA RColumn ==
    ASSUME closingGrade \in RClosings, NEW given \in RTables, NEW column \in SUBSET (1 .. LastPeriod)
    PROVE  \E list \in Seq(RScores) :
             /\ R!aggregatePeriods(column, given)
                  = R!Mean(R!FoldLeft(R!Plus, [score |-> 0, decimal |-> FALSE], list).score, Len(list))
             /\ \A p \in 1 .. LastPeriod : column = {p} => list = R!PeriodScores(p, given)
<1> DEFINE seqs == [i \in 1 .. LastPeriod |-> IF i \in column THEN R!PeriodScores(i, given) ELSE <<>>]
           list == R!FlattenSeq(seqs)
<1>0. LastPeriod \in Nat \ {0}
  BY RecordsAssumption
<1>1. \A i \in 1 .. LastPeriod : R!PeriodScores(i, given) \in Seq(RScores)
  BY RPeriod
<1>2. PICK scored \in [1 .. LastPeriod -> Seq(RScores)] :
        \A i \in 1 .. LastPeriod : scored[i] = R!PeriodScores(i, given)
  <2>1. [i \in 1 .. LastPeriod |-> R!PeriodScores(i, given)] \in [1 .. LastPeriod -> Seq(RScores)]
    BY <1>1
  <2> QED BY <2>1
<1>3. \A i \in 1 .. LastPeriod : seqs[i] = IF i \in column THEN scored[i] ELSE <<>>
  BY <1>2
<1>4. seqs \in [1 .. LastPeriod -> Seq(RScores)]
  <2>1. <<>> \in Seq(RScores)
    OBVIOUS
  <2>2. \A i \in 1 .. LastPeriod : seqs[i] \in Seq(RScores)
    <3> HIDE DEF seqs
    <3> QED BY <1>3, <2>1
  <2> QED BY <2>2
<1>5. R!aggregatePeriods(column, given)
        = R!Mean(R!FoldLeft(R!Plus, [score |-> 0, decimal |-> FALSE], list).score, Len(list))
  BY DEF R!aggregatePeriods
<1> HIDE DEF seqs
<1>6. PICK w \in [1 .. LastPeriod -> Seq(RScores)] : RJoining(w, LastPeriod, seqs)
  BY <1>0, <1>4, RJoined
<1>7. list = w[LastPeriod]
  BY <1>0, <1>4, <1>6, RFlat
<1>8. list \in Seq(RScores)
  BY <1>0, <1>6, <1>7
<1> HIDE DEF list
<1>9. ASSUME NEW p \in 1 .. LastPeriod, column = {p} PROVE list = R!PeriodScores(p, given)
  <2> DEFINE u == [i \in 1 .. LastPeriod |-> IF i < p THEN <<>> ELSE scored[p]]
  <2>1. u \in [1 .. LastPeriod -> Seq(RScores)]
    OBVIOUS
  <2>2. \A i \in 1 .. LastPeriod : u[i] = IF i < p THEN <<>> ELSE scored[p]
    OBVIOUS
  <2> HIDE DEF u
  <2>3. \A i \in 1 .. LastPeriod : seqs[i] = IF i = p THEN scored[p] ELSE <<>>
    BY <1>3, <1>9
  <2>4. \A s \in Seq(RScores) : s \o <<>> = s /\ <<>> \o s = s
    OBVIOUS
  <2>5. <<>> \in Seq(RScores) /\ scored[p] \in Seq(RScores)
    OBVIOUS
  <2>6. RJoining(u, LastPeriod, seqs)
    <3> SUFFICES ASSUME NEW i \in 1 .. LastPeriod
                 PROVE  u[i] = IF i = 1 THEN seqs[i] ELSE u[i - 1] \o seqs[i]
      BY DEF RJoining
    <3>1. i # 1 => i - 1 \in 1 .. LastPeriod
      BY <1>0
    <3>2. CASE i < p
      <4>1. u[i] = <<>> /\ seqs[i] = <<>> /\ (i # 1 => u[i - 1] = <<>>)
        BY <2>2, <2>3, <3>1, <3>2
      <4> QED BY <2>4, <2>5, <4>1
    <3>3. CASE i = p
      <4>1. u[i] = scored[p] /\ seqs[i] = scored[p] /\ (i # 1 => u[i - 1] = <<>>)
        BY <2>2, <2>3, <3>1, <3>3
      <4> QED BY <2>4, <2>5, <4>1
    <3>4. CASE i > p
      <4>1. u[i] = scored[p] /\ seqs[i] = <<>> /\ i # 1 /\ u[i - 1] = scored[p]
        BY <2>2, <2>3, <3>1, <3>4
      <4> QED BY <2>4, <2>5, <4>1
    <3> QED BY <3>2, <3>3, <3>4
  <2>7. R!FlattenSeq(seqs) = u[LastPeriod]
    BY <1>0, <1>4, <2>1, <2>6, RFlat
  <2>8. u[LastPeriod] = scored[p]
    BY <1>0, <2>2
  <2> QED BY <1>2, <2>7, <2>8 DEF list
<1> QED BY <1>5, <1>8, <1>9

\* A column has a number, or none; one of a single period has what the period amounts to.
LEMMA RAggregates ==
    ASSUME closingGrade \in RClosings, NEW given \in RTables
    PROVE  /\ \A column \in SUBSET (1 .. LastPeriod) : R!aggregatePeriods(column, given) \in Nat \cup {Null}
           /\ \A p \in 1 .. LastPeriod : R!aggregatePeriods({p}, given) =
                IF R!isClosed(p) THEN 100 * closingGrade[p].closingScore ELSE RMeanOf(given[p])
<1> DEFINE fold(list) == R!FoldLeft(R!Plus, [score |-> 0, decimal |-> FALSE], list)
<1>1. ASSUME NEW column \in SUBSET (1 .. LastPeriod)
      PROVE  R!aggregatePeriods(column, given) \in Nat \cup {Null}
  <2>1. PICK list \in Seq(RScores) :
          R!aggregatePeriods(column, given) = R!Mean(fold(list).score, Len(list))
    BY <1>1, RColumn
  <2>2. Len(list) \in Nat /\ list \in [1 .. Len(list) -> RScores] /\ DOMAIN list = 1 .. Len(list)
    OBVIOUS
  <2>3. RAdding(RPlusOf(list), Len(list), list)
    BY <2>2, RAdded DEF RScores
  <2>4. fold(list) \in RScores
    <3>1. fold(list) = RPlusOf(list)[1 .. Len(list)]
      BY <2>2, RPluses
    <3>2. 1 .. Len(list) \in SUBSET (1 .. Len(list))
      OBVIOUS
    <3> HIDE DEF fold
    <3>3. PICK n, g : n = Len(list) /\ g = RPlusOf(list)
      OBVIOUS
    <3>4. g \in [SUBSET (1 .. n) -> RScores]
      BY <2>3, <3>3 DEF RAdding, RScores
    <3>5. g[1 .. n] \in RScores
      BY <3>4
    <3> QED BY <3>1, <3>3, <3>5
  <2> HIDE DEF fold
  <2>5. fold(list).score \in Nat
    BY <2>4 DEF RScores
  <2> QED BY <2>1, <2>2, <2>5, RMean
<1>2. ASSUME NEW p \in 1 .. LastPeriod
      PROVE  R!aggregatePeriods({p}, given) =
               IF R!isClosed(p) THEN 100 * closingGrade[p].closingScore ELSE RMeanOf(given[p])
  <2>1. PICK list \in Seq(RScores) :
          /\ R!aggregatePeriods({p}, given) = R!Mean(fold(list).score, Len(list))
          /\ list = R!PeriodScores(p, given)
    <3>1. {p} \in SUBSET (1 .. LastPeriod)
      OBVIOUS
    <3>2. PICK list \in Seq(RScores) :
            /\ R!aggregatePeriods({p}, given) = R!Mean(fold(list).score, Len(list))
            /\ \A q \in 1 .. LastPeriod : {p} = {q} => list = R!PeriodScores(q, given)
      BY <3>1, RColumn
    <3> HIDE DEF fold
    <3> QED BY <3>2
  <2>2. fold(list) = RPlusOf(list)[1 .. Len(list)]
    BY RPluses
  <2> HIDE DEF fold
  <2>3. CASE R!isClosed(p)
    <3>1. PICK s \in Nat : s = closingGrade[p].closingScore
      BY <2>3, RPeriod
    <3>2. list = <<[score |-> s, decimal |-> TRUE]>>
      BY <2>1, <2>3, <3>1, RPeriod
    <3>3. Len(list) = 1
      BY <3>2
    <3>4. fold(list) = [score |-> s, decimal |-> TRUE]
      BY <2>2, <3>2, <3>3, RAddsOne
    <3>5. R!aggregatePeriods({p}, given) = R!Mean(s, 1)
      BY <2>1, <3>3, <3>4
    <3>6. R!Mean(s, 1) = 100 * s
      BY DEF R!Mean
    <3> QED BY <2>3, <3>1, <3>5, <3>6
  <2>4. CASE ~R!isClosed(p)
    <3>0. given[p] \in RRow
      BY DEF RTables
    <3>1. PICK l : l = RListOf(given[p]) /\ Len(l) \in Nat /\ l \in [1 .. Len(l) -> Nat] /\ DOMAIN l = 1 .. Len(l)
      BY <3>0, RLists
    <3>2. PICK n \in Nat : n = Len(l)
      BY <3>1
    <3>3. list = [i \in 1 .. n |-> [score |-> l[i], decimal |-> FALSE]]
      BY <2>1, <2>4, <3>1, <3>2, RPeriod
    <3>4. Len(list) = n
      BY <3>3
    <3>5. l \in [1 .. n -> Nat]
      BY <3>1, <3>2
    <3>6. fold(list) = [score |-> RSumOf(l)[1 .. n], decimal |-> FALSE]
      BY <2>2, <3>3, <3>4, <3>5, RAddsNumbers
    <3>7. R!Sum(l) = RSumOf(l)[1 .. n]
      BY <3>1, <3>2, RSums
    <3>8. R!aggregatePeriods({p}, given) = R!Mean(R!Sum(l), n)
      BY <2>1, <3>4, <3>6, <3>7
    <3> QED BY <2>4, <3>1, <3>2, <3>8 DEF RMeanOf
  <2> QED BY <2>3, <2>4
<1> QED BY <1>1, <1>2


-----------------------------------------------------------------------------
(* Reports *)

\* A closing grade that is closed.
RShut(closing) == closing # Null /\ closing.isClosed

\* What a report should give for a period.
RTruthOf(row, closing) == IF RShut(closing) THEN 100 * closing.closingScore ELSE RMeanOf(row)

\* It is what R!Truth gives.
LEMMA RTruths ==
    /\ \A table, closing, p : R!Truth(table, closing, p) = RTruthOf(table[p], closing[p])
    /\ \A p : R!isClosed(p) <=> RShut(closingGrade[p])
<1>1. ASSUME NEW table, NEW closing, NEW p PROVE R!Truth(table, closing, p) = RTruthOf(table[p], closing[p])
  <2>1. R!Listed(table, p) = RListOf(table[p])
    BY RLists
  <2> QED BY <2>1 DEF R!Truth, RTruthOf, RShut, RMeanOf
<1>2. \A p : R!isClosed(p) <=> RShut(closingGrade[p])
  BY DEF R!isClosed, RShut
<1> QED BY <1>1, <1>2

\* Tables, reads and reports have their types.
RTypes ==
    /\ grades \in RTables /\ closingGrade \in RClosings
    /\ reportPeriodAggregation # Null =>
         reportPeriodAggregation \in [columns : SUBSET SUBSET (1 .. LastPeriod), key : {"upper", "slug"}]
    /\ read # Null =>
         /\ read \in [grades : RTables, columns : {Null} \cup SUBSET SUBSET (1 .. LastPeriod)]
         /\ report = Null
    /\ report = Null \/ \A c \in DOMAIN report : c \in SUBSET (1 .. LastPeriod) /\ report[c] \in Nat \cup {Null}
    /\ lateGrades \in SUBSET (1 .. LastPeriod)

\* While a report is made, what is true of a period is among what was seen, and so is
\* what its grades amounted to when they were read, unless it has been closed since
\* before that and they are the same.
RReading ==
    read # Null =>
        \A p \in 1 .. LastPeriod :
            /\ RTruthOf(grades[p], closingGrade[p]) \in seen[p]
            /\ p \notin lateGrades =>
                 \/ RMeanOf(read.grades[p]) \in seen[p]
                 \/ RShut(closingGrade[p]) /\ grades[p] = read.grades[p]

\* What every step of a report keeps.
RInv == RTypes /\ RReading /\ R!ReportOfAMoment

\* It holds at first, when nothing is read.
LEMMA RInitial == R!Init => RInv
<1> SUFFICES ASSUME R!Init PROVE RInv
  OBVIOUS
<1>1. read = Null /\ report = Null
  BY DEF R!Init
<1>2. grades \in RTables /\ closingGrade \in RClosings
  BY DEF R!Init, R!Periods, RTables, RRow, RClosings
<1>3. reportPeriodAggregation # Null =>
         reportPeriodAggregation \in [columns : SUBSET SUBSET (1 .. LastPeriod), key : {"upper", "slug"}]
  <2>1. Aggregations \subseteq SUBSET SUBSET (1 .. LastPeriod)
    BY RecordsAssumption
  <2> QED BY <2>1 DEF R!Init
<1>4. RTypes
  BY <1>1, <1>2, <1>3 DEF RTypes, R!Init
<1> QED BY <1>1, <1>4 DEF RInv, RReading, R!ReportOfAMoment

\* A write of the others keeps it, unless it is one of a grade of a closed period.
LEMMA RWrites ==
    ASSUME RInv, NEW table \in RTables, NEW closing \in RClosings, R!Write(table, closing),
           lateGrades \subseteq lateGrades', lateGrades' \in SUBSET (1 .. LastPeriod),
           \A p \in 1 .. LastPeriod : p \notin lateGrades' => table[p] = grades[p] \/ ~RShut(closingGrade[p])
    PROVE  RInv'
<1> USE DEF RInv
<1>1. /\ grades' = table /\ closingGrade' = closing
      /\ reportPeriodAggregation' = reportPeriodAggregation /\ read' = read /\ report' = report
      /\ read = Null => seen' = seen
      /\ read # Null => seen' = [p \in 1 .. LastPeriod |-> seen[p] \cup {R!Truth(table, closing, p)}]
  BY DEF R!Write, R!Periods
<1>2. RTypes'
  BY <1>1 DEF RTypes
<1>3. RReading'
  <2> SUFFICES ASSUME read # Null, NEW p \in 1 .. LastPeriod
               PROVE  /\ RTruthOf(table[p], closing[p]) \in seen'[p]
                      /\ p \notin lateGrades' =>
                           \/ RMeanOf(read.grades[p]) \in seen'[p]
                           \/ RShut(closing[p]) /\ table[p] = read.grades[p]
    BY <1>1 DEF RReading
  <2>1. seen'[p] = seen[p] \cup {RTruthOf(table[p], closing[p])}
    BY <1>1, RTruths
  <2>2. p \notin lateGrades' =>
          \/ RMeanOf(read.grades[p]) \in seen[p]
          \/ RShut(closingGrade[p]) /\ grades[p] = read.grades[p]
    BY DEF RReading
  <2>3. CASE RMeanOf(read.grades[p]) \in seen[p]
    BY <2>1, <2>3
  <2>4. CASE RShut(closingGrade[p]) /\ grades[p] = read.grades[p] /\ p \notin lateGrades'
    <3>1. table[p] = read.grades[p]
      BY <2>4
    <3>2. ~RShut(closing[p]) => RTruthOf(table[p], closing[p]) = RMeanOf(read.grades[p])
      BY <3>1 DEF RTruthOf
    <3> QED BY <2>1, <3>1, <3>2
  <2> QED BY <2>1, <2>2, <2>3, <2>4
<1>4. R!ReportOfAMoment'
  <2> SUFFICES ASSUME report # Null, NEW p \in 1 .. LastPeriod, p \notin lateGrades', {p} \in DOMAIN report
               PROVE  report[{p}] \in seen'[p]
    BY <1>1 DEF R!ReportOfAMoment, R!Periods
  <2>1. read = Null
    BY DEF RTypes
  <2> QED BY <1>1, <2>1 DEF R!ReportOfAMoment, R!Periods
<1> QED BY <1>2, <1>3, <1>4

\* A grade is set, a period closed, or opened again.
LEMMA ROthers ==
    ASSUME RInv, NEW p \in 1 .. LastPeriod,
           \/ \E g \in Marks, score \in Scores \cup {Null} : R!SetGrade(p, g, score)
           \/ \E score \in Scores : R!Close(p, score)
           \/ R!Reopen(p)
    PROVE  RInv'
<1>0. grades \in RTables /\ closingGrade \in RClosings /\ lateGrades \in SUBSET (1 .. LastPeriod)
  BY DEF RInv, RTypes
<1>1. ASSUME NEW g \in Marks, NEW score \in Scores \cup {Null}, R!SetGrade(p, g, score) PROVE RInv'
  <2> DEFINE table == [grades EXCEPT ![p][g] = score]
  <2>1. R!Write(table, closingGrade)
        /\ lateGrades' = IF R!isClosed(p) THEN lateGrades \cup {p} ELSE lateGrades
    BY <1>1 DEF R!SetGrade
  <2>2. table \in RTables /\ \A q \in 1 .. LastPeriod : q # p => table[q] = grades[q]
    BY <1>0 DEF RTables, RRow
  <2>3. lateGrades \subseteq lateGrades' /\ lateGrades' \in SUBSET (1 .. LastPeriod)
    BY <1>0, <2>1
  <2>4. R!isClosed(p) <=> RShut(closingGrade[p])
    BY RTruths
  <2>5. PICK t \in RTables, c \in RClosings : t = table /\ c = closingGrade
    BY <1>0, <2>2
  <2>6. \A q \in 1 .. LastPeriod : q \notin lateGrades' => t[q] = grades[q] \/ ~RShut(closingGrade[q])
    BY <2>1, <2>2, <2>4, <2>5
  <2>7. R!Write(t, c)
    BY <2>1, <2>5
  <2> HIDE DEF table
  <2> QED BY <2>3, <2>6, <2>7, RWrites
<1>2. ASSUME NEW score \in Scores, R!Close(p, score) PROVE RInv'
  <2> DEFINE closing == [closingGrade EXCEPT ![p] = [isClosed |-> TRUE, closingScore |-> score]]
  <2>1. R!Write(grades, closing) /\ lateGrades' = lateGrades
    BY <1>2 DEF R!Close
  <2>2. closing \in RClosings
    BY <1>0 DEF RClosings, R!Closing
  <2>3. PICK t \in RTables, c \in RClosings : t = grades /\ c = closing
    BY <1>0, <2>2
  <2> HIDE DEF closing
  <2> QED BY <1>0, <2>1, <2>3, RWrites
<1>3. ASSUME R!Reopen(p) PROVE RInv'
  <2> DEFINE closing == [closingGrade EXCEPT ![p].isClosed = FALSE]
  <2>1. R!Write(grades, closing) /\ lateGrades' = lateGrades /\ closingGrade[p] # Null
    BY <1>3 DEF R!Reopen, R!isClosed
  <2>2. closing \in RClosings
    BY <1>0, <2>1 DEF RClosings, R!Closing
  <2>3. PICK t \in RTables, c \in RClosings : t = grades /\ c = closing
    BY <1>0, <2>2
  <2> HIDE DEF closing
  <2> QED BY <1>0, <2>1, <2>3, RWrites
<1> QED BY <1>1, <1>2, <1>3

\* The grades are read.
LEMMA RReadsGrades == ASSUME RInv, R!ReadGrades PROVE RInv'
<1> USE DEF RInv
<1>1. /\ read' = [grades |-> grades, columns |-> Null] /\ report' = Null
      /\ seen' = [p \in 1 .. LastPeriod |-> {R!Truth(grades, closingGrade, p)}]
      /\ lateGrades' \subseteq lateGrades
      /\ \A p : p \in lateGrades' <=> p \in lateGrades /\ R!isClosed(p)
      /\ grades' = grades /\ closingGrade' = closingGrade
      /\ reportPeriodAggregation' = reportPeriodAggregation
  BY DEF R!ReadGrades, R!Periods, R!tables
<1>2. RTypes'
  BY <1>1 DEF RTypes
<1>3. RReading'
  <2> SUFFICES ASSUME NEW p \in 1 .. LastPeriod
               PROVE  /\ RTruthOf(grades[p], closingGrade[p]) \in seen'[p]
                      /\ \/ RMeanOf(grades[p]) \in seen'[p]
                         \/ RShut(closingGrade[p])
    BY <1>1 DEF RReading
  <2>1. seen'[p] = {RTruthOf(grades[p], closingGrade[p])}
    BY <1>1, RTruths
  <2> QED BY <2>1 DEF RTruthOf
<1>4. R!ReportOfAMoment'
  BY <1>1 DEF R!ReportOfAMoment
<1> QED BY <1>2, <1>3, <1>4

\* The report is there.
LEMMA RReports == ASSUME RInv, R!ReadClosings PROVE RInv'
<1> USE DEF RInv
<1>1. /\ read # Null /\ read.columns # Null /\ read' = Null
      /\ report' = [c \in read.columns |-> R!aggregatePeriods(c, read.grades)]
      /\ seen' = seen /\ lateGrades' = lateGrades
      /\ grades' = grades /\ closingGrade' = closingGrade
      /\ reportPeriodAggregation' = reportPeriodAggregation
  BY DEF R!ReadClosings, R!tables
<1>2. read.grades \in RTables /\ read.columns \in SUBSET SUBSET (1 .. LastPeriod) /\ closingGrade \in RClosings
  BY <1>1 DEF RTypes
<1>3. PICK given \in RTables, columns \in SUBSET SUBSET (1 .. LastPeriod) :
        given = read.grades /\ columns = read.columns
  BY <1>2
<1>4. DOMAIN report' = columns /\ \A c \in columns : report'[c] = R!aggregatePeriods(c, given)
  BY <1>1, <1>3
<1>5. /\ \A c \in SUBSET (1 .. LastPeriod) : R!aggregatePeriods(c, given) \in Nat \cup {Null}
      /\ \A p \in 1 .. LastPeriod : R!aggregatePeriods({p}, given) =
           IF R!isClosed(p) THEN 100 * closingGrade[p].closingScore ELSE RMeanOf(given[p])
  BY <1>2, RAggregates
<1>6. RTypes'
  <2>1. \A c \in DOMAIN report' : c \in SUBSET (1 .. LastPeriod) /\ report'[c] \in Nat \cup {Null}
    BY <1>4, <1>5
  <2> QED BY <1>1, <2>1 DEF RTypes
<1>7. RReading'
  BY <1>1 DEF RReading
<1>8. R!ReportOfAMoment'
  <2> SUFFICES ASSUME NEW p \in 1 .. LastPeriod, p \notin lateGrades, {p} \in columns
               PROVE  report'[{p}] \in seen[p]
    BY <1>1, <1>4 DEF R!ReportOfAMoment, R!Periods
  <2>1. report'[{p}] = IF RShut(closingGrade[p]) THEN 100 * closingGrade[p].closingScore ELSE RMeanOf(given[p])
    BY <1>4, <1>5, RTruths
  <2>2. /\ RTruthOf(grades[p], closingGrade[p]) \in seen[p]
        /\ RMeanOf(given[p]) \in seen[p] \/ RShut(closingGrade[p])
    BY <1>1, <1>3 DEF RReading
  <2> QED BY <2>1, <2>2 DEF RTruthOf
<1> QED BY <1>6, <1>7, <1>8

\* Every step of a report keeps it.
LEMMA RStep == RInv /\ [R!Next]_rVars => RInv'
<1> SUFFICES ASSUME RInv, [R!Next]_rVars PROVE RInv'
  OBVIOUS
<1> USE DEF RInv
<1>1. CASE R!MigrateSettings
  <2>1. /\ grades' = grades /\ closingGrade' = closingGrade /\ read' = read /\ report' = report
        /\ seen' = seen /\ lateGrades' = lateGrades
        /\ reportPeriodAggregation # Null
        /\ reportPeriodAggregation' = [reportPeriodAggregation EXCEPT !.key = "slug"]
    BY <1>1 DEF R!MigrateSettings
  <2>2. reportPeriodAggregation' \in [columns : SUBSET SUBSET (1 .. LastPeriod), key : {"upper", "slug"}]
    BY <2>1 DEF RTypes
  <2>3. RTypes'
    BY <2>1, <2>2 DEF RTypes
  <2>4. RReading'
    BY <2>1 DEF RReading
  <2>5. R!ReportOfAMoment'
    BY <2>1 DEF R!ReportOfAMoment
  <2> QED BY <2>3, <2>4, <2>5
<1>2. CASE R!ReadAggregation
  <2>1. /\ grades' = grades /\ closingGrade' = closingGrade /\ report' = report
        /\ seen' = seen /\ lateGrades' = lateGrades
        /\ reportPeriodAggregation' = reportPeriodAggregation /\ read # Null
        /\ read' = [read EXCEPT !.columns =
             IF reportPeriodAggregation # Null /\ reportPeriodAggregation.key = "upper"
             THEN reportPeriodAggregation.columns ELSE R!DEFAULT_AGGREGATION]
    BY <1>2 DEF R!ReadAggregation, R!tables
  <2>2. R!DEFAULT_AGGREGATION \in SUBSET SUBSET (1 .. LastPeriod)
    BY DEF R!DEFAULT_AGGREGATION, R!Periods
  <2>3. read' \in [grades : RTables, columns : {Null} \cup SUBSET SUBSET (1 .. LastPeriod)] /\ read'.grades = read.grades
    BY <2>1, <2>2 DEF RTypes
  <2>4. RTypes'
    BY <2>1, <2>3 DEF RTypes
  <2>5. RReading'
    BY <2>1, <2>3 DEF RReading
  <2>6. R!ReportOfAMoment'
    BY <2>1 DEF R!ReportOfAMoment
  <2> QED BY <2>4, <2>5, <2>6
<1>3. CASE R!Abort
  BY <1>3 DEF R!Abort, R!tables, RTypes, RReading, R!ReportOfAMoment
<1>4. CASE UNCHANGED rVars
  BY <1>4 DEF rVars, RTypes, RReading, R!ReportOfAMoment
<1>5. ASSUME NEW p \in R!Periods,
             \/ \E g \in Marks, score \in Scores \cup {Null} : R!SetGrade(p, g, score)
             \/ \E score \in Scores : R!Close(p, score)
             \/ R!Reopen(p)
      PROVE  RInv'
  <2>1. p \in 1 .. LastPeriod
    BY DEF R!Periods
  <2> QED BY <1>5, <2>1, ROthers
<1> QED BY <1>1, <1>2, <1>3, <1>4, <1>5, RReadsGrades, RReports DEF R!Next

\* The types of a report,
LEMMA RTyped == RInv => R!TypeOK
<1> SUFFICES ASSUME RInv PROVE R!TypeOK
  OBVIOUS
<1>1. R!Periods = 1 .. LastPeriod
  BY DEF R!Periods
<1> QED BY <1>1 DEF RInv, RTypes, R!TypeOK, R!Column, RTables, RRow, RClosings

\* and the moment it is of.
LEMMA RMoment == RInv => R!ReportOfAMoment
BY DEF RInv

\* A report by itself, for any number of periods and grades and whatever columns an institution
\* configures: a report shows for each period what was true at some moment of the call.
THEOREM ReportSound == R!Spec => [](R!TypeOK /\ R!ReportOfAMoment)
<1>1. R!Init => RInv
  BY RInitial
<1>2. RInv /\ [R!Next]_(R!vars) => RInv'
  <2>1. [R!Next]_(R!vars) => [R!Next]_rVars
    BY DEF R!vars, rVars, R!tables
  <2> QED BY <2>1, RStep
<1>3. RInv => R!TypeOK /\ R!ReportOfAMoment
  BY RTyped, RMoment
<1> QED BY <1>1, <1>2, <1>3, PTL DEF R!Spec
=============================================================================
