------------------------ MODULE AcademicRecordsProofs ------------------------
(***************************************************************************)
(* Proofs about AcademicRecords.  ReqInv says what each request in flight   *)
(* may still rely on; the properties of the steps follow from it.           *)
(***************************************************************************)
EXTENDS AcademicRecords, TLAPS

Resting == {"idle", "queue", "mark", "gone"}

Checking == {"createGrade", "updateGrade", "removeGrade"}

\* What a request has read, and whether it is still so.
Reliable(r) ==
    /\ req[r].pc \notin Resting => req[r].slot \in Slots
    /\ req[r].pc \in {"updateGrade", "removeGrade"} => req[r].row \in Rows
    /\ req[r].pc \in Checking => ~ isPeriodClosed(req[r].slot) \/ r \in overtaken
    /\ req[r].pc = "reopen" => closingGrade[req[r].slot] # Null
    /\ req[r].pc = "createPending" => Failed(req[r].slot) \/ r \in overtaken
    /\ req[r].pc = "validate" =>
         /\ req[r].seen \in Configs
         /\ req[r].seen.active <= reached
         /\ req[r].seen = config \/ r \in overtaken
    /\ req[r].pc = "updateProgress" =>
         /\ pending[req[r].slot] # Null
         /\ \A p \in DOMAIN req[r].dto : p > reached => req[r].dto[p] = Null
         /\ \/ Valid(config, req[r].dto, pending[req[r].slot].results)
            \/ r \in overtaken

ReqInv == \A r \in Requests : Reliable(r)

\* Only what a completed promotion should hear of is untold.
UntoldInv == untold \cap Faulty = {} /\ (untold # {} => promotionStatus = "COMPLETED")

RecordsInv ==
    /\ TypeOK
    /\ ReqInv
    /\ config.active <= reached
    /\ NoFutureResults
    /\ UntoldInv
    /\ ChangesAreTold

-----------------------------------------------------------------------------
(* The operators *)

\* A dto is a function on some of the periods.
LEMMA DtoType ==
    ASSUME NEW dto \in UpdatePendingProgressDto
    PROVE  /\ DOMAIN dto \subseteq Periods
           /\ \A p \in DOMAIN dto : dto[p] \in Results \cup {Null}
  <1>1. PICK D \in SUBSET Periods : dto \in [D -> Results \cup {Null}]
    BY DEF UpdatePendingProgressDto
  <1> QED
    BY <1>1

\* The empty dto is one.
LEMMA NoDtoType == NoDto \in UpdatePendingProgressDto
  <1>1. NoDto \in [{} -> Results \cup {Null}]
    BY DEF NoDto
  <1>2. {} \in SUBSET Periods
    OBVIOUS
  <1> QED
    BY <1>1, <1>2 DEF UpdatePendingProgressDto

\* What a request becomes is a request.
LEMMA RequestType ==
    /\ \A pc \in Locations : After(pc) \in Request /\ After(pc).pc = pc
    /\ Idle \in Request
    /\ \A pc \in Locations, s \in Slots : [Idle EXCEPT !.pc = pc, !.slot = s] \in Request
    /\ \A pc \in Locations, s \in Slots, g \in Rows :
           [Idle EXCEPT !.pc = pc, !.slot = s, !.row = g] \in Request
    /\ \A pc \in Locations, s \in Slots, c \in Configs :
           [Idle EXCEPT !.pc = pc, !.slot = s, !.seen = c] \in Request
    /\ \A q \in Request, pc \in Locations : [q EXCEPT !.pc = pc] \in Request
    /\ \A q \in Request, dto \in UpdatePendingProgressDto :
           [q EXCEPT !.pc = "updateProgress", !.seen = Null, !.dto = dto] \in Request
  BY NoDtoType, ZenonT(30) DEF After, Idle, Request, Locations

\* A merge keeps the shape of the results.
LEMMA MergeType ==
    ASSUME NEW results \in Progress, NEW dto \in UpdatePendingProgressDto
    PROVE  /\ Merge(results, dto) \in Progress
           /\ \A p \in Periods : Merge(results, dto)[p] =
                  IF p \in DOMAIN dto THEN dto[p] ELSE results[p]
  BY DtoType DEF Merge, Progress

-----------------------------------------------------------------------------
(* Types *)

\* The initial states satisfy the invariant.
LEMMA InitInv == Init => RecordsInv
  <1> SUFFICES ASSUME Init PROVE RecordsInv
    OBVIOUS
  <1> USE RecordsAssumption
  <1>1. TypeOK
    BY RequestType DEF Init, TypeOK, IntensificationConfig
  <1>2. ReqInv
    BY DEF Init, ReqInv, Reliable, Idle, Resting, Checking
  <1>3. config.active <= reached
    BY DEF Init, IntensificationConfig, Periods
  <1>4. NoFutureResults /\ UntoldInv /\ ChangesAreTold
    BY DEF Init, NoFutureResults, UntoldInv, ChangesAreTold
  <1> QED
    BY <1>1, <1>2, <1>3, <1>4 DEF RecordsInv

\* Every step keeps the types.
LEMMA TypeStep ==
    ASSUME RecordsInv, Next
    PROVE  TypeOK'
  <1> USE RecordsAssumption
  <1>0. TypeOK /\ ReqInv
    BY DEF RecordsInv
  <1>1. ASSUME NEW r \in Requests, NEW s \in Slots, CreateGradeCheck(r, s)
        PROVE  TypeOK'
    BY <1>0, <1>1, RequestType DEF TypeOK, CreateGradeCheck, Begin, Becomes, Locations,
       dataVars, yearVars, ghostVars
  <1>2. ASSUME NEW r \in Requests, NEW s \in Slots, NEW g \in Rows, NEW pc, GradeCheck(r, s, g, pc)
        PROVE  TypeOK'
    BY <1>0, <1>2, RequestType DEF TypeOK, GradeCheck, Begin, Becomes, Locations,
       dataVars, yearVars, ghostVars
  <1>3. ASSUME NEW r \in Requests, CreateGrade(r)
        PROVE  TypeOK'
    <2>1. req[r].slot \in Slots
      BY <1>0, <1>3 DEF ReqInv, Reliable, CreateGrade, At, Resting
    <2>2. PICK g \in Rows, v \in Scores :
            grades' = [grades EXCEPT ![req[r].slot][g] = v]
      BY <1>3 DEF CreateGrade
    <2>3. grades' \in [Slots -> [Rows -> Scores \cup {Null}]]
      BY <1>0, <2>1, <2>2 DEF TypeOK
    <2> QED
      BY <1>0, <1>3, <2>3, RequestType DEF TypeOK, CreateGrade, Done, Becomes, Changed,
         Locations, yearVars
  <1>4. ASSUME NEW r \in Requests, UpdateGrade(r)
        PROVE  TypeOK'
    <2>1. req[r].slot \in Slots /\ req[r].row \in Rows
      BY <1>0, <1>4 DEF ReqInv, Reliable, UpdateGrade, At, Resting
    <2>2. PICK v \in Scores :
            grades' = [grades EXCEPT ![req[r].slot][req[r].row] = v]
      BY <1>4 DEF UpdateGrade
    <2>3. grades' \in [Slots -> [Rows -> Scores \cup {Null}]]
      BY <1>0, <2>1, <2>2 DEF TypeOK
    <2> QED
      BY <1>0, <1>4, <2>3, RequestType DEF TypeOK, UpdateGrade, Done, Becomes, Changed,
         Locations, yearVars
  <1>5. ASSUME NEW r \in Requests, RemoveGrade(r)
        PROVE  TypeOK'
    <2>1. req[r].slot \in Slots /\ req[r].row \in Rows
      BY <1>0, <1>5 DEF ReqInv, Reliable, RemoveGrade, At, Resting
    <2>2. grades' = [grades EXCEPT ![req[r].slot][req[r].row] = Null]
      BY <1>5 DEF RemoveGrade
    <2>3. grades' \in [Slots -> [Rows -> Scores \cup {Null}]]
      BY <1>0, <2>1, <2>2 DEF TypeOK
    <2>4. req' \in [Requests -> Request]
      BY <1>0, <1>5, RequestType DEF TypeOK, RemoveGrade, DoneAlone, Locations
    <2> QED
      BY <1>0, <1>5, <2>3, <2>4 DEF TypeOK, RemoveGrade, DoneAlone, Changed, yearVars
  <1>6. ASSUME NEW r \in Requests, GradeQueued(r)
        PROVE  TypeOK'
    BY <1>0, <1>6, RequestType DEF TypeOK, GradeQueued, Goto, Becomes, Locations,
       dataVars, yearVars, ghostVars
  <1>7. ASSUME NEW r \in Requests, NEW s \in Slots, Close(r, s)
        PROVE  TypeOK'
    <2>1. closingGrade' \in [Slots -> Closing \cup {Null}]
      BY <1>0, <1>7 DEF TypeOK, Close, Closing
    <2> QED
      BY <1>0, <1>7, <2>1, RequestType DEF TypeOK, Close, Begin, Becomes, Changed, Checkers,
         Locations, yearVars
  <1>8. ASSUME NEW r \in Requests, NEW s \in Slots, ReopenCheck(r, s)
        PROVE  TypeOK'
    BY <1>0, <1>8, RequestType DEF TypeOK, ReopenCheck, Begin, Becomes, Locations,
       dataVars, yearVars, ghostVars
  <1>9. ASSUME NEW r \in Requests, Reopen(r)
        PROVE  TypeOK'
    <2>1. req[r].slot \in Slots /\ closingGrade[req[r].slot] # Null
      BY <1>0, <1>9 DEF ReqInv, Reliable, Reopen, At, Resting
    <2>2. closingGrade' \in [Slots -> Closing \cup {Null}]
      BY <1>0, <1>9, <2>1 DEF TypeOK, Reopen, Closing
    <2> QED
      BY <1>0, <1>9, <2>2, RequestType DEF TypeOK, Reopen, Becomes, Changed, Checkers,
         Locations, yearVars
  <1>10. ASSUME NEW r \in Requests, NEW s \in Slots, NEW pc, PendingBegin(r, s, pc)
         PROVE  TypeOK'
    BY <1>0, <1>10, RequestType DEF TypeOK, PendingBegin, Begin, Becomes, Locations,
       dataVars, yearVars, ghostVars
  <1>11. ASSUME NEW r \in Requests, CheckClosing(r)
         PROVE  TypeOK'
    BY <1>0, <1>11, RequestType DEF TypeOK, CheckClosing, Goto, Becomes, Locations,
       dataVars, yearVars, ghostVars
  <1>12. ASSUME NEW r \in Requests, CreatePending(r)
         PROVE  TypeOK'
    <2>1. NewPending \in Pending
      BY DEF NewPending, Pending, Progress
    <2>2. pending' \in [Slots -> Pending \cup {Null}]
      BY <1>0, <1>12, <2>1 DEF TypeOK, CreatePending
    <2> QED
      BY <1>0, <1>12, <2>2, RequestType DEF TypeOK, CreatePending, Done, Becomes, Changed,
         Locations, yearVars
  <1>13. ASSUME NEW r \in Requests, UpdatePendingStatus(r)
         PROVE  TypeOK'
    <2>1. req[r].slot \in Slots
      BY <1>0, <1>13 DEF ReqInv, Reliable, UpdatePendingStatus, At, Resting
    <2>2. pending' \in [Slots -> Pending \cup {Null}]
      BY <1>0, <1>13, <2>1 DEF TypeOK, UpdatePendingStatus, Pending
    <2> QED
      BY <1>0, <1>13, <2>2, RequestType DEF TypeOK, UpdatePendingStatus, Done, Becomes,
         Changed, Locations, yearVars
  <1>14. ASSUME NEW r \in Requests, DeletePending(r)
         PROVE  TypeOK'
    <2>1. pending' \in [Slots -> Pending \cup {Null}]
      BY <1>0, <1>14 DEF TypeOK, DeletePending
    <2>2. req' \in [Requests -> Request]
      BY <1>0, <1>14, RequestType DEF TypeOK, DeletePending, DoneAlone, Locations
    <2> QED
      BY <1>0, <1>14, <2>1, <2>2 DEF TypeOK, DeletePending, DoneAlone, Changed, yearVars
  <1>15. ASSUME NEW r \in Requests, NEW s \in Slots, ReadConfig(r, s)
         PROVE  TypeOK'
    BY <1>0, <1>15, RequestType DEF TypeOK, ReadConfig, Begin, Becomes, Locations,
       dataVars, yearVars, ghostVars
  <1>16. ASSUME NEW r \in Requests, ValidatePeriodEdition(r)
         PROVE  TypeOK'
    <2>1. PICK dto \in UpdatePendingProgressDto :
            Becomes(r, [req[r] EXCEPT !.pc = "updateProgress", !.seen = Null, !.dto = dto])
      BY <1>16 DEF ValidatePeriodEdition
    <2>2. req' \in [Requests -> Request]
      BY <1>0, <2>1, RequestType DEF TypeOK, Becomes
    <2> QED
      BY <1>0, <1>16, <2>2 DEF TypeOK, ValidatePeriodEdition, dataVars, yearVars, ghostVars
  <1>17. ASSUME NEW r \in Requests, UpdatePendingProgress(r)
         PROVE  TypeOK'
    <2>1. req[r].slot \in Slots /\ pending[req[r].slot] # Null
      BY <1>0, <1>17 DEF ReqInv, Reliable, UpdatePendingProgress, At, Resting
    <2>2. pending[req[r].slot] \in Pending /\ req[r].dto \in UpdatePendingProgressDto
      BY <1>0, <2>1 DEF TypeOK, Request
    <2>3. Merge(pending[req[r].slot].results, req[r].dto) \in Progress
      BY <2>2, MergeType DEF Pending
    <2>4. pending' \in [Slots -> Pending \cup {Null}]
      BY <1>0, <1>17, <2>1, <2>2, <2>3 DEF TypeOK, UpdatePendingProgress, Pending
    <2> QED
      BY <1>0, <1>17, <2>4, RequestType DEF TypeOK, UpdatePendingProgress, HoldersOfPending,
         Becomes, Changed, Locations, yearVars
  <1>18. ASSUME NEW r \in Requests, Mark(r)
         PROVE  TypeOK'
    BY <1>0, <1>18, RequestType DEF TypeOK, Mark, markStaleIfCompleted, Becomes,
       dataVars, ghostVars
  <1>19. ASSUME NEW r \in Requests, Abort(r)
         PROVE  TypeOK'
    BY <1>0, <1>19, RequestType DEF TypeOK, Abort, Done, Becomes, Locations,
       dataVars, yearVars
  <1>20. CASE UpdateSettings
    BY <1>0, <1>20 DEF TypeOK, UpdateSettings, IntensificationConfig, yearVars
  <1>21. CASE Finalize \/ Revert \/ RecalculateSummary
    BY <1>0, <1>21 DEF TypeOK, Finalize, Revert, RecalculateSummary, dataVars
  <1> QED
    BY <1>1, <1>2, <1>3, <1>4, <1>5, <1>6, <1>7, <1>8, <1>9, <1>10, <1>11, <1>12, <1>13,
       <1>14, <1>15, <1>16, <1>17, <1>18, <1>19, <1>20, <1>21 DEF Next

-----------------------------------------------------------------------------
(* What the requests in flight rely on *)

\* A request that the step leaves alone still relies on the same things, when
\* the step keeps them for it or overtakes it.
LEMMA StillReliable ==
    ASSUME NEW q \in Requests, Reliable(q), req'[q] = req[q],
           q \in overtaken => q \in overtaken',
           reached' \in Int, reached \in Int, reached <= reached', TypeOK,
           req[q].pc \in Checking =>
               (isPeriodClosed(req[q].slot)' => isPeriodClosed(req[q].slot)) \/ q \in overtaken',
           req[q].pc = "reopen" => closingGrade'[req[q].slot] # Null,
           req[q].pc = "createPending" =>
               (Failed(req[q].slot) => Failed(req[q].slot)') \/ q \in overtaken',
           req[q].pc = "validate" => config' = config \/ q \in overtaken',
           req[q].pc = "updateProgress" =>
               /\ pending'[req[q].slot] # Null
               /\ \/ Valid(config, req[q].dto, pending[req[q].slot].results)
                     => Valid(config', req[q].dto, pending'[req[q].slot].results)
                  \/ q \in overtaken'
    PROVE  Reliable(q)'
  <1>1. req'[q].pc \notin Resting => req'[q].slot \in Slots
    BY DEF Reliable
  <1>2. req'[q].pc \in {"updateGrade", "removeGrade"} => req'[q].row \in Rows
    BY DEF Reliable
  <1>3. req'[q].pc \in Checking => (~ isPeriodClosed(req[q].slot))' \/ q \in overtaken'
    BY DEF Reliable, isPeriodClosed
  <1>4. req'[q].pc = "reopen" => closingGrade'[req'[q].slot] # Null
    OBVIOUS
  <1>5. req'[q].pc = "createPending" => Failed(req[q].slot)' \/ q \in overtaken'
    BY DEF Reliable, Failed, isPeriodClosed
  <1>6. req'[q].pc = "validate" =>
         /\ req'[q].seen \in Configs
         /\ req'[q].seen.active <= reached'
         /\ req'[q].seen = config' \/ q \in overtaken'
    <2> SUFFICES ASSUME req[q].pc = "validate" PROVE req'[q].seen.active <= reached'
      BY DEF Reliable
    <2>1. req[q].seen \in Configs /\ req[q].seen.active <= reached
      BY DEF Reliable
    <2>2. req[q].seen.active \in Int
      BY <2>1, RecordsAssumption DEF IntensificationConfig, Periods
    <2> QED
      BY <2>1, <2>2
  <1>7. req'[q].pc = "updateProgress" =>
         \A p \in DOMAIN req'[q].dto : p > reached' => req'[q].dto[p] = Null
    <2> SUFFICES ASSUME req[q].pc = "updateProgress",
                        NEW p \in DOMAIN req[q].dto, p > reached'
                 PROVE  req[q].dto[p] = Null
      OBVIOUS
    <2>1. req[q].dto \in UpdatePendingProgressDto
      BY DEF TypeOK, Request
    <2>2. p \in Int
      BY <2>1, DtoType, RecordsAssumption DEF Periods
    <2>3. p > reached
      BY <2>2
    <2> QED
      BY <2>3 DEF Reliable
  <1>8. req'[q].pc = "updateProgress" =>
         \/ Valid(config', req'[q].dto, pending'[req'[q].slot].results)
         \/ q \in overtaken'
    BY DEF Reliable
  <1> QED
    BY <1>1, <1>2, <1>3, <1>4, <1>5, <1>6, <1>7, <1>8 DEF Reliable, Checking

\* A request in a resting place relies on nothing.
LEMMA RestingReliable ==
    ASSUME NEW q \in Requests, req'[q].pc \in Resting
    PROVE  Reliable(q)'
  BY DEF Reliable, Resting, Checking

\* A step that changes neither closing grades, pending subjects nor settings.
LEMMA OthersReliable ==
    ASSUME NEW q \in Requests, Reliable(q), TypeOK, req'[q] = req[q],
           q \in overtaken => q \in overtaken',
           UNCHANGED <<closingGrade, pending, config, reached>>
    PROVE  Reliable(q)'
  <1>1. reached' \in Int /\ reached \in Int /\ reached <= reached'
    BY RecordsAssumption DEF TypeOK, Periods
  <1> QED
    BY <1>1, StillReliable DEF isPeriodClosed, Failed, Reliable

\* Every step keeps what the requests rely on.
LEMMA ReqStep ==
    ASSUME RecordsInv, Next, TypeOK'
    PROVE  ReqInv'
  <1> USE RecordsAssumption
  <1>0. TypeOK /\ ReqInv
    BY DEF RecordsInv
  <1>a. reached \in Int /\ reached' \in Int
    BY <1>0 DEF TypeOK, Periods
  <1>b. \A q \in Requests : Reliable(q)
    BY <1>0 DEF ReqInv
  <1>1. ASSUME NEW r \in Requests, NEW s \in Slots, CreateGradeCheck(r, s)
        PROVE  ReqInv'
    <2>1. \A q \in Requests \ {r} : Reliable(q)'
      BY <1>0, <1>b, <1>1, OthersReliable DEF CreateGradeCheck, Begin, Becomes, TypeOK,
         dataVars, ghostVars
    <2>2. req'[r] = [Idle EXCEPT !.pc = "createGrade", !.slot = s]
      BY <1>0, <1>1 DEF CreateGradeCheck, Begin, Becomes, TypeOK
    <2>3. Reliable(r)'
      BY <1>1, <2>2 DEF CreateGradeCheck, Reliable, Idle, Resting, Checking, isPeriodClosed,
         dataVars
    <2> QED
      BY <2>1, <2>3 DEF ReqInv
  <1>2. ASSUME NEW r \in Requests, NEW s \in Slots, NEW g \in Rows, NEW pc, GradeCheck(r, s, g, pc)
        PROVE  ReqInv'
    <2>1. \A q \in Requests \ {r} : Reliable(q)'
      BY <1>0, <1>b, <1>2, OthersReliable DEF GradeCheck, Begin, Becomes, TypeOK,
         dataVars, ghostVars
    <2>2. req'[r] = [Idle EXCEPT !.pc = pc, !.slot = s, !.row = g]
      BY <1>0, <1>2 DEF GradeCheck, Begin, Becomes, TypeOK
    <2>3. Reliable(r)'
      BY <1>2, <2>2 DEF GradeCheck, Reliable, Idle, Resting, Checking, isPeriodClosed,
         dataVars
    <2> QED
      BY <2>1, <2>3 DEF ReqInv
  <1>3. ASSUME NEW r \in Requests, CreateGrade(r) \/ UpdateGrade(r)
        PROVE  ReqInv'
    <2>1. \A q \in Requests \ {r} : Reliable(q)'
      BY <1>0, <1>b, <1>3, OthersReliable DEF CreateGrade, UpdateGrade, Done, Becomes, TypeOK
    <2>2. req'[r].pc \in Resting
      BY <1>0, <1>3 DEF CreateGrade, UpdateGrade, Done, Becomes, After, Idle, TypeOK, Resting
    <2> QED
      BY <2>1, <2>2, RestingReliable DEF ReqInv
  <1>4. ASSUME NEW r \in Requests, RemoveGrade(r)
        PROVE  ReqInv'
    <2> DEFINE L == HoldersOfGrade(req[r].slot, req[r].row) \cup {r}
    <2>1. \A q \in Requests \ L : Reliable(q)'
      BY <1>0, <1>b, <1>4, OthersReliable DEF RemoveGrade, DoneAlone, TypeOK
    <2>2. \A q \in Requests : q \in L => req'[q].pc \in Resting
      BY <1>4 DEF RemoveGrade, DoneAlone, After, Idle, Resting
    <2> QED
      BY <2>1, <2>2, RestingReliable DEF ReqInv
  <1>5. ASSUME NEW r \in Requests, GradeQueued(r)
        PROVE  ReqInv'
    <2>1. \A q \in Requests \ {r} : Reliable(q)'
      BY <1>0, <1>b, <1>5, OthersReliable DEF GradeQueued, Goto, Becomes, TypeOK,
         dataVars, ghostVars
    <2>2. req'[r].pc \in Resting
      BY <1>0, <1>5 DEF GradeQueued, Goto, Becomes, TypeOK, Request, Resting
    <2> QED
      BY <2>1, <2>2, RestingReliable DEF ReqInv
  <1>6. ASSUME NEW r \in Requests, NEW s \in Slots, Close(r, s)
        PROVE  ReqInv'
    <2>1. ASSUME NEW q \in Requests \ {r} PROVE Reliable(q)'
      <3>1. req'[q] = req[q]
        BY <1>0, <1>6, <2>1 DEF Close, Begin, Becomes, TypeOK
      <3>2. \/ q \in overtaken'
            \/ /\ req[q].pc \notin Checking \cup {"createPending"} \/ req[q].slot # s
        BY <1>6, <2>1 DEF Close, Checkers, Checking
      <3>3. req[q].slot # s => closingGrade'[req[q].slot] = closingGrade[req[q].slot]
        BY <1>0, <1>6, <1>b, <2>1 DEF Close, TypeOK
      <3>4. req[q].pc = "reopen" => closingGrade'[req[q].slot] # Null
        <4>1. PICK fails \in BOOLEAN :
                closingGrade' = [closingGrade EXCEPT ![s] = [isClosed |-> TRUE, fails |-> fails]]
          BY <1>6 DEF Close
        <4>2. closingGrade'[s] \in Closing
          BY <1>0, <4>1 DEF TypeOK, Closing
        <4> QED
          BY <1>b, <2>1, <3>3, <4>2 DEF Reliable
      <3> QED
        BY <1>0, <1>a, <1>b, <1>6, <2>1, <3>1, <3>2, <3>3, <3>4, StillReliable
           DEF Close, isPeriodClosed, Failed, Reliable
    <2>2. req'[r].pc \in Resting
      BY <1>0, <1>6 DEF Close, Begin, Becomes, After, Idle, TypeOK, Resting
    <2> QED
      BY <2>1, <2>2, RestingReliable DEF ReqInv
  <1>7. ASSUME NEW r \in Requests, NEW s \in Slots, ReopenCheck(r, s)
        PROVE  ReqInv'
    <2>1. \A q \in Requests \ {r} : Reliable(q)'
      BY <1>0, <1>b, <1>7, OthersReliable DEF ReopenCheck, Begin, Becomes, TypeOK,
         dataVars, ghostVars
    <2>2. req'[r] = [Idle EXCEPT !.pc = "reopen", !.slot = s]
      BY <1>0, <1>7 DEF ReopenCheck, Begin, Becomes, TypeOK
    <2>3. Reliable(r)'
      BY <1>7, <2>2 DEF ReopenCheck, Reliable, Idle, Resting, Checking, isPeriodClosed,
         dataVars
    <2> QED
      BY <2>1, <2>3 DEF ReqInv
  <1>8. ASSUME NEW r \in Requests, Reopen(r)
        PROVE  ReqInv'
    <2>0. req[r].slot \in Slots /\ closingGrade[req[r].slot] \in Closing
      BY <1>0, <1>b, <1>8 DEF Reopen, At, Reliable, Resting, TypeOK
    <2>1. ASSUME NEW q \in Requests \ {r} PROVE Reliable(q)'
      <3>1. req'[q] = req[q]
        BY <1>0, <1>8, <2>1 DEF Reopen, Becomes, TypeOK
      <3>2. \/ q \in overtaken'
            \/ req[q].pc \notin Checking \cup {"createPending"}
            \/ req[q].slot # req[r].slot
        BY <1>8, <2>1 DEF Reopen, Checkers, Checking
      <3>3. req[q].slot # req[r].slot => closingGrade'[req[q].slot] = closingGrade[req[q].slot]
        BY <1>0, <1>8, <1>b, <2>1 DEF Reopen, TypeOK
      <3>4. req[q].pc = "reopen" => closingGrade'[req[q].slot] # Null
        <4>1. closingGrade'[req[r].slot] \in Closing
          BY <1>0, <1>8, <2>0 DEF Reopen, TypeOK, Closing
        <4> QED
          BY <1>b, <2>1, <3>3, <4>1 DEF Reliable
      <3> QED
        BY <1>0, <1>a, <1>b, <1>8, <2>1, <3>1, <3>2, <3>3, <3>4, StillReliable, SMTT(30)
           DEF Reopen, isPeriodClosed, Failed, Reliable
    <2>2. req'[r].pc \in Resting
      BY <1>0, <1>8 DEF Reopen, Becomes, After, Idle, TypeOK, Resting
    <2> QED
      BY <2>1, <2>2, RestingReliable DEF ReqInv
  <1>9. ASSUME NEW r \in Requests, NEW s \in Slots, NEW pc, PendingBegin(r, s, pc)
        PROVE  ReqInv'
    <2>1. \A q \in Requests \ {r} : Reliable(q)'
      BY <1>0, <1>b, <1>9, OthersReliable DEF PendingBegin, Begin, Becomes, TypeOK,
         dataVars, ghostVars
    <2>2. req'[r] = [Idle EXCEPT !.pc = pc, !.slot = s]
      BY <1>0, <1>9 DEF PendingBegin, Begin, Becomes, TypeOK
    <2>3. Reliable(r)'
      BY <1>9, <2>2 DEF PendingBegin, Reliable, Idle, Resting, Checking
    <2> QED
      BY <2>1, <2>3 DEF ReqInv
  <1>10. ASSUME NEW r \in Requests, CheckClosing(r)
         PROVE  ReqInv'
    <2>1. \A q \in Requests \ {r} : Reliable(q)'
      BY <1>0, <1>b, <1>10, OthersReliable DEF CheckClosing, Goto, Becomes, TypeOK,
         dataVars, ghostVars
    <2>2. req'[r].pc = "createPending" /\ req'[r].slot = req[r].slot
      BY <1>0, <1>10 DEF CheckClosing, Goto, Becomes, TypeOK, Request
    <2>3. req[r].slot \in Slots
      BY <1>b, <1>10 DEF CheckClosing, At, Reliable, Resting
    <2>4. Reliable(r)'
      BY <1>10, <2>2, <2>3 DEF CheckClosing, Reliable, Resting, Checking, Failed,
         isPeriodClosed, dataVars
    <2> QED
      BY <2>1, <2>4 DEF ReqInv
  <1>11. ASSUME NEW r \in Requests, CreatePending(r)
         PROVE  ReqInv'
    <2>1. ASSUME NEW q \in Requests \ {r} PROVE Reliable(q)'
      <3>1. req'[q] = req[q]
        BY <1>0, <1>11, <2>1 DEF CreatePending, Done, Becomes, TypeOK
      <3>2. req[q].pc = "updateProgress" => req[q].slot # req[r].slot
        BY <1>b, <1>11, <2>1 DEF CreatePending, Reliable
      <3>3. req[q].pc = "updateProgress" => pending'[req[q].slot] = pending[req[q].slot]
        BY <1>0, <1>11, <1>b, <2>1, <3>2 DEF CreatePending, TypeOK, Reliable, Resting
      <3> QED
        BY <1>0, <1>a, <1>b, <1>11, <2>1, <3>1, <3>3, StillReliable
           DEF CreatePending, Done, isPeriodClosed, Failed, Reliable
    <2>2. req'[r].pc \in Resting
      BY <1>0, <1>11 DEF CreatePending, Done, Becomes, After, Idle, TypeOK, Resting
    <2> QED
      BY <2>1, <2>2, RestingReliable DEF ReqInv
  <1>12. ASSUME NEW r \in Requests, UpdatePendingStatus(r)
         PROVE  ReqInv'
    <2>1. ASSUME NEW q \in Requests \ {r} PROVE Reliable(q)'
      <3>1. req'[q] = req[q]
        BY <1>0, <1>12, <2>1 DEF UpdatePendingStatus, Done, Becomes, TypeOK
      <3>2. req[q].pc = "updateProgress" =>
              /\ pending'[req[q].slot] # Null
              /\ pending'[req[q].slot].results = pending[req[q].slot].results
        <4>1. PICK status \in Statuses :
                pending' = [pending EXCEPT ![req[r].slot].status = status]
          BY <1>12 DEF UpdatePendingStatus
        <4>2. SUFFICES ASSUME req[q].pc = "updateProgress"
                       PROVE  /\ pending'[req[q].slot] # Null
                              /\ pending'[req[q].slot].results = pending[req[q].slot].results
          OBVIOUS
        <4>3. req[q].slot \in Slots /\ pending[req[q].slot] \in Pending
          BY <1>0, <1>b, <2>1, <4>2 DEF Reliable, Resting, TypeOK
        <4>4. pending'[req[q].slot] \in Pending
          BY <1>0, <4>1, <4>3 DEF TypeOK, Pending
        <4> QED
          BY <1>0, <4>1, <4>3, <4>4 DEF TypeOK, Pending
      <3> QED
        BY <1>0, <1>a, <1>b, <1>12, <2>1, <3>1, <3>2, StillReliable, SMTT(30)
           DEF UpdatePendingStatus, Done, isPeriodClosed, Failed, Reliable
    <2>2. req'[r].pc \in Resting
      BY <1>0, <1>12 DEF UpdatePendingStatus, Done, Becomes, After, Idle, TypeOK, Resting
    <2> QED
      BY <2>1, <2>2, RestingReliable DEF ReqInv
  <1>13. ASSUME NEW r \in Requests, DeletePending(r)
         PROVE  ReqInv'
    <2> DEFINE L == HoldersOfPending(req[r].slot) \cup {r}
    <2>1. ASSUME NEW q \in Requests \ L PROVE Reliable(q)'
      <3>1. req'[q] = req[q]
        BY <1>0, <1>13, <2>1 DEF DeletePending, DoneAlone, TypeOK
      <3>2. req[q].pc = "updateProgress" => req[q].slot # req[r].slot
        BY <2>1 DEF HoldersOfPending, At
      <3>3. req[q].pc = "updateProgress" => pending'[req[q].slot] = pending[req[q].slot]
        BY <1>0, <1>13, <1>b, <2>1, <3>2 DEF DeletePending, TypeOK, Reliable, Resting
      <3> QED
        BY <1>0, <1>a, <1>b, <1>13, <2>1, <3>1, <3>3, StillReliable
           DEF DeletePending, DoneAlone, isPeriodClosed, Failed, Reliable
    <2>2. \A q \in Requests : q \in L => req'[q].pc \in Resting
      BY <1>13 DEF DeletePending, DoneAlone, After, Idle, Resting
    <2> QED
      BY <2>1, <2>2, RestingReliable DEF ReqInv
  <1>14. ASSUME NEW r \in Requests, NEW s \in Slots, ReadConfig(r, s)
         PROVE  ReqInv'
    <2>1. \A q \in Requests \ {r} : Reliable(q)'
      BY <1>0, <1>b, <1>14, OthersReliable DEF ReadConfig, Begin, Becomes, TypeOK,
         dataVars, ghostVars
    <2>2. req'[r] = [Idle EXCEPT !.pc = "validate", !.slot = s, !.seen = config]
      BY <1>0, <1>14 DEF ReadConfig, Begin, Becomes, TypeOK
    <2>3. config.active <= reached /\ config \in Configs
      BY <1>0 DEF RecordsInv, TypeOK
    <2>4. Reliable(r)'
      BY <1>14, <2>2, <2>3 DEF ReadConfig, Reliable, Idle, Resting, Checking,
         dataVars, ghostVars
    <2> QED
      BY <2>1, <2>4 DEF ReqInv
  <1>15. ASSUME NEW r \in Requests, ValidatePeriodEdition(r)
         PROVE  ReqInv'
    <2> DEFINE row == pending[req[r].slot]
    <2>1. \A q \in Requests \ {r} : Reliable(q)'
      BY <1>0, <1>b, <1>15, OthersReliable DEF ValidatePeriodEdition, Becomes, TypeOK,
         dataVars, ghostVars
    <2>2. PICK dto \in UpdatePendingProgressDto :
            /\ Valid(req[r].seen, dto, row.results)
            /\ Becomes(r, [req[r] EXCEPT !.pc = "updateProgress", !.seen = Null, !.dto = dto])
      BY <1>15 DEF ValidatePeriodEdition
    <2>3. /\ req'[r].pc = "updateProgress"
          /\ req'[r].slot = req[r].slot
          /\ req'[r].dto = dto
      BY <1>0, <2>2 DEF Becomes, TypeOK, Request
    <2>4. /\ req[r].slot \in Slots
          /\ row # Null
          /\ req[r].seen \in Configs
          /\ req[r].seen.active <= reached
          /\ req[r].seen = config \/ r \in overtaken
      BY <1>b, <1>15 DEF ValidatePeriodEdition, At, Reliable, Resting
    <2>5. ASSUME NEW p \in DOMAIN dto, p > reached
          PROVE  dto[p] = Null
      <3>1. p \in Periods /\ p \in Int
        BY DtoType DEF Periods
      <3>2. req[r].seen.active \in Int /\ req[r].seen.active < p
        BY <1>a, <2>4, <2>5, <3>1 DEF IntensificationConfig, Periods
      <3>3. ~ Editable(req[r].seen, p)
        BY <3>1, <3>2 DEF Editable
      <3>4. dto[p] = row.results[p]
        BY <2>2, <3>3 DEF Valid, Modified
      <3> QED
        BY <2>4, <2>5, <3>1, <3>4 DEF RecordsInv, NoFutureResults
    <2>6. Valid(config, dto, row.results) \/ r \in overtaken
      BY <2>2, <2>4
    <2>7. UNCHANGED <<pending, config, overtaken, reached>>
      BY <1>15 DEF ValidatePeriodEdition, dataVars, ghostVars
    <2>8. Reliable(r)'
      BY <2>3, <2>4, <2>5, <2>6, <2>7 DEF Reliable, Resting, Checking
    <2> QED
      BY <2>1, <2>8 DEF ReqInv
  <1>16. ASSUME NEW r \in Requests, UpdatePendingProgress(r)
         PROVE  ReqInv'
    <2> DEFINE t == req[r].slot
               row == pending[t]
    <2>0. /\ t \in Slots
          /\ row # Null /\ row \in Pending
          /\ req[r].dto \in UpdatePendingProgressDto
          /\ Valid(config, req[r].dto, row.results) \/ r \in overtaken
      BY <1>0, <1>b, <1>16 DEF UpdatePendingProgress, At, Reliable, Resting, TypeOK, Request
    <2>1. ASSUME NEW q \in Requests \ {r} PROVE Reliable(q)'
      <3>1. req'[q] = req[q]
        BY <1>0, <1>16, <2>1 DEF UpdatePendingProgress, Becomes, TypeOK
      <3>2. q \in overtaken => q \in overtaken'
        BY <1>16, <2>1 DEF UpdatePendingProgress
      <3>3. /\ pending'[t] \in Pending
            /\ pending'[t].results = Merge(row.results, req[r].dto)
        <4>1. pending' = [pending EXCEPT ![t].results = Merge(row.results, req[r].dto)]
          BY <1>16 DEF UpdatePendingProgress
        <4>2. Merge(row.results, req[r].dto) \in Progress
          BY <2>0, MergeType DEF Pending
        <4> QED
          BY <1>0, <2>0, <4>1, <4>2 DEF TypeOK, Pending
      <3>4. req[q].pc = "updateProgress" => pending'[req[q].slot] # Null
        BY <1>0, <1>b, <1>16, <2>0, <2>1, <3>3 DEF UpdatePendingProgress, TypeOK, Reliable,
           Resting
      <3>5. ASSUME req[q].pc = "updateProgress"
            PROVE  \/ Valid(config, req[q].dto, pending[req[q].slot].results)
                        => Valid(config', req[q].dto, pending'[req[q].slot].results)
                   \/ q \in overtaken'
        <4>1. req[q].slot \in Slots /\ req[q].dto \in UpdatePendingProgressDto
          BY <1>0, <1>b, <2>1, <3>5 DEF Reliable, Resting, TypeOK, Request
        <4>2. CASE req[q].slot # t
          <5>1. pending'[req[q].slot] = pending[req[q].slot] /\ config' = config
            BY <1>0, <1>16, <4>1, <4>2 DEF UpdatePendingProgress, TypeOK
          <5> QED
            BY <5>1
        <4>3. CASE req[q].slot = t /\ r \in overtaken
          BY <1>16, <2>1, <3>5, <4>3 DEF UpdatePendingProgress, HoldersOfPending, At
        <4>4. CASE req[q].slot = t /\ r \notin overtaken
          <5>1. SUFFICES ASSUME Valid(config, req[q].dto, row.results),
                                NEW p \in DOMAIN req[q].dto,
                                req[q].dto[p] # Merge(row.results, req[r].dto)[p]
                         PROVE  Editable(config, p)
            BY <1>16, <3>3, <4>4 DEF Valid, Modified, UpdatePendingProgress
          <5>2. p \in Periods
            BY <4>1, DtoType
          <5>3. CASE p \in DOMAIN req[r].dto /\ req[r].dto[p] # row.results[p]
            BY <2>0, <4>4, <5>3 DEF Valid, Modified
          <5>4. CASE ~ (p \in DOMAIN req[r].dto /\ req[r].dto[p] # row.results[p])
            <6>1. Merge(row.results, req[r].dto)[p] = row.results[p]
              BY <5>2, <5>4 DEF Merge
            <6> QED
              BY <5>1, <6>1 DEF Valid, Modified
          <5> QED
            BY <5>3, <5>4
        <4> QED
          BY <4>2, <4>3, <4>4
      <3>6. UNCHANGED <<closingGrade, config, reached>>
        BY <1>16 DEF UpdatePendingProgress
      <3> QED
        BY <1>0, <1>a, <1>b, <2>1, <3>1, <3>2, <3>4, <3>5, <3>6, StillReliable
           DEF isPeriodClosed, Failed, Reliable
    <2>2. req'[r].pc \in Resting
      BY <1>0, <1>16 DEF UpdatePendingProgress, Becomes, After, Idle, TypeOK, Resting
    <2> QED
      BY <2>1, <2>2, RestingReliable DEF ReqInv
  <1>17. ASSUME NEW r \in Requests, Mark(r) \/ Abort(r)
         PROVE  ReqInv'
    <2>1. \A q \in Requests \ {r} : Reliable(q)'
      BY <1>0, <1>b, <1>17, OthersReliable DEF Mark, Abort, Done, Becomes, TypeOK,
         dataVars, ghostVars
    <2>2. req'[r].pc \in Resting
      BY <1>0, <1>17 DEF Mark, Abort, Done, Becomes, After, Idle, TypeOK, Resting
    <2> QED
      BY <2>1, <2>2, RestingReliable DEF ReqInv
  <1>18. CASE UpdateSettings
    <2>1. ASSUME NEW q \in Requests PROVE Reliable(q)'
      <3>1. req'[q] = req[q] /\ UNCHANGED <<closingGrade, pending>>
        BY <1>18 DEF UpdateSettings
      <3>2. reached <= reached'
        BY <1>0, <1>18, <1>a DEF UpdateSettings, TypeOK, IntensificationConfig, Periods
      <3>3. /\ q \in overtaken => q \in overtaken'
            /\ req[q].pc \in {"validate", "updateProgress"} => q \in overtaken'
        BY <1>18 DEF UpdateSettings
      <3> QED
        BY <1>0, <1>a, <1>b, <2>1, <3>1, <3>2, <3>3, StillReliable
           DEF isPeriodClosed, Failed, Reliable
    <2> QED
      BY <2>1 DEF ReqInv
  <1>19. CASE Finalize \/ Revert \/ RecalculateSummary
    <2>1. \A q \in Requests : Reliable(q)'
      BY <1>0, <1>b, <1>19, OthersReliable DEF Finalize, Revert, RecalculateSummary, dataVars
    <2> QED
      BY <2>1 DEF ReqInv
  <1> QED
    BY <1>1, <1>2, <1>3, <1>4, <1>5, <1>6, <1>7, <1>8, <1>9, <1>10, <1>11, <1>12, <1>13,
       <1>14, <1>15, <1>16, <1>17, <1>18, <1>19 DEF Next

-----------------------------------------------------------------------------
(* The settings, the results and the flag *)

\* The settings never name a period later than the latest one.
LEMMA ReachedStep ==
    ASSUME RecordsInv, Next
    PROVE  config'.active <= reached'
  <1>1. CASE UpdateSettings
    BY <1>1, RecordsAssumption DEF RecordsInv, TypeOK, UpdateSettings, IntensificationConfig,
       Periods
  <1>2. CASE UNCHANGED <<config, reached>>
    BY <1>2 DEF RecordsInv
  <1> QED
    BY <1>1, <1>2, ZenonT(60) DEF Next, CreateGradeCheck, GradeCheck, CreateGrade, UpdateGrade, RemoveGrade,
       GradeQueued, Close, ReopenCheck, Reopen, PendingBegin, CheckClosing, CreatePending,
       UpdatePendingStatus, DeletePending, ReadConfig, ValidatePeriodEdition,
       UpdatePendingProgress, Mark, Abort, Finalize, Revert, RecalculateSummary, dataVars, ghostVars

\* No step gives a future period a result.
LEMMA FutureStep ==
    ASSUME RecordsInv, Next
    PROVE  NoFutureResults'
  <1>0. TypeOK /\ ReqInv /\ NoFutureResults
    BY DEF RecordsInv
  <1>1. ASSUME NEW r \in Requests, CreatePending(r)
        PROVE  NoFutureResults'
    BY <1>0, <1>1 DEF NoFutureResults, CreatePending, NewPending, TypeOK
  <1>2. ASSUME NEW r \in Requests, UpdatePendingStatus(r)
        PROVE  NoFutureResults'
    <2>1. PICK status \in Statuses : pending' = [pending EXCEPT ![req[r].slot].status = status]
      BY <1>2 DEF UpdatePendingStatus
    <2>2. ASSUME NEW s \in Slots, pending'[s] # Null
          PROVE  pending[s] # Null /\ pending'[s].results = pending[s].results
      BY <1>0, <1>2, <2>1, <2>2 DEF UpdatePendingStatus, TypeOK, Pending
    <2>3. reached' = reached
      BY <1>2 DEF UpdatePendingStatus
    <2> QED
      BY <1>0, <2>2, <2>3 DEF NoFutureResults
  <1>3. ASSUME NEW r \in Requests, DeletePending(r)
        PROVE  NoFutureResults'
    BY <1>0, <1>3 DEF NoFutureResults, DeletePending, TypeOK
  <1>4. ASSUME NEW r \in Requests, UpdatePendingProgress(r)
        PROVE  NoFutureResults'
    <2> DEFINE t == req[r].slot
    <2>1. /\ t \in Slots /\ pending[t] # Null
          /\ pending[t] \in Pending
          /\ req[r].dto \in UpdatePendingProgressDto
          /\ \A p \in DOMAIN req[r].dto : p > reached => req[r].dto[p] = Null
      BY <1>0, <1>4 DEF UpdatePendingProgress, At, ReqInv, Reliable, Resting, TypeOK, Request
    <2>2. /\ pending'[t].results = Merge(pending[t].results, req[r].dto)
          /\ \A s \in Slots \ {t} : pending'[s] = pending[s]
          /\ reached' = reached
      BY <1>0, <1>4, <2>1 DEF UpdatePendingProgress, TypeOK, Pending
    <2>3. ASSUME NEW p \in Periods, p > reached
          PROVE  pending'[t].results[p] = Null
      BY <1>0, <2>1, <2>2, <2>3, MergeType DEF NoFutureResults, Pending
    <2> QED
      BY <1>0, <2>2, <2>3 DEF NoFutureResults
  <1>5. CASE UpdateSettings
    <2>1. reached \in Int /\ reached' \in Int /\ reached' >= reached /\ pending' = pending
      BY <1>0, <1>5, RecordsAssumption DEF UpdateSettings, TypeOK, IntensificationConfig, Periods
    <2> QED
      BY <1>0, <2>1 DEF NoFutureResults, Periods
  <1>6. CASE UNCHANGED <<pending, reached>>
    BY <1>0, <1>6 DEF NoFutureResults
  <1> QED
    BY <1>1, <1>2, <1>3, <1>4, <1>5, <1>6, ZenonT(60) DEF Next, CreateGradeCheck, GradeCheck, CreateGrade,
       UpdateGrade, RemoveGrade, GradeQueued, Close, ReopenCheck, Reopen, PendingBegin,
       CheckClosing, ReadConfig, ValidatePeriodEdition, Mark, Abort, Finalize, Revert,
       RecalculateSummary, dataVars, ghostVars

\* A request that changes a completed promotion's records is on its way to the mark.
LEMMA ChangedIsTold ==
    ASSUME ChangesAreTold, TypeOK, NEW r \in Requests, Changed(r),
           req'[r].pc \in {"queue", "mark"}, req[r].pc \notin {"queue", "mark"},
           \A q \in Requests : req[q].pc \in {"queue", "mark"} => req'[q] = req[q],
           UNCHANGED promotionSummaryStale
    PROVE  ChangesAreTold'
  BY DEF ChangesAreTold, Changed, TypeOK

\* Every step keeps UntoldInv.
LEMMA UntoldStep ==
    ASSUME RecordsInv, Next
    PROVE  UntoldInv'
  <1>0. UntoldInv
    BY DEF RecordsInv
  <1>1. CASE Finalize \/ Revert \/ RecalculateSummary
    BY <1>1 DEF UntoldInv, Finalize, Revert, RecalculateSummary
  <1>2. ASSUME NEW r \in Requests, Changed(r), UNCHANGED promotionStatus
        PROVE  UntoldInv'
    BY <1>0, <1>2 DEF UntoldInv, Changed
  <1>3. CASE UNCHANGED <<untold, promotionStatus>>
    BY <1>0, <1>3 DEF UntoldInv
  <1> QED
    BY <1>1, <1>2, <1>3, ZenonT(60) DEF Next, CreateGradeCheck, GradeCheck, CreateGrade, UpdateGrade,
       RemoveGrade, GradeQueued, Close, ReopenCheck, Reopen, PendingBegin, CheckClosing,
       CreatePending, UpdatePendingStatus, DeletePending, ReadConfig, ValidatePeriodEdition,
       UpdatePendingProgress, Mark, Abort, UpdateSettings, yearVars, ghostVars

\* Every step keeps the promise of the flag.
LEMMA ToldStep ==
    ASSUME RecordsInv, Next
    PROVE  ChangesAreTold'
  <1>0. TypeOK /\ ChangesAreTold
    BY DEF RecordsInv
  <1>1. ASSUME NEW r \in Requests,
               \/ CreateGrade(r) \/ UpdateGrade(r) \/ CreatePending(r) \/ UpdatePendingStatus(r)
               \/ UpdatePendingProgress(r) \/ Reopen(r) \/ \E s \in Slots : Close(r, s)
        PROVE  ChangesAreTold'
    <2>1. /\ Changed(r)
          /\ Becomes(r, After("queue")) \/ Becomes(r, After("mark"))
          /\ req[r].pc \notin {"queue", "mark"}
          /\ UNCHANGED promotionSummaryStale
      BY <1>1 DEF CreateGrade, UpdateGrade, CreatePending, UpdatePendingStatus, At,
         UpdatePendingProgress, Reopen, Close, Begin, Done, yearVars
    <2> QED
      BY <1>0, <2>1, ChangedIsTold DEF Becomes, After, Idle, TypeOK
  <1>2. ASSUME NEW r \in Requests, RemoveGrade(r) \/ DeletePending(r)
        PROVE  ChangesAreTold'
    <2>1. /\ Changed(r)
          /\ req[r].pc \notin {"queue", "mark"}
          /\ UNCHANGED promotionSummaryStale
      BY <1>2 DEF RemoveGrade, DeletePending, At, yearVars
    <2>2. PICK others \in SUBSET Requests :
            /\ DoneAlone(r, others)
            /\ \A q \in others : req[q].pc \notin {"queue", "mark"}
      BY <1>2 DEF RemoveGrade, DeletePending, HoldersOfGrade, HoldersOfPending, At
    <2>3. req'[r].pc = "mark"
      BY <2>2 DEF DoneAlone, After, Idle
    <2>4. \A q \in Requests : req[q].pc \in {"queue", "mark"} => req'[q] = req[q]
      BY <2>1, <2>2 DEF DoneAlone
    <2> QED
      BY <1>0, <2>1, <2>3, <2>4, ChangedIsTold
  <1>3. ASSUME NEW r \in Requests, GradeQueued(r)
        PROVE  ChangesAreTold'
    BY <1>0, <1>3 DEF ChangesAreTold, GradeQueued, Goto, Becomes, TypeOK, Request, yearVars,
       ghostVars
  <1>4. ASSUME NEW r \in Requests, Mark(r)
        PROVE  ChangesAreTold'
    BY <1>0, <1>4 DEF RecordsInv, UntoldInv, ChangesAreTold, Mark, markStaleIfCompleted, ghostVars
  <1>5. ASSUME NEW r \in Requests, Abort(r)
        PROVE  ChangesAreTold'
    <2>1. UNCHANGED <<untold, promotionSummaryStale>>
      BY <1>5 DEF Abort, yearVars
    <2>2. \A q \in untold : req[q].pc \in {"queue", "mark"} => req'[q] = req[q]
      BY <1>0, <1>5 DEF RecordsInv, UntoldInv, Abort, At, Done, Becomes, TypeOK
    <2> QED
      BY <1>0, <2>1, <2>2 DEF ChangesAreTold
  <1>6. CASE Finalize \/ Revert \/ RecalculateSummary
    BY <1>6 DEF ChangesAreTold, Finalize, Revert, RecalculateSummary
  <1>7. ASSUME UNCHANGED <<untold, promotionSummaryStale>>,
               \A q \in Requests : req[q].pc \in {"queue", "mark"} => req'[q] = req[q]
        PROVE  ChangesAreTold'
    BY <1>0, <1>7 DEF ChangesAreTold, TypeOK
  <1>8. CASE UpdateSettings
    BY <1>7, <1>8 DEF UpdateSettings, yearVars
  <1>9. ASSUME NEW r \in Requests, NEW q, Begin(r, q), UNCHANGED <<untold, promotionSummaryStale>>
        PROVE  ChangesAreTold'
    BY <1>0, <1>7, <1>9 DEF Begin, Becomes, At, TypeOK
  <1>10. ASSUME NEW r \in Requests, CheckClosing(r) \/ ValidatePeriodEdition(r)
         PROVE  ChangesAreTold'
    BY <1>0, <1>7, <1>10 DEF CheckClosing, ValidatePeriodEdition, Goto, Becomes, At, TypeOK,
       yearVars, ghostVars
  <1> QED
    BY <1>1, <1>2, <1>3, <1>4, <1>5, <1>6, <1>8, <1>9, <1>10, ZenonT(60) DEF Next, CreateGradeCheck,
       GradeCheck, ReopenCheck, PendingBegin, ReadConfig, yearVars, ghostVars

-----------------------------------------------------------------------------
(* The theorems *)

\* The invariant holds in every reachable state.
LEMMA InvHolds == Spec => []RecordsInv
  <1>1. RecordsInv /\ [Next]_vars => RecordsInv'
    <2> SUFFICES ASSUME RecordsInv, [Next]_vars PROVE RecordsInv'
      OBVIOUS
    <2>1. CASE Next
      BY <2>1, TypeStep, ReqStep, ReachedStep, FutureStep, UntoldStep, ToldStep DEF RecordsInv
    <2>2. CASE UNCHANGED vars
      BY <2>2 DEF vars, dataVars, yearVars, ghostVars, RecordsInv, TypeOK, ReqInv, Reliable,
         isPeriodClosed, Failed, NoFutureResults, UntoldInv, ChangesAreTold
    <2> QED
      BY <2>1, <2>2
  <1> QED
    BY InitInv, <1>1, PTL DEF Spec

\* Records, settings, flags and requests keep their types.
THEOREM TypeCorrect == Spec => []TypeOK
  BY InvHolds, PTL DEF RecordsInv

\* No period the institution never activated has a result, for any number of
\* periods, requests and changes of the settings (validatePeriodEdition).
THEOREM FutureIsEmpty == Spec => []NoFutureResults
  BY InvHolds, PTL DEF RecordsInv

\* A completed promotion hears of every change of its records that a request
\* which does not fail has made (markStaleIfCompleted).
THEOREM PromotionIsTold == Spec => []ChangesAreTold
  BY InvHolds, PTL DEF RecordsInv

\* Once the requests that overlap a close have ended, nothing changes the grades
\* of a closed period (isPeriodClosed before every write of GradesService).
THEOREM ClosedStaysFrozen == Spec => ClosedIsFrozen
  <1>1. ASSUME RecordsInv, Next, NEW s \in Slots, isPeriodClosed(s), grades'[s] # grades[s]
        PROVE  Overtaken(s)
    <2>0. TypeOK /\ ReqInv
      BY <1>1 DEF RecordsInv
    <2>1. PICK r \in Requests : CreateGrade(r) \/ UpdateGrade(r) \/ RemoveGrade(r)
      BY <1>1, ZenonT(60) DEF Next, CreateGradeCheck, GradeCheck, GradeQueued, Close, ReopenCheck, Reopen,
         PendingBegin, CheckClosing, CreatePending, UpdatePendingStatus, DeletePending, ReadConfig,
         ValidatePeriodEdition, UpdatePendingProgress, Mark, Abort, UpdateSettings, Finalize, Revert,
         RecalculateSummary, dataVars
    <2>2. /\ req[r].pc \in Checking
          /\ req[r].slot \in Slots
          /\ ~ isPeriodClosed(req[r].slot) \/ r \in overtaken
      BY <2>0, <2>1 DEF CreateGrade, UpdateGrade, RemoveGrade, At, ReqInv, Reliable, Resting,
         Checking
    <2>3. req[r].slot = s
      BY <1>1, <2>0, <2>1, <2>2 DEF CreateGrade, UpdateGrade, RemoveGrade, TypeOK
    <2>4. req'[r].pc \in {"mark", "queue"}
      BY <2>0, <2>1 DEF CreateGrade, UpdateGrade, RemoveGrade, Done, DoneAlone, Becomes, After,
         Idle, TypeOK
    <2> QED
      BY <1>1, <2>2, <2>3, <2>4 DEF Overtaken, Checking
  <1>2. RecordsInv /\ [Next]_vars =>
          [\A s \in Slots : isPeriodClosed(s) /\ grades'[s] # grades[s] => Overtaken(s)]_vars
    BY <1>1
  <1> QED
    BY InvHolds, <1>2, PTL DEF Spec, ClosedIsFrozen

\* A pending subject comes from a failed, closed period, unless the period moved
\* under its request (createPendingSubject).
THEOREM FromFailureOnly == Spec => PendingFromFailure
  <1>1. ASSUME RecordsInv, Next, NEW s \in Slots, pending[s] = Null, pending'[s] # Null
        PROVE  Failed(s) \/ Overtaken(s)
    <2>0. TypeOK /\ ReqInv
      BY <1>1 DEF RecordsInv
    <2>1. PICK r \in Requests : \/ CreatePending(r) \/ UpdatePendingStatus(r)
                                \/ DeletePending(r) \/ UpdatePendingProgress(r)
      BY <1>1, ZenonT(60) DEF Next, CreateGradeCheck, GradeCheck, CreateGrade, UpdateGrade, RemoveGrade,
         GradeQueued, Close, ReopenCheck, Reopen, PendingBegin, CheckClosing, ReadConfig,
         ValidatePeriodEdition, Mark, Abort, UpdateSettings, Finalize, Revert, RecalculateSummary, dataVars
    <2>2. req[r].slot \in Slots
      BY <2>0, <2>1 DEF CreatePending, UpdatePendingStatus, DeletePending, UpdatePendingProgress,
         At, ReqInv, Reliable, Resting
    <2>3. CreatePending(r) /\ req[r].slot = s
      BY <1>1, <2>0, <2>1, <2>2 DEF CreatePending, UpdatePendingStatus, DeletePending,
         UpdatePendingProgress, TypeOK, At, ReqInv, Reliable
    <2>4. req[r].pc = "createPending" /\ req'[r].pc = "mark"
      BY <2>0, <2>3 DEF CreatePending, At, Done, Becomes, After, Idle, TypeOK
    <2> QED
      BY <2>0, <2>3, <2>4 DEF ReqInv, Reliable, Overtaken
  <1>2. RecordsInv /\ [Next]_vars =>
          [\A s \in Slots : pending[s] = Null /\ pending'[s] # Null =>
             Failed(s) \/ Overtaken(s)]_vars
    <2>1. CASE UNCHANGED vars
      BY <2>1 DEF vars, dataVars
    <2> QED
      BY <1>1, <2>1
  <1> QED
    BY InvHolds, <1>2, PTL DEF Spec, PendingFromFailure

\* A result changes only while its window is open, once the requests that
\* overlap a change of the settings have ended (validatePeriodEdition).
THEOREM WindowsStayKept == Spec => WindowsAreKept
  <1>1. ASSUME RecordsInv, Next, NEW s \in Slots, NEW p \in Periods,
               pending[s] # Null, pending'[s] # Null,
               pending'[s].results[p] # pending[s].results[p]
        PROVE  Editable(config, p) \/ Overtaken(s)
    <2>0. TypeOK /\ ReqInv
      BY <1>1 DEF RecordsInv
    <2>1. PICK r \in Requests : \/ CreatePending(r) \/ UpdatePendingStatus(r)
                                \/ DeletePending(r) \/ UpdatePendingProgress(r)
      BY <1>1, ZenonT(60) DEF Next, CreateGradeCheck, GradeCheck, CreateGrade, UpdateGrade, RemoveGrade,
         GradeQueued, Close, ReopenCheck, Reopen, PendingBegin, CheckClosing, ReadConfig,
         ValidatePeriodEdition, Mark, Abort, UpdateSettings, Finalize, Revert, RecalculateSummary, dataVars
    <2>2. req[r].slot \in Slots /\ pending[s] \in Pending
      BY <1>1, <2>0, <2>1 DEF CreatePending, UpdatePendingStatus, DeletePending,
         UpdatePendingProgress, At, ReqInv, Reliable, Resting, TypeOK
    <2>3. ~ UpdatePendingStatus(r)
      <3>1. SUFFICES ASSUME NEW status \in Statuses,
                            pending' = [pending EXCEPT ![req[r].slot].status = status]
                     PROVE  pending'[s].results = pending[s].results
        BY <1>1 DEF UpdatePendingStatus
      <3> QED
        BY <2>0, <2>2, <3>1 DEF TypeOK, Pending
    <2>4. UpdatePendingProgress(r) /\ req[r].slot = s
      BY <1>1, <2>0, <2>1, <2>2, <2>3 DEF CreatePending, DeletePending, UpdatePendingProgress,
         TypeOK
    <2>5. /\ req[r].pc = "updateProgress"
          /\ req'[r].pc = "mark"
          /\ pending'[s].results = Merge(pending[s].results, req[r].dto)
      BY <2>0, <2>2, <2>4 DEF UpdatePendingProgress, At, Becomes, After, Idle, TypeOK, Pending
    <2>6. CASE r \in overtaken
      BY <2>4, <2>5, <2>6 DEF Overtaken
    <2>7. CASE r \notin overtaken
      <3>1. Valid(config, req[r].dto, pending[s].results)
        BY <2>0, <2>4, <2>5, <2>7 DEF ReqInv, Reliable
      <3>2. p \in DOMAIN req[r].dto /\ req[r].dto[p] # pending[s].results[p]
        BY <1>1, <2>5 DEF Merge
      <3> QED
        BY <3>1, <3>2 DEF Valid, Modified
    <2> QED
      BY <2>6, <2>7
  <1>2. RecordsInv /\ [Next]_vars =>
          [\A s \in Slots : \A p \in Periods :
             /\ pending[s] # Null
             /\ pending'[s] # Null
             /\ pending'[s].results[p] # pending[s].results[p]
             => Editable(config, p) \/ Overtaken(s)]_vars
    BY <1>1
  <1> QED
    BY InvHolds, <1>2, PTL DEF Spec, WindowsAreKept
=============================================================================
