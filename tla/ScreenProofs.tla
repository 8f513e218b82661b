--------------------------- MODULE ScreenProofs ----------------------------
(* Proofs about the screens of MCScreens, each by itself, for any rows, scores  *)
(* and messages: where the sheet of grades stores what was typed and what it    *)
(* marks as saved; whose evaluations the grid saves and what it shows; that the *)
(* messages of a room have no gap; what becomes of the row that a form writes,  *)
(* and what a form shows; that a page shows what its user was told is saved.    *)
EXTENDS MCScreens, Sequences, FiniteSetTheorems, WellFoundedInduction, TLAPS

-----------------------------------------------------------------------------
(* The sheet of grades *)

\* A grade that is stored, and one under way.
EGrade == [score : SheetScores, typedFor : SheetSlots \cup {None}]

EPost == [student : SheetStudents, slot : SheetSlots, score : SheetScores, typedFor : SheetSlots \cup {None}]

\* A row that the page would save was typed for the slot that is selected.
ETyped(table) ==
    /\ table \in [SheetStudents -> E!Row]
    /\ \A r \in SheetStudents \ carried : r \in E!ToSave(table) => table[r].typedFor = slot

\* What every step of the sheet keeps.
EInv ==
    /\ slot \in SheetSlots \cup {None}
    /\ stored \in [SheetSlots -> [SheetStudents -> {None} \cup EGrade]]
    /\ posts \cup latePosts \subseteq EPost
    /\ \A q \in posts \cup latePosts : q.student \notin carried => q.typedFor = q.slot
    /\ ETyped(sheet) /\ ETyped(debounced)
    /\ E!StoredWhereTyped

\* It holds at first.
LEMMA EInitial == E!Init => EInv
BY DEF E!Init, EInv, ETyped, E!Row, E!Blank, E!ToSave, E!StoredWhereTyped

\* What a row of the sheet holds.
LEMMA ERow ==
    ASSUME NEW row \in E!Row
    PROVE  row.score \in SheetScores \cup {None} /\ row.typedFor \in SheetSlots \cup {None}
BY DEF E!Row

\* What the effect sends is for the slot that is selected.
LEMMA EEffect ==
    ASSUME NEW table \in [SheetStudents -> E!Row], NEW where \in SheetSlots \cup {None}, E!Effect(table, where),
           carried \subseteq carried', EInv,
           \A r \in SheetStudents \ carried' : r \in E!ToSave(table) => table[r].typedFor = where
    PROVE  /\ posts' \subseteq EPost
           /\ \A q \in posts' : q.student \notin carried' => q.typedFor = q.slot
<1>1. CASE UNCHANGED posts
  BY <1>1 DEF EInv
<1>2. CASE where # None /\ E!Mutate(table, where)
  <2>1. \A r \in E!ToSave(table) :
          /\ r \in SheetStudents /\ table[r].score \in SheetScores /\ table[r].typedFor \in SheetSlots \cup {None}
    BY ERow DEF E!ToSave
  <2>2. \A q \in posts' : \E r \in E!ToSave(table) :
          q = [student |-> r, slot |-> where, score |-> table[r].score, typedFor |-> table[r].typedFor]
    BY <1>2 DEF E!Mutate
  <2>3. \A r \in E!ToSave(table) :
          [student |-> r, slot |-> where, score |-> table[r].score, typedFor |-> table[r].typedFor] \in EPost
    BY <1>2, <2>1 DEF EPost
  <2> QED BY <2>1, <2>2, <2>3
<1> QED BY <1>1, <1>2 DEF E!Effect

\* Storing a request of a row that was not carried keeps it where it was typed for.
LEMMA EStored ==
    ASSUME EInv, NEW q \in posts \cup latePosts, E!Stored(q), carried' = carried
    PROVE  /\ stored' \in [SheetSlots -> [SheetStudents -> {None} \cup EGrade]]
           /\ E!StoredWhereTyped'
<1>1. /\ q.slot \in SheetSlots /\ q.student \in SheetStudents
      /\ [score |-> q.score, typedFor |-> q.typedFor] \in EGrade
      /\ q.student \notin carried => q.typedFor = q.slot
  BY DEF EInv, EPost, EGrade
<1>2. /\ stored' \in [SheetSlots -> [SheetStudents -> {None} \cup EGrade]]
      /\ \A s \in SheetSlots, r \in SheetStudents :
           stored'[s][r] = IF s = q.slot /\ r = q.student
                           THEN [score |-> q.score, typedFor |-> q.typedFor] ELSE stored[s][r]
  BY <1>1 DEF EInv, E!Stored
<1> QED BY <1>1, <1>2 DEF EInv, E!StoredWhereTyped

\* Every step of the sheet keeps it.
LEMMA EStep == EInv /\ [E!Next]_(E!vars) => EInv'
<1> SUFFICES ASSUME EInv, [E!Next]_(E!vars) PROVE EInv'
  OBVIOUS
<1> USE DEF EInv
<1>1. ASSUME NEW changed \in SUBSET SheetStudents, NEW value \in SheetScores \cup {None}, E!Type(changed, value)
      PROVE  EInv'
  <2>1. UNCHANGED <<slot, debounced, posts, latePosts, stored, carried>>
    BY <1>1 DEF E!Type
  <2>2. sheet' = [r \in SheetStudents |-> IF r \in changed THEN E!Typed(value) ELSE sheet[r]]
    BY <1>1 DEF E!Type
  <2>3. E!Typed(value) \in E!Row /\ (value # None => E!Typed(value).typedFor = slot)
        /\ E!Typed(value).score = value
    BY DEF E!Typed, E!Row
  <2>4. ETyped(sheet)'
    BY <2>1, <2>2, <2>3 DEF ETyped, E!ToSave
  <2>5. ETyped(debounced)'
    BY <2>1 DEF ETyped, E!ToSave
  <2> QED BY <2>1, <2>4, <2>5 DEF E!StoredWhereTyped
<1>2. ASSUME NEW s \in SheetSlots, E!ChangeSlot(s) PROVE EInv'
  <2>1. /\ UNCHANGED <<sheet, debounced, latePosts, stored>> /\ slot' = s
        /\ carried' = carried \cup {r \in E!Filled(sheet) : ~sheet[r].saved}
                           \cup {r \in E!Filled(debounced) : ~debounced[r].saved}
    BY <1>2 DEF E!ChangeSlot, E!Carry
  <2>2. \A r \in SheetStudents \ carried' : r \notin E!ToSave(debounced) /\ r \notin E!ToSave(sheet)
    BY <2>1 DEF E!Filled, E!ToSave
  <2>3. UNCHANGED posts \/ E!Effect(debounced, s)
    BY <1>2 DEF E!ChangeSlot
  <2>4. carried \subseteq carried' /\ debounced \in [SheetStudents -> E!Row]
    BY <2>1 DEF ETyped
  <2>5. posts' \subseteq EPost /\ \A q \in posts' : q.student \notin carried' => q.typedFor = q.slot
    BY <2>2, <2>3, <2>4, EEffect
  <2>6. ETyped(sheet)' /\ ETyped(debounced)'
    BY <2>1, <2>2 DEF ETyped, E!ToSave
  <2>7. E!StoredWhereTyped'
    BY <2>1, <2>4 DEF E!StoredWhereTyped
  <2> QED BY <2>1, <2>4, <2>5, <2>6, <2>7
<1>3. ASSUME NEW s \in SheetSlots, E!SelectSlot(s) PROVE EInv'
  <2>1. /\ slot = None /\ slot' = s /\ sheet' = E!Meant(sheet, s) /\ debounced' = E!Meant(debounced, s)
        /\ E!Effect(debounced', s) /\ UNCHANGED <<latePosts, stored, carried>>
    BY <1>3 DEF E!SelectSlot
  <2>2. ASSUME NEW table, ETyped(table)
        PROVE  /\ E!Meant(table, s) \in [SheetStudents -> E!Row]
               /\ \A r \in SheetStudents \ carried :
                    r \in E!ToSave(E!Meant(table, s)) => E!Meant(table, s)[r].typedFor = s
    <3>1. ASSUME NEW r \in SheetStudents
          PROVE  /\ E!Meant(table, s)[r] \in E!Row
                 /\ E!Meant(table, s)[r].score = table[r].score
                 /\ E!Meant(table, s)[r].saved = table[r].saved
                 /\ table[r].score # None /\ table[r].typedFor = None => E!Meant(table, s)[r].typedFor = s
      BY <2>2 DEF ETyped, E!Meant, E!Row
    <3>2. E!Meant(table, s) \in [SheetStudents -> E!Row]
      BY <3>1 DEF E!Meant
    <3> QED BY <2>1, <2>2, <3>1, <3>2 DEF ETyped, E!ToSave
  <2>3. /\ sheet' \in [SheetStudents -> E!Row] /\ debounced' \in [SheetStudents -> E!Row]
        /\ \A r \in SheetStudents \ carried : r \in E!ToSave(sheet') => sheet'[r].typedFor = s
        /\ \A r \in SheetStudents \ carried : r \in E!ToSave(debounced') => debounced'[r].typedFor = s
    BY <2>1, <2>2
  <2>4. posts' \subseteq EPost /\ \A q \in posts' : q.student \notin carried' => q.typedFor = q.slot
    BY <2>1, <2>3, EEffect
  <2>5. ETyped(sheet)' /\ ETyped(debounced)'
    BY <2>1, <2>3 DEF ETyped, E!ToSave
  <2> QED BY <2>1, <2>4, <2>5 DEF E!StoredWhereTyped
<1>4. ASSUME NEW where \in SheetSlots \cup {None}, E!Reload(where) PROVE EInv'
  <2>1. /\ UNCHANGED <<debounced, posts, latePosts, stored>> /\ slot' \in {slot, None}
        /\ sheet' = [r \in SheetStudents |-> E!Blank]
        /\ carried' = carried \cup {r \in E!Filled(sheet) : ~sheet[r].saved}
                           \cup {r \in E!Filled(debounced) : ~debounced[r].saved}
    BY <1>4 DEF E!Reload, E!Carry
  <2>2. \A r \in SheetStudents \ carried' : r \notin E!ToSave(debounced)
    BY <2>1 DEF E!Filled, E!ToSave
  <2>3. ETyped(sheet)'
    BY <2>1 DEF ETyped, E!ToSave, E!Blank, E!Row
  <2>4. ETyped(debounced)'
    BY <2>1, <2>2 DEF ETyped, E!ToSave
  <2> QED BY <2>1, <2>3, <2>4 DEF E!StoredWhereTyped
<1>5. ASSUME E!Debounce PROVE EInv'
  <2>1. debounced' = sheet /\ E!Effect(sheet, slot) /\ UNCHANGED <<slot, sheet, latePosts, stored, carried>>
    BY <1>5 DEF E!Debounce
  <2>2. posts' \subseteq EPost /\ \A q \in posts' : q.student \notin carried' => q.typedFor = q.slot
    BY <2>1, EEffect DEF ETyped
  <2>3. ETyped(sheet)' /\ ETyped(debounced)'
    BY <2>1 DEF ETyped, E!ToSave
  <2> QED BY <2>1, <2>2, <2>3 DEF E!StoredWhereTyped
<1>6. ASSUME NEW q \in posts, E!Answer(q) PROVE EInv'
  <2>1. posts' \subseteq posts /\ E!Stored(q) /\ UNCHANGED <<slot, sheet, debounced, latePosts, carried>>
    BY <1>6 DEF E!Answer
  <2> QED BY <2>1, EStored DEF ETyped, E!ToSave
<1>7. ASSUME E!OnSuccess PROVE EInv'
  <2>1. /\ UNCHANGED <<slot, debounced, posts, latePosts, stored, carried>>
        /\ sheet' = [r \in SheetStudents |-> IF r \in E!Saved THEN [sheet[r] EXCEPT !.saved = TRUE] ELSE sheet[r]]
    BY <1>7 DEF E!OnSuccess
  <2>2. ASSUME NEW r \in SheetStudents
        PROVE  /\ sheet'[r] \in E!Row /\ sheet'[r].score = sheet[r].score
               /\ sheet'[r].typedFor = sheet[r].typedFor /\ (sheet[r].saved => sheet'[r].saved)
    BY <2>1 DEF ETyped, E!Row
  <2>3. ETyped(sheet)'
    BY <2>1, <2>2 DEF ETyped, E!ToSave
  <2>4. ETyped(debounced)'
    BY <2>1 DEF ETyped, E!ToSave
  <2> QED BY <2>1, <2>3, <2>4 DEF E!StoredWhereTyped
<1>8. ASSUME E!OnError PROVE EInv'
  <2>1. /\ posts' = {} /\ latePosts' \subseteq posts \cup latePosts
        /\ UNCHANGED <<slot, sheet, debounced, stored, carried>>
    BY <1>8 DEF E!OnError
  <2> QED BY <2>1 DEF ETyped, E!ToSave, E!StoredWhereTyped
<1>9. ASSUME NEW q \in latePosts, E!StoreLate(q) PROVE EInv'
  <2>1. /\ latePosts' \subseteq latePosts /\ (E!Stored(q) \/ UNCHANGED stored)
        /\ UNCHANGED <<slot, sheet, debounced, posts, carried>>
    BY <1>9 DEF E!StoreLate
  <2>2. ETyped(sheet)' /\ ETyped(debounced)'
    BY <2>1 DEF ETyped, E!ToSave
  <2>3. stored' \in [SheetSlots -> [SheetStudents -> {None} \cup EGrade]] /\ E!StoredWhereTyped'
    BY <2>1, EStored DEF E!StoredWhereTyped
  <2> QED BY <2>1, <2>2, <2>3
<1>10. ASSUME UNCHANGED E!vars PROVE EInv'
  BY <1>10 DEF E!vars, ETyped, E!ToSave, E!StoredWhereTyped
<1> QED BY <1>1, <1>2, <1>3, <1>4, <1>5, <1>6, <1>7, <1>8, <1>9, <1>10 DEF E!Next

-----------------------------------------------------------------------------
(* The sheet of grades: what it shows as saved, and what it still saves *)

ESlots == SheetSlots
ERows == SheetStudents

\* A save that is under way.
ESave == [slot : ESlots, scores : UNION {[rs -> SheetScores] : rs \in SUBSET ERows}]

\* A table of the sheet in which what is filled in was typed for some slot.
EFilled(table) == \A r \in ERows : table[r].score # None => table[r].typedFor # None

\* The types of what the sheet marks, sends and has stored.
EMarks ==
    /\ {timer, failed} \subseteq BOOLEAN
    /\ unsettled \subseteq ERows /\ carried \subseteq ERows
    /\ sheetSave \in {None} \cup ESave
    /\ posts \cup latePosts \subseteq E!Post
    /\ stored \in [ESlots -> [ERows -> {None} \cup [score : SheetScores, typedFor : ESlots]]]
    /\ slot # None => EFilled(sheet) /\ EFilled(debounced)

\* A request that is not answered is of the save under way.
EPosted ==
    \A q \in posts :
        /\ sheetSave # None /\ q.slot = sheetSave.slot
        /\ q.student \in DOMAIN sheetSave.scores /\ q.score = sheetSave.scores[q.student]

EHas(s, r, score) == stored[s][r] # None /\ stored[s][r].score = score

\* A settled row that is marked as saved is stored; one whose save is under way holds what
\* was sent, which is stored unless its request is not answered; and it has no late request.
ESettled(r) ==
    /\ sheet[r].saved => slot # None /\ EHas(slot, r, sheet[r].score)
    /\ r \in E!Saving =>
         /\ slot # None /\ sheetSave.slot = slot /\ sheet[r].score = sheetSave.scores[r]
         /\ (\E q \in posts : q.student = r) \/ EHas(slot, r, sheetSave.scores[r])
    /\ ~E!Late(r)

ERowsSettled == \A r \in ERows \ unsettled : ESettled(r)

\* With no timer the older copy is the sheet, and nothing is forgotten.
EWaits == (~timer => debounced = sheet) /\ E!NothingForgotten

\* What every step keeps.
EShownInv == EInv /\ EMarks /\ EPosted /\ ERowsSettled /\ EWaits

\* It holds at first.
LEMMA EShownInitial == E!Init => EShownInv
<1> SUFFICES ASSUME E!Init PROVE EShownInv
  OBVIOUS
<1>1. EMarks
  BY DEF E!Init, EMarks, ESlots, ERows, E!Post
<1>2. EPosted /\ EWaits
  BY DEF E!Init, EPosted, EWaits, E!NothingForgotten
<1>3. ERowsSettled
  BY DEF E!Init, ERowsSettled, ESettled, E!Blank, E!Saving, E!Late, ERows
<1> QED BY <1>1, <1>2, <1>3, EInitial DEF EShownInv

\* A table of the sheet.
LEMMA ECell ==
    ASSUME NEW table \in [ERows -> E!Row], NEW r \in ERows
    PROVE  /\ table[r].score \in SheetScores \cup {None} /\ table[r].saved \in BOOLEAN
           /\ table[r].typedFor \in ESlots \cup {None}
BY DEF E!Row, ESlots

\* What the effect sends, if it sends anything.
LEMMA ESends ==
    ASSUME EShownInv, NEW table \in [ERows -> E!Row], NEW where \in ESlots \cup {None},
           E!Effect(table, where), where # None => EFilled(table)
    PROVE  /\ sheetSave' \in {None} \cup ESave /\ posts' \subseteq E!Post /\ EPosted'
           /\ \/ /\ where = None \/ sheetSave # None \/ E!ToSave(table) = {}
                 /\ UNCHANGED <<sheetSave, posts>>
              \/ /\ where # None /\ sheetSave = None /\ sheetSave' # None
                 /\ sheetSave'.slot = where /\ DOMAIN sheetSave'.scores = E!ToSave(table)
                 /\ \A r \in E!ToSave(table) : /\ sheetSave'.scores[r] = table[r].score
                                               /\ \E q \in posts' : q.student = r
<1>1. CASE where = None \/ sheetSave # None \/ E!ToSave(table) = {}
  <2>1. UNCHANGED <<sheetSave, posts>>
    BY <1>1 DEF E!Effect
  <2> QED BY <1>1, <2>1 DEF EShownInv, EMarks, EPosted
<1>2. CASE where # None /\ sheetSave = None /\ E!ToSave(table) # {}
  <2> DEFINE sent == E!ToSave(table)
             scores == [r \in sent |-> table[r].score]
             post(r) == [student |-> r, slot |-> where, score |-> table[r].score,
                         typedFor |-> table[r].typedFor]
  <2>1. /\ sheetSave' = [slot |-> where, scores |-> scores]
        /\ posts' = {post(r) : r \in sent}
    BY <1>2 DEF E!Effect, E!Mutate
  <2>2. \A r \in sent : /\ r \in ERows /\ table[r].score \in SheetScores
                        /\ table[r].typedFor \in ESlots
    BY <1>2, ECell DEF E!ToSave, EFilled, ERows
  <2>3. sent \in SUBSET ERows
    BY DEF E!ToSave, ERows
  <2>4. scores \in UNION {[rs -> SheetScores] : rs \in SUBSET ERows} /\ DOMAIN scores = sent
        /\ \A r \in sent : scores[r] = table[r].score
    BY <2>2, <2>3
  <2>5. \A r \in sent : /\ post(r) \in E!Post /\ post(r).student = r /\ post(r).slot = where
                        /\ post(r).score = table[r].score
    BY <1>2, <2>2 DEF E!Post, ERows, ESlots
  <2> HIDE DEF scores, sent, post
  <2>6. /\ sheetSave' \in ESave /\ sheetSave'.slot = where /\ sheetSave'.scores = scores
    BY <1>2, <2>1, <2>4 DEF ESave
  <2>7. sheetSave' # None
    BY <2>6, ScreensAssumption DEF ESave, ESlots, ERows
  <2>8. EPosted'
    <3> SUFFICES ASSUME NEW q \in posts'
                 PROVE  /\ q.slot = where /\ q.student \in sent /\ q.score = scores[q.student]
      BY <2>4, <2>6, <2>7 DEF EPosted
    <3>1. PICK r \in sent : q = post(r)
      BY <2>1
    <3> QED BY <2>4, <2>5, <3>1
  <2>9. posts' \subseteq E!Post /\ \A r \in sent : post(r) \in posts'
    BY <2>1, <2>5
  <2> QED BY <1>2, <2>4, <2>5, <2>6, <2>7, <2>8, <2>9 DEF sent
<1> QED BY <1>1, <1>2

\* What a request that is stored changes.
LEMMA EStores ==
    ASSUME EShownInv, NEW q \in posts \cup latePosts, E!Stored(q)
    PROVE  /\ stored' \in [ESlots -> [ERows -> {None} \cup [score : SheetScores, typedFor : ESlots]]]
           /\ \A s \in ESlots, r \in ERows :
                IF s = q.slot /\ r = q.student THEN EHas(s, r, q.score)'
                ELSE stored'[s][r] = stored[s][r]
<1>1. /\ q.slot \in ESlots /\ q.student \in ERows
      /\ [score |-> q.score, typedFor |-> q.typedFor] \in [score : SheetScores, typedFor : ESlots]
  BY DEF EShownInv, EMarks, E!Post, ESlots, ERows
<1>2. [score |-> q.score, typedFor |-> q.typedFor] # None
      /\ [score |-> q.score, typedFor |-> q.typedFor].score = q.score
  BY <1>1, ScreensAssumption DEF ESlots
<1>3. stored' = [stored EXCEPT ![q.slot][q.student] =
                   [score |-> q.score, typedFor |-> q.typedFor]]
  BY DEF E!Stored
<1>4. /\ stored' \in [ESlots -> [ERows -> {None} \cup [score : SheetScores, typedFor : ESlots]]]
      /\ \A s \in ESlots, r \in ERows :
           stored'[s][r] = IF s = q.slot /\ r = q.student
                           THEN [score |-> q.score, typedFor |-> q.typedFor] ELSE stored[s][r]
  BY <1>1, <1>3 DEF EShownInv, EMarks
<1> QED BY <1>2, <1>4 DEF EHas

\* Every step keeps it: one case for each thing that the teacher or the page does.
LEMMA EShownStep == EShownInv /\ [E!Next]_(E!vars) => EShownInv'
<1> SUFFICES ASSUME EShownInv, [E!Next]_(E!vars), EInv' PROVE EShownInv'
  BY EStep DEF EShownInv
<1>0. /\ sheet \in [ERows -> E!Row] /\ debounced \in [ERows -> E!Row] /\ slot \in ESlots \cup {None}
      /\ None \notin ESlots
  BY ScreensAssumption DEF EShownInv, EInv, ETyped, ERows, ESlots
<1> USE DEF EShownInv, EMarks
<1>1. ASSUME NEW changed \in SUBSET ERows, NEW value \in SheetScores \cup {None},
             E!Type(changed, value)
      PROVE  EShownInv'
  <2>1. /\ sheet' = [r \in ERows |-> IF r \in changed THEN E!Typed(value) ELSE sheet[r]]
        /\ timer' = TRUE /\ failed' = FALSE
        /\ unsettled' = (unsettled \ changed) \cup {r \in changed : r \in E!Saving \/ E!Late(r)}
        /\ UNCHANGED <<slot, debounced, sheetSave, posts, latePosts, stored, carried>>
    BY <1>1 DEF E!Type, ERows
  <2>2. E!Typed(value).score = value /\ E!Typed(value).saved = FALSE
        /\ (slot # None /\ value # None => E!Typed(value).typedFor # None)
    BY DEF E!Typed
  <2>3. \A r \in ERows : sheet'[r] = IF r \in changed THEN E!Typed(value) ELSE sheet[r]
    BY <2>1
  <2>4. EMarks'
    BY <2>1, <2>2, <2>3 DEF EFilled
  <2>5. EPosted' /\ EWaits'
    BY <2>1 DEF EPosted, EWaits, E!NothingForgotten
  <2>6. E!Saving' = E!Saving /\ \A r \in ERows : E!Late(r)' = E!Late(r)
    BY <2>1 DEF E!Saving, E!Late
  <2>7. ASSUME NEW r \in ERows \ unsettled' PROVE ESettled(r)'
    <3>1. CASE r \in changed
      <4>1. r \notin E!Saving /\ ~E!Late(r)
        BY <2>1, <2>7, <3>1
      <4>2. ~sheet'[r].saved
        BY <2>2, <2>3, <3>1
      <4> QED BY <2>6, <4>1, <4>2 DEF ESettled
    <3>2. CASE r \notin changed
      <4>1. ESettled(r) /\ sheet'[r] = sheet[r]
        BY <2>1, <2>3, <2>7, <3>2 DEF ERowsSettled
      <4> QED BY <2>1, <2>6, <4>1 DEF ESettled, EHas
    <3> QED BY <3>1, <3>2
  <2>8. ERowsSettled'
    BY <2>7 DEF ERowsSettled
  <2> QED BY <2>4, <2>5, <2>8
<1>2. ASSUME NEW s \in ESlots, E!ChangeSlot(s) PROVE EShownInv'
  <2>1. /\ slot # None /\ slot' = s
        /\ \/ UNCHANGED <<sheetSave, posts>>
           \/ E!Effect(debounced, s)
        /\ unsettled' = unsettled \cup E!Filled(sheet) \cup E!Filled(debounced) \cup E!Saving
        /\ carried' \subseteq carried \cup E!Filled(sheet) \cup E!Filled(debounced)
        /\ UNCHANGED <<sheet, debounced, timer, latePosts, stored, failed>>
    BY <1>2 DEF E!ChangeSlot, E!Carry
  <2>2. /\ sheetSave' \in {None} \cup ESave /\ posts' \subseteq E!Post /\ EPosted'
        /\ \/ UNCHANGED <<sheetSave, posts>>
           \/ /\ sheetSave' # None /\ DOMAIN sheetSave'.scores = E!ToSave(debounced)
    BY <1>0, <2>1, ESends DEF EPosted
  <2>3. E!Filled(sheet) \cup E!Filled(debounced) \cup E!Saving \subseteq ERows
    BY DEF E!Filled, E!Saving, ESave, ERows
  <2>4. EMarks'
    BY <2>1, <2>2, <2>3
  <2>5. EWaits'
    <3>1. sheetSave' # None \/ sheetSave' = sheetSave
      BY <2>2
    <3> QED BY <1>0, <2>1, <3>1 DEF EWaits, E!NothingForgotten
  <2>6. ASSUME NEW r \in ERows \ unsettled' PROVE ESettled(r)'
    <3>1. /\ ESettled(r) /\ sheet[r].score = None /\ r \notin E!Saving /\ debounced[r].score = None
      BY <2>1, <2>6 DEF ERowsSettled, E!Filled, ERows
    <3>2. ~sheet[r].saved
      BY <1>0, <2>1, <3>1, ScreensAssumption DEF ESettled, EHas, ESlots
    <3>3. r \notin E!Saving'
      BY <2>2, <3>1 DEF E!Saving, E!ToSave
    <3> QED BY <2>1, <3>1, <3>2, <3>3 DEF ESettled, E!Late
  <2>7. ERowsSettled'
    BY <2>6 DEF ERowsSettled
  <2> QED BY <2>2, <2>4, <2>5, <2>7
<1>3. ASSUME NEW s \in ESlots, E!SelectSlot(s) PROVE EShownInv'
  <2>1. /\ slot = None /\ slot' = s /\ s # None
        /\ sheet' = E!Meant(sheet, s) /\ debounced' = E!Meant(debounced, s)
        /\ E!Effect(debounced', s)
        /\ unsettled' = unsettled \cup {r \in ERows : sheet[r] # debounced[r]}
        /\ UNCHANGED <<timer, latePosts, stored, carried, failed>>
    BY <1>0, <1>3 DEF E!SelectSlot, ERows
  <2>2. ASSUME NEW table \in [ERows -> E!Row]
        PROVE  /\ EFilled(E!Meant(table, s))
               /\ \A r \in ERows : /\ E!Meant(table, s)[r].score = table[r].score
                                   /\ E!Meant(table, s)[r].saved = table[r].saved
    BY <2>1 DEF E!Meant, E!Row, EFilled, ERows
  <2>3. /\ EFilled(sheet') /\ EFilled(debounced')
        /\ \A r \in ERows : /\ sheet'[r].score = sheet[r].score /\ sheet'[r].saved = sheet[r].saved
                            /\ debounced'[r].score = debounced[r].score
    BY <1>0, <2>1, <2>2
  <2>4. debounced' \in [ERows -> E!Row]
    BY DEF EInv, ETyped, ERows
  <2>5. /\ sheetSave' \in {None} \cup ESave /\ posts' \subseteq E!Post /\ EPosted'
        /\ \/ /\ sheetSave # None \/ E!ToSave(debounced') = {}
              /\ UNCHANGED <<sheetSave, posts>>
           \/ /\ sheetSave = None /\ sheetSave' # None
              /\ sheetSave'.slot = s /\ DOMAIN sheetSave'.scores = E!ToSave(debounced')
              /\ \A r \in E!ToSave(debounced') : /\ sheetSave'.scores[r] = debounced'[r].score
                                                 /\ \E q \in posts' : q.student = r
    <3> DEFINE table == debounced'
    <3>1. table \in [ERows -> E!Row] /\ E!Effect(table, s) /\ EFilled(table)
      BY <2>1, <2>3, <2>4
    <3> HIDE DEF table
    <3>2. /\ sheetSave' \in {None} \cup ESave /\ posts' \subseteq E!Post /\ EPosted'
          /\ \/ /\ s = None \/ sheetSave # None \/ E!ToSave(table) = {}
                /\ UNCHANGED <<sheetSave, posts>>
             \/ /\ s # None /\ sheetSave = None /\ sheetSave' # None
                /\ sheetSave'.slot = s /\ DOMAIN sheetSave'.scores = E!ToSave(table)
                /\ \A r \in E!ToSave(table) : /\ sheetSave'.scores[r] = table[r].score
                                              /\ \E q \in posts' : q.student = r
      BY <3>1, ESends
    <3> QED BY <2>1, <3>2 DEF table
  <2>6. EMarks'
    BY <2>1, <2>3, <2>5
  <2>7. EWaits'
    <3>1. CASE sheetSave' # None
      BY <2>1, <3>1 DEF EWaits, E!NothingForgotten
    <3>2. CASE sheetSave' = None
      <4>1. E!ToSave(debounced') = {}
        BY <2>5, <3>2
      <4> QED BY <2>1, <4>1 DEF EWaits, E!NothingForgotten
    <3> QED BY <3>1, <3>2
  <2>8. ASSUME NEW r \in ERows \ unsettled' PROVE ESettled(r)'
    <3>1. ESettled(r) /\ sheet[r] = debounced[r]
      BY <2>1, <2>8 DEF ERowsSettled
    <3>2. ~sheet'[r].saved /\ r \notin E!Saving
      BY <2>1, <2>3, <3>1 DEF ESettled
    <3>3. ASSUME r \in E!Saving'
          PROVE  /\ sheetSave'.slot = s /\ sheet'[r].score = sheetSave'.scores[r]
                 /\ \E q \in posts' : q.student = r
      BY <2>3, <2>5, <3>1, <3>2, <3>3 DEF E!Saving
    <3> QED BY <2>1, <3>1, <3>2, <3>3 DEF ESettled, E!Late
  <2>9. ERowsSettled'
    BY <2>8 DEF ERowsSettled
  <2> QED BY <2>5, <2>6, <2>7, <2>9
<1>4. ASSUME NEW where \in ESlots \cup {None}, E!Reload(where) PROVE EShownInv'
  <2>1. /\ slot' \in {slot, None} /\ sheet' = [r \in ERows |-> E!Blank] /\ timer' = TRUE
        /\ unsettled' = unsettled \cup E!Filled(sheet) \cup E!Filled(debounced) \cup E!Saving
        /\ carried' \subseteq carried \cup E!Filled(sheet) \cup E!Filled(debounced)
        /\ UNCHANGED <<debounced, sheetSave, posts, latePosts, stored, failed>>
    BY <1>4 DEF E!Reload, E!Carry, ERows
  <2>2. E!Filled(sheet) \cup E!Filled(debounced) \cup E!Saving \subseteq ERows
    BY DEF E!Filled, E!Saving, ESave, ERows
  <2>3. \A r \in ERows : sheet'[r].score = None /\ ~sheet'[r].saved
    BY <2>1 DEF E!Blank
  <2>4. EMarks'
    BY <2>1, <2>2, <2>3 DEF EFilled
  <2>5. EPosted' /\ EWaits'
    BY <2>1 DEF EPosted, EWaits, E!NothingForgotten
  <2>6. ASSUME NEW r \in ERows \ unsettled' PROVE ESettled(r)'
    <3>1. ESettled(r) /\ r \notin E!Saving'
      BY <2>1, <2>6 DEF ERowsSettled, E!Saving
    <3> QED BY <2>1, <2>3, <3>1 DEF ESettled, E!Late
  <2>7. ERowsSettled'
    BY <2>6 DEF ERowsSettled
  <2> QED BY <2>4, <2>5, <2>7
<1>5. ASSUME E!Debounce PROVE EShownInv'
  <2>1. /\ timer' = FALSE /\ debounced' = sheet /\ E!Effect(sheet, slot)
        /\ UNCHANGED <<slot, sheet, latePosts, stored, unsettled, carried, failed>>
    BY <1>5 DEF E!Debounce
  <2>2. /\ sheetSave' \in {None} \cup ESave /\ posts' \subseteq E!Post /\ EPosted'
        /\ \/ /\ slot = None \/ sheetSave # None \/ E!ToSave(sheet) = {}
              /\ UNCHANGED <<sheetSave, posts>>
           \/ /\ slot # None /\ sheetSave = None /\ sheetSave' # None
              /\ sheetSave'.slot = slot /\ DOMAIN sheetSave'.scores = E!ToSave(sheet)
              /\ \A r \in E!ToSave(sheet) : /\ sheetSave'.scores[r] = sheet[r].score
                                            /\ \E q \in posts' : q.student = r
    BY <1>0, <2>1, ESends
  <2>3. EMarks'
    BY <2>1, <2>2
  <2>4. EWaits'
    BY <2>1, <2>2 DEF EWaits, E!NothingForgotten
  <2>5. ASSUME NEW r \in ERows \ unsettled PROVE ESettled(r)'
    <3>1. ESettled(r)
      BY DEF ERowsSettled
    <3>2. CASE UNCHANGED <<sheetSave, posts>>
      BY <2>1, <3>1, <3>2 DEF ESettled, EHas, E!Saving, E!Late
    <3>3. CASE sheetSave = None /\ sheetSave' # None
      <4>1. r \in E!Saving' => /\ slot # None /\ sheetSave'.slot = slot
                               /\ sheet[r].score = sheetSave'.scores[r]
                               /\ \E q \in posts' : q.student = r
        BY <2>2, <3>3 DEF E!Saving
      <4>2. (E!Late(r)' <=> E!Late(r))
        BY <2>1 DEF E!Late
      <4> QED BY <2>1, <3>1, <4>1, <4>2 DEF ESettled, EHas
    <3> QED BY <2>2, <3>2, <3>3
  <2>6. ERowsSettled'
    BY <2>1, <2>5 DEF ERowsSettled
  <2> QED BY <2>2, <2>3, <2>4, <2>6
<1>6. ASSUME NEW q \in posts, E!Answer(q) PROVE EShownInv'
  <2>1. /\ posts' = posts \ {q} /\ E!Stored(q)
        /\ UNCHANGED <<slot, sheet, debounced, timer, sheetSave, latePosts, unsettled, carried, failed>>
    BY <1>6 DEF E!Answer
  <2>2. /\ stored' \in [ESlots -> [ERows -> {None} \cup [score : SheetScores, typedFor : ESlots]]]
        /\ \A s \in ESlots, r \in ERows :
             IF s = q.slot /\ r = q.student THEN EHas(s, r, q.score)'
             ELSE stored'[s][r] = stored[s][r]
    BY <2>1, EStores
  <2>3. EMarks' /\ EPosted' /\ EWaits'
    BY <2>1, <2>2 DEF EPosted, EWaits, E!NothingForgotten
  <2>4. ASSUME NEW r \in ERows \ unsettled PROVE ESettled(r)'
    <3>1. ESettled(r) /\ E!Saving' = E!Saving /\ (E!Late(r)' <=> E!Late(r))
      BY <2>1 DEF ERowsSettled, E!Saving, E!Late
    <3>2. CASE r # q.student
      <4>1. \A s \in ESlots : stored'[s][r] = stored[s][r]
        BY <2>2, <3>2
      <4>2. slot # None => stored'[slot][r] = stored[slot][r]
        BY <1>0, <4>1
      <4>3. (\E p \in posts : p.student = r) => \E p \in posts' : p.student = r
        BY <2>1, <3>2
      <4> QED BY <2>1, <3>1, <4>2, <4>3 DEF ESettled, EHas
    <3>3. CASE r = q.student
      <4>1. /\ r \in E!Saving /\ q.slot = sheetSave.slot /\ q.score = sheetSave.scores[r]
        BY <3>3 DEF EPosted, E!Saving
      <4>2. /\ slot # None /\ q.slot = slot /\ q.score = sheet[r].score
        BY <3>1, <4>1 DEF ESettled
      <4>3. EHas(slot, r, q.score)'
        BY <1>0, <2>1, <2>2, <3>3, <4>2
      <4> QED BY <2>1, <3>1, <4>1, <4>2, <4>3 DEF ESettled, EHas
    <3> QED BY <3>2, <3>3
  <2>5. ERowsSettled'
    BY <2>1, <2>4 DEF ERowsSettled
  <2> QED BY <2>3, <2>5
<1>7. ASSUME E!OnSuccess PROVE EShownInv'
  <2>1. /\ sheetSave # None /\ posts = {} /\ sheetSave' = None /\ timer' = TRUE
        /\ sheet' = [r \in ERows |-> IF r \in E!Saving THEN [sheet[r] EXCEPT !.saved = TRUE]
                                     ELSE sheet[r]]
        /\ UNCHANGED <<slot, debounced, posts, latePosts, stored, unsettled, carried, failed>>
    BY <1>7 DEF E!OnSuccess, E!Saved, ERows
  <2>2. \A r \in ERows : /\ sheet'[r].score = sheet[r].score
                         /\ sheet'[r].typedFor = sheet[r].typedFor
                         /\ sheet'[r].saved => sheet[r].saved \/ r \in E!Saving
    BY <1>0, <2>1 DEF E!Row
  <2>3. EMarks'
    BY <2>1, <2>2 DEF EFilled
  <2>4. EPosted' /\ EWaits'
    BY <2>1 DEF EPosted, EWaits, E!NothingForgotten
  <2>5. ASSUME NEW r \in ERows \ unsettled PROVE ESettled(r)'
    <3>1. ESettled(r) /\ r \notin E!Saving' /\ (E!Late(r)' <=> E!Late(r))
      BY <2>1 DEF ERowsSettled, E!Saving, E!Late
    <3>2. sheet'[r].saved => slot # None /\ EHas(slot, r, sheet[r].score)
      BY <2>1, <2>2, <3>1 DEF ESettled
    <3> QED BY <2>1, <2>2, <3>1, <3>2 DEF ESettled, EHas
  <2>6. ERowsSettled'
    BY <2>1, <2>5 DEF ERowsSettled
  <2> QED BY <2>3, <2>4, <2>6
<1>8. ASSUME E!OnError PROVE EShownInv'
  <2>1. PICK left \in SUBSET posts :
          latePosts' = latePosts \cup left /\ unsettled' = unsettled \cup {p.student : p \in left}
    BY <1>8 DEF E!OnError
  <2>2. /\ posts' = {} /\ sheetSave' = None /\ failed' = TRUE
        /\ UNCHANGED <<slot, sheet, debounced, timer, stored, carried>>
    BY <1>8 DEF E!OnError
  <2>3. \A p \in left : p \in E!Post /\ p.student \in ERows
    BY DEF E!Post, ERows
  <2>4. EMarks'
    BY <2>1, <2>2, <2>3
  <2>5. EPosted' /\ EWaits'
    BY <2>2 DEF EPosted, EWaits, E!NothingForgotten
  <2>6. ASSUME NEW r \in ERows \ unsettled' PROVE ESettled(r)'
    <3>1. ESettled(r) /\ r \notin E!Saving' /\ ~E!Late(r)'
      BY <2>1, <2>2, <2>6 DEF ERowsSettled, ESettled, E!Saving, E!Late
    <3> QED BY <2>2, <3>1 DEF ESettled, EHas
  <2>7. ERowsSettled'
    BY <2>6 DEF ERowsSettled
  <2> QED BY <2>4, <2>5, <2>7
<1>9. ASSUME NEW q \in latePosts, E!StoreLate(q) PROVE EShownInv'
  <2>1. /\ latePosts' \subseteq latePosts
        /\ E!Stored(q) \/ UNCHANGED stored
        /\ UNCHANGED <<slot, sheet, debounced, timer, sheetSave, posts, unsettled, carried, failed>>
    BY <1>9 DEF E!StoreLate
  <2>2. /\ stored' \in [ESlots -> [ERows -> {None} \cup [score : SheetScores, typedFor : ESlots]]]
        /\ \A s \in ESlots, r \in ERows : r # q.student => stored'[s][r] = stored[s][r]
    BY <2>1, EStores
  <2>3. EMarks' /\ EPosted' /\ EWaits'
    BY <2>1, <2>2 DEF EPosted, EWaits, E!NothingForgotten
  <2>4. ASSUME NEW r \in ERows \ unsettled PROVE ESettled(r)'
    <3>1. ESettled(r) /\ E!Saving' = E!Saving
      BY <2>1 DEF ERowsSettled, E!Saving
    <3>2. r # q.student /\ ~E!Late(r)'
      BY <2>1, <3>1 DEF ESettled, E!Late
    <3>3. slot # None => stored'[slot][r] = stored[slot][r]
      BY <1>0, <2>2, <3>2
    <3> QED BY <2>1, <3>1, <3>2, <3>3 DEF ESettled, EHas
  <2>5. ERowsSettled'
    BY <2>1, <2>4 DEF ERowsSettled
  <2> QED BY <2>3, <2>5
<1>10. CASE UNCHANGED E!vars
  <2>1. EMarks' /\ EPosted' /\ EWaits'
    BY <1>10 DEF E!vars, EPosted, EWaits, E!NothingForgotten
  <2>2. ERowsSettled'
    BY <1>10 DEF E!vars, ERowsSettled, ESettled, EHas, E!Saving, E!Late
  <2> QED BY <2>1, <2>2
<1> HIDE DEF EShownInv, EMarks
<1> QED BY <1>1, <1>2, <1>3, <1>4, <1>5, <1>6, <1>7, <1>8, <1>9, <1>10 DEF E!Next, ESlots, ERows

\* A row that is marked as saved is stored, but for what the property names.
LEMMA EShown == EShownInv => E!SavedIsStored /\ E!NothingForgotten
BY DEF EShownInv, EWaits, ERowsSettled, ESettled, EHas, E!SavedIsStored, ERows

\* And everything has its type.
LEMMA ETypes == EShownInv => E!TypeOK
<1> SUFFICES ASSUME EShownInv PROVE E!TypeOK
  OBVIOUS
<1>1. sheetSave # None => sheetSave.slot \in ESlots /\ sheetSave.scores \in [E!Saving -> SheetScores]
  BY DEF EShownInv, EMarks, ESave, E!Saving
<1> QED BY <1>1 DEF EShownInv, EInv, ETyped, EMarks, E!TypeOK, ESlots, ERows

-----------------------------------------------------------------------------
(* The grid of evaluations *)

\* The instance of the grid that MCScreens makes: two cells, two periods.
GCells == Cells
GPeriods == GridPeriods

\* A save, as it is sent.
GSave == [period : GPeriods, values : UNION {[cs -> Valuations] : cs \in SUBSET GCells},
          toggled : SUBSET GCells, missed : SUBSET GCells]

\* The types of grids, copies, saves and histories.
GTypes ==
    /\ {evaluations, meant} \subseteq [GPeriods -> G!Grid]
    /\ period \in GPeriods \cup {None}
    /\ cache \in [GPeriods -> G!Copy \cup {None}]
    /\ fetch \in [GPeriods -> G!Copy \cup {None, Asked}]
    /\ localValues \in G!Grid
    /\ toggled \subseteq GCells /\ missed \subseteq GCells
    /\ gridSave \in {None} \cup GSave
    /\ hasChanges => period # None

\* A copy of the grid of p is what is stored, but for the cells written since.
GFresh(p, copy) == \A c \in GCells \ copy.missed : copy.grid[c] = evaluations[p][c]

\* So are the cached grids, and the one that was fetched.
GCopies ==
    \A p \in GPeriods :
        /\ cache[p] # None => GFresh(p, cache[p])
        /\ fetch[p] \notin {None, Asked} => GFresh(p, fetch[p])

\* So is the screen, but for the cells clicked too.
GScreen ==
    period # None /\ ~mixed =>
        \A c \in GCells \ (toggled \cup missed) :
            /\ localValues[c] = evaluations[period][c]
            /\ gridSave # None /\ gridSave.period = period /\ c \in DOMAIN gridSave.values =>
                 localValues[c] = gridSave.values[c]

\* And so is what a save sends, if it was the screen of its period.
GSent ==
    gridSave # None /\ gridSave.period \notin crossed =>
        \A c \in DOMAIN gridSave.values \ (gridSave.toggled \cup gridSave.missed) :
            gridSave.values[c] = evaluations[gridSave.period][c]

\* What every step of the grid keeps.
GInv == GTypes /\ GCopies /\ GScreen /\ GSent /\ G!OthersKept

\* It holds at first.
LEMMA GInitial == G!Init => GInv
<1> SUFFICES ASSUME G!Init PROVE GInv
  OBVIOUS
<1>1. GTypes
  <2>1. evaluations \in [GPeriods -> G!Grid] /\ meant = evaluations /\ G!Blank \in G!Grid
    BY DEF G!Init, G!Grid, G!Blank, GPeriods
  <2>2. cache = [p \in GPeriods |-> None] /\ fetch = cache
    BY DEF G!Init, GPeriods
  <2>3. /\ period = None /\ localValues = G!Blank /\ toggled = {} /\ missed = {} /\ gridSave = None
        /\ ~hasChanges
    BY DEF G!Init
  <2> QED BY <2>1, <2>2, <2>3 DEF GTypes
<1>2. GCopies
  BY DEF G!Init, GCopies, GPeriods
<1>3. GScreen /\ GSent /\ G!OthersKept
  BY DEF G!Init, GScreen, GSent, G!OthersKept
<1> QED BY <1>1, <1>2, <1>3 DEF GInv

\* What makes a copy of a grid out of date is added to it.
LEMMA GMissed ==
    ASSUME NEW copy \in G!Copy, NEW cs \in SUBSET GCells
    PROVE  LET older == [copy EXCEPT !.missed = @ \cup cs] IN
           older \in G!Copy /\ older.grid = copy.grid /\ older.missed = copy.missed \cup cs
BY DEF G!Copy, GCells

\* Showing a period keeps what the screen is to hold.
LEMMA GShow ==
    ASSUME GInv, NEW p \in GPeriods, NEW copy \in G!Copy, GFresh(p, copy), G!Show(p, copy),
           period' = p, UNCHANGED <<evaluations, gridSave>>
    PROVE  /\ localValues' \in G!Grid /\ toggled' \subseteq GCells /\ missed' \subseteq GCells
           /\ hasChanges' = FALSE
           /\ GScreen'
<1>1. /\ localValues' = copy.grid /\ toggled' = {} /\ hasChanges' = FALSE
      /\ missed' = copy.missed \cup G!Unsettled(p)
  BY DEF G!Show, G!Initial
<1>2. copy.grid \in G!Grid /\ copy.missed \subseteq GCells
  BY DEF G!Copy, GCells
<1>3. /\ G!Unsettled(p) \subseteq GCells
      /\ gridSave # None /\ gridSave.period = p => G!Unsettled(p) = DOMAIN gridSave.values
  BY DEF GInv, GTypes, GSave, G!Unsettled
<1>4. missed' \subseteq GCells
  BY <1>1, <1>2, <1>3
<1>5. GScreen'
  <2> SUFFICES ASSUME NEW c \in GCells \ (toggled' \cup missed')
               PROVE  /\ localValues'[c] = evaluations[p][c]
                      /\ gridSave # None /\ gridSave.period = p => c \notin DOMAIN gridSave.values
    BY DEF GScreen
  <2> QED BY <1>1, <1>3 DEF GFresh
<1> QED BY <1>1, <1>2, <1>4, <1>5

\* What the database, the cached grid and the histories are after a save.
LEMMA GStored ==
    ASSUME GInv, gridSave # None, G!Stored
    PROVE  LET p == gridSave.period
               vs == gridSave.values IN
           /\ gridSave \in GSave
           /\ {evaluations', meant'} \subseteq [GPeriods -> G!Grid]
           /\ \A o \in GPeriods \ {p} : /\ evaluations'[o] = evaluations[o] /\ meant'[o] = meant[o]
                                        /\ cache'[o] = cache[o]
           /\ \A c \in GCells :
                /\ evaluations'[p][c] = IF c \in DOMAIN vs THEN vs[c] ELSE evaluations[p][c]
                /\ meant'[p][c] = IF c \in DOMAIN vs /\ c \in gridSave.toggled THEN vs[c] ELSE meant[p][c]
           /\ cache' \in [GPeriods -> G!Copy \cup {None}]
           /\ cache'[p] = G!Outdated(cache[p])
           /\ \A o \in GPeriods \ {p}, c \in GCells : <<o, c>> \in overwritten => <<o, c>> \in overwritten'
           /\ \A c \in GCells : 
                /\ ~(c \in DOMAIN vs /\ c \in gridSave.toggled)
                /\ <<p, c>> \in overwritten \/ (c \in DOMAIN vs /\ c \in gridSave.missed)
                => <<p, c>> \in overwritten'
<1> DEFINE p == gridSave.period
           vs == gridSave.values
<1>1. /\ gridSave \in GSave /\ p \in GPeriods /\ DOMAIN vs \subseteq GCells
      /\ \A c \in DOMAIN vs : vs[c] \in Valuations
      /\ gridSave.toggled \subseteq GCells /\ gridSave.missed \subseteq GCells
  BY DEF GInv, GTypes, GSave
<1>2. /\ evaluations' = [evaluations EXCEPT ![p] =
                           [c \in GCells |-> IF c \in DOMAIN vs THEN vs[c] ELSE evaluations[p][c]]]
      /\ meant' = [meant EXCEPT ![p] =
                     [c \in GCells |-> IF c \in DOMAIN vs /\ c \in gridSave.toggled THEN vs[c] ELSE meant[p][c]]]
      /\ cache' = [cache EXCEPT ![p] = G!Outdated(cache[p])]
      /\ overwritten' = (overwritten \ {<<p, c>> : c \in {d \in GCells : d \in DOMAIN vs /\ d \in gridSave.toggled}})
                          \cup {<<p, c>> : c \in {d \in gridSave.missed :
                                  d \in DOMAIN vs /\ ~(d \in DOMAIN vs /\ d \in gridSave.toggled)}}
  BY DEF G!Stored, GCells, GInv, GTypes, GPeriods
<1> HIDE DEF vs
<1>3. \A c \in GCells : /\ (IF c \in DOMAIN vs THEN vs[c] ELSE evaluations[p][c]) \in Valuations \cup {None}
                        /\ (IF c \in DOMAIN vs /\ c \in gridSave.toggled THEN vs[c] ELSE meant[p][c]) \in Valuations \cup {None}
  BY <1>1 DEF GInv, GTypes, G!Grid, GCells
<1>4. /\ [c \in GCells |-> IF c \in DOMAIN vs THEN vs[c] ELSE evaluations[p][c]] \in G!Grid
      /\ [c \in GCells |-> IF c \in DOMAIN vs /\ c \in gridSave.toggled THEN vs[c] ELSE meant[p][c]] \in G!Grid
  BY <1>3 DEF G!Grid, GCells
<1> HIDE DEF p
<1>5. {evaluations', meant'} \subseteq [GPeriods -> G!Grid]
  BY <1>1, <1>2, <1>4 DEF GInv, GTypes
<1>6. /\ \A o \in GPeriods \ {p} : /\ evaluations'[o] = evaluations[o] /\ meant'[o] = meant[o]
                                   /\ cache'[o] = cache[o]
      /\ evaluations'[p] = [c \in GCells |-> IF c \in DOMAIN vs THEN vs[c] ELSE evaluations[p][c]]
      /\ meant'[p] = [c \in GCells |-> IF c \in DOMAIN vs /\ c \in gridSave.toggled THEN vs[c] ELSE meant[p][c]]
      /\ cache'[p] = G!Outdated(cache[p])
  BY <1>1, <1>2 DEF GInv, GTypes
<1>7. G!Outdated(cache[p]) \in G!Copy \cup {None}
  <2>1. CASE cache[p] = None
    BY <2>1 DEF G!Outdated
  <2>2. CASE cache[p] # None
    <3>1. cache[p] \in G!Copy
      BY <1>1, <2>2 DEF GInv, GTypes
    <3>2. DOMAIN gridSave.values \in SUBSET GCells
      BY <1>1 DEF vs
    <3>3. [cache[p] EXCEPT !.missed = @ \cup DOMAIN gridSave.values] \in G!Copy
      BY <3>1, <3>2, GMissed
    <3> QED BY <3>1, <3>3, ScreensAssumption DEF G!Outdated
  <2> QED BY <2>1, <2>2
<1>8. cache' \in [GPeriods -> G!Copy \cup {None}]
  BY <1>1, <1>2, <1>7 DEF GInv, GTypes
<1>9. \A o \in GPeriods \ {p}, c \in GCells : <<o, c>> \in overwritten => <<o, c>> \in overwritten'
  BY <1>2
<1>10. \A c \in GCells : 
                /\ ~(c \in DOMAIN vs /\ c \in gridSave.toggled)
                /\ <<p, c>> \in overwritten \/ (c \in DOMAIN vs /\ c \in gridSave.missed)
                => <<p, c>> \in overwritten'
  BY <1>2
<1> QED BY <1>1, <1>5, <1>6, <1>8, <1>9, <1>10 DEF p, vs

\* An outdated copy is as fresh as the one before the save.
LEMMA GOutdated ==
    ASSUME GInv, gridSave # None, G!Stored, NEW copy \in G!Copy, NEW p \in GPeriods, GFresh(p, copy)
    PROVE  /\ p = gridSave.period =>
                \E older \in G!Copy : older = G!Outdated(copy) /\ GFresh(p, older)'
           /\ p # gridSave.period => GFresh(p, copy)'
<1>1. DOMAIN gridSave.values \in SUBSET GCells
  BY DEF GInv, GTypes, GSave
<1>2. /\ [copy EXCEPT !.missed = @ \cup DOMAIN gridSave.values] \in G!Copy
      /\ [copy EXCEPT !.missed = @ \cup DOMAIN gridSave.values].grid = copy.grid
      /\ [copy EXCEPT !.missed = @ \cup DOMAIN gridSave.values].missed = copy.missed \cup DOMAIN gridSave.values
  BY <1>1, GMissed
<1>3. PICK older \in G!Copy : /\ older = G!Outdated(copy) /\ older.grid = copy.grid
                              /\ older.missed = copy.missed \cup DOMAIN gridSave.values
  BY <1>2, ScreensAssumption DEF G!Outdated
<1>4. p = gridSave.period =>
        \A c \in GCells : c \notin DOMAIN gridSave.values => evaluations'[p][c] = evaluations[p][c]
  BY GStored
<1>5. p # gridSave.period => evaluations'[p] = evaluations[p]
  BY GStored
<1>6. p = gridSave.period => GFresh(p, older)'
  BY <1>3, <1>4 DEF GFresh
<1>7. p # gridSave.period => GFresh(p, copy)'
  BY <1>5 DEF GFresh
<1> QED BY <1>3, <1>6, <1>7

\* A save that is stored changes no cell that it does not mean to.
LEMMA GStoredKept ==
    ASSUME GInv, gridSave # None, G!Stored, crossed' = crossed
    PROVE  G!OthersKept'
<1> DEFINE vs == gridSave.values
<1>1. PICK p \in GPeriods : p = gridSave.period
  BY DEF GInv, GTypes, GSave
<1>2. SUFFICES ASSUME NEW o \in GPeriods \ crossed, NEW c \in GCells, <<o, c>> \notin overwritten'
               PROVE  evaluations'[o][c] = meant'[o][c]
  BY DEF G!OthersKept, GCells, GPeriods
<1>3. CASE o # p
  <2>1. evaluations'[o] = evaluations[o] /\ meant'[o] = meant[o] /\ <<o, c>> \notin overwritten
    BY <1>1, <1>2, <1>3, GStored
  <2> QED BY <2>1 DEF GInv, G!OthersKept, GCells, GPeriods
<1>4. CASE o = p
  <2>1. /\ evaluations'[p][c] = IF c \in DOMAIN vs THEN vs[c] ELSE evaluations[p][c]
        /\ meant'[p][c] = IF c \in DOMAIN vs /\ c \in gridSave.toggled THEN vs[c] ELSE meant[p][c]
    BY <1>1, GStored
  <2>2. ~(c \in DOMAIN vs /\ c \in gridSave.toggled) =>
          <<p, c>> \notin overwritten /\ ~(c \in DOMAIN vs /\ c \in gridSave.missed)
    BY <1>1, <1>2, <1>4, GStored
  <2>3. c \in DOMAIN vs /\ c \notin gridSave.toggled => vs[c] = evaluations[p][c]
    BY <1>1, <1>4, <2>2 DEF GInv, GSent
  <2>4. <<p, c>> \notin overwritten => evaluations[p][c] = meant[p][c]
    BY <1>4 DEF GInv, G!OthersKept, GCells, GPeriods
  <2> HIDE DEF vs
  <2> QED BY <1>4, <2>1, <2>2, <2>3, <2>4
<1> QED BY <1>3, <1>4

\* The screen after a save: the cells that were sent are as it shows them.
LEMMA GStoredScreen ==
    ASSUME GInv, gridSave # None, G!Stored, gridSave' = None,
           UNCHANGED <<period, localValues, toggled, mixed>>,
           missed \subseteq missed'
    PROVE  GScreen'
<1>1. PICK p \in GPeriods : p = gridSave.period
  BY DEF GInv, GTypes, GSave
<1>2. SUFFICES ASSUME period # None, ~mixed, NEW c \in GCells \ (toggled \cup missed')
               PROVE  localValues[c] = evaluations'[period][c]
  BY DEF GScreen
<1>3. localValues[c] = evaluations[period][c] /\ period \in GPeriods
      /\ (p = period /\ c \in DOMAIN gridSave.values => localValues[c] = gridSave.values[c])
  BY <1>1, <1>2 DEF GInv, GTypes, GScreen
<1>4. CASE period # p
  BY <1>1, <1>3, <1>4, GStored
<1>5. CASE period = p
  <2>1. evaluations'[p][c] = IF c \in DOMAIN gridSave.values THEN gridSave.values[c] ELSE evaluations[p][c]
    BY <1>1, GStored
  <2> QED BY <1>3, <1>5, <2>1
<1> QED BY <1>4, <1>5

\* The copies after a save: those of its period are out of date.
LEMMA GStoredCopies ==
    ASSUME GInv, gridSave # None, G!Stored, DOMAIN fetch' = GPeriods,
           fetch' = [o \in GPeriods |-> fetch'[o]],
           \A o \in GPeriods : \/ fetch'[o] = Asked
                               \/ o = gridSave.period /\ fetch'[o] = G!Outdated(fetch[o])
                               \/ o # gridSave.period /\ fetch'[o] = fetch[o]
    PROVE  fetch' \in [GPeriods -> G!Copy \cup {None, Asked}] /\ GCopies'
<1>1. \A o \in GPeriods : /\ cache'[o] # None => GFresh(o, cache[o])'
                          /\ fetch'[o] \in G!Copy \cup {None, Asked}
                          /\ fetch'[o] \notin {None, Asked} => GFresh(o, fetch[o])'
  <2> SUFFICES ASSUME NEW o \in GPeriods
               PROVE  /\ cache'[o] # None => GFresh(o, cache[o])'
                      /\ fetch'[o] \in G!Copy \cup {None, Asked}
                      /\ fetch'[o] \notin {None, Asked} => GFresh(o, fetch[o])'
    OBVIOUS
  <2>1. cache'[o] = IF o = gridSave.period THEN G!Outdated(cache[o]) ELSE cache[o]
    BY GStored
  <2>2. cache[o] \in G!Copy \cup {None} /\ fetch[o] \in G!Copy \cup {None, Asked}
    BY DEF GInv, GTypes
  <2>3. G!Outdated(None) = None /\ G!Outdated(Asked) = Asked
    BY DEF G!Outdated
  <2>4. /\ cache[o] # None => GFresh(o, cache[o])
        /\ fetch[o] \notin {None, Asked} => GFresh(o, fetch[o])
    BY DEF GInv, GCopies
  <2>5. cache'[o] # None => GFresh(o, cache[o])'
    <3>1. CASE cache[o] = None
      BY <2>1, <2>3, <3>1
    <3>2. CASE cache[o] # None /\ o = gridSave.period
      <4>1. \E older \in G!Copy : older = G!Outdated(cache[o]) /\ GFresh(o, older)'
        BY <2>2, <2>4, <3>2, GOutdated
      <4>2. PICK older \in G!Copy : older = cache'[o] /\ GFresh(o, older)'
        BY <2>1, <3>2, <4>1
      <4> QED BY <4>2 DEF GFresh
    <3>3. CASE cache[o] # None /\ o # gridSave.period
      <4>1. evaluations'[o] = evaluations[o]
        BY <3>3, GStored
      <4> QED BY <2>1, <2>4, <3>3, <4>1 DEF GFresh
    <3> QED BY <3>1, <3>2, <3>3
  <2>6. CASE fetch[o] \in {None, Asked}
    BY <2>2, <2>3, <2>5, <2>6
  <2>7. CASE fetch[o] \notin {None, Asked} /\ o = gridSave.period
    <3>1. \E older \in G!Copy : older = G!Outdated(fetch[o]) /\ GFresh(o, older)'
      BY <2>2, <2>4, <2>7, GOutdated
    <3>2. PICK older \in G!Copy : older = G!Outdated(fetch[o]) /\ GFresh(o, older)'
      BY <3>1
    <3>3. fetch'[o] = Asked \/ fetch'[o] = older
      BY <2>7, <3>2
    <3> QED BY <2>5, <3>2, <3>3 DEF GFresh
  <2>8. CASE fetch[o] \notin {None, Asked} /\ o # gridSave.period
    <3>1. evaluations'[o] = evaluations[o]
      BY <2>8, GStored
    <3>2. fetch'[o] = Asked \/ fetch'[o] = fetch[o]
      BY <2>8
    <3> QED BY <2>2, <2>4, <2>5, <2>8, <3>1, <3>2 DEF GFresh
  <2> QED BY <2>6, <2>7, <2>8
<1>2. GCopies'
  BY <1>1 DEF GCopies
<1>3. fetch' \in [GPeriods -> G!Copy \cup {None, Asked}]
  BY <1>1
<1> QED BY <1>2, <1>3

\* What a save sends.
LEMMA GSaves ==
    ASSUME GInv, G!Save
    PROVE  GInv' /\ gridSave' \in GSave
<1> DEFINE vs == [c \in G!Sent |-> localValues[c]]
<1>1. /\ hasChanges /\ gridSave = None
      /\ gridSave' = [period |-> period, values |-> vs, toggled |-> toggled, missed |-> missed]
      /\ crossed' = IF mixed THEN crossed \cup {period} ELSE crossed
      /\ UNCHANGED <<evaluations, period, cache, fetch, localValues, hasChanges, toggled, missed,
                     mixed, meant, overwritten>>
  BY DEF G!Save, G!copies
<1>2. /\ G!Sent \in SUBSET GCells /\ \A c \in G!Sent : localValues[c] \in Valuations
      /\ period \in GPeriods
  BY <1>1 DEF G!Sent, GInv, GTypes, G!Grid, GCells
<1>3. vs \in UNION {[cs -> Valuations] : cs \in SUBSET GCells} /\ DOMAIN vs = G!Sent
      /\ \A c \in G!Sent : vs[c] = localValues[c]
  BY <1>2
<1> HIDE DEF vs
<1>4. gridSave' \in GSave /\ gridSave'.period = period /\ gridSave'.values = vs
      /\ gridSave'.toggled = toggled /\ gridSave'.missed = missed
  BY <1>1, <1>2, <1>3 DEF GSave, GInv, GTypes
<1>5. GTypes'
  BY <1>1, <1>4 DEF GInv, GTypes
<1>6. GCopies' /\ G!OthersKept'
  BY <1>1 DEF GInv, GCopies, GFresh, G!OthersKept
<1>7. GScreen'
  BY <1>1, <1>3, <1>4 DEF GInv, GScreen
<1>8. GSent'
  <2> SUFFICES ASSUME period \notin crossed', NEW c \in G!Sent \ (toggled \cup missed)
               PROVE  vs[c] = evaluations[period][c]
    BY <1>1, <1>3, <1>4 DEF GSent
  <2>1. ~mixed /\ c \in GCells \ (toggled \cup missed) /\ period # None
    BY <1>1, <1>2, ScreensAssumption DEF GPeriods
  <2> QED BY <1>3, <2>1 DEF GInv, GScreen
<1> QED BY <1>4, <1>5, <1>6, <1>7, <1>8 DEF GInv

\* Every step of the grid keeps it.
LEMMA GStep == GInv /\ [G!Next]_gVars => GInv'
<1> SUFFICES ASSUME GInv, [G!Next]_gVars PROVE GInv'
  OBVIOUS
<1>1. ASSUME NEW p \in GPeriods, G!Select(p) PROVE GInv'
  <2>1. /\ p # period /\ period' = p /\ UNCHANGED <<evaluations, cache, gridSave, meant, overwritten, crossed>>
        /\ IF cache[p] # None THEN G!Show(p, cache[p])
           ELSE mixed' = TRUE /\ UNCHANGED <<localValues, hasChanges, toggled, missed, hidden>>
        /\ fetch' = IF fetch[p] = None /\ (cache[p] = None \/ p \in stale)
                    THEN [fetch EXCEPT ![p] = Asked] ELSE fetch
    BY <1>1 DEF G!Select
  <2>2. fetch' \in [GPeriods -> G!Copy \cup {None, Asked}]
        /\ \A o \in GPeriods : fetch'[o] = fetch[o] \/ fetch'[o] = Asked
    BY <2>1 DEF GInv, GTypes
  <2>3. p # None
    BY ScreensAssumption DEF GPeriods
  <2>4. GCopies'
    BY <2>1, <2>2 DEF GInv, GCopies, GFresh
  <2>5. GSent' /\ G!OthersKept'
    BY <2>1 DEF GInv, GSent, G!OthersKept
  <2>6. CASE cache[p] # None
    <3>1. cache[p] \in G!Copy /\ GFresh(p, cache[p])
      BY <2>6 DEF GInv, GTypes, GCopies
    <3>2. /\ localValues' \in G!Grid /\ toggled' \subseteq GCells /\ missed' \subseteq GCells
          /\ hasChanges' = FALSE /\ GScreen'
      BY <2>1, <2>6, <3>1, GShow
    <3>3. GTypes'
      BY <2>1, <2>2, <3>2 DEF GInv, GTypes
    <3> QED BY <2>4, <2>5, <3>2, <3>3 DEF GInv
  <2>7. CASE cache[p] = None
    <3>1. GTypes' /\ GScreen'
      BY <2>1, <2>2, <2>3, <2>7 DEF GInv, GTypes, GScreen
    <3> QED BY <2>4, <2>5, <3>1 DEF GInv
  <2> QED BY <2>6, <2>7
<1>2. ASSUME NEW p \in GPeriods, G!Expire(p) PROVE GInv'
  BY <1>2 DEF G!Expire, G!screen, GInv, GTypes, GCopies, GFresh, GScreen, GSent,
    G!OthersKept
<1>3. ASSUME NEW p \in GPeriods, G!Read(p) PROVE GInv'
  <2>1. /\ fetch' = [fetch EXCEPT ![p] = [grid |-> evaluations[p], missed |-> {}]]
        /\ UNCHANGED <<evaluations, period, cache, gridSave, meant, overwritten, crossed>>
        /\ UNCHANGED <<localValues, hasChanges, toggled, missed, mixed>>
    BY <1>3 DEF G!Read, G!screen
  <2>2. [grid |-> evaluations[p], missed |-> {}] \in G!Copy
    BY DEF GInv, GTypes, G!Copy
  <2>3. GTypes'
    BY <2>1, <2>2 DEF GInv, GTypes
  <2>4. \A o \in GPeriods : fetch'[o] = IF o = p THEN [grid |-> evaluations[p], missed |-> {}] ELSE fetch[o]
    BY <2>1 DEF GInv, GTypes
  <2>5. GCopies'
    BY <2>1, <2>4 DEF GInv, GCopies, GFresh
  <2> QED BY <2>1, <2>3, <2>5 DEF GInv, GScreen, GSent, G!OthersKept
<1>4. ASSUME NEW p \in GPeriods, G!Receive(p) PROVE GInv'
  <2>1. /\ fetch[p] \notin {None, Asked} /\ cache' = [cache EXCEPT ![p] = fetch[p]]
        /\ fetch' = [fetch EXCEPT ![p] = None]
        /\ UNCHANGED <<evaluations, period, gridSave, meant, overwritten, crossed>>
    BY <1>4 DEF G!Receive
  <2>2. fetch[p] \in G!Copy /\ GFresh(p, fetch[p])
    BY <2>1 DEF GInv, GTypes, GCopies
  <2>3. /\ cache' \in [GPeriods -> G!Copy \cup {None}] /\ fetch' \in [GPeriods -> G!Copy \cup {None, Asked}]
        /\ \A o \in GPeriods : /\ cache'[o] = IF o = p THEN fetch[p] ELSE cache[o]
                               /\ fetch'[o] \in {fetch[o], None}
    BY <2>1, <2>2 DEF GInv, GTypes
  <2>4. GCopies'
    BY <2>1, <2>2, <2>3 DEF GInv, GCopies, GFresh
  <2>5. GSent' /\ G!OthersKept'
    BY <2>1 DEF GInv, GSent, G!OthersKept
  <2>6. CASE p = period /\ G!Show(p, fetch[p])
    <3>1. /\ localValues' \in G!Grid /\ toggled' \subseteq GCells /\ missed' \subseteq GCells
          /\ hasChanges' = FALSE /\ GScreen'
      BY <2>1, <2>2, <2>6, GShow
    <3>2. GTypes'
      BY <2>1, <2>3, <3>1 DEF GInv, GTypes
    <3> QED BY <2>4, <2>5, <3>1, <3>2 DEF GInv
  <2>7. CASE /\ UNCHANGED <<localValues, hasChanges, toggled, mixed>>
             /\ missed' \in {missed, missed \cup fetch[p].missed}
    <3>1. missed' \subseteq GCells
      BY <2>2, <2>7 DEF GInv, GTypes, G!Copy, GCells
    <3>2. GTypes'
      BY <2>1, <2>3, <2>7, <3>1 DEF GInv, GTypes
    <3>3. GScreen'
      BY <2>1, <2>7 DEF GInv, GScreen
    <3> QED BY <2>4, <2>5, <3>2, <3>3 DEF GInv
  <2> QED BY <1>4, <2>6, <2>7 DEF G!Receive, G!screen
<1>5. ASSUME NEW p \in GPeriods, G!FetchFails(p) PROVE GInv'
  <2>1. /\ fetch' = [fetch EXCEPT ![p] = None]
        /\ UNCHANGED <<evaluations, period, cache, gridSave, meant, overwritten, crossed>>
        /\ UNCHANGED <<localValues, hasChanges, toggled, missed, mixed>>
    BY <1>5 DEF G!FetchFails, G!screen
  <2>2. fetch' \in [GPeriods -> G!Copy \cup {None, Asked}] /\ \A o \in GPeriods : fetch'[o] \in {fetch[o], None}
    BY <2>1 DEF GInv, GTypes
  <2> QED BY <2>1, <2>2 DEF GInv, GTypes, GCopies, GFresh, GScreen, GSent, G!OthersKept
<1>6. ASSUME NEW c \in GCells, NEW value \in Valuations \cup {None}, G!Toggle(c, value) PROVE GInv'
  <2>1. /\ period # None /\ localValues' = [localValues EXCEPT ![c] = value] /\ toggled' = toggled \cup {c}
        /\ UNCHANGED <<evaluations, period, cache, fetch, gridSave, missed, mixed, meant, overwritten, crossed>>
    BY <1>6 DEF G!Toggle, G!copies
  <2>2. localValues' \in G!Grid /\ \A d \in GCells \ {c} : localValues'[d] = localValues[d]
    BY <2>1 DEF GInv, GTypes, G!Grid, GCells
  <2>3. GTypes'
    BY <2>1, <2>2 DEF GInv, GTypes
  <2>4. GScreen'
    BY <2>1, <2>2 DEF GInv, GScreen
  <2> QED BY <2>1, <2>3, <2>4 DEF GInv, GCopies, GFresh, GSent, G!OthersKept
<1>7. ASSUME G!SaveSucceeds PROVE GInv'
  <2>1. /\ gridSave # None /\ G!Stored /\ gridSave' = None /\ hasChanges' = FALSE
        /\ fetch' \in {[fetch EXCEPT ![gridSave.period] = G!Outdated(@)],
                      [fetch EXCEPT ![gridSave.period] = G!Outdated(@), ![period] = Asked]}
        /\ UNCHANGED <<period, localValues, toggled, missed, mixed, crossed>>
    BY <1>7 DEF G!SaveSucceeds
  <2>2. /\ DOMAIN fetch' = GPeriods /\ fetch' = [o \in GPeriods |-> fetch'[o]]
        /\ \A o \in GPeriods : \/ fetch'[o] = Asked
                               \/ o = gridSave.period /\ fetch'[o] = G!Outdated(fetch[o])
                               \/ o # gridSave.period /\ fetch'[o] = fetch[o]
    BY <2>1 DEF GInv, GTypes
  <2>3. fetch' \in [GPeriods -> G!Copy \cup {None, Asked}] /\ GCopies'
    BY <2>1, <2>2, GStoredCopies
  <2>4. GScreen' /\ G!OthersKept'
    BY <2>1, GStoredScreen, GStoredKept
  <2>5. {evaluations', meant'} \subseteq [GPeriods -> G!Grid] /\ cache' \in [GPeriods -> G!Copy \cup {None}]
    BY <2>1, GStored
  <2>6. GTypes'
    BY <2>1, <2>3, <2>5 DEF GInv, GTypes
  <2> QED BY <2>1, <2>3, <2>4, <2>6 DEF GInv, GSent
<1>8. ASSUME G!SaveFails PROVE GInv'
  <2>1. /\ gridSave # None /\ gridSave' = None
        /\ UNCHANGED <<period, localValues, hasChanges, toggled, mixed, crossed>>
    BY <1>8 DEF G!SaveFails
  <2>2. CASE UNCHANGED <<evaluations, meant, overwritten, cache, fetch, missed>>
    BY <2>1, <2>2 DEF GInv, GTypes, GCopies, GFresh, GScreen, GSent, G!OthersKept
  <2>3. CASE /\ G!Stored
             /\ fetch' = [fetch EXCEPT ![gridSave.period] = G!Outdated(@)]
             /\ missed' = IF period = gridSave.period THEN missed \cup DOMAIN gridSave.values ELSE missed
    <3>1. /\ DOMAIN fetch' = GPeriods /\ fetch' = [o \in GPeriods |-> fetch'[o]]
          /\ \A o \in GPeriods : \/ fetch'[o] = Asked
                                 \/ o = gridSave.period /\ fetch'[o] = G!Outdated(fetch[o])
                                 \/ o # gridSave.period /\ fetch'[o] = fetch[o]
      BY <2>3 DEF GInv, GTypes
    <3>2. fetch' \in [GPeriods -> G!Copy \cup {None, Asked}] /\ GCopies'
      BY <2>1, <2>3, <3>1, GStoredCopies
    <3>3. missed \subseteq missed' /\ missed' \subseteq GCells
      BY <2>1, <2>3 DEF GInv, GTypes, GSave
    <3>4. GScreen' /\ G!OthersKept'
      BY <2>1, <2>3, <3>3, GStoredScreen, GStoredKept
    <3>5. {evaluations', meant'} \subseteq [GPeriods -> G!Grid] /\ cache' \in [GPeriods -> G!Copy \cup {None}]
      BY <2>1, <2>3, GStored
    <3>6. GTypes'
      BY <2>1, <3>2, <3>3, <3>5 DEF GInv, GTypes
    <3> QED BY <2>1, <3>2, <3>4, <3>6 DEF GInv, GSent
  <2> QED BY <1>8, <2>2, <2>3 DEF G!SaveFails
<1>9. ASSUME NEW p \in GPeriods, NEW c \in GCells, NEW value \in Valuations, G!WriteElsewhere(p, c, value)
      PROVE  GInv'
  <2> DEFINE with(copy) == IF copy \in {None, Asked} THEN copy
                           ELSE [copy EXCEPT !.missed = @ \cup {c}]
  <2>1. /\ evaluations' = [evaluations EXCEPT ![p][c] = value]
        /\ meant' = [meant EXCEPT ![p][c] = value]
        /\ overwritten' = overwritten \ {<<p, c>>}
        /\ cache' = [cache EXCEPT ![p] = with(cache[p])]
        /\ fetch' = [fetch EXCEPT ![p] = with(fetch[p])]
        /\ missed' = IF p = period THEN missed \cup {c} ELSE missed
        /\ gridSave' = IF gridSave # None /\ gridSave.period = p THEN with(gridSave) ELSE gridSave
        /\ UNCHANGED <<period, localValues, hasChanges, toggled, mixed, crossed>>
    BY <1>9 DEF G!WriteElsewhere, GInv, GTypes
  <2>2. /\ {evaluations', meant'} \subseteq [GPeriods -> G!Grid]
        /\ \A o \in GPeriods, d \in GCells :
             /\ evaluations'[o][d] = IF o = p /\ d = c THEN value ELSE evaluations[o][d]
             /\ meant'[o][d] = IF o = p /\ d = c THEN value ELSE meant[o][d]
    <3>2. evaluations \in [GPeriods -> G!Grid] /\ meant \in [GPeriods -> G!Grid]
      BY DEF GInv, GTypes
    <3>a. evaluations' = [evaluations EXCEPT ![p][c] = value] /\ meant' = [meant EXCEPT ![p][c] = value]
      BY <2>1
    <3>3. /\ evaluations' \in [GPeriods -> G!Grid]
          /\ \A o \in GPeriods, d \in GCells :
               evaluations'[o][d] = IF o = p /\ d = c THEN value ELSE evaluations[o][d]
      BY <3>a, <3>2 DEF G!Grid, GCells
    <3>4. /\ meant' \in [GPeriods -> G!Grid]
          /\ \A o \in GPeriods, d \in GCells :
               meant'[o][d] = IF o = p /\ d = c THEN value ELSE meant[o][d]
      BY <3>a, <3>2 DEF G!Grid, GCells
    <3> QED BY <3>3, <3>4
  <2>3. ASSUME NEW copy \in G!Copy, GFresh(p, copy)
        PROVE  \E older \in G!Copy : older = with(copy) /\ GFresh(p, older)'
    <3>1. PICK older \in G!Copy : /\ older = [copy EXCEPT !.missed = @ \cup {c}] /\ older.grid = copy.grid
                                  /\ older.missed = copy.missed \cup {c}
      BY GMissed
    <3>2. older = with(copy)
      BY <3>1, ScreensAssumption
    <3>3. GFresh(p, older)'
      BY <2>2, <2>3, <3>1 DEF GFresh
    <3> QED BY <3>2, <3>3
  <2>4. with(None) = None /\ with(Asked) = Asked
    OBVIOUS
  <2>5. gridSave # None /\ gridSave.period = p =>
          /\ with(gridSave) \in GSave
          /\ with(gridSave).period = p /\ with(gridSave).values = gridSave.values
          /\ with(gridSave).toggled = gridSave.toggled /\ with(gridSave).missed = gridSave.missed \cup {c}
    <3> SUFFICES ASSUME gridSave # None PROVE
          /\ with(gridSave) \in GSave
          /\ with(gridSave).period = gridSave.period /\ with(gridSave).values = gridSave.values
          /\ with(gridSave).toggled = gridSave.toggled /\ with(gridSave).missed = gridSave.missed \cup {c}
      OBVIOUS
    <3>1. gridSave \in GSave /\ gridSave # Asked
      BY ScreensAssumption DEF GInv, GTypes, GSave, GPeriods, GCells
    <3>2. with(gridSave) = [gridSave EXCEPT !.missed = @ \cup {c}]
      BY <3>1
    <3> QED BY <3>1, <3>2 DEF GSave
  <2> HIDE DEF with
  <2>6. /\ cache' \in [GPeriods -> G!Copy \cup {None}]
        /\ fetch' \in [GPeriods -> G!Copy \cup {None, Asked}]
        /\ GCopies'
    <3>1. ASSUME NEW o \in GPeriods
          PROVE  /\ cache'[o] \in G!Copy \cup {None} /\ fetch'[o] \in G!Copy \cup {None, Asked}
                 /\ cache'[o] # None => GFresh(o, cache[o])'
                 /\ fetch'[o] \notin {None, Asked} => GFresh(o, fetch[o])'
      <4>1. CASE o # p
        <5>1. cache'[o] = cache[o] /\ fetch'[o] = fetch[o] /\ \A d \in GCells : evaluations'[o][d] = evaluations[o][d]
          BY <2>1, <2>2, <4>1 DEF GInv, GTypes
        <5> QED BY <5>1 DEF GInv, GTypes, GCopies, GFresh
      <4>2. CASE o = p
        <5>1. cache'[p] = with(cache[p]) /\ fetch'[p] = with(fetch[p])
          BY <2>1 DEF GInv, GTypes
        <5>2. cache'[p] \in G!Copy \cup {None} /\ (cache'[p] # None => GFresh(p, cache[p])')
          <6>1. CASE cache[p] = None
            BY <2>4, <5>1, <6>1
          <6>2. CASE cache[p] # None
            <7>1. PICK older \in G!Copy : older = cache'[p] /\ GFresh(p, older)'
              BY <2>3, <5>1, <6>2 DEF GInv, GTypes, GCopies
            <7> QED BY <7>1 DEF GFresh
          <6> QED BY <6>1, <6>2
        <5>3. /\ fetch'[p] \in G!Copy \cup {None, Asked}
              /\ fetch'[p] \notin {None, Asked} => GFresh(p, fetch[p])'
          <6>1. CASE fetch[p] \in {None, Asked}
            BY <2>4, <5>1, <6>1
          <6>2. CASE fetch[p] \notin {None, Asked}
            <7>1. PICK older \in G!Copy : older = fetch'[p] /\ GFresh(p, older)'
              BY <2>3, <5>1, <6>2 DEF GInv, GTypes, GCopies
            <7> QED BY <7>1 DEF GFresh
          <6> QED BY <6>1, <6>2
        <5> QED BY <4>2, <5>2, <5>3
      <4> QED BY <4>1, <4>2
    <3>2. DOMAIN cache' = GPeriods /\ cache' = [o \in GPeriods |-> cache'[o]]
          /\ DOMAIN fetch' = GPeriods /\ fetch' = [o \in GPeriods |-> fetch'[o]]
      BY <2>1 DEF GInv, GTypes
    <3>3. cache' \in [GPeriods -> G!Copy \cup {None}] /\ fetch' \in [GPeriods -> G!Copy \cup {None, Asked}]
      BY <3>1, <3>2
    <3> QED BY <3>1, <3>3 DEF GCopies
  <2>7. GTypes'
    BY <2>1, <2>2, <2>5, <2>6 DEF GInv, GTypes
  <2>8. GScreen'
    <3>1. \A d \in GCells \ (toggled' \cup missed') :
            d \in GCells \ (toggled \cup missed) /\ (p = period => d # c)
      BY <2>1
    <3>2. gridSave' # None => /\ gridSave # None /\ gridSave'.period = gridSave.period
                              /\ gridSave'.values = gridSave.values
      BY <2>1, <2>5
    <3>3. period # None => period \in GPeriods
      BY DEF GInv, GTypes
    <3> QED BY <2>1, <2>2, <3>1, <3>2, <3>3 DEF GInv, GScreen
  <2>9. GSent'
    <3> SUFFICES ASSUME gridSave' # None, gridSave'.period \notin crossed,
                        NEW d \in DOMAIN gridSave'.values \ (gridSave'.toggled \cup gridSave'.missed)
                 PROVE  gridSave'.values[d] = evaluations'[gridSave'.period][d]
      BY <2>1 DEF GSent
    <3>1. gridSave # None /\ gridSave \in GSave /\ gridSave.period \in GPeriods
      BY <2>1 DEF GInv, GTypes, GSave
    <3>2. /\ gridSave'.period = gridSave.period /\ gridSave'.values = gridSave.values
          /\ d \in DOMAIN gridSave.values \ (gridSave.toggled \cup gridSave.missed)
          /\ gridSave.period = p => d # c
      BY <2>1, <2>5, <3>1
    <3>3. d \in GCells
      BY <3>1, <3>2 DEF GSave
    <3>4. gridSave.values[d] = evaluations[gridSave.period][d]
      BY <3>1, <3>2 DEF GInv, GSent
    <3> QED BY <2>2, <3>1, <3>2, <3>3, <3>4
  <2>10. G!OthersKept'
    <3> SUFFICES ASSUME NEW o \in GPeriods \ crossed, NEW d \in GCells, <<o, d>> \notin overwritten'
                 PROVE  evaluations'[o][d] = meant'[o][d]
      BY <2>1 DEF G!OthersKept, GPeriods, GCells
    <3>1. o # p \/ d # c => evaluations[o][d] = meant[o][d]
      BY <2>1 DEF GInv, G!OthersKept, GPeriods, GCells
    <3> QED BY <2>2, <3>1
  <2> QED BY <2>6, <2>7, <2>8, <2>9, <2>10 DEF GInv
<1>10. ASSUME UNCHANGED gVars PROVE GInv'
  BY <1>10 DEF gVars, GInv, GTypes, GCopies, GFresh, GScreen, GSent, G!OthersKept
<1> QED BY <1>1, <1>2, <1>3, <1>4, <1>5, <1>6, <1>7, <1>8, <1>9, <1>10, GSaves DEF G!Next, GPeriods, GCells

-----------------------------------------------------------------------------
(* The grid of evaluations: what the screen shows *)

\* What the grid marks has its type.
GMarks ==
    /\ {hasChanges, mixed} \subseteq BOOLEAN
    /\ {stale, crossed} \subseteq SUBSET GPeriods
    /\ hidden \subseteq GCells
    /\ overwritten \subseteq GPeriods \X GCells

\* The screen holds values of another period only until the selected one is there.
GMixed == mixed /\ period # None => cache[period] = None

\* What was clicked and then sent is what a save under way stores, or what is stored.
GClicked ==
    period # None /\ ~mixed =>
        \A c \in toggled \ (hidden \cup missed) :
            \/ /\ gridSave # None /\ gridSave.period = period /\ c \in DOMAIN gridSave.values
               /\ localValues[c] = gridSave.values[c]
            \/ /\ ~(gridSave # None /\ gridSave.period = period /\ c \in DOMAIN gridSave.values)
               /\ localValues[c] = evaluations[period][c]

\* What every step keeps.
GShownInv == GInv /\ GMarks /\ GMixed /\ GClicked

\* It holds at first.
LEMMA GShownInitial == G!Init => GShownInv
BY GInitial DEF G!Init, GShownInv, GMarks, GMixed, GClicked

\* Every step leaves the marks their types.
LEMMA GMarksStep == GShownInv /\ G!Next => GMarks'
<1> SUFFICES ASSUME GShownInv, G!Next PROVE GMarks'
  OBVIOUS
<1> USE DEF GShownInv, GMarks
<1>1. ASSUME NEW p \in GPeriods, G!Select(p) PROVE GMarks'
  BY <1>1 DEF G!Select, G!Show
<1>2. ASSUME NEW p \in GPeriods, G!Expire(p) PROVE GMarks'
  BY <1>2 DEF G!Expire, G!screen
<1>3. ASSUME NEW p \in GPeriods, G!Read(p) PROVE GMarks'
  BY <1>3 DEF G!Read, G!screen
<1>4. ASSUME NEW p \in GPeriods, G!Receive(p) PROVE GMarks'
  BY <1>4 DEF G!Receive, G!screen, G!Show
<1>5. ASSUME NEW p \in GPeriods, G!FetchFails(p) PROVE GMarks'
  BY <1>5 DEF G!FetchFails, G!screen
<1>6. ASSUME NEW c \in GCells, NEW value \in Valuations \cup {None}, G!Toggle(c, value) PROVE GMarks'
  BY <1>6 DEF G!Toggle, G!copies
<1>7. CASE G!Save
  <2>1. period \in GPeriods
    BY <1>7 DEF G!Save, GInv, GTypes
  <2> QED BY <1>7, <2>1 DEF G!Save, G!copies
<1>8. ASSUME gridSave # None, G!Stored PROVE overwritten' \subseteq GPeriods \X GCells
  <2>1. gridSave.period \in GPeriods /\ gridSave.missed \subseteq GCells
    BY <1>8 DEF GInv, GTypes, GSave
  <2> QED BY <1>8, <2>1 DEF G!Stored, GCells
<1>9. CASE G!SaveSucceeds
  BY <1>8, <1>9 DEF G!SaveSucceeds, GPeriods
<1>10. CASE G!SaveFails
  <2>1. gridSave # None => DOMAIN gridSave.values \subseteq GCells
    BY DEF GInv, GTypes, GSave
  <2> QED BY <1>8, <1>10, <2>1 DEF G!SaveFails
<1>11. ASSUME NEW p \in GPeriods, NEW c \in GCells, NEW value \in Valuations,
              G!WriteElsewhere(p, c, value)
       PROVE GMarks'
  BY <1>11 DEF G!WriteElsewhere
<1> QED BY <1>1, <1>2, <1>3, <1>4, <1>5, <1>6, <1>7, <1>9, <1>10, <1>11
        DEF G!Next, GPeriods, GCells

\* Every step keeps what was clicked and what is mixed.
LEMMA GClickedStep == GShownInv /\ G!Next => GMixed' /\ GClicked'
<1> SUFFICES ASSUME GShownInv, G!Next PROVE GMixed' /\ GClicked'
  OBVIOUS
<1> USE DEF GShownInv, GMixed, GClicked
<1>1. ASSUME NEW p \in GPeriods, G!Select(p) PROVE GMixed' /\ GClicked'
  BY <1>1 DEF G!Select, G!Show
<1>2. ASSUME NEW p \in GPeriods, G!Expire(p) PROVE GMixed' /\ GClicked'
  BY <1>2 DEF G!Expire, G!screen
<1>3. ASSUME NEW p \in GPeriods, G!Read(p) PROVE GMixed' /\ GClicked'
  BY <1>3 DEF G!Read, G!screen
<1>4. ASSUME NEW p \in GPeriods, G!Receive(p) PROVE GMixed' /\ GClicked'
  <2>1. /\ fetch[p] # None /\ cache' = [cache EXCEPT ![p] = fetch[p]]
        /\ UNCHANGED <<evaluations, period, gridSave>>
    BY <1>4 DEF G!Receive
  <2>2. period \in GPeriods /\ period # p => cache'[period] = cache[period]
    BY <2>1 DEF GInv, GTypes
  <2>3. CASE p # period /\ UNCHANGED G!screen
    BY <2>1, <2>2, <2>3 DEF G!screen, GInv, GTypes
  <2>4. CASE G!Show(p, fetch[p])
    BY <2>1, <2>4 DEF G!Show
  <2>5. CASE /\ p = period /\ G!Same(cache[p], fetch[p]) /\ missed' = missed \cup fetch[p].missed
             /\ UNCHANGED <<localValues, hasChanges, toggled, hidden, mixed>>
    <3>1. ~mixed
      BY <2>5, ScreensAssumption DEF G!Same, GPeriods
    <3> QED BY <2>1, <2>5, <3>1
  <2> QED BY <1>4, <2>3, <2>4, <2>5 DEF G!Receive
<1>5. ASSUME NEW p \in GPeriods, G!FetchFails(p) PROVE GMixed' /\ GClicked'
  BY <1>5 DEF G!FetchFails, G!screen
<1>6. ASSUME NEW c \in GCells, NEW value \in Valuations \cup {None}, G!Toggle(c, value)
      PROVE  GMixed' /\ GClicked'
  <2>1. /\ localValues' = [localValues EXCEPT ![c] = value] /\ hidden' = hidden \cup {c}
        /\ toggled' = toggled \cup {c}
        /\ UNCHANGED <<evaluations, period, cache, gridSave, missed, mixed>>
    BY <1>6 DEF G!Toggle, G!copies
  <2>2. \A d \in GCells \ {c} : localValues'[d] = localValues[d]
    BY <2>1 DEF GInv, GTypes, G!Grid, GCells
  <2>3. toggled \subseteq GCells
    BY DEF GInv, GTypes
  <2>4. toggled' \ (hidden' \cup missed') \subseteq (toggled \ (hidden \cup missed)) \ {c}
    BY <2>1
  <2> QED BY <2>1, <2>2, <2>3, <2>4
<1>7. CASE G!Save
  <2>1. /\ gridSave = None /\ hidden' = hidden \ G!Sent
        /\ gridSave' = [period |-> period, values |-> [c \in G!Sent |-> localValues[c]],
                        toggled |-> toggled, missed |-> missed]
        /\ UNCHANGED <<evaluations, period, cache, localValues, toggled, missed, mixed>>
    BY <1>7 DEF G!Save, G!copies
  <2>2. gridSave' \in GSave
    BY <1>7, GSaves
  <2>3. gridSave' # None
    BY <2>2, ScreensAssumption DEF GSave, GPeriods, GCells
  <2>4. /\ gridSave'.period = period /\ DOMAIN gridSave'.values = G!Sent
        /\ \A c \in G!Sent : gridSave'.values[c] = localValues[c]
    BY <2>1
  <2>5. GMixed'
    BY <2>1
  <2>6. ASSUME period # None, ~mixed, NEW c \in toggled \ (hidden' \cup missed)
        PROVE  \/ c \in G!Sent
               \/ c \notin G!Sent /\ localValues[c] = evaluations[period][c]
    BY <2>1, <2>6
  <2>7. GClicked'
    BY <2>1, <2>3, <2>4, <2>6
  <2> QED BY <2>5, <2>7
<1>8. ASSUME gridSave # None, G!Stored PROVE GMixed /\ UNCHANGED <<period, mixed>> => GMixed'
  <2>1. SUFFICES ASSUME mixed, period # None, cache[period] = None PROVE cache'[period] = None
    OBVIOUS
  <2>2. period \in GPeriods /\ gridSave.period \in GPeriods
    BY <1>8, <2>1 DEF GInv, GTypes, GSave
  <2>3. cache'[period] \in {cache[period], G!Outdated(cache[period])}
    BY <1>8, <2>2, GStored
  <2> QED BY <2>1, <2>3 DEF G!Outdated
<1>9. ASSUME gridSave # None, G!Stored, NEW c \in GCells, period # None
      PROVE  evaluations'[period][c] = IF period = gridSave.period /\ c \in DOMAIN gridSave.values
                                       THEN gridSave.values[c] ELSE evaluations[period][c]
  <2>1. period \in GPeriods
    BY <1>9 DEF GInv, GTypes
  <2> QED BY <1>9, <2>1, GStored
<1>10. toggled \subseteq GCells
  BY DEF GInv, GTypes
<1>11. CASE G!SaveSucceeds
  <2>1. /\ gridSave # None /\ G!Stored /\ gridSave' = None
        /\ UNCHANGED <<period, localValues, toggled, missed, hidden, mixed>>
    BY <1>11 DEF G!SaveSucceeds
  <2> QED BY <1>8, <1>9, <1>10, <2>1
<1>12. CASE G!SaveFails
  <2>1. /\ gridSave # None /\ gridSave' = None
        /\ hidden' = IF gridSave.period = period THEN hidden \cup DOMAIN gridSave.values ELSE hidden
        /\ UNCHANGED <<period, localValues, toggled, mixed>>
    BY <1>12 DEF G!SaveFails
  <2>2. CASE UNCHANGED <<evaluations, cache, missed>>
    BY <2>1, <2>2
  <2>3. CASE /\ G!Stored
             /\ missed' = IF period = gridSave.period THEN missed \cup DOMAIN gridSave.values
                          ELSE missed
    <3>1. GMixed'
      BY <1>8, <2>1, <2>3
    <3>2. GClicked'
      <4> SUFFICES ASSUME period # None, ~mixed, NEW c \in toggled \ (hidden' \cup missed')
                   PROVE  localValues[c] = evaluations'[period][c]
        BY <2>1
      <4>1. c \in toggled \ (hidden \cup missed)
            /\ ~(period = gridSave.period /\ c \in DOMAIN gridSave.values)
        BY <2>1, <2>3
      <4>2. evaluations'[period][c] = evaluations[period][c]
        BY <1>9, <1>10, <2>1, <2>3, <4>1
      <4> QED BY <4>1, <4>2
    <3> QED BY <3>1, <3>2
  <2> QED BY <1>12, <2>2, <2>3 DEF G!SaveFails
<1>13. ASSUME NEW p \in GPeriods, NEW c \in GCells, NEW value \in Valuations,
              G!WriteElsewhere(p, c, value)
       PROVE GMixed' /\ GClicked'
  <2> DEFINE with(copy) == IF copy \in {None, Asked} THEN copy
                           ELSE [copy EXCEPT !.missed = @ \cup {c}]
  <2>1. /\ evaluations' = [evaluations EXCEPT ![p][c] = value]
        /\ cache' = [cache EXCEPT ![p] = with(@)]
        /\ missed' = IF p = period THEN missed \cup {c} ELSE missed
        /\ gridSave' = IF gridSave # None /\ gridSave.period = p THEN with(gridSave) ELSE gridSave
        /\ UNCHANGED <<period, localValues, toggled, hidden, mixed>>
    BY <1>13 DEF G!WriteElsewhere
  <2>2. period # None => cache'[period] \in {cache[period], with(cache[period])}
    BY <2>1 DEF GInv, GTypes
  <2>3. GMixed'
    BY <2>1, <2>2
  <2>4. /\ gridSave' = None <=> gridSave = None
        /\ gridSave # None => gridSave'.period = gridSave.period /\ gridSave'.values = gridSave.values
    <3>1. CASE gridSave = None
      BY <2>1, <3>1
    <3>2. CASE gridSave # None
      <4>1. gridSave \in GSave
        BY <3>2 DEF GInv, GTypes
      <4>2. [gridSave EXCEPT !.missed = @ \cup {c}] \in GSave
            /\ [gridSave EXCEPT !.missed = @ \cup {c}].period = gridSave.period
            /\ [gridSave EXCEPT !.missed = @ \cup {c}].values = gridSave.values
        BY <4>1 DEF GSave
      <4> QED BY <2>1, <3>2, <4>1, <4>2, ScreensAssumption DEF GSave, GPeriods, GCells
    <3> QED BY <3>1, <3>2
  <2>5. \A d \in GCells : period # None /\ (p # period \/ d # c) =>
          evaluations'[period][d] = evaluations[period][d]
    BY <2>1 DEF GInv, GTypes, G!Grid, GCells
  <2>6. \A d \in toggled \ (hidden \cup missed') : p # period \/ d # c
    BY <2>1
  <2>7. GClicked'
    <3> SUFFICES ASSUME period # None, ~mixed, NEW d \in toggled \ (hidden \cup missed')
                 PROVE  \/ /\ gridSave # None /\ gridSave.period = period
                           /\ d \in DOMAIN gridSave.values /\ localValues[d] = gridSave.values[d]
                        \/ /\ ~(gridSave # None /\ gridSave.period = period
                                /\ d \in DOMAIN gridSave.values)
                           /\ localValues[d] = evaluations'[period][d]
      BY <2>1, <2>4
    <3>1. d \in toggled \ (hidden \cup missed) /\ d \in GCells
      BY <1>10, <2>1
    <3>2. evaluations'[period][d] = evaluations[period][d]
      BY <2>5, <2>6, <3>1
    <3> QED BY <3>1, <3>2
  <2> QED BY <2>3, <2>7
<1> QED BY <1>1, <1>2, <1>3, <1>4, <1>5, <1>6, <1>7, <1>11, <1>12, <1>13
        DEF G!Next, GPeriods, GCells

\* So every step keeps all of it.
LEMMA GShownStep == GShownInv /\ [G!Next]_gVars => GShownInv'
<1> SUFFICES ASSUME GShownInv, [G!Next]_gVars PROVE GShownInv'
  OBVIOUS
<1>1. GInv'
  BY GStep DEF GShownInv
<1>2. CASE G!Next
  BY <1>1, <1>2, GMarksStep, GClickedStep DEF GShownInv
<1>3. CASE UNCHANGED gVars
  BY <1>1, <1>3 DEF GShownInv, GMarks, GMixed, GClicked, gVars
<1> QED BY <1>2, <1>3

\* The grid shows what is stored, but for what the property names.
LEMMA GShown == GShownInv => G!ScreenIsStored
<1> SUFFICES ASSUME GShownInv, NEW c \in GCells, period # None, ~hasChanges, gridSave = None,
                    cache[period] # None, c \notin hidden \cup missed
             PROVE  localValues[c] = evaluations[period][c]
  BY DEF G!ScreenIsStored, GCells
<1>1. ~mixed
  BY DEF GShownInv, GMixed, GMarks
<1> QED BY <1>1 DEF GShownInv, GInv, GScreen, GClicked

\* And everything has its type.
LEMMA GTyped == GShownInv => G!TypeOK
BY DEF GShownInv, GInv, GTypes, GMarks, G!TypeOK, GSave, GPeriods, GCells

-----------------------------------------------------------------------------
(* The messages of a room *)

\* A request for pages.
HFetch == [pages : Seq(H!Page), wanted : Nat, unseen : SUBSET Messages]

\* Times, messages and requests have their types, and who is in the room its time.
HTypes ==
    /\ now \in H!Times
    /\ sentAt \in [Messages -> H!Times \cup {None}]
    /\ committed \subseteq Messages /\ unseen \subseteq committed
    /\ \A m \in committed : sentAt[m] \in H!Times
    /\ pages \in Seq(H!Page)
    /\ fetching \in {None} \cup HFetch
    /\ fetching # None => fetching.unseen \subseteq committed

\* A page of messages ends with the time that is its cursor, if it has one.
HPaged(page) ==
    /\ page.messages \subseteq committed
    /\ page.nextCursor # None =>
         /\ \E m \in page.messages : sentAt[m] = page.nextCursor
         /\ \A m \in page.messages : sentAt[m] >= page.nextCursor

\* Where a message that was there when the pages were asked for is: on one of the first i
\* pages, or it comes after them, or a page of them ends within its millisecond.
HPlaced(ps, m, i) ==
    \/ \E j \in 1..i : m \in ps[j].messages
    \/ ps[i].nextCursor # None /\ sentAt[m] <= ps[i].nextCursor
    \/ \E j \in 1..(i - 1) : sentAt[m] = ps[j].nextCursor

\* Pages that follow one another, but for the messages that came after the first.
HFollow(ps, us) ==
    /\ \A i \in 1..Len(ps) : HPaged(ps[i])
    /\ \A j \in 1..Len(ps) : \A i \in 1..(j - 1) :
         ps[i].nextCursor # None /\ \A m \in ps[j].messages : sentAt[m] < ps[i].nextCursor
    /\ \A m \in committed \ us, i \in 1..Len(ps) : HPlaced(ps, m, i)

\* What every step keeps: the pages follow one another, and so do those of a request, of
\* which none is the last.
HInv ==
    /\ HTypes
    /\ HFollow(pages, unseen)
    /\ fetching # None =>
         /\ HFollow(fetching.pages, fetching.unseen)
         /\ \A i \in 1..Len(fetching.pages) : fetching.pages[i].nextCursor # None

\* It holds at first.
LEMMA HInitial == H!Init => HInv
<1> SUFFICES ASSUME H!Init PROVE HInv
  OBVIOUS
<1>1. HTypes
  BY ScreensAssumption DEF H!Init, HTypes, H!Times, HFetch
<1>2. HFollow(pages, unseen)
  BY DEF H!Init, HFollow
<1> QED BY <1>1, <1>2 DEF HInv, H!Init

\* The oldest of some messages is one of them.
LEMMA HOldest ==
    ASSUME HTypes, NEW ms \in SUBSET committed, ms # {}
    PROVE  /\ \E m \in ms : sentAt[m] = H!Oldest(ms)
           /\ \A m \in ms : sentAt[m] >= H!Oldest(ms)
<1> DEFINE ts == {sentAt[m] : m \in ms}
           R == OpToRel(<, Nat)
<1>1. ts \in SUBSET Nat /\ ts # {}
  BY DEF HTypes, H!Times
<1>2. IsWellFoundedOn(R, Nat)
  BY NatLessThanWellFounded
<1>3. \A x, y \in Nat : y < x => <<y, x>> \in R
  BY DEF OpToRel
<1> HIDE DEF R
<1>4. PICK t \in ts : \A u \in ts : ~(<<u, t>> \in R)
  BY <1>1, <1>2, WFMin
<1> HIDE DEF ts
<1>5. ASSUME NEW u \in ts PROVE t <= u
  <2>1. t \in Nat /\ u \in Nat
    BY <1>1
  <2>2. ~(u < t)
    BY <1>3, <1>4, <2>1
  <2> QED BY <2>1, <2>2
<1>6. H!Oldest(ms) \in ts /\ \A u \in ts : H!Oldest(ms) <= u
  <2>1. H!Oldest(ms) = CHOOSE x \in ts : \A u \in ts : x <= u
    BY DEF H!Oldest, H!Min, ts
  <2> QED BY <1>5, <2>1
<1>7. /\ \A m \in ms : sentAt[m] \in ts
      /\ \A u \in ts : \E m \in ms : sentAt[m] = u
  BY DEF ts
<1> QED BY <1>1, <1>6, <1>7

\* Of a time it is no other.
LEMMA HCursor ==
    ASSUME HTypes, NEW page \in H!Page, HPaged(page), page.nextCursor # None
    PROVE  H!Oldest(page.messages) = page.nextCursor
<1>1. PICK m \in page.messages : sentAt[m] = page.nextCursor
  BY DEF HPaged
<1>2. page.messages \in SUBSET committed /\ page.messages # {}
  BY <1>1 DEF HPaged
<1>3. PICK o \in page.messages : sentAt[o] = H!Oldest(page.messages)
  BY <1>2, HOldest
<1>4. sentAt[o] <= sentAt[m] /\ sentAt[m] <= sentAt[o]
  BY <1>1, <1>2, <1>3, HOldest DEF HPaged
<1>5. sentAt[o] \in Int /\ sentAt[m] \in Int
  BY <1>1, <1>2 DEF HTypes, H!Times
<1> QED BY <1>1, <1>3, <1>4, <1>5

\* The instance of the room counts as others do.
LEMMA HCount == \A ms : H!Cardinality(ms) = Cardinality(ms)
BY DEF H!Cardinality, Cardinality

\* The newest of some messages: no more of them than there are or may be, and all that are
\* left out are older.
LEMMA HNewest ==
    ASSUME HTypes, NEW ms \in SUBSET committed, NEW n \in Nat, NEW top \in H!Newest(ms, n)
    PROVE  /\ top \subseteq ms /\ IsFiniteSet(top) /\ Cardinality(top) \in 0..n
           /\ Cardinality(top) < n => top = ms
           /\ \A m \in top, o \in ms \ top : sentAt[m] >= sentAt[o]
<1>1. IsFiniteSet(ms) /\ Cardinality(ms) \in Nat
  BY ScreensAssumption, FS_Subset, FS_CardinalityType DEF HTypes
<1>2. /\ top \in SUBSET ms /\ Cardinality(top) = IF Cardinality(ms) < n THEN Cardinality(ms) ELSE n
      /\ \A m \in top, o \in ms \ top : sentAt[m] >= sentAt[o]
  BY HCount DEF H!Newest
<1>3. IsFiniteSet(top)
  BY <1>1, <1>2, FS_Subset
<1>4. Cardinality(top) < n => Cardinality(ms) = Cardinality(top)
  BY <1>1, <1>2
<1>5. Cardinality(ms) = Cardinality(top) => top = ms
  BY <1>1, <1>2, FS_Subset
<1> QED BY <1>1, <1>2, <1>3, <1>4, <1>5

\* A page that findMessages answers with: it is well formed, it holds messages older than
\* the cursor, and what is older than that and not on it comes after it.
LEMMA HAnswer ==
    ASSUME HTypes, NEW before \in H!Times \cup {None}, NEW page \in H!Answers(before)
    PROVE  /\ page \in H!Page /\ HPaged(page) /\ page.messages \subseteq H!Older(before)
           /\ \A m \in H!Older(before) \ page.messages :
                page.nextCursor # None /\ sentAt[m] <= page.nextCursor
<1>1. H!Older(before) \in SUBSET committed
  BY DEF H!Older
<1>2. PICK rows \in H!Newest(H!Older(before), Limit + 1) :
        page \in IF Cardinality(rows) <= Limit THEN {[messages |-> rows, nextCursor |-> None]}
                 ELSE {[messages |-> results, nextCursor |-> H!Oldest(results)] :
                         results \in H!Newest(rows, Limit)}
  BY HCount DEF H!Answers, H!NextCursor
<1>3. Limit \in Nat \ {0} /\ Limit + 1 \in Nat
  BY ScreensAssumption
<1>4. /\ rows \subseteq H!Older(before) /\ Cardinality(rows) \in 0..(Limit + 1)
      /\ Cardinality(rows) < Limit + 1 => rows = H!Older(before)
      /\ \A m \in rows, o \in H!Older(before) \ rows : sentAt[m] >= sentAt[o]
  BY <1>1, <1>2, <1>3, HNewest
<1>5. rows \in SUBSET committed /\ rows \subseteq Messages
  BY <1>1, <1>4 DEF HTypes
<1>6. CASE Cardinality(rows) <= Limit
  <2>1. page = [messages |-> rows, nextCursor |-> None]
    BY <1>2, <1>6
  <2>2. page \in H!Page
    BY <1>5, <2>1 DEF H!Page
  <2>3. rows = H!Older(before)
    BY <1>3, <1>4, <1>6
  <2> QED BY <1>5, <2>1, <2>2, <2>3 DEF HPaged
<1>7. CASE ~(Cardinality(rows) <= Limit)
  <2>1. PICK results \in H!Newest(rows, Limit) :
          page = [messages |-> results, nextCursor |-> H!Oldest(results)]
    BY <1>2, <1>7
  <2>2. /\ results \subseteq rows /\ IsFiniteSet(results) /\ Cardinality(results) \in 0..Limit
        /\ Cardinality(results) < Limit => results = rows
        /\ \A m \in results, o \in rows \ results : sentAt[m] >= sentAt[o]
    BY <1>3, <1>5, HNewest
  <2>3. Cardinality(results) = Limit
    BY <1>3, <1>4, <1>7, <2>2
  <2>4. results # {}
    BY <1>3, <2>3, FS_EmptySet
  <2>5. /\ \E m \in results : sentAt[m] = H!Oldest(results)
        /\ \A m \in results : sentAt[m] >= H!Oldest(results)
    BY <1>5, <2>2, <2>4, HOldest
  <2>6. page.messages = results /\ page.nextCursor = H!Oldest(results)
    BY <2>1
  <2>7. H!Oldest(results) \in H!Times /\ None \notin H!Times
    BY <1>5, <2>2, <2>5, ScreensAssumption DEF HTypes, H!Times
  <2>8. page \in H!Page
    BY <1>5, <2>1, <2>2, <2>7 DEF H!Page
  <2>9. HPaged(page)
    BY <1>5, <2>2, <2>5, <2>6 DEF HPaged
  <2>10. ASSUME NEW m \in H!Older(before) \ results PROVE sentAt[m] <= H!Oldest(results)
    <3>1. PICK o \in results : sentAt[o] = H!Oldest(results)
      BY <2>5
    <3>2. sentAt[o] >= sentAt[m]
      BY <1>4, <2>2, <2>10
    <3>3. sentAt[o] \in Nat /\ sentAt[m] \in Nat
      BY <1>1, <1>5, <2>2, <2>10 DEF HTypes, H!Times
    <3> QED BY <3>1, <3>2, <3>3
  <2> QED BY <1>4, <2>2, <2>6, <2>7, <2>8, <2>9, <2>10
<1> QED BY <1>6, <1>7

\* Pages stay as they are while messages are sent and do not come.
LEMMA HKept ==
    ASSUME HTypes, NEW ps \in Seq(H!Page), NEW us, NEW later \in SUBSET Messages, HFollow(ps, us),
           \A m \in committed : sentAt'[m] = sentAt[m],
           committed' = committed \cup later
    PROVE  HFollow(ps, us \cup later)'
<1> DEFINE vs == us \cup later
<1>1. \A i \in 1..Len(ps) : ps[i] \in H!Page
  OBVIOUS
<1>2. \A i \in 1..Len(ps) : HPaged(ps[i])'
  BY DEF HPaged, HFollow
<1>3. \A j \in 1..Len(ps) : \A i \in 1..(j - 1) :
        ps[i].nextCursor # None /\ \A m \in ps[j].messages : sentAt'[m] < ps[i].nextCursor
  BY DEF HPaged, HFollow
<1>4. \A m \in committed' \ vs, i \in 1..Len(ps) : HPlaced(ps, m, i)'
  <2> SUFFICES ASSUME NEW m \in committed \ us, NEW i \in 1..Len(ps) PROVE HPlaced(ps, m, i)'
    OBVIOUS
  <2>1. HPlaced(ps, m, i) /\ sentAt'[m] = sentAt[m]
    BY DEF HFollow
  <2> QED BY <2>1 DEF HPlaced
<1> QED BY <1>2, <1>3, <1>4 DEF HFollow

\* Another page follows those of a request.
LEMMA HMore ==
    ASSUME HInv, fetching # None, NEW page \in H!Answers(H!Cursor)
    PROVE  /\ Append(fetching.pages, page) \in Seq(H!Page)
           /\ HFollow(Append(fetching.pages, page), fetching.unseen)
<1> DEFINE ps == fetching.pages
           so == Append(ps, page)
           n == Len(ps)
<1>1. /\ HTypes /\ ps \in Seq(H!Page) /\ HFollow(ps, fetching.unseen)
      /\ \A i \in 1..Len(ps) : ps[i].nextCursor # None
  BY DEF HInv, HTypes, HFetch
<1>2. n \in Nat /\ (ps = <<>> <=> n = 0)
  BY <1>1
<1>3. H!Cursor = IF n = 0 THEN None ELSE ps[n].nextCursor
  BY <1>2 DEF H!Cursor, H!Last
<1> HIDE DEF n, ps
<1>4. \A i \in 1..n : ps[i] \in H!Page
  BY <1>1 DEF n
<1>5. H!Cursor \in H!Times \cup {None}
  BY <1>2, <1>3, <1>4 DEF H!Page
<1>6. /\ page \in H!Page /\ HPaged(page) /\ page.messages \subseteq H!Older(H!Cursor)
      /\ \A m \in H!Older(H!Cursor) \ page.messages :
           page.nextCursor # None /\ sentAt[m] <= page.nextCursor
  BY <1>1, <1>5, HAnswer
<1>7. /\ so \in Seq(H!Page) /\ Len(so) = n + 1 /\ so[n + 1] = page
      /\ \A i \in 1..n : so[i] = ps[i]
  BY <1>1, <1>6 DEF n
<1> HIDE DEF so
<1>8. \A i \in 1..Len(so) : HPaged(so[i])
  <2> SUFFICES ASSUME NEW i \in 1..Len(so) PROVE HPaged(so[i])
    OBVIOUS
  <2>1. CASE i \in 1..n
    BY <1>1, <1>7, <2>1 DEF HFollow, n
  <2>2. CASE i = n + 1
    BY <1>6, <1>7, <2>2
  <2> QED BY <1>2, <1>7, <2>1, <2>2
<1>9. \A j \in 1..Len(so) : \A i \in 1..(j - 1) :
        so[i].nextCursor # None /\ \A m \in so[j].messages : sentAt[m] < so[i].nextCursor
  <2> SUFFICES ASSUME NEW j \in 1..Len(so), NEW i \in 1..(j - 1)
               PROVE  so[i].nextCursor # None /\ \A m \in so[j].messages : sentAt[m] < so[i].nextCursor
    OBVIOUS
  <2>1. CASE j \in 1..n
    BY <1>1, <1>2, <1>7, <2>1 DEF HFollow, n
  <2>2. CASE j = n + 1
    <3>1. i \in 1..n /\ so[i] = ps[i] /\ n \in 1..n /\ ps[i].nextCursor # None /\ n # 0
      BY <1>1, <1>2, <1>7, <2>2 DEF n
    <3>2. ASSUME NEW m \in page.messages PROVE sentAt[m] < ps[n].nextCursor
      BY <1>1, <1>3, <1>6, <3>1, <3>2 DEF H!Older, n
    <3>3. CASE i = n
      BY <1>7, <2>2, <3>1, <3>2, <3>3
    <3>4. CASE i # n
      <4>1. PICK o \in ps[n].messages : sentAt[o] = ps[n].nextCursor
        BY <1>1, <3>1 DEF HFollow, HPaged, n
      <4>2. i \in 1..(n - 1)
        BY <1>2, <3>1, <3>4
      <4>3. ps[n].nextCursor < ps[i].nextCursor
        BY <1>1, <3>1, <4>1, <4>2 DEF HFollow, n
      <4>4. ps[n].nextCursor \in Nat /\ ps[i].nextCursor \in Nat
        BY <1>1, <1>4, <3>1 DEF H!Page, H!Times, n
      <4>5. \A m \in page.messages : sentAt[m] \in Nat
        BY <1>1, <1>6 DEF HPaged, HTypes, H!Times
      <4>6. \A m \in page.messages : sentAt[m] < ps[i].nextCursor
        BY <3>2, <4>3, <4>4, <4>5
      <4> QED BY <1>7, <2>2, <3>1, <4>6
    <3> QED BY <3>3, <3>4
  <2> QED BY <1>2, <1>7, <2>1, <2>2
<1>10. ASSUME NEW m \in committed \ fetching.unseen, NEW i \in 1..Len(so)
       PROVE  HPlaced(so, m, i)
  <2>1. CASE i \in 1..n
    <3>1. HPlaced(ps, m, i)
      BY <1>1, <1>10, <2>1 DEF HFollow, n
    <3>2. so[i] = ps[i] /\ \A j \in 1..i : so[j] = ps[j]
      BY <1>2, <1>7, <2>1
    <3> QED BY <1>2, <2>1, <3>1, <3>2 DEF HPlaced
  <2>2. CASE i = n + 1
    <3>1. CASE m \in H!Older(H!Cursor)
      BY <1>2, <1>6, <1>7, <2>2, <3>1 DEF HPlaced
    <3>2. CASE m \notin H!Older(H!Cursor)
      <4>1. n \in 1..n /\ H!Cursor = ps[n].nextCursor /\ ps[n].nextCursor # None
        BY <1>1, <1>2, <1>3, <3>2 DEF H!Older, n
      <4>2. ~(sentAt[m] < ps[n].nextCursor)
        BY <3>2, <4>1 DEF H!Older
      <4>3. sentAt[m] \in Nat /\ ps[n].nextCursor \in Nat
        BY <1>1, <1>4, <4>1 DEF HTypes, H!Times, H!Page
      <4>4. HPlaced(ps, m, n)
        BY <1>1, <1>10, <4>1 DEF HFollow, n
      <4>5. CASE \E j \in 1..n : m \in ps[j].messages
        BY <1>2, <1>7, <2>2, <4>5 DEF HPlaced
      <4>6. CASE \E j \in 1..n : sentAt[m] = ps[j].nextCursor
        BY <1>2, <1>7, <2>2, <4>6 DEF HPlaced
      <4> QED BY <1>2, <4>1, <4>2, <4>3, <4>4, <4>5, <4>6 DEF HPlaced
    <3> QED BY <3>1, <3>2
  <2> QED BY <1>2, <1>7, <2>1, <2>2
<1>11. HFollow(so, fetching.unseen)
  BY <1>8, <1>9, <1>10 DEF HFollow
<1> QED BY <1>7, <1>11 DEF so, ps

\* Every step of the room and its screen keeps it.
LEMMA HStep == HInv /\ [H!Next]_hVars => HInv'
<1> SUFFICES ASSUME HInv, [H!Next]_hVars PROVE HInv'
  OBVIOUS
<1>1. HTypes /\ HFollow(pages, unseen) /\ pages \in Seq(H!Page)
  BY DEF HInv, HTypes
<1>2. ASSUME fetching # None
      PROVE  /\ fetching \in HFetch /\ fetching.pages \in Seq(H!Page)
             /\ fetching.unseen \subseteq committed /\ HFollow(fetching.pages, fetching.unseen)
             /\ \A i \in 1..Len(fetching.pages) : fetching.pages[i].nextCursor # None
  BY <1>2 DEF HInv, HTypes, HFetch
<1>3. ASSUME UNCHANGED <<sentAt, committed>>, NEW ps, NEW us, HFollow(ps, us)
      PROVE  HFollow(ps, us)'
  BY <1>3 DEF HFollow, HPaged, HPlaced
<1>4. ASSUME UNCHANGED <<committed, pages, fetching, unseen>>,
             \A m \in committed : sentAt'[m] = sentAt[m], HTypes'
      PROVE  HInv'
  <2>1. ASSUME NEW ps \in Seq(H!Page), NEW us, HFollow(ps, us) PROVE HFollow(ps, us)'
    <3>1. HFollow(ps, us \cup {})' /\ us \cup {} = us
      BY <1>1, <1>4, <2>1, HKept
    <3> QED BY <3>1
  <2> QED BY <1>1, <1>2, <1>4, <2>1 DEF HInv
<1>5. CASE H!Tick
  <2>1. now' \in H!Times
    BY <1>1, <1>5, ScreensAssumption DEF H!Tick, HTypes, H!Times
  <2>2. HTypes'
    BY <1>1, <1>5, <2>1 DEF H!Tick, HTypes
  <2> QED BY <1>4, <1>5, <2>2 DEF H!Tick
<1>6. ASSUME NEW m \in Messages, H!Stamp(m) PROVE HInv'
  <2>1. sentAt[m] = None /\ sentAt' = [sentAt EXCEPT ![m] = now]
        /\ UNCHANGED <<now, committed, pages, fetching, unseen>>
    BY <1>6 DEF H!Stamp
  <2>2. m \notin committed /\ committed \subseteq Messages
    BY <1>1, <2>1, ScreensAssumption DEF HTypes, H!Times
  <2>3. HTypes' /\ \A o \in committed : sentAt'[o] = sentAt[o]
    BY <1>1, <2>1, <2>2 DEF HTypes
  <2> QED BY <1>4, <2>1, <2>3
<1>7. ASSUME NEW m \in Messages, H!Rollback(m) PROVE HInv'
  <2>1. m \notin committed /\ sentAt' = [sentAt EXCEPT ![m] = None]
        /\ UNCHANGED <<now, committed, pages, fetching, unseen>>
    BY <1>7 DEF H!Rollback
  <2>2. HTypes' /\ \A o \in committed : sentAt'[o] = sentAt[o]
    BY <1>1, <2>1 DEF HTypes
  <2> QED BY <1>4, <2>1, <2>2
<1>8. ASSUME NEW m \in Messages, H!Commit(m) PROVE HInv'
  <2>1. /\ sentAt[m] # None /\ committed' = committed \cup {m} /\ unseen' = unseen \cup {m}
        /\ fetching' = IF fetching = None THEN None ELSE [fetching EXCEPT !.unseen = @ \cup {m}]
        /\ UNCHANGED <<now, sentAt, pages>>
    BY <1>8 DEF H!Commit
  <2>2. sentAt[m] \in H!Times
    BY <1>1, <2>1 DEF HTypes
  <2>3. ASSUME fetching # None
        PROVE  /\ fetching' \in HFetch /\ fetching'.pages = fetching.pages
               /\ fetching'.unseen = fetching.unseen \cup {m}
    BY <1>2, <2>1, <2>3 DEF HFetch
  <2>4. HTypes'
    BY <1>1, <1>2, <2>1, <2>2, <2>3 DEF HTypes
  <2>5. ASSUME NEW ps \in Seq(H!Page), NEW us, HFollow(ps, us) PROVE HFollow(ps, us \cup {m})'
    BY <1>1, <2>1, <2>5, HKept
  <2>6. HFollow(pages, unseen)'
    <3>1. PICK ps \in Seq(H!Page), us \in SUBSET committed : ps = pages /\ us = unseen
      BY <1>1 DEF HTypes
    <3>2. HFollow(ps, us \cup {m})'
      BY <1>1, <2>5, <3>1
    <3>3. pages' = ps /\ unseen' = us \cup {m}
      BY <2>1, <3>1
    <3> QED BY <3>2, <3>3
  <2>7. fetching' # None =>
          /\ HFollow(fetching.pages, fetching.unseen)'
          /\ \A i \in 1..Len(fetching'.pages) : fetching'.pages[i].nextCursor # None
    <3> SUFFICES ASSUME fetching # None
                 PROVE  /\ HFollow(fetching.pages, fetching.unseen)'
                        /\ \A i \in 1..Len(fetching'.pages) : fetching'.pages[i].nextCursor # None
      BY <2>1
    <3>1. PICK ps \in Seq(H!Page), us \in SUBSET committed :
            ps = fetching.pages /\ us = fetching.unseen
      BY <1>2
    <3>2. HFollow(ps, us \cup {m})'
      BY <1>2, <2>5, <3>1
    <3>3. fetching'.pages = ps /\ fetching'.unseen = us \cup {m}
      BY <2>3, <3>1
    <3> QED BY <1>2, <3>1, <3>2, <3>3
  <2> QED BY <2>4, <2>6, <2>7 DEF HInv
<1>9. CASE H!Refetch
  <2>1. /\ fetching' = [pages |-> <<>>, wanted |-> IF pages = <<>> THEN 1 ELSE Len(pages),
                        unseen |-> {}]
        /\ UNCHANGED <<now, sentAt, committed, pages, unseen>>
    BY <1>9 DEF H!Refetch
  <2>2. fetching' \in HFetch /\ fetching'.pages = <<>> /\ fetching'.unseen = {}
    BY <1>1, <2>1 DEF HFetch
  <2>3. HTypes'
    BY <1>1, <2>1, <2>2 DEF HTypes
  <2>4. HFollow(fetching.pages, fetching.unseen)'
    BY <2>2 DEF HFollow
  <2> QED BY <1>1, <1>3, <2>1, <2>2, <2>3, <2>4 DEF HInv
<1>10. CASE H!FetchNextPage
  <2>1. /\ pages # <<>> /\ pages[Len(pages)].nextCursor # None
        /\ fetching' = [pages |-> pages, wanted |-> Len(pages) + 1, unseen |-> unseen]
        /\ UNCHANGED <<now, sentAt, committed, pages, unseen>>
    BY <1>10 DEF H!FetchNextPage, H!Last
  <2>2. fetching' \in HFetch /\ fetching'.pages = pages /\ fetching'.unseen = unseen
    BY <1>1, <2>1 DEF HFetch, HTypes
  <2>3. HTypes'
    BY <1>1, <2>1, <2>2 DEF HTypes
  <2>4. HFollow(pages, unseen)'
    BY <1>1, <1>3, <2>1
  <2>5. \A i \in 1..Len(pages) : pages[i].nextCursor # None
    <3> SUFFICES ASSUME NEW i \in 1..Len(pages) PROVE pages[i].nextCursor # None
      OBVIOUS
    <3>1. CASE i = Len(pages)
      BY <2>1, <3>1
    <3>2. CASE i # Len(pages)
      BY <1>1, <3>2 DEF HFollow
    <3> QED BY <3>1, <3>2
  <2> QED BY <2>1, <2>2, <2>3, <2>4, <2>5 DEF HInv
<1>11. CASE H!Fetch
  <2>1. PICK page \in H!Answers(H!Cursor) :
          LET so == Append(fetching.pages, page) IN
          IF Len(so) = fetching.wanted \/ page.nextCursor = None
          THEN pages' = so /\ unseen' = fetching.unseen /\ fetching' = None
          ELSE fetching' = [fetching EXCEPT !.pages = so] /\ UNCHANGED <<pages, unseen>>
    BY <1>11 DEF H!Fetch
  <2>2. fetching # None /\ UNCHANGED <<now, sentAt, committed>>
    BY <1>11 DEF H!Fetch
  <2> DEFINE so == Append(fetching.pages, page)
  <2>3. so \in Seq(H!Page) /\ HFollow(so, fetching.unseen)
    BY <2>2, HMore
  <2>4. \A i \in 1..Len(so) : so[i] = page \/ so[i].nextCursor # None
    BY <1>2, <2>2
  <2> HIDE DEF so
  <2>5. PICK ps \in Seq(H!Page), us \in SUBSET committed :
          ps = so /\ us = fetching.unseen
    BY <1>2, <2>2, <2>3
  <2>6. HFollow(ps, us)'
    BY <1>3, <2>2, <2>3, <2>5
  <2>7. CASE Len(so) = fetching.wanted \/ page.nextCursor = None
    <3>1. pages' = ps /\ unseen' = us /\ fetching' = None
      BY <2>1, <2>5, <2>7 DEF so
    <3>2. HTypes'
      BY <1>1, <2>2, <2>5, <3>1 DEF HTypes
    <3> QED BY <2>6, <3>1, <3>2 DEF HInv
  <2>8. CASE ~(Len(so) = fetching.wanted \/ page.nextCursor = None)
    <3>1. fetching' = [fetching EXCEPT !.pages = ps] /\ UNCHANGED <<pages, unseen>>
      BY <2>1, <2>5, <2>8 DEF so
    <3>2. fetching' \in HFetch /\ fetching'.pages = ps /\ fetching'.unseen = us
      BY <1>2, <2>2, <2>5, <3>1 DEF HFetch
    <3>3. HTypes'
      BY <1>1, <2>2, <2>5, <3>1, <3>2 DEF HTypes
    <3>4. \A i \in 1..Len(ps) : ps[i].nextCursor # None
      BY <2>4, <2>5, <2>8
    <3>5. HFollow(pages, unseen)'
      BY <1>1, <1>3, <2>2, <3>1
    <3> QED BY <2>6, <3>2, <3>3, <3>4, <3>5 DEF HInv
  <2> QED BY <2>7, <2>8
<1>12. CASE H!FetchFails
  <2>1. fetching' = None /\ UNCHANGED <<now, sentAt, committed, pages, unseen>>
    BY <1>12 DEF H!FetchFails
  <2>2. HTypes'
    BY <1>1, <2>1 DEF HTypes
  <2> QED BY <1>1, <1>3, <2>1, <2>2 DEF HInv
<1>13. CASE UNCHANGED hVars
  <2>1. UNCHANGED <<now, sentAt, committed, pages, fetching, unseen>>
    BY <1>13 DEF hVars
  <2>2. HTypes'
    BY <1>1, <2>1 DEF HTypes
  <2> QED BY <1>4, <2>1, <2>2
<1> QED BY <1>5, <1>6, <1>7, <1>8, <1>9, <1>10, <1>11, <1>12, <1>13 DEF H!Next

\* So no message is missing between those shown, but for what the property names, and none
\* is shown twice.
LEMMA HShown == HInv => H!NoGap /\ H!ShownOnce
<1> SUFFICES ASSUME HInv PROVE H!NoGap /\ H!ShownOnce
  OBVIOUS
<1>1. HTypes /\ HFollow(pages, unseen) /\ pages \in Seq(H!Page)
  BY DEF HInv, HTypes
<1>2. DOMAIN pages = 1..Len(pages) /\ Len(pages) \in Nat
  BY <1>1
<1>3. \A i \in 1..Len(pages) : pages[i] \in H!Page /\ HPaged(pages[i])
  BY <1>1 DEF HFollow
<1>4. ASSUME NEW j \in 1..Len(pages), NEW i \in 1..(j - 1)
      PROVE  /\ pages[i].nextCursor # None
             /\ \A m \in pages[j].messages : sentAt[m] < pages[i].nextCursor
  BY <1>1 DEF HFollow
<1>5. \A i \in 1..Len(pages) : \A m \in pages[i].messages : sentAt[m] \in Nat
  BY <1>1, <1>3 DEF HPaged, HTypes, H!Times
<1>6. \A i \in 1..Len(pages) : pages[i].nextCursor # None => pages[i].nextCursor \in Nat
  BY <1>3 DEF H!Page, H!Times
<1>7. H!NoGap
  <2> SUFFICES ASSUME NEW m \in committed \ (H!Shown \cup unseen), ~H!Cut(sentAt[m]), pages # <<>>
               PROVE  /\ pages[Len(pages)].nextCursor # None
                      /\ \A o \in H!Shown : sentAt[m] <= sentAt[o]
    BY DEF H!NoGap, H!Last
  <2> DEFINE n == Len(pages)
  <2>1. n \in 1..Len(pages) /\ n \in Nat /\ n = Len(pages)
    BY <1>1
  <2> HIDE DEF n
  <2>2. HPlaced(pages, m, n)
    BY <1>1, <2>1 DEF HFollow
  <2>3. \A j \in 1..n : m \notin pages[j].messages
    BY <1>2, <2>1 DEF H!Shown
  <2>4. ASSUME NEW j \in 1..(n - 1) PROVE sentAt[m] # pages[j].nextCursor
    <3>1. j \in 1..Len(pages) /\ pages[j].nextCursor # None
      BY <1>2, <1>4, <2>1, <2>4
    <3>2. H!Oldest(pages[j].messages) = pages[j].nextCursor
      BY <1>1, <1>3, <3>1, HCursor
    <3> QED BY <1>2, <3>1, <3>2 DEF H!Cut
  <2>5. pages[n].nextCursor # None /\ sentAt[m] <= pages[n].nextCursor
    BY <2>2, <2>3, <2>4 DEF HPlaced
  <2>6. ASSUME NEW o \in H!Shown PROVE sentAt[m] <= sentAt[o]
    <3>1. PICK j \in 1..n : o \in pages[j].messages
      BY <1>2, <2>1 DEF H!Shown
    <3>2. sentAt[m] \in Nat /\ sentAt[o] \in Nat /\ pages[n].nextCursor \in Nat
      BY <1>1, <1>5, <1>6, <2>1, <2>5, <3>1 DEF HTypes, H!Times
    <3>3. CASE j = n
      <4>1. sentAt[o] >= pages[n].nextCursor
        BY <1>3, <2>1, <2>5, <3>1, <3>3 DEF HPaged
      <4> QED BY <2>5, <3>2, <4>1
    <3>4. CASE j # n
      <4>1. j \in 1..(n - 1) /\ j \in 1..Len(pages)
        BY <2>1, <3>1, <3>4
      <4>2. pages[j].nextCursor # None /\ pages[j].nextCursor \in Nat
        BY <1>4, <1>6, <2>1, <4>1
      <4>3. sentAt[o] >= pages[j].nextCursor
        BY <1>3, <3>1, <4>1, <4>2 DEF HPaged
      <4>4. PICK l \in pages[n].messages : sentAt[l] = pages[n].nextCursor
        BY <1>3, <2>1, <2>5 DEF HPaged
      <4>5. sentAt[l] < pages[j].nextCursor
        BY <1>4, <2>1, <4>1, <4>4
      <4> QED BY <2>5, <3>2, <4>2, <4>3, <4>4, <4>5
    <3> QED BY <3>3, <3>4
  <2> QED BY <2>1, <2>5, <2>6
<1>8. H!ShownOnce
  <2>1. ASSUME NEW j \in 1..Len(pages), NEW i \in 1..(j - 1)
        PROVE  pages[i].messages \cap pages[j].messages = {}
    <3> SUFFICES ASSUME NEW m \in pages[i].messages, m \in pages[j].messages PROVE FALSE
      OBVIOUS
    <3>1. i \in 1..Len(pages)
      BY <1>2
    <3>2. pages[i].nextCursor # None /\ sentAt[m] < pages[i].nextCursor
      BY <1>4
    <3>3. sentAt[m] >= pages[i].nextCursor
      BY <1>3, <3>1, <3>2 DEF HPaged
    <3>4. sentAt[m] \in Nat /\ pages[i].nextCursor \in Nat
      BY <1>5, <1>6, <3>1, <3>2
    <3> QED BY <3>2, <3>3, <3>4
  <2>2. \A i, j \in 1..Len(pages) : i # j => i \in 1..(j - 1) \/ j \in 1..(i - 1)
    BY <1>2
  <2> QED BY <1>2, <2>1, <2>2 DEF H!ShownOnce
<1> QED BY <1>7, <1>8

\* And everything has its type.
LEMMA HTyped == HInv => H!TypeOK
BY DEF HInv, HTypes, H!TypeOK, HFetch

-----------------------------------------------------------------------------
(* Forms *)

\* A form for something new that stays open is blanked by a success, and refuses
\* to save nothing.
FBlanked(f) == f.guard /\ New \in f.targets /\ f.stays => f.saved = "blank" /\ f.clears = "refused"

\* What every step of a form for something new keeps: while its button is disabled and it
\* was not typed in early, it has one save, of its target, and no second one after it.
FInv ==
    /\ form \in F!Forms
    /\ target # None => target \in form.targets
    /\ form.guard => made \in {0, 1}
    /\ form.guard /\ ~early =>
         /\ target # None => \A q \in saves : q = saving /\ q # None /\ q.row = target
         /\ \A q, s \in saves : q = s
         /\ made = 0 \/ (made = 1 /\ saves = {})
         /\ made = 1 => target = None \/ (target = New /\ form.stays /\ shown = Asked)

\* Every form of the frontend is so.
LEMMA FRules == \A f \in F!Forms : FBlanked(f)
<1>0. New \notin FormRows /\ New \notin F!OneRow
  BY ScreensAssumption
<1> USE DEF FBlanked
<1>1. \A f \in {F!CreateCourseDialog, F!CreatePeriodDialog, F!CreateSchoolYearDialog, F!CreateUserDialog,
     F!CreateStudentDialog, F!CreateInstitution, F!InvitationsTab, F!AssignSubjectDialog, F!CoursesCard,
     F!ResetPasswordDialog, F!ChangePassword} : ~f.stays
  BY DEF F!CreateCourseDialog, F!CreatePeriodDialog, F!CreateSchoolYearDialog,
    F!CreateUserDialog,
     F!CreateStudentDialog, F!CreateInstitution, F!InvitationsTab, F!AssignSubjectDialog, F!CoursesCard,
     F!ResetPasswordDialog, F!ChangePassword, F!Dialog
<1>2. \A f \in {F!LeaveDialog, F!LeaveActions, F!StatusCard,
     F!CreateGradeDialog, F!OverrideDialog, F!CourseSubjectsCard, F!NewMessageDialog} : ~f.stays
  BY DEF F!LeaveDialog, F!LeaveActions, F!StatusCard, F!CreateGradeDialog, F!OverrideDialog,
     F!CourseSubjectsCard, F!NewMessageDialog, F!Dialog
<1>3. \A f \in {F!HistoryTab, F!AddParticipantsDialog, F!MessageInput} : New \notin f.targets
  BY <1>0 DEF F!HistoryTab, F!AddParticipantsDialog, F!MessageInput, F!Dialog
<1>4. \A f \in {F!RoleCard, F!LevelRolesDialog, F!AddIndicator} : f.saved = "blank" /\ f.clears = "refused"
  BY DEF F!RoleCard, F!LevelRolesDialog, F!AddIndicator, F!Dialog
<1>5. \A f \in {F!SubjectDialog, F!EducationLevelDialog, F!LevelGradeDialog, F!CreateSpaceButton,
     F!CreateReservation, F!CreateSportButton, F!CreateSportGroupButton, F!AnnouncementsPage,
     F!ConvivenciasPage, F!EditIndicator} : ~f.stays
  BY DEF F!SubjectDialog, F!EducationLevelDialog, F!LevelGradeDialog, F!CreateSpaceButton,
     F!CreateReservation, F!CreateSportButton, F!CreateSportGroupButton, F!AnnouncementsPage,
     F!ConvivenciasPage, F!EditIndicator, F!RowDialog, F!Dialog
<1>6. \A f \in {F!SpacesTable, F!SportsTable, F!SportGroupsTable, F!PlanDialog, F!ReservationCard,
     F!ThresholdsConfig} : ~f.stays
  BY DEF F!SpacesTable, F!SportsTable, F!SportGroupsTable, F!PlanDialog, F!ReservationCard,
     F!ThresholdsConfig, F!CreateSpaceButton, F!CreateReservation, F!Dialog
<1>7. \A f \in {F!ReportSettingsTab, F!AbsenceSettingsTab, F!GeneralTab, F!PendingSubjectsTab,
     F!PersonalInfoCard, F!ReportsSettingsTab} : New \notin f.targets
  <2>1. New \notin F!SettingsTab.targets
    BY <1>0 DEF F!SettingsTab, F!SpacesTable, F!CreateSpaceButton, F!Dialog
  <2>2. /\ F!GeneralTab.targets = F!SettingsTab.targets
        /\ F!PendingSubjectsTab.targets = F!SettingsTab.targets
        /\ F!ReportsSettingsTab.targets = F!SettingsTab.targets
    BY DEF F!GeneralTab, F!PendingSubjectsTab, F!ReportsSettingsTab, F!SettingsTab
  <2>3. F!PersonalInfoCard.targets = F!GeneralTab.targets
    BY DEF F!PersonalInfoCard, F!GeneralTab
  <2> QED BY <2>1, <2>2, <2>3 DEF F!ReportSettingsTab, F!AbsenceSettingsTab
<1> QED BY <1>1, <1>2, <1>3, <1>4, <1>5, <1>6, <1>7 DEF F!Forms

\* It holds at first.
LEMMA FInitial == F!Init => FInv
BY DEF F!Init, FInv

\* What is typed once is created once.
LEMMA FOnce == FInv => F!CreatedOnce
BY DEF FInv, F!CreatedOnce

\* Every step of a form keeps it.
LEMMA FStep == FInv /\ [F!Next]_fVars => FInv'
<1> SUFFICES ASSUME FInv, [F!Next]_fVars PROVE FInv'
  OBVIOUS
<1>0. None \notin F!Save
  BY ScreensAssumption
<1>a. FBlanked(form)
  BY FRules DEF FInv
<1>1. ASSUME NEW t \in FormRows \cup {New}, F!Open(t) PROVE FInv'
  <2>1. ~early' => saves = {}
    BY <1>1, Zenon DEF F!Open
  <2>2. form' = form /\ made' = 0 /\ saves' = saves /\ target' = t /\ t \in form.targets
    BY <1>1 DEF F!Open
  <2> QED BY <2>1, <2>2 DEF FInv
<1>2. ASSUME NEW value \in F!Shown, F!Type(value) PROVE FInv'
  <2>1. ~early' => saves = {}
    BY <1>2, Zenon DEF F!Type
  <2>2. form' = form /\ made' = 0 /\ saves' = saves /\ target' = target
    BY <1>2 DEF F!Type
  <2> QED BY <2>1, <2>2 DEF FInv
<1>3. ASSUME F!Submit PROVE FInv'
  <2>1. PICK q \in F!Save : saving' = q /\ saves' = saves \cup {q} /\ q.row = target
    BY <1>3 DEF F!Submit
  <2>2. /\ target # None /\ (form.guard => saving = None) /\ ~(shown = Asked /\ form.clears = "refused")
        /\ form' = form /\ target' = target /\ shown' = shown /\ early' = early /\ made' = made
    BY <1>3 DEF F!Submit, F!Waits, F!Refused
  <2>3. form.guard /\ ~early => saves = {} /\ made = 0
    BY <1>a, <2>2 DEF FInv, FBlanked
  <2>4. q # None
    BY <1>0
  <2> QED BY <2>1, <2>2, <2>3, <2>4 DEF FInv
<1>4. ASSUME F!Cancel PROVE FInv'
  BY <1>4 DEF F!Cancel, FInv
<1>5. ASSUME F!Refetch PROVE FInv'
  BY <1>5, ScreensAssumption DEF F!Refetch, F!Keep, F!Fill, FInv
<1>6. ASSUME F!Refill PROVE FInv'
  BY <1>6, ScreensAssumption DEF F!Refill, F!Fill, FInv
<1>7. ASSUME NEW q \in saves, F!Answer(q) PROVE FInv'
  <2>1. saves' = saves \ {q} /\ form' = form /\ early' = early
    BY <1>7 DEF F!Answer, F!Done
  <2>a. target' \in {target, None}
    BY <1>7 DEF F!Answer
  <2>b. target' # None => target' \in form'.targets
    BY <2>1, <2>a DEF FInv
  <2>c. early => made' = made
    BY <1>7 DEF F!Answer
  <2> SUFFICES ASSUME form.guard, ~early PROVE FInv'
    BY <2>1, <2>b, <2>c DEF FInv
  <2>2. saves' = {} /\ made = 0
    BY <2>1 DEF FInv
  <2>3. CASE q.row = New /\ target # None
    <3>1. target = New /\ q = saving
      BY <2>3 DEF FInv
    <3>2. target' = IF form.stays THEN target ELSE None
      BY <1>7, <3>1 DEF F!Answer, F!Called
    <3>3. F!Apply(form.saved)
      BY <1>7, <3>1 DEF F!Answer, F!Called
    <3>4. made' = 1
      BY <1>7, <2>2, <2>3 DEF F!Answer
    <3>5. form.stays => form.saved = "blank"
      BY <1>a, <2>3, <3>1 DEF FBlanked, FInv
    <3>6. form.stays => shown' = Asked
      BY <3>3, <3>5 DEF F!Apply, F!Clear, F!Fill
    <3> QED BY <2>1, <2>2, <2>b, <3>1, <3>2, <3>4, <3>6 DEF FInv
  <2>4. CASE q.row # New
    <3>1. made' = 0
      BY <1>7, <2>2, <2>4 DEF F!Answer
    <3> QED BY <2>1, <2>2, <2>b, <3>1 DEF FInv
  <2>5. CASE target = None
    <3>1. target' = None
      BY <2>5, <2>a
    <3>2. made' = 0 \/ made' = 1
      BY <1>7, <2>2 DEF F!Answer
    <3> QED BY <2>1, <2>2, <2>b, <3>1, <3>2 DEF FInv
  <2> QED BY <2>3, <2>4, <2>5
<1>8. ASSUME NEW q \in saves, F!Fail(q) PROVE FInv'
  BY <1>8 DEF F!Fail, F!Done, FInv
<1>9. ASSUME NEW r \in FormRows, NEW value \in FormValues, F!Elsewhere(r, value) PROVE FInv'
  BY <1>9 DEF F!Elsewhere, FInv
<1>10. ASSUME UNCHANGED fVars PROVE FInv'
  BY <1>10 DEF fVars, FInv
<1> QED BY <1>1, <1>2, <1>3, <1>4, <1>5, <1>6, <1>7, <1>8, <1>9, <1>10 DEF F!Next

\* The types of rows, targets and saves.
FTypes ==
    /\ form \in F!Forms
    /\ {fields, known, intended} \subseteq [FormRows -> F!Shown]
    /\ target \in form.targets \cup {None}
    /\ shown \in F!Shown /\ back \in F!Shown
    /\ saves \subseteq F!Save /\ saving \in saves \cup {None}
    /\ \A q \in saves : q.row \in form.targets
    /\ draft \in F!Shown \cup {None}
    /\ target = None => draft = None

\* While its button is disabled a form that is not mounted again has one save; a row
\* that nothing crossed has one in any case.
FSingle ==
    /\ form.guard /\ ~form.remounts => saves \subseteq {saving}
    /\ \A r \in FormRows \ formsCrossed : \A q, s \in saves : q.row = r /\ s.row = r => q = s

\* A form that does not read its row and is blanked holds nothing but what was typed.
FUnread == ~form.reads /\ form.cancelled = "blank" /\ draft = None => shown = Asked

\* The row r is as it was last meant.
FAsMeant(r) == fields[r] = intended[r] \/ (form.clears = "omitted" /\ intended[r] = Asked)

\* A save of r makes or leaves it so.
FMeansWell(q) ==
    \/ q.value = intended[q.row]
    \/ FAsMeant(q.row) /\ (q.value = fields[q.row] \/ (form.clears = "omitted" /\ q.value = Asked))

\* A row that nothing crossed is as it was last meant, or a save that will make it so is
\* under way.
FKept ==
    ~F!CarriesOver =>
        \A r \in FormRows \ formsCrossed :
            /\ F!UnderWay(r) \/ FAsMeant(r)
            /\ \A q \in saves : q.row = r => FMeansWell(q)

\* What every step of a form keeps.
FWritesInv == FTypes /\ FSingle /\ FUnread /\ F!FormShowsRow /\ FKept

\* It is enough for what the forms promise.
LEMMA FWrites == FWritesInv => F!FormsKeepWrites
BY DEF FWritesInv, FKept, FAsMeant, F!FormsKeepWrites

\* What the proofs need of the rules of a form.
FRuled(f) ==
    /\ f.targets \subseteq FormRows \cup F!OneRow \cup {New}
    /\ f.stays /\ f.reads => f.targets = {New} \/ (f.targets = F!OneRow /\ f.saved = "keep")
    /\ ~f.reads /\ f.cancelled = "blank" =>
         f.new = "keep" /\ f.saved = "blank" /\ f.clears = "refused" /\ ~f.stays /\ f.live = "no"

\* Every form of the frontend is so.
LEMMA FAllRuled == \A f \in F!Forms : FRuled(f)
<1> USE DEF FRuled
<1>1. \A f \in {F!CreateCourseDialog, F!CreatePeriodDialog, F!CreateSchoolYearDialog, F!CreateUserDialog,
     F!CreateStudentDialog, F!CreateInstitution, F!InvitationsTab, F!AssignSubjectDialog, F!CoursesCard,
     F!ResetPasswordDialog, F!ChangePassword} : FRuled(f)
  BY DEF F!CreateCourseDialog, F!CreatePeriodDialog, F!CreateSchoolYearDialog,
    F!CreateUserDialog,
     F!CreateStudentDialog, F!CreateInstitution, F!InvitationsTab, F!AssignSubjectDialog, F!CoursesCard,
     F!ResetPasswordDialog, F!ChangePassword, F!Dialog
<1>2. \A f \in {F!LeaveDialog, F!LeaveActions, F!StatusCard,
     F!CreateGradeDialog, F!OverrideDialog, F!CourseSubjectsCard, F!NewMessageDialog} : FRuled(f)
  BY DEF F!LeaveDialog, F!LeaveActions, F!StatusCard, F!CreateGradeDialog, F!OverrideDialog,
     F!CourseSubjectsCard, F!NewMessageDialog, F!Dialog
<1>3. \A f \in {F!HistoryTab, F!AddParticipantsDialog, F!MessageInput} : FRuled(f)
  BY DEF F!HistoryTab, F!AddParticipantsDialog, F!MessageInput, F!Dialog
<1>4. \A f \in {F!RoleCard, F!LevelRolesDialog, F!AddIndicator} : FRuled(f)
  BY DEF F!RoleCard, F!LevelRolesDialog, F!AddIndicator, F!Dialog
<1>5. \A f \in {F!SubjectDialog, F!EducationLevelDialog, F!LevelGradeDialog, F!AnnouncementsPage,
     F!ConvivenciasPage, F!EditIndicator} : FRuled(f)
  <2> USE DEF F!RowDialog, F!Dialog
  <2>1. FRuled(F!SubjectDialog) /\ FRuled(F!EducationLevelDialog)
    BY DEF F!SubjectDialog, F!EducationLevelDialog
  <2>2. FRuled(F!LevelGradeDialog) /\ FRuled(F!EditIndicator)
    BY DEF F!LevelGradeDialog, F!EditIndicator
  <2>3. FRuled(F!AnnouncementsPage) /\ FRuled(F!ConvivenciasPage)
    BY DEF F!AnnouncementsPage, F!ConvivenciasPage
  <2> HIDE DEF FRuled
  <2> QED BY <2>1, <2>2, <2>3
<1>6. \A f \in {F!CreateSpaceButton, F!CreateReservation, F!CreateSportButton, F!CreateSportGroupButton,
     F!SpacesTable, F!SportsTable, F!SportGroupsTable, F!PlanDialog, F!ReservationCard,
     F!ThresholdsConfig} : FRuled(f)
  <2> USE DEF F!CreateSpaceButton, F!Dialog
  <2>1. FRuled(F!CreateSpaceButton) /\ FRuled(F!CreateReservation) /\ FRuled(F!CreateSportButton)
    BY DEF F!CreateReservation, F!CreateSportButton
  <2>2. FRuled(F!CreateSportGroupButton) /\ FRuled(F!SpacesTable) /\ FRuled(F!SportsTable)
    BY DEF F!CreateSportGroupButton, F!CreateSportButton, F!SpacesTable, F!SportsTable
  <2>3. FRuled(F!SportGroupsTable) /\ FRuled(F!PlanDialog)
    BY DEF F!SportGroupsTable, F!PlanDialog, F!SportsTable, F!SpacesTable
  <2>4. FRuled(F!ReservationCard) /\ FRuled(F!ThresholdsConfig)
    BY DEF F!ReservationCard, F!ThresholdsConfig, F!CreateReservation
  <2> HIDE DEF FRuled
  <2> QED BY <2>1, <2>2, <2>3, <2>4
<1>7. \A f \in {F!ReportSettingsTab, F!AbsenceSettingsTab, F!GeneralTab, F!PendingSubjectsTab,
     F!PersonalInfoCard, F!ReportsSettingsTab} : FRuled(f)
  <2> USE DEF F!SettingsTab, F!SpacesTable, F!CreateSpaceButton, F!Dialog
  <2>1. FRuled(F!SettingsTab)
    OBVIOUS
  <2>2. FRuled(F!GeneralTab)
    BY DEF F!GeneralTab
  <2>3. FRuled(F!PendingSubjectsTab)
    BY DEF F!PendingSubjectsTab
  <2>4. FRuled(F!PersonalInfoCard)
    BY DEF F!PersonalInfoCard, F!GeneralTab
  <2>5. FRuled(F!ReportsSettingsTab)
    BY DEF F!ReportsSettingsTab
  <2> HIDE DEF FRuled, F!SettingsTab
  <2> QED BY <2>1, <2>2, <2>3, <2>4, <2>5 DEF F!ReportSettingsTab, F!AbsenceSettingsTab
<1> HIDE DEF FRuled
<1> QED BY <1>1, <1>2, <1>3, <1>4, <1>5, <1>6, <1>7 DEF F!Forms

\* It holds at first.
LEMMA FWritesInitial == F!Init => FWritesInv
BY ScreensAssumption DEF F!Init, FWritesInv, FTypes, FSingle, FUnread, F!FormShowsRow,
  FKept, F!UnderWay,
     FAsMeant, F!Shown

\* What a rule may make of the field.
LEMMA FApplied ==
    ASSUME FTypes, NEW rule, F!Apply(rule)
    PROVE  /\ shown' \in F!Shown /\ back' \in F!Shown
           /\ rule = "keep" => shown' = shown
           /\ rule = "blank" => shown' = Asked
BY DEF FTypes, F!Apply, F!Keep, F!Clear, F!Fill, F!GoBack, F!Shown

\* No row has the name of nothing, or of a new one.
LEMMA FNames == /\ None \notin F!Save /\ None \notin F!Shown /\ None \notin FormRows
                /\ New \notin FormRows /\ New \notin F!OneRow
BY ScreensAssumption

\* A step that leaves rows, saves and histories alone keeps what they are to hold.
LEMMA FKeepRest ==
    ASSUME FWritesInv, UNCHANGED <<form, fields, intended, formsCrossed>>, saves' = saves
    PROVE  FKept'
BY DEF FWritesInv, FKept, F!CarriesOver, F!UnderWay, FAsMeant, FMeansWell

\* What is under way after a save is answered, or fails.
LEMMA FDone ==
    ASSUME FWritesInv, NEW q \in saves, F!Done(q), form' = form, formsCrossed \subseteq formsCrossed'
    PROVE  /\ saves' = saves \ {q} /\ saves' \subseteq F!Save /\ saving' \in saves' \cup {None}
           /\ FSingle'
<1>1. saves' = saves \ {q} /\ saving' = IF saving = q THEN None ELSE saving
  BY DEF F!Done
<1> QED BY <1>1 DEF FWritesInv, FTypes, FSingle

\* Saving a form keeps it,
LEMMA FSubmitted == FWritesInv /\ F!Submit => FWritesInv'
<1> SUFFICES ASSUME FWritesInv, F!Submit PROVE FWritesInv'
  OBVIOUS
<1>1. PICK q \in F!Save \ saves : q.row = target /\ q.value = shown /\ saving' = q /\ saves' = saves \cup {q}
  BY DEF F!Submit
<1>2. /\ target # None /\ (form.guard => saving = None) /\ ~(shown = Asked /\ form.clears = "refused")
      /\ intended' = IF target \in FormRows /\ draft # None THEN [intended EXCEPT ![target] = shown]
                     ELSE intended
      /\ formsCrossed' = IF target \in FormRows /\ (old \/ (F!UnderWay(target) /\ (form.remounts \/ ~form.guard)))
                         THEN formsCrossed \cup {target} ELSE formsCrossed
      /\ UNCHANGED <<form, fields, known, target, shown, back, old, draft>>
  BY DEF F!Submit, F!Waits, F!Refused
<1>3. FTypes'
  <2>1. intended' \in [FormRows -> F!Shown]
    BY <1>2 DEF FWritesInv, FTypes
  <2> QED BY <1>1, <1>2, <2>1 DEF FWritesInv, FTypes
<1>4. form.guard /\ ~form.remounts => saves = {}
  BY <1>2, FNames DEF FWritesInv, FTypes, FSingle
<1>5. target \in FormRows \ formsCrossed' => ~F!UnderWay(target) /\ ~old
  BY <1>2, <1>4 DEF F!UnderWay
<1>6. FSingle'
  <2>1. form'.guard /\ ~form'.remounts => saves' \subseteq {saving'}
    BY <1>1, <1>2, <1>4
  <2>2. \A r \in FormRows \ formsCrossed' : \A s, t \in saves' : s.row = r /\ t.row = r => s = t
    BY <1>1, <1>2, <1>5 DEF FWritesInv, FSingle, F!UnderWay
  <2> QED BY <2>1, <2>2 DEF FSingle
<1>7. FUnread' /\ F!FormShowsRow'
  BY <1>2 DEF FWritesInv, FUnread, F!FormShowsRow
<1>8. FKept'
  <2> SUFFICES ASSUME ~F!CarriesOver, NEW r \in FormRows \ formsCrossed'
               PROVE  /\ F!UnderWay(r)' \/ FAsMeant(r)'
                      /\ \A s \in saves' : s.row = r => FMeansWell(s)'
    BY <1>2 DEF FKept, F!CarriesOver
  <2>1. CASE r # target
    <3>a. intended \in [FormRows -> F!Shown]
      BY DEF FWritesInv, FTypes
    <3>b. intended' \in {intended, [intended EXCEPT ![target] = shown]} /\ fields' = fields
      BY <1>2
    <3>1. intended'[r] = intended[r] /\ fields'[r] = fields[r]
      BY <2>1, <3>a, <3>b
    <3>2. \A s \in saves' : s.row = r => s \in saves
      BY <1>1, <2>1
    <3> QED BY <1>1, <1>2, <2>1, <3>1, <3>2 DEF FWritesInv, FKept, F!UnderWay, FAsMeant, FMeansWell
  <2>2. CASE r = target
    <3>1. ~F!UnderWay(r) /\ ~old /\ FAsMeant(r)
      BY <1>2, <1>5, <2>2 DEF FWritesInv, FKept
    <3>2. \A s \in saves' : s.row = r => s = q
      BY <1>1, <3>1 DEF F!UnderWay
    <3>3. CASE draft # None
      <4>1. q.value = intended'[q.row]
        BY <1>1, <1>2, <2>2, <3>3 DEF FWritesInv, FTypes
      <4> QED BY <1>1, <2>2, <3>2, <4>1 DEF F!UnderWay, FMeansWell
    <3>4. CASE draft = None
      <4>1. form.reads
        BY <1>2, <3>4, FAllRuled DEF FRuled, FWritesInv, FTypes, FUnread, F!CarriesOver
      <4>2. shown = fields[r] \/ (shown = Asked /\ form.clears = "omitted")
        BY <2>2, <3>1, <3>4, <4>1 DEF FWritesInv, F!FormShowsRow
      <4>3. intended' = intended /\ fields' = fields /\ form' = form
        BY <1>2, <3>4
      <4>4. FMeansWell(q)'
        BY <1>1, <2>2, <3>1, <4>2, <4>3 DEF FMeansWell, FAsMeant
      <4> QED BY <1>1, <2>2, <3>2, <4>4 DEF F!UnderWay
    <3> QED BY <3>3, <3>4
  <2> QED BY <2>1, <2>2
<1> QED BY <1>3, <1>6, <1>7, <1>8 DEF FWritesInv

\* the answer to a save does,
LEMMA FAnswered == ASSUME FWritesInv, NEW q \in saves, F!Answer(q) PROVE FWritesInv'
<1>1. /\ F!Done(q) /\ fields' = F!Written(q)
      /\ IF F!Called(q)
         THEN /\ target' = IF form.stays THEN target ELSE None
              /\ F!Apply(form.saved)
              /\ draft' = IF early /\ form.stays THEN draft ELSE None
         ELSE F!Keep /\ UNCHANGED <<target, draft>>
      /\ old' = (old \/ (target = q.row /\ shown # q.value))
      /\ UNCHANGED <<form, known, intended, formsCrossed>>
  BY DEF F!Answer
<1>2. q \in F!Save /\ q.value \in F!Shown /\ q.row \in form.targets /\ q.row \in FormRows \cup {New}
  BY DEF FWritesInv, FTypes, F!Save
<1>3. /\ fields' \in [FormRows -> F!Shown]
      /\ \A r \in FormRows : fields'[r] = IF r = q.row /\ ~(q.value = Asked /\ form.clears = "omitted")
                                          THEN q.value ELSE fields[r]
  BY <1>1, <1>2 DEF F!Written, FWritesInv, FTypes
<1>4. saves' = saves \ {q} /\ saves' \subseteq F!Save /\ saving' \in saves' \cup {None} /\ FSingle'
  BY <1>1, FDone
<1>5. /\ shown' \in F!Shown /\ back' \in F!Shown /\ target' \in {target, None}
      /\ draft' \in {draft, None} /\ (target' # None /\ ~form.stays => ~F!Called(q))
  BY <1>1, FApplied DEF FWritesInv, FTypes, F!Keep
<1>6. target' = None => draft' = None
  BY <1>1 DEF FWritesInv, FTypes
<1>7. FTypes'
  BY <1>1, <1>3, <1>4, <1>5, <1>6 DEF FWritesInv, FTypes
<1>8. FUnread'
  <2> SUFFICES ASSUME ~form.reads, form.cancelled = "blank", draft' = None PROVE shown' = Asked
    BY <1>1 DEF FUnread
  <2>1. form.saved = "blank"
    BY FAllRuled DEF FRuled, FWritesInv, FTypes
  <2>2. CASE F!Called(q)
    BY <1>1, <2>1, <2>2, FApplied DEF FWritesInv
  <2>3. CASE ~F!Called(q)
    BY <1>1, <2>3 DEF FWritesInv, FUnread, F!Keep
  <2> QED BY <2>2, <2>3
<1>9. F!FormShowsRow'
  <2> SUFFICES ASSUME target' \in FormRows, form.reads, draft' = None, ~old'
               PROVE  shown' = fields'[target'] \/ (shown' = Asked /\ form.clears = "omitted")
    BY <1>1 DEF F!FormShowsRow
  <2>1. target' = target /\ ~old /\ (target = q.row => shown = q.value)
    BY <1>1, <1>5, FNames
  <2>2. shown' = shown /\ (F!Called(q) => form.stays /\ form.targets = F!OneRow)
    <3>1. CASE F!Called(q)
      <4>1. form.stays
        BY <1>1, <3>1, FNames
      <4>2. form.targets = F!OneRow /\ form.saved = "keep"
        BY <2>1, <4>1, FAllRuled, FNames DEF FRuled, FWritesInv, FTypes
      <4> QED BY <1>1, <3>1, <4>1, <4>2, FApplied DEF FWritesInv
    <3>2. CASE ~F!Called(q)
      BY <1>1, <3>2 DEF F!Keep
    <3> QED BY <3>1, <3>2
  <2>3. CASE target = q.row
    BY <1>2, <1>3, <2>1, <2>2, <2>3
  <2>4. CASE target # q.row
    <3>1. fields'[target] = fields[target]
      BY <1>3, <2>1, <2>4
    <3>a. \A r, t \in F!OneRow : r = t
      BY DEF F!OneRow
    <3>b. target \in form.targets /\ q.row \in form.targets
      BY <1>2, <2>1, FNames DEF FWritesInv, FTypes
    <3>2. ~F!Called(q)
      BY <2>2, <2>4, <3>a, <3>b
    <3>3. draft = None
      BY <1>1, <3>2
    <3> QED BY <2>1, <2>2, <3>1, <3>3 DEF FWritesInv, F!FormShowsRow
  <2> QED BY <2>3, <2>4
<1>10. FKept'
  <2> SUFFICES ASSUME ~F!CarriesOver, NEW r \in FormRows \ formsCrossed
               PROVE  /\ F!UnderWay(r)' \/ FAsMeant(r)'
                      /\ \A s \in saves' : s.row = r => FMeansWell(s)'
    BY <1>1 DEF FKept, F!CarriesOver
  <2>1. CASE r # q.row
    <3>1. fields'[r] = fields[r]
      BY <1>3, <2>1
    <3> QED BY <1>1, <1>4, <2>1, <3>1 DEF FWritesInv, FKept, F!UnderWay, FAsMeant, FMeansWell
  <2>2. CASE r = q.row
    <3>1. \A s \in saves' : s.row # r
      BY <1>4, <2>2 DEF FWritesInv, FSingle
    <3>2. FMeansWell(q)
      BY <2>2 DEF FWritesInv, FKept
    <3>3. FAsMeant(r)'
      BY <1>1, <1>3, <2>2, <3>2 DEF FAsMeant, FMeansWell
    <3> QED BY <3>1, <3>3
  <2> QED BY <2>1, <2>2
<1> QED BY <1>4, <1>7, <1>8, <1>9, <1>10 DEF FWritesInv

\* and its failure.
LEMMA FFailed == ASSUME FWritesInv, NEW q \in saves, F!Fail(q) PROVE FWritesInv'
<1>1. /\ F!Done(q) /\ fields' \in {fields, F!Written(q)}
      /\ old' = (old \/ target = q.row)
      /\ formsCrossed' = IF q.row \in FormRows THEN formsCrossed \cup {q.row} ELSE formsCrossed
      /\ UNCHANGED <<form, known, target, shown, back, intended, draft>>
  BY DEF F!Fail
<1>2. q \in F!Save /\ q.value \in F!Shown
  BY DEF FWritesInv, FTypes, F!Save
<1>3. fields' \in [FormRows -> F!Shown] /\ \A r \in FormRows : r # q.row => fields'[r] = fields[r]
  BY <1>1, <1>2 DEF F!Written, FWritesInv, FTypes
<1>4. saves' = saves \ {q} /\ saves' \subseteq F!Save /\ saving' \in saves' \cup {None} /\ FSingle'
  BY <1>1, FDone
<1>5. FTypes'
  BY <1>1, <1>3, <1>4 DEF FWritesInv, FTypes
<1>6. FUnread'
  BY <1>1 DEF FWritesInv, FUnread
<1>7. F!FormShowsRow'
  BY <1>1, <1>3 DEF FWritesInv, F!FormShowsRow
<1>8. FKept'
  <2> SUFFICES ASSUME ~F!CarriesOver, NEW r \in FormRows \ formsCrossed'
               PROVE  /\ F!UnderWay(r)' \/ FAsMeant(r)'
                      /\ \A s \in saves' : s.row = r => FMeansWell(s)'
    BY <1>1 DEF FKept, F!CarriesOver
  <2>1. r # q.row /\ r \notin formsCrossed /\ fields'[r] = fields[r]
    BY <1>1, <1>3
  <2> QED BY <1>1, <1>4, <2>1 DEF FWritesInv, FKept, F!UnderWay, FAsMeant, FMeansWell
<1> QED BY <1>4, <1>5, <1>6, <1>7, <1>8 DEF FWritesInv

\* Every step of a form keeps it.
LEMMA FWritesStep == FWritesInv /\ [F!Next]_fVars => FWritesInv'
<1> SUFFICES ASSUME FWritesInv, [F!Next]_fVars PROVE FWritesInv'
  OBVIOUS
<1>1. ASSUME NEW t \in FormRows \cup {New}, F!Open(t) PROVE FWritesInv'
  <2>1. /\ target = None /\ t \in form.targets /\ target' = t /\ draft' = None
        /\ IF t \in FormRows /\ form.reads THEN F!Fill(known[t], t) ELSE F!Apply(form.new)
        /\ old' = (t \in FormRows /\ known[t] # fields[t])
        /\ UNCHANGED <<form, fields, known, saves, saving, intended, formsCrossed>>
    BY <1>1 DEF F!Open
  <2>2. shown' \in F!Shown /\ back' \in F!Shown
    BY <2>1, FApplied DEF FWritesInv, FTypes, F!Fill
  <2>3. FTypes' /\ FSingle'
    BY <2>1, <2>2 DEF FWritesInv, FTypes, FSingle
  <2>4. FUnread'
    <3> SUFFICES ASSUME ~form.reads, form.cancelled = "blank" PROVE shown' = Asked
      BY <2>1 DEF FUnread
    <3>1. shown = Asked /\ form.new = "keep"
      BY <2>1, FAllRuled DEF FRuled, FWritesInv, FTypes, FUnread
    <3> QED BY <2>1, <3>1, FApplied DEF FWritesInv
  <2>5. F!FormShowsRow'
    BY <2>1 DEF F!FormShowsRow, F!Fill
  <2> QED BY <2>1, <2>3, <2>4, <2>5, FKeepRest DEF FWritesInv
<1>2. ASSUME NEW value \in F!Shown, F!Type(value) PROVE FWritesInv'
  <2>1. /\ target # None /\ shown' = value /\ draft' = value
        /\ UNCHANGED <<form, fields, known, target, back, saves, saving, intended, formsCrossed, old>>
    BY <1>2 DEF F!Type
  <2>2. draft' # None
    BY <2>1, FNames
  <2>3. FTypes' /\ FSingle' /\ FUnread' /\ F!FormShowsRow'
    BY <2>1, <2>2 DEF FWritesInv, FTypes, FSingle, FUnread, F!FormShowsRow
  <2> QED BY <2>1, <2>3, FKeepRest DEF FWritesInv
<1>3. ASSUME F!Cancel PROVE FWritesInv'
  <2>1. /\ target' = None /\ F!Apply(form.cancelled) /\ draft' = None
        /\ saving' = IF form.remounts THEN None ELSE saving
        /\ UNCHANGED <<form, fields, known, saves, intended, formsCrossed, old>>
    BY <1>3 DEF F!Cancel
  <2>2. shown' \in F!Shown /\ back' \in F!Shown /\ (form.cancelled = "blank" => shown' = Asked)
    BY <2>1, FApplied DEF FWritesInv
  <2>3. FTypes' /\ FSingle' /\ FUnread'
    BY <2>1, <2>2 DEF FWritesInv, FTypes, FSingle, FUnread
  <2>4. F!FormShowsRow'
    BY <2>1, FNames DEF F!FormShowsRow
  <2> QED BY <2>1, <2>3, <2>4, FKeepRest DEF FWritesInv
<1>4. ASSUME F!Refetch PROVE FWritesInv'
  <2>1. known' = fields /\ UNCHANGED <<form, fields, target, saves, saving, intended, formsCrossed>>
    BY <1>4 DEF F!Refetch
  <2>2. \/ /\ target \in FormRows /\ form.live \in {"refill", "untouched"}
           /\ shown' = fields[target] /\ back' = fields[target]
           /\ draft' = None /\ old' = FALSE
        \/ UNCHANGED <<shown, back, draft, old>>
    BY <1>4 DEF F!Refetch, F!Fill, F!Keep
  <2>3. FTypes' /\ FSingle'
    BY <2>1, <2>2, FNames DEF FWritesInv, FTypes, FSingle
  <2>4. FUnread'
    BY <2>1, <2>2, FAllRuled DEF FRuled, FWritesInv, FTypes, FUnread
  <2>5. F!FormShowsRow'
    BY <2>1, <2>2 DEF FWritesInv, F!FormShowsRow
  <2> QED BY <2>1, <2>3, <2>4, <2>5, FKeepRest DEF FWritesInv
<1>5. ASSUME F!Refill PROVE FWritesInv'
  <2>1. /\ target \in FormRows /\ form.live = "refill" /\ shown' = known[target] /\ back' = known[target]
        /\ draft' = None /\ old' = (known[target] # fields[target])
        /\ UNCHANGED <<form, fields, known, target, saves, saving, intended, formsCrossed>>
    BY <1>5 DEF F!Refill, F!Fill
  <2>2. FTypes' /\ FSingle'
    BY <2>1, FNames DEF FWritesInv, FTypes, FSingle
  <2>3. FUnread'
    BY <2>1, FAllRuled DEF FRuled, FWritesInv, FTypes, FUnread
  <2>4. F!FormShowsRow'
    BY <2>1 DEF F!FormShowsRow
  <2> QED BY <2>1, <2>2, <2>3, <2>4, FKeepRest DEF FWritesInv
<1>6. ASSUME NEW r \in FormRows, NEW value \in FormValues, F!Elsewhere(r, value) PROVE FWritesInv'
  <2>1. /\ fields' = [fields EXCEPT ![r] = value] /\ intended' = [intended EXCEPT ![r] = value]
        /\ formsCrossed' = IF F!UnderWay(r) THEN formsCrossed \cup {r} ELSE formsCrossed
        /\ old' = (old \/ target = r)
        /\ UNCHANGED <<form, known, target, shown, back, saves, saving, draft>>
    BY <1>6 DEF F!Elsewhere
  <2>2. FTypes'
    BY <2>1 DEF FWritesInv, FTypes, F!Shown
  <2>3. FSingle' /\ FUnread'
    BY <2>1 DEF FWritesInv, FSingle, FUnread
  <2>4. \A s \in FormRows : /\ fields'[s] = IF s = r THEN value ELSE fields[s]
                            /\ intended'[s] = IF s = r THEN value ELSE intended[s]
    BY <2>1 DEF FWritesInv, FTypes
  <2>5. F!FormShowsRow'
    BY <2>1, <2>4 DEF FWritesInv, F!FormShowsRow
  <2>6. FKept'
    <3> SUFFICES ASSUME ~F!CarriesOver, NEW s \in FormRows \ formsCrossed'
                 PROVE  /\ F!UnderWay(s)' \/ FAsMeant(s)'
                        /\ \A q \in saves : q.row = s => FMeansWell(q)'
      BY <2>1 DEF FKept, F!CarriesOver
    <3>1. CASE s # r
      BY <2>1, <2>4, <3>1 DEF FWritesInv, FKept, F!UnderWay, FAsMeant, FMeansWell
    <3>2. CASE s = r
      <4>1. \A q \in saves : q.row # s
        BY <2>1, <3>2 DEF F!UnderWay
      <4>2. FAsMeant(s)'
        BY <2>4, <3>2 DEF FAsMeant
      <4> QED BY <4>1, <4>2
    <3> QED BY <3>1, <3>2
  <2> QED BY <2>2, <2>3, <2>5, <2>6 DEF FWritesInv
<1>7. ASSUME UNCHANGED fVars PROVE FWritesInv'
  BY <1>7 DEF fVars, FWritesInv, FTypes, FSingle, FUnread, F!FormShowsRow, FKept,
    F!CarriesOver, F!UnderWay,
       FAsMeant, FMeansWell
<1> QED BY <1>1, <1>2, <1>3, <1>4, <1>5, <1>6, <1>7, FSubmitted, FAnswered, FFailed DEF F!Next

-----------------------------------------------------------------------------
(* What a form shows *)

\* What is left of the types.
FRest ==
    /\ formsCrossed \subseteq FormRows /\ source \in FormRows \cup {New, None}
    /\ old \in BOOLEAN /\ early \in BOOLEAN /\ made \in Nat

\* Its next target is filled from its row, or the last one was the same or left
\* nothing.
FOwn ==
    form.saved # "back" /\ ~F!CarriesOver =>
        \A t \in form.targets :
            target \in {None, t} =>
                source \in {None, t} \/ (target = None /\ t \in FormRows /\ form.reads)

\* What every step of a form keeps.
FShownInv == FWritesInv /\ FRest /\ FOwn /\ F!DraftStays

\* It is enough for the types, and for what the forms show.
LEMMA FTyped == FShownInv => F!TypeOK
BY DEF FShownInv, FRest, FWritesInv, FTypes, F!TypeOK

\* What is shown is of the row the form is open for, and what was typed is still there.
LEMMA FShown == FShownInv => F!FormShowsRow /\ F!FormIsOfTarget /\ F!DraftStays
BY DEF FShownInv, FWritesInv, FTypes, FOwn, F!FormIsOfTarget

\* It holds at first.
LEMMA FShownInitial == F!Init => FShownInv
<1> SUFFICES ASSUME F!Init PROVE FShownInv
  OBVIOUS
<1>1. FWritesInv
  BY FWritesInitial
<1> QED BY <1>1 DEF F!Init, FShownInv, FRest, FOwn, F!DraftStays

\* A form has one target, reads what it is opened for, or is blanked when it is left.
FLeft(f) ==
    \/ f.targets = {New}
    \/ f.reads /\ f.targets \subseteq FormRows
    \/ /\ f.cancelled \in {"left", "blank"} /\ f.saved \in {"left", "blank"}
       /\ f.reads \/ (f.cancelled = "blank" /\ f.saved = "blank")
    \/ f.saved = "back"
    \/ ~f.reads /\ f.cancelled # "blank"

\* The one row is a row.
LEMMA FOneRow == F!OneRow \subseteq FormRows
BY ScreensAssumption DEF F!OneRow

\* Every form of the frontend is so.
LEMMA FAllLeft == \A f \in F!Forms : FLeft(f)
<1>0. F!OneRow \subseteq FormRows
  BY FOneRow
<1> USE DEF FLeft
<1>1. \A f \in {F!CreateCourseDialog, F!CreatePeriodDialog, F!CreateSchoolYearDialog, F!CreateUserDialog,
     F!CreateStudentDialog, F!CreateInstitution, F!InvitationsTab, F!AssignSubjectDialog, F!CoursesCard,
     F!ResetPasswordDialog, F!ChangePassword} : FLeft(f)
  BY DEF F!CreateCourseDialog, F!CreatePeriodDialog, F!CreateSchoolYearDialog,
    F!CreateUserDialog,
     F!CreateStudentDialog, F!CreateInstitution, F!InvitationsTab, F!AssignSubjectDialog, F!CoursesCard,
     F!ResetPasswordDialog, F!ChangePassword, F!Dialog
<1>2. \A f \in {F!LeaveDialog, F!LeaveActions, F!StatusCard,
     F!CreateGradeDialog, F!OverrideDialog, F!CourseSubjectsCard, F!NewMessageDialog} : FLeft(f)
  BY DEF F!LeaveDialog, F!LeaveActions, F!StatusCard, F!CreateGradeDialog, F!OverrideDialog,
     F!CourseSubjectsCard, F!NewMessageDialog, F!Dialog
<1>3. \A f \in {F!HistoryTab, F!AddParticipantsDialog, F!MessageInput} : FLeft(f)
  BY DEF F!HistoryTab, F!AddParticipantsDialog, F!MessageInput, F!Dialog
<1>4. \A f \in {F!RoleCard, F!LevelRolesDialog, F!AddIndicator} : FLeft(f)
  BY DEF F!RoleCard, F!LevelRolesDialog, F!AddIndicator, F!Dialog
<1>5. \A f \in {F!SubjectDialog, F!EducationLevelDialog, F!LevelGradeDialog, F!AnnouncementsPage,
     F!ConvivenciasPage, F!EditIndicator} : FLeft(f)
  <2>a. \A f \in {F!RowDialog, F!SubjectDialog} :
          f.reads /\ f.cancelled = "left" /\ f.saved = "left"
    BY DEF F!SubjectDialog, F!RowDialog, F!Dialog
  <2>b. ASSUME NEW f \in {F!RowDialog, F!SubjectDialog} PROVE FLeft(f)
    <3> HIDE DEF FLeft
    <3>0. f.reads /\ f.cancelled = "left" /\ f.saved = "left"
      BY <2>a, Zenon
    <3>1. f.cancelled \in {"left", "blank"} /\ f.saved \in {"left", "blank"}
      BY <3>0
    <3> QED BY <3>0, <3>1, SMT DEF FLeft
  <2>1. FLeft(F!SubjectDialog) /\ FLeft(F!EducationLevelDialog) /\ FLeft(F!LevelGradeDialog)
    BY <2>b, Zenon DEF F!EducationLevelDialog, F!LevelGradeDialog
  <2> USE DEF F!RowDialog, F!Dialog
  <2>2. FLeft(F!EditIndicator)
    BY DEF F!EditIndicator
  <2>3. FLeft(F!AnnouncementsPage) /\ FLeft(F!ConvivenciasPage)
    BY DEF F!AnnouncementsPage, F!ConvivenciasPage
  <2> HIDE DEF FLeft
  <2> QED BY <2>1, <2>2, <2>3
<1>6. \A f \in {F!CreateSpaceButton, F!CreateReservation, F!CreateSportButton, F!CreateSportGroupButton,
     F!SpacesTable, F!SportsTable, F!SportGroupsTable, F!PlanDialog, F!ReservationCard,
     F!ThresholdsConfig} : FLeft(f)
  <2> USE <1>0 DEF F!CreateSpaceButton, F!Dialog
  <2>1. FLeft(F!CreateSpaceButton) /\ FLeft(F!CreateReservation) /\ FLeft(F!CreateSportButton)
    BY DEF F!CreateReservation, F!CreateSportButton
  <2>2. FLeft(F!CreateSportGroupButton) /\ FLeft(F!SpacesTable) /\ FLeft(F!SportsTable)
    BY DEF F!CreateSportGroupButton, F!CreateSportButton, F!SpacesTable, F!SportsTable
  <2>3. FLeft(F!SportGroupsTable) /\ FLeft(F!PlanDialog)
    BY DEF F!SportGroupsTable, F!PlanDialog, F!SportsTable, F!SpacesTable
  <2>4. FLeft(F!ReservationCard) /\ FLeft(F!ThresholdsConfig)
    BY DEF F!ReservationCard, F!ThresholdsConfig, F!CreateReservation
  <2> HIDE DEF FLeft
  <2> QED BY <2>1, <2>2, <2>3, <2>4
<1>7. \A f \in {F!ReportSettingsTab, F!AbsenceSettingsTab, F!GeneralTab, F!PendingSubjectsTab,
     F!PersonalInfoCard, F!ReportsSettingsTab} : FLeft(f)
  <2> USE <1>0 DEF F!SettingsTab, F!SpacesTable, F!CreateSpaceButton, F!Dialog
  <2>1. FLeft(F!SettingsTab)
    OBVIOUS
  <2>2. FLeft(F!GeneralTab)
    BY DEF F!GeneralTab
  <2>3. FLeft(F!PendingSubjectsTab)
    BY DEF F!PendingSubjectsTab
  <2>4. FLeft(F!PersonalInfoCard)
    BY DEF F!PersonalInfoCard, F!GeneralTab
  <2>5. FLeft(F!ReportsSettingsTab)
    BY DEF F!ReportsSettingsTab
  <2> HIDE DEF FLeft, F!SettingsTab
  <2> QED BY <2>1, <2>2, <2>3, <2>4, <2>5 DEF F!ReportSettingsTab, F!AbsenceSettingsTab
<1> HIDE DEF FLeft
<1> QED BY <1>1, <1>2, <1>3, <1>4, <1>5, <1>6, <1>7 DEF F!Forms

\* A rule leaves the source or forgets it.
LEMMA FSources ==
    ASSUME NEW rule, F!Apply(rule)
    PROVE  /\ source' \in {source, None}
           /\ rule = "blank" => source' = None
           /\ rule = "left" /\ target \in FormRows => source' = None
BY DEF F!Apply, F!Keep, F!Clear, F!Fill, F!GoBack

\* Closing it by the rule for that keeps whose value it holds.
LEMMA FCloses ==
    ASSUME FShownInv, NEW rule \in {form.cancelled, form.saved}, F!Apply(rule), form' = form,
           target' = None \/ target' = target
    PROVE  FOwn'
<1> SUFFICES ASSUME form.saved # "back", ~F!CarriesOver, NEW t \in form.targets, target' \in {None, t}
             PROVE  source' \in {None, t} \/ (target' = None /\ t \in FormRows /\ form.reads)
  BY DEF FOwn, F!CarriesOver
<1>1. /\ source' \in {source, None}
      /\ rule = "blank" => source' = None
      /\ rule = "left" /\ target \in FormRows => source' = None
  BY FSources
<1>2. form.targets \subseteq FormRows \cup {New} /\ New \notin FormRows /\ FLeft(form)
      /\ target \in form.targets \cup {None}
  BY FAllRuled, FAllLeft, FOneRow, FNames DEF FRuled, FShownInv, FWritesInv, FTypes
<1>3. CASE target \in {None, t}
  BY <1>1, <1>3 DEF FShownInv, FOwn
<1>4. CASE target \notin {None, t}
  <2>1. target \in form.targets /\ target' = None /\ source \in {None, target}
    BY <1>2, <1>4 DEF FShownInv, FOwn
  <2> QED BY <1>1, <1>2, <1>4, <2>1 DEF FLeft, F!CarriesOver
<1> QED BY <1>3, <1>4

\* Every step of a form keeps it.
LEMMA FShownStep == FShownInv /\ [F!Next]_fVars => FShownInv'
<1> SUFFICES ASSUME FShownInv, [F!Next]_fVars PROVE FShownInv'
  OBVIOUS
<1>0. FWritesInv'
  BY FWritesStep DEF FShownInv
<1>b. None \notin FormRows \cup {New} /\ New \notin FormRows
  BY ScreensAssumption
<1>c. form \in F!Forms /\ target \in form.targets \cup {None} /\ (target = None => draft = None)
  BY DEF FShownInv, FWritesInv, FTypes
<1>d. form.targets \subseteq FormRows \cup {New}
  BY <1>c, FAllRuled, FOneRow DEF FRuled
<1>a. form.targets \subseteq FormRows \cup {New} /\ target \in form.targets \cup {None}
      /\ None \notin FormRows \cup {New} /\ New \notin FormRows
      /\ (target = None => draft = None)
  BY <1>b, <1>c, <1>d
<1> SUFFICES FRest' /\ FOwn' /\ F!DraftStays'
  BY <1>0 DEF FShownInv
<1>1. ASSUME NEW t \in FormRows \cup {New}, F!Open(t) PROVE FRest' /\ FOwn' /\ F!DraftStays'
  <2>1. /\ target = None /\ t \in form.targets /\ target' = t /\ draft' = None
        /\ IF t \in FormRows /\ form.reads THEN F!Fill(known[t], t) ELSE F!Apply(form.new)
        /\ old' = (t \in FormRows /\ known[t] # fields[t])
        /\ early' = (saves # {}) /\ made' = 0
        /\ UNCHANGED <<form, formsCrossed>>
    BY <1>1 DEF F!Open
  <2>2. IF t \in FormRows /\ form.reads THEN source' = t ELSE source' \in {source, None}
    BY <2>1, FSources DEF F!Fill
  <2>3. old' \in BOOLEAN
    BY <2>1, Zenon
  <2>4. early' \in BOOLEAN
    BY <2>1, Zenon
  <2>5. FRest'
    BY <2>1, <2>2, <2>3, <2>4 DEF FShownInv, FRest
  <2>6. FOwn'
    BY <1>a, <2>1, <2>2 DEF FShownInv, FOwn, F!CarriesOver
  <2> QED BY <2>1, <2>5, <2>6 DEF F!DraftStays
<1>2. ASSUME NEW value \in F!Shown, F!Type(value) PROVE FRest' /\ FOwn' /\ F!DraftStays'
  <2>1. /\ target # None /\ shown' = value /\ draft' = value /\ source' = target
        /\ early' = (saves # {}) /\ made' = 0
        /\ UNCHANGED <<form, target, formsCrossed, old>>
    BY <1>2 DEF F!Type
  <2>2. early' \in BOOLEAN
    BY <2>1, Zenon
  <2>3. FRest'
    BY <1>a, <2>1, <2>2 DEF FShownInv, FRest
  <2> QED BY <1>a, <2>1, <2>3 DEF FOwn, F!CarriesOver, F!DraftStays
<1>3. ASSUME F!Submit PROVE FRest' /\ FOwn' /\ F!DraftStays'
  <2>1. /\ formsCrossed' \subseteq formsCrossed \cup {target} /\ (target \in FormRows \/ formsCrossed' = formsCrossed)
        /\ UNCHANGED <<form, target, shown, old, source, draft, early, made>>
    BY <1>3 DEF F!Submit
  <2> QED BY <2>1 DEF FShownInv, FRest, FOwn, F!CarriesOver, F!DraftStays
<1>4. ASSUME F!Cancel PROVE FRest' /\ FOwn' /\ F!DraftStays'
  <2>1. /\ target' = None /\ draft' = None /\ F!Apply(form.cancelled)
        /\ UNCHANGED <<form, formsCrossed, old, early, made>>
    BY <1>4 DEF F!Cancel
  <2>2. source' \in {source, None}
    BY <2>1, FSources
  <2> QED BY <2>1, <2>2, FCloses DEF FShownInv, FRest, F!DraftStays
<1>5. ASSUME F!Refetch PROVE FRest' /\ FOwn' /\ F!DraftStays'
  <2>1. /\ UNCHANGED <<form, target, formsCrossed, early, made>>
        /\ \/ source' = target /\ target \in FormRows /\ draft' = None /\ old' = FALSE
           \/ UNCHANGED <<shown, source, draft, old>>
    BY <1>5 DEF F!Refetch, F!Fill, F!Keep
  <2> QED BY <1>a, <2>1 DEF FShownInv, FRest, FOwn, F!CarriesOver, F!DraftStays
<1>6. ASSUME F!Refill PROVE FRest' /\ FOwn' /\ F!DraftStays'
  <2>1. /\ UNCHANGED <<form, target, formsCrossed, early, made>>
        /\ source' = target /\ target \in FormRows /\ draft' = None
        /\ old' = (known[target] # fields[target])
    BY <1>6 DEF F!Refill, F!Fill
  <2>2. old' \in BOOLEAN
    BY <2>1, Zenon
  <2> QED BY <1>a, <2>1, <2>2 DEF FShownInv, FRest, FOwn, F!CarriesOver, F!DraftStays
<1>7. ASSUME NEW q \in saves, F!Answer(q) PROVE FRest' /\ FOwn' /\ F!DraftStays'
  <2>1. /\ IF F!Called(q)
           THEN /\ target' = IF form.stays THEN target ELSE None
                /\ F!Apply(form.saved)
                /\ draft' = IF early /\ form.stays THEN draft ELSE None
           ELSE F!Keep /\ UNCHANGED <<target, draft>>
        /\ old' = (old \/ (target = q.row /\ shown # q.value))
        /\ made' = IF q.row = New /\ ~early THEN made + 1 ELSE made
        /\ UNCHANGED <<form, formsCrossed, early>>
    BY <1>7 DEF F!Answer
  <2>2. old' \in BOOLEAN
    BY <2>1, Zenon
  <2>3. source' \in {source, None}
    BY <2>1, FSources DEF F!Keep
  <2>4. FRest'
    BY <2>1, <2>2, <2>3 DEF FShownInv, FRest
  <2>5. FOwn'
    <3>1. CASE F!Called(q)
      BY <2>1, <3>1, FCloses
    <3>2. CASE ~F!Called(q)
      BY <2>1, <3>2 DEF FShownInv, FOwn, F!CarriesOver, F!Keep
    <3> QED BY <3>1, <3>2
  <2>6. F!DraftStays'
    BY <1>a, <2>1 DEF FShownInv, F!DraftStays, F!Keep
  <2> QED BY <2>4, <2>5, <2>6
<1>8. ASSUME NEW q \in saves, F!Fail(q) PROVE FRest' /\ FOwn' /\ F!DraftStays'
  <2>1. /\ old' = (old \/ target = q.row)
        /\ formsCrossed' = IF q.row \in FormRows THEN formsCrossed \cup {q.row} ELSE formsCrossed
        /\ UNCHANGED <<form, target, shown, source, draft, early, made>>
    BY <1>8 DEF F!Fail
  <2>2. old' \in BOOLEAN
    BY <2>1, Zenon
  <2> QED BY <2>1, <2>2 DEF FShownInv, FRest, FOwn, F!CarriesOver, F!DraftStays
<1>9. ASSUME NEW r \in FormRows, NEW value \in FormValues, F!Elsewhere(r, value)
      PROVE FRest' /\ FOwn' /\ F!DraftStays'
  <2>1. /\ old' = (old \/ target = r)
        /\ formsCrossed' = IF F!UnderWay(r) THEN formsCrossed \cup {r} ELSE formsCrossed
        /\ UNCHANGED <<form, target, shown, source, draft, early, made>>
    BY <1>9 DEF F!Elsewhere
  <2>2. old' \in BOOLEAN
    BY <2>1, Zenon
  <2> QED BY <2>1, <2>2 DEF FShownInv, FRest, FOwn, F!CarriesOver, F!DraftStays
<1>10. ASSUME UNCHANGED fVars PROVE FRest' /\ FOwn' /\ F!DraftStays'
  BY <1>10 DEF fVars, FShownInv, FRest, FOwn, F!CarriesOver, F!DraftStays
<1> QED BY <1>1, <1>2, <1>3, <1>4, <1>5, <1>6, <1>7, <1>8, <1>9, <1>10 DEF F!Next

-----------------------------------------------------------------------------
(* The answers that are kept: what the mutations say of them *)

\* An answer that shows a table of those that a mutation writes.
QReads(m, q) == q.shows \cap m.writes # {}

\* A mutation that makes an answer old.
QRefreshes(m, q) == \E k \in m.invalidates : Q!IsPrefix(k, q.key)

\* It does so, or is known to miss it.
QFollows(m, q) == <<m, q>> \in Q!Missed \/ QRefreshes(m, q)

\* The answers that show a table, but for the summaries.
QOf(t) == {q \in Q!Queries \ Q!Summaries : t \in q.shows}

\* What a mutation writes is followed by every answer that shows it, but for the
\* summaries, of which no key of it is the beginning.
QFollowed(m) == \A q \in Q!Queries \ Q!Summaries : QReads(m, q) => QFollows(m, q)
QElsewhere(m) == \A q \in Q!Summaries : ~QRefreshes(m, q)

\* The mutations, of those that are alike one.
QMutations == {Q!useCreateAnnouncement, Q!usePublishAnnouncement, Q!useBulkAttendance, Q!HistoryTab,
               Q!ThresholdsConfig, Q!useBulkSportAttendance, Q!useCreateSchoolYear,
               Q!useCreatePeriod, Q!useCreateCourse, Q!useEnrollStudent, Q!useAssignSubject,
               Q!useCreateEducationLevel, Q!useCreateLevelGrade, Q!useCreateGrade, Q!useLinkStudent,
               Q!useCreateIndicator, Q!SaveEvaluations, Q!SaveObservations, Q!useUpdateInstitution,
               Q!LogoUpload, Q!useCreateInvitation, Q!useUpdatePlan, Q!useCreateInstitution,
               Q!useMarkAsRead, Q!useCreatePendingSubject, Q!useUpdatePendingStatus,
               Q!useDeletePendingSubject, Q!useExecutePromotion, Q!useCreatePromotionOverride,
               Q!useSaveReportSettings, Q!useCreateSpace, Q!useCreateSpaceReservation,
               Q!useCreateSport, Q!useCreateSportGroup, Q!useAddStudentsToGroup,
               Q!useAssignStudentSubject, Q!useCreateStudent, Q!useCreateSubject, Q!useCreateUser,
               Q!useGrantLeave, Q!useToggleUserStatus, Q!AvatarCard, Q!handleAvatarUpload,
               Q!CreateConvivencia, Q!UpdateConvivencia, Q!SyllabusPage, Q!UpdateUnit,
               Q!useCreateRoom, Q!useMarkRead, Q!useSendMessage, Q!AddParticipants}

\* A key of one word stands for those that begin with it.
LEMMA QKeys1 ==
    /\ \A a, e : Q!IsPrefix(<<a>>, <<e>>) <=> a = e
    /\ \A a, e, f : Q!IsPrefix(<<a>>, <<e, f>>) <=> a = e
    /\ \A a, e, f, g : Q!IsPrefix(<<a>>, <<e, f, g>>) <=> a = e
    /\ \A a, e, f, g, h : Q!IsPrefix(<<a>>, <<e, f, g, h>>) <=> a = e
BY DEF Q!IsPrefix

\* A key of two words stands for those that begin with them.
LEMMA QKeys2 ==
    /\ \A a, b, e : Q!IsPrefix(<<a, b>>, <<e>>) <=> FALSE
    /\ \A a, b, e, f : Q!IsPrefix(<<a, b>>, <<e, f>>) <=> a = e /\ b = f
    /\ \A a, b, e, f, g : Q!IsPrefix(<<a, b>>, <<e, f, g>>) <=> a = e /\ b = f
    /\ \A a, b, e, f, g, h : Q!IsPrefix(<<a, b>>, <<e, f, g, h>>) <=> a = e /\ b = f
BY DEF Q!IsPrefix

\* A key of three words stands for those that begin with them.
LEMMA QKeys3 ==
    /\ \A a, b, c, e : Q!IsPrefix(<<a, b, c>>, <<e>>) <=> FALSE
    /\ \A a, b, c, e, f : Q!IsPrefix(<<a, b, c>>, <<e, f>>) <=> FALSE
    /\ \A a, b, c, e, f, g : Q!IsPrefix(<<a, b, c>>, <<e, f, g>>) <=> a = e /\ b = f /\ c = g
    /\ \A a, b, c, e, f, g, h : Q!IsPrefix(<<a, b, c>>, <<e, f, g, h>>) <=> a = e /\ b = f /\ c = g
BY DEF Q!IsPrefix

\* Every mutation is one of these.
LEMMA QAlike == Q!Mutations \subseteq QMutations
BY DEF Q!Mutations, QMutations, Q!useDeleteAnnouncement, Q!useUpdateAnnouncement,
       Q!useRemoveSubject, Q!useUpdateEducationLevel, Q!useDeleteEducationLevel,
       Q!useUpdateLevelGrade, Q!useDeleteLevelGrade, Q!useReorderLevelGrades, Q!useDeleteGrade,
       Q!BulkGradesEntry, Q!useUnlinkStudent, Q!useUpdateIndicator, Q!useDeleteIndicator,
       Q!useRevokeInvitation, Q!useMarkAllAsRead, Q!useUpdatePendingProgress, Q!useUpdateSpace,
       Q!useToggleSpaceAvailability, Q!useDeleteSpace, Q!useUpdateSpaceReservation,
       Q!useUpdateReservationStatus, Q!useCancelReservation, Q!useUpdateSport, Q!useDeleteSport,
       Q!useUpdateSportGroup, Q!useDeleteSportGroup, Q!useRemoveStudentFromGroup,
       Q!useRemoveSubjectAssignment, Q!useDeleteStudent, Q!useUpdateSubject, Q!useDeleteSubject,
       Q!useAddLevelRole, Q!useRemoveLevelRole, Q!useRevokeLeave, Q!useUpdateUser,
       Q!DeleteConvivencia

\* Every mutation is followed by the answers that show what it writes, or known to
\* miss them: table by table who shows it, and then one mutation after the other.
LEMMA QAllFollowed == \A m \in QMutations : QFollowed(m)
<1> USE DEF QOf, Q!Query, Q!Queries, Q!useAnnouncements, Q!useAttendance, Q!AttendanceDetailPage,
            Q!RecordsTab, Q!useCourses, Q!useCourseDetail, Q!useSchoolYears, Q!usePeriods,
            Q!useEducationLevels, Q!useLevelGrades, Q!useGrades, Q!useGuardianStudents,
            Q!useSearchStudents, Q!useIndicators, Q!EvaluationsGrid, Q!Observations,
            Q!useInvitations, Q!useAllInstitutions, Q!useInstitutionName, Q!useInstitutionLogo,
            Q!useReportSettings, Q!useNotifications, Q!useUnreadCount, Q!useEligibleSubjects,
            Q!PendingPage, Q!usePromotionResults, Q!usePromotionStatistics,
            Q!useStudentPromotionHistory, Q!useSpaces, Q!useSpaceReservations, Q!useSports,
            Q!useSportGroups, Q!useSportGroup, Q!useStudentSubjects, Q!useStudents, Q!useStudent,
            Q!useSubjects, Q!useUsers, Q!useUser, Q!ProfilePage, Q!Avatar, Q!Convivencias,
            Q!ConvivenciaStats, Q!useSyllabuses, Q!useChatRooms, Q!useChatRoom,
            Q!useChatUnreadCount, Q!Participants, Q!useChatMessages
<1>1. QOf("AbsenceRecord") \subseteq {Q!RecordsTab}
  OBVIOUS
<1>2. QOf("Announcement") \subseteq {Q!useAnnouncements}
  OBVIOUS
<1>3. QOf("Attendance") \subseteq {Q!useAttendance, Q!AttendanceDetailPage}
  OBVIOUS
<1>4. QOf("Avatar") \subseteq {Q!ProfilePage, Q!Avatar}
  OBVIOUS
<1>5. QOf("Convivencia") \subseteq {Q!Convivencias, Q!ConvivenciaStats}
  OBVIOUS
<1>6. QOf("Course") \subseteq {Q!useCourses, Q!useCourseDetail}
  OBVIOUS
<1>7. QOf("CourseStudent") \subseteq {Q!useCourses, Q!useCourseDetail, Q!useGuardianStudents,
        Q!useStudentSubjects, Q!useStudents, Q!useStudent}
  OBVIOUS
<1>8. QOf("CourseSubject") \subseteq {Q!useCourses, Q!useCourseDetail, Q!useStudentSubjects,
        Q!useStudent, Q!useSubjects}
  OBVIOUS
<1>9. QOf("EducationLevel") \subseteq {Q!useEducationLevels, Q!useLevelGrades}
  OBVIOUS
<1>10. QOf("Eligible") \subseteq {Q!useEligibleSubjects}
  OBVIOUS
<1>11. QOf("Evaluation") \subseteq {Q!EvaluationsGrid}
  OBVIOUS
<1>12. QOf("Grade") \subseteq {Q!useGrades, Q!useStudent}
  OBVIOUS
<1>13. QOf("Guardian") \subseteq {Q!useGuardianStudents, Q!useStudents, Q!useStudent}
  OBVIOUS
<1>14. QOf("Indicator") \subseteq {Q!useIndicators, Q!EvaluationsGrid}
  OBVIOUS
<1>15. QOf("Institution") \subseteq {Q!useInstitutionName}
  OBVIOUS
<1>16. QOf("Invitation") \subseteq {Q!useInvitations}
  OBVIOUS
<1>17. QOf("LevelGrade") \subseteq {Q!useEducationLevels, Q!useLevelGrades}
  OBVIOUS
<1>18. QOf("Logo") \subseteq {Q!useInstitutionLogo}
  OBVIOUS
<1>19. QOf("Member") \subseteq {Q!useChatRooms, Q!useChatRoom, Q!Participants}
  OBVIOUS
<1>20. QOf("Message") \subseteq {Q!useChatMessages}
  OBVIOUS
<1>21. QOf("Notification") \subseteq {Q!useNotifications, Q!useUnreadCount}
  OBVIOUS
<1>22. QOf("Observation") \subseteq {Q!Observations}
  OBVIOUS
<1>23. QOf("PendingSubject") \subseteq {Q!PendingPage}
  OBVIOUS
<1>24. QOf("Period") \subseteq {Q!usePeriods}
  OBVIOUS
<1>25. QOf("Plan") \subseteq {Q!useAllInstitutions}
  OBVIOUS
<1>26. QOf("PromotionResult") \subseteq {Q!usePromotionResults, Q!usePromotionStatistics,
        Q!useStudentPromotionHistory}
  OBVIOUS
<1>27. QOf("Publication") \subseteq {}
  OBVIOUS
<1>28. QOf("Receipt") \subseteq {Q!useChatUnreadCount, Q!useChatMessages}
  OBVIOUS
<1>29. QOf("ReportSettings") \subseteq {Q!useReportSettings}
  OBVIOUS
<1>30. QOf("Room") \subseteq {Q!useChatRooms, Q!useChatRoom}
  OBVIOUS
<1>31. QOf("SchoolYear") \subseteq {Q!useSchoolYears}
  OBVIOUS
<1>32. QOf("Space") \subseteq {Q!useSpaces}
  OBVIOUS
<1>33. QOf("SpaceReservation") \subseteq {Q!useSpaceReservations}
  OBVIOUS
<1>34. QOf("Sport") \subseteq {Q!useSports}
  OBVIOUS
<1>35. QOf("SportGroup") \subseteq {Q!useSports, Q!useSportGroups, Q!useSportGroup}
  OBVIOUS
<1>36. QOf("SportGroupStudent") \subseteq {Q!useSportGroups, Q!useSportGroup}
  OBVIOUS
<1>37. QOf("Student") \subseteq {Q!useSearchStudents, Q!useStudents, Q!useStudent}
  OBVIOUS
<1>38. QOf("StudentCourseSubject") \subseteq {Q!useStudentSubjects}
  OBVIOUS
<1>39. QOf("Subject") \subseteq {Q!useSubjects}
  OBVIOUS
<1>40. QOf("Syllabus") \subseteq {Q!useSyllabuses}
  OBVIOUS
<1>41. QOf("Thresholds") \subseteq {}
  OBVIOUS
<1>42. QOf("User") \subseteq {Q!useUsers, Q!useUser, Q!ProfilePage}
  OBVIOUS
<1>43. QOf("UserLevelRole") \subseteq {Q!useUsers, Q!useUser, Q!ProfilePage}
  OBVIOUS
<1> HIDE DEF QOf, Q!Query, Q!Queries, Q!useAnnouncements, Q!useAttendance, Q!AttendanceDetailPage,
            Q!RecordsTab, Q!useCourses, Q!useCourseDetail, Q!useSchoolYears, Q!usePeriods,
            Q!useEducationLevels, Q!useLevelGrades, Q!useGrades, Q!useGuardianStudents,
            Q!useSearchStudents, Q!useIndicators, Q!EvaluationsGrid, Q!Observations,
            Q!useInvitations, Q!useAllInstitutions, Q!useInstitutionName, Q!useInstitutionLogo,
            Q!useReportSettings, Q!useNotifications, Q!useUnreadCount, Q!useEligibleSubjects,
            Q!PendingPage, Q!usePromotionResults, Q!usePromotionStatistics,
            Q!useStudentPromotionHistory, Q!useSpaces, Q!useSpaceReservations, Q!useSports,
            Q!useSportGroups, Q!useSportGroup, Q!useStudentSubjects, Q!useStudents, Q!useStudent,
            Q!useSubjects, Q!useUsers, Q!useUser, Q!ProfilePage, Q!Avatar, Q!Convivencias,
            Q!ConvivenciaStats, Q!useSyllabuses, Q!useChatRooms, Q!useChatRoom,
            Q!useChatUnreadCount, Q!Participants, Q!useChatMessages
<1>44. QFollowed(Q!useCreateAnnouncement)
  <2>1. QRefreshes(Q!useCreateAnnouncement, Q!useAnnouncements)
    BY QKeys1 DEF QRefreshes, Q!Query, Q!Mutation, Q!useCreateAnnouncement, Q!useAnnouncements
  <2> QED BY <2>1, <1>2
         DEF QFollowed, QFollows, QReads, QOf, Q!Mutation, Q!useCreateAnnouncement
<1>45. QFollowed(Q!usePublishAnnouncement)
  <2>1. QRefreshes(Q!usePublishAnnouncement, Q!useAnnouncements)
    BY QKeys1 DEF QRefreshes, Q!Query, Q!Mutation, Q!usePublishAnnouncement, Q!useAnnouncements
  <2>2. \A q \in Q!Queries \ Q!Summaries : QReads(Q!usePublishAnnouncement, q) => q \in
          QOf("Announcement") \cup QOf("Publication")
    BY DEF QReads, QOf, Q!Mutation, Q!usePublishAnnouncement
  <2> QED BY <2>1, <2>2, <1>2, <1>27
         DEF QFollowed, QFollows
<1>46. QFollowed(Q!useBulkAttendance)
  <2>1. {Q!useBulkAttendance} \X {Q!AttendanceDetailPage, Q!RecordsTab, Q!useSchoolYears} \subseteq
          Q!Missed
    BY Zenon DEF Q!Missed, Q!Marking
  <2>2. QRefreshes(Q!useBulkAttendance, Q!useAttendance)
    BY QKeys1 DEF QRefreshes, Q!Query, Q!Mutation, Q!useBulkAttendance, Q!useAttendance
  <2>3. \A q \in Q!Queries \ Q!Summaries : QReads(Q!useBulkAttendance, q) => q \in QOf("Attendance")
          \cup QOf("AbsenceRecord") \cup QOf("SchoolYear")
    BY DEF QReads, QOf, Q!Mutation, Q!useBulkAttendance
  <2> QED BY <2>1, <2>2, <2>3, <1>3, <1>1, <1>31
         DEF QFollowed, QFollows
<1>47. QFollowed(Q!HistoryTab)
  <2>1. {Q!HistoryTab} \X {Q!AttendanceDetailPage, Q!useSchoolYears} \subseteq Q!Missed
    BY Zenon DEF Q!Missed, Q!Marking
  <2>2. QRefreshes(Q!HistoryTab, Q!useAttendance)
    BY QKeys1 DEF QRefreshes, Q!Query, Q!Mutation, Q!HistoryTab, Q!useAttendance
  <2>3. \A q \in Q!Queries \ Q!Summaries : QReads(Q!HistoryTab, q) => q \in QOf("Attendance") \cup
          QOf("SchoolYear")
    BY DEF QReads, QOf, Q!Mutation, Q!HistoryTab
  <2> QED BY <2>1, <2>2, <2>3, <1>3, <1>31
         DEF QFollowed, QFollows
<1>48. QFollowed(Q!ThresholdsConfig)
  <2> QED BY <1>41
         DEF QFollowed, QFollows, QReads, QOf, Q!Mutation, Q!ThresholdsConfig
<1>49. QFollowed(Q!useBulkSportAttendance)
  <2>1. {Q!useBulkSportAttendance} \X {Q!useAttendance, Q!AttendanceDetailPage} \subseteq Q!Missed
    BY Zenon DEF Q!Missed
  <2> QED BY <2>1, <1>3
         DEF QFollowed, QFollows, QReads, QOf, Q!Mutation, Q!useBulkSportAttendance
<1>50. QFollowed(Q!useCreateSchoolYear)
  <2>1. QRefreshes(Q!useCreateSchoolYear, Q!useSchoolYears)
    BY QKeys1 DEF QRefreshes, Q!Query, Q!Mutation, Q!useCreateSchoolYear, Q!useSchoolYears
  <2> QED BY <2>1, <1>31
         DEF QFollowed, QFollows, QReads, QOf, Q!Mutation, Q!useCreateSchoolYear
<1>51. QFollowed(Q!useCreatePeriod)
  <2>1. QRefreshes(Q!useCreatePeriod, Q!usePeriods)
    BY QKeys1 DEF QRefreshes, Q!Query, Q!Mutation, Q!useCreatePeriod, Q!usePeriods
  <2> QED BY <2>1, <1>24
         DEF QFollowed, QFollows, QReads, QOf, Q!Mutation, Q!useCreatePeriod
<1>52. QFollowed(Q!useCreateCourse)
  <2>1. /\ QRefreshes(Q!useCreateCourse, Q!useCourses)
        /\ QRefreshes(Q!useCreateCourse, Q!useCourseDetail)
    BY QKeys1 DEF QRefreshes, Q!Query, Q!Mutation, Q!useCreateCourse, Q!useCourses,
       Q!useCourseDetail
  <2> QED BY <2>1, <1>6
         DEF QFollowed, QFollows, QReads, QOf, Q!Mutation, Q!useCreateCourse
<1>53. QFollowed(Q!useEnrollStudent)
  <2>1. {Q!useEnrollStudent} \X {Q!useCourses, Q!useCourseDetail, Q!useGuardianStudents,
          Q!useStudentSubjects} \subseteq Q!Missed
    BY Zenon DEF Q!Missed, Q!Enrolling
  <2>2. /\ QRefreshes(Q!useEnrollStudent, Q!useStudents)
        /\ QRefreshes(Q!useEnrollStudent, Q!useStudent)
    BY QKeys1, QKeys2 DEF QRefreshes, Q!Query, Q!Mutation, Q!useEnrollStudent, Q!useStudents,
       Q!useStudent
  <2> QED BY <2>1, <2>2, <1>7
         DEF QFollowed, QFollows, QReads, QOf, Q!Mutation, Q!useEnrollStudent
<1>54. QFollowed(Q!useAssignSubject)
  <2>1. {Q!useAssignSubject} \X {Q!useCourses, Q!useStudentSubjects, Q!useStudent, Q!useSubjects}
          \subseteq Q!Missed
    BY Zenon DEF Q!Missed, Q!Taught
  <2>2. QRefreshes(Q!useAssignSubject, Q!useCourseDetail)
    BY QKeys2 DEF QRefreshes, Q!Query, Q!Mutation, Q!useAssignSubject, Q!useCourseDetail
  <2> QED BY <2>1, <2>2, <1>8
         DEF QFollowed, QFollows, QReads, QOf, Q!Mutation, Q!useAssignSubject
<1>55. QFollowed(Q!useCreateEducationLevel)
  <2>1. {Q!useCreateEducationLevel} \X {Q!useLevelGrades} \subseteq Q!Missed
    BY Zenon DEF Q!Missed
  <2>2. QRefreshes(Q!useCreateEducationLevel, Q!useEducationLevels)
    BY QKeys1 DEF QRefreshes, Q!Query, Q!Mutation, Q!useCreateEducationLevel, Q!useEducationLevels
  <2> QED BY <2>1, <2>2, <1>9
         DEF QFollowed, QFollows, QReads, QOf, Q!Mutation, Q!useCreateEducationLevel
<1>56. QFollowed(Q!useCreateLevelGrade)
  <2>1. {Q!useCreateLevelGrade} \X {Q!useLevelGrades} \subseteq Q!Missed
    BY Zenon DEF Q!Missed
  <2>2. QRefreshes(Q!useCreateLevelGrade, Q!useEducationLevels)
    BY QKeys1 DEF QRefreshes, Q!Query, Q!Mutation, Q!useCreateLevelGrade, Q!useEducationLevels
  <2> QED BY <2>1, <2>2, <1>17
         DEF QFollowed, QFollows, QReads, QOf, Q!Mutation, Q!useCreateLevelGrade
<1>57. QFollowed(Q!useCreateGrade)
  <2>1. {Q!useCreateGrade} \X {Q!useSchoolYears, Q!useStudent} \subseteq Q!Missed
    BY Zenon DEF Q!Missed, Q!Marking
  <2>2. QRefreshes(Q!useCreateGrade, Q!useGrades)
    BY QKeys1 DEF QRefreshes, Q!Query, Q!Mutation, Q!useCreateGrade, Q!useGrades
  <2>3. \A q \in Q!Queries \ Q!Summaries : QReads(Q!useCreateGrade, q) => q \in QOf("Grade") \cup
          QOf("SchoolYear")
    BY DEF QReads, QOf, Q!Mutation, Q!useCreateGrade
  <2> QED BY <2>1, <2>2, <2>3, <1>12, <1>31
         DEF QFollowed, QFollows
<1>58. QFollowed(Q!useLinkStudent)
  <2>1. {Q!useLinkStudent} \X {Q!useStudents, Q!useStudent} \subseteq Q!Missed
    BY Zenon DEF Q!Missed
  <2>2. QRefreshes(Q!useLinkStudent, Q!useGuardianStudents)
    BY QKeys3 DEF QRefreshes, Q!Query, Q!Mutation, Q!useLinkStudent, Q!useGuardianStudents
  <2> QED BY <2>1, <2>2, <1>13
         DEF QFollowed, QFollows, QReads, QOf, Q!Mutation, Q!useLinkStudent
<1>59. QFollowed(Q!useCreateIndicator)
  <2>1. {Q!useCreateIndicator} \X {Q!EvaluationsGrid} \subseteq Q!Missed
    BY Zenon DEF Q!Missed
  <2>2. QRefreshes(Q!useCreateIndicator, Q!useIndicators)
    BY QKeys1 DEF QRefreshes, Q!Query, Q!Mutation, Q!useCreateIndicator, Q!useIndicators
  <2> QED BY <2>1, <2>2, <1>14
         DEF QFollowed, QFollows, QReads, QOf, Q!Mutation, Q!useCreateIndicator
<1>60. QFollowed(Q!SaveEvaluations)
  <2>1. QRefreshes(Q!SaveEvaluations, Q!EvaluationsGrid)
    BY QKeys1 DEF QRefreshes, Q!Query, Q!Mutation, Q!SaveEvaluations, Q!EvaluationsGrid
  <2> QED BY <2>1, <1>11
         DEF QFollowed, QFollows, QReads, QOf, Q!Mutation, Q!SaveEvaluations
<1>61. QFollowed(Q!SaveObservations)
  <2>1. QRefreshes(Q!SaveObservations, Q!Observations)
    BY QKeys1 DEF QRefreshes, Q!Query, Q!Mutation, Q!SaveObservations, Q!Observations
  <2> QED BY <2>1, <1>22
         DEF QFollowed, QFollows, QReads, QOf, Q!Mutation, Q!SaveObservations
<1>62. QFollowed(Q!useUpdateInstitution)
  <2>1. {Q!useUpdateInstitution} \X {Q!useInstitutionName, Q!useReportSettings} \subseteq Q!Missed
    BY Zenon DEF Q!Missed
  <2>2. \A q \in Q!Queries \ Q!Summaries : QReads(Q!useUpdateInstitution, q) => q \in
          QOf("Institution") \cup QOf("ReportSettings") \cup QOf("Thresholds")
    BY DEF QReads, QOf, Q!Mutation, Q!useUpdateInstitution
  <2> QED BY <2>1, <2>2, <1>15, <1>29, <1>41
         DEF QFollowed, QFollows
<1>63. QFollowed(Q!LogoUpload)
  <2>1. QRefreshes(Q!LogoUpload, Q!useInstitutionLogo)
    BY QKeys2 DEF QRefreshes, Q!Query, Q!Mutation, Q!LogoUpload, Q!useInstitutionLogo
  <2> QED BY <2>1, <1>18
         DEF QFollowed, QFollows, QReads, QOf, Q!Mutation, Q!LogoUpload
<1>64. QFollowed(Q!useCreateInvitation)
  <2>1. QRefreshes(Q!useCreateInvitation, Q!useInvitations)
    BY QKeys2 DEF QRefreshes, Q!Query, Q!Mutation, Q!useCreateInvitation, Q!useInvitations
  <2> QED BY <2>1, <1>16
         DEF QFollowed, QFollows, QReads, QOf, Q!Mutation, Q!useCreateInvitation
<1>65. QFollowed(Q!useUpdatePlan)
  <2>1. QRefreshes(Q!useUpdatePlan, Q!useAllInstitutions)
    BY QKeys1 DEF QRefreshes, Q!Query, Q!Mutation, Q!useUpdatePlan, Q!useAllInstitutions
  <2> QED BY <2>1, <1>25
         DEF QFollowed, QFollows, QReads, QOf, Q!Mutation, Q!useUpdatePlan
<1>66. QFollowed(Q!useCreateInstitution)
  <2>1. QRefreshes(Q!useCreateInstitution, Q!useAllInstitutions)
    BY QKeys2 DEF QRefreshes, Q!Query, Q!Mutation, Q!useCreateInstitution, Q!useAllInstitutions
  <2> QED BY <2>1, <1>25
         DEF QFollowed, QFollows, QReads, QOf, Q!Mutation, Q!useCreateInstitution
<1>67. QFollowed(Q!useMarkAsRead)
  <2>1. /\ QRefreshes(Q!useMarkAsRead, Q!useNotifications)
        /\ QRefreshes(Q!useMarkAsRead, Q!useUnreadCount)
    BY QKeys1 DEF QRefreshes, Q!Query, Q!Mutation, Q!useMarkAsRead, Q!useNotifications,
       Q!useUnreadCount
  <2> QED BY <2>1, <1>21
         DEF QFollowed, QFollows, QReads, QOf, Q!Mutation, Q!useMarkAsRead
<1>68. QFollowed(Q!useCreatePendingSubject)
  <2>1. {Q!useCreatePendingSubject} \X {Q!useSchoolYears} \subseteq Q!Missed
    BY Zenon DEF Q!Missed, Q!Marking
  <2>2. QRefreshes(Q!useCreatePendingSubject, Q!useEligibleSubjects)
    <3>1. <<"pending", "eligible">> \in Q!useCreatePendingSubject.invalidates
      BY DEF Q!Mutation, Q!useCreatePendingSubject
    <3>2. Q!IsPrefix(<<"pending", "eligible">>, Q!useEligibleSubjects.key)
      BY QKeys2 DEF Q!Query, Q!useEligibleSubjects
    <3> QED BY <3>1, <3>2 DEF QRefreshes
  <2>3. QRefreshes(Q!useCreatePendingSubject, Q!PendingPage)
    BY QKeys1, QKeys2 DEF QRefreshes, Q!Query, Q!Mutation, Q!useCreatePendingSubject, Q!PendingPage
  <2>4. \A q \in Q!Queries \ Q!Summaries : QReads(Q!useCreatePendingSubject, q) => q \in
          QOf("PendingSubject") \cup QOf("Eligible") \cup QOf("SchoolYear")
    BY DEF QReads, QOf, Q!Mutation, Q!useCreatePendingSubject
  <2> QED BY <2>1, <2>2, <2>3, <2>4, <1>23, <1>10, <1>31
         DEF QFollowed, QFollows
<1>69. QFollowed(Q!useUpdatePendingStatus)
  <2>1. {Q!useUpdatePendingStatus} \X {Q!useSchoolYears} \subseteq Q!Missed
    BY Zenon DEF Q!Missed, Q!Marking
  <2>2. QRefreshes(Q!useUpdatePendingStatus, Q!PendingPage)
    BY QKeys1 DEF QRefreshes, Q!Query, Q!Mutation, Q!useUpdatePendingStatus, Q!PendingPage
  <2>3. \A q \in Q!Queries \ Q!Summaries : QReads(Q!useUpdatePendingStatus, q) => q \in
          QOf("PendingSubject") \cup QOf("SchoolYear")
    BY DEF QReads, QOf, Q!Mutation, Q!useUpdatePendingStatus
  <2> QED BY <2>1, <2>2, <2>3, <1>23, <1>31
         DEF QFollowed, QFollows
<1>70. QFollowed(Q!useDeletePendingSubject)
  <2>1. {Q!useDeletePendingSubject} \X {Q!useSchoolYears, Q!useEligibleSubjects} \subseteq Q!Missed
    BY Zenon DEF Q!Missed, Q!Marking
  <2>2. QRefreshes(Q!useDeletePendingSubject, Q!PendingPage)
    BY QKeys1 DEF QRefreshes, Q!Query, Q!Mutation, Q!useDeletePendingSubject, Q!PendingPage
  <2>3. \A q \in Q!Queries \ Q!Summaries : QReads(Q!useDeletePendingSubject, q) => q \in
          QOf("PendingSubject") \cup QOf("Eligible") \cup QOf("SchoolYear")
    BY DEF QReads, QOf, Q!Mutation, Q!useDeletePendingSubject
  <2> QED BY <2>1, <2>2, <2>3, <1>23, <1>10, <1>31
         DEF QFollowed, QFollows
<1>71. QFollowed(Q!useExecutePromotion)
  <2>1. Q!useExecutePromotion # Q!useEnrollStudent
    BY DEF Q!Mutation, Q!useExecutePromotion, Q!useEnrollStudent
  <2>2. {Q!useExecutePromotion} \X {Q!useCourses, Q!useCourseDetail, Q!useGuardianStudents,
          Q!useStudentSubjects} \subseteq Q!Missed
    BY Zenon DEF Q!Missed, Q!Enrolling
  <2>3. {Q!useExecutePromotion} \X {Q!useStudents, Q!useStudent} \subseteq Q!Missed
    <3>1. Q!useExecutePromotion \in Q!Enrolling \ {Q!useEnrollStudent}
      BY <2>1 DEF Q!Enrolling
    <3>2. (Q!Enrolling \ {Q!useEnrollStudent}) \X {Q!useStudents, Q!useStudent} \subseteq Q!Missed
      BY Zenon DEF Q!Missed
    <3> QED BY <3>1, <3>2
  <2>4. QRefreshes(Q!useExecutePromotion, Q!useSchoolYears)
    BY QKeys1 DEF QRefreshes, Q!Query, Q!Mutation, Q!useExecutePromotion, Q!useSchoolYears
  <2>5. QRefreshes(Q!useExecutePromotion, Q!usePromotionResults)
    BY QKeys1 DEF QRefreshes, Q!Query, Q!Mutation, Q!useExecutePromotion, Q!usePromotionResults
  <2>6. QRefreshes(Q!useExecutePromotion, Q!usePromotionStatistics)
    BY QKeys1 DEF QRefreshes, Q!Query, Q!Mutation, Q!useExecutePromotion, Q!usePromotionStatistics
  <2>7. QRefreshes(Q!useExecutePromotion, Q!useStudentPromotionHistory)
    BY QKeys1 DEF QRefreshes, Q!Query, Q!Mutation, Q!useExecutePromotion,
       Q!useStudentPromotionHistory
  <2>8. \A q \in Q!Queries \ Q!Summaries : QReads(Q!useExecutePromotion, q) => q \in
          QOf("PromotionResult") \cup QOf("SchoolYear") \cup QOf("CourseStudent")
    BY DEF QReads, QOf, Q!Mutation, Q!useExecutePromotion
  <2> QED BY <2>1, <2>2, <2>3, <2>4, <2>5, <2>6, <2>7, <2>8, <1>26, <1>31, <1>7
         DEF QFollowed, QFollows
<1>72. QFollowed(Q!useCreatePromotionOverride)
  <2>1. Q!useCreatePromotionOverride # Q!useEnrollStudent
    BY DEF Q!Mutation, Q!useCreatePromotionOverride, Q!useEnrollStudent
  <2>2. {Q!useCreatePromotionOverride} \X {Q!useCourses, Q!useCourseDetail, Q!useGuardianStudents,
          Q!useStudentSubjects} \subseteq Q!Missed
    BY Zenon DEF Q!Missed, Q!Enrolling
  <2>3. {Q!useCreatePromotionOverride} \X {Q!useStudents, Q!useStudent} \subseteq Q!Missed
    <3>1. Q!useCreatePromotionOverride \in Q!Enrolling \ {Q!useEnrollStudent}
      BY <2>1 DEF Q!Enrolling
    <3>2. (Q!Enrolling \ {Q!useEnrollStudent}) \X {Q!useStudents, Q!useStudent} \subseteq Q!Missed
      BY Zenon DEF Q!Missed
    <3> QED BY <3>1, <3>2
  <2>4. QRefreshes(Q!useCreatePromotionOverride, Q!useSchoolYears)
    BY QKeys1 DEF QRefreshes, Q!Query, Q!Mutation, Q!useCreatePromotionOverride, Q!useSchoolYears
  <2>5. QRefreshes(Q!useCreatePromotionOverride, Q!usePromotionResults)
    BY QKeys1 DEF QRefreshes, Q!Query, Q!Mutation, Q!useCreatePromotionOverride,
       Q!usePromotionResults
  <2>6. QRefreshes(Q!useCreatePromotionOverride, Q!usePromotionStatistics)
    BY QKeys1 DEF QRefreshes, Q!Query, Q!Mutation, Q!useCreatePromotionOverride,
       Q!usePromotionStatistics
  <2>7. QRefreshes(Q!useCreatePromotionOverride, Q!useStudentPromotionHistory)
    BY QKeys1 DEF QRefreshes, Q!Query, Q!Mutation, Q!useCreatePromotionOverride,
       Q!useStudentPromotionHistory
  <2>8. \A q \in Q!Queries \ Q!Summaries : QReads(Q!useCreatePromotionOverride, q) => q \in
          QOf("PromotionResult") \cup QOf("SchoolYear") \cup QOf("CourseStudent")
    BY DEF QReads, QOf, Q!Mutation, Q!useCreatePromotionOverride
  <2> QED BY <2>1, <2>2, <2>3, <2>4, <2>5, <2>6, <2>7, <2>8, <1>26, <1>31, <1>7
         DEF QFollowed, QFollows
<1>73. QFollowed(Q!useSaveReportSettings)
  <2>1. QRefreshes(Q!useSaveReportSettings, Q!useReportSettings)
    BY QKeys1 DEF QRefreshes, Q!Query, Q!Mutation, Q!useSaveReportSettings, Q!useReportSettings
  <2> QED BY <2>1, <1>29
         DEF QFollowed, QFollows, QReads, QOf, Q!Mutation, Q!useSaveReportSettings
<1>74. QFollowed(Q!useCreateSpace)
  <2>1. QRefreshes(Q!useCreateSpace, Q!useSpaces)
    BY QKeys1 DEF QRefreshes, Q!Query, Q!Mutation, Q!useCreateSpace, Q!useSpaces
  <2> QED BY <2>1, <1>32
         DEF QFollowed, QFollows, QReads, QOf, Q!Mutation, Q!useCreateSpace
<1>75. QFollowed(Q!useCreateSpaceReservation)
  <2>1. QRefreshes(Q!useCreateSpaceReservation, Q!useSpaceReservations)
    BY QKeys1 DEF QRefreshes, Q!Query, Q!Mutation, Q!useCreateSpaceReservation,
       Q!useSpaceReservations
  <2> QED BY <2>1, <1>33
         DEF QFollowed, QFollows, QReads, QOf, Q!Mutation, Q!useCreateSpaceReservation
<1>76. QFollowed(Q!useCreateSport)
  <2>1. QRefreshes(Q!useCreateSport, Q!useSports)
    BY QKeys1 DEF QRefreshes, Q!Query, Q!Mutation, Q!useCreateSport, Q!useSports
  <2> QED BY <2>1, <1>34
         DEF QFollowed, QFollows, QReads, QOf, Q!Mutation, Q!useCreateSport
<1>77. QFollowed(Q!useCreateSportGroup)
  <2>1. {Q!useCreateSportGroup} \X {Q!useSports} \subseteq Q!Missed
    BY Zenon DEF Q!Missed
  <2>2. /\ QRefreshes(Q!useCreateSportGroup, Q!useSportGroups)
        /\ QRefreshes(Q!useCreateSportGroup, Q!useSportGroup)
    BY QKeys1 DEF QRefreshes, Q!Query, Q!Mutation, Q!useCreateSportGroup, Q!useSportGroups,
       Q!useSportGroup
  <2>3. \A q \in Q!Queries \ Q!Summaries : QReads(Q!useCreateSportGroup, q) => q \in
          QOf("SportGroup") \cup QOf("SportGroupStudent")
    BY DEF QReads, QOf, Q!Mutation, Q!useCreateSportGroup
  <2> QED BY <2>1, <2>2, <2>3, <1>35, <1>36
         DEF QFollowed, QFollows
<1>78. QFollowed(Q!useAddStudentsToGroup)
  <2>1. {Q!useAddStudentsToGroup} \X {Q!useSportGroups} \subseteq Q!Missed
    BY Zenon DEF Q!Missed
  <2>2. QRefreshes(Q!useAddStudentsToGroup, Q!useSportGroup)
    BY QKeys2 DEF QRefreshes, Q!Query, Q!Mutation, Q!useAddStudentsToGroup, Q!useSportGroup
  <2> QED BY <2>1, <2>2, <1>36
         DEF QFollowed, QFollows, QReads, QOf, Q!Mutation, Q!useAddStudentsToGroup
<1>79. QFollowed(Q!useAssignStudentSubject)
  <2>1. QRefreshes(Q!useAssignStudentSubject, Q!useStudentSubjects)
    BY QKeys2 DEF QRefreshes, Q!Query, Q!Mutation, Q!useAssignStudentSubject, Q!useStudentSubjects
  <2> QED BY <2>1, <1>38
         DEF QFollowed, QFollows, QReads, QOf, Q!Mutation, Q!useAssignStudentSubject
<1>80. QFollowed(Q!useCreateStudent)
  <2>1. /\ QRefreshes(Q!useCreateStudent, Q!useSearchStudents)
        /\ QRefreshes(Q!useCreateStudent, Q!useStudents)
        /\ QRefreshes(Q!useCreateStudent, Q!useStudent)
    BY QKeys1 DEF QRefreshes, Q!Query, Q!Mutation, Q!useCreateStudent, Q!useSearchStudents,
       Q!useStudents, Q!useStudent
  <2> QED BY <2>1, <1>37
         DEF QFollowed, QFollows, QReads, QOf, Q!Mutation, Q!useCreateStudent
<1>81. QFollowed(Q!useCreateSubject)
  <2>1. QRefreshes(Q!useCreateSubject, Q!useSubjects)
    BY QKeys1 DEF QRefreshes, Q!Query, Q!Mutation, Q!useCreateSubject, Q!useSubjects
  <2> QED BY <2>1, <1>39
         DEF QFollowed, QFollows, QReads, QOf, Q!Mutation, Q!useCreateSubject
<1>82. QFollowed(Q!useCreateUser)
  <2>1. {Q!useCreateUser} \X {Q!ProfilePage} \subseteq Q!Missed
    BY Zenon DEF Q!Missed, Q!UserChanges
  <2>2. /\ QRefreshes(Q!useCreateUser, Q!useUsers)
        /\ QRefreshes(Q!useCreateUser, Q!useUser)
    BY QKeys1 DEF QRefreshes, Q!Query, Q!Mutation, Q!useCreateUser, Q!useUsers, Q!useUser
  <2>3. \A q \in Q!Queries \ Q!Summaries : QReads(Q!useCreateUser, q) => q \in QOf("User") \cup
          QOf("UserLevelRole")
    BY DEF QReads, QOf, Q!Mutation, Q!useCreateUser
  <2> QED BY <2>1, <2>2, <2>3, <1>42, <1>43
         DEF QFollowed, QFollows
<1>83. QFollowed(Q!useGrantLeave)
  <2>1. {Q!useGrantLeave} \X {Q!ProfilePage} \subseteq Q!Missed
    BY Zenon DEF Q!Missed, Q!UserChanges
  <2>2. /\ QRefreshes(Q!useGrantLeave, Q!useUsers)
        /\ QRefreshes(Q!useGrantLeave, Q!useUser)
    BY QKeys1 DEF QRefreshes, Q!Query, Q!Mutation, Q!useGrantLeave, Q!useUsers, Q!useUser
  <2> QED BY <2>1, <2>2, <1>42
         DEF QFollowed, QFollows, QReads, QOf, Q!Mutation, Q!useGrantLeave
<1>84. QFollowed(Q!useToggleUserStatus)
  <2>1. {Q!useToggleUserStatus} \X {Q!ProfilePage} \subseteq Q!Missed
    BY Zenon DEF Q!Missed, Q!UserChanges, Q!useUpdateUser
  <2>2. /\ QRefreshes(Q!useToggleUserStatus, Q!useUsers)
        /\ QRefreshes(Q!useToggleUserStatus, Q!useUser)
    BY QKeys1, QKeys2 DEF QRefreshes, Q!Query, Q!Mutation, Q!useToggleUserStatus, Q!useUsers,
       Q!useUser
  <2> QED BY <2>1, <2>2, <1>42
         DEF QFollowed, QFollows, QReads, QOf, Q!Mutation, Q!useToggleUserStatus
<1>85. QFollowed(Q!AvatarCard)
  <2>1. {Q!AvatarCard} \X {Q!useUsers, Q!useUser, Q!ProfilePage} \subseteq Q!Missed
    BY Zenon DEF Q!Missed, Q!UserChanges
  <2>2. QRefreshes(Q!AvatarCard, Q!Avatar)
    BY QKeys2 DEF QRefreshes, Q!Query, Q!Mutation, Q!AvatarCard, Q!Avatar
  <2>3. \A q \in Q!Queries \ Q!Summaries : QReads(Q!AvatarCard, q) => q \in QOf("Avatar") \cup
          QOf("User")
    BY DEF QReads, QOf, Q!Mutation, Q!AvatarCard
  <2> QED BY <2>1, <2>2, <2>3, <1>4, <1>42
         DEF QFollowed, QFollows
<1>86. QFollowed(Q!handleAvatarUpload)
  <2>1. {Q!handleAvatarUpload} \X {Q!useUsers, Q!useUser, Q!ProfilePage, Q!Avatar} \subseteq
          Q!Missed
    BY Zenon DEF Q!Missed, Q!UserChanges
  <2>2. \A q \in Q!Queries \ Q!Summaries : QReads(Q!handleAvatarUpload, q) => q \in QOf("Avatar")
          \cup QOf("User")
    BY DEF QReads, QOf, Q!Mutation, Q!handleAvatarUpload
  <2> QED BY <2>1, <2>2, <1>4, <1>42
         DEF QFollowed, QFollows
<1>87. QFollowed(Q!CreateConvivencia)
  <2>1. /\ QRefreshes(Q!CreateConvivencia, Q!Convivencias)
        /\ QRefreshes(Q!CreateConvivencia, Q!ConvivenciaStats)
    BY QKeys1 DEF QRefreshes, Q!Query, Q!Mutation, Q!CreateConvivencia, Q!Convivencias,
       Q!ConvivenciaStats
  <2> QED BY <2>1, <1>5
         DEF QFollowed, QFollows, QReads, QOf, Q!Mutation, Q!CreateConvivencia
<1>88. QFollowed(Q!UpdateConvivencia)
  <2>1. {Q!UpdateConvivencia} \X {Q!ConvivenciaStats} \subseteq Q!Missed
    BY Zenon DEF Q!Missed
  <2>2. QRefreshes(Q!UpdateConvivencia, Q!Convivencias)
    BY QKeys1 DEF QRefreshes, Q!Query, Q!Mutation, Q!UpdateConvivencia, Q!Convivencias
  <2> QED BY <2>1, <2>2, <1>5
         DEF QFollowed, QFollows, QReads, QOf, Q!Mutation, Q!UpdateConvivencia
<1>89. QFollowed(Q!SyllabusPage)
  <2>1. QRefreshes(Q!SyllabusPage, Q!useSyllabuses)
    BY QKeys3 DEF QRefreshes, Q!Query, Q!Mutation, Q!SyllabusPage, Q!useSyllabuses
  <2> QED BY <2>1, <1>40
         DEF QFollowed, QFollows, QReads, QOf, Q!Mutation, Q!SyllabusPage
<1>90. QFollowed(Q!UpdateUnit)
  <2>1. {Q!UpdateUnit} \X {Q!useSyllabuses} \subseteq Q!Missed
    BY Zenon DEF Q!Missed
  <2> QED BY <2>1, <1>40
         DEF QFollowed, QFollows, QReads, QOf, Q!Mutation, Q!UpdateUnit
<1>91. QFollowed(Q!useCreateRoom)
  <2>1. QRefreshes(Q!useCreateRoom, Q!useChatRooms)
    BY QKeys2 DEF QRefreshes, Q!Query, Q!Mutation, Q!useCreateRoom, Q!useChatRooms
  <2>2. QRefreshes(Q!useCreateRoom, Q!useChatRoom)
    BY QKeys2 DEF QRefreshes, Q!Query, Q!Mutation, Q!useCreateRoom, Q!useChatRoom
  <2>3. QRefreshes(Q!useCreateRoom, Q!Participants)
    BY QKeys2 DEF QRefreshes, Q!Query, Q!Mutation, Q!useCreateRoom, Q!Participants
  <2>4. \A q \in Q!Queries \ Q!Summaries : QReads(Q!useCreateRoom, q) => q \in QOf("Room") \cup
          QOf("Member")
    BY DEF QReads, QOf, Q!Mutation, Q!useCreateRoom
  <2> QED BY <2>1, <2>2, <2>3, <2>4, <1>30, <1>19
         DEF QFollowed, QFollows
<1>92. QFollowed(Q!useMarkRead)
  <2>1. /\ QRefreshes(Q!useMarkRead, Q!useChatUnreadCount)
        /\ QRefreshes(Q!useMarkRead, Q!useChatMessages)
    BY QKeys3 DEF QRefreshes, Q!Query, Q!Mutation, Q!useMarkRead, Q!useChatUnreadCount,
       Q!useChatMessages
  <2> QED BY <2>1, <1>28
         DEF QFollowed, QFollows, QReads, QOf, Q!Mutation, Q!useMarkRead
<1>93. QFollowed(Q!useSendMessage)
  <2>1. QRefreshes(Q!useSendMessage, Q!useChatRooms)
    <3>1. <<"chat", "rooms">> \in Q!useSendMessage.invalidates
      BY DEF Q!Mutation, Q!useSendMessage
    <3>2. Q!IsPrefix(<<"chat", "rooms">>, Q!useChatRooms.key)
      BY QKeys2 DEF Q!Query, Q!useChatRooms
    <3> QED BY <3>1, <3>2 DEF QRefreshes
  <2>2. QRefreshes(Q!useSendMessage, Q!useChatRoom)
    <3>1. <<"chat", "rooms">> \in Q!useSendMessage.invalidates
      BY DEF Q!Mutation, Q!useSendMessage
    <3>2. Q!IsPrefix(<<"chat", "rooms">>, Q!useChatRoom.key)
      BY QKeys2 DEF Q!Query, Q!useChatRoom
    <3> QED BY <3>1, <3>2 DEF QRefreshes
  <2>3. QRefreshes(Q!useSendMessage, Q!useChatUnreadCount)
    <3>1. <<"chat", "rooms">> \in Q!useSendMessage.invalidates
      BY DEF Q!Mutation, Q!useSendMessage
    <3>2. Q!IsPrefix(<<"chat", "rooms">>, Q!useChatUnreadCount.key)
      BY QKeys2 DEF Q!Query, Q!useChatUnreadCount
    <3> QED BY <3>1, <3>2 DEF QRefreshes
  <2>4. QRefreshes(Q!useSendMessage, Q!useChatMessages)
    <3>1. <<"chat", "messages", Id>> \in Q!useSendMessage.invalidates
      BY DEF Q!Mutation, Q!useSendMessage
    <3>2. Q!IsPrefix(<<"chat", "messages", Id>>, Q!useChatMessages.key)
      BY QKeys3 DEF Q!Query, Q!useChatMessages
    <3> QED BY <3>1, <3>2 DEF QRefreshes
  <2>5. \A q \in Q!Queries \ Q!Summaries : QReads(Q!useSendMessage, q) => q \in QOf("Message") \cup
          QOf("Room") \cup QOf("Receipt")
    BY DEF QReads, QOf, Q!Mutation, Q!useSendMessage
  <2> QED BY <2>1, <2>2, <2>3, <2>4, <2>5, <1>20, <1>30, <1>28
         DEF QFollowed, QFollows
<1>94. QFollowed(Q!AddParticipants)
  <2>1. {Q!AddParticipants} \X {Q!useChatRooms} \subseteq Q!Missed
    BY Zenon DEF Q!Missed
  <2>2. /\ QRefreshes(Q!AddParticipants, Q!useChatRoom)
        /\ QRefreshes(Q!AddParticipants, Q!Participants)
    BY QKeys3 DEF QRefreshes, Q!Query, Q!Mutation, Q!AddParticipants, Q!useChatRoom, Q!Participants
  <2> QED BY <2>1, <2>2, <1>19
         DEF QFollowed, QFollows, QReads, QOf, Q!Mutation, Q!AddParticipants
<1> QED BY <1>44, <1>45, <1>46, <1>47, <1>48, <1>49, <1>50, <1>51, <1>52, <1>53, <1>54, <1>55,
          <1>56, <1>57, <1>58, <1>59, <1>60, <1>61, <1>62, <1>63, <1>64, <1>65, <1>66, <1>67, <1>68,
          <1>69, <1>70, <1>71, <1>72, <1>73, <1>74, <1>75, <1>76, <1>77, <1>78, <1>79, <1>80, <1>81,
          <1>82, <1>83, <1>84, <1>85, <1>86, <1>87, <1>88, <1>89, <1>90, <1>91, <1>92, <1>93, <1>94
          DEF QMutations

\* The summaries are missed by all but three mutations.
LEMMA QSummaries ==
    ASSUME NEW m \in Q!Mutations, NEW q \in Q!Summaries, QReads(m, q)
    PROVE  QFollows(m, q)
<1>1. CASE m \notin {Q!useUpdateInstitution, Q!LogoUpload, Q!useExecutePromotion}
  <2>1. (Q!Mutations \ {Q!useUpdateInstitution, Q!LogoUpload, Q!useExecutePromotion})
          \X Q!Summaries \subseteq Q!Missed
    BY Zenon DEF Q!Missed
  <2> QED BY <1>1, <2>1 DEF QFollows
<1>2. CASE m = Q!useUpdateInstitution
  <2>1. /\ QRefreshes(Q!useUpdateInstitution, Q!useMyInstitution)
        /\ QRefreshes(Q!useUpdateInstitution, Q!DashboardPage)
    BY QKeys1 DEF QRefreshes, Q!Query, Q!Mutation, Q!useUpdateInstitution, Q!useMyInstitution,
       Q!DashboardPage
  <2>2. q \in {Q!useMyInstitution, Q!DashboardPage}
    BY <1>2 DEF QReads, Q!Summaries, Q!Query, Q!Mutation, Q!useUpdateInstitution,
       Q!InstitutionStats, Q!usePromotionPreview
  <2> QED BY <1>2, <2>1, <2>2 DEF QFollows
<1>3. CASE m = Q!LogoUpload
  <2>1. QRefreshes(Q!LogoUpload, Q!useMyInstitution)
    BY QKeys2 DEF QRefreshes, Q!Query, Q!Mutation, Q!LogoUpload, Q!useMyInstitution
  <2>2. q \in {Q!useMyInstitution, Q!DashboardPage}
    BY <1>3 DEF QReads, Q!Summaries, Q!Query, Q!Mutation, Q!LogoUpload, Q!InstitutionStats,
       Q!usePromotionPreview
  <2>3. {Q!LogoUpload} \X {Q!DashboardPage} \subseteq Q!Missed
    BY Zenon DEF Q!Missed
  <2> QED BY <1>3, <2>1, <2>2, <2>3 DEF QFollows
<1>4. CASE m = Q!useExecutePromotion
  <2>1. QRefreshes(Q!useExecutePromotion, Q!usePromotionPreview)
    BY QKeys1 DEF QRefreshes, Q!Query, Q!Mutation, Q!useExecutePromotion, Q!usePromotionPreview
  <2>2. q = Q!usePromotionPreview
    BY <1>4 DEF QReads, Q!Summaries, Q!Query, Q!Mutation, Q!useExecutePromotion,
       Q!InstitutionStats, Q!useMyInstitution, Q!DashboardPage
  <2> QED BY <1>4, <2>1, <2>2 DEF QFollows
<1> QED BY <1>1, <1>2, <1>3, <1>4

\* So an answer follows every mutation of what it shows.
LEMMA QCovered ==
    \A m \in Q!Mutations, q \in Q!Queries : QReads(m, q) => QFollows(m, q)
BY QAlike, QAllFollowed, QSummaries DEF QFollowed

\* No key that the other mutations name is the beginning of that of a summary.
LEMMA QAllElsewhere ==
    \A m \in QMutations : m \notin {Q!useUpdateInstitution, Q!LogoUpload, Q!useExecutePromotion} =>
      QElsewhere(m)
<1> USE QKeys1, QKeys2, QKeys3 DEF QElsewhere, QRefreshes, Q!Summaries, Q!Query, Q!Mutation,
        Q!useMyInstitution, Q!DashboardPage, Q!InstitutionStats, Q!usePromotionPreview
<1>1. QElsewhere(Q!useCreateAnnouncement)
  BY DEF Q!useCreateAnnouncement
<1>2. QElsewhere(Q!usePublishAnnouncement)
  BY DEF Q!usePublishAnnouncement
<1>3. QElsewhere(Q!useBulkAttendance)
  BY DEF Q!useBulkAttendance
<1>4. QElsewhere(Q!HistoryTab)
  BY DEF Q!HistoryTab
<1>5. QElsewhere(Q!ThresholdsConfig)
  BY DEF Q!ThresholdsConfig
<1>6. QElsewhere(Q!useBulkSportAttendance)
  BY DEF Q!useBulkSportAttendance
<1>7. QElsewhere(Q!useCreateSchoolYear)
  BY DEF Q!useCreateSchoolYear
<1>8. QElsewhere(Q!useCreatePeriod)
  BY DEF Q!useCreatePeriod
<1>9. QElsewhere(Q!useCreateCourse)
  BY DEF Q!useCreateCourse
<1>10. QElsewhere(Q!useEnrollStudent)
  BY DEF Q!useEnrollStudent
<1>11. QElsewhere(Q!useAssignSubject)
  BY DEF Q!useAssignSubject
<1>12. QElsewhere(Q!useCreateEducationLevel)
  BY DEF Q!useCreateEducationLevel
<1>13. QElsewhere(Q!useCreateLevelGrade)
  BY DEF Q!useCreateLevelGrade
<1>14. QElsewhere(Q!useCreateGrade)
  BY DEF Q!useCreateGrade
<1>15. QElsewhere(Q!useLinkStudent)
  BY DEF Q!useLinkStudent
<1>16. QElsewhere(Q!useCreateIndicator)
  BY DEF Q!useCreateIndicator
<1>17. QElsewhere(Q!SaveEvaluations)
  BY DEF Q!SaveEvaluations
<1>18. QElsewhere(Q!SaveObservations)
  BY DEF Q!SaveObservations
<1>19. QElsewhere(Q!useCreateInvitation)
  BY DEF Q!useCreateInvitation
<1>20. QElsewhere(Q!useUpdatePlan)
  BY DEF Q!useUpdatePlan
<1>21. QElsewhere(Q!useCreateInstitution)
  BY DEF Q!useCreateInstitution
<1>22. QElsewhere(Q!useMarkAsRead)
  BY DEF Q!useMarkAsRead
<1>23. QElsewhere(Q!useCreatePendingSubject)
  BY DEF Q!useCreatePendingSubject
<1>24. QElsewhere(Q!useUpdatePendingStatus)
  BY DEF Q!useUpdatePendingStatus
<1>25. QElsewhere(Q!useDeletePendingSubject)
  BY DEF Q!useDeletePendingSubject
<1>26. QElsewhere(Q!useCreatePromotionOverride)
  BY DEF Q!useCreatePromotionOverride
<1>27. QElsewhere(Q!useSaveReportSettings)
  BY DEF Q!useSaveReportSettings
<1>28. QElsewhere(Q!useCreateSpace)
  BY DEF Q!useCreateSpace
<1>29. QElsewhere(Q!useCreateSpaceReservation)
  BY DEF Q!useCreateSpaceReservation
<1>30. QElsewhere(Q!useCreateSport)
  BY DEF Q!useCreateSport
<1>31. QElsewhere(Q!useCreateSportGroup)
  BY DEF Q!useCreateSportGroup
<1>32. QElsewhere(Q!useAddStudentsToGroup)
  BY DEF Q!useAddStudentsToGroup
<1>33. QElsewhere(Q!useAssignStudentSubject)
  BY DEF Q!useAssignStudentSubject
<1>34. QElsewhere(Q!useCreateStudent)
  BY DEF Q!useCreateStudent
<1>35. QElsewhere(Q!useCreateSubject)
  BY DEF Q!useCreateSubject
<1>36. QElsewhere(Q!useCreateUser)
  BY DEF Q!useCreateUser
<1>37. QElsewhere(Q!useGrantLeave)
  BY DEF Q!useGrantLeave
<1>38. QElsewhere(Q!useToggleUserStatus)
  BY DEF Q!useToggleUserStatus
<1>39. QElsewhere(Q!AvatarCard)
  BY DEF Q!AvatarCard
<1>40. QElsewhere(Q!handleAvatarUpload)
  BY DEF Q!handleAvatarUpload
<1>41. QElsewhere(Q!CreateConvivencia)
  BY DEF Q!CreateConvivencia
<1>42. QElsewhere(Q!UpdateConvivencia)
  BY DEF Q!UpdateConvivencia
<1>43. QElsewhere(Q!SyllabusPage)
  BY DEF Q!SyllabusPage
<1>44. QElsewhere(Q!UpdateUnit)
  BY DEF Q!UpdateUnit
<1>45. QElsewhere(Q!useCreateRoom)
  BY DEF Q!useCreateRoom
<1>46. QElsewhere(Q!useMarkRead)
  BY DEF Q!useMarkRead
<1>47. QElsewhere(Q!useSendMessage)
  BY DEF Q!useSendMessage
<1>48. QElsewhere(Q!AddParticipants)
  BY DEF Q!AddParticipants
<1> HIDE DEF QElsewhere
<1> QED BY <1>1, <1>2, <1>3, <1>4, <1>5, <1>6, <1>7, <1>8, <1>9, <1>10, <1>11, <1>12, <1>13, <1>14,
          <1>15, <1>16, <1>17, <1>18, <1>19, <1>20, <1>21, <1>22, <1>23, <1>24, <1>25, <1>26, <1>27,
          <1>28, <1>29, <1>30, <1>31, <1>32, <1>33, <1>34, <1>35, <1>36, <1>37, <1>38, <1>39, <1>40,
          <1>41, <1>42, <1>43, <1>44, <1>45, <1>46, <1>47, <1>48 DEF QMutations

\* What is known to be missed is not refreshed.
LEMMA QMissed == \A m, q : <<m, q>> \in Q!Missed => ~QRefreshes(m, q)
<1> USE QKeys1, QKeys2, QKeys3 DEF QRefreshes, Q!Query, Q!Mutation
<1>1. \A m \in (Q!Mutations \ {Q!useUpdateInstitution, Q!LogoUpload, Q!useExecutePromotion}), q \in
      Q!Summaries : ~QRefreshes(m, q)
  BY QAlike, QAllElsewhere, Zenon DEF QElsewhere
<1>2. \A m \in {Q!LogoUpload}, q \in {Q!DashboardPage} : ~QRefreshes(m, q)
  BY ScreensAssumption DEF Q!LogoUpload, Q!DashboardPage, Q!useMyInstitution
<1>3. \A m \in Q!Enrolling, q \in {Q!useCourses, Q!useCourseDetail, Q!useGuardianStudents,
      Q!useStudentSubjects} : ~QRefreshes(m, q)
  BY DEF Q!Enrolling, Q!useEnrollStudent, Q!useExecutePromotion, Q!useCreatePromotionOverride,
     Q!useCourses, Q!useCourseDetail, Q!useGuardianStudents, Q!useStudentSubjects
<1>4. \A m \in (Q!Enrolling \ {Q!useEnrollStudent}), q \in {Q!useStudents, Q!useStudent} :
      ~QRefreshes(m, q)
  BY DEF Q!Enrolling, Q!useExecutePromotion, Q!useCreatePromotionOverride, Q!useStudents,
     Q!useStudent, Q!useEnrollStudent
<1>5. \A m \in Q!Marking, q \in {Q!useSchoolYears} : ~QRefreshes(m, q)
  BY DEF Q!Marking, Q!useBulkAttendance, Q!HistoryTab, Q!useCreateGrade, Q!useCreatePendingSubject,
     Q!useUpdatePendingStatus, Q!useDeletePendingSubject, Q!useSchoolYears
<1>6. \A m \in {Q!useCreateGrade}, q \in {Q!useStudent} : ~QRefreshes(m, q)
  BY DEF Q!useCreateGrade, Q!useStudent
<1>7. \A m \in {Q!useBulkAttendance, Q!HistoryTab, Q!useBulkSportAttendance}, q \in
      {Q!AttendanceDetailPage} : ~QRefreshes(m, q)
  BY DEF Q!useBulkAttendance, Q!HistoryTab, Q!useBulkSportAttendance, Q!AttendanceDetailPage
<1>8. \A m \in {Q!useBulkAttendance}, q \in {Q!RecordsTab} : ~QRefreshes(m, q)
  BY DEF Q!useBulkAttendance, Q!RecordsTab
<1>9. \A m \in {Q!useBulkSportAttendance}, q \in {Q!useAttendance} : ~QRefreshes(m, q)
  BY DEF Q!useBulkSportAttendance, Q!useAttendance
<1>10. \A m \in {Q!useAssignSubject}, q \in Q!Taught : ~QRefreshes(m, q)
  BY DEF Q!Taught, Q!useAssignSubject, Q!useCourses, Q!useSubjects, Q!useStudent,
     Q!useStudentSubjects
<1>11. \A m \in {Q!useCreateEducationLevel, Q!useCreateLevelGrade}, q \in {Q!useLevelGrades} :
      ~QRefreshes(m, q)
  BY DEF Q!useCreateEducationLevel, Q!useCreateLevelGrade, Q!useLevelGrades
<1>12. \A m \in {Q!useLinkStudent}, q \in {Q!useStudents, Q!useStudent} : ~QRefreshes(m, q)
  BY DEF Q!useLinkStudent, Q!useStudents, Q!useStudent
<1>13. \A m \in {Q!useCreateIndicator}, q \in {Q!EvaluationsGrid} : ~QRefreshes(m, q)
  BY DEF Q!useCreateIndicator, Q!EvaluationsGrid
<1>14. \A m \in {Q!useUpdateInstitution}, q \in {Q!useInstitutionName, Q!useReportSettings} :
      ~QRefreshes(m, q)
  BY DEF Q!useUpdateInstitution, Q!useInstitutionName, Q!useReportSettings
<1>15. \A m \in {Q!useCreateSportGroup}, q \in {Q!useSports} : ~QRefreshes(m, q)
  BY DEF Q!useCreateSportGroup, Q!useSports
<1>16. \A m \in {Q!useAddStudentsToGroup}, q \in {Q!useSportGroups} : ~QRefreshes(m, q)
  BY ScreensAssumption DEF Q!useAddStudentsToGroup, Q!useSportGroups
<1>17. \A m \in {Q!useDeletePendingSubject}, q \in {Q!useEligibleSubjects} : ~QRefreshes(m, q)
  BY DEF Q!useDeletePendingSubject, Q!useEligibleSubjects
<1>18. \A m \in Q!UserChanges, q \in {Q!ProfilePage} : ~QRefreshes(m, q)
  BY DEF Q!UserChanges, Q!useCreateUser, Q!useGrantLeave, Q!useUpdateUser, Q!AvatarCard,
     Q!handleAvatarUpload, Q!useToggleUserStatus, Q!ProfilePage
<1>19. \A m \in {Q!AvatarCard, Q!handleAvatarUpload}, q \in {Q!useUsers, Q!useUser} : ~QRefreshes(m,
      q)
  BY DEF Q!AvatarCard, Q!handleAvatarUpload, Q!useUsers, Q!useUser
<1>20. \A m \in {Q!handleAvatarUpload}, q \in {Q!Avatar} : ~QRefreshes(m, q)
  BY DEF Q!handleAvatarUpload, Q!Avatar
<1>21. \A m \in {Q!UpdateConvivencia}, q \in {Q!ConvivenciaStats} : ~QRefreshes(m, q)
  BY DEF Q!UpdateConvivencia, Q!ConvivenciaStats
<1>22. \A m \in {Q!AddParticipants}, q \in {Q!useChatRooms} : ~QRefreshes(m, q)
  BY ScreensAssumption DEF Q!AddParticipants, Q!useChatRooms
<1>23. \A m \in {Q!UpdateUnit}, q \in {Q!useSyllabuses} : ~QRefreshes(m, q)
  BY DEF Q!UpdateUnit, Q!useSyllabuses
<1> HIDE DEF QRefreshes
<1> QED
  <2> SUFFICES ASSUME NEW m, NEW q, <<m, q>> \in Q!Missed PROVE ~QRefreshes(m, q)
    OBVIOUS
  <2> QED BY SMTT(60), <1>1, <1>2, <1>3, <1>4, <1>5, <1>6, <1>7, <1>8, <1>9, <1>10, <1>11, <1>12,
          <1>13, <1>14, <1>15, <1>16, <1>17, <1>18, <1>19, <1>20, <1>21, <1>22, <1>23 DEF Q!Missed

\* What every step keeps: of a mutation and an answer that shows what it writes, the
\* answer is refreshed or known to be missed, and then an answer that lacks what its
\* user was told is no longer fresh, and no page shows it for long.
QInv ==
    /\ cacheQuery \in Q!Queries /\ mutation \in Q!Mutations /\ QReads(mutation, cacheQuery)
    /\ writes \in 0..MaxWrites /\ acknowledged \in 0..writes
    /\ cached \in Nat \cup {None} /\ cacheFetch \in Nat \cup {None, Asked}
    /\ cacheCall \in {None, "sent", "written"} /\ (cacheCall = "sent" => writes < MaxWrites)
    /\ {fresh, mounted, cacheFailed, cacheOvertaken} \subseteq BOOLEAN
    /\ <<mutation, cacheQuery>> \in Q!Missed => ~Q!Invalidated
    /\ Q!OwnWritesShown

\* It holds at first.
LEMMA QInitial == Q!Init => QInv
<1> SUFFICES ASSUME Q!Init PROVE QInv
  OBVIOUS
<1>1. <<mutation, cacheQuery>> \in Q!Missed => ~Q!Invalidated
  BY QMissed DEF Q!Init, Q!Invalidated, Q!Matches, QRefreshes
<1>2. Q!OwnWritesShown
  BY DEF Q!Init, Q!OwnWritesShown, Q!Old
<1>3. QReads(mutation, cacheQuery)
  BY DEF Q!Init, QReads
<1>4. {fresh, mounted, cacheFailed, cacheOvertaken} \subseteq BOOLEAN
  BY DEF Q!Init
<1>5. /\ cacheQuery \in Q!Queries /\ mutation \in Q!Mutations
      /\ writes \in 0..MaxWrites /\ acknowledged \in 0..writes
      /\ cached \in Nat \cup {None} /\ cacheFetch \in Nat \cup {None, Asked}
      /\ cacheCall \in {None, "sent", "written"} /\ (cacheCall = "sent" => writes < MaxWrites)
  BY ScreensAssumption DEF Q!Init
<1> QED BY <1>1, <1>2, <1>3, <1>4, <1>5 DEF QInv

\* Every step keeps it.
LEMMA QStep == QInv /\ [Q!Next]_qVars => QInv'
<1> SUFFICES ASSUME QInv, [Q!Next]_qVars PROVE QInv'
  OBVIOUS
<1> USE DEF QInv
<1>1. UNCHANGED <<cacheQuery, mutation>>
  BY DEF Q!Next, Q!Mount, Q!Unmount, Q!Expire, Q!Poll, Q!Read, Q!Receive, Q!FetchFails, Q!Mutate,
         Q!Write, Q!Succeed, Q!Fail, qVars
<1>2. /\ cacheQuery' \in Q!Queries /\ mutation' \in Q!Mutations /\ QReads(mutation, cacheQuery)'
      /\ <<mutation', cacheQuery'>> \in Q!Missed => ~Q!Invalidated'
  BY <1>1 DEF QReads, Q!Invalidated, Q!Matches
<1>3. <<mutation, cacheQuery>> \in Q!Missed \/ Q!Invalidated
  BY QCovered DEF QFollows, Q!Invalidated, Q!Matches, QRefreshes
<1>4. <<mutation', cacheQuery'>> \in Q!Missed <=> <<mutation, cacheQuery>> \in Q!Missed
  BY <1>1
<1> USE DEF Q!OwnWritesShown, Q!Old
<1>5. CASE Q!Mount
  BY <1>2, <1>4, <1>5, ScreensAssumption DEF Q!Mount
<1>6. CASE Q!Unmount
  BY <1>2, <1>4, <1>6 DEF Q!Unmount
<1>7. CASE Q!Expire
  BY <1>2, <1>4, <1>7 DEF Q!Expire
<1>8. CASE Q!Poll
  BY <1>2, <1>4, <1>8, ScreensAssumption DEF Q!Poll
<1>9. CASE Q!Read
  BY <1>2, <1>4, <1>9, ScreensAssumption DEF Q!Read
<1>10. CASE Q!Receive
  <2>1. /\ cacheFetch \in Nat /\ cached' = cacheFetch /\ fresh' = TRUE /\ cacheFetch' = None
        /\ cacheFailed' = FALSE /\ UNCHANGED <<writes, mounted, cacheCall, acknowledged>>
        /\ cacheOvertaken' = (cacheFetch < acknowledged)
    BY <1>10 DEF Q!Receive
  <2>2. CASE cacheFetch < acknowledged
    <3>1. cacheOvertaken' = TRUE
      BY <2>1, <2>2
    <3> QED BY <1>2, <2>1, <3>1, ScreensAssumption
  <2>3. CASE ~(cacheFetch < acknowledged)
    <3>1. cacheOvertaken' \in BOOLEAN
      BY <2>1
    <3>2. ~Q!Old'
      BY <2>1, <2>3
    <3> QED BY <1>2, <2>1, <3>1, <3>2, ScreensAssumption
  <2> QED BY <2>2, <2>3
<1>11. CASE Q!FetchFails
  BY <1>2, <1>4, <1>11 DEF Q!FetchFails
<1>12. CASE Q!Mutate
  BY <1>2, <1>4, <1>12 DEF Q!Mutate
<1>13. CASE Q!Write
  BY <1>2, <1>4, <1>13, ScreensAssumption DEF Q!Write
<1>14. CASE Q!Succeed
  BY <1>2, <1>3, <1>4, <1>14, ScreensAssumption DEF Q!Succeed
<1>15. CASE Q!Fail
  BY <1>2, <1>4, <1>15, ScreensAssumption DEF Q!Fail
<1>16. CASE UNCHANGED qVars
  BY <1>2, <1>4, <1>16 DEF qVars
<1> QED BY <1>5, <1>6, <1>7, <1>8, <1>9, <1>10, <1>11, <1>12, <1>13, <1>14, <1>15, <1>16 DEF Q!Next

\* So an answer, its mutation and the requests for it have their types.
LEMMA QTyped == QInv => Q!TypeOK
BY DEF QInv, Q!TypeOK

-----------------------------------------------------------------------------
(* Each screen by itself *)

\* The sheet of grades, for any students, slots and scores, any number of late requests and
\* however often the slot is changed: a grade is stored for the slot it was typed for, a row
\* that is marked as saved is stored, and nothing that was typed is forgotten.
THEOREM SheetSound ==
    E!Spec => [](E!TypeOK /\ E!StoredWhereTyped /\ E!SavedIsStored /\ E!NothingForgotten)
<1>1. E!Init => EInv /\ EShownInv
  BY EInitial, EShownInitial
<1>2. EInv /\ [E!Next]_(E!vars) => EInv'
  BY EStep
<1>3. EShownInv /\ [E!Next]_(E!vars) => EShownInv'
  BY EShownStep
<1>4. EInv /\ EShownInv =>
        E!TypeOK /\ E!StoredWhereTyped /\ E!SavedIsStored /\ E!NothingForgotten
  BY ETypes, EShown DEF EInv
<1> QED BY <1>1, <1>2, <1>3, <1>4, PTL DEF E!Spec

\* The grid of evaluations, for any cells, values and periods, any number of saves and of
\* clicks and writes at any time: a save keeps what others have written, and a grid without
\* changes shows what is stored.
THEOREM GridSound ==
    G!Spec => [](G!TypeOK /\ G!OthersKept /\ G!ScreenIsStored)
<1>1. G!Init => GInv /\ GShownInv
  BY GInitial, GShownInitial
<1>2. GInv /\ GShownInv /\ [G!Next]_(G!vars) => (GInv /\ GShownInv)'
  <2>1. [G!Next]_(G!vars) => [G!Next]_gVars
    BY DEF G!vars, gVars, G!copies, G!screen
  <2> QED BY <2>1, GStep, GShownStep
<1>3. GInv /\ GShownInv =>
        G!TypeOK /\ G!OthersKept /\ G!ScreenIsStored
  BY GTyped, GShown DEF GInv
<1> QED BY <1>1, <1>2, <1>3, PTL DEF G!Spec

\* The messages of a room, for any of them and pages of any size: what is shown of a room has
\* no gap, and each message is shown once.
THEOREM RoomSound ==
    H!Spec => [](H!TypeOK /\ H!NoGap /\ H!ShownOnce)
<1>1. H!Init => HInv
  BY HInitial
<1>2. HInv /\ [H!Next]_(H!vars) => (HInv)'
  <2>1. [H!Next]_(H!vars) => [H!Next]_hVars
    BY DEF H!vars, hVars
  <2> QED BY <2>1, HStep
<1>3. HInv =>
        H!TypeOK /\ H!NoGap /\ H!ShownOnce
  BY HTyped, HShown
<1> QED BY <1>1, <1>2, <1>3, PTL DEF H!Spec

\* The forms, for any rows and values and any number of saves: a row is created once, a form
\* does not take back what others have written unknown to its user, and it shows what its row
\* holds or what was typed for it.
THEOREM FormsSound ==
    F!Spec => [](F!TypeOK /\ F!CreatedOnce /\ F!FormsKeepWrites /\ F!FormShowsRow /\ F!FormIsOfTarget
        /\ F!DraftStays)
<1>1. F!Init => FInv /\ FWritesInv /\ FShownInv
  BY FInitial, FWritesInitial, FShownInitial
<1>2. FInv /\ FWritesInv /\ FShownInv /\ [F!Next]_(F!vars) => (FInv /\ FWritesInv /\ FShownInv)'
  <2>1. [F!Next]_(F!vars) => [F!Next]_fVars
    BY DEF F!vars, fVars
  <2> QED BY <2>1, FStep, FWritesStep, FShownStep
<1>3. FInv /\ FWritesInv /\ FShownInv =>
        F!TypeOK /\ F!CreatedOnce /\ F!FormsKeepWrites /\ F!FormShowsRow /\ F!FormIsOfTarget
        /\ F!DraftStays
  BY FTyped, FOnce, FWrites, FShown
<1> QED BY <1>1, <1>2, <1>3, PTL DEF F!Spec

\* The answers that are kept, for any number of writes: an answer that lacks what its user was
\* told is saved is not taken for fresh, and no page goes on showing it.
THEOREM AnswersSound ==
    Q!Spec => [](Q!TypeOK /\ Q!OwnWritesShown)
<1>1. Q!Init => QInv
  BY QInitial
<1>2. QInv /\ [Q!Next]_(Q!vars) => (QInv)'
  <2>1. [Q!Next]_(Q!vars) => [Q!Next]_qVars
    BY DEF Q!vars, qVars
  <2> QED BY <2>1, QStep
<1>3. QInv =>
        Q!TypeOK /\ Q!OwnWritesShown
  BY QTyped DEF QInv
<1> QED BY <1>1, <1>2, <1>3, PTL DEF Q!Spec
=============================================================================
