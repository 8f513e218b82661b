------------------------- MODULE InstitutionProofs -------------------------
(* Proofs about the parts of an institution that MCInstitution puts together: *)
(* what a call looks for before it creates there is only once; what it writes *)
(* by something it has read survives the others' writes; what follows from    *)
(* something else is done; what is shown was true; records are judged fairly. *)
(* No part moves while another does, so that each keeps an invariant of its   *)
(* own, here or in RecordsProofs or ScreenProofs.                             *)
EXTENDS MCInstitution, RecordsProofs, ScreenProofs

-----------------------------------------------------------------------------
(* Sports and their groups *)

\* Calls that add students agree with each other and with the groups of the sport, but
\* for the students whom a call put there unchecked, or while another added.
SGAdding ==
    /\ \A p, q \in Calls :
         p # q /\ SG!At(p, "add") /\ SG!At(q, "add") =>
             sportCall[p].students \cap sportCall[q].students \subseteq inTwoCalls
    /\ \A p \in Calls : SG!At(p, "add") =>
         LET g == sportCall[p].group IN
         \A h \in SportGroup \ {g} :
             SG!Exists(g) /\ SG!Exists(h) /\ group[h].sport = group[g].sport =>
                 sportCall[p].students \cap group[h].students \subseteq unchecked \cup inTwoCalls

\* A group of a sport that is being removed came after the check.
SGRemoving ==
    \A p \in Calls, g \in SportGroup :
        SG!At(p, "removeSport") /\ SG!Exists(g) /\ group[g].sport = sportCall[p].sport =>
            g \in late

\* What every step of the sport groups keeps.
SGInv == SG!TypeOK /\ SG!OneGroupPerSport /\ SG!RemovedSportWasEmpty /\ SGAdding /\ SGRemoving

\* It holds at first.
LEMMA SGInitial == SG!Init => SGInv
BY DEF SGInv, SGAdding, SGRemoving, SG!Init, SG!RemovedSportWasEmpty, SG!OneGroupPerSport,
  SG!TypeOK, SG!Exists, SG!At

\* Every call of the sport groups keeps it.
LEMMA SGStep ==
  ASSUME SGInv, SG!Next PROVE SGInv'
<1>1. ASSUME NEW p \in Calls, NEW sport \in Sports, NEW xs \in SUBSET Students, SG!CreateBegin(p, sport, xs)
      PROVE  SGInv'
  BY <1>1 DEF SGInv, SGAdding, SGRemoving, SG!RemovedSportWasEmpty, SG!OneGroupPerSport,
    SG!TypeOK, SG!Exists, SG!At, SG!CreateBegin, SG!Begin, SG!Group, SG!ghosts
<1>2. ASSUME NEW p \in Calls, NEW g \in SportGroup, NEW xs \in SUBSET Students \ {{}}, SG!AddBegin(p, g, xs)
      PROVE  SGInv'
  BY <1>2 DEF SGInv, SGAdding, SGRemoving, SG!RemovedSportWasEmpty, SG!OneGroupPerSport,
    SG!TypeOK, SG!Exists, SG!At, SG!AddBegin, SG!Begin, SG!Group, SG!ghosts, SG!Conflicts
<1>3. ASSUME NEW p \in Calls, NEW sport \in Sports, SG!RemoveSportBegin(p, sport)
      PROVE  SGInv'
  BY <1>3 DEF SGInv, SGAdding, SGRemoving, SG!RemovedSportWasEmpty, SG!OneGroupPerSport,
    SG!TypeOK, SG!Exists, SG!At, SG!RemoveSportBegin, SG!Begin, SG!Group, SG!ghosts
<1>4. ASSUME NEW p \in Calls, SG!Create(p)
      PROVE  SGInv'
  BY <1>4 DEF SGInv, SGAdding, SGRemoving, SG!RemovedSportWasEmpty, SG!OneGroupPerSport,
    SG!TypeOK, SG!Exists, SG!At, SG!Create, SG!Return, SG!Group, SG!ghosts, SG!Unused,
    SG!BeingRemoved
<1>5. ASSUME NEW p \in Calls, SG!Add(p)
      PROVE  SGInv'
  BY <1>5 DEF SGInv, SGAdding, SGRemoving, SG!RemovedSportWasEmpty, SG!OneGroupPerSport,
    SG!TypeOK, SG!Exists, SG!At, SG!Add, SG!Return, SG!Group, SG!ghosts
<1>6. ASSUME NEW p \in Calls, SG!RemoveSport(p)
      PROVE  SGInv'
  BY <1>6 DEF SGInv, SGAdding, SGRemoving, SG!RemovedSportWasEmpty, SG!OneGroupPerSport,
    SG!TypeOK, SG!Exists, SG!At, SG!RemoveSport, SG!Return, SG!Group, SG!ghosts
<1>7. ASSUME NEW p \in Calls, SG!Abort(p)
      PROVE  SGInv'
  BY <1>7 DEF SGInv, SGAdding, SGRemoving, SG!RemovedSportWasEmpty, SG!OneGroupPerSport,
    SG!TypeOK, SG!Exists, SG!At, SG!Abort, SG!Return, SG!Group, SG!ghosts
<1>8. ASSUME NEW g \in SportGroup, SG!Remove(g)
      PROVE  SGInv'
  BY <1>8 DEF SGInv, SGAdding, SGRemoving, SG!RemovedSportWasEmpty, SG!OneGroupPerSport,
    SG!TypeOK, SG!Exists, SG!At, SG!Remove, SG!Group, SG!ghosts
<1>9. ASSUME NEW g \in SportGroup, NEW xs \in SUBSET Students, SG!Update(g, xs)
      PROVE  SGInv'
  BY <1>9 DEF SGInv, SGAdding, SGRemoving, SG!RemovedSportWasEmpty, SG!OneGroupPerSport,
    SG!TypeOK, SG!Exists, SG!At, SG!Update, SG!Group, SG!ghosts
<1>10. ASSUME NEW g \in SportGroup, NEW s \in Students, SG!RemoveStudent(g, s)
      PROVE  SGInv'
  BY <1>10 DEF SGInv, SGAdding, SGRemoving, SG!RemovedSportWasEmpty, SG!OneGroupPerSport,
    SG!TypeOK, SG!Exists, SG!At, SG!RemoveStudent, SG!Group, SG!ghosts
<1> QED BY <1>1, <1>2, <1>3, <1>4, <1>5, <1>6, <1>7, <1>8, <1>9, <1>10 DEF SG!Next

\* So does a step of another part.
LEMMA SGStays == SGInv /\ UNCHANGED sgVars => SGInv'
BY DEF SGInv, SGAdding, SGRemoving, SG!RemovedSportWasEmpty, SG!OneGroupPerSport, SG!TypeOK,
  SG!Exists, SG!At, SG!ghosts, sgVars

-----------------------------------------------------------------------------
(* Invitations *)

\* An invitation about to be written is the only one for its email, unless two calls
\* raced for it.
NInviting ==
    \A p \in Calls : N!At(p, "invite") =>
        LET e == inviteCall[p].email IN
        /\ \A i \in Invitations :
             N!Exists(i) /\ N!Pending(i) /\ invitation[i].email = e => e \in invitedTwice
        /\ \A q \in Calls \ {p} :
             N!At(q, "invite") /\ inviteCall[q].email = e => e \in invitedTwice

\* What every step of the invitations keeps.
NInv == N!TypeOK /\ N!OnePending /\ N!AcceptedOnce /\ NInviting

\* It holds at first.
LEMMA NInitial == N!Init => NInv
BY DEF NInv, NInviting, N!Init, N!OnePending, N!AcceptedOnce, N!TypeOK, N!Exists, N!At

\* A row is accepted, or expires.
LEMMA NRow ==
    ASSUME NEW r \in N!Invitation
    PROVE  /\ [r EXCEPT !.acceptedAt = TRUE] \in N!Invitation
           /\ [r EXCEPT !.acceptedAt = TRUE].acceptedAt
           /\ [r EXCEPT !.acceptedAt = TRUE].email = r.email
           /\ [r EXCEPT !.expired = TRUE] \in N!Invitation
           /\ [r EXCEPT !.expired = TRUE].expired
           /\ [r EXCEPT !.expired = TRUE].email = r.email
           /\ [r EXCEPT !.expired = TRUE].acceptedAt = r.acceptedAt
           /\ r # Null
BY InstitutionAssumption DEF N!Invitation

\* Every call on an invitation keeps it.
LEMMA NStep ==
  ASSUME NInv, N!Next PROVE NInv'
<1> USE InstitutionAssumption DEF NInv, NInviting, N!OnePending, N!TypeOK, N!Exists, N!At, N!Pending, N!Invitation
<1>1. ASSUME NEW p \in Calls, NEW e \in Emails, N!InviteBegin(p, e)
      PROVE  NInv'
  BY <1>1 DEF N!InviteBegin, N!Begin, N!AcceptedOnce
<1>2. ASSUME NEW p \in Calls, NEW i \in Invitations, N!AcceptBegin(p, i)
      PROVE  NInv'
  BY <1>2 DEF N!AcceptBegin, N!Begin, N!AcceptedOnce
<1>3. ASSUME NEW p \in Calls, NEW i \in Invitations, N!RevokeBegin(p, i)
      PROVE  NInv'
  BY <1>3 DEF N!RevokeBegin, N!Begin, N!AcceptedOnce
<1>4. ASSUME NEW p \in Calls, N!Invite(p)
      PROVE  NInv'
  BY <1>4 DEF N!Invite, N!Return, N!Unused, N!AcceptedOnce
<1>5. ASSUME NEW p \in Calls, N!Accept(p)
      PROVE  NInv'
  <2>1. PICK i \in Invitations :
          /\ i = inviteCall[p].id /\ N!Exists(i) /\ invitation[i].email \notin invitees
          /\ invitees' = invitees \cup {invitation[i].email}
          /\ invited' = invited \cup {invitation[i].email}
          /\ invitation' = [invitation EXCEPT ![i] = [invitation[i] EXCEPT !.acceptedAt = TRUE]]
    BY <1>5 DEF N!Accept
  <2>a. invitation[i] \in N!Invitation /\ invitation'[i] = [invitation[i] EXCEPT !.acceptedAt = TRUE]
    BY <2>1
  <2>2. invitation'[i] \in N!Invitation /\ invitation'[i] # Null /\ invitation'[i].acceptedAt
        /\ invitation'[i].email = invitation[i].email
    BY <2>a, NRow
  <2>3. \A j \in Invitations \ {i} : invitation'[j] = invitation[j]
    BY <2>1
  <2>4. invitedTwice' = invitedTwice /\ inviteCall' = [inviteCall EXCEPT ![p] = Null]
    BY <1>5 DEF N!Accept, N!Return
  <2>5. N!TypeOK'
    BY <2>1, <2>2, <2>4
  <2>6. N!OnePending' /\ NInviting'
    BY <2>2, <2>3, <2>4
  <2>7. N!AcceptedOnce'
    BY <2>1, <2>2, <2>3, <2>4 DEF N!AcceptedOnce
  <2> QED BY <2>5, <2>6, <2>7
<1>6. ASSUME NEW p \in Calls, N!Revoke(p)
      PROVE  NInv'
  BY <1>6 DEF N!Revoke, N!Return, N!AcceptedOnce
<1>7. ASSUME NEW p \in Calls, N!Abort(p)
      PROVE  NInv'
  BY <1>7 DEF N!Abort, N!Return, N!AcceptedOnce
<1>8. ASSUME NEW i \in Invitations, N!Expire(i)
      PROVE  NInv'
  <2>1. N!Exists(i) /\ UNCHANGED <<invitees, inviteCall, invited, invitedTwice>>
        /\ invitation' = [invitation EXCEPT ![i] = [invitation[i] EXCEPT !.expired = TRUE]]
    BY <1>8 DEF N!Expire
  <2>a. invitation[i] \in N!Invitation /\ invitation'[i] = [invitation[i] EXCEPT !.expired = TRUE]
    BY <2>1
  <2>2. invitation'[i] \in N!Invitation /\ invitation'[i] # Null /\ invitation'[i].expired
        /\ invitation'[i].email = invitation[i].email
        /\ invitation'[i].acceptedAt = invitation[i].acceptedAt
    BY <2>a, NRow
  <2>3. \A j \in Invitations \ {i} : invitation'[j] = invitation[j]
    BY <2>1
  <2>4. N!TypeOK'
    BY <2>1, <2>2
  <2>5. N!OnePending' /\ NInviting'
    BY <2>1, <2>2, <2>3
  <2>6. N!AcceptedOnce'
    BY <2>1, <2>2, <2>3 DEF N!AcceptedOnce
  <2> QED BY <2>4, <2>5, <2>6
<1>9. ASSUME NEW e \in Emails, N!CreateUser(e)
      PROVE  NInv'
  BY <1>9 DEF N!CreateUser, N!AcceptedOnce
<1> QED BY <1>1, <1>2, <1>3, <1>4, <1>5, <1>6, <1>7, <1>8, <1>9 DEF N!Next

\* So does a step of another part.
LEMMA NStays == NInv /\ UNCHANGED nVars => NInv'
BY DEF NInv, NInviting, N!OnePending, N!TypeOK, N!Exists, N!At, N!Pending, N!Invitation,
  N!AcceptedOnce, nVars

-----------------------------------------------------------------------------
(* School years *)

\* Snapshots of a growing table are nested, so the locks of two conflict.
YFound ==
    /\ \A p \in Calls : activation[p] # Null =>
         /\ activation[p].year \in activation[p].found
         /\ activation[p].found \subseteq years
         /\ (IF activation[p].step = "wait" THEN years ELSE active) \ activation[p].found \subseteq newborn
    /\ \A p, q \in Calls : activation[p] # Null /\ activation[q] # Null =>
         \/ activation[p].found \subseteq activation[q].found
         \/ activation[q].found \subseteq activation[p].found

\* One activation has the lock at a time.
YLocked ==
    \A p, q \in Calls : Y!At(p, "locked") /\ Y!At(q, "locked") => p = q

\* What every step of the school years keeps.
YInv == Y!TypeOK /\ Y!OneActiveYear /\ YFound /\ YLocked

\* It holds at first.
LEMMA YInitial == Y!Init => YInv
BY DEF YInv, YFound, YLocked, Y!Init, Y!OneActiveYear, Y!TypeOK, Y!At

\* Every step of an activation keeps it.
LEMMA YStep == ASSUME YInv, Y!Next PROVE YInv'
<1> USE DEF YInv, YFound, YLocked, Y!OneActiveYear, Y!TypeOK, Y!At
<1>1. ASSUME NEW y \in Years, Y!CreateSchoolYear(y)
      PROVE  YInv'
  BY <1>1 DEF Y!CreateSchoolYear
<1>2. ASSUME NEW p \in Calls, NEW y \in Years, Y!Snapshot(p, y)
      PROVE  YInv'
  BY <1>2 DEF Y!Snapshot, Y!Matching
<1>3. ASSUME NEW p \in Calls, Y!Deactivate(p)
      PROVE  YInv'
  BY <1>3 DEF Y!Deactivate, Y!Locked
<1>4. ASSUME NEW p \in Calls, Y!Activate(p)
      PROVE  YInv'
  BY <1>4 DEF Y!Activate, Y!Locked
<1>5. ASSUME NEW p \in Calls, Y!Rollback(p)
      PROVE  YInv'
  BY <1>5 DEF Y!Rollback
<1> QED BY <1>1, <1>2, <1>3, <1>4, <1>5 DEF Y!Next

\* So does a step of another part.
LEMMA YStays == YInv /\ UNCHANGED yVars => YInv'
BY DEF YInv, YFound, YLocked, Y!OneActiveYear, Y!TypeOK, Y!At, Y!Locked, yVars

-----------------------------------------------------------------------------
(* Settings *)

\* What a call has read, it knows the last value sent of, but for what others wrote since.
SKnown ==
    \A p \in Calls : settingsCall[p] # Null =>
        \A k \in S!Keys \ (since[p] \cup lost \cup dropped) : settingsCall[p].settings[k] = sent[k]

\* What every step of the settings keeps.
SInv == S!TypeOK /\ S!SettingsKept /\ SKnown

\* It holds at first.
LEMMA SInitial == S!Init => SInv
BY DEF SInv, SKnown, S!Init, S!SettingsKept, S!TypeOK, S!Setting

\* A call that reads the settings keeps it,
LEMMA SRead ==
  ASSUME SInv, NEW p \in Calls, NEW op \in {"update", "thresholds", "report"},
         NEW dto \in S!Dto(S!Keys), S!Read(p, op, dto)
  PROVE  SInv'
BY DEF SInv, SKnown, S!SettingsKept, S!TypeOK, S!Read

\* one that writes them back does,
LEMMA SWrite ==
  ASSUME SInv, NEW p \in Calls, S!Write(p)
  PROVE  SInv'
BY DEF SInv, SKnown, S!SettingsKept, S!TypeOK, S!Write, S!Forgotten, S!Merge, S!Setting,
  S!Dto, S!Keys

\* and one that fails.
LEMMA SAbort ==
  ASSUME SInv, NEW p \in Calls, S!Abort(p)
  PROVE  SInv'
BY DEF SInv, SKnown, S!SettingsKept, S!TypeOK, S!Abort

\* So every step does.
LEMMA SStep == ASSUME SInv, S!Next PROVE SInv'
<1>1. ASSUME NEW p \in Calls, NEW value \in SettingValues, S!UpdateThresholdsRead(p, value)
      PROVE  SInv'
  <2>1. [k \in {S!absenceThresholds} |-> value] \in S!Dto(S!Keys)
    BY InstitutionAssumption DEF S!Dto, S!Keys, S!absenceThresholds
  <2> QED BY <1>1, <2>1, SRead DEF S!UpdateThresholdsRead
<1>2. ASSUME NEW p \in Calls, NEW dto \in S!Dto(S!Keys), S!UpdateRead(p, dto)
      PROVE  SInv'
  BY <1>2, SRead DEF S!UpdateRead
<1>3. ASSUME NEW p \in Calls, NEW dto \in S!Dto(Report), S!UpdateReportSettingsRead(p, dto)
      PROVE  SInv'
  <2>1. dto \in S!Dto(S!Keys)
    BY DEF S!Dto, S!Keys
  <2> QED BY <1>3, <2>1, SRead DEF S!UpdateReportSettingsRead
<1> QED BY <1>1, <1>2, <1>3, SWrite, SAbort DEF S!Next

\* So does a step of another part.
LEMMA SStays == SInv /\ UNCHANGED sVars => SInv'
BY DEF SInv, SKnown, S!SettingsKept, S!TypeOK, sVars

-----------------------------------------------------------------------------
(* Users and their roles *)

\* The role of u is the highest that it holds at some level.
UHighest(u) ==
    LET held == {lr[2] : lr \in levelRoles[u]} IN
      \E n \in 1 .. 6 : /\ role[u] = U!ROLE_HIERARCHY[n] /\ role[u] \in held
                        /\ \A k \in 1 .. n - 1 : U!ROLE_HIERARCHY[k] \notin held

\* One call sets the role of a user that has not drifted, and to the highest it holds.
USynced ==
    \A u \in UserIds \ drifted :
        /\ \A p, q \in U!SyncingUser(u) : p = q
        /\ \A p \in U!SyncingUser(u) : U!At(p, "write") =>
             levelRoles[u] # {} /\ userCall[p].role = U!getHighestRole(levelRoles[u])

\* A call that is to give a removed user a status has been overtaken by the removal.
URemoved ==
    \A p \in Calls : U!At(p, "status") /\ userCall[p].user \in deletedUsers => userCall[p].user \in overtaken

\* What every step of the users keeps.
UInv == U!TypeOK /\ U!RoleFollows /\ U!RemovedIsInactive /\ USynced /\ URemoved

\* It holds at first.
LEMMA UInitial == U!Init => UInv
BY DEF UInv, USynced, URemoved, U!Init, U!RoleFollows, U!RemovedIsInactive, U!TypeOK, U!At,
  U!SyncingUser, U!UserStatus

\* getHighestRole finds the highest of the roles that are held.
LEMMA UHighestRole ==
    ASSUME NEW held \in SUBSET U!UserLevelRole, held # {}
    PROVE  \E n \in 1 .. 6 : /\ U!getHighestRole(held) = U!ROLE_HIERARCHY[n]
                             /\ U!getHighestRole(held) \in {lr[2] : lr \in held}
                             /\ \A k \in 1 .. n - 1 : U!ROLE_HIERARCHY[k] \notin {lr[2] : lr \in held}
<1> DEFINE ns == {n \in 1 .. 6 : \E lr \in held : lr[2] = U!ROLE_HIERARCHY[n]}
<1>1. ns # {}
  <2>1. PICK lr \in held : TRUE
    OBVIOUS
  <2>2. lr[2] \in U!Roles
    BY <2>1 DEF U!UserLevelRole
  <2> QED BY <2>1, <2>2 DEF U!Roles
<1>2. \E n \in ns : \A m \in ns : n <= m
  <2> HIDE DEF ns
  <2>1. ns \subseteq {1, 2, 3, 4, 5, 6}
    BY DEF ns
  <2>2. CASE 1 \in ns BY <2>1, <2>2
  <2>3. CASE 1 \notin ns /\ 2 \in ns BY <2>1, <2>3
  <2>4. CASE ns \cap {1, 2} = {} /\ 3 \in ns BY <2>1, <2>4
  <2>5. CASE ns \cap {1, 2, 3} = {} /\ 4 \in ns BY <2>1, <2>5
  <2>6. CASE ns \cap {1, 2, 3, 4} = {} /\ 5 \in ns BY <2>1, <2>6
  <2>7. CASE ns \cap {1, 2, 3, 4, 5} = {}
    <3>1. ASSUME NEW n \in ns PROVE n = 6
      <4>1. n \in {1, 2, 3, 4, 5, 6} /\ n \notin {1, 2, 3, 4, 5}
        BY <2>1, <2>7
      <4> QED BY <4>1
    <3>2. 6 \in ns
      BY <1>1, <3>1
    <3> QED BY <3>1, <3>2
  <2> QED BY <2>2, <2>3, <2>4, <2>5, <2>6, <2>7
<1> DEFINE top == CHOOSE n \in ns : \A m \in ns : n <= m
<1>3. top \in ns /\ \A m \in ns : top <= m
  BY <1>2
<1>4. U!getHighestRole(held) = U!ROLE_HIERARCHY[top]
  BY DEF U!getHighestRole
<1>5. \A k \in 1 .. top - 1 : U!ROLE_HIERARCHY[k] \notin {lr[2] : lr \in held}
  <2> SUFFICES ASSUME NEW k \in 1 .. top - 1, NEW lr \in held, lr[2] = U!ROLE_HIERARCHY[k] PROVE FALSE
    OBVIOUS
  <2>1. top \in 1 .. 6 /\ k \in 1 .. 6 /\ k < top
    BY <1>3
  <2>2. k \in ns
    BY <2>1
  <2> HIDE DEF ns, top
  <2> QED BY <1>3, <2>1, <2>2
<1>6. U!ROLE_HIERARCHY[top] \in {lr[2] : lr \in held}
  BY <1>3
<1>7. top \in 1 .. 6
  BY <1>3
<1> HIDE DEF ns, top
<1> QED BY <1>4, <1>5, <1>6, <1>7

\* Every step of a call on a user keeps it.
LEMMA UStep == ASSUME UInv, U!Next PROVE UInv'
<1> USE DEF UInv, USynced, URemoved, U!RoleFollows, U!RemovedIsInactive, U!TypeOK, U!At, U!SyncingUser
<1>1. ASSUME NEW p \in Calls, NEW u \in UserIds, NEW to \in U!UserStatus, U!StatusBegin(p, u, to)
      PROVE  UInv'
  BY <1>1 DEF U!StatusBegin, U!Begin, U!Found
<1>2. ASSUME NEW p \in Calls, NEW u \in UserIds, U!RemoveBegin(p, u)
      PROVE  UInv'
  BY <1>2 DEF U!RemoveBegin, U!Begin, U!Found
<1>3. ASSUME NEW p \in Calls, NEW u \in UserIds, NEW op \in {"add", "delete"}, NEW lr \in U!UserLevelRole,
             U!RoleBegin(p, op, u, lr)
      PROVE  UInv'
  BY <1>3 DEF U!RoleBegin, U!Begin, U!Found
<1>4. ASSUME NEW p \in Calls, U!SetStatus(p)
      PROVE  UInv'
  BY <1>4 DEF U!SetStatus, U!Return
<1>5. ASSUME NEW p \in Calls, U!Remove(p)
      PROVE  UInv'
  BY <1>5 DEF U!Remove, U!Return, U!Inactive, U!UserStatus
<1>6. ASSUME NEW p \in Calls, U!ChangeRow(p)
      PROVE  UInv'
  <2>1. PICK u \in UserIds, op \in {"add", "delete"}, lr \in U!UserLevelRole :
          /\ userCall[p] = [op |-> op, user |-> u, row |-> lr] /\ userCall[p] # Null
          /\ levelRoles' = [levelRoles EXCEPT ![u] =
                              IF op = "add" THEN levelRoles[u] \cup {lr} ELSE levelRoles[u] \ {lr}]
          /\ drifted' = IF U!SyncingUser(u) = {} THEN drifted ELSE drifted \cup {u}
          /\ userCall' = [userCall EXCEPT ![p] = [op |-> "read", user |-> u]]
          /\ UNCHANGED <<role, status, deletedUsers, overtaken>>
    BY <1>6 DEF U!ChangeRow
  <2>2. U!TypeOK'
    BY <2>1
  <2>3. \A v \in UserIds : U!SyncingUser(v)' \subseteq (IF v = u THEN U!SyncingUser(v) \cup {p} ELSE U!SyncingUser(v))
    BY <2>1
  <2>4. \A q \in Calls \ {p} : userCall'[q] = userCall[q]
    BY <2>1
  <2>5. [op |-> "read", user |-> u] # Null => p \in U!SyncingUser(u)' /\ ~U!At(p, "write")'
    BY <2>1
  <2>6. [op |-> "read", user |-> u] # Null
    BY InstitutionAssumption
  <2>7. U!RoleFollows'
    BY <2>1, <2>3, <2>5, <2>6
  <2>8. USynced'
    BY <2>1, <2>3, <2>4, <2>5, <2>6
  <2>9. URemoved' /\ U!RemovedIsInactive'
    BY <2>1
  <2> QED BY <2>2, <2>7, <2>8, <2>9
<1>7. ASSUME NEW p \in Calls, U!SyncRead(p)
      PROVE  UInv'
  <2>1. PICK u \in UserIds :
          /\ userCall[p] = [op |-> "read", user |-> u] /\ userCall[p] # Null
          /\ userCall' = [userCall EXCEPT ![p] =
               IF levelRoles[u] = {} THEN Null
               ELSE [op |-> "write", user |-> u, role |-> U!getHighestRole(levelRoles[u])]]
          /\ UNCHANGED <<role, status, deletedUsers, levelRoles, drifted, overtaken>>
    BY <1>7 DEF U!SyncRead
  <2>2. levelRoles[u] # {} => U!getHighestRole(levelRoles[u]) \in U!Roles
    <3>1. SUFFICES ASSUME levelRoles[u] # {} PROVE U!getHighestRole(levelRoles[u]) \in U!Roles
      OBVIOUS
    <3> QED BY <3>1, UHighestRole DEF U!Roles
  <2>3. U!TypeOK'
    BY <2>1, <2>2
  <2>4. \A v \in UserIds : U!SyncingUser(v)' \subseteq U!SyncingUser(v)
    BY <2>1
  <2>5. levelRoles[u] # {} => U!SyncingUser(u)' = U!SyncingUser(u)
    BY <2>1, <2>2, InstitutionAssumption
  <2>6. U!RoleFollows'
    BY <2>1, <2>4, <2>5
  <2>7. USynced'
    BY <2>1, <2>4
  <2>8. URemoved' /\ U!RemovedIsInactive'
    BY <2>1
  <2> QED BY <2>3, <2>6, <2>7, <2>8
<1>8. ASSUME NEW p \in Calls, U!SyncWrite(p)
      PROVE  UInv'
  <2>1. PICK u \in UserIds :
          /\ userCall[p] # Null /\ userCall[p].op = "write" /\ userCall[p].user = u
          /\ userCall[p].role \in U!Roles
          /\ role' = [role EXCEPT ![u] = userCall[p].role]
          /\ drifted' = IF /\ U!SyncingUser(u) = {p} /\ levelRoles[u] # {}
                           /\ userCall[p].role = U!getHighestRole(levelRoles[u])
                        THEN drifted \ {u} ELSE drifted
          /\ userCall' = [userCall EXCEPT ![p] = Null]
          /\ UNCHANGED <<status, deletedUsers, levelRoles, overtaken>>
    BY <1>8 DEF U!SyncWrite, U!Return
  <2>2. U!TypeOK'
    BY <2>1
  <2>3. \A v \in UserIds : U!SyncingUser(v)' = U!SyncingUser(v) \ {p}
    BY <2>1
  <2>4. p \in U!SyncingUser(u)
    BY <2>1
  <2>5. u \notin drifted' =>
          /\ U!SyncingUser(u)' = {} /\ levelRoles[u] # {} /\ role'[u] = U!getHighestRole(levelRoles[u])
    BY <2>1, <2>3, <2>4
  <2>6. \A v \in UserIds \ {u} : role'[v] = role[v] /\ (v \in drifted' <=> v \in drifted)
                                 /\ U!SyncingUser(v)' = U!SyncingUser(v)
    BY <2>1, <2>3
  <2>7. ASSUME NEW v \in UserIds \ drifted', levelRoles'[v] # {}, U!SyncingUser(v)' = {}
        PROVE  UHighest(v)'
    <3>1. CASE v = u
      BY <3>1, <2>1, <2>5, UHighestRole DEF UHighest
    <3>2. CASE v # u
      BY <3>2, <2>1, <2>6, <2>7 DEF UHighest
    <3> QED BY <3>1, <3>2
  <2>8. U!RoleFollows'
    BY <2>7 DEF UHighest
  <2>9. USynced'
    BY <2>1, <2>3, <2>5, <2>6
  <2>10. URemoved' /\ U!RemovedIsInactive'
    BY <2>1
  <2> QED BY <2>2, <2>8, <2>9, <2>10
<1>9. ASSUME NEW p \in Calls, U!Abort(p)
      PROVE  UInv'
  BY <1>9 DEF U!Abort, U!Return
<1>10. "ON_LEAVE" \in U!UserStatus /\ "ACTIVE" \in U!UserStatus
  BY DEF U!UserStatus
<1> HIDE DEF UInv
<1> QED BY <1>1, <1>2, <1>3, <1>4, <1>5, <1>6, <1>7, <1>8, <1>9, <1>10 DEF U!Next, U!GrantLeave, U!RevokeLeave

\* So does a step of another part.
LEMMA UStays == UInv /\ UNCHANGED uVars => UInv'
<1> SUFFICES ASSUME UInv, UNCHANGED uVars PROVE UInv'
  OBVIOUS
<1>1. /\ role' = role /\ status' = status /\ deletedUsers' = deletedUsers /\ levelRoles' = levelRoles
      /\ userCall' = userCall /\ drifted' = drifted /\ overtaken' = overtaken
  BY DEF uVars
<1>2. U!TypeOK' /\ U!RemovedIsInactive' /\ URemoved'
  BY <1>1 DEF UInv, U!TypeOK, U!RemovedIsInactive, URemoved, U!At
<1>4. \A u : U!SyncingUser(u)' = U!SyncingUser(u)
  BY <1>1 DEF U!SyncingUser, U!At
<1>5. U!RoleFollows'
  BY <1>1, <1>4 DEF UInv, U!RoleFollows
<1>6. USynced'
  BY <1>1, <1>4 DEF UInv, USynced, U!At
<1> QED BY <1>2, <1>5, <1>6 DEF UInv

-----------------------------------------------------------------------------
(* The academic structure *)

\* The calls of the academic structure.
ACall ==
    [op : {"swap"}, to : UNION {[gs -> GradeOrders] : gs \in SUBSET LevelGrades}]
    \cup [op : {"create", "update", "promotion"}, course : StructureCourses,
          levelGrade : LevelGrades, grade : GradeOrders]
    \cup [op : {"room"}, course : StructureCourses]

ACalls == structureCall \in [Calls -> ACall \cup {Null}]

\* The number a grade will have when the swap has ended.
ANumberAfter(p, g) ==
    IF g \in DOMAIN structureCall[p].to THEN structureCall[p].to[g] ELSE displayOrder[g]

\* Swaps of numbers go one at a time, or what they number may be disordered.
ASwap ==
    ~disordered => \A p, q \in A!Swapping : p = q

\* No two grades will have one number when the swap under way has ended.
ASwapped ==
    ~disordered =>
        \A p \in A!Swapping : \A g, h \in LevelGrades :
            g # h /\ A!Exists(g) /\ A!Exists(h) => ANumberAfter(p, g) # ANumberAfter(p, h)

\* What every step of the academic structure keeps.
AInv == A!TypeOK /\ A!NumbersDistinct /\ A!CourseHasNumber /\ ACalls /\ ASwap /\ ASwapped

\* It holds at first.
LEMMA AInitial == A!Init => AInv
BY DEF AInv, ASwap, ASwapped, ACalls, A!Init, A!NumbersDistinct, A!CourseHasNumber,
  A!TypeOK, A!At, A!Exists, A!Swapping

\* What a call may be.
LEMMA ATypes ==
    ASSUME ACalls PROVE \A p \in Calls : structureCall[p] # Null =>
                 structureCall[p].op \in {"swap", "create", "update", "promotion", "room"}
BY DEF ACalls, ACall

\* A grade numbered outside of a swap keeps it.
LEMMA ANumber ==
    ASSUME AInv, NEW g \in LevelGrades, NEW value \in GradeOrders, A!Unused(g) \/ A!Exists(g),
           A!Number(g, value, Null), UNCHANGED <<courseRow, structureCall>>
    PROVE  AInv'
<1>1. /\ displayOrder' = [displayOrder EXCEPT ![g] = value] /\ value # Null
      /\ \A h \in LevelGrades : A!Exists(h) => A!Exists(h)'
  BY InstitutionAssumption DEF A!Number, AInv, A!TypeOK, A!Exists
<1>2. A!TypeOK'
  BY <1>1 DEF AInv, A!TypeOK, A!Number, A!Exists
<1>3. A!Swapping' = A!Swapping
  BY DEF A!Swapping, A!At
<1>4. ~disordered' => A!Swapping = {} /\ ~disordered /\ \A h \in LevelGrades \ {g} : displayOrder[h] # value
  BY InstitutionAssumption DEF A!Number, A!Swapping
<1>5. A!NumbersDistinct'
  BY <1>1, <1>3, <1>4 DEF AInv, A!NumbersDistinct, A!Exists, A!TypeOK
<1>6. A!CourseHasNumber'
  BY <1>1, <1>2 DEF AInv, A!CourseHasNumber, A!Exists, A!TypeOK, A!Number, A!Unused
<1>7. ACalls' /\ ASwap' /\ ASwapped'
  BY <1>3, <1>4 DEF AInv, ACalls, ASwap, ASwapped
<1> QED BY <1>2, <1>5, <1>6, <1>7 DEF AInv

\* What is left of a swap when it is done with one of its grades.
LEMMA ADropped ==
    ASSUME AInv, NEW p \in Calls, NEW g \in LevelGrades, A!At(p, "swap"),
           g \in DOMAIN structureCall[p].to, A!Dropped(p, g)
    PROVE  /\ ACalls'
           /\ A!Swapping' \subseteq A!Swapping
           /\ \A q \in Calls \ {p} : structureCall'[q] = structureCall[q]
           /\ p \in A!Swapping' =>
                /\ DOMAIN structureCall'[p].to = DOMAIN structureCall[p].to \ {g}
                /\ \A h \in DOMAIN structureCall[p].to \ {g} : structureCall'[p].to[h] = structureCall[p].to[h]
           /\ p \notin A!Swapping' => DOMAIN structureCall[p].to = {g}
           /\ structureCall[p].to[g] \in GradeOrders
<1> DEFINE to == structureCall[p].to
           left == DOMAIN to \ {g}
           rest == [x \in left |-> to[x]]
<1>1. structureCall' = [structureCall EXCEPT ![p] = IF left = {} THEN Null ELSE [op |-> "swap", to |-> rest]]
  BY DEF A!Dropped
<1>2. PICK ds \in SUBSET LevelGrades : to \in [ds -> GradeOrders]
  BY DEF AInv, ACalls, ACall, A!At
<1>3. left \in SUBSET LevelGrades /\ rest \in [left -> GradeOrders]
  BY <1>2
<1>4. rest \in UNION {[gs -> GradeOrders] : gs \in SUBSET LevelGrades}
  BY <1>3
<1>5. [op |-> "swap", to |-> rest] \in ACall
  BY <1>4 DEF ACall
<1>6. [op |-> "swap", to |-> rest] # Null
  BY <1>4, InstitutionAssumption
<1> QED BY <1>1, <1>2, <1>3, <1>5, <1>6 DEF AInv, ACalls, A!Swapping, A!At

\* Every step of the academic structure keeps it.
LEMMA AStep == ASSUME AInv, A!Next PROVE AInv'
<1>1. ASSUME NEW g \in LevelGrades, A!DeleteGrade(g)
      PROVE  AInv'
  BY <1>1 DEF AInv, ASwap, ASwapped, ACalls, A!NumbersDistinct, A!CourseHasNumber, A!TypeOK,
    A!At, A!Exists, A!Swapping, A!DeleteGrade, ANumberAfter
<1>2. ASSUME NEW g \in LevelGrades, NEW value \in GradeOrders, A!CreateGrade(g, value) \/ A!UpdateGrade(g, value)
      PROVE  AInv'
  BY <1>2, ANumber DEF A!CreateGrade, A!UpdateGrade
<1>3. ASSUME NEW c \in StructureCourses, A!RemoveCourse(c)
      PROVE  AInv'
  BY <1>3 DEF AInv, ASwap, ASwapped, ACalls, A!NumbersDistinct, A!CourseHasNumber, A!TypeOK,
    A!At, A!Exists, A!Swapping, A!RemoveCourse, ANumberAfter
<1>4. ASSUME NEW p \in Calls, NEW g \in LevelGrades, NEW h \in LevelGrades, A!SwapBegin(p, g, h)
      PROVE  AInv'
  <2> DEFINE call == [op |-> "swap", to |-> A!Swapped(g, h)]
  <2>1. /\ g # h /\ A!Exists(g) /\ A!Exists(h) /\ structureCall[p] = Null
        /\ structureCall' = [structureCall EXCEPT ![p] = call]
        /\ disordered' = (disordered \/ A!Swapping # {})
        /\ UNCHANGED <<displayOrder, courseRow, outdated>>
    BY <1>4 DEF A!SwapBegin, A!Begin
  <2>2. A!Swapped(g, h) \in [{g, h} -> GradeOrders]
    BY <2>1 DEF A!Swapped, AInv, A!TypeOK, A!Exists
  <2>3. call \in ACall
    BY <2>2 DEF ACall
  <2>4. ACalls'
    BY <2>1, <2>3 DEF AInv, ACalls
  <2>5. A!TypeOK' /\ A!CourseHasNumber'
    <3>1. \A q \in Calls : structureCall'[q] # Null =>
             structureCall'[q].op \in {"swap", "create", "update", "promotion", "room"}
      BY <2>4 DEF ACalls, ACall
    <3> QED BY <2>1, <3>1 DEF AInv, A!TypeOK, A!CourseHasNumber, A!Exists
  <2>6. A!Swapping' \subseteq A!Swapping \cup {p} /\ p \notin A!Swapping /\ A!Swapping \subseteq A!Swapping'
    BY <2>1 DEF A!Swapping, A!At
  <2>7. p \in A!Swapping' => structureCall'[p].to = A!Swapped(g, h)
    BY <2>1, <2>4 DEF A!Swapping, ACalls
  <2>8. A!NumbersDistinct' /\ ASwap'
    BY <2>1, <2>6 DEF AInv, A!NumbersDistinct, ASwap, A!Exists
  <2>9. ASwapped'
    <3> SUFFICES ASSUME ~disordered, A!Swapping = {}, NEW q \in A!Swapping',
                        NEW x \in LevelGrades, NEW y \in LevelGrades, x # y, A!Exists(x), A!Exists(y)
                 PROVE  ANumberAfter(q, x)' # ANumberAfter(q, y)'
      BY <2>1 DEF ASwapped, A!Exists
    <3>1. q = p /\ structureCall'[q].to = A!Swapped(g, h)
      BY <2>6, <2>7
    <3>2. \A a, b \in LevelGrades :
            a # b /\ A!Exists(a) /\ A!Exists(b) => displayOrder[a] # displayOrder[b]
      BY DEF AInv, A!NumbersDistinct
    <3>3. \A a \in LevelGrades :
            ANumberAfter(q, a)' = IF a = g THEN displayOrder[h] ELSE IF a = h THEN displayOrder[g]
                                  ELSE displayOrder[a]
      BY <2>1, <3>1 DEF ANumberAfter, A!Swapped
    <3> QED BY <2>1, <3>2, <3>3
  <2> QED BY <2>4, <2>5, <2>8, <2>9 DEF AInv
<1>5. ASSUME NEW p \in Calls, NEW g \in LevelGrades, A!SwapPatch(p, g)
      PROVE  AInv'
  <2> DEFINE value == structureCall[p].to[g]
  <2>1. /\ p \in A!Swapping /\ g \in DOMAIN structureCall[p].to /\ A!Exists(g)
        /\ A!Number(g, value, p) /\ courseRow' = courseRow
    BY <1>5 DEF A!SwapPatch, A!Swapping
  <2>2. /\ ACalls'
        /\ A!Swapping' \subseteq A!Swapping
        /\ \A q \in Calls \ {p} : structureCall'[q] = structureCall[q]
        /\ p \in A!Swapping' =>
             /\ DOMAIN structureCall'[p].to = DOMAIN structureCall[p].to \ {g}
             /\ \A h \in DOMAIN structureCall[p].to \ {g} : structureCall'[p].to[h] = structureCall[p].to[h]
        /\ p \notin A!Swapping' => DOMAIN structureCall[p].to = {g}
        /\ value \in GradeOrders
    BY <1>5, ADropped DEF A!SwapPatch
  <2>3. displayOrder' = [displayOrder EXCEPT ![g] = value] /\ value # Null
    BY <2>1, <2>2, InstitutionAssumption DEF A!Number
  <2>4. \A h \in LevelGrades : A!Exists(h)' <=> A!Exists(h)
    BY <2>1, <2>2, <2>3 DEF A!Exists, AInv, A!TypeOK
  <2>5. A!TypeOK'
    <3>1. \A q \in Calls : structureCall'[q] # Null =>
             structureCall'[q].op \in {"swap", "create", "update", "promotion", "room"}
      BY <2>2 DEF ACalls, ACall
    <3> QED BY <2>1, <2>2, <2>3, <2>4, <3>1 DEF AInv, A!TypeOK, A!Number
  <2>6. A!CourseHasNumber'
    BY <2>1, <2>2, <2>3 DEF AInv, A!CourseHasNumber, A!Exists, A!TypeOK, A!Number
  <2>7. ~disordered' => ~disordered /\ A!Swapping = {p}
    BY <2>1 DEF A!Number
  <2>8. p \in A!Swapping' => \A h \in LevelGrades : ANumberAfter(p, h)' = ANumberAfter(p, h)
    BY <2>1, <2>2, <2>3 DEF ANumberAfter, AInv, A!TypeOK
  <2>9. p \notin A!Swapping' => \A h \in LevelGrades : displayOrder'[h] = ANumberAfter(p, h)
    BY <2>1, <2>2, <2>3 DEF ANumberAfter, AInv, A!TypeOK
  <2>10. ASwap' /\ ASwapped'
    BY <2>2, <2>4, <2>7, <2>8 DEF AInv, ASwap, ASwapped
  <2>11. A!NumbersDistinct'
    BY <2>1, <2>2, <2>4, <2>7, <2>9 DEF AInv, ASwapped, A!NumbersDistinct
  <2> QED BY <2>2, <2>5, <2>6, <2>10, <2>11 DEF AInv
<1>6. ASSUME NEW p \in Calls, NEW g \in LevelGrades, A!SwapFails(p, g)
      PROVE  AInv'
  <2>1. ACalls' /\ disordered' = TRUE /\ UNCHANGED <<displayOrder, courseRow, outdated>>
    BY <1>6, ADropped DEF A!SwapFails
  <2>2. A!TypeOK' /\ A!CourseHasNumber'
    <3>1. \A q \in Calls : structureCall'[q] # Null =>
             structureCall'[q].op \in {"swap", "create", "update", "promotion", "room"}
      BY <2>1 DEF ACalls, ACall
    <3> QED BY <2>1, <3>1 DEF AInv, A!TypeOK, A!CourseHasNumber, A!Exists
  <2> QED BY <2>1, <2>2 DEF AInv, ASwap, ASwapped, A!NumbersDistinct
<1>7. ASSUME NEW p \in Calls, NEW op \in {"create", "update", "promotion"}, NEW c \in StructureCourses,
             NEW g \in LevelGrades, A!Resolve(p, op, c, g)
      PROVE  AInv'
  BY <1>7 DEF AInv, ASwap, ASwapped, ACalls, ACall, A!NumbersDistinct, A!CourseHasNumber,
    A!TypeOK, A!At, A!Exists, A!Swapping, A!Resolve, A!Begin, ANumberAfter
<1>8. ASSUME NEW p \in Calls, A!WriteCourse(p)
      PROVE  AInv'
  <2>1. PICK op \in {"create", "update", "promotion"}, c \in StructureCourses,
             g \in LevelGrades, n \in GradeOrders :
          structureCall[p] = [op |-> op, course |-> c, levelGrade |-> g, grade |-> n]
    BY <1>8 DEF A!WriteCourse, AInv, ACalls, ACall, A!At
  <2>2. /\ A!Exists(g) /\ structureCall[p] # Null
        /\ op = "update" => courseRow[c] # Null
        /\ courseRow' = [courseRow EXCEPT ![c] =
             [levelGrade |-> g, grade |-> n, room |-> op = "update" /\ courseRow[c].room]]
        /\ outdated' = IF displayOrder[g] = n THEN outdated \ {c} ELSE outdated \cup {c}
        /\ structureCall' = [structureCall EXCEPT ![p] =
             IF op = "create" THEN [op |-> "room", course |-> c] ELSE Null]
        /\ UNCHANGED <<displayOrder, disordered>>
    BY <1>8, <2>1 DEF A!WriteCourse, A!NewNumber, A!At
  <2>3. op = "update" => courseRow[c].room \in BOOLEAN
    BY <2>2 DEF AInv, A!TypeOK
  <2>4. ACalls'
    BY <2>2 DEF AInv, ACalls, ACall
  <2>5. A!TypeOK'
    <3>1. \A q \in Calls : structureCall'[q] # Null =>
             structureCall'[q].op \in {"swap", "create", "update", "promotion", "room"}
      BY <2>4 DEF ACalls, ACall
    <3>2. courseRow' \in [StructureCourses -> {Null} \cup
             [levelGrade : {h \in LevelGrades : A!Exists(h)}, grade : GradeOrders, room : BOOLEAN]]
      BY <2>2, <2>3 DEF AInv, A!TypeOK
    <3>3. \A h \in LevelGrades : A!Exists(h)' <=> A!Exists(h)
      BY <2>2 DEF A!Exists
    <3> QED BY <2>2, <3>1, <3>2, <3>3 DEF AInv, A!TypeOK
  <2>6. A!CourseHasNumber'
    BY <2>2 DEF AInv, A!CourseHasNumber, A!TypeOK
  <2>7. A!Swapping' = A!Swapping /\ \A q \in A!Swapping : structureCall'[q] = structureCall[q]
    BY <2>1, <2>2 DEF A!Swapping, A!At, AInv, ACalls
  <2>8. A!NumbersDistinct' /\ ASwap' /\ ASwapped'
    BY <2>2, <2>7 DEF AInv, ASwap, ASwapped, A!NumbersDistinct, A!Exists, ANumberAfter
  <2> QED BY <2>4, <2>5, <2>6, <2>8 DEF AInv
<1>9. ASSUME NEW p \in Calls, A!CreateRoom(p)
      PROVE  AInv'
  <2>1. PICK c \in StructureCourses :
          /\ structureCall[p] = [op |-> "room", course |-> c] /\ structureCall[p] # Null
          /\ courseRow[c] # Null
          /\ courseRow' = [courseRow EXCEPT ![c] = [courseRow[c] EXCEPT !.room = TRUE]]
          /\ structureCall' = [structureCall EXCEPT ![p] = Null]
          /\ UNCHANGED <<displayOrder, disordered, outdated>>
    BY <1>9 DEF A!CreateRoom, AInv, ACalls, ACall, A!At
  <2>2. ACalls' /\ A!CourseHasNumber'
    BY <2>1 DEF AInv, ACalls, A!CourseHasNumber, A!TypeOK
  <2>3. A!TypeOK'
    BY <2>1 DEF AInv, A!TypeOK, A!Exists, ACalls
  <2>4. A!Swapping' = A!Swapping /\ \A q \in A!Swapping : structureCall'[q] = structureCall[q]
    BY <2>1 DEF A!Swapping, A!At, AInv, ACalls
  <2>5. A!NumbersDistinct' /\ ASwap' /\ ASwapped'
    BY <2>1, <2>4 DEF AInv, ASwap, ASwapped, A!NumbersDistinct, A!Exists, ANumberAfter
  <2> QED BY <2>2, <2>3, <2>5 DEF AInv
<1>10. ASSUME NEW p \in Calls, A!Abort(p)
      PROVE  AInv'
  BY <1>10 DEF AInv, ASwap, ASwapped, ACalls, ACall, A!NumbersDistinct, A!CourseHasNumber,
    A!TypeOK, A!At, A!Exists, A!Swapping, A!Abort, ANumberAfter
<1> QED BY <1>1, <1>2, <1>3, <1>4, <1>5, <1>6, <1>7, <1>8, <1>9, <1>10 DEF A!Next

\* So does a step of another part.
LEMMA AStays == AInv /\ UNCHANGED aVars => AInv'
BY DEF AInv, A!TypeOK, A!NumbersDistinct, A!CourseHasNumber, ACalls, ASwap, ASwapped, ACall,
  ANumberAfter, A!At, A!Exists, A!Swapping, aVars

-----------------------------------------------------------------------------
(* Indicators *)

\* The places that a call gives, and the calls on a list.
LPlaces == UNION {[is -> 1 .. MaxOrder] : is \in SUBSET IndicatorIds}

LReorder == [op : {"reorder"}, grade : Grades, alone : BOOLEAN, places : LPlaces]

LCall == [op : {"create"}, grade : Grades, order : 1 .. MaxOrder, alone : BOOLEAN] \cup LReorder

\* The types of rows, calls and histories.
LTypes ==
    /\ indicatorRow \in [IndicatorIds -> {Null} \cup [grade : Grades, order : 1 .. MaxOrder]]
    /\ indicatorCall \in [Calls -> {Null} \cup LCall]
    /\ disturbed \subseteq Grades

\* The place an indicator will have when the reorder p has ended.
LPlaceAfter(p, i) ==
    IF i \in DOMAIN indicatorCall[p].places THEN indicatorCall[p].places[i] ELSE indicatorRow[i].order

\* A reorder gives places in its own list, and places that differ while it has the
\* list to itself.
LReorders ==
    \A g \in Grades : \A p \in L!Busy(g) : indicatorCall[p].op = "reorder" =>
        /\ \A i \in DOMAIN indicatorCall[p].places : L!Exists(i) => indicatorRow[i].grade = g
        /\ indicatorCall[p].alone =>
             \A i, j \in L!List(g) : i # j => LPlaceAfter(p, i) # LPlaceAfter(p, j)

\* A call that has a list to itself is the only one there; each has, unless the list is
\* disturbed.
LAlone ==
    \A g \in Grades : \A p \in L!Busy(g) :
        /\ indicatorCall[p].alone => L!Busy(g) = {p}
        /\ g \notin disturbed => indicatorCall[p].alone

\* The place for a new row comes after all that its list has.
LNext ==
    \A g \in Grades \ disturbed : \A p \in L!Busy(g) : indicatorCall[p].op = "create" =>
        \A i \in L!List(g) : indicatorRow[i].order < indicatorCall[p].order

\* What every step of the indicators keeps.
LInv == LTypes /\ LReorders /\ LAlone /\ LNext /\ L!PlacesDistinct

\* It holds at first.
LEMMA LInitial == L!Init => LInv
BY DEF LInv, LTypes, LReorders, LAlone, LNext, L!Busy, L!Init, L!PlacesDistinct, L!Exists

\* The highest of a set of numbers up to MaxOrder.
LEMMA LHighest ==
    ASSUME NEW ns \in SUBSET (0 .. MaxOrder), ns # {}
    PROVE  L!Max(ns) \in ns /\ \A n \in ns : n <= L!Max(ns)
<1>1. \E t \in ns : \A u \in ns : t >= u
  <2> DEFINE lt == OpToRel(<, Nat)
             down == {MaxOrder - n : n \in ns}
  <2>1. IsWellFoundedOn(lt, Nat)
    BY NatLessThanWellFounded
  <2>2. \A x, y \in Nat : y < x => <<y, x>> \in lt
    BY DEF OpToRel
  <2>3. down \subseteq Nat /\ down # {}
    <3>1. \A n \in 0 .. MaxOrder : MaxOrder - n \in Nat
      BY InstitutionAssumption
    <3> QED BY <3>1
  <2> HIDE DEF lt
  <2>4. PICK d \in down : \A e \in down : ~ (<<e, d>> \in lt)
    <3> HIDE DEF down
    <3> QED BY <2>1, <2>3, WFMin
  <2>5. PICK t \in ns : d = MaxOrder - t
    BY <2>4
  <2>6. ASSUME NEW u \in ns PROVE t >= u
    <3>1. MaxOrder - u \in down /\ MaxOrder - u \in Nat /\ d \in Nat
      BY <2>3, <2>4
    <3>2. ~ (MaxOrder - u < d)
      BY <2>2, <2>4, <3>1
    <3> QED BY <2>5, <3>2, InstitutionAssumption
  <2> QED BY <2>6
<1> QED BY <1>1 DEF L!Max

\* The next place comes after every one that is taken.
LEMMA LNextOrder ==
    ASSUME LTypes
    PROVE  /\ L!NextOrder \in 1 .. MaxOrder + 1
           /\ \A i \in IndicatorIds : L!Exists(i) => indicatorRow[i].order < L!NextOrder
<1> DEFINE ns == {0} \cup {indicatorRow[i].order : i \in {j \in IndicatorIds : L!Exists(j)}}
<1>1. ns \subseteq 0 .. MaxOrder /\ ns # {}
  BY InstitutionAssumption DEF LTypes, L!Exists
<1>2. L!NextOrder = L!Max(ns) + 1
  BY DEF L!NextOrder
<1>3. L!Max(ns) \in ns /\ \A n \in ns : n <= L!Max(ns)
  BY <1>1, LHighest
<1>4. L!Max(ns) \in 0 .. MaxOrder
  BY <1>1, <1>3
<1>5. \A i \in IndicatorIds : L!Exists(i) => indicatorRow[i].order \in ns
  OBVIOUS
<1> DEFINE top == L!Max(ns)
<1>6. top \in 0 .. MaxOrder /\ L!NextOrder = top + 1
      /\ \A i \in IndicatorIds : L!Exists(i) => indicatorRow[i].order <= top
  BY <1>2, <1>3, <1>4, <1>5
<1>7. \A i \in IndicatorIds : L!Exists(i) => indicatorRow[i].order \in Nat
  BY DEF LTypes, L!Exists
<1> HIDE DEF ns, top
<1> QED BY <1>6, <1>7, InstitutionAssumption

\* A call that no longer has its list to itself is otherwise as it was.
LEMMA LTold ==
    ASSUME NEW call \in LCall
    PROVE  /\ [call EXCEPT !.alone = FALSE] \in LCall
           /\ [call EXCEPT !.alone = FALSE].grade = call.grade
           /\ [call EXCEPT !.alone = FALSE].op = call.op
           /\ ~[call EXCEPT !.alone = FALSE].alone
           /\ call.op = "create" => [call EXCEPT !.alone = FALSE].order = call.order
           /\ call.op = "reorder" => [call EXCEPT !.alone = FALSE].places = call.places
BY DEF LCall, LReorder

\* What Joined does to the calls.
LEMMA LJoined ==
    ASSUME LTypes, NEW g \in Grades
    PROVE  /\ L!Joined(g) \in [Calls -> {Null} \cup LCall]
           /\ \A q \in Calls :
                /\ q \notin L!Busy(g) => L!Joined(g)[q] = indicatorCall[q]
                /\ q \in L!Busy(g) =>
                     /\ indicatorCall[q] \in LCall /\ indicatorCall[q] # Null
                     /\ L!Joined(g)[q] \in LCall
                     /\ L!Joined(g)[q].grade = indicatorCall[q].grade
                     /\ L!Joined(g)[q].op = indicatorCall[q].op
                     /\ ~L!Joined(g)[q].alone
                     /\ indicatorCall[q].op = "create" => L!Joined(g)[q].order = indicatorCall[q].order
                     /\ indicatorCall[q].op = "reorder" => L!Joined(g)[q].places = indicatorCall[q].places
<1>1. \A q \in L!Busy(g) : q \in Calls /\ indicatorCall[q] \in LCall /\ indicatorCall[q] # Null
  BY DEF LTypes, L!Busy
<1>2. \A q \in Calls : L!Joined(g)[q] =
        IF q \in L!Busy(g) THEN [indicatorCall[q] EXCEPT !.alone = FALSE] ELSE indicatorCall[q]
  BY DEF L!Joined
<1>3. \A q \in Calls : L!Joined(g)[q] \in {Null} \cup LCall
  BY <1>1, <1>2, LTold DEF LTypes
<1>4. L!Joined(g) \in [Calls -> {Null} \cup LCall]
  BY <1>3 DEF L!Joined
<1> QED BY <1>1, <1>2, <1>4, LTold

\* A call that begins is told, and tells the others, whether it has the list to itself.
LEMMA LBegin ==
    ASSUME LInv, NEW p \in Calls, NEW call \in LCall, L!Begin(p, call),
           call.alone <=> L!Busy(call.grade) = {},
           call.op = "create" => \A i \in L!List(call.grade) : indicatorRow[i].order < call.order,
           call.op = "reorder" =>
             /\ DOMAIN call.places = L!List(call.grade)
             /\ \A i, j \in DOMAIN call.places : call.places[i] = call.places[j] => i = j
    PROVE  LInv'
<1> DEFINE g == call.grade
<1>0. g \in Grades /\ LTypes
  BY DEF LCall, LReorder, LInv
<1>1. /\ indicatorCall[p] = Null /\ indicatorRow' = indicatorRow
      /\ indicatorCall'[p] = call
      /\ \A q \in Calls \ {p} : indicatorCall'[q] = L!Joined(g)[q]
      /\ indicatorCall' \in [Calls -> {Null} \cup LCall]
      /\ disturbed' = IF L!Busy(g) = {} THEN disturbed ELSE disturbed \cup {g}
  BY <1>0, LJoined DEF L!Begin
<1>2. \A q \in Calls \ {p} :
        /\ q \notin L!Busy(g) => indicatorCall'[q] = indicatorCall[q]
        /\ q \in L!Busy(g) =>
             /\ indicatorCall[q] # Null /\ indicatorCall'[q] \in LCall
             /\ indicatorCall'[q].grade = g /\ indicatorCall[q].grade = g
             /\ indicatorCall'[q].op = indicatorCall[q].op
             /\ ~indicatorCall'[q].alone
             /\ indicatorCall[q].op = "create" => indicatorCall'[q].order = indicatorCall[q].order
             /\ indicatorCall[q].op = "reorder" => indicatorCall'[q].places = indicatorCall[q].places
  BY <1>0, <1>1, LJoined DEF L!Busy
<1> HIDE DEF g
<1>3. LTypes'
  BY <1>0, <1>1 DEF LTypes
<1>4. \A i : L!Exists(i)' <=> L!Exists(i)
  BY <1>1 DEF L!Exists
<1>5. \A h \in Grades : L!List(h)' = L!List(h)
  BY <1>1, <1>4 DEF L!List
<1>a. Null \notin LCall
  BY InstitutionAssumption DEF LCall, LReorder, LPlaces
<1>b. /\ p \notin L!Busy(g) /\ L!Busy(g)' = L!Busy(g) \cup {p}
      /\ \A h \in Grades \ {g} : L!Busy(h)' = L!Busy(h)
  <2>1. \A q \in Calls : q \in L!Busy(g)' <=> q \in L!Busy(g) \cup {p}
    BY <1>1, <1>2, <1>a DEF L!Busy, g
  <2>2. \A h \in Grades \ {g}, q \in Calls : q \in L!Busy(h)' <=> q \in L!Busy(h)
    BY <1>1, <1>2 DEF L!Busy, g
  <2> QED BY <1>1, <2>1, <2>2 DEF L!Busy
<1>c. \A h \in Grades \ {g} : \A q \in L!Busy(h) : q # p /\ indicatorCall'[q] = indicatorCall[q]
  BY <1>1, <1>2 DEF L!Busy
<1>6. LReorders'
  <2> SUFFICES ASSUME NEW h \in Grades, NEW q \in L!Busy(h)', indicatorCall'[q].op = "reorder"
               PROVE  /\ \A i \in DOMAIN indicatorCall'[q].places : L!Exists(i)' => indicatorRow'[i].grade = h
                      /\ indicatorCall'[q].alone =>
                           \A i, j \in L!List(h)' : i # j => LPlaceAfter(q, i)' # LPlaceAfter(q, j)'
    BY DEF LReorders
  <2>1. CASE q = p
    <3>1. h = g
      BY <1>1, <2>1 DEF L!Busy, g
    <3> QED BY <1>0, <1>1, <1>4, <1>5, <2>1, <3>1 DEF LPlaceAfter, L!List, g
  <2>2. CASE q # p /\ h = g
    <3>1. q \in L!Busy(g) /\ q \in Calls \ {p}
      BY <1>b, <2>2 DEF L!Busy
    <3>2. /\ ~indicatorCall'[q].alone /\ indicatorCall[q].op = "reorder"
          /\ indicatorCall'[q].places = indicatorCall[q].places
      BY <1>2, <2>2, <3>1
    <3> QED BY <1>0, <1>1, <1>4, <2>2, <3>1, <3>2 DEF LReorders, LInv
  <2>3. CASE h # g
    <3>1. q \in L!Busy(h) /\ q # p /\ indicatorCall'[q] = indicatorCall[q]
      BY <1>b, <1>c, <2>3
    <3>2. \A i : LPlaceAfter(q, i)' = LPlaceAfter(q, i)
      BY <1>1, <3>1 DEF LPlaceAfter
    <3> QED BY <1>1, <1>4, <1>5, <3>1, <3>2 DEF LReorders, LInv
  <2> QED BY <2>1, <2>2, <2>3
<1>7. LAlone'
  <2> SUFFICES ASSUME NEW h \in Grades, NEW q \in L!Busy(h)'
               PROVE  /\ indicatorCall'[q].alone => L!Busy(h)' = {q}
                      /\ h \notin disturbed' => indicatorCall'[q].alone
    BY DEF LAlone
  <2>1. CASE q = p
    <3>1. h = g
      BY <1>1, <2>1 DEF L!Busy, g
    <3> QED BY <1>0, <1>1, <1>b, <2>1, <3>1 DEF g
  <2>2. CASE q # p /\ h = g
    <3>1. q \in L!Busy(g) /\ q \in Calls \ {p}
      BY <1>b, <2>2 DEF L!Busy
    <3> QED BY <1>1, <1>2, <2>2, <3>1
  <2>3. CASE h # g
    BY <1>1, <1>b, <1>c, <2>3 DEF LAlone, LInv
  <2> QED BY <2>1, <2>2, <2>3
<1>8. LNext'
  <2> SUFFICES ASSUME NEW h \in Grades, h \notin disturbed', NEW q \in L!Busy(h)',
                      indicatorCall'[q].op = "create", NEW i \in L!List(h)'
               PROVE  indicatorRow'[i].order < indicatorCall'[q].order
    BY DEF LNext
  <2>1. CASE q = p
    <3>1. h = g
      BY <1>1, <2>1 DEF L!Busy, g
    <3> QED BY <1>0, <1>1, <1>5, <2>1, <3>1 DEF g
  <2>2. CASE q # p /\ h = g
    BY <1>1, <1>2, <1>b, <2>2
  <2>3. CASE h # g
    BY <1>1, <1>5, <1>b, <1>c, <2>3 DEF LNext, LInv
  <2> QED BY <2>1, <2>2, <2>3
<1>9. L!PlacesDistinct'
  <2>1. \A h \in Grades : \A q \in L!Busy(h) :
           indicatorCall[q].op = "reorder" => q \in L!Busy(h)' /\ indicatorCall'[q].op = "reorder"
    BY <1>0, <1>1, <1>2, <1>b DEF L!Busy
  <2>2. \A i \in IndicatorIds : L!Exists(i) => indicatorRow[i].grade \in Grades
    BY <1>0 DEF LTypes, L!Exists
  <2>3. disturbed \subseteq disturbed'
    BY <1>1
  <2> QED BY <1>1, <1>4, <2>1, <2>2, <2>3 DEF LInv, L!PlacesDistinct
<1> QED BY <1>3, <1>6, <1>7, <1>8, <1>9 DEF LInv

\* A row made at the next place of its list keeps it,
LEMMA LCreate ==
    ASSUME LInv, NEW p \in Calls, L!Create(p)
    PROVE  LInv'
<1> DEFINE r == indicatorCall[p]
           g == r.grade
<1>0. Null \notin LCall
  BY InstitutionAssumption DEF LCall, LReorder, LPlaces
<1>1. PICK i \in IndicatorIds :
        /\ L!Unused(i)
        /\ indicatorRow' = [indicatorRow EXCEPT ![i] = [grade |-> g, order |-> r.order]]
  BY DEF L!Create
<1>2. /\ r # Null /\ r \in LCall /\ r.op = "create" /\ g \in Grades /\ r.order \in 1 .. MaxOrder
      /\ indicatorCall' = [indicatorCall EXCEPT ![p] = Null] /\ disturbed' = disturbed
  BY DEF L!Create, LInv, LTypes, LCall, LReorder
<1>3. p \in L!Busy(g)
  BY <1>2 DEF L!Busy
<1>4. /\ \A h \in Grades : L!Busy(h)' \subseteq L!Busy(h) \ {p}
      /\ \A h \in Grades : L!Busy(h) \ {p} \subseteq L!Busy(h)'
      /\ \A q \in Calls \ {p} : indicatorCall'[q] = indicatorCall[q]
  BY <1>2 DEF L!Busy, LInv, LTypes
<1>5. /\ \A j \in IndicatorIds \ {i} : indicatorRow'[j] = indicatorRow[j]
      /\ indicatorRow'[i] = [grade |-> g, order |-> r.order]
      /\ ~L!Exists(i)
  BY <1>1 DEF LInv, LTypes, L!Unused
<1>6. LTypes'
  BY <1>1, <1>2 DEF LInv, LTypes
<1> HIDE DEF r, g
<1>7. \A h \in Grades : /\ L!List(h)' \subseteq L!List(h) \cup {i}
                        /\ h # g => L!List(h)' = L!List(h)
  <2>1. \A h \in Grades : \A j \in IndicatorIds \ {i} : j \in L!List(h)' <=> j \in L!List(h)
    BY <1>5 DEF L!List, L!Exists
  <2>2. \A h \in Grades \ {g} : i \notin L!List(h)' /\ i \notin L!List(h)
    BY <1>5 DEF L!List
  <2>3. \A h : L!List(h) \subseteq IndicatorIds /\ L!List(h)' \subseteq IndicatorIds
    BY DEF L!List
  <2>4. ASSUME NEW h \in Grades \ {g} PROVE L!List(h)' = L!List(h)
    BY <2>1, <2>2, <2>3
  <2>6. ASSUME NEW h \in Grades PROVE L!List(h)' \subseteq L!List(h) \cup {i}
    BY <2>1, <2>3
  <2> QED BY <2>4, <2>6
<1>8. \A h \in Grades : \A q \in L!Busy(h)' :
         /\ q \in Calls /\ q \in L!Busy(h) /\ q # p /\ indicatorCall'[q] = indicatorCall[q]
         /\ indicatorCall[q] # Null /\ (indicatorCall[q].alone => h # g)
         /\ h \notin disturbed => h # g
  BY <1>2, <1>3, <1>4 DEF LInv, LAlone, L!Busy
<1>9. LReorders'
  <2> SUFFICES ASSUME NEW h \in Grades, NEW q \in L!Busy(h)', indicatorCall'[q].op = "reorder"
               PROVE  /\ \A j \in DOMAIN indicatorCall'[q].places : L!Exists(j)' => indicatorRow'[j].grade = h
                      /\ indicatorCall'[q].alone =>
                           \A j, k \in L!List(h)' : j # k => LPlaceAfter(q, j)' # LPlaceAfter(q, k)'
    BY DEF LReorders
  <2>1. /\ q \in Calls /\ q \in L!Busy(h) /\ indicatorCall'[q] = indicatorCall[q]
        /\ (indicatorCall[q].alone => h # g) /\ indicatorCall[q] # Null /\ indicatorCall[q].op = "reorder"
    BY <1>8
  <2>2. i \notin DOMAIN indicatorCall[q].places
    BY <1>1, <2>1 DEF L!Unused
  <2>3. DOMAIN indicatorCall[q].places \subseteq IndicatorIds
    BY <2>1 DEF LInv, LTypes, LCall, LReorder, LPlaces
  <2>4. \A j \in DOMAIN indicatorCall'[q].places : L!Exists(j)' => indicatorRow'[j].grade = h
    BY <1>5, <2>1, <2>2, <2>3 DEF L!Exists, LInv, LReorders
  <2>5. ASSUME indicatorCall'[q].alone, NEW j \in L!List(h)', NEW k \in L!List(h)', j # k
        PROVE  LPlaceAfter(q, j)' # LPlaceAfter(q, k)'
    <3>1. j \in L!List(h) /\ k \in L!List(h) /\ j # i /\ k # i
      BY <1>5, <1>7, <2>1, <2>5 DEF L!List
    <3>2. LPlaceAfter(q, j) # LPlaceAfter(q, k)
      BY <2>1, <2>5, <3>1 DEF LInv, LReorders
    <3>3. LPlaceAfter(q, j)' = LPlaceAfter(q, j) /\ LPlaceAfter(q, k)' = LPlaceAfter(q, k)
      BY <1>5, <2>1, <3>1 DEF LPlaceAfter, L!List
    <3> QED BY <3>2, <3>3
  <2> QED BY <2>4, <2>5
<1>10. LAlone'
  BY <1>2, <1>4, <1>8 DEF LInv, LAlone
<1>11. LNext'
  BY <1>2, <1>5, <1>7, <1>8 DEF LInv, LNext, L!List
<1>12. L!PlacesDistinct'
  <2> SUFFICES ASSUME NEW j \in IndicatorIds, NEW k \in IndicatorIds, j # k,
                      L!Exists(j)', L!Exists(k)', indicatorRow'[j] = indicatorRow'[k],
                      indicatorRow'[j].grade \notin disturbed'
               PROVE  \E q \in L!Busy(indicatorRow[j].grade)' : indicatorCall'[q].op = "reorder"
    BY DEF L!PlacesDistinct
  <2>1. \A l \in IndicatorIds \ {i} :
          L!Exists(l)' => L!Exists(l) /\ (indicatorRow[l].grade = g /\ g \notin disturbed => indicatorRow[l].order < r.order)
    BY <1>2, <1>3, <1>5 DEF L!Exists, LInv, LNext, L!List, r
  <2>2. \A l \in IndicatorIds \ {i} : L!Exists(l) => indicatorRow[l].order \in Nat
    BY DEF LInv, LTypes, L!Exists
  <2>3. j # i /\ k # i
    BY <1>2, <1>5, <2>1, <2>2
  <2> DEFINE h == indicatorRow[j].grade
  <2>4. h \in Grades /\ indicatorRow'[j] = indicatorRow[j] /\ L!Exists(j) /\ L!Exists(k)
        /\ indicatorRow[j] = indicatorRow[k] /\ h \notin disturbed
    BY <1>2, <1>5, <2>1, <2>3 DEF LInv, LTypes, L!Exists
  <2>5. PICK q \in L!Busy(h) : indicatorCall[q].op = "reorder"
    BY <2>4 DEF LInv, L!PlacesDistinct
  <2>6. q # p /\ q \in Calls
    BY <1>2, <2>5 DEF r, L!Busy
  <2>7. q \in L!Busy(indicatorRow[j].grade)' /\ indicatorCall'[q].op = "reorder"
    BY <1>4, <2>4, <2>5, <2>6 DEF L!Busy
  <2> QED BY <2>7
<1> QED BY <1>6, <1>9, <1>10, <1>11, <1>12 DEF LInv

\* and one made at a place of its own.
LEMMA LCreateAt ==
    ASSUME LInv, NEW i \in IndicatorIds, NEW g \in Grades, NEW n \in 1 .. MaxOrder, L!CreateAt(i, g, n)
    PROVE  LInv'
<1>1. /\ ~L!Exists(i) /\ L!Unused(i) /\ indicatorRow'[i] = [grade |-> g, order |-> n]
      /\ \A j \in IndicatorIds \ {i} : indicatorRow'[j] = indicatorRow[j]
      /\ disturbed' = disturbed \cup {g}
      /\ indicatorCall' = L!Joined(g)
  BY DEF L!CreateAt, L!Unused, LInv, LTypes
<1>a. Null \notin LCall
  BY InstitutionAssumption DEF LCall, LReorder, LPlaces
<1>2. \A q \in Calls :
        /\ q \notin L!Busy(g) => indicatorCall'[q] = indicatorCall[q]
        /\ q \in L!Busy(g) =>
             /\ indicatorCall[q] # Null /\ indicatorCall'[q] # Null
             /\ indicatorCall'[q].grade = g /\ indicatorCall[q].grade = g
             /\ indicatorCall'[q].op = indicatorCall[q].op
             /\ ~indicatorCall'[q].alone
             /\ indicatorCall[q].op = "reorder" => indicatorCall'[q].places = indicatorCall[q].places
  BY <1>1, <1>a, LJoined DEF LInv, L!Busy
<1>3. LTypes'
  BY <1>1, LJoined DEF L!CreateAt, LInv, LTypes
<1>4. \A h \in Grades : L!Busy(h)' = L!Busy(h)
  BY <1>2 DEF L!Busy
<1>5. \A h \in Grades \ {g} : \A q \in L!Busy(h) : q \in Calls /\ indicatorCall'[q] = indicatorCall[q]
  BY <1>2 DEF L!Busy
<1>6. \A h \in Grades \ {g} : L!List(h)' = L!List(h) /\ i \notin L!List(h)
  <2>1. \A h \in Grades : \A j \in IndicatorIds \ {i} : j \in L!List(h)' <=> j \in L!List(h)
    BY <1>1 DEF L!List, L!Exists
  <2>2. \A h \in Grades \ {g} : i \notin L!List(h)' /\ i \notin L!List(h)
    BY <1>1 DEF L!List
  <2>3. \A h : L!List(h) \subseteq IndicatorIds /\ L!List(h)' \subseteq IndicatorIds
    BY DEF L!List
  <2> QED BY <2>1, <2>2, <2>3
<1>7. LReorders'
  <2> SUFFICES ASSUME NEW h \in Grades, NEW q \in L!Busy(h), indicatorCall'[q].op = "reorder"
               PROVE  /\ \A j \in DOMAIN indicatorCall'[q].places : L!Exists(j)' => indicatorRow'[j].grade = h
                      /\ indicatorCall'[q].alone =>
                           \A j, k \in L!List(h)' : j # k => LPlaceAfter(q, j)' # LPlaceAfter(q, k)'
    BY <1>4 DEF LReorders
  <2>1. /\ q \in Calls /\ indicatorCall[q] # Null /\ indicatorCall[q].op = "reorder"
        /\ indicatorCall'[q].places = indicatorCall[q].places
        /\ indicatorCall'[q].alone => h # g /\ indicatorCall[q].alone
    BY <1>2, <1>5 DEF L!Busy
  <2>2. i \notin DOMAIN indicatorCall[q].places
    BY <1>1, <2>1 DEF L!Unused
  <2>3. DOMAIN indicatorCall[q].places \subseteq IndicatorIds
    BY <2>1 DEF LInv, LTypes, LCall, LReorder, LPlaces
  <2>4. \A j \in DOMAIN indicatorCall'[q].places : L!Exists(j)' => indicatorRow'[j].grade = h
    BY <1>1, <2>1, <2>2, <2>3 DEF L!Exists, LInv, LReorders
  <2>5. ASSUME indicatorCall'[q].alone, NEW j \in L!List(h)', NEW k \in L!List(h)', j # k
        PROVE  LPlaceAfter(q, j)' # LPlaceAfter(q, k)'
    <3>1. j \in L!List(h) /\ k \in L!List(h) /\ j # i /\ k # i
      BY <1>6, <2>1, <2>5
    <3>2. LPlaceAfter(q, j) # LPlaceAfter(q, k)
      BY <2>1, <2>5, <3>1 DEF LInv, LReorders
    <3>3. LPlaceAfter(q, j)' = LPlaceAfter(q, j) /\ LPlaceAfter(q, k)' = LPlaceAfter(q, k)
      BY <1>1, <2>1, <3>1 DEF LPlaceAfter, L!List
    <3> QED BY <3>2, <3>3
  <2> QED BY <2>4, <2>5
<1>8. LAlone'
  <2> SUFFICES ASSUME NEW h \in Grades, NEW q \in L!Busy(h)
               PROVE  /\ indicatorCall'[q].alone => L!Busy(h) = {q}
                      /\ h \notin disturbed' => indicatorCall'[q].alone
    BY <1>4 DEF LAlone
  <2>1. CASE h = g
    <3>1. q \in Calls
      BY DEF L!Busy
    <3> QED BY <1>1, <1>2, <2>1, <3>1
  <2>2. CASE h # g
    BY <1>1, <1>5, <2>2 DEF LInv, LAlone
  <2> QED BY <2>1, <2>2
<1>9. LNext'
  <2> SUFFICES ASSUME NEW h \in Grades, h \notin disturbed', NEW q \in L!Busy(h),
                      indicatorCall'[q].op = "create", NEW j \in L!List(h)'
               PROVE  indicatorRow'[j].order < indicatorCall'[q].order
    BY <1>4 DEF LNext
  <2>1. h # g /\ h \notin disturbed /\ j \in L!List(h) /\ j # i /\ indicatorCall'[q] = indicatorCall[q]
    BY <1>1, <1>5, <1>6
  <2>2. indicatorRow'[j] = indicatorRow[j]
    BY <1>1, <2>1 DEF L!List
  <2> QED BY <2>1, <2>2 DEF LInv, LNext
<1>10. L!PlacesDistinct'
  <2> SUFFICES ASSUME NEW j \in IndicatorIds, NEW k \in IndicatorIds, j # k,
                      L!Exists(j)', L!Exists(k)', indicatorRow'[j] = indicatorRow'[k],
                      indicatorRow'[j].grade \notin disturbed'
               PROVE  \E q \in L!Busy(indicatorRow[j].grade)' : indicatorCall'[q].op = "reorder"
    BY DEF L!PlacesDistinct
  <2>1. j # i /\ k # i
    BY <1>1
  <2>2. /\ indicatorRow[j].grade \in Grades /\ indicatorRow'[j] = indicatorRow[j]
        /\ L!Exists(j) /\ L!Exists(k) /\ indicatorRow[j] = indicatorRow[k]
        /\ indicatorRow[j].grade \notin disturbed
    BY <1>1, <2>1 DEF LInv, LTypes, L!Exists
  <2>3. PICK q \in L!Busy(indicatorRow[j].grade) : indicatorCall[q].op = "reorder"
    BY <2>2 DEF LInv, L!PlacesDistinct
  <2>4. q \in Calls
    BY <2>3 DEF L!Busy
  <2>5. q \in L!Busy(indicatorRow[j].grade)' /\ indicatorCall'[q].op = "reorder"
    BY <1>2, <2>2, <2>3, <2>4 DEF L!Busy
  <2> QED BY <2>5
<1> QED BY <1>3, <1>7, <1>8, <1>9, <1>10 DEF LInv

\* A row that goes leaves a gap, no more.
LEMMA LRemove ==
    ASSUME LInv, NEW i \in IndicatorIds, L!Remove(i)
    PROVE  LInv'
<1>1. /\ \A j \in IndicatorIds : L!Exists(j)' => L!Exists(j) /\ indicatorRow'[j] = indicatorRow[j]
      /\ UNCHANGED <<indicatorCall, disturbed>>
  BY DEF L!Remove, L!Exists, LInv, LTypes
<1>2. LTypes'
  BY DEF L!Remove, LInv, LTypes
<1>3. \A g \in Grades : L!Busy(g)' = L!Busy(g)
  BY <1>1 DEF L!Busy
<1>4. \A g \in Grades : \A j \in L!List(g)' : j \in L!List(g) /\ indicatorRow'[j] = indicatorRow[j]
  BY <1>1 DEF L!List
<1>5. \A g \in Grades : \A p \in L!Busy(g) : indicatorCall[p].op = "reorder" =>
         DOMAIN indicatorCall[p].places \subseteq IndicatorIds
  BY DEF LInv, LTypes, LCall, LReorder, LPlaces, L!Busy
<1>6. \A p : \A j \in IndicatorIds :
         indicatorRow'[j] = indicatorRow[j] => LPlaceAfter(p, j)' = LPlaceAfter(p, j)
  BY <1>1 DEF LPlaceAfter
<1>7. LReorders'
  <2> SUFFICES ASSUME NEW g \in Grades, NEW p \in L!Busy(g), indicatorCall[p].op = "reorder"
               PROVE  /\ \A j \in DOMAIN indicatorCall[p].places : L!Exists(j)' => indicatorRow'[j].grade = g
                      /\ indicatorCall[p].alone =>
                           \A j, k \in L!List(g)' : j # k => LPlaceAfter(p, j)' # LPlaceAfter(p, k)'
    BY <1>1, <1>3 DEF LReorders
  <2>1. \A j \in DOMAIN indicatorCall[p].places : L!Exists(j)' => indicatorRow'[j].grade = g
    BY <1>1, <1>5 DEF LInv, LReorders
  <2>2. ASSUME indicatorCall[p].alone, NEW j \in L!List(g)', NEW k \in L!List(g)', j # k
        PROVE  LPlaceAfter(p, j)' # LPlaceAfter(p, k)'
    <3>1. j \in IndicatorIds /\ k \in IndicatorIds
      BY DEF L!List
    <3> QED BY <1>4, <1>6, <2>2, <3>1 DEF LInv, LReorders
  <2> QED BY <2>1, <2>2
<1>8. LAlone'
  BY <1>1, <1>3 DEF LInv, LAlone
<1>9. LNext'
  BY <1>1, <1>3, <1>4 DEF LInv, LNext
<1>10. L!PlacesDistinct'
  <2>1. \A j \in IndicatorIds : L!Exists(j) => indicatorRow[j].grade \in Grades
    BY DEF LInv, LTypes, L!Exists
  <2> QED BY <1>1, <1>3, <2>1 DEF LInv, L!PlacesDistinct
<1> QED BY <1>2, <1>7, <1>8, <1>9, <1>10 DEF LInv

\* A call that fails leaves its list disturbed if it was to give places.
LEMMA LStops ==
    ASSUME LInv, NEW p \in Calls, NEW call \in {Null} \cup LCall, indicatorCall[p] # Null,
           call # Null => /\ call.grade = indicatorCall[p].grade /\ call.op = "reorder" /\ ~call.alone
                          /\ indicatorCall[p].op = "reorder"
                          /\ DOMAIN call.places \subseteq DOMAIN indicatorCall[p].places,
           indicatorCall' = [indicatorCall EXCEPT ![p] = call], indicatorRow' = indicatorRow,
           disturbed' = IF indicatorCall[p].op = "reorder"
                        THEN disturbed \cup {indicatorCall[p].grade} ELSE disturbed
    PROVE  LInv'
<1> DEFINE g == indicatorCall[p].grade
<1>1. /\ g \in Grades /\ indicatorCall'[p] = call
      /\ \A q \in Calls \ {p} : indicatorCall'[q] = indicatorCall[q]
      /\ p \in L!Busy(g) /\ disturbed \subseteq disturbed' /\ disturbed' \subseteq Grades
  BY DEF LInv, LTypes, LCall, LReorder, L!Busy
<1>2. LTypes'
  BY <1>1 DEF LInv, LTypes
<1>3. \A h \in Grades :
        /\ h # g => L!Busy(h)' = L!Busy(h) /\ p \notin L!Busy(h)
        /\ h = g => L!Busy(h)' = IF call = Null THEN L!Busy(h) \ {p} ELSE L!Busy(h)
  <2>1. \A h \in Grades \ {g} : \A q \in Calls : (q \in L!Busy(h)' <=> q \in L!Busy(h)) /\ (q \in L!Busy(h) => q # p)
    BY <1>1 DEF L!Busy
  <2>2. ASSUME NEW h \in Grades, h = g
        PROVE  L!Busy(h)' = IF call = Null THEN L!Busy(h) \ {p} ELSE L!Busy(h)
    <3>1. call # Null => call.grade = h
      BY <2>2
    <3>2. \A q \in Calls : q # p => (q \in L!Busy(h)' <=> q \in L!Busy(h))
      BY <1>1 DEF L!Busy
    <3>3. p \in L!Busy(h)' <=> call # Null
      BY <1>1, <3>1 DEF L!Busy
    <3>4. L!Busy(h) \subseteq Calls /\ L!Busy(h)' \subseteq Calls /\ p \in L!Busy(h)
      BY <1>1, <2>2 DEF L!Busy
    <3> QED BY <3>2, <3>3, <3>4
  <2>3. \A h : L!Busy(h) \subseteq Calls /\ L!Busy(h)' \subseteq Calls
    BY DEF L!Busy
  <2>4. ASSUME NEW h \in Grades \ {g} PROVE L!Busy(h)' = L!Busy(h) /\ p \notin L!Busy(h)
    BY <2>1, <2>3
  <2> HIDE DEF g
  <2> QED BY <2>2, <2>3, <2>4
<1>4. indicatorCall[p].op = "reorder" => g \in disturbed'
  OBVIOUS
<1> HIDE DEF g
<1>5. \A h \in Grades : L!List(h)' = L!List(h)
  BY DEF L!List, L!Exists
<1>6. \A i : L!Exists(i)' <=> L!Exists(i)
  BY DEF L!Exists
<1>7. \A q \in Calls \ {p} : \A i : LPlaceAfter(q, i)' = LPlaceAfter(q, i)
  BY <1>1 DEF LPlaceAfter
<1>8. \A h \in Grades : \A q \in L!Busy(h)' :
        /\ q \in L!Busy(h) /\ q \in Calls
        /\ q # p => indicatorCall'[q] = indicatorCall[q]
        /\ q = p => h = g /\ call # Null /\ indicatorCall'[q] = call
  BY <1>1, <1>3 DEF L!Busy
<1>9. LReorders'
  <2> SUFFICES ASSUME NEW h \in Grades, NEW q \in L!Busy(h)', indicatorCall'[q].op = "reorder"
               PROVE  /\ \A j \in DOMAIN indicatorCall'[q].places : L!Exists(j)' => indicatorRow'[j].grade = h
                      /\ indicatorCall'[q].alone =>
                           \A j, k \in L!List(h)' : j # k => LPlaceAfter(q, j)' # LPlaceAfter(q, k)'
    BY DEF LReorders
  <2>1. CASE q = p
    BY <1>1, <1>6, <1>8, <2>1 DEF LInv, LReorders, g
  <2>2. CASE q # p
    BY <1>5, <1>6, <1>7, <1>8, <2>2 DEF LInv, LReorders
  <2> QED BY <2>1, <2>2
<1>10. LAlone'
  BY <1>1, <1>3, <1>4, <1>8 DEF LInv, LAlone, g
<1>11. LNext'
  BY <1>1, <1>5, <1>8 DEF LInv, LNext
<1>12. L!PlacesDistinct'
  <2>1. \A j \in IndicatorIds : L!Exists(j) => indicatorRow[j].grade \in Grades
    BY DEF LInv, LTypes, L!Exists
  <2>2. ASSUME NEW h \in Grades \ disturbed', NEW q \in L!Busy(h), indicatorCall[q].op = "reorder"
        PROVE  q \in L!Busy(h)' /\ indicatorCall'[q].op = "reorder"
    BY <1>1, <1>3, <1>4, <2>2 DEF g, L!Busy
  <2> QED BY <1>1, <1>6, <2>1, <2>2 DEF LInv, L!PlacesDistinct
<1> QED BY <1>2, <1>9, <1>10, <1>11, <1>12 DEF LInv

\* One row of a reorder gets its place.
LEMMA LReorderOne ==
    ASSUME LInv, NEW p \in Calls, NEW i \in IndicatorIds, L!ReorderOne(p, i)
    PROVE  LInv'
<1>a. Null \notin LCall
  BY InstitutionAssumption DEF LCall, LReorder, LPlaces
<1>0. PICK r \in LReorder : r = indicatorCall[p]
  BY DEF L!ReorderOne, LInv, LTypes, LCall
<1> DEFINE g == r.grade
           left == DOMAIN r.places \ {i}
           kept == [r EXCEPT !.places = [j \in left |-> r.places[j]]]
<1>1. /\ g \in Grades /\ r \in LCall /\ r # Null /\ r.op = "reorder" /\ r.alone \in BOOLEAN
      /\ p \in L!Busy(g) /\ i \in DOMAIN r.places /\ L!Exists(i)
      /\ DOMAIN r.places \subseteq IndicatorIds /\ r.places[i] \in 1 .. MaxOrder
  BY <1>0, <1>a DEF L!ReorderOne, L!Busy, LCall, LReorder, LPlaces
<1>2. /\ indicatorRow' = [indicatorRow EXCEPT ![i].order = r.places[i]]
      /\ indicatorCall' = [indicatorCall EXCEPT ![p] = IF left = {} THEN Null ELSE kept]
      /\ disturbed' = IF left = {} /\ r.alone THEN disturbed \ {g} ELSE disturbed
  BY <1>0 DEF L!ReorderOne
<1>3. /\ kept \in LReorder /\ kept.grade = g /\ kept.op = "reorder" /\ kept.alone = r.alone
      /\ DOMAIN kept.places = left /\ \A j \in left : kept.places[j] = r.places[j]
  <2>1. left \in SUBSET IndicatorIds /\ [j \in left |-> r.places[j]] \in [left -> 1 .. MaxOrder]
    BY <1>1 DEF LReorder, LPlaces
  <2>2. [j \in left |-> r.places[j]] \in LPlaces
    BY <2>1 DEF LPlaces
  <2> HIDE DEF left
  <2> QED BY <2>2 DEF LReorder
<1>4. /\ indicatorRow[i] \in [grade : Grades, order : 1 .. MaxOrder] /\ indicatorRow[i].grade = g
      /\ indicatorRow'[i] \in [grade : Grades, order : 1 .. MaxOrder]
      /\ indicatorRow'[i].grade = g /\ indicatorRow'[i].order = r.places[i]
      /\ \A j \in IndicatorIds \ {i} : indicatorRow'[j] = indicatorRow[j]
  <2>1. indicatorRow[i] \in [grade : Grades, order : 1 .. MaxOrder]
    BY <1>1 DEF LInv, LTypes, L!Exists
  <2>2. indicatorRow[i].grade = g
    BY <1>0, <1>1 DEF LInv, LReorders
  <2>3. indicatorRow'[i] = [indicatorRow[i] EXCEPT !.order = r.places[i]]
    BY <1>2 DEF LInv, LTypes
  <2>4. \A j \in IndicatorIds \ {i} : indicatorRow'[j] = indicatorRow[j]
    BY <1>2 DEF LInv, LTypes
  <2> HIDE DEF g
  <2> QED BY <1>1, <2>1, <2>2, <2>3, <2>4
<1>5. /\ indicatorCall'[p] = IF left = {} THEN Null ELSE kept
      /\ \A q \in Calls \ {p} : indicatorCall'[q] = indicatorCall[q]
  BY <1>2 DEF LInv, LTypes
<1> HIDE DEF kept, left, g
<1>b. Null \notin [grade : Grades, order : 1 .. MaxOrder]
  BY InstitutionAssumption
<1>6. LTypes'
  <2>1. indicatorRow' \in [IndicatorIds -> {Null} \cup [grade : Grades, order : 1 .. MaxOrder]]
    <3>1. DOMAIN indicatorRow' = IndicatorIds /\ indicatorRow' = [j \in IndicatorIds |-> indicatorRow'[j]]
      BY <1>2 DEF LInv, LTypes
    <3>2. \A j \in IndicatorIds : indicatorRow'[j] \in {Null} \cup [grade : Grades, order : 1 .. MaxOrder]
      BY <1>4 DEF LInv, LTypes
    <3> QED BY <3>1, <3>2
  <2>2. indicatorCall' \in [Calls -> {Null} \cup LCall]
    BY <1>2, <1>3 DEF LInv, LTypes, LCall
  <2> QED BY <1>2, <2>1, <2>2 DEF LInv, LTypes
<1>7. \A j \in IndicatorIds : /\ L!Exists(j)' <=> L!Exists(j)
                              /\ L!Exists(j) => indicatorRow'[j].grade = indicatorRow[j].grade
  BY <1>1, <1>4, <1>b DEF L!Exists
<1>8. \A h \in Grades : L!List(h)' = L!List(h)
  <2>1. \A h \in Grades : \A j \in IndicatorIds : j \in L!List(h)' <=> j \in L!List(h)
    BY <1>7 DEF L!List
  <2>2. \A h \in Grades : L!List(h) \subseteq IndicatorIds /\ L!List(h)' \subseteq IndicatorIds
    BY DEF L!List
  <2>3. ASSUME NEW h \in Grades PROVE L!List(h)' = L!List(h)
    BY <2>1, <2>2
  <2> QED BY <2>3
<1>9. \A h \in Grades \ {g} : i \notin L!List(h)
  BY <1>4 DEF L!List
<1>10. \A h \in Grades :
         /\ h # g => L!Busy(h)' = L!Busy(h) /\ p \notin L!Busy(h)
         /\ h = g => L!Busy(h)' = IF left = {} THEN L!Busy(h) \ {p} ELSE L!Busy(h)
  <2>1. \A h \in Grades : \A q \in Calls \ {p} : q \in L!Busy(h)' <=> q \in L!Busy(h)
    BY <1>5 DEF L!Busy
  <2>2. \A h \in Grades : /\ p \in L!Busy(h) <=> h = g
                          /\ p \in L!Busy(h)' <=> h = g /\ left # {}
    BY <1>0, <1>1, <1>3, <1>5, <1>a DEF L!Busy, g, LCall
  <2>3. \A h : L!Busy(h) \subseteq Calls /\ L!Busy(h)' \subseteq Calls
    BY DEF L!Busy
  <2> QED BY <2>1, <2>2, <2>3
<1>11. \A h \in Grades : \A q \in L!Busy(h)' :
         /\ q \in L!Busy(h) /\ q \in Calls
         /\ q # p => indicatorCall'[q] = indicatorCall[q]
         /\ q = p => h = g /\ left # {} /\ indicatorCall'[q] = kept
  BY <1>5, <1>10 DEF L!Busy
<1>c. \A q \in L!Busy(g) : /\ r.alone => q = p
                           /\ indicatorCall[q].alone => q = p
                           /\ g \notin disturbed => q = p /\ r.alone
  BY <1>0, <1>1 DEF LInv, LAlone
<1>12. LReorders'
  <2> SUFFICES ASSUME NEW h \in Grades, NEW q \in L!Busy(h)', indicatorCall'[q].op = "reorder"
               PROVE  /\ \A j \in DOMAIN indicatorCall'[q].places : L!Exists(j)' => indicatorRow'[j].grade = h
                      /\ indicatorCall'[q].alone =>
                           \A j, k \in L!List(h)' : j # k => LPlaceAfter(q, j)' # LPlaceAfter(q, k)'
    BY DEF LReorders
  <2>0. q \in L!Busy(h) /\ q \in Calls
    BY <1>11
  <2>1. CASE q = p
    <3>1. h = g /\ left # {} /\ indicatorCall'[q] = kept
      BY <1>11, <2>1
    <3>2. \A j \in DOMAIN r.places : L!Exists(j) => indicatorRow[j].grade = h
      BY <1>0, <1>1, <2>0, <2>1 DEF LInv, LReorders
    <3>3. \A j \in left : L!Exists(j)' => indicatorRow'[j].grade = h
      BY <1>1, <1>7, <3>2 DEF left
    <3>4. \A j \in L!List(h) : LPlaceAfter(q, j)' = LPlaceAfter(p, j)
      BY <1>0, <1>1, <1>3, <1>4, <3>1 DEF LPlaceAfter, L!List, left
    <3>5. r.alone => \A j, k \in L!List(h) : j # k => LPlaceAfter(p, j) # LPlaceAfter(p, k)
      BY <1>0, <1>1, <2>0, <2>1 DEF LInv, LReorders
    <3> QED BY <1>3, <1>8, <3>1, <3>3, <3>4, <3>5
  <2>2. CASE q # p /\ h = g
    <3>1. indicatorCall'[q] = indicatorCall[q] /\ ~indicatorCall[q].alone
      BY <1>11, <1>c, <2>0, <2>2
    <3>2. DOMAIN indicatorCall[q].places \subseteq IndicatorIds
      BY <2>0, <3>1 DEF LInv, LTypes, LCall, LReorder, LPlaces, L!Busy
    <3> QED BY <1>7, <2>0, <3>1, <3>2 DEF LInv, LReorders
  <2>3. CASE q # p /\ h # g
    <3>1. indicatorCall'[q] = indicatorCall[q]
      BY <1>11, <2>3
    <3>2. DOMAIN indicatorCall[q].places \subseteq IndicatorIds
      BY <2>0, <3>1 DEF LInv, LTypes, LCall, LReorder, LPlaces, L!Busy
    <3>3. \A j \in DOMAIN indicatorCall[q].places : L!Exists(j)' => indicatorRow'[j].grade = h
      BY <1>7, <2>0, <3>1, <3>2 DEF LInv, LReorders
    <3>4. \A j \in L!List(h) : LPlaceAfter(q, j)' = LPlaceAfter(q, j)
      BY <1>4, <1>9, <2>3, <3>1 DEF LPlaceAfter, L!List
    <3> QED BY <1>8, <2>0, <3>1, <3>3, <3>4 DEF LInv, LReorders
  <2> QED BY <2>1, <2>2, <2>3
<1>13. LAlone'
  <2> SUFFICES ASSUME NEW h \in Grades, NEW q \in L!Busy(h)'
               PROVE  /\ indicatorCall'[q].alone => L!Busy(h)' = {q}
                      /\ h \notin disturbed' => indicatorCall'[q].alone
    BY DEF LAlone
  <2>1. CASE h = g
    BY <1>0, <1>2, <1>3, <1>10, <1>11, <1>c, <2>1
  <2>2. CASE h # g
    BY <1>2, <1>10, <1>11, <2>2 DEF LInv, LAlone
  <2> QED BY <2>1, <2>2
<1>14. LNext'
  <2> SUFFICES ASSUME NEW h \in Grades, h \notin disturbed', NEW q \in L!Busy(h)',
                      indicatorCall'[q].op = "create", NEW j \in L!List(h)'
               PROVE  indicatorRow'[j].order < indicatorCall'[q].order
    BY DEF LNext
  <2>1. q # p /\ q \in L!Busy(h) /\ indicatorCall'[q] = indicatorCall[q]
    BY <1>3, <1>11
  <2>2. h # g
    BY <1>2, <1>c, <2>1
  <2>3. h \notin disturbed /\ j \in L!List(h) /\ indicatorRow'[j] = indicatorRow[j]
    BY <1>2, <1>4, <1>8, <1>9, <2>2 DEF L!List
  <2> QED BY <2>1, <2>3 DEF LInv, LNext
<1>15. L!PlacesDistinct'
  <2> SUFFICES ASSUME NEW j \in IndicatorIds, NEW k \in IndicatorIds, j # k,
                      L!Exists(j)', L!Exists(k)', indicatorRow'[j] = indicatorRow'[k],
                      indicatorRow'[j].grade \notin disturbed'
               PROVE  \E q \in L!Busy(indicatorRow[j].grade)' : indicatorCall'[q].op = "reorder"
    BY DEF L!PlacesDistinct
  <2> DEFINE h == indicatorRow[j].grade
  <2>1. /\ h \in Grades /\ indicatorRow'[j].grade = h /\ indicatorRow[k].grade = h
        /\ L!Exists(j) /\ L!Exists(k) /\ h \notin disturbed' /\ j \in L!List(h) /\ k \in L!List(h)
    BY <1>7 DEF LInv, LTypes, L!List, L!Exists
  <2>2. PICK e \in Grades : e = indicatorRow'[j].grade
    BY <2>1
  <2>3. e = h /\ \A q \in L!Busy(e)' : q \in L!Busy(indicatorRow[j].grade)'
    BY <2>1, <2>2
  <2>4. CASE e # g
    <3>1. indicatorRow[j] = indicatorRow[k] /\ e \notin disturbed
      BY <1>2, <1>4, <2>1, <2>3, <2>4
    <3>2. PICK q \in L!Busy(e) : indicatorCall[q].op = "reorder"
      BY <2>1, <2>3, <3>1 DEF LInv, L!PlacesDistinct
    <3>3. q \in L!Busy(e)' /\ indicatorCall'[q].op = "reorder"
      BY <1>10, <1>11, <2>4, <3>2
    <3> QED BY <2>3, <3>3
  <2>5. CASE e = g /\ left # {}
    BY <1>1, <1>3, <1>5, <1>10, <2>3, <2>5
  <2>6. CASE e = g /\ left = {}
    <3>1. r.alone
      BY <1>1, <1>2, <1>c, <2>1, <2>3, <2>6
    <3>2. \A l \in L!List(g) : LPlaceAfter(p, l) = indicatorRow'[l].order
      BY <1>0, <1>1, <1>4, <2>6 DEF LPlaceAfter, L!List, left
    <3>3. LPlaceAfter(p, j) # LPlaceAfter(p, k)
      BY <1>0, <1>1, <2>1, <2>3, <2>6, <3>1 DEF LInv, LReorders
    <3> QED BY <2>1, <2>3, <2>6, <3>2, <3>3
  <2> QED BY <2>4, <2>5, <2>6
<1> QED BY <1>6, <1>12, <1>13, <1>14, <1>15 DEF LInv

\* Indicators' own name for the cardinality of a set.
LEMMA LCardinality == \A ids : L!Cardinality(ids) = Cardinality(ids)
BY DEF L!Cardinality, Cardinality

\* A reorder that fails keeps it, for its list is disturbed.
LEMMA LReorderFails ==
    ASSUME LInv, NEW p \in Calls, NEW i \in IndicatorIds, L!ReorderFails(p, i)
    PROVE  LInv'
<1>0. PICK r \in LReorder : r = indicatorCall[p]
  BY DEF L!ReorderFails, LInv, LTypes, LCall
<1> DEFINE left == DOMAIN r.places \ {i}
           kept == [r EXCEPT !.alone = FALSE, !.places = [j \in left |-> r.places[j]]]
           call == IF left = {} THEN Null ELSE kept
<1>1. /\ r # Null /\ r.op = "reorder" /\ indicatorRow' = indicatorRow
      /\ indicatorCall' = [indicatorCall EXCEPT ![p] = call]
      /\ disturbed' = disturbed \cup {r.grade}
  BY <1>0 DEF L!ReorderFails
<1>2. /\ kept \in LReorder /\ kept.grade = r.grade /\ kept.op = "reorder" /\ ~kept.alone
      /\ DOMAIN kept.places = left
  <2>1. left \in SUBSET IndicatorIds /\ [j \in left |-> r.places[j]] \in [left -> 1 .. MaxOrder]
    BY DEF LReorder, LPlaces
  <2>2. [j \in left |-> r.places[j]] \in LPlaces
    BY <2>1 DEF LPlaces
  <2> HIDE DEF left
  <2> QED BY <2>2 DEF LReorder
<1>3. left \subseteq DOMAIN r.places
  OBVIOUS
<1> HIDE DEF kept, left
<1>4. call \in {Null} \cup LCall
  BY <1>2 DEF LCall
<1>5. call # Null => /\ call.grade = r.grade /\ call.op = "reorder" /\ ~call.alone
                     /\ DOMAIN call.places \subseteq DOMAIN r.places
  BY <1>2, <1>3
<1> HIDE DEF call
<1> QED BY <1>0, <1>1, <1>4, <1>5, LStops

\* Every step of the indicators keeps it.
LEMMA LStep == LInv /\ [L!Next]_lVars => LInv'
<1> SUFFICES ASSUME LInv, [L!Next]_lVars PROVE LInv'
  OBVIOUS
<1>1. ASSUME NEW p \in Calls, NEW g \in Grades, L!CreateBegin(p, g) PROVE LInv'
  <2> DEFINE call == [op |-> "create", grade |-> g, order |-> L!NextOrder, alone |-> L!Busy(g) = {}]
  <2>1. L!Begin(p, call) /\ L!NextOrder <= MaxOrder
    BY <1>1 DEF L!CreateBegin
  <2>2. /\ L!NextOrder \in 1 .. MaxOrder
        /\ \A i \in IndicatorIds : L!Exists(i) => indicatorRow[i].order < L!NextOrder
    BY <2>1, LNextOrder, InstitutionAssumption DEF LInv
  <2>3. call \in LCall /\ \A i \in L!List(call.grade) : indicatorRow[i].order < call.order
    BY <2>2 DEF LCall, L!List
  <2>4. (call.alone <=> L!Busy(call.grade) = {}) /\ call.op # "reorder"
    OBVIOUS
  <2> HIDE DEF call
  <2> QED BY <2>1, <2>3, <2>4, LBegin
<1>2. ASSUME NEW p \in Calls, NEW g \in Grades, NEW f \in L!Orders(L!List(g)), L!ReorderBegin(p, g, f)
      PROVE  LInv'
  <2> DEFINE call == [op |-> "reorder", grade |-> g, places |-> f, alone |-> L!Busy(g) = {}]
  <2>1. L!Begin(p, call)
    BY <1>2 DEF L!ReorderBegin
  <2>2. L!List(g) \in SUBSET IndicatorIds
    BY DEF L!List
  <2> DEFINE ls == L!List(g)
  <2>a. IsFiniteSet(IndicatorIds) /\ ls \in SUBSET IndicatorIds
    BY <2>2, InstitutionAssumption
  <2> HIDE DEF ls
  <2>b. IsFiniteSet(ls) /\ Cardinality(ls) <= Cardinality(IndicatorIds)
    BY <2>a, FS_Subset
  <2>c. Cardinality(ls) \in Nat /\ Cardinality(IndicatorIds) \in Nat
    BY <2>a, <2>b, FS_CardinalityType
  <2>d. Cardinality(ls) <= MaxOrder
    BY <2>b, <2>c, InstitutionAssumption
  <2>3. Cardinality(L!List(g)) \in Nat /\ Cardinality(L!List(g)) <= MaxOrder
    BY <2>c, <2>d DEF ls
  <2>4. f \in [L!List(g) -> 1 .. Cardinality(L!List(g))]
        /\ \A i, j \in L!List(g) : f[i] = f[j] => i = j
    BY LCardinality DEF L!Orders
  <2>5. f \in [L!List(g) -> 1 .. MaxOrder]
    BY <2>3, <2>4, InstitutionAssumption
  <2>6. f \in LPlaces
    BY <2>2, <2>5 DEF LPlaces
  <2>7. call \in LCall /\ DOMAIN call.places = L!List(call.grade)
        /\ \A i, j \in DOMAIN call.places : call.places[i] = call.places[j] => i = j
    BY <2>4, <2>6 DEF LCall, LReorder
  <2>8. (call.alone <=> L!Busy(call.grade) = {}) /\ call.op # "create"
    OBVIOUS
  <2> HIDE DEF call
  <2> QED BY <2>1, <2>7, <2>8, LBegin
<1>3. ASSUME NEW p \in Calls, L!Abort(p) PROVE LInv'
  BY <1>3, LStops DEF L!Abort
<1>4. ASSUME UNCHANGED lVars PROVE LInv'
  BY <1>4 DEF lVars, LInv, LTypes, LReorders, LAlone, LNext, L!PlacesDistinct, L!Busy,
    L!List,
       L!Exists, LPlaceAfter
<1> QED BY <1>1, <1>2, <1>3, <1>4, LCreate, LReorderOne, LReorderFails, LRemove, LCreateAt DEF L!Next

\* A call of the indicators has its type by where it stands.
LEMMA LTyped == LInv => L!TypeOK
<1> SUFFICES ASSUME LTypes PROVE L!TypeOK
  BY DEF LInv
<1>1. ASSUME NEW p \in Calls, indicatorCall[p] # Null
      PROVE  /\ indicatorCall[p].op \in {"create", "reorder"} /\ indicatorCall[p].grade \in Grades
             /\ indicatorCall[p].op = "reorder" =>
                  \A i \in DOMAIN indicatorCall[p].places : i \in IndicatorIds
  <2>1. indicatorCall[p] \in LCall
    BY <1>1 DEF LTypes
  <2>2. \A ps \in LPlaces : \A i \in DOMAIN ps : i \in IndicatorIds
    BY DEF LPlaces
  <2> QED BY <2>1, <2>2 DEF LCall, LReorder
<1> QED BY <1>1 DEF LTypes, L!TypeOK

-----------------------------------------------------------------------------
(* Each part by itself *)

\* The sport groups, for any sports, students and calls: addStudents keeps a student in one
\* group of a sport, unless create or update put it there or two additions overlapped, and a
\* group of a removed sport came during the removal or by a call that had found the sport.
THEOREM SportGroupsSound ==
    SG!Spec => [](SG!TypeOK /\ SG!OneGroupPerSport /\ SG!RemovedSportWasEmpty)
<1>1. SG!Init => SGInv
  BY SGInitial
<1>2. SGInv /\ [SG!Next]_(SG!vars) => SGInv'
  <2>1. UNCHANGED SG!vars => UNCHANGED sgVars
    BY DEF SG!vars, SG!ghosts, sgVars
  <2> QED BY <2>1, SGStep, SGStays
<1>3. SGInv => SG!TypeOK /\ SG!OneGroupPerSport /\ SG!RemovedSportWasEmpty
  BY DEF SGInv
<1> QED BY <1>1, <1>2, <1>3, PTL DEF SG!Spec

\* The invitations, for any of them, any addresses and calls: two are pending for an address
\* only if two calls looked at once, and of the invitations of a user who came by one exactly
\* one is marked accepted, or none if a call that had read it before revoked it.
THEOREM InvitationsSound ==
    N!Init /\ [][N!Next]_nVars => [](N!TypeOK /\ N!OnePending /\ N!AcceptedOnce)
<1>1. NInv /\ [N!Next]_nVars => NInv'
  BY NStep, NStays
<1>2. NInv => N!TypeOK /\ N!OnePending /\ N!AcceptedOnce
  BY DEF NInv
<1> QED BY NInitial, <1>1, <1>2, PTL

\* The school years, for any years and activations: at most one is active, but for those that
\* were created active while an activation was going on.
THEOREM SchoolYearsSound ==
    Y!Init /\ [][Y!Next]_yVars => [](Y!TypeOK /\ Y!OneActiveYear)
<1>1. YInv /\ [Y!Next]_yVars => YInv'
  BY YStep, YStays
<1>2. YInv => Y!TypeOK /\ Y!OneActiveYear
  BY DEF YInv
<1> QED BY YInitial, <1>1, <1>2, PTL

\* The settings of an institution, for any values and callers: a setting holds what was last
\* sent for it, unless a call that had read before wrote all of them back, or update was sent a
\* part of the report.
THEOREM SettingsSound ==
    S!Spec => [](S!TypeOK /\ S!SettingsKept)
<1>1. S!Init => SInv
  BY SInitial
<1>2. SInv /\ [S!Next]_(S!vars) => SInv'
  <2>1. UNCHANGED S!vars => UNCHANGED sVars
    BY DEF S!vars, sVars
  <2> QED BY <2>1, SStep, SStays
<1>3. SInv => S!TypeOK /\ S!SettingsKept
  BY DEF SInv
<1> QED BY <1>1, <1>2, <1>3, PTL DEF S!Spec

\* The users, for any of them and any calls: while no call is at work on them, the role of a
\* user is the highest of those on levels, unless two calls overlapped or one stopped half-way;
\* and a removed user is INACTIVE, unless a call that had read it before wrote after.
THEOREM UsersSound ==
    U!Spec => [](U!TypeOK /\ U!RoleFollows /\ U!RemovedIsInactive)
<1>1. U!Init => UInv
  BY UInitial
<1>2. UInv /\ [U!Next]_(U!vars) => UInv'
  <2>1. UNCHANGED U!vars => UNCHANGED uVars
    BY DEF U!vars, uVars
  <2> QED BY <2>1, UStep, UStays
<1>3. UInv => U!TypeOK /\ U!RoleFollows /\ U!RemovedIsInactive
  BY DEF UInv
<1> QED BY <1>1, <1>2, <1>3, PTL DEF U!Spec

\* The academic structure, for any grades, courses and numbers: swaps that do not overlap and
\* do not fail leave every grade a number of its own, unless one was given a number that was
\* taken; and a course has the number of its grade until the grade changes its number.
THEOREM StructureSound ==
    A!Init /\ [][A!Next]_aVars => [](A!TypeOK /\ A!NumbersDistinct /\ A!CourseHasNumber)
<1>1. AInv /\ [A!Next]_aVars => AInv'
  BY AStep, AStays
<1>2. AInv => A!TypeOK /\ A!NumbersDistinct /\ A!CourseHasNumber
  BY DEF AInv
<1> QED BY AInitial, <1>1, <1>2, PTL

\* The indicators of a grade, for any of them and any calls: two have different places, but
\* while a reorder writes, or after calls that overlapped or stopped half-way.
THEOREM IndicatorsSound ==
    L!Init /\ [][L!Next]_lVars => [](L!TypeOK /\ L!PlacesDistinct)
<1>1. LInv => L!TypeOK /\ L!PlacesDistinct
  BY LTyped DEF LInv
<1> QED BY LInitial, LStep, <1>1, PTL

-----------------------------------------------------------------------------
(* The parts together *)

\* A step of the whole is one of the sport groups, or leaves them alone.
LEMMA SGSteps == [MCNext]_allVars => [SG!Next]_sgVars
BY DEF MCNext, AttendanceStep, SportGroupsStep, UsersStep, SettingsStep, BackfillStep,
  ReportsStep, SmallStep, TrayectoriaStep, SchoolYearsStep, InvitationsStep, IndicatorsStep,
  StructureStep, RulesStep, ScreensStep, ScreenStep, BulkEntryStep, EvaluationGridStep,
  ChatHistoryStep, FormsStep, QueryCacheStep, allVars, smallVars, screenVars

\* A step of the whole is one of the invitations, or leaves them alone.
LEMMA NSteps == [MCNext]_allVars => [N!Next]_nVars
BY DEF MCNext, AttendanceStep, SportGroupsStep, UsersStep, SettingsStep, BackfillStep,
  ReportsStep, SmallStep, TrayectoriaStep, SchoolYearsStep, InvitationsStep, IndicatorsStep,
  StructureStep, RulesStep, ScreensStep, ScreenStep, BulkEntryStep, EvaluationGridStep,
  ChatHistoryStep, FormsStep, QueryCacheStep, allVars, smallVars, screenVars

\* A step of the whole is one of the school years, or leaves them alone.
LEMMA YSteps == [MCNext]_allVars => [Y!Next]_yVars
BY DEF MCNext, AttendanceStep, SportGroupsStep, UsersStep, SettingsStep, BackfillStep,
  ReportsStep, SmallStep, TrayectoriaStep, SchoolYearsStep, InvitationsStep, IndicatorsStep,
  StructureStep, RulesStep, ScreensStep, ScreenStep, BulkEntryStep, EvaluationGridStep,
  ChatHistoryStep, FormsStep, QueryCacheStep, allVars, smallVars, screenVars

\* A step of the whole is one of the settings, or leaves them alone.
LEMMA SSteps == [MCNext]_allVars => [S!Next]_sVars
BY DEF MCNext, AttendanceStep, SportGroupsStep, UsersStep, SettingsStep, BackfillStep,
  ReportsStep, SmallStep, TrayectoriaStep, SchoolYearsStep, InvitationsStep, IndicatorsStep,
  StructureStep, RulesStep, ScreensStep, ScreenStep, BulkEntryStep, EvaluationGridStep,
  ChatHistoryStep, FormsStep, QueryCacheStep, allVars, smallVars, screenVars

\* A step of the whole is one of the users, or leaves them alone.
LEMMA USteps == [MCNext]_allVars => [U!Next]_uVars
BY DEF MCNext, AttendanceStep, SportGroupsStep, UsersStep, SettingsStep, BackfillStep,
  ReportsStep, SmallStep, TrayectoriaStep, SchoolYearsStep, InvitationsStep, IndicatorsStep,
  StructureStep, RulesStep, ScreensStep, ScreenStep, BulkEntryStep, EvaluationGridStep,
  ChatHistoryStep, FormsStep, QueryCacheStep, allVars, smallVars, screenVars

\* A step of the whole is one of the academic structure, or leaves them alone.
LEMMA ASteps == [MCNext]_allVars => [A!Next]_aVars
BY DEF MCNext, AttendanceStep, SportGroupsStep, UsersStep, SettingsStep, BackfillStep,
  ReportsStep, SmallStep, TrayectoriaStep, SchoolYearsStep, InvitationsStep, IndicatorsStep,
  StructureStep, RulesStep, ScreensStep, ScreenStep, BulkEntryStep, EvaluationGridStep,
  ChatHistoryStep, FormsStep, QueryCacheStep, allVars, smallVars, screenVars

\* A step of the whole is one of the indicators, or leaves them alone.
LEMMA LSteps == [MCNext]_allVars => [L!Next]_lVars
BY DEF MCNext, AttendanceStep, SportGroupsStep, UsersStep, SettingsStep, BackfillStep,
  ReportsStep, SmallStep, TrayectoriaStep, SchoolYearsStep, InvitationsStep, IndicatorsStep,
  StructureStep, RulesStep, ScreensStep, ScreenStep, BulkEntryStep, EvaluationGridStep,
  ChatHistoryStep, FormsStep, QueryCacheStep, allVars, smallVars, screenVars

\* A step of the whole is one of the sheet of grades, or leaves them alone.
LEMMA ESteps == [MCNext]_allVars => [E!Next]_(E!vars)
BY DEF MCNext, AttendanceStep, SportGroupsStep, UsersStep, SettingsStep, BackfillStep,
  ReportsStep, SmallStep, TrayectoriaStep, SchoolYearsStep, InvitationsStep, IndicatorsStep,
  StructureStep, RulesStep, ScreensStep, ScreenStep, BulkEntryStep, EvaluationGridStep,
  ChatHistoryStep, FormsStep, QueryCacheStep, allVars, smallVars, screenVars, eVars, E!vars

\* A step of the whole is one of the grid of evaluations, or leaves them alone.
LEMMA GSteps == [MCNext]_allVars => [G!Next]_gVars
BY DEF MCNext, AttendanceStep, SportGroupsStep, UsersStep, SettingsStep, BackfillStep,
  ReportsStep, SmallStep, TrayectoriaStep, SchoolYearsStep, InvitationsStep, IndicatorsStep,
  StructureStep, RulesStep, ScreensStep, ScreenStep, BulkEntryStep, EvaluationGridStep,
  ChatHistoryStep, FormsStep, QueryCacheStep, allVars, smallVars, screenVars

\* A step of the whole is one of the forms, or leaves them alone.
LEMMA FSteps == [MCNext]_allVars => [F!Next]_fVars
BY DEF MCNext, AttendanceStep, SportGroupsStep, UsersStep, SettingsStep, BackfillStep,
  ReportsStep, SmallStep, TrayectoriaStep, SchoolYearsStep, InvitationsStep, IndicatorsStep,
  StructureStep, RulesStep, ScreensStep, ScreenStep, BulkEntryStep, EvaluationGridStep,
  ChatHistoryStep, FormsStep, QueryCacheStep, allVars, smallVars, screenVars

\* A step of the whole is one of the messages of a room, or leaves them alone.
LEMMA HSteps == [MCNext]_allVars => [H!Next]_hVars
BY DEF MCNext, AttendanceStep, SportGroupsStep, UsersStep, SettingsStep, BackfillStep,
  ReportsStep, SmallStep, TrayectoriaStep, SchoolYearsStep, InvitationsStep, IndicatorsStep,
  StructureStep, RulesStep, ScreensStep, ScreenStep, BulkEntryStep, EvaluationGridStep,
  ChatHistoryStep, FormsStep, QueryCacheStep, allVars, smallVars, screenVars

\* A step of the whole is one of the answers that are kept, or leaves them alone.
LEMMA QSteps == [MCNext]_allVars => [Q!Next]_qVars
BY DEF MCNext, AttendanceStep, SportGroupsStep, UsersStep, SettingsStep, BackfillStep,
  ReportsStep, SmallStep, TrayectoriaStep, SchoolYearsStep, InvitationsStep, IndicatorsStep,
  StructureStep, RulesStep, ScreensStep, ScreenStep, BulkEntryStep, EvaluationGridStep,
  ChatHistoryStep, FormsStep, QueryCacheStep, allVars, smallVars, screenVars, Q!Next

\* A step of the whole is one of the backfill, or leaves them alone.
LEMMA BSteps == [MCNext]_allVars => [B!Next]_bVars
BY DEF MCNext, AttendanceStep, SportGroupsStep, UsersStep, SettingsStep, BackfillStep,
  ReportsStep, SmallStep, TrayectoriaStep, SchoolYearsStep, InvitationsStep, IndicatorsStep,
  StructureStep, RulesStep, ScreensStep, ScreenStep, BulkEntryStep, EvaluationGridStep,
  ChatHistoryStep, FormsStep, QueryCacheStep, allVars, smallVars, screenVars

\* A step of the whole is one of the reports, or leaves them alone.
LEMMA RSteps == [MCNext]_allVars => [R!Next]_rVars
BY DEF MCNext, AttendanceStep, SportGroupsStep, UsersStep, SettingsStep, BackfillStep,
  ReportsStep, SmallStep, TrayectoriaStep, SchoolYearsStep, InvitationsStep, IndicatorsStep,
  StructureStep, RulesStep, ScreensStep, ScreenStep, BulkEntryStep, EvaluationGridStep,
  ChatHistoryStep, FormsStep, QueryCacheStep, allVars, smallVars, screenVars

\* A step of the whole is one of the evaluations that a report judges, or leaves them alone.
LEMMA TSteps == [MCNext]_allVars => [T!Next]_valuations
BY DEF MCNext, AttendanceStep, SportGroupsStep, UsersStep, SettingsStep, BackfillStep,
  ReportsStep, SmallStep, TrayectoriaStep, SchoolYearsStep, InvitationsStep, IndicatorsStep,
  StructureStep, RulesStep, ScreensStep, ScreenStep, BulkEntryStep, EvaluationGridStep,
  ChatHistoryStep, FormsStep, QueryCacheStep, allVars, smallVars, screenVars

\* A step of the whole is one of the promotion of a student, or leaves them alone.
LEMMA PSteps == [MCNext]_allVars => [P!Next]_pVars
BY DEF MCNext, AttendanceStep, SportGroupsStep, UsersStep, SettingsStep, BackfillStep,
  ReportsStep, SmallStep, TrayectoriaStep, SchoolYearsStep, InvitationsStep, IndicatorsStep,
  StructureStep, RulesStep, ScreensStep, ScreenStep, BulkEntryStep, EvaluationGridStep,
  ChatHistoryStep, FormsStep, QueryCacheStep, allVars, smallVars, screenVars

\* The sport groups keep their invariant in every behaviour of the whole.
LEMMA SGHolds == MCSpec => []SGInv
<1>1. MCInit => SGInv
  BY SGInitial DEF MCInit
<1>2. SGInv /\ [MCNext]_allVars => SGInv'
  BY SGSteps, SGStep, SGStays
<1> QED BY <1>1, <1>2, PTL DEF MCSpec

\* The invitations keep their invariant in every behaviour of the whole.
LEMMA NHolds == MCSpec => []NInv
<1>1. MCInit => NInv
  BY NInitial DEF MCInit
<1>2. NInv /\ [MCNext]_allVars => NInv'
  BY NSteps, NStep, NStays
<1> QED BY <1>1, <1>2, PTL DEF MCSpec

\* The school years keep their invariant in every behaviour of the whole.
LEMMA YHolds == MCSpec => []YInv
<1>1. MCInit => YInv
  BY YInitial DEF MCInit
<1>2. YInv /\ [MCNext]_allVars => YInv'
  BY YSteps, YStep, YStays
<1> QED BY <1>1, <1>2, PTL DEF MCSpec

\* The settings keep their invariant in every behaviour of the whole.
LEMMA SHolds == MCSpec => []SInv
<1>1. MCInit => SInv
  BY SInitial DEF MCInit
<1>2. SInv /\ [MCNext]_allVars => SInv'
  BY SSteps, SStep, SStays
<1> QED BY <1>1, <1>2, PTL DEF MCSpec

\* The users keep their invariant in every behaviour of the whole.
LEMMA UHolds == MCSpec => []UInv
<1>1. MCInit => UInv
  BY UInitial DEF MCInit
<1>2. UInv /\ [MCNext]_allVars => UInv'
  BY USteps, UStep, UStays
<1> QED BY <1>1, <1>2, PTL DEF MCSpec

\* The academic structure keeps its invariant in every behaviour of the whole.
LEMMA AHolds == MCSpec => []AInv
<1>1. MCInit => AInv
  BY AInitial DEF MCInit
<1>2. AInv /\ [MCNext]_allVars => AInv'
  BY ASteps, AStep, AStays
<1> QED BY <1>1, <1>2, PTL DEF MCSpec

\* The indicators keep their invariant in every behaviour of the whole.
LEMMA LHolds == MCSpec => []LInv
<1>1. MCInit => LInv
  BY LInitial DEF MCInit
<1>2. LInv /\ [MCNext]_allVars => LInv'
  BY LSteps, LStep
<1> QED BY <1>1, <1>2, PTL DEF MCSpec

\* The sheet of grades keeps its invariant in every behaviour of the whole.
LEMMA EHolds == MCSpec => []EInv
<1>1. MCInit => EInv
  BY EInitial DEF MCInit, ScreensInit
<1>2. EInv /\ [MCNext]_allVars => EInv'
  BY ESteps, EStep
<1> QED BY <1>1, <1>2, PTL DEF MCSpec

\* The grid of evaluations keeps its invariant in every behaviour of the whole.
LEMMA GHolds == MCSpec => []GInv
<1>1. MCInit => GInv
  BY GInitial DEF MCInit, ScreensInit
<1>2. GInv /\ [MCNext]_allVars => GInv'
  BY GSteps, GStep
<1> QED BY <1>1, <1>2, PTL DEF MCSpec

\* The forms keep their invariant in every behaviour of the whole.
LEMMA FHolds == MCSpec => []FInv
<1>1. MCInit => FInv
  BY FInitial DEF MCInit, ScreensInit
<1>2. FInv /\ [MCNext]_allVars => FInv'
  BY FSteps, FStep
<1> QED BY <1>1, <1>2, PTL DEF MCSpec

\* So do the forms the one that says what becomes of their rows.
LEMMA FWritesHold == MCSpec => []FWritesInv
<1>1. MCInit => FWritesInv
  BY FWritesInitial DEF MCInit, ScreensInit
<1>2. FWritesInv /\ [MCNext]_allVars => FWritesInv'
  BY FSteps, FWritesStep
<1> QED BY <1>1, <1>2, PTL DEF MCSpec

\* The sheet of grades keeps what marks, requests and rows say of each other.
LEMMA EShownHolds == MCSpec => []EShownInv
<1>1. MCInit => EShownInv
  BY EShownInitial DEF MCInit, ScreensInit
<1>2. EShownInv /\ [MCNext]_allVars => EShownInv'
  BY ESteps, EShownStep
<1> QED BY <1>1, <1>2, PTL DEF MCSpec

\* So does the grid of evaluations,
LEMMA GShownHolds == MCSpec => []GShownInv
<1>1. MCInit => GShownInv
  BY GShownInitial DEF MCInit, ScreensInit
<1>2. GShownInv /\ [MCNext]_allVars => GShownInv'
  BY GSteps, GShownStep
<1> QED BY <1>1, <1>2, PTL DEF MCSpec

\* and so do the forms.
LEMMA FShownHolds == MCSpec => []FShownInv
<1>1. MCInit => FShownInv
  BY FShownInitial DEF MCInit, ScreensInit
<1>2. FShownInv /\ [MCNext]_allVars => FShownInv'
  BY FSteps, FShownStep
<1> QED BY <1>1, <1>2, PTL DEF MCSpec

\* The messages of a room keep their invariant in every behaviour of the whole.
LEMMA HHolds == MCSpec => []HInv
<1>1. MCInit => HInv
  BY HInitial DEF MCInit, ScreensInit
<1>2. HInv /\ [MCNext]_allVars => HInv'
  BY HSteps, HStep
<1> QED BY <1>1, <1>2, PTL DEF MCSpec

\* The answers that are kept keep their invariant in every behaviour of the whole.
LEMMA QHolds == MCSpec => []QInv
<1>1. MCInit => QInv
  BY QInitial DEF MCInit, ScreensInit
<1>2. QInv /\ [MCNext]_allVars => QInv'
  BY QSteps, QStep
<1> QED BY <1>1, <1>2, PTL DEF MCSpec

\* The backfill keeps its invariant in every behaviour of the whole.
LEMMA BHolds == MCSpec => []BInv
<1>1. MCInit => BInv
  BY BInitial DEF MCInit
<1>2. BInv /\ [MCNext]_allVars => BInv'
  BY BSteps, BStep
<1> QED BY <1>1, <1>2, PTL DEF MCSpec

\* The reports keep their invariant in every behaviour of the whole.
LEMMA RHolds == MCSpec => []RInv
<1>1. MCInit => RInv
  BY RInitial DEF MCInit
<1>2. RInv /\ [MCNext]_allVars => RInv'
  BY RSteps, RStep
<1> QED BY <1>1, <1>2, PTL DEF MCSpec

\* The promotion of a student keeps its invariant in every behaviour of the whole.
LEMMA PHolds == MCSpec => []PInv
<1>1. MCInit => PInv
  BY PInitial DEF MCInit
<1>2. PInv /\ [MCNext]_allVars => PInv'
  BY PSteps, PStep
<1> QED BY <1>1, <1>2, PTL DEF MCSpec

\* The evaluations that a report judges keep their type.
LEMMA THolds == MCSpec => []T!TypeOK
<1>1. MCInit => T!TypeOK
  BY TStep DEF MCInit
<1>2. T!TypeOK /\ [MCNext]_allVars => T!TypeOK'
  BY TSteps, TStep
<1> QED BY <1>1, <1>2, PTL DEF MCSpec

\* The calls of a behaviour of Attendance are some of its requests.
LEMMA TeamHolds == MCSpec => [](team \subseteq Requests)
<1>1. MCInit => team \subseteq Requests
  BY InstitutionAssumption DEF MCInit, Idling, Teams
<1>2. team \subseteq Requests /\ [MCNext]_allVars => (team \subseteq Requests)'
  BY DEF MCNext, AttendanceStep, SportGroupsStep, UsersStep, SettingsStep, BackfillStep,
    ReportsStep, SmallStep, ScreensStep, allVars
<1> QED BY <1>1, <1>2, PTL DEF MCSpec

\* What Attendance keeps, it keeps here.
LEMMA AttendanceHolds == MCSpec => Spec
<1>1. MCInit => Init
  BY DEF MCInit
<1>2. team \subseteq Requests /\ [MCNext]_allVars => [Next]_vars
  <2> SUFFICES ASSUME team \subseteq Requests, [MCNext]_allVars PROVE [Next]_vars
    OBVIOUS
  <2>1. CASE AttendanceStep
    BY <2>1, InstitutionAssumption DEF AttendanceStep, Next
  <2>2. CASE ~AttendanceStep
    <3>1. UNCHANGED vars
      BY <2>2 DEF MCNext, SportGroupsStep, UsersStep, SettingsStep, BackfillStep, ReportsStep,
        SmallStep, ScreensStep, allVars
    <3> QED BY <3>1
  <2> QED BY <2>1, <2>2
<1> QED BY <1>1, <1>2, TeamHolds, PTL DEF MCSpec, Spec

\* What a call looks for before it creates there is only once, and what it requires before
\* it removes is so, unless two calls raced: for any number of calls, rows and users.
THEOREM OnlyOnce == MCSpec => []LookedUpFirst
<1>1. /\ SGInv => SG!OneGroupPerSport /\ SG!RemovedSportWasEmpty
      /\ NInv => N!OnePending /\ N!AcceptedOnce
      /\ LInv => L!PlacesDistinct
      /\ FInv => F!CreatedOnce
  BY FOnce DEF SGInv, NInv, LInv
<1>2. /\ OneRowPerDay /\ OneRecordPerThreshold
      /\ SG!OneGroupPerSport /\ SG!RemovedSportWasEmpty
      /\ N!OnePending /\ N!AcceptedOnce
      /\ L!PlacesDistinct
      /\ F!CreatedOnce
      => LookedUpFirst
  BY DEF LookedUpFirst
<1> QED BY <1>1, <1>2, AttendanceHolds, RowsUnique, RecordsUnique, SGHolds, NHolds, LHolds, FHolds, PTL

\* What a call or a screen writes by something it has read survives the others' writes,
\* unless two raced: for any number of calls, rows and users.
THEOREM WritesSurvive == MCSpec => []WritesKept
<1>1. /\ UInv => U!RoleFollows /\ U!RemovedIsInactive
      /\ SInv => S!SettingsKept
      /\ YInv => Y!OneActiveYear
      /\ AInv => A!NumbersDistinct /\ A!CourseHasNumber
      /\ GInv => G!OthersKept
      /\ EInv => E!StoredWhereTyped
      /\ FWritesInv => F!FormsKeepWrites
  BY FWrites DEF UInv, SInv, YInv, AInv, GInv, EInv
<1>2. /\ U!RoleFollows /\ U!RemovedIsInactive
      /\ S!SettingsKept
      /\ Y!OneActiveYear
      /\ A!NumbersDistinct /\ A!CourseHasNumber
      /\ G!OthersKept
      /\ E!StoredWhereTyped
      /\ F!FormsKeepWrites
      => WritesKept
  BY DEF WritesKept
<1> QED BY <1>1, <1>2, UHolds, SHolds, YHolds, AHolds, GHolds, EHolds, FWritesHold, PTL

\* What is shown was true: a report shows columns of one moment, a row marked as saved what
\* is stored, a grid with no changes what is stored, a room its messages without a gap and
\* each once, a form what its row holds or what was typed for it, and a page what its user
\* was told is saved: for any scores, rows and messages.
THEOREM ShownTrue == MCSpec => []ShownIsTrue
<1>1. /\ RInv => R!ReportOfAMoment
      /\ EShownInv => E!SavedIsStored
      /\ GShownInv => G!ScreenIsStored
      /\ HInv => H!NoGap /\ H!ShownOnce
      /\ FShownInv => F!FormShowsRow /\ F!FormIsOfTarget /\ F!DraftStays
      /\ QInv => Q!OwnWritesShown
  BY RMoment, EShown, GShown, HShown, FShown DEF QInv
<1>2. /\ R!ReportOfAMoment
      /\ E!SavedIsStored
      /\ G!ScreenIsStored
      /\ H!NoGap /\ H!ShownOnce
      /\ F!FormShowsRow /\ F!FormIsOfTarget /\ F!DraftStays
      /\ Q!OwnWritesShown
      => ShownIsTrue
  BY DEF ShownIsTrue
<1> QED BY <1>1, <1>2, RHolds, EShownHolds, GShownHolds, HHolds, FShownHolds, QHolds, PTL

\* What runs after something else does all of it, wherever an earlier run of it stopped: a
\* student has the absence records that it has earned, and only those; the backfill fills
\* in what the old rows say, tells beforehand what it will do, and afterwards what is left;
\* a sheet of grades forgets nothing that was typed.  The thresholds are of at least one
\* absence, as UpdateInstitutionDto requires; everybody reaches 0 unrecorded.
THEOREM NothingLeft == ASSUME PositiveThresholds PROVE MCSpec => []NothingLeftBehind
<1>1. /\ BInv => B!BackfillCompletes /\ B!DryRunHonest /\ B!RepairTells
      /\ EShownInv => E!NothingForgotten
  BY BCompletes, BHonest, BTells, EShown
<1>2. /\ RecordsDeserved /\ AbsencesRecorded
      /\ B!BackfillCompletes /\ B!DryRunHonest /\ B!RepairTells
      /\ E!NothingForgotten
      => NothingLeftBehind
  BY DEF NothingLeftBehind
<1>3. Spec => []AbsencesRecorded
  BY ReachedIsRecorded
<1> QED BY <1>1, <1>2, <1>3, AttendanceHolds, RecordsEarned, BHolds, EShownHolds, PTL

\* A student is judged by its records: a better evaluation never gives a worse judgement,
\* but for the ties by majority, however many of each kind there are, and the verdict of a
\* promotion lies between what the records were worth when it began to read them and what
\* they are worth now.
THEOREM JudgedByRecords == MCSpec => []JudgedFairly
<1>1. /\ T!TypeOK => T!BetterIsNotWorse
      /\ PInv => P!VerdictBetween
  BY TBetter, PBetween
<1>2. T!BetterIsNotWorse /\ P!VerdictBetween => JudgedFairly
  BY DEF JudgedFairly
<1> QED BY <1>1, <1>2, THolds, PHolds, PTL

\* Every table, call and history of every part has its type, for any number of them.
THEOREM TypesCorrect == MCSpec => []Types
<1>1. /\ SGInv => SG!TypeOK
      /\ UInv => U!TypeOK
      /\ SInv => S!TypeOK
      /\ YInv => Y!TypeOK
      /\ NInv => N!TypeOK
      /\ AInv => A!TypeOK
  BY DEF SGInv, UInv, SInv, YInv, NInv, AInv
<1>2. /\ BInv => B!TypeOK
      /\ RInv => R!TypeOK
      /\ LInv => L!TypeOK
      /\ PInv => P!TypeOK
      /\ EShownInv => E!TypeOK
      /\ GShownInv => G!TypeOK
      /\ HInv => H!TypeOK
      /\ FShownInv => F!TypeOK
      /\ QInv => Q!TypeOK
  BY BTyped, RTyped, LTyped, PTyped, ETypes, GTyped, HTyped, FTyped, QTyped
<1>3. /\ TypeOK /\ SG!TypeOK /\ U!TypeOK /\ S!TypeOK /\ B!TypeOK /\ R!TypeOK
      /\ T!TypeOK /\ Y!TypeOK /\ N!TypeOK /\ L!TypeOK /\ A!TypeOK /\ P!TypeOK
      /\ E!TypeOK /\ G!TypeOK /\ H!TypeOK /\ F!TypeOK /\ Q!TypeOK
      => Types
  BY DEF Types, ScreensTypes
<1> QED BY <1>1, <1>2, <1>3, AttendanceHolds, TypeCorrect, SGHolds, UHolds, SHolds, BHolds,
      RHolds, THolds, YHolds, NHolds, LHolds, AHolds, PHolds, EShownHolds, GShownHolds,
      HHolds, FShownHolds, QHolds, PTL
=============================================================================
