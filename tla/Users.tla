-------------------------------- MODULE Users --------------------------------
(***************************************************************************)
(* UsersService: what a user may be (leaves, suspensions, removal) and the  *)
(* role that follows from the roles at each level.  Every call reads the    *)
(* user first and writes by id later; syncHighestRole reads and writes      *)
(* outside any transaction.  Names, passwords and avatars are left out.     *)
(***************************************************************************)
EXTENDS Integers

CONSTANTS Users, Levels, Requests, Null

\* The highest first; without SUPER_ADMIN, which nobody is at a level.
ROLE_HIERARCHY == <<"ADMIN", "DIRECTOR", "SECRETARY", "PRECEPTOR", "TEACHER", "GUARDIAN">>

Roles == {ROLE_HIERARCHY[n] : n \in 1 .. 6}

UserStatus == {"ACTIVE", "INACTIVE", "SUSPENDED", "ON_LEAVE"}

UserLevelRole == Levels \X Roles

VARIABLES
    role, status, deleted,  \* columns of User; deleted: those with a deletedAt
    levelRoles,             \* UserLevelRole rows (unique)
    request,
    \* history:
    drifted,    \* users whose level roles two calls changed at once, or a call
                \* that stopped before it wrote the role
    overtaken   \* users removed while a call was about to change their status

vars == <<role, status, deleted, levelRoles, request, drifted, overtaken>>

\* The role a user was created with owes nothing to levels.
Init ==
    /\ role \in [Users -> Roles]
    /\ status = [u \in Users |-> "ACTIVE"]
    /\ deleted = {}
    /\ levelRoles = [u \in Users |-> {}]
    /\ request = [p \in Requests |-> Null]
    /\ drifted = {} /\ overtaken = {}

\* findOne
Found(u) == u \notin deleted

Begin(p, call) == request[p] = Null /\ request' = [request EXCEPT ![p] = call]

At(p, op) == request[p] # Null /\ request[p].op = op

Return(p) == request' = [request EXCEPT ![p] = Null]

-----------------------------------------------------------------------------
(* update, grantLeave, revokeLeave, remove *)

StatusBegin(p, u, to) ==
    /\ Found(u)
    /\ Begin(p, [op |-> "status", user |-> u, to |-> to])
    /\ UNCHANGED <<role, status, deleted, levelRoles, drifted, overtaken>>

GrantLeave(p, u) == status[u] \notin {"ON_LEAVE", "INACTIVE"} /\ StatusBegin(p, u, "ON_LEAVE")

RevokeLeave(p, u) == status[u] = "ON_LEAVE" /\ StatusBegin(p, u, "ACTIVE")

SetStatus(p) ==
    /\ At(p, "status")
    /\ status' = [status EXCEPT ![request[p].user] = request[p].to]
    /\ Return(p)
    /\ UNCHANGED <<role, deleted, levelRoles, drifted, overtaken>>

RemoveBegin(p, u) ==
    /\ Found(u)
    /\ Begin(p, [op |-> "remove", user |-> u])
    /\ UNCHANGED <<role, status, deleted, levelRoles, drifted, overtaken>>

\* Mutant: the status stays.
MarkDeleted(u) == status

Inactive(u) == [status EXCEPT ![u] = "INACTIVE"]

Remove(p) ==
    /\ At(p, "remove")
    /\ LET u == request[p].user IN
         /\ deleted' = deleted \cup {u}
         /\ status' = Inactive(u)
         /\ overtaken' = IF \E q \in Requests : At(q, "status") /\ request[q].user = u
                         THEN overtaken \cup {u} ELSE overtaken
    /\ Return(p)
    /\ UNCHANGED <<role, levelRoles, drifted>>

-----------------------------------------------------------------------------
(* addLevelRole, removeLevelRole, syncHighestRole *)

SyncingUser(u) == {q \in Requests : /\ request[q] # Null
                                    /\ request[q].op \in {"read", "write"}
                                    /\ request[q].user = u}

RoleBegin(p, op, u, lr) ==
    /\ Found(u)
    /\ op = "add" <=> lr \notin levelRoles[u]
    /\ Begin(p, [op |-> op, user |-> u, row |-> lr])
    /\ UNCHANGED <<role, status, deleted, levelRoles, drifted, overtaken>>

\* A row of the same key, or no row any more: the call fails.
ChangeRow(p) ==
    /\ At(p, "add") \/ At(p, "delete")
    /\ LET r == request[p] IN
         /\ r.op = "add" <=> r.row \notin levelRoles[r.user]
         /\ levelRoles' = [levelRoles EXCEPT ![r.user] =
              IF r.op = "add" THEN @ \cup {r.row} ELSE @ \ {r.row}]
         /\ drifted' = IF SyncingUser(r.user) = {} THEN drifted ELSE drifted \cup {r.user}
         /\ request' = [request EXCEPT ![p] = [op |-> "read", user |-> r.user]]
    /\ UNCHANGED <<role, status, deleted, overtaken>>

\* Mutant: the last of the roles wins.
LowestRole(rows) ==
    LET held == {n \in 1 .. 6 : \E lr \in rows : lr[2] = ROLE_HIERARCHY[n]}
    IN  ROLE_HIERARCHY[CHOOSE n \in held : \A m \in held : m <= n]

getHighestRole(rows) ==
    LET held == {n \in 1 .. 6 : \E lr \in rows : lr[2] = ROLE_HIERARCHY[n]}
    IN  ROLE_HIERARCHY[CHOOSE n \in held : \A m \in held : n <= m]

\* Without level roles the role stays what it was.
SyncRead(p) ==
    /\ At(p, "read")
    /\ LET u == request[p].user IN
         request' = [request EXCEPT ![p] =
           IF levelRoles[u] = {} THEN Null
           ELSE [op |-> "write", user |-> u, role |-> getHighestRole(levelRoles[u])]]
    /\ UNCHANGED <<role, status, deleted, levelRoles, drifted, overtaken>>

\* A call that ran alone puts right what others have left.
SyncWrite(p) ==
    /\ At(p, "write")
    /\ LET u == request[p].user IN
         /\ role' = [role EXCEPT ![u] = request[p].role]
         /\ drifted' = IF /\ SyncingUser(u) = {p} /\ levelRoles[u] # {}
                          /\ request[p].role = getHighestRole(levelRoles[u])
                       THEN drifted \ {u} ELSE drifted
    /\ Return(p)
    /\ UNCHANGED <<status, deleted, levelRoles, overtaken>>

\* A query fails, or the process stops.
Abort(p) ==
    /\ request[p] # Null
    /\ drifted' = IF request[p].op \in {"read", "write"} THEN drifted \cup {request[p].user}
                                                         ELSE drifted
    /\ Return(p)
    /\ UNCHANGED <<role, status, deleted, levelRoles, overtaken>>

Next ==
    \E p \in Requests :
        \/ \E u \in Users :
             \/ GrantLeave(p, u) \/ RevokeLeave(p, u) \/ RemoveBegin(p, u)
             \/ \E to \in UserStatus : StatusBegin(p, u, to)
             \/ \E op \in {"add", "delete"}, lr \in UserLevelRole : RoleBegin(p, op, u, lr)
        \/ SetStatus(p) \/ Remove(p) \/ ChangeRow(p) \/ SyncRead(p) \/ SyncWrite(p) \/ Abort(p)

Spec == Init /\ [][Next]_vars

-----------------------------------------------------------------------------
(* Properties *)

\* Columns, rows and calls have their types.
TypeOK ==
    /\ role \in [Users -> Roles]
    /\ status \in [Users -> UserStatus]
    /\ deleted \subseteq Users
    /\ levelRoles \in [Users -> SUBSET UserLevelRole]
    /\ request \in [Requests -> {Null}
         \cup [op : {"status"}, user : Users, to : UserStatus]
         \cup [op : {"remove", "read"}, user : Users]
         \cup [op : {"add", "delete"}, user : Users, row : UserLevelRole]
         \cup [op : {"write"}, user : Users, role : Roles]]
    /\ drifted \subseteq Users
    /\ overtaken \subseteq Users

\* The role of a user is the highest of its level roles whenever no call is at
\* work on them, unless two calls have overlapped or one stopped half-way: then
\* it is so again after the next call that runs alone.
RoleFollows ==
    \A u \in Users \ drifted :
        levelRoles[u] # {} /\ SyncingUser(u) = {} =>
            LET held == {lr[2] : lr \in levelRoles[u]} IN
              \E n \in 1 .. 6 : /\ role[u] = ROLE_HIERARCHY[n] /\ role[u] \in held
                               /\ \A k \in 1 .. n - 1 : ROLE_HIERARCHY[k] \notin held

\* A removed user is INACTIVE, unless a call that had read the user before the
\* removal gave it another status afterwards: revokeLeave even makes it ACTIVE.
RemovedIsInactive ==
    \A u \in deleted : status[u] # "INACTIVE" => u \in overtaken
=============================================================================
