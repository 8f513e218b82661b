----------------------------- MODULE Invitations -----------------------------
(***************************************************************************)
(* The invitations of one institution: invite and acceptInvitation each      *)
(* look first and write later; accepting is one transaction, and a user's    *)
(* email is unique in an institution.  Names, passwords, roles and tokens    *)
(* are left out; users are never deleted, only marked.                      *)
(***************************************************************************)
CONSTANTS Emails, Invitations, Requests, Null

Invitation == [email : Emails, acceptedAt : BOOLEAN, expired : BOOLEAN]

VARIABLES
    invitation, \* Invitation rows, or Null
    users,      \* the emails of the users
    request,
    \* history:
    invited,    \* users that came by an invitation
    raced       \* emails for which two calls found no invitation at once,
                \* and those of an accepted one that was deleted

vars == <<invitation, users, request, invited, raced>>

Init ==
    /\ invitation = [i \in Invitations |-> Null]
    /\ users = {}
    /\ request = [p \in Requests |-> Null]
    /\ invited = {} /\ raced = {}

Begin(p, call) == request[p] = Null /\ request' = [request EXCEPT ![p] = call]

At(p, op) == request[p] # Null /\ request[p].op = op

Return(p) == request' = [request EXCEPT ![p] = Null]

Exists(i) == invitation[i] # Null

\* Mutant: an accepted or expired invitation is all that is looked for.
NotPending(i) == invitation[i].acceptedAt \/ invitation[i].expired

Pending(i) == ~invitation[i].acceptedAt /\ ~invitation[i].expired

-----------------------------------------------------------------------------
InviteBegin(p, e) ==
    /\ \A i \in Invitations : ~(Exists(i) /\ invitation[i].email = e /\ Pending(i))
    /\ Begin(p, [op |-> "invite", email |-> e])
    /\ raced' = IF \E q \in Requests : At(q, "invite") /\ request[q].email = e
                THEN raced \cup {e} ELSE raced
    /\ UNCHANGED <<invitation, users, invited>>

\* An id is not used again while a call has it.
Unused(i) ==
    ~Exists(i) /\ \A q \in Requests : At(q, "accept") \/ At(q, "revoke") => request[q].id # i

Invite(p) ==
    /\ At(p, "invite")
    /\ \E i \in Invitations :
         /\ Unused(i)
         /\ invitation' = [invitation EXCEPT ![i] =
              [email |-> request[p].email, acceptedAt |-> FALSE, expired |-> FALSE]]
    /\ Return(p)
    /\ UNCHANGED <<users, invited, raced>>

\* Seven days pass.
Expire(i) ==
    /\ Exists(i) /\ ~invitation[i].expired
    /\ invitation' = [invitation EXCEPT ![i].expired = TRUE]
    /\ UNCHANGED <<users, request, invited, raced>>

AcceptBegin(p, i) ==
    /\ Exists(i) /\ Pending(i) /\ invitation[i].email \notin users
    /\ Begin(p, [op |-> "accept", id |-> i])
    /\ UNCHANGED <<invitation, users, invited, raced>>

\* The transaction: refused if the email is taken, undone if the row is gone.
Accept(p) ==
    /\ At(p, "accept")
    /\ LET i == request[p].id IN
         /\ Exists(i) /\ invitation[i].email \notin users
         /\ users' = users \cup {invitation[i].email}
         /\ invited' = invited \cup {invitation[i].email}
         /\ invitation' = [invitation EXCEPT ![i].acceptedAt = TRUE]
    /\ Return(p)
    /\ UNCHANGED raced

RevokeBegin(p, i) ==
    /\ Exists(i) /\ ~invitation[i].acceptedAt
    /\ Begin(p, [op |-> "revoke", id |-> i])
    /\ UNCHANGED <<invitation, users, invited, raced>>

Revoke(p) ==
    /\ At(p, "revoke")
    /\ LET i == request[p].id IN
         /\ Exists(i)
         /\ raced' = IF invitation[i].acceptedAt THEN raced \cup {invitation[i].email} ELSE raced
         /\ invitation' = [invitation EXCEPT ![i] = Null]
    /\ Return(p)
    /\ UNCHANGED <<users, invited>>

\* UsersService.create
CreateUser(e) ==
    /\ e \notin users
    /\ users' = users \cup {e}
    /\ UNCHANGED <<invitation, request, invited, raced>>

\* A query fails, or the process stops; a transaction is rolled back.
Abort(p) ==
    /\ request[p] # Null
    /\ Return(p)
    /\ UNCHANGED <<invitation, users, invited, raced>>

Next ==
    \/ \E p \in Requests :
         \/ \E e \in Emails : InviteBegin(p, e)
         \/ \E i \in Invitations : AcceptBegin(p, i) \/ RevokeBegin(p, i)
         \/ Invite(p) \/ Accept(p) \/ Revoke(p) \/ Abort(p)
    \/ \E i \in Invitations : Expire(i)
    \/ \E e \in Emails : CreateUser(e)

-----------------------------------------------------------------------------
(* Properties *)

\* Invitations, users and calls have their types.
TypeOK ==
    /\ invitation \in [Invitations -> Invitation \cup {Null}]
    /\ users \subseteq Emails /\ invited \subseteq users /\ raced \subseteq Emails
    /\ request \in [Requests -> {Null} \cup [op : {"invite"}, email : Emails]
                                       \cup [op : {"accept", "revoke"}, id : Invitations]]

\* "Ya existe una invitación pendiente para ese email": two are pending only if
\* two calls looked at once.
OnePending ==
    \A i, j \in Invitations :
        i # j /\ Exists(i) /\ Exists(j) /\ Pending(i) /\ Pending(j)
        /\ invitation[i].email = invitation[j].email => invitation[i].email \in raced

\* "Esta invitación ya fue utilizada": for every user who came by an invitation
\* exactly one is marked accepted, though two were pending and accepted at once;
\* none only if it was revoked by a call that had read it before.
AcceptedOnce ==
    \A e \in Emails :
        LET accepted == {i \in Invitations :
                           Exists(i) /\ invitation[i].email = e /\ invitation[i].acceptedAt}
        IN  /\ accepted # {} => e \in invited
            /\ \A i, j \in accepted : i = j
            /\ e \in invited /\ accepted = {} => e \in raced
=============================================================================
