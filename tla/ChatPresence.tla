----------------------------- MODULE ChatPresence -----------------------------
(***************************************************************************)
(* Who is online: ChatGateway adds each socket of a user to the Redis set   *)
(* of the user and removes it when the socket closes; the set expires when  *)
(* nothing renews it.  Every Redis command is a step, and the handlers of a *)
(* socket's connection and of its disconnection may overlap.                *)
(***************************************************************************)
EXTENDS Integers

CONSTANTS
    Users, Sockets,
    Faulty, \* users that miss heartbeats (checkUserStatus refuses those on leave),
            \* whose Redis commands may fail, and whose process may stop between
            \* SADD and EXPIRE
    TTL,    \* PRESENCE_TTL, in ticks
    Null

Never == -1 \* the TTL of a key that does not expire

\* A socket.io client: its user, and what its two handlers still have to do.
Client == [user : Users \cup {Null}, open : BOOLEAN,
           connect : {"none", "findUnique", "expire"},
           disconnect : {"none", "expire", "del"}]

Free == [user |-> Null, open |-> FALSE, connect |-> "none", disconnect |-> "none"]

ASSUME PresenceAssumption ==
    /\ TTL \in Nat \ {0}
    /\ Faulty \subseteq Users
    /\ Null \notin Users

VARIABLES
    client,   \* the connections; a socket id is used again once nothing holds it
    sockets,  \* the set of each user in Redis; an empty set is no key
    ttl,      \* how long it lives
    announced \* whether userOffline was sent after the user's last connection

vars == <<client, sockets, ttl, announced>>

Init ==
    /\ client = [s \in Sockets |-> Free]
    /\ sockets = [u \in Users |-> {}]
    /\ ttl = [u \in Users |-> Never]
    /\ announced = [u \in Users |-> TRUE]

\* isOnline, getOnlineUsers, getOnlineCount: SCARD > 0.
Online(u) == sockets[u] # {}

\* client.data.user is set, and the socket has not closed.
Connected(s, u) ==
    /\ client[s].open
    /\ client[s].user = u
    /\ client[s].connect # "findUnique"

HasSocket(u) == \E s \in Sockets : client[s].open /\ client[s].user = u

-----------------------------------------------------------------------------
(* Redis *)

SetKey(u, members, time) ==
    /\ sockets' = [sockets EXCEPT ![u] = members]
    /\ ttl' = [ttl EXCEPT ![u] = IF members = {} THEN Never ELSE time]

Sadd(u, s) == SetKey(u, sockets[u] \cup {s}, ttl[u])

Srem(u, s) == SetKey(u, sockets[u] \ {s}, ttl[u])

\* Mutant: EXPIRE takes milliseconds for seconds.
ExpireLate(u) == SetKey(u, sockets[u], 1000 * TTL)

Expire(u) == SetKey(u, sockets[u], TTL)

Del(u) == SetKey(u, {}, Never)

\* The error is logged, and the rest of the service method is skipped.
RedisFails(u) == u \in Faulty /\ UNCHANGED <<sockets, ttl>>

-----------------------------------------------------------------------------
(* handleConnection *)

\* A socket that has closed is forgotten when its handlers end.
Becomes(s, c) ==
    client' = [client EXCEPT ![s] =
        IF ~c.open /\ c.connect = "none" /\ c.disconnect = "none" THEN Free ELSE c]

\* The token is valid; the user is being looked up.
Connect(s, u) ==
    /\ client[s] = Free
    /\ \A v \in Users : s \notin sockets[v]
    /\ Becomes(s, [Free EXCEPT !.user = u, !.open = TRUE, !.connect = "findUnique"])
    /\ UNCHANGED <<sockets, ttl, announced>>

\* An unknown, inactive or suspended user, or an error.
Refuse(s) ==
    /\ client[s].connect = "findUnique"
    /\ Becomes(s, Free)
    /\ UNCHANGED <<sockets, ttl, announced>>

\* The handler does not notice that the socket has closed meanwhile.
UserConnected(s) ==
    /\ client[s].connect = "findUnique"
    /\ LET u == client[s].user IN
         \/ /\ Sadd(u, s)
            /\ Becomes(s, [client[s] EXCEPT !.connect = "expire"])
         \/ /\ RedisFails(u)
            /\ Becomes(s, [client[s] EXCEPT !.connect = "none"])
    /\ announced' = [announced EXCEPT ![client[s].user] = FALSE]

UserConnectedExpire(s) ==
    /\ client[s].connect = "expire"
    /\ Expire(client[s].user) \/ RedisFails(client[s].user)
    /\ Becomes(s, [client[s] EXCEPT !.connect = "none"])
    /\ UNCHANGED announced

-----------------------------------------------------------------------------
(* handleDisconnect *)

UserOffline(u) == announced' = [announced EXCEPT ![u] = TRUE]

\* Before client.data.user is set there is nobody to remove.
DropEarly(s) ==
    /\ client[s].open
    /\ client[s].connect = "findUnique"
    /\ Becomes(s, [client[s] EXCEPT !.open = FALSE])
    /\ UNCHANGED <<sockets, ttl, announced>>

\* Mutant: a disconnection always deletes the key.
DelAlways(u, s) == "del"

\* SREM answers how many members it removed, not how many remain.
AfterSrem(u, s) == IF s \in sockets[u] THEN "expire" ELSE "del"

UserDisconnected(s) ==
    /\ client[s].open
    /\ client[s].connect \in {"none", "expire"}
    /\ LET u == client[s].user IN
         \/ /\ Srem(u, s)
            /\ Becomes(s, [client[s] EXCEPT !.open = FALSE, !.disconnect = AfterSrem(u, s)])
            /\ UNCHANGED announced
         \/ /\ RedisFails(u)
            /\ Becomes(s, [client[s] EXCEPT !.open = FALSE])
            /\ UserOffline(u)

UserDisconnectedExpire(s) ==
    /\ client[s].disconnect = "expire"
    /\ LET u == client[s].user IN
         \/ Expire(u) /\ UNCHANGED announced
         \/ RedisFails(u) /\ UserOffline(u)
    /\ Becomes(s, [client[s] EXCEPT !.disconnect = "none"])

UserDisconnectedDel(s) ==
    /\ client[s].disconnect = "del"
    /\ LET u == client[s].user IN
         /\ Del(u) \/ RedisFails(u)
         /\ UserOffline(u)
    /\ Becomes(s, [client[s] EXCEPT !.disconnect = "none"])

-----------------------------------------------------------------------------
(* Heartbeats, time and failures *)

\* Mutant: a heartbeat no longer renews the key, it makes it permanent.
Persist(u) == SetKey(u, sockets[u], Never)

Renew(u) == Expire(u)

Heartbeat(s) ==
    /\ \E u \in Users : Connected(s, u) /\ Renew(u)
    /\ UNCHANGED <<client, announced>>

\* A user whose client is on time renews the key before it expires.
OnTime(u) == ttl[u] = 1 => \A s \in Sockets : ~Connected(s, u)

Tick ==
    /\ \A u \in Users \ Faulty : OnTime(u)
    /\ \E u \in Users : ttl[u] # Never
    /\ sockets' = [u \in Users |-> IF ttl[u] = 1 THEN {} ELSE sockets[u]]
    /\ ttl' = [u \in Users |-> IF ttl[u] \in {1, Never} THEN Never ELSE ttl[u] - 1]
    /\ UNCHANGED <<client, announced>>

\* The process stops: its sockets close and its handlers end where they are.
Crash ==
    /\ \A s \in Sockets : client[s].connect = "expire" => client[s].user \in Faulty
    /\ client' = [s \in Sockets |-> Free]
    /\ UNCHANGED <<sockets, ttl, announced>>

-----------------------------------------------------------------------------
Handler(s) ==
    \/ UserConnected(s)
    \/ UserConnectedExpire(s)
    \/ UserDisconnectedExpire(s)
    \/ UserDisconnectedDel(s)

Next ==
    \/ \E s \in Sockets :
         \/ \E u \in Users : Connect(s, u)
         \/ Refuse(s)
         \/ DropEarly(s)
         \/ UserDisconnected(s)
         \/ Handler(s)
         \/ Heartbeat(s)
    \/ Tick
    \/ Crash

\* Handlers end, Redis counts time down, and the clients of users that are not
\* faulty send heartbeats.
Fairness ==
    /\ \A s \in Sockets : WF_vars(Handler(s))
    /\ \A s \in Sockets : WF_vars(client[s].user \notin Faulty /\ Heartbeat(s))
    /\ WF_vars(Tick)

Spec == Init /\ [][Next]_vars

FairSpec == Spec /\ Fairness

-----------------------------------------------------------------------------
TypeOK ==
    /\ client \in [Sockets -> Client]
    /\ sockets \in [Users -> SUBSET Sockets]
    /\ ttl \in [Users -> {Never} \cup 1..TTL]
    /\ announced \in [Users -> BOOLEAN]

\* A user with an open tab is online, whatever its other tabs do: tabs that
\* close, tabs that close while they connect, and what a crash left behind
\* never take the user's presence away (handleConnection, handleDisconnect).
ConnectedIsOnline ==
    \A u \in Users \ Faulty, s \in Sockets : Connected(s, u) => s \in sockets[u]

\* A key without a TTL is about to get one: no order of connections, closings
\* and heartbeats leaves a presence that would last for ever (userConnected).
KeysExpire ==
    \A u \in Users \ Faulty :
        (Online(u) /\ ttl[u] = Never)
        => \E s \in Sockets : client[s].user = u /\ client[s].connect = "expire"

\* A user without any tab does not stay online for ever: sockets that no
\* disconnection removes (they closed while the user was looked up, or with
\* the process) vanish with the key (PRESENCE_TTL).
GhostsFade == \A u \in Users \ Faulty : []<>(HasSocket(u) \/ ~Online(u))

\* Claim: when the last tab of a user closes, userOffline is sent.
DepartureAnnounced ==
    \A u \in Users :
        (/\ ~Online(u)
         /\ \A s \in Sockets : client[s].user # u)
        => announced[u]
=============================================================================
