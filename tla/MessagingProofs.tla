--------------------------- MODULE MessagingProofs ---------------------------
(***************************************************************************)
(* Presence, for any number of users, sockets and ticks: a connected user   *)
(* is online, and every key of a user that is not faulty will expire.       *)
(*                                                                         *)
(* Delivery, for any number of jobs, executions, recipients, attempts and   *)
(* stalls: what a failure, a lost lock or a stopped worker can repeat, and  *)
(* that no published announcement is left without a job.                    *)
(***************************************************************************)
EXTENDS MCMessaging, FiniteSetTheorems, TLAPS

-----------------------------------------------------------------------------
(* Presence *)

\* A handler belongs to a user; a disconnection runs when the socket is closed.
ClientOK ==
    \A s \in Sockets :
        /\ client[s].user = Null => client[s] = Free
        /\ client[s].open => client[s].disconnect = "none"

TypeInv == TypeOK /\ ClientOK

\* No disconnection of a user that is not faulty finds its socket missing.
NoDel ==
    \A s \in Sockets :
        client[s].user \in Users \ Faulty => client[s].disconnect # "del"

USE PresenceAssumption

-----------------------------------------------------------------------------
\* What SetKey leaves in Redis is a set and a time (SADD, SREM, EXPIRE, DEL).
LEMMA SetKeyType ==
    ASSUME TypeOK, NEW u \in Users, NEW members \in SUBSET Sockets,
           NEW time \in {Never} \cup 1..TTL, SetKey(u, members, time)
    PROVE  /\ sockets' \in [Users -> SUBSET Sockets]
           /\ ttl' \in [Users -> {Never} \cup 1..TTL]
           /\ sockets'[u] = members
           /\ \A v \in Users \ {u} : sockets'[v] = sockets[v] /\ ttl'[v] = ttl[v]
           /\ members # {} => ttl'[u] = time
BY DEF SetKey, TypeOK

\* What a handler leaves of its socket is again a socket in order.
LEMMA BecomesType ==
    ASSUME TypeInv, NEW s \in Sockets, NEW c \in Client, Becomes(s, c),
           c.user \in Users, c.open => c.disconnect = "none"
    PROVE  /\ client' \in [Sockets -> Client]
           /\ ClientOK'
           /\ \A r \in Sockets \ {s} : client'[r] = client[r]
           /\ client'[s] = c \/ (client'[s] = Free /\ ~c.open /\ c.connect = "none")
<1>1. Free \in Client
  BY DEF Free, Client
<1>2. Free.user = Null /\ ~Free.open
  BY DEF Free
<1>3. c.user # Null
  OBVIOUS
<1>4. client'[s] = c \/ (client'[s] = Free /\ ~c.open /\ c.connect = "none")
  BY DEF Becomes, TypeInv, TypeOK
<1>5. \A r \in Sockets \ {s} : client'[r] = client[r]
  BY DEF Becomes, TypeInv, TypeOK
<1>6. client' \in [Sockets -> Client]
  BY <1>1 DEF Becomes, TypeInv, TypeOK
<1>7. ClientOK'
  BY <1>2, <1>3, <1>4, <1>5 DEF ClientOK, TypeInv
<1> QED
  BY <1>4, <1>5, <1>6, <1>7

\* A change of one socket's record that Becomes is applied to.
LEMMA Changed ==
    ASSUME TypeInv, NEW s \in Sockets, client[s].user # Null
    PROVE  /\ client[s] \in Client
           /\ client[s].user \in Users
           /\ \A x \in {"none", "findUnique", "expire"} :
                /\ [client[s] EXCEPT !.connect = x] \in Client
                /\ [client[s] EXCEPT !.connect = x].user = client[s].user
                /\ [client[s] EXCEPT !.connect = x].open = client[s].open
                /\ [client[s] EXCEPT !.connect = x].connect = x
                /\ [client[s] EXCEPT !.connect = x].disconnect = client[s].disconnect
           /\ \A x \in {"none", "expire", "del"} :
                /\ [client[s] EXCEPT !.disconnect = x] \in Client
                /\ [client[s] EXCEPT !.disconnect = x].user = client[s].user
                /\ [client[s] EXCEPT !.disconnect = x].open = client[s].open
                /\ [client[s] EXCEPT !.disconnect = x].connect = client[s].connect
                /\ [client[s] EXCEPT !.disconnect = x].disconnect = x
                /\ [client[s] EXCEPT !.open = FALSE, !.disconnect = x] \in Client
                /\ [client[s] EXCEPT !.open = FALSE, !.disconnect = x].user = client[s].user
                /\ ~[client[s] EXCEPT !.open = FALSE, !.disconnect = x].open
                /\ [client[s] EXCEPT !.open = FALSE, !.disconnect = x].connect = client[s].connect
                /\ [client[s] EXCEPT !.open = FALSE, !.disconnect = x].disconnect = x
           /\ [client[s] EXCEPT !.open = FALSE] \in Client
           /\ [client[s] EXCEPT !.open = FALSE].user = client[s].user
           /\ ~[client[s] EXCEPT !.open = FALSE].open
           /\ [client[s] EXCEPT !.open = FALSE].connect = client[s].connect
           /\ [client[s] EXCEPT !.open = FALSE].disconnect = client[s].disconnect
<1>1. client[s] \in Client
  BY DEF TypeInv, TypeOK
<1> QED
  BY <1>1 DEF Client

-----------------------------------------------------------------------------
\* The busy handlers belong to users.
LEMMA Busy ==
    ASSUME TypeInv, NEW s \in Sockets,
           \/ client[s].open
           \/ client[s].connect # "none"
           \/ client[s].disconnect # "none"
    PROVE  client[s].user # Null /\ client[s].user \in Users
BY DEF TypeInv, TypeOK, ClientOK, Free, Client

\* Every step of the gateway and of Redis preserves the types.
LEMMA TypeStep == TypeInv /\ [Next]_vars => TypeInv'
<1> SUFFICES ASSUME TypeInv, [Next]_vars
             PROVE  TypeInv'
  OBVIOUS
<1> USE DEF TypeInv
<1>fr. Free \in Client
  BY DEF Free, Client
<1>ttl. TTL \in {Never} \cup 1..TTL /\ Never \in {Never} \cup 1..TTL
  OBVIOUS
<1>1. ASSUME NEW s \in Sockets, NEW u \in Users, Connect(s, u)
      PROVE  TypeInv'
  <2> DEFINE c == [Free EXCEPT !.user = u, !.open = TRUE, !.connect = "findUnique"]
  <2>1. c \in Client /\ c.user \in Users /\ c.disconnect = "none"
    BY DEF Client, Free
  <2>2. client' \in [Sockets -> Client] /\ ClientOK'
    BY <1>1, <2>1, BecomesType DEF Connect
  <2> QED
    BY <1>1, <2>2 DEF Connect, TypeOK
<1>2. ASSUME NEW s \in Sockets, Refuse(s)
      PROVE  TypeInv'
  <2>1. client' = [client EXCEPT ![s] = Free]
    BY <1>2 DEF Refuse, Becomes, Free
  <2> QED
    BY <1>2, <1>fr, <2>1 DEF Refuse, TypeOK, ClientOK, Free
<1>3. ASSUME NEW s \in Sockets, DropEarly(s)
      PROVE  TypeInv'
  <2>1. client[s].user # Null /\ client[s].user \in Users
    BY <1>3, Busy DEF DropEarly
  <2>2. client' \in [Sockets -> Client] /\ ClientOK'
    BY <1>3, <2>1, Changed, BecomesType DEF DropEarly
  <2> QED
    BY <1>3, <2>2 DEF DropEarly, TypeOK
<1>4. ASSUME NEW s \in Sockets, UserConnected(s)
      PROVE  TypeInv'
  <2>1. client[s].user # Null /\ client[s].user \in Users
    BY <1>4, Busy DEF UserConnected
  <2>2. client[s].open => client[s].disconnect = "none"
    BY DEF ClientOK
  <2>3. PICK x \in {"none", "findUnique", "expire"} :
            Becomes(s, [client[s] EXCEPT !.connect = x])
    BY <1>4 DEF UserConnected
  <2>6. client' \in [Sockets -> Client] /\ ClientOK'
    <3> DEFINE c == [client[s] EXCEPT !.connect = x]
    <3>1. c \in Client /\ c.user \in Users /\ (c.open => c.disconnect = "none")
      BY <2>1, <2>2, Changed, ZenonT(30)
    <3> HIDE DEF c
    <3> QED
      BY <2>3, <3>1, BecomesType DEF c
  <2>4. /\ sockets' \in [Users -> SUBSET Sockets]
        /\ ttl' \in [Users -> {Never} \cup 1..TTL]
    BY <1>4, <2>1, SetKeyType DEF UserConnected, Sadd, RedisFails, TypeOK
  <2>5. announced' \in [Users -> BOOLEAN]
    BY <1>4, <2>1 DEF UserConnected, TypeOK
  <2> QED
    BY <2>4, <2>5, <2>6 DEF TypeOK
<1>5. ASSUME NEW s \in Sockets, UserConnectedExpire(s)
      PROVE  TypeInv'
  <2>1. client[s].user # Null /\ client[s].user \in Users
    BY <1>5, Busy DEF UserConnectedExpire
  <2>2. client[s].open => client[s].disconnect = "none"
    BY DEF ClientOK
  <2>3. client' \in [Sockets -> Client] /\ ClientOK'
    <3> DEFINE c == [client[s] EXCEPT !.connect = "none"]
    <3>1. c \in Client /\ c.user \in Users /\ (c.open => c.disconnect = "none")
      BY <2>1, <2>2, Changed
    <3>2. Becomes(s, c)
      BY <1>5 DEF UserConnectedExpire
    <3> HIDE DEF c
    <3> QED
      BY <3>1, <3>2, BecomesType
  <2>4. /\ sockets' \in [Users -> SUBSET Sockets]
        /\ ttl' \in [Users -> {Never} \cup 1..TTL]
    BY <1>5, <1>ttl, <2>1, SetKeyType DEF UserConnectedExpire, Expire, RedisFails, TypeOK
  <2> QED
    BY <1>5, <2>3, <2>4 DEF UserConnectedExpire, TypeOK
<1>6. ASSUME NEW s \in Sockets, UserDisconnected(s)
      PROVE  TypeInv'
  <2>1. client[s].user # Null /\ client[s].user \in Users
    BY <1>6, Busy DEF UserDisconnected
  <2>2. client[s].disconnect = "none"
    BY <1>6 DEF ClientOK, UserDisconnected
  <2>3. AfterSrem(client[s].user, s) \in {"none", "expire", "del"}
    BY DEF AfterSrem
  <2>4. client' \in [Sockets -> Client] /\ ClientOK'
    BY <1>6, <2>1, <2>2, <2>3, Changed, BecomesType, ZenonT(30) DEF UserDisconnected
  <2>5. /\ sockets' \in [Users -> SUBSET Sockets]
        /\ ttl' \in [Users -> {Never} \cup 1..TTL]
    BY <1>6, <2>1, SetKeyType DEF UserDisconnected, Srem, RedisFails, TypeOK
  <2>6. announced' \in [Users -> BOOLEAN]
    BY <1>6, <2>1 DEF UserDisconnected, UserOffline, TypeOK
  <2> QED
    BY <2>4, <2>5, <2>6 DEF TypeOK
<1>7. ASSUME NEW s \in Sockets, UserDisconnectedExpire(s) \/ UserDisconnectedDel(s)
      PROVE  TypeInv'
  <2>1. client[s].user # Null /\ client[s].user \in Users
    BY <1>7, Busy DEF UserDisconnectedExpire, UserDisconnectedDel
  <2>3. client' \in [Sockets -> Client] /\ ClientOK'
    BY <1>7, <2>1, Changed, BecomesType DEF UserDisconnectedExpire, UserDisconnectedDel
  <2>4. /\ sockets' \in [Users -> SUBSET Sockets]
        /\ ttl' \in [Users -> {Never} \cup 1..TTL]
    BY <1>7, <1>ttl, <2>1, SetKeyType
    DEF UserDisconnectedExpire, UserDisconnectedDel, Expire, Del, RedisFails, TypeOK
  <2>5. announced' \in [Users -> BOOLEAN]
    BY <1>7, <2>1 DEF UserDisconnectedExpire, UserDisconnectedDel, UserOffline, TypeOK
  <2> QED
    BY <2>3, <2>4, <2>5 DEF TypeOK
<1>8. ASSUME NEW s \in Sockets, Heartbeat(s)
      PROVE  TypeInv'
  <2>1. PICK u \in Users : Renew(u)
    BY <1>8 DEF Heartbeat
  <2>2. /\ sockets' \in [Users -> SUBSET Sockets]
        /\ ttl' \in [Users -> {Never} \cup 1..TTL]
    BY <1>ttl, <2>1, SetKeyType DEF Renew, Expire, TypeOK
  <2> QED
    BY <1>8, <2>2 DEF Heartbeat, TypeOK, ClientOK
<1>9. CASE Tick
  <2>1. ASSUME NEW u \in Users
        PROVE  (IF ttl[u] \in {1, Never} THEN Never ELSE ttl[u] - 1) \in {Never} \cup 1..TTL
    BY DEF TypeOK
  <2>2. ttl' \in [Users -> {Never} \cup 1..TTL]
    BY <1>9, <2>1 DEF Tick
  <2>3. sockets' \in [Users -> SUBSET Sockets]
    BY <1>9 DEF Tick, TypeOK
  <2> QED
    BY <1>9, <2>2, <2>3 DEF Tick, TypeOK, ClientOK
<1>10. CASE Crash
  BY <1>10, <1>fr DEF Crash, TypeOK, ClientOK, Free
<1>11. CASE UNCHANGED vars
  BY <1>11 DEF vars, TypeOK, ClientOK
<1> QED
  BY <1>1, <1>2, <1>3, <1>4, <1>5, <1>6, <1>7, <1>8, <1>9, <1>10, <1>11 DEF Next, Handler

LEMMA TypeInit == Init => TypeInv
BY DEF Init, TypeInv, TypeOK, ClientOK, Free, Client

\* Connections, Redis keys and announcements keep their types.
THEOREM TypeCorrect == Spec => []TypeOK
<1>1. TypeInv => TypeOK
  BY DEF TypeInv
<1> QED
  BY <1>1, TypeInit, TypeStep, PTL DEF Spec

-----------------------------------------------------------------------------
\* The keys of the other users stay as they are.
OtherKeys(u) == \A v \in Users \ {u} : sockets'[v] = sockets[v] /\ ttl'[v] = ttl[v]

\* What each Redis command does to the key of u.
LEMMA Keys ==
    ASSUME TypeInv, NEW u \in Users, NEW s \in Sockets
    PROVE  /\ Sadd(u, s) => OtherKeys(u) /\ sockets'[u] = sockets[u] \cup {s}
           /\ Srem(u, s) => /\ OtherKeys(u)
                            /\ sockets'[u] = sockets[u] \ {s}
                            /\ sockets'[u] # {} => ttl'[u] = ttl[u]
           /\ Expire(u) => /\ OtherKeys(u)
                           /\ sockets'[u] = sockets[u]
                           /\ sockets[u] # {} => ttl'[u] = TTL
           /\ Del(u) => OtherKeys(u)
           /\ UNCHANGED <<sockets, ttl>> => OtherKeys(u)
<1>1. Sadd(u, s) => OtherKeys(u) /\ sockets'[u] = sockets[u] \cup {s}
  BY DEF Sadd, SetKey, OtherKeys, TypeInv, TypeOK
<1>2. Srem(u, s) => /\ OtherKeys(u)
                    /\ sockets'[u] = sockets[u] \ {s}
                    /\ sockets'[u] # {} => ttl'[u] = ttl[u]
  BY DEF Srem, SetKey, OtherKeys, TypeInv, TypeOK
<1>3. Expire(u) => /\ OtherKeys(u)
                   /\ sockets'[u] = sockets[u]
                   /\ sockets[u] # {} => ttl'[u] = TTL
  BY DEF Expire, SetKey, OtherKeys, TypeInv, TypeOK
<1>4. Del(u) => OtherKeys(u)
  BY DEF Del, SetKey, OtherKeys, TypeInv, TypeOK
<1>5. UNCHANGED <<sockets, ttl>> => OtherKeys(u)
  BY DEF OtherKeys
<1> QED
  BY <1>1, <1>2, <1>3, <1>4, <1>5

\* A handler's step never connects another socket, nor its own once it is Free.
LEMMA StillConnected ==
    ASSUME TypeInv, NEW s \in Sockets, NEW u \in Users, NEW c \in Client,
           \A r \in Sockets \ {s} : client'[r] = client[r], client'[s] \in {c, Free},
           c.user = u
    PROVE  \A r \in Sockets : Connected(r, u)' =>
             \/ Connected(r, u)
             \/ r = s /\ c.open /\ c.connect # "findUnique"
BY DEF Connected, Free

-----------------------------------------------------------------------------
Inv == ConnectedIsOnline /\ NoDel /\ KeysExpire

\* A step of socket s that leaves Redis alone and connects nobody.
LEMMA ClientStep ==
    ASSUME TypeInv, Inv, NEW s \in Sockets, UNCHANGED <<sockets, ttl>>,
           \A r \in Sockets \ {s} : client'[r] = client[r],
           \A u \in Users \ Faulty :
             /\ Connected(s, u)' => Connected(s, u)
             /\ client'[s].user = u => client'[s].disconnect # "del"
             /\ client[s].user = u => client[s].connect # "expire"
    PROVE  Inv'
<1>1. ConnectedIsOnline'
  BY DEF Inv, ConnectedIsOnline, Connected
<1>2. NoDel'
  BY DEF Inv, NoDel
<1>3. KeysExpire'
  BY DEF Inv, KeysExpire, Online
<1> QED
  BY <1>1, <1>2, <1>3 DEF Inv

\* A step of socket s and the key of its user.
LEMMA KeyStep ==
    ASSUME TypeInv, Inv, NEW s \in Sockets, NEW u \in Users,
           OtherKeys(u),
           \A r \in Sockets \ {s} : client'[r] = client[r],
           client[s].user = u, client'[s].user \in {u, Null},
           u \in Users \ Faulty =>
             /\ \A r \in Sockets : Connected(r, u)' => r \in sockets'[u]
             /\ client'[s].disconnect # "del"
             /\ \/ ~Online(u)'
                \/ ttl'[u] # Never
                \/ client'[s].user = u /\ client'[s].connect = "expire"
                \/ /\ Online(u) /\ ttl[u] = Never
                   /\ client[s].connect # "expire"
    PROVE  Inv'
<1>1. ConnectedIsOnline'
  BY DEF Inv, ConnectedIsOnline, Connected, OtherKeys
<1>2. NoDel'
  BY DEF Inv, NoDel
<1>3. KeysExpire'
  <2> SUFFICES ASSUME NEW v \in Users \ Faulty, Online(v)', ttl'[v] = Never
               PROVE  \E r \in Sockets : client'[r].user = v /\ client'[r].connect = "expire"
    BY DEF KeysExpire, Online
  <2>1. CASE v # u
    <3>1. PICK r \in Sockets : client[r].user = v /\ client[r].connect = "expire"
      BY <2>1 DEF Inv, KeysExpire, Online, OtherKeys
    <3> QED
      BY <2>1, <3>1
  <2>2. CASE v = u
    BY <2>2 DEF Inv, KeysExpire, Online
  <2> QED
    BY <2>1, <2>2
<1> QED
  BY <1>1, <1>2, <1>3 DEF Inv

\* Every step keeps the users that are not faulty online and their keys mortal.
LEMMA PresenceStep == TypeInv /\ Inv /\ [Next]_vars => Inv'
<1> SUFFICES ASSUME TypeInv, Inv, [Next]_vars
             PROVE  Inv'
  OBVIOUS
<1> USE DEF TypeInv
<1>fr. Free \in Client /\ Free.user = Null /\ ~Free.open /\ Free.connect = "none"
       /\ Free.disconnect = "none"
  BY DEF Free, Client
<1>ttl. TTL \in {Never} \cup 1..TTL /\ Never \in {Never} \cup 1..TTL /\ TTL # Never
  BY DEF Never
<1>1. ASSUME NEW s \in Sockets, NEW u \in Users, Connect(s, u)
      PROVE  Inv'
  <2> DEFINE c == [Free EXCEPT !.user = u, !.open = TRUE, !.connect = "findUnique"]
  <2>1. /\ c \in Client /\ c.user = u /\ c.disconnect = "none"
        /\ c.connect = "findUnique" /\ c.open
    BY DEF Client, Free
  <2>2. client'[s] = c /\ \A r \in Sockets \ {s} : client'[r] = client[r]
    BY <1>1, <2>1, BecomesType DEF Connect
  <2> HIDE DEF c
  <2> QED
    BY <1>1, <1>fr, <2>1, <2>2, ClientStep DEF Connect, Connected
<1>2. ASSUME NEW s \in Sockets, Refuse(s)
      PROVE  Inv'
  <2>1. client' = [client EXCEPT ![s] = Free]
    BY <1>2 DEF Refuse, Becomes, Free
  <2>2. client'[s] = Free /\ \A r \in Sockets \ {s} : client'[r] = client[r]
    BY <2>1 DEF TypeOK
  <2> QED
    BY <1>2, <1>fr, <2>2, ClientStep DEF Refuse, Connected
<1>3. ASSUME NEW s \in Sockets, DropEarly(s)
      PROVE  Inv'
  <2> DEFINE c == [client[s] EXCEPT !.open = FALSE]
  <2>1. client[s].user # Null /\ client[s].user \in Users
    BY <1>3, Busy DEF DropEarly
  <2>5. client[s].disconnect = "none"
    BY <1>3 DEF DropEarly, ClientOK
  <2>2. c \in Client /\ c.user \in Users /\ ~c.open /\ c.disconnect = "none"
    BY <2>1, <2>5, Changed
  <2>3. Becomes(s, c)
    BY <1>3 DEF DropEarly
  <2> HIDE DEF c
  <2>4. /\ client'[s] \in {c, Free}
        /\ \A r \in Sockets \ {s} : client'[r] = client[r]
    BY <2>2, <2>3, BecomesType
  <2> QED
    BY <1>3, <1>fr, <2>2, <2>4, ClientStep DEF DropEarly, Connected
<1>4. ASSUME NEW s \in Sockets, UserConnected(s)
      PROVE  Inv'
  <2>0. client[s].open => client[s].disconnect = "none"
    BY DEF ClientOK
  <2>1. PICK u \in Users : client[s].user = u /\ u # Null
    BY <1>4, Busy DEF UserConnected
  <2>2. PICK x \in {"none", "findUnique", "expire"} :
            /\ Becomes(s, [client[s] EXCEPT !.connect = x])
            /\ \/ Sadd(u, s) /\ x = "expire"
               \/ u \in Faulty /\ UNCHANGED <<sockets, ttl>>
    BY <1>4, <2>1 DEF UserConnected, RedisFails
  <2> DEFINE c == [client[s] EXCEPT !.connect = x]
  <2>3. /\ c \in Client /\ c.user = u /\ (c.open => c.disconnect = "none")
        /\ c.connect = x /\ c.disconnect = client[s].disconnect /\ c.open = client[s].open
    BY <2>0, <2>1, Changed, ZenonT(30)
  <2> HIDE DEF c
  <2>4. /\ client'[s] = c \/ (client'[s] = Free /\ c.connect = "none")
        /\ \A r \in Sockets \ {s} : client'[r] = client[r]
    BY <2>1, <2>2, <2>3, BecomesType DEF c
  <2>5. OtherKeys(u)
    BY <2>1, <2>2, Keys
  <2>6. ASSUME u \notin Faulty
        PROVE  /\ \A r \in Sockets : Connected(r, u)' => r \in sockets'[u]
               /\ client'[s].disconnect # "del"
               /\ client'[s].user = u /\ client'[s].connect = "expire"
    <3>1. sockets'[u] = sockets[u] \cup {s}
      BY <2>1, <2>2, <2>6, Keys
    <3>2. client'[s] = c /\ c.connect = "expire"
      BY <2>2, <2>3, <2>4, <2>6
    <3>3. client[s].disconnect # "del"
      BY <2>1, <2>6 DEF Inv, NoDel
    <3>4. \A r \in Sockets : Connected(r, u)' => r \in sockets'[u]
      BY <2>1, <2>4, <2>6, <3>1 DEF Inv, ConnectedIsOnline, Connected
    <3> QED
      BY <2>3, <3>2, <3>3, <3>4
  <2>7. client'[s].user \in {u, Null}
    BY <1>fr, <2>3, <2>4
  <2> QED
    BY <2>1, <2>4, <2>5, <2>6, <2>7, KeyStep
<1>5. ASSUME NEW s \in Sockets, UserConnectedExpire(s)
      PROVE  Inv'
  <2> DEFINE c == [client[s] EXCEPT !.connect = "none"]
  <2>0. client[s].open => client[s].disconnect = "none"
    BY DEF ClientOK
  <2>1. PICK u \in Users : client[s].user = u /\ u # Null
    BY <1>5, Busy DEF UserConnectedExpire
  <2>2. /\ Becomes(s, c)
        /\ Expire(u) \/ (u \in Faulty /\ UNCHANGED <<sockets, ttl>>)
    BY <1>5, <2>1 DEF UserConnectedExpire, RedisFails
  <2>3. /\ c \in Client /\ c.user = u /\ (c.open => c.disconnect = "none")
        /\ c.connect = "none" /\ c.disconnect = client[s].disconnect
        /\ c.open = client[s].open
    BY <2>0, <2>1, Changed
  <2> HIDE DEF c
  <2>4. /\ client'[s] \in {c, Free}
        /\ \A r \in Sockets \ {s} : client'[r] = client[r]
    BY <2>1, <2>2, <2>3, BecomesType
  <2>5. OtherKeys(u)
    BY <1>ttl, <2>1, <2>2, Keys
  <2>6. ASSUME u \notin Faulty
        PROVE  /\ \A r \in Sockets : Connected(r, u)' => r \in sockets'[u]
               /\ client'[s].disconnect # "del"
               /\ ~Online(u)' \/ ttl'[u] # Never
    <3>1. sockets'[u] = sockets[u] /\ (sockets[u] # {} => ttl'[u] = TTL)
      BY <1>ttl, <2>1, <2>2, <2>6, Keys
    <3>2. client[s].disconnect # "del"
      BY <2>1, <2>6 DEF Inv, NoDel
    <3>3. \A r \in Sockets : Connected(r, u)' => Connected(r, u)
      BY <1>5, <2>1, <2>3, <2>4, StillConnected DEF UserConnectedExpire, Connected
    <3>4. \A r \in Sockets : Connected(r, u)' => r \in sockets'[u]
      BY <2>1, <2>6, <3>1, <3>3 DEF Inv, ConnectedIsOnline
    <3> QED
      BY <1>fr, <1>ttl, <2>3, <2>4, <3>1, <3>2, <3>4 DEF Online
  <2>7. client'[s].user \in {u, Null}
    BY <1>fr, <2>3, <2>4
  <2> QED
    BY <2>1, <2>4, <2>5, <2>6, <2>7, KeyStep
<1>6. ASSUME NEW s \in Sockets, UserDisconnected(s)
      PROVE  Inv'
  <2>1. PICK u \in Users : client[s].user = u /\ u # Null
    BY <1>6, Busy DEF UserDisconnected
  <2>2. client[s].open /\ client[s].connect # "findUnique" /\ client[s].disconnect = "none"
    BY <1>6 DEF UserDisconnected, ClientOK
  <2>3. PICK c \in Client :
            /\ Becomes(s, c) /\ c.user = u /\ ~c.open /\ c.connect = client[s].connect
            /\ \/ Srem(u, s) /\ c.disconnect = AfterSrem(u, s)
               \/ u \in Faulty /\ UNCHANGED <<sockets, ttl>>
    <3>1. AfterSrem(u, s) \in {"none", "expire", "del"}
      BY DEF AfterSrem
    <3>2. CASE /\ Srem(u, s)
               /\ Becomes(s, [client[s] EXCEPT !.open = FALSE, !.disconnect = AfterSrem(u, s)])
      <4> DEFINE d == [client[s] EXCEPT !.open = FALSE, !.disconnect = AfterSrem(u, s)]
      <4>1. /\ d \in Client /\ d.user = u /\ ~d.open /\ d.connect = client[s].connect
            /\ d.disconnect = AfterSrem(u, s)
        BY <2>1, <3>1, Changed
      <4>2. Becomes(s, d) /\ Srem(u, s)
        BY <3>2
      <4> HIDE DEF d
      <4> QED
        BY <4>1, <4>2
    <3>3. CASE RedisFails(u) /\ Becomes(s, [client[s] EXCEPT !.open = FALSE])
      BY <2>1, <3>3, Changed DEF RedisFails
    <3> QED
      BY <1>6, <2>1, <3>2, <3>3 DEF UserDisconnected
  <2>4. /\ client'[s] = c \/ (client'[s] = Free /\ c.connect = "none")
        /\ \A r \in Sockets \ {s} : client'[r] = client[r]
    BY <2>1, <2>3, BecomesType
  <2>5. OtherKeys(u)
    BY <2>1, <2>3, Keys
  <2>6. ASSUME u \notin Faulty
        PROVE  /\ \A r \in Sockets : Connected(r, u)' => r \in sockets'[u]
               /\ client'[s].disconnect # "del"
               /\ \/ ~Online(u)'
                  \/ ttl'[u] # Never
                  \/ client'[s].user = u /\ client'[s].connect = "expire"
                  \/ Online(u) /\ ttl[u] = Never /\ client[s].connect # "expire"
    <3>1. s \in sockets[u]
      BY <2>1, <2>2, <2>6 DEF Inv, ConnectedIsOnline, Connected
    <3>2. /\ sockets'[u] = sockets[u] \ {s}
          /\ sockets'[u] # {} => ttl'[u] = ttl[u]
      BY <2>1, <2>3, <2>6, Keys
    <3>3. c.disconnect = "expire"
      BY <2>3, <2>6, <3>1 DEF AfterSrem
    <3>4. \A r \in Sockets : Connected(r, u)' => r # s /\ Connected(r, u)
      BY <1>fr, <2>3, <2>4 DEF Connected
    <3>5. \A r \in Sockets : Connected(r, u)' => r \in sockets'[u]
      BY <2>1, <2>6, <3>2, <3>4 DEF Inv, ConnectedIsOnline
    <3> QED
      BY <1>fr, <2>3, <2>4, <3>1, <3>2, <3>3, <3>5 DEF Online
  <2>7. client'[s].user \in {u, Null}
    BY <1>fr, <2>3, <2>4
  <2> QED
    BY <2>1, <2>4, <2>5, <2>6, <2>7, KeyStep
<1>7. ASSUME NEW s \in Sockets, UserDisconnectedExpire(s)
      PROVE  Inv'
  <2> DEFINE c == [client[s] EXCEPT !.disconnect = "none"]
  <2>1. PICK u \in Users : client[s].user = u /\ u # Null
    BY <1>7, Busy DEF UserDisconnectedExpire
  <2>2. /\ Becomes(s, c)
        /\ Expire(u) \/ (u \in Faulty /\ UNCHANGED <<sockets, ttl>>)
    BY <1>7, <2>1 DEF UserDisconnectedExpire, RedisFails
  <2>3. /\ c \in Client /\ c.user = u /\ c.disconnect = "none"
        /\ c.connect = client[s].connect /\ c.open = client[s].open
    BY <2>1, Changed
  <2> HIDE DEF c
  <2>4. /\ client'[s] \in {c, Free}
        /\ \A r \in Sockets \ {s} : client'[r] = client[r]
    BY <2>1, <2>2, <2>3, BecomesType
  <2>5. OtherKeys(u)
    BY <1>ttl, <2>1, <2>2, Keys
  <2>6. ASSUME u \notin Faulty
        PROVE  /\ \A r \in Sockets : Connected(r, u)' => r \in sockets'[u]
               /\ client'[s].disconnect # "del"
               /\ ~Online(u)' \/ ttl'[u] # Never
    <3>1. sockets'[u] = sockets[u] /\ (sockets[u] # {} => ttl'[u] = TTL)
      BY <1>ttl, <2>1, <2>2, <2>6, Keys
    <3>2. \A r \in Sockets : Connected(r, u)' => Connected(r, u)
      BY <2>1, <2>3, <2>4, StillConnected DEF Connected
    <3>3. \A r \in Sockets : Connected(r, u)' => r \in sockets'[u]
      BY <2>1, <2>6, <3>1, <3>2 DEF Inv, ConnectedIsOnline
    <3> QED
      BY <1>fr, <1>ttl, <2>3, <2>4, <3>1, <3>3 DEF Online
  <2>7. client'[s].user \in {u, Null}
    BY <1>fr, <2>3, <2>4
  <2> QED
    BY <2>1, <2>4, <2>5, <2>6, <2>7, KeyStep
<1>8. ASSUME NEW s \in Sockets, UserDisconnectedDel(s)
      PROVE  Inv'
  <2> DEFINE c == [client[s] EXCEPT !.disconnect = "none"]
  <2>1. PICK u \in Users : client[s].user = u /\ u # Null
    BY <1>8, Busy DEF UserDisconnectedDel
  <2>2. u \in Faulty
    BY <1>8, <2>1 DEF UserDisconnectedDel, Inv, NoDel
  <2>3. Becomes(s, c) /\ c \in Client /\ c.user = u /\ c.disconnect = "none"
    BY <1>8, <2>1, Changed DEF UserDisconnectedDel
  <2> HIDE DEF c
  <2>4. /\ client'[s] \in {c, Free}
        /\ \A r \in Sockets \ {s} : client'[r] = client[r]
    BY <2>1, <2>3, BecomesType
  <2>5. OtherKeys(u)
    BY <1>8, <1>ttl, <2>1, Keys DEF UserDisconnectedDel, RedisFails
  <2>6. client'[s].user \in {u, Null}
    BY <1>fr, <2>3, <2>4
  <2> QED
    BY <2>1, <2>2, <2>4, <2>5, <2>6, KeyStep
<1>9. ASSUME NEW s \in Sockets, Heartbeat(s)
      PROVE  Inv'
  <2>1. PICK u \in Users : Connected(s, u) /\ Expire(u)
    BY <1>9 DEF Heartbeat, Renew
  <2>2. /\ OtherKeys(u)
        /\ sockets'[u] = sockets[u]
        /\ sockets[u] # {} => ttl'[u] = TTL
    BY <1>ttl, <2>1, Keys
  <2>3. UNCHANGED client
    BY <1>9 DEF Heartbeat
  <2>4. client[s].user = u /\ client[s].open /\ client[s].disconnect = "none"
    BY <2>1 DEF Connected, ClientOK
  <2>5. \A r \in Sockets : Connected(r, u)' => Connected(r, u)
    BY <2>3 DEF Connected
  <2>6. ~Online(u)' \/ ttl'[u] # Never
    BY <1>ttl, <2>2 DEF Online
  <2> QED
    BY <2>1, <2>2, <2>3, <2>4, <2>5, <2>6, KeyStep DEF Inv, ConnectedIsOnline
<1>10. CASE Tick
  <2>1. ASSUME NEW u \in Users
        PROVE  /\ sockets'[u] = IF ttl[u] = 1 THEN {} ELSE sockets[u]
               /\ ttl'[u] = IF ttl[u] \in {1, Never} THEN Never ELSE ttl[u] - 1
    BY <1>10 DEF Tick
  <2>2. ConnectedIsOnline'
    BY <1>10, <2>1 DEF Tick, OnTime, Inv, ConnectedIsOnline, Connected
  <2>3. NoDel'
    BY <1>10 DEF Tick, Inv, NoDel
  <2>4. ASSUME NEW u \in Users, Online(u)', ttl'[u] = Never
        PROVE  Online(u) /\ ttl[u] = Never
    BY <2>1, <2>4 DEF Online, TypeOK, Never
  <2>5. KeysExpire'
    BY <1>10, <2>4 DEF Tick, Inv, KeysExpire
  <2> QED
    BY <2>2, <2>3, <2>5 DEF Inv
<1>11. CASE Crash
  <2>1. ConnectedIsOnline'
    BY <1>11, <1>fr DEF Crash, ConnectedIsOnline, Connected
  <2>2. NoDel'
    BY <1>11, <1>fr DEF Crash, NoDel
  <2>3. KeysExpire'
    BY <1>11 DEF Crash, Inv, KeysExpire, Online
  <2> QED
    BY <2>1, <2>2, <2>3 DEF Inv
<1>12. CASE UNCHANGED vars
  BY <1>12 DEF vars, Inv, ConnectedIsOnline, Connected, NoDel, KeysExpire, Online
<1> QED
  BY <1>1, <1>2, <1>3, <1>4, <1>5, <1>6, <1>7, <1>8, <1>9, <1>10, <1>11, <1>12
  DEF Next, Handler

LEMMA PresenceInit == Init => Inv
BY DEF Init, Inv, ConnectedIsOnline, Connected, NoDel, KeysExpire, Online, Free

\* A user whose clients send heartbeats in time is online while any of its tabs
\* is open, whatever the other tabs, the other users and the process do.
THEOREM OnlineWhileConnected == Spec => []ConnectedIsOnline
<1>1. Init => TypeInv /\ Inv
  BY TypeInit, PresenceInit
<1>2. TypeInv /\ Inv /\ [Next]_vars => (TypeInv /\ Inv)'
  BY TypeStep, PresenceStep
<1>3. Inv => ConnectedIsOnline
  BY DEF Inv
<1> QED
  BY <1>1, <1>2, <1>3, PTL DEF Spec

\* No order of handlers leaves a key without a TTL behind (userConnected,
\* userDisconnected, heartbeat).
THEOREM NoEternalPresence == Spec => []KeysExpire
<1>1. Init => TypeInv /\ Inv
  BY TypeInit, PresenceInit
<1>2. TypeInv /\ Inv /\ [Next]_vars => (TypeInv /\ Inv)'
  BY TypeStep, PresenceStep
<1>3. Inv => KeysExpire
  BY DEF Inv
<1> QED
  BY <1>1, <1>2, <1>3, PTL DEF Spec

-----------------------------------------------------------------------------
(* Delivery *)

USE DeliveryAssumption

Recipients == Users \cup {AuditLog}

Step == D!Next \/ UNCHANGED deliveryVars

-----------------------------------------------------------------------------
(* Types *)

\* What Bull makes of a job whose handler threw, and of one that stalled.
LEMMA Ends ==
    ASSUME NEW job \in D!Job
    PROVE  /\ D!AfterFailure(job) \in D!Job
           /\ D!AfterFailure(job).attemptsMade = job.attemptsMade + 1
           /\ D!AfterFailure(job).stalledCount = job.stalledCount
           /\ D!AfterFailure(job).state =
                IF job.attemptsMade + 1 < Attempts[kind] THEN "delayed" ELSE "failed"
           /\ D!AfterStall(job) \in D!Job
           /\ D!AfterStall(job).attemptsMade = job.attemptsMade
           /\ D!AfterStall(job).stalledCount = job.stalledCount + 1
           /\ D!AfterStall(job).state =
                IF job.stalledCount + 1 > MaxStalled THEN "failed" ELSE "waiting"
<1> DEFINE failed == IF job.attemptsMade + 1 < Attempts[kind] THEN "delayed" ELSE "failed"
           stalled == IF job.stalledCount + 1 > MaxStalled THEN "failed" ELSE "waiting"
<1>1. failed \in D!JobState /\ stalled \in D!JobState
  BY DEF D!JobState
<1>2. job.attemptsMade + 1 \in Nat /\ job.stalledCount + 1 \in Nat
  BY DEF D!Job
<1>3. D!AfterFailure(job) = [job EXCEPT !.attemptsMade = job.attemptsMade + 1, !.state = failed]
  BY DEF D!AfterFailure
<1>4. D!AfterStall(job) = [job EXCEPT !.stalledCount = job.stalledCount + 1, !.state = stalled]
  BY DEF D!AfterStall
<1> DEFINE f == [job EXCEPT !.attemptsMade = job.attemptsMade + 1, !.state = failed]
           g == [job EXCEPT !.stalledCount = job.stalledCount + 1, !.state = stalled]
<1> HIDE DEF failed, stalled
<1>6. /\ f \in D!Job /\ f.attemptsMade = job.attemptsMade + 1
      /\ f.stalledCount = job.stalledCount /\ f.state = failed
  BY <1>1, <1>2 DEF D!Job
<1>7. /\ g \in D!Job /\ g.attemptsMade = job.attemptsMade
      /\ g.stalledCount = job.stalledCount + 1 /\ g.state = stalled
  BY <1>1, <1>2 DEF D!Job
<1> HIDE DEF f, g
<1>8. D!AfterFailure(job) = f /\ D!AfterStall(job) = g
  BY <1>3, <1>4 DEF f, g
<1> QED
  BY <1>6, <1>7, <1>8 DEF failed, stalled

LEMMA EndType ==
    ASSUME D!TypeOK, NEW e \in Executions, D!Running(e),
           \/ D!JobEnds(e, [jobs[run[e].job] EXCEPT !.state = "completed"])
           \/ D!JobEnds(e, D!AfterFailure(jobs[run[e].job]))
    PROVE  jobs' \in [Callers -> D!Job]
<1> DEFINE c == run[e].job
<1>1. c \in Callers /\ jobs \in [Callers -> D!Job] /\ kind \in D!Kinds
  BY DEF D!TypeOK, D!Running
<1>2. jobs[c] \in D!Job
  BY <1>1
<1>3. [jobs[c] EXCEPT !.state = "completed"] \in D!Job
  BY <1>2 DEF D!Job, D!JobState
<1>4. D!AfterFailure(jobs[c]) \in D!Job
  BY <1>2, Ends
<1> HIDE DEF c
<1> QED
  BY <1>1, <1>3, <1>4 DEF D!JobEnds, c

Execution ==
    [job : Callers, step : {"load", "write"}, todo : SUBSET recipients, lock : BOOLEAN]

\* What becomes of an execution that goes on.
LEMMA ExecutionType ==
    ASSUME NEW r \in Execution, NEW left \in SUBSET recipients
    PROVE  /\ [r EXCEPT !.lock = FALSE] \in Execution
           /\ [r EXCEPT !.step = "write", !.todo = left] \in Execution
           /\ [r EXCEPT !.todo = left] \in Execution
BY DEF Execution

\* Jobs, executions and rows keep their types.
LEMMA DeliveryStep == D!TypeOK /\ Step => D!TypeOK'
<1> SUFFICES ASSUME D!TypeOK, Step PROVE D!TypeOK'
  OBVIOUS
<1> USE DEF D!TypeOK
<1>1. ASSUME NEW c \in Callers,
             D!AddJob(c) \/ D!PublishBegin(c) \/ D!PublishUpdate(c) \/ D!PublishAdd(c)
               \/ D!PublishFails(c) \/ D!Retry(c)
      PROVE  D!TypeOK'
  <2>1. [jobs[c] EXCEPT !.state = "waiting"] \in D!Job
    BY DEF D!Job, D!JobState
  <2>2. D!Add(c) => jobs' \in [Callers -> D!Job]
    BY <2>1 DEF D!Add
  <2>3. CASE D!AddJob(c) \/ D!Retry(c)
    BY <2>2, <2>3 DEF D!AddJob, D!Retry
  <2>4. CASE D!PublishBegin(c) \/ D!PublishUpdate(c)
    BY <2>4 DEF D!PublishBegin, D!PublishUpdate
  <2>5. CASE D!PublishAdd(c)
    BY <2>2, <2>5 DEF D!PublishAdd
  <2>6. CASE D!PublishFails(c)
    <3>1. refused' \in BOOLEAN
      BY <2>6 DEF D!PublishFails
    <3>2. call' \in [Callers -> {"findOne", "update", "add", "done"}]
      BY <2>6 DEF D!PublishFails
    <3>3. UNCHANGED <<kind, recipients, publishedAt, jobs, run, stored, gone, overlapped>>
      BY <2>6 DEF D!PublishFails
    <3> QED
      BY <3>1, <3>2, <3>3
  <2> QED
    BY <1>1, <2>3, <2>4, <2>5, <2>6
<1>2. ASSUME NEW c \in Callers, NEW e \in Executions, D!Start(e, c)
      PROVE  D!TypeOK'
  BY <1>2 DEF D!Start, D!Job, D!JobState
<1>3. ASSUME NEW c \in Callers, D!Stalled(c)
      PROVE  D!TypeOK'
  <2>1. jobs[c] \in D!Job
    OBVIOUS
  <2> QED
    BY <1>3, <2>1, Ends DEF D!Stalled
<1>4. ASSUME NEW e \in Executions, D!LosesLock(e) \/ D!WorkerStops(e) \/ D!Load(e)
      PROVE  D!TypeOK'
  <2>1. CASE D!WorkerStops(e)
    BY <2>1 DEF D!WorkerStops
  <2>2. CASE D!LosesLock(e)
    <3>1. run' = [run EXCEPT ![e] = [run[e] EXCEPT !.lock = FALSE]] /\ run[e] \in Execution
      BY <2>2 DEF D!LosesLock, D!Running, Execution
    <3>2. run' \in [Executions -> Execution \cup {Null}]
      BY <3>1, ExecutionType DEF Execution
    <3> QED
      BY <2>2, <3>2 DEF D!LosesLock, Execution
  <2>3. CASE D!Load(e)
    <3>1. D!Loaded \in SUBSET recipients
      BY DEF D!Loaded, D!Pending
    <3>2. /\ run' = [run EXCEPT ![e] = [run[e] EXCEPT !.step = "write", !.todo = D!Loaded]]
          /\ run[e] \in Execution
      BY <2>3 DEF D!Load, D!Running, Execution
    <3>3. run' \in [Executions -> Execution \cup {Null}]
      BY <3>1, <3>2, ExecutionType DEF Execution
    <3> QED
      BY <2>3, <3>3 DEF D!Load, Execution
  <2> QED
    BY <1>4, <2>1, <2>2, <2>3
<1>5. ASSUME NEW e \in Executions, D!Complete(e) \/ D!LoadFails(e)
      PROVE  D!TypeOK'
  <2>1. jobs' \in [Callers -> D!Job]
    BY <1>5, EndType DEF D!Complete, D!LoadFails
  <2> QED
    BY <1>5, <2>1 DEF D!Complete, D!LoadFails
<1>6. ASSUME NEW e \in Executions, NEW u \in Recipients, D!Store(e, u)
      PROVE  D!TypeOK'
  <2>1. run[e] \in Execution
    BY <1>6 DEF D!Store, D!Running, Execution
  <2>2. run[e].todo \ {u} \in SUBSET recipients
    BY <2>1 DEF Execution
  <2>3. run' = [run EXCEPT ![e] = [run[e] EXCEPT !.todo = run[e].todo \ {u}]]
    BY <1>6 DEF D!Store
  <2>4. run' \in [Executions -> Execution \cup {Null}]
    BY <2>1, <2>2, <2>3, ExecutionType DEF Execution
  <2>5. stored' \in [Recipients -> Nat]
    BY <1>6 DEF D!Store, Recipients
  <2> QED
    BY <1>6, <2>4, <2>5 DEF D!Store, Execution, Recipients
<1>7. ASSUME NEW e \in Executions, NEW u \in Recipients, D!StoreFails(e, u)
      PROVE  D!TypeOK'
  <2>1. jobs' \in [Callers -> D!Job]
    BY <1>7, EndType DEF D!StoreFails
  <2>2. run[e] \in Execution
    BY <1>7 DEF D!StoreFails, D!Running, Execution
  <2>3. D!Rest(e, u) \in SUBSET recipients
    BY <2>2 DEF D!Rest, Execution
  <2>4. run' \in [Executions -> Execution \cup {Null}]
    BY <1>7, <2>2, <2>3, ExecutionType DEF D!StoreFails, Execution
  <2> QED
    BY <1>7, <2>1, <2>4 DEF D!StoreFails, Execution
<1>8. CASE D!DeleteGrade \/ UNCHANGED deliveryVars
  BY <1>8 DEF D!DeleteGrade, deliveryVars
<1> HIDE DEF D!TypeOK
<1> QED
  BY <1>1, <1>2, <1>3, <1>4, <1>5, <1>6, <1>7, <1>8
  DEF Step, D!Next, D!Handle, D!StartJob, Recipients

LEMMA DeliveryInit == D!Init => D!TypeOK
<1> SUFFICES ASSUME D!Init PROVE D!TypeOK
  OBVIOUS
<1>1. D!NoJob \in D!Job
  BY DEF D!NoJob, D!Job, D!JobState
<1>2. recipients \in (SUBSET Users) \cup {{AuditLog}}
  BY DEF D!Init
<1> QED
  BY <1>1, <1>2 DEF D!Init, D!TypeOK

LEMMA DeliveryTypes == D!Spec => []D!TypeOK
<1>1. D!TypeOK /\ [D!Next]_D!vars => D!TypeOK'
  BY DeliveryStep DEF Step, deliveryVars, D!vars
<1> QED
  BY <1>1, DeliveryInit, PTL DEF D!Spec

-----------------------------------------------------------------------------
(* A published announcement *)

\* A job that is queued stays queued.
LEMMA StaysQueued ==
    ASSUME D!TypeOK, Step, NEW c \in Callers, D!Queued(c)
    PROVE  D!Queued(c)'
<1> USE DEF D!TypeOK, D!Queued
<1>1. ASSUME NEW d \in Callers,
             D!AddJob(d) \/ D!PublishBegin(d) \/ D!PublishUpdate(d) \/ D!PublishAdd(d)
               \/ D!PublishFails(d) \/ D!Retry(d)
      PROVE  jobs'[c].state # "none"
  BY <1>1 DEF D!AddJob, D!PublishBegin, D!PublishUpdate, D!PublishAdd, D!PublishFails,
    D!Retry, D!Add, D!Job
<1>6. ASSUME NEW d \in Callers, D!Stalled(d)
      PROVE  jobs'[c].state # "none"
  <2>1. jobs[d] \in D!Job
    OBVIOUS
  <2> QED
    BY <1>6, <2>1, Ends DEF D!Stalled
<1>2. ASSUME NEW d \in Callers, NEW e \in Executions, D!Start(e, d)
      PROVE  jobs'[c].state # "none"
  BY <1>2 DEF D!Start, D!Job
<1>3. ASSUME NEW e \in Executions,
             D!LosesLock(e) \/ D!WorkerStops(e) \/ D!Load(e)
               \/ \E u \in Recipients : D!Store(e, u)
      PROVE  UNCHANGED jobs
  BY <1>3 DEF D!LosesLock, D!WorkerStops, D!Load, D!Store
<1>4. ASSUME NEW e \in Executions,
             D!Complete(e) \/ D!LoadFails(e) \/ \E u \in Recipients : D!StoreFails(e, u)
      PROVE  jobs'[c].state # "none"
  <2> DEFINE d == run[e].job
  <2>1. d \in Callers /\ jobs[d] \in D!Job
    BY <1>4 DEF D!Complete, D!LoadFails, D!StoreFails, D!Running
  <2>2. [jobs[d] EXCEPT !.state = "completed"].state # "none"
    BY <2>1 DEF D!Job
  <2>3. D!AfterFailure(jobs[d]).state # "none"
    BY <2>1 DEF D!Job, D!AfterFailure
  <2>4. \/ D!JobEnds(e, [jobs[d] EXCEPT !.state = "completed"])
        \/ D!JobEnds(e, D!AfterFailure(jobs[d]))
    BY <1>4 DEF D!Complete, D!LoadFails, D!StoreFails
  <2> HIDE DEF d
  <2> QED
    BY <2>1, <2>2, <2>3, <2>4 DEF D!JobEnds, d
<1>5. CASE D!DeleteGrade \/ UNCHANGED deliveryVars
  BY <1>5 DEF D!DeleteGrade, deliveryVars
<1> QED
  BY <1>1, <1>2, <1>3, <1>4, <1>5, <1>6 DEF Step, D!Next, D!Handle, D!StartJob, Recipients

LEMMA PublishedStep == D!TypeOK /\ PublishedIsQueued /\ Step => PublishedIsQueued'
<1> SUFFICES ASSUME D!TypeOK, PublishedIsQueued, Step, publishedAt'
             PROVE  refused' \/ \E c \in Callers : D!Queued(c)' \/ call'[c] = "add"
  BY DEF PublishedIsQueued, D!PublishedIsQueued
<1> USE DEF D!TypeOK
<1>1. ASSUME NEW c \in Callers, D!PublishUpdate(c) PROVE call'[c] = "add"
  BY <1>1 DEF D!PublishUpdate
<1>2. ASSUME NEW c \in Callers, D!PublishAdd(c) PROVE D!Queued(c)'
  BY <1>2 DEF D!PublishAdd, D!Add, D!Queued, D!Job
<1>3. ASSUME NEW c \in Callers, D!PublishFails(c)
      PROVE  refused' \/ \A d \in Callers : call[d] = "add" => call'[d] = "add"
  BY <1>3 DEF D!PublishFails
<1>4. ASSUME NEW c \in Callers, D!PublishBegin(c)
      PROVE  \A d \in Callers : call[d] = "add" => call'[d] = "add"
  BY <1>4 DEF D!PublishBegin
<1>5. ASSUME NEW c \in Callers,
             D!AddJob(c) \/ D!Retry(c) \/ D!Stalled(c) \/ \E e \in Executions : D!Start(e, c)
      PROVE  UNCHANGED <<call, publishedAt, refused>>
  BY <1>5 DEF D!AddJob, D!Retry, D!Stalled, D!Start
<1>6. ASSUME NEW e \in Executions, D!Handle(e) \/ D!LosesLock(e) \/ D!WorkerStops(e)
      PROVE  UNCHANGED <<call, publishedAt, refused>>
  BY <1>6 DEF D!Handle, D!Load, D!Complete, D!LoadFails, D!Store, D!StoreFails, D!LosesLock,
    D!WorkerStops
<1>7. CASE D!DeleteGrade \/ UNCHANGED deliveryVars
  BY <1>7, StaysQueued DEF D!DeleteGrade, deliveryVars, PublishedIsQueued, D!PublishedIsQueued
<1>8. ASSUME NEW c \in Callers, D!PublishFails(c) \/ D!PublishBegin(c)
      PROVE  UNCHANGED publishedAt /\ (refused => refused')
  BY <1>8 DEF D!PublishFails, D!PublishBegin
<1> QED
  BY <1>1, <1>2, <1>3, <1>4, <1>5, <1>6, <1>7, <1>8, StaysQueued
  DEF Step, D!Next, D!StartJob, PublishedIsQueued, D!PublishedIsQueued

\* A published announcement has its job or is about to: publish refuses every later
\* call, and only a call that ended just before adding the job leaves it unsent.
THEOREM NothingUnsent == D!Spec => []PublishedIsQueued
<1>1. D!Init => PublishedIsQueued
  BY DEF D!Init, PublishedIsQueued, D!PublishedIsQueued
<1>2. D!TypeOK /\ PublishedIsQueued /\ [D!Next]_D!vars => PublishedIsQueued'
  BY PublishedStep DEF Step, deliveryVars, D!vars
<1> QED
  BY <1>1, <1>2, DeliveryTypes, PTL DEF D!Spec

-----------------------------------------------------------------------------
(* Nobody is told twice of a message while executions do not overlap.        *)

ChatInv ==
    kind = "chat" /\ ~overlapped =>
        /\ \A e, f \in Executions : D!Running(e) /\ D!Running(f) => e = f
        /\ \A u \in Users : stored[u] <= 1
        /\ \A e \in Executions : D!Running(e) => \A u \in run[e].todo : stored[u] = 0

LEMMA ChatStep == D!TypeOK /\ ChatInv /\ Step => ChatInv'
<1> SUFFICES ASSUME D!TypeOK, ChatInv, Step, kind' = "chat", ~overlapped'
             PROVE  /\ \A e, f \in Executions : D!Running(e)' /\ D!Running(f)' => e = f
                    /\ \A u \in Users : stored'[u] <= 1
                    /\ \A e \in Executions : D!Running(e)' => \A u \in run'[e].todo : stored'[u] = 0
  BY DEF ChatInv
<1> USE DEF D!TypeOK, D!Running
<1>1. kind = "chat" /\ ~overlapped
  BY DEF Step, D!Next, D!Handle, D!StartJob, D!AddJob, D!PublishBegin, D!PublishUpdate,
    D!PublishAdd, D!PublishFails, D!Start, D!Retry, D!Stalled, D!LosesLock, D!WorkerStops,
    D!Load, D!Store, D!Complete, D!LoadFails, D!StoreFails, D!DeleteGrade, deliveryVars
<1>2. /\ \A e, f \in Executions : D!Running(e) /\ D!Running(f) => e = f
      /\ \A u \in Users : stored[u] <= 1
      /\ \A e \in Executions : D!Running(e) => \A u \in run[e].todo : stored[u] = 0
  BY <1>1 DEF ChatInv
<1>3. CASE UNCHANGED <<run, stored>>
  BY <1>2, <1>3
<1>4. ASSUME NEW c \in Callers, NEW e \in Executions, D!Start(e, c)
      PROVE  /\ UNCHANGED stored
             /\ \A f \in Executions : D!Running(f)' => f = e /\ run'[f].todo = {}
  BY <1>4 DEF D!Start
<1>5. ASSUME NEW e \in Executions, D!LosesLock(e) \/ D!WorkerStops(e) \/ D!Complete(e)
               \/ D!LoadFails(e) \/ \E u \in Recipients : D!StoreFails(e, u)
      PROVE  /\ UNCHANGED stored
             /\ \A f \in Executions : D!Running(f)' => D!Running(f) /\ run'[f].todo \subseteq run[f].todo
  BY <1>1, <1>5 DEF D!LosesLock, D!WorkerStops, D!Complete, D!LoadFails, D!StoreFails, D!Rest
<1>6. ASSUME NEW e \in Executions, D!Load(e)
      PROVE  /\ UNCHANGED stored
             /\ \A f \in Executions : D!Running(f)' => D!Running(f)
             /\ \A f \in Executions : D!Running(f)' => \A u \in run'[f].todo : stored[u] = 0
  <2>1. /\ D!Running(e) /\ stored' = stored
        /\ run' = [run EXCEPT ![e] = [run[e] EXCEPT !.step = "write", !.todo = D!Loaded]]
    BY <1>6 DEF D!Load
  <2>2. \A v \in D!Loaded : stored[v] = 0
    BY <1>1 DEF D!Loaded, D!Pending
  <2>3. \A f \in Executions : f # e => run'[f] = run[f]
    BY <2>1
  <2>4. run'[e].todo = D!Loaded
    BY <2>1
  <2>5. \A f \in Executions : D!Running(f)' => D!Running(f)
    BY <2>1, <2>3
  <2> QED
    BY <1>2, <2>1, <2>2, <2>3, <2>4, <2>5
<1>7. ASSUME NEW e \in Executions, NEW u \in Recipients, D!Store(e, u)
      PROVE  /\ \A f \in Executions : D!Running(f)' => D!Running(f)
             /\ \A v \in Users : stored'[v] <= 1
             /\ \A f \in Executions : D!Running(f)' => \A v \in run'[f].todo : stored'[v] = 0
  <2>1. /\ D!Running(e) /\ u \in run[e].todo
        /\ stored' = [stored EXCEPT ![u] = @ + 1]
        /\ run' = [run EXCEPT ![e].todo = @ \ {u}]
    BY <1>7 DEF D!Store
  <2>2. stored[u] = 0 /\ u \in DOMAIN stored
    BY <1>2, <2>1 DEF Recipients
  <2>3. \A v \in Recipients : v # u => stored'[v] = stored[v]
    BY <2>1 DEF Recipients
  <2>4. stored'[u] = 1
    BY <2>1, <2>2
  <2>5. \A v \in Users : stored'[v] <= 1
    BY <1>2, <2>3, <2>4 DEF Recipients
  <2>6. \A f \in Executions : D!Running(f)' => D!Running(f)
    BY <2>1
  <2>7. \A f \in Executions : D!Running(f)' => f = e
    BY <1>2, <2>1, <2>6
  <2>8. run'[e].todo = run[e].todo \ {u}
    BY <2>1
  <2>9. \A v \in run'[e].todo : v \in run[e].todo /\ v # u /\ v \in Recipients
    BY <2>1, <2>8 DEF Recipients
  <2> QED
    BY <1>2, <2>1, <2>3, <2>5, <2>6, <2>7, <2>9
<1>8. ASSUME NEW c \in Callers,
             D!AddJob(c) \/ D!PublishBegin(c) \/ D!PublishUpdate(c) \/ D!PublishAdd(c)
               \/ D!PublishFails(c) \/ D!Retry(c) \/ D!Stalled(c)
      PROVE  UNCHANGED <<run, stored>>
  BY <1>8 DEF D!AddJob, D!PublishBegin, D!PublishUpdate, D!PublishAdd, D!PublishFails,
    D!Retry, D!Stalled
<1>9. CASE \E c \in Callers, e \in Executions : D!Start(e, c)
  BY <1>2, <1>4, <1>9
<1>10. CASE \E e \in Executions : D!LosesLock(e) \/ D!WorkerStops(e) \/ D!Complete(e)
               \/ D!LoadFails(e) \/ \E u \in Recipients : D!StoreFails(e, u)
  <2>1. /\ UNCHANGED stored
        /\ \A f \in Executions : D!Running(f)' => D!Running(f) /\ run'[f].todo \subseteq run[f].todo
    BY <1>5, <1>10
  <2> QED
    BY <1>2, <2>1
<1>11. CASE \E e \in Executions : D!Load(e)
  <2>1. /\ UNCHANGED stored
        /\ \A f \in Executions : D!Running(f)' => D!Running(f)
        /\ \A f \in Executions : D!Running(f)' => \A u \in run'[f].todo : stored[u] = 0
    BY <1>6, <1>11
  <2> QED
    BY <1>2, <2>1
<1>12. CASE \E e \in Executions, u \in Recipients : D!Store(e, u)
  BY <1>2, <1>7, <1>12
<1>13. CASE D!DeleteGrade \/ UNCHANGED deliveryVars
  BY <1>3, <1>13 DEF D!DeleteGrade, deliveryVars
<1> QED
  BY <1>3, <1>8, <1>9, <1>10, <1>11, <1>12, <1>13
  DEF Step, D!Next, D!Handle, D!StartJob, Recipients

-----------------------------------------------------------------------------
(* How often a job is started.  Every start but the last ended in a failure  *)
(* or a stall that the job has counted.                                      *)

Budget(job) ==
    /\ job.state = "none" => job.attemptsMade = 0 /\ job.stalledCount = 0
    /\ job.state \notin {"none", "failed"} =>
         job.attemptsMade < Attempts[kind] /\ job.stalledCount <= MaxStalled
    /\ job.state = "failed" =>
         job.attemptsMade + job.stalledCount <= Attempts[kind] + MaxStalled

\* How often Bull has started the job.
Starts(job) ==
    job.attemptsMade + job.stalledCount
      + IF job.state \in {"active", "completed"} THEN 1 ELSE 0

Locked(e) == D!Running(e) /\ run[e].lock

JobsInv ==
    /\ \A e \in Executions : Locked(e) => jobs[run[e].job].state = "active"
    /\ \A e, f \in Executions : Locked(e) /\ Locked(f) /\ run[e].job = run[f].job => e = f
    /\ kind # "announcement" => \A c \in Callers : call[c] = "findOne"
    /\ kind = "announcement" => \A c \in Callers : call[c] # "done" => ~D!Queued(c)
    /\ \A c \in Callers : Budget(jobs[c])

LEMMA StartsBounded ==
    ASSUME D!TypeOK, NEW job \in D!Job, Budget(job)
    PROVE  /\ Starts(job) \in Nat
           /\ Starts(job) <= Attempts[kind] + MaxStalled
           /\ job.state = "none" => Starts(job) = 0
<1>1. /\ job.attemptsMade \in Nat /\ job.stalledCount \in Nat
      /\ Attempts[kind] \in Nat \ {0} /\ MaxStalled \in Nat
  BY DEF D!Job, D!TypeOK
<1> DEFINE last == IF job.state \in {"active", "completed"} THEN 1 ELSE 0
<1>2. last \in {0, 1} /\ (job.state \in {"none", "failed"} => last = 0)
  OBVIOUS
<1> HIDE DEF last
<1>3. Starts(job) = job.attemptsMade + job.stalledCount + last
  BY DEF Starts, last
<1> QED
  BY <1>1, <1>2, <1>3, SMTT(30) DEF Budget

\* The job of an ending execution counts it, if the execution still has the lock.
LEMMA EndStep ==
    ASSUME D!TypeOK, JobsInv, NEW e \in Executions, D!Running(e),
           \/ D!JobEnds(e, [jobs[run[e].job] EXCEPT !.state = "completed"])
           \/ D!JobEnds(e, D!AfterFailure(jobs[run[e].job])),
           NEW c \in Callers
    PROVE  /\ Starts(jobs'[c]) = Starts(jobs[c])
           /\ Budget(jobs'[c])
           /\ jobs'[c] = jobs[c] \/ (Locked(e) /\ c = run[e].job)
           /\ (jobs'[c].state = "none") <=> (jobs[c].state = "none")
<1> DEFINE d == run[e].job
           completed == [jobs[d] EXCEPT !.state = "completed"]
           failed == D!AfterFailure(jobs[d])
<1>1. d \in Callers /\ jobs \in [Callers -> D!Job]
  BY DEF D!TypeOK, D!Running
<1>2. jobs[d] \in D!Job /\ Budget(jobs[d])
  BY <1>1 DEF JobsInv
<1>3. /\ jobs[d].attemptsMade \in Nat /\ jobs[d].stalledCount \in Nat
      /\ Attempts[kind] \in Nat \ {0} /\ MaxStalled \in Nat
  BY <1>2 DEF D!Job, D!TypeOK
<1>4. ASSUME Locked(e)
      PROVE  /\ Starts(completed) = Starts(jobs[d]) /\ Budget(completed)
             /\ completed.state # "none" /\ jobs[d].state # "none"
             /\ Starts(failed) = Starts(jobs[d]) /\ Budget(failed)
             /\ failed.state # "none"
  <2>1. jobs[d].state = "active"
    BY <1>4 DEF JobsInv
  <2>2. /\ completed.state = "completed"
        /\ completed.attemptsMade = jobs[d].attemptsMade
        /\ completed.stalledCount = jobs[d].stalledCount
    BY <1>2 DEF D!Job
  <2>3. /\ failed.attemptsMade = jobs[d].attemptsMade + 1
        /\ failed.stalledCount = jobs[d].stalledCount
        /\ failed.state = IF jobs[d].attemptsMade + 1 < Attempts[kind] THEN "delayed" ELSE "failed"
    BY <1>2, Ends
  <2>4. jobs[d].attemptsMade < Attempts[kind] /\ jobs[d].stalledCount <= MaxStalled
    BY <1>2, <2>1 DEF Budget
  <2> HIDE DEF d, completed, failed
  <2>5. Starts(completed) = Starts(jobs[d]) /\ Budget(completed)
    BY <1>3, <2>1, <2>2, <2>4 DEF Starts, Budget
  <2>6. Starts(failed) = Starts(jobs[d]) /\ Budget(failed)
    BY <1>3, <2>1, <2>3, <2>4 DEF Starts, Budget
  <2> QED
    BY <2>1, <2>2, <2>3, <2>5, <2>6
<1>5. \/ UNCHANGED jobs
      \/ Locked(e) /\ (\/ jobs' = [jobs EXCEPT ![d] = completed]
                       \/ jobs' = [jobs EXCEPT ![d] = failed])
  BY DEF D!JobEnds, Locked
<1> HIDE DEF d, completed, failed
<1>6. CASE jobs'[c] = jobs[c]
  BY <1>6 DEF JobsInv
<1>7. CASE jobs'[c] # jobs[c]
  <2>1. c = d /\ Locked(e) /\ jobs'[c] \in {completed, failed}
    BY <1>1, <1>5, <1>7
  <2> QED
    BY <1>4, <2>1 DEF d
<1> QED
  BY <1>6, <1>7

\* Only Start starts a job, and every step keeps the budget.
LEMMA JobStep ==
    ASSUME D!TypeOK, JobsInv, Step, NEW c \in Callers
    PROVE  /\ Budget(jobs'[c])
           /\ \/ Starts(jobs'[c]) = Starts(jobs[c])
              \/ /\ \E e \in Executions : D!Start(e, c)
                 /\ Starts(jobs'[c]) = Starts(jobs[c]) + 1
<1>1. /\ jobs \in [Callers -> D!Job] /\ jobs[c] \in D!Job /\ Budget(jobs[c])
      /\ jobs[c].attemptsMade \in Nat /\ jobs[c].stalledCount \in Nat
      /\ Attempts[kind] \in Nat \ {0} /\ MaxStalled \in Nat
  BY DEF JobsInv, D!TypeOK, D!Job
<1> DEFINE Same == /\ Budget(jobs'[c]) /\ Starts(jobs'[c]) = Starts(jobs[c])
<1>2. CASE jobs'[c] = jobs[c]
  BY <1>1, <1>2
<1>3. ASSUME NEW d \in Callers, D!AddJob(d) \/ D!PublishAdd(d) PROVE Same
  <2>1. jobs[d].state = "none" /\ D!Add(d)
    BY <1>3 DEF D!AddJob, D!PublishAdd, JobsInv, D!Queued, D!TypeOK
  <2>2. CASE d = c
    <3>1. /\ jobs'[c].state = "waiting" /\ jobs'[c].attemptsMade = jobs[c].attemptsMade
          /\ jobs'[c].stalledCount = jobs[c].stalledCount
      BY <1>1, <2>1, <2>2 DEF D!Add, D!Job
    <3> QED
      BY <1>1, <2>1, <2>2, <3>1 DEF Budget, Starts
  <2> QED
    BY <1>1, <1>2, <2>1, <2>2 DEF D!Add
<1>4. ASSUME NEW d \in Callers, D!Retry(d) PROVE Same
  <2>1. jobs[d].state = "delayed" /\ D!Add(d)
    BY <1>4 DEF D!Retry
  <2>2. CASE d = c
    <3>1. /\ jobs'[c].state = "waiting" /\ jobs'[c].attemptsMade = jobs[c].attemptsMade
          /\ jobs'[c].stalledCount = jobs[c].stalledCount
      BY <1>1, <2>1, <2>2 DEF D!Add, D!Job
    <3> QED
      BY <1>1, <2>1, <2>2, <3>1 DEF Budget, Starts
  <2> QED
    BY <1>1, <1>2, <2>1, <2>2 DEF D!Add
<1>5. ASSUME NEW d \in Callers, NEW e \in Executions, D!Start(e, d)
      PROVE  /\ Budget(jobs'[c])
             /\ \/ Starts(jobs'[c]) = Starts(jobs[c])
                \/ d = c /\ Starts(jobs'[c]) = Starts(jobs[c]) + 1
  <2>1. jobs[d].state = "waiting" /\ jobs' = [jobs EXCEPT ![d].state = "active"]
    BY <1>5 DEF D!Start
  <2>2. CASE d = c
    <3>1. /\ jobs'[c].state = "active" /\ jobs'[c].attemptsMade = jobs[c].attemptsMade
          /\ jobs'[c].stalledCount = jobs[c].stalledCount
      BY <1>1, <2>1, <2>2 DEF D!Job
    <3> QED
      BY <1>1, <2>1, <2>2, <3>1 DEF Budget, Starts
  <2> QED
    BY <1>1, <1>2, <2>1, <2>2
<1>6. ASSUME NEW d \in Callers, D!Stalled(d) PROVE Same
  <2>1. jobs[d].state = "active" /\ jobs' = [jobs EXCEPT ![d] = D!AfterStall(@)]
    BY <1>6 DEF D!Stalled
  <2>2. CASE d = c
    <3>1. /\ jobs'[c].attemptsMade = jobs[c].attemptsMade
          /\ jobs'[c].stalledCount = jobs[c].stalledCount + 1
          /\ jobs'[c].state = IF jobs[c].stalledCount + 1 > MaxStalled THEN "failed" ELSE "waiting"
      BY <1>1, <2>1, <2>2, Ends
    <3>2. jobs[c].attemptsMade < Attempts[kind] /\ jobs[c].stalledCount <= MaxStalled
      BY <1>1, <2>1, <2>2 DEF Budget
    <3> QED
      BY <1>1, <2>1, <2>2, <3>1, <3>2 DEF Budget, Starts
  <2> QED
    BY <1>1, <1>2, <2>1, <2>2
<1>7. ASSUME NEW e \in Executions,
             D!Complete(e) \/ D!LoadFails(e) \/ \E u \in Recipients : D!StoreFails(e, u)
      PROVE  Same
  BY <1>7, EndStep DEF D!Complete, D!LoadFails, D!StoreFails
<1>8. ASSUME NEW d \in Callers, D!PublishBegin(d) \/ D!PublishUpdate(d) \/ D!PublishFails(d)
      PROVE  UNCHANGED jobs
  BY <1>8 DEF D!PublishBegin, D!PublishUpdate, D!PublishFails
<1>9. ASSUME NEW e \in Executions,
             D!LosesLock(e) \/ D!WorkerStops(e) \/ D!Load(e) \/ \E u \in Recipients : D!Store(e, u)
      PROVE  UNCHANGED jobs
  BY <1>9 DEF D!LosesLock, D!WorkerStops, D!Load, D!Store
<1>10. CASE D!DeleteGrade \/ UNCHANGED deliveryVars
  BY <1>2, <1>10 DEF D!DeleteGrade, deliveryVars
<1> QED
  BY <1>2, <1>3, <1>4, <1>5, <1>6, <1>7, <1>8, <1>9, <1>10
  DEF Step, D!Next, D!Handle, D!StartJob, Recipients

\* Two executions hold the lock of one job only if they held it before.
LEMMA LockStep ==
    ASSUME D!TypeOK, JobsInv, Step
    PROVE  /\ \A e \in Executions : Locked(e)' => jobs'[run'[e].job].state = "active"
           /\ \A e, f \in Executions :
                Locked(e)' /\ Locked(f)' /\ run'[e].job = run'[f].job => e = f
<1> USE DEF D!TypeOK
<1> DEFINE Stays(e) == Locked(e) /\ run'[e].job = run[e].job
<1>1. ASSUME \A e \in Executions : Locked(e)' => Stays(e),
             \A e \in Executions : Locked(e)' => jobs'[run[e].job].state = "active"
      PROVE  /\ \A e \in Executions : Locked(e)' => jobs'[run'[e].job].state = "active"
             /\ \A e, f \in Executions :
                  Locked(e)' /\ Locked(f)' /\ run'[e].job = run'[f].job => e = f
  BY <1>1 DEF JobsInv
<1>2. \A e \in Executions : Locked(e) => run[e].job \in Callers /\ jobs[run[e].job].state = "active"
  BY DEF JobsInv, Locked, D!Running
<1>3. ASSUME NEW c \in Callers,
             D!AddJob(c) \/ D!PublishBegin(c) \/ D!PublishUpdate(c) \/ D!PublishAdd(c)
               \/ D!PublishFails(c) \/ D!Retry(c)
      PROVE  /\ UNCHANGED run
             /\ \A d \in Callers : jobs[d].state = "active" => jobs'[d].state = "active"
  <2>1. UNCHANGED run
    BY <1>3 DEF D!AddJob, D!PublishBegin, D!PublishUpdate, D!PublishAdd, D!PublishFails, D!Retry
  <2>2. UNCHANGED jobs \/ (jobs[c].state # "active" /\ D!Add(c))
    BY <1>3 DEF D!AddJob, D!PublishBegin, D!PublishUpdate, D!PublishAdd, D!PublishFails, D!Retry,
      JobsInv, D!Queued
  <2> QED
    BY <2>1, <2>2 DEF D!Add, D!Job
<1>4. ASSUME NEW c \in Callers, D!Stalled(c)
      PROVE  /\ UNCHANGED run
             /\ \A d \in Callers : jobs'[d] # jobs[d] => d = c
             /\ \A e \in Executions : Locked(e) => run[e].job # c
  BY <1>4 DEF D!Stalled, Locked
<1>5. ASSUME NEW c \in Callers, NEW e \in Executions, D!Start(e, c)
      PROVE  /\ \A f \in Executions : Locked(f)' => jobs'[run'[f].job].state = "active"
             /\ \A f, g \in Executions :
                  Locked(f)' /\ Locked(g)' /\ run'[f].job = run'[g].job => f = g
  <2>1. /\ jobs[c].state = "waiting" /\ jobs' = [jobs EXCEPT ![c].state = "active"]
        /\ \A f \in Executions : f # e => run'[f] = run[f]
        /\ run'[e].job = c
    BY <1>5 DEF D!Start
  <2>2. jobs'[c].state = "active" /\ \A d \in Callers : d # c => jobs'[d] = jobs[d]
    BY <2>1 DEF D!Job
  <2>3. \A f \in Executions : f # e /\ Locked(f)' => Locked(f) /\ run[f].job # c /\ run'[f] = run[f]
    BY <1>2, <2>1 DEF Locked, D!Running
  <2> QED
    BY <1>2, <2>1, <2>2, <2>3 DEF JobsInv
<1>6. ASSUME NEW e \in Executions,
             D!LosesLock(e) \/ D!WorkerStops(e) \/ D!Load(e) \/ \E u \in Recipients : D!Store(e, u)
      PROVE  UNCHANGED jobs /\ \A f \in Executions : Locked(f)' => Stays(f)
  <2>1. UNCHANGED jobs /\ \A f \in Executions : f # e => run'[f] = run[f]
    BY <1>6 DEF D!LosesLock, D!WorkerStops, D!Load, D!Store
  <2>2. Locked(e)' => Stays(e)
    <3>1. CASE D!LosesLock(e)
      BY <3>1 DEF D!LosesLock, Locked, D!Running
    <3>2. CASE D!WorkerStops(e)
      BY <3>2 DEF D!WorkerStops, Locked, D!Running
    <3>3. CASE D!Load(e)
      BY <3>3 DEF D!Load, Locked, D!Running
    <3>4. ASSUME NEW u \in Recipients, D!Store(e, u) PROVE Locked(e)' => Stays(e)
      BY <3>4 DEF D!Store, Locked, D!Running
    <3> QED
      BY <1>6, <3>1, <3>2, <3>3, <3>4
  <2> QED
    BY <2>1, <2>2 DEF Locked, D!Running
<1>7. ASSUME NEW e \in Executions,
             D!Complete(e) \/ D!LoadFails(e) \/ \E u \in Recipients : D!StoreFails(e, u)
      PROVE  /\ \A f \in Executions : Locked(f)' => Stays(f) /\ f # e
             /\ \A f \in Executions : Locked(f)' => jobs'[run[f].job] = jobs[run[f].job]
  <2>1. \A f \in Executions : f # e => run'[f] = run[f]
    BY <1>7 DEF D!Complete, D!LoadFails, D!StoreFails
  <2>2. ~Locked(e)'
    <3>1. CASE D!Complete(e) \/ D!LoadFails(e)
      BY <3>1 DEF D!Complete, D!LoadFails, Locked, D!Running
    <3>2. ASSUME NEW u \in Recipients, D!StoreFails(e, u) PROVE ~Locked(e)'
      <4>1. run'[e] = Null \/ run'[e] = [run[e] EXCEPT !.todo = D!Rest(e, u), !.lock = FALSE]
        BY <3>2 DEF D!StoreFails
      <4> QED
        BY <3>2, <4>1 DEF D!StoreFails, Locked, D!Running
    <3> QED
      BY <1>7, <3>1, <3>2
  <2>3. \A f \in Executions : Locked(f)' => Stays(f) /\ f # e
    BY <2>1, <2>2 DEF Locked, D!Running
  <2>4. \A d \in Callers : jobs'[d] = jobs[d] \/ (Locked(e) /\ d = run[e].job)
    BY <1>7, EndStep DEF D!Complete, D!LoadFails, D!StoreFails
  <2> QED
    BY <1>2, <2>3, <2>4 DEF JobsInv
<1>8. CASE D!DeleteGrade \/ UNCHANGED deliveryVars
  BY <1>8 DEF D!DeleteGrade, deliveryVars, JobsInv, Locked, D!Running
<1>9. CASE \E c \in Callers :
             D!AddJob(c) \/ D!PublishBegin(c) \/ D!PublishUpdate(c) \/ D!PublishAdd(c)
               \/ D!PublishFails(c) \/ D!Retry(c) \/ D!Stalled(c)
  <2>1. \A e \in Executions : Locked(e)' => Stays(e)
    BY <1>3, <1>4, <1>9 DEF Locked, D!Running
  <2>2. \A e \in Executions : Locked(e)' => jobs'[run[e].job].state = "active"
    BY <1>2, <1>3, <1>4, <1>9, <2>1
  <2> QED
    BY <1>1, <2>1, <2>2
<1>10. CASE \E e \in Executions :
              \/ D!LosesLock(e) \/ D!WorkerStops(e) \/ D!Handle(e)
  <2>1. \A e \in Executions : Locked(e)' => Stays(e)
    BY <1>6, <1>7, <1>10 DEF D!Handle, Recipients
  <2>2. \A e \in Executions : Locked(e)' => jobs'[run[e].job].state = "active"
    BY <1>2, <1>6, <1>7, <1>10, <2>1 DEF D!Handle, Recipients
  <2> QED
    BY <1>1, <2>1, <2>2
<1> QED
  BY <1>5, <1>8, <1>9, <1>10 DEF Step, D!Next, D!StartJob

LEMMA KindKept == Step => UNCHANGED <<kind, recipients>>
BY DEF Step, D!Next, D!Handle, D!StartJob, D!AddJob, D!PublishBegin, D!PublishUpdate,
  D!PublishAdd, D!PublishFails, D!Start, D!Retry, D!Stalled, D!LosesLock, D!WorkerStops,
  D!Load, D!Store, D!Complete, D!LoadFails, D!StoreFails, D!DeleteGrade, deliveryVars

LEMMA CallStep ==
    ASSUME D!TypeOK, JobsInv, Step, NEW c \in Callers
    PROVE  /\ kind # "announcement" => call'[c] = "findOne"
           /\ kind = "announcement" /\ call'[c] # "done" => ~D!Queued(c)'
<1> USE DEF D!TypeOK, D!Queued
<1>1. ASSUME NEW d \in Callers,
             D!PublishBegin(d) \/ D!PublishUpdate(d) \/ D!PublishFails(d)
      PROVE  /\ kind = "announcement" /\ UNCHANGED jobs
             /\ call'[c] # "done" => call[c] # "done"
  BY <1>1 DEF D!PublishBegin, D!PublishUpdate, D!PublishFails, JobsInv
<1>2. ASSUME NEW d \in Callers, D!PublishAdd(d)
      PROVE  /\ kind = "announcement"
             /\ call'[c] # "done" => call[c] # "done" /\ jobs'[c] = jobs[c]
  BY <1>2 DEF D!PublishAdd, D!Add, JobsInv
<1>3. ASSUME NEW d \in Callers, D!AddJob(d)
      PROVE  kind # "announcement" /\ UNCHANGED call
  BY <1>3 DEF D!AddJob
<1>4. ASSUME NEW d \in Callers, D!Retry(d) \/ D!Stalled(d) \/ \E e \in Executions : D!Start(e, d)
      PROVE  UNCHANGED call /\ (jobs[c].state = "none" => jobs'[c].state = "none")
  BY <1>4 DEF D!Retry, D!Add, D!Stalled, D!Start
<1>5. ASSUME NEW e \in Executions, D!Handle(e) \/ D!LosesLock(e) \/ D!WorkerStops(e)
      PROVE  UNCHANGED call
  BY <1>5 DEF D!Handle, D!Load, D!Store, D!Complete, D!LoadFails, D!StoreFails, D!LosesLock,
    D!WorkerStops
<1>6. ASSUME NEW e \in Executions, D!Handle(e) \/ D!LosesLock(e) \/ D!WorkerStops(e)
      PROVE  jobs[c].state = "none" => jobs'[c].state = "none"
  <2>1. CASE D!Complete(e) \/ D!LoadFails(e) \/ \E u \in Recipients : D!StoreFails(e, u)
    BY <2>1, EndStep DEF D!Complete, D!LoadFails, D!StoreFails
  <2>2. CASE D!LosesLock(e) \/ D!WorkerStops(e) \/ D!Load(e) \/ \E u \in Recipients : D!Store(e, u)
    BY <2>2 DEF D!LosesLock, D!WorkerStops, D!Load, D!Store
  <2> QED
    BY <1>6, <2>1, <2>2 DEF D!Handle, Recipients
<1>7. CASE D!DeleteGrade \/ UNCHANGED deliveryVars
  BY <1>7 DEF D!DeleteGrade, deliveryVars, JobsInv
<1> QED
  BY <1>1, <1>2, <1>3, <1>4, <1>5, <1>6, <1>7 DEF JobsInv, Step, D!Next, D!StartJob

LEMMA JobsStep == D!TypeOK /\ JobsInv /\ Step => JobsInv'
<1> SUFFICES ASSUME D!TypeOK, JobsInv, Step PROVE JobsInv'
  OBVIOUS
<1>1. \A c \in Callers : Budget(jobs'[c]) /\ kind' = kind
  BY JobStep, KindKept
<1>2. \A c \in Callers : Budget(jobs[c])'
  BY <1>1 DEF Budget
<1> QED
  BY <1>2, LockStep, CallStep, KindKept DEF JobsInv

-----------------------------------------------------------------------------
(* A row for every start, and none without one: what is stored of a          *)
(* recipient and what the executions under way may still store of him are no *)
(* more than the starts of all jobs.                                         *)

\* The starts of all jobs, each job numbering its own.
AllStarts == {p \in Callers \X Nat : 1 <= p[2] /\ p[2] <= Starts(jobs[p[1]])}

\* The executions that may still store a row of u.
May(u) == {e \in Executions : D!Running(e) /\ (run[e].step = "load" \/ u \in run[e].todo)}

CountInv ==
    /\ \A e \in Executions : D!Running(e) /\ run[e].step = "load" => run[e].todo = {}
    /\ IsFiniteSet(AllStarts)
    /\ \A u \in Recipients : stored[u] + Cardinality(May(u)) <= Cardinality(AllStarts)

LEMMA MayFinite ==
    ASSUME NEW u
    PROVE  /\ IsFiniteSet(May(u)) /\ Cardinality(May(u)) \in Nat
           /\ IsFiniteSet(May(u)') /\ Cardinality(May(u)') \in Nat
<1>1. May(u) \subseteq Executions /\ May(u)' \subseteq Executions
  BY DEF May
<1>2. IsFiniteSet(May(u)) /\ IsFiniteSet(May(u)')
  BY <1>1, FS_Subset
<1> QED
  BY <1>2, FS_CardinalityType

\* Only Start lets an execution store more.
LEMMA MayStep ==
    ASSUME D!TypeOK, Step, NEW u \in Recipients,
           ~ \E c \in Callers, e \in Executions : D!Start(e, c)
    PROVE  May(u)' \subseteq May(u)
<1> USE DEF D!TypeOK, May, D!Running
<1>1. ASSUME NEW c \in Callers,
             D!AddJob(c) \/ D!PublishBegin(c) \/ D!PublishUpdate(c) \/ D!PublishAdd(c)
               \/ D!PublishFails(c) \/ D!Retry(c) \/ D!Stalled(c)
      PROVE  UNCHANGED run
  BY <1>1 DEF D!AddJob, D!PublishBegin, D!PublishUpdate, D!PublishAdd, D!PublishFails,
    D!Retry, D!Stalled
<1>2. ASSUME NEW e \in Executions, D!LosesLock(e) PROVE May(u)' \subseteq May(u)
  BY <1>2 DEF D!LosesLock
<1>3. ASSUME NEW e \in Executions, D!WorkerStops(e) \/ D!Complete(e) \/ D!LoadFails(e)
      PROVE  May(u)' \subseteq May(u)
  BY <1>3 DEF D!WorkerStops, D!Complete, D!LoadFails
<1>4. ASSUME NEW e \in Executions, D!Load(e) PROVE May(u)' \subseteq May(u)
  BY <1>4 DEF D!Load
<1>5. ASSUME NEW e \in Executions, NEW v \in Recipients, D!Store(e, v)
      PROVE  May(u)' \subseteq May(u)
  BY <1>5 DEF D!Store
<1>6. ASSUME NEW e \in Executions, NEW v \in Recipients, D!StoreFails(e, v)
      PROVE  May(u)' \subseteq May(u)
  <2>1. /\ \A f \in Executions : f # e => run'[f] = run[f]
        /\ run'[e] = Null \/ run'[e] = [run[e] EXCEPT !.todo = D!Rest(e, v), !.lock = FALSE]
        /\ D!Running(e)
    BY <1>6 DEF D!StoreFails
  <2>2. D!Rest(e, v) \subseteq run[e].todo
    BY DEF D!Rest
  <2>3. run'[e] # Null => run'[e].step = run[e].step /\ run'[e].todo \subseteq run[e].todo
    BY <2>1, <2>2
  <2> QED
    BY <2>1, <2>3
<1>7. CASE D!DeleteGrade \/ UNCHANGED deliveryVars
  BY <1>7 DEF D!DeleteGrade, deliveryVars
<1>8. CASE UNCHANGED run
  BY <1>8
<1> QED
  BY <1>1, <1>2, <1>3, <1>4, <1>5, <1>6, <1>7, <1>8 DEF Step, D!Next, D!Handle, D!StartJob, Recipients

LEMMA LoadStep ==
    ASSUME D!TypeOK, Step,
           \A e \in Executions : D!Running(e) /\ run[e].step = "load" => run[e].todo = {}
    PROVE  \A e \in Executions : D!Running(e)' /\ run'[e].step = "load" => run'[e].todo = {}
<1> USE DEF D!TypeOK, D!Running
<1> DEFINE Empty == \A e \in Executions : D!Running(e)' /\ run'[e].step = "load" => run'[e].todo = {}
<1>1. CASE UNCHANGED run
  BY <1>1
<1>2. ASSUME NEW c \in Callers, NEW e \in Executions, D!Start(e, c) PROVE Empty
  BY <1>2 DEF D!Start
<1>3. ASSUME NEW e \in Executions, D!WorkerStops(e) \/ D!Complete(e) \/ D!LoadFails(e) PROVE Empty
  BY <1>3 DEF D!WorkerStops, D!Complete, D!LoadFails
<1>4. ASSUME NEW e \in Executions, D!LosesLock(e) PROVE Empty
  BY <1>4 DEF D!LosesLock
<1>5. ASSUME NEW e \in Executions, D!Load(e) PROVE Empty
  BY <1>5 DEF D!Load
<1>6. ASSUME NEW e \in Executions, NEW v \in Recipients, D!Store(e, v) \/ D!StoreFails(e, v)
      PROVE  Empty
  <2>1. v \in run[e].todo /\ D!Running(e) /\ \A f \in Executions : f # e => run'[f] = run[f]
    BY <1>6 DEF D!Store, D!StoreFails
  <2>2. run'[e] # Null => run'[e].step = run[e].step
    <3>1. CASE D!Store(e, v)
      BY <3>1 DEF D!Store
    <3>2. CASE D!StoreFails(e, v)
      <4>1. run'[e] = Null \/ run'[e] = [run[e] EXCEPT !.todo = D!Rest(e, v), !.lock = FALSE]
        BY <3>2 DEF D!StoreFails
      <4> QED
        BY <2>1, <4>1
    <3> QED
      BY <1>6, <3>1, <3>2
  <2> QED
    BY <2>1, <2>2
<1>7. ASSUME NEW c \in Callers,
             D!AddJob(c) \/ D!PublishBegin(c) \/ D!PublishUpdate(c) \/ D!PublishAdd(c)
               \/ D!PublishFails(c) \/ D!Retry(c) \/ D!Stalled(c)
      PROVE  UNCHANGED run
  BY <1>7 DEF D!AddJob, D!PublishBegin, D!PublishUpdate, D!PublishAdd, D!PublishFails,
    D!Retry, D!Stalled
<1>8. CASE D!DeleteGrade \/ UNCHANGED deliveryVars
  BY <1>1, <1>8 DEF D!DeleteGrade, deliveryVars
<1> QED
  BY <1>1, <1>2, <1>3, <1>4, <1>5, <1>6, <1>7, <1>8 DEF Step, D!Next, D!Handle, D!StartJob, Recipients

\* Only Store stores, and only Start starts.
LEMMA StoredStep ==
    ASSUME Step, ~ \E e \in Executions, u \in Recipients : D!Store(e, u)
    PROVE  UNCHANGED stored
BY DEF Recipients, Step, D!Next, D!Handle, D!StartJob, D!AddJob, D!PublishBegin, D!PublishUpdate,
  D!PublishAdd, D!PublishFails, D!Start, D!Retry, D!Stalled, D!LosesLock, D!WorkerStops,
  D!Load, D!Complete, D!LoadFails, D!StoreFails, D!DeleteGrade, deliveryVars

LEMMA AllStartsStep ==
    ASSUME D!TypeOK, JobsInv, Step, ~ \E c \in Callers, e \in Executions : D!Start(e, c)
    PROVE  AllStarts' = AllStarts
<1>1. \A c \in Callers : Starts(jobs'[c]) = Starts(jobs[c])
  BY JobStep
<1> QED
  BY <1>1 DEF AllStarts, Starts

LEMMA CountStep == D!TypeOK /\ JobsInv /\ CountInv /\ Step => CountInv'
<1> SUFFICES ASSUME D!TypeOK, JobsInv, CountInv, Step
             PROVE  /\ IsFiniteSet(AllStarts')
                    /\ \A u \in Recipients :
                         stored'[u] + Cardinality(May(u)') <= Cardinality(AllStarts')
  BY LoadStep DEF CountInv
<1>1. /\ stored \in [Recipients -> Nat]
      /\ Cardinality(AllStarts) \in Nat /\ IsFiniteSet(AllStarts)
  BY FS_CardinalityType DEF D!TypeOK, Recipients, CountInv
<1>2. ASSUME NEW c \in Callers, NEW e \in Executions, D!Start(e, c)
      PROVE  /\ IsFiniteSet(AllStarts')
             /\ \A u \in Recipients : stored'[u] + Cardinality(May(u)') <= Cardinality(AllStarts')
  <2> DEFINE p == <<c, Starts(jobs[c]) + 1>>
  <2>1. /\ stored' = stored
        /\ \A f \in Executions : f # e => run'[f] = run[f]
    BY <1>2 DEF D!Start
  <2>2. \A d \in Callers : Starts(jobs[d]) \in Nat
    BY StartsBounded DEF JobsInv, D!TypeOK
  <2>3. /\ \A d \in Callers : d # c => Starts(jobs'[d]) = Starts(jobs[d])
        /\ Starts(jobs'[c]) = Starts(jobs[c]) + 1
    <3>1. \A d \in Callers : d # c => jobs'[d] = jobs[d]
      BY <1>2 DEF D!Start, D!TypeOK
    <3>2. /\ jobs[c].state = "waiting" /\ jobs'[c].state = "active"
          /\ jobs'[c].attemptsMade = jobs[c].attemptsMade
          /\ jobs'[c].stalledCount = jobs[c].stalledCount
          /\ jobs[c].attemptsMade \in Nat /\ jobs[c].stalledCount \in Nat
      BY <1>2 DEF D!Start, D!TypeOK, D!Job
    <3> QED
      BY <3>1, <3>2 DEF Starts
  <2>4. p \notin AllStarts
    BY <2>2 DEF AllStarts
  <2>5. AllStarts' = AllStarts \cup {p}
    <3> DEFINE n == Starts(jobs[c])
               Old(q) == 1 <= q[2] /\ q[2] <= Starts(jobs[q[1]])
               New(q) == 1 <= q[2] /\ q[2] <= Starts(jobs'[q[1]])
    <3>1. AllStarts = {q \in Callers \X Nat : Old(q)} /\ AllStarts' = {q \in Callers \X Nat : New(q)}
      BY DEF AllStarts, Starts
    <3>2. p \in Callers \X Nat
      BY <2>2
    <3>3. ASSUME NEW d \in Callers, NEW k \in Nat
          PROVE  New(<<d, k>>) <=> Old(<<d, k>>) \/ <<d, k>> = p
      <4>1. CASE d = c
        <5>1. New(<<d, k>>) <=> 1 <= k /\ k <= Starts(jobs[c]) + 1
          BY <2>3, <4>1
        <5>2. Old(<<d, k>>) <=> 1 <= k /\ k <= Starts(jobs[c])
          BY <4>1
        <5>3. <<d, k>> = p <=> k = Starts(jobs[c]) + 1
          BY <4>1
        <5> HIDE DEF Old, New, p
        <5> QED
          BY <2>2, <5>1, <5>2, <5>3
      <4>2. CASE d # c
        BY <2>3, <4>2
      <4> QED
        BY <4>1, <4>2
    <3>4. \A q \in Callers \X Nat : New(q) <=> Old(q) \/ q = p
      BY <3>3
    <3> HIDE DEF Old, New, p
    <3> QED
      BY <3>1, <3>2, <3>4
  <2> HIDE DEF p
  <2>6. /\ IsFiniteSet(AllStarts')
        /\ Cardinality(AllStarts') = Cardinality(AllStarts) + 1
    BY <1>1, <2>4, <2>5, FS_AddElement
  <2>7. ASSUME NEW u \in Recipients
        PROVE  stored'[u] + Cardinality(May(u)') <= Cardinality(AllStarts')
    <3>1. May(u)' \subseteq May(u) \cup {e}
      BY <2>1 DEF May, D!Running
    <3>2. /\ IsFiniteSet(May(u) \cup {e})
          /\ Cardinality(May(u) \cup {e}) <= Cardinality(May(u)) + 1
      <4>1. IsFiniteSet(May(u)) /\ Cardinality(May(u)) \in Nat
        BY MayFinite
      <4>2. /\ IsFiniteSet(May(u) \cup {e})
            /\ Cardinality(May(u) \cup {e})
                 = IF e \in May(u) THEN Cardinality(May(u)) ELSE Cardinality(May(u)) + 1
        BY <4>1, FS_AddElement
      <4> QED
        BY <4>1, <4>2
    <3>3. Cardinality(May(u)') <= Cardinality(May(u) \cup {e})
      BY <3>1, <3>2, FS_Subset
    <3>4. Cardinality(May(u)') <= Cardinality(May(u)) + 1
      BY <3>2, <3>3, MayFinite, FS_CardinalityType
    <3> QED
      BY <1>1, <2>1, <2>6, <3>4, MayFinite DEF CountInv
  <2> QED
    BY <2>6, <2>7
<1>3. ASSUME ~ \E c \in Callers, e \in Executions : D!Start(e, c)
      PROVE  /\ AllStarts' = AllStarts
             /\ \A u \in Recipients : Cardinality(May(u)') <= Cardinality(May(u))
  BY <1>3, AllStartsStep, MayStep, MayFinite, FS_Subset
<1>4. ASSUME NEW e \in Executions, NEW u \in Recipients, D!Store(e, u)
      PROVE  /\ stored'[u] = stored[u] + 1
             /\ \A v \in Recipients : v # u => stored'[v] = stored[v]
             /\ Cardinality(May(u)') + 1 <= Cardinality(May(u))
             /\ ~ \E c \in Callers, f \in Executions : D!Start(f, c)
  <2>1. /\ stored'[u] = stored[u] + 1
        /\ \A v \in Recipients : v # u => stored'[v] = stored[v]
    BY <1>1, <1>4 DEF D!Store
  <2>2. e \in May(u)
    BY <1>4 DEF D!Store, May, D!Running
  <2>3. ~ \E c \in Callers, f \in Executions : D!Start(f, c)
    BY <1>1, <2>1 DEF D!Start
  <2>4. e \notin May(u)'
    <3>1. run'[e].todo = run[e].todo \ {u} /\ run'[e].step = run[e].step
      BY <1>4 DEF D!Store, D!TypeOK, D!Running
    <3>2. run[e].step = "write"
      BY <1>4 DEF D!Store, CountInv, D!TypeOK, D!Running
    <3> QED
      BY <3>1, <3>2 DEF May
  <2>5. May(u)' \subseteq May(u) \ {e}
    BY <2>3, <2>4, MayStep
  <2>6. /\ IsFiniteSet(May(u) \ {e})
        /\ Cardinality(May(u) \ {e}) = Cardinality(May(u)) - 1
    BY <2>2, MayFinite, FS_RemoveElement
  <2>7. Cardinality(May(u)') <= Cardinality(May(u) \ {e})
    BY <2>5, <2>6, FS_Subset
  <2> QED
    BY <2>1, <2>3, <2>6, <2>7, MayFinite
<1>5. CASE \E e \in Executions, u \in Recipients : D!Store(e, u)
  <2>1. PICK e \in Executions, u \in Recipients : D!Store(e, u)
    BY <1>5
  <2>2. AllStarts' = AllStarts
    BY <1>3, <1>4, <2>1
  <2>3. ASSUME NEW v \in Recipients
        PROVE  stored'[v] + Cardinality(May(v)') <= Cardinality(AllStarts)
    BY <1>1, <1>3, <1>4, <2>1, MayFinite DEF CountInv
  <2> QED
    BY <1>1, <2>2, <2>3
<1>6. CASE ~ \E e \in Executions, u \in Recipients : D!Store(e, u)
  <2>1. stored' = stored
    BY <1>6, StoredStep
  <2>2. CASE ~ \E c \in Callers, e \in Executions : D!Start(e, c)
    <3>1. AllStarts' = AllStarts
      BY <1>3, <2>2
    <3>2. ASSUME NEW v \in Recipients
          PROVE  stored'[v] + Cardinality(May(v)') <= Cardinality(AllStarts)
      BY <1>1, <1>3, <2>1, <2>2, MayFinite DEF CountInv
    <3> QED
      BY <1>1, <3>1, <3>2
  <2> QED
    BY <1>2, <2>2
<1> QED
  BY <1>5, <1>6

LEMMA CountInvariant == D!Spec => []CountInv /\ []JobsInv
<1>1. D!Init => JobsInv
  BY DEF D!Init, JobsInv, Budget, Locked, D!Running, D!Queued, D!NoJob
<1>2. ASSUME D!Init PROVE CountInv
  <2>1. AllStarts = {}
    <3>1. \A c \in Callers : Starts(jobs[c]) = 0
      BY <1>2 DEF D!Init, D!NoJob, Starts
    <3> QED
      BY <3>1 DEF AllStarts
  <2>2. \A u \in Recipients : stored[u] = 0 /\ May(u) = {}
    BY <1>2 DEF D!Init, May, D!Running, Recipients
  <2>3. IsFiniteSet(AllStarts) /\ Cardinality(AllStarts) = 0
    BY <2>1, FS_EmptySet
  <2>4. \A u \in Recipients : stored[u] + Cardinality(May(u)) <= Cardinality(AllStarts)
    <3>1. \A u \in Recipients : Cardinality(May(u)) = 0
      BY <2>2, FS_EmptySet
    <3> QED
      BY <2>2, <2>3, <3>1
  <2>5. \A e \in Executions : ~D!Running(e)
    BY <1>2 DEF D!Init, D!Running
  <2> QED
    BY <2>3, <2>4, <2>5 DEF CountInv
<1>3. D!TypeOK /\ JobsInv /\ CountInv /\ [D!Next]_D!vars => JobsInv' /\ CountInv'
  BY JobsStep, CountStep DEF Step, deliveryVars, D!vars
<1> QED
  BY <1>1, <1>2, <1>3, DeliveryTypes, PTL DEF D!Spec

\* The starts of the queued jobs are within their attempts and stalls.
LEMMA StartsCounted ==
    ASSUME D!TypeOK, JobsInv, IsFiniteSet(AllStarts)
    PROVE  Cardinality(AllStarts) <=
             Cardinality({c \in Callers : D!Queued(c)}) * (Attempts[kind] + MaxStalled)
<1> DEFINE Q == {c \in Callers : D!Queued(c)}
           n == Attempts[kind] + MaxStalled
<1>1. n \in Nat
  BY DEF D!TypeOK
<1>2. IsFiniteSet(Q)
  BY FS_Subset
<1>3. /\ IsFiniteSet(1..n) /\ Cardinality(1..n) = n
  <2> HIDE DEF n
  <2>1. 1 \in Int /\ n \in Int
    BY <1>1
  <2>2. IsFiniteSet(1..n) /\ Cardinality(1..n) = IF 1 > n THEN 0 ELSE n - 1 + 1
    BY <2>1, FS_Interval
  <2> QED
    BY <1>1, <2>2
<1>4. /\ IsFiniteSet(Q \X (1..n))
      /\ Cardinality(Q \X (1..n)) = Cardinality(Q) * n
  BY <1>2, <1>3, FS_Product
<1>5. AllStarts \subseteq Q \X (1..n)
  <2>1. ASSUME NEW c \in Callers, NEW k \in Nat, 1 <= k, k <= Starts(jobs[c])
        PROVE  c \in Q /\ k \in 1..n
    <3>1. Starts(jobs[c]) \in Nat /\ Starts(jobs[c]) <= n /\ (jobs[c].state = "none" => Starts(jobs[c]) = 0)
      BY StartsBounded DEF JobsInv, D!TypeOK
    <3> HIDE DEF n
    <3> QED
      BY <1>1, <2>1, <3>1 DEF D!Queued
  <2> HIDE DEF Q, n
  <2> QED
    BY <2>1 DEF AllStarts
<1> QED
  BY <1>4, <1>5, FS_Subset

\* Delivery counts with the FiniteSets it extends.
LEMMA SameCardinality == \A S : D!Cardinality(S) = Cardinality(S)
BY DEF Cardinality, D!Cardinality

\* At least once, and how many times at most: nobody is notified of a message twice
\* while executions do not overlap, and retries, loose writes and stalls together
\* store no row more often than the attempts and the stalls of the jobs allow.
THEOREM RepeatsCounted == D!Spec => []RepeatsBounded
<1>1. D!Init => ChatInv
  BY DEF D!Init, ChatInv, D!Running
<1>2. D!TypeOK /\ ChatInv /\ [D!Next]_D!vars => ChatInv'
  BY ChatStep DEF Step, deliveryVars, D!vars
<1>3. ASSUME D!TypeOK, JobsInv, CountInv, ChatInv PROVE RepeatsBounded
  <2> DEFINE bound == Cardinality({c \in Callers : D!Queued(c)}) * (Attempts[kind] + MaxStalled)
  <2>1. ASSUME NEW u \in Recipients PROVE stored[u] <= bound
    <3>1. stored[u] + Cardinality(May(u)) <= Cardinality(AllStarts) /\ IsFiniteSet(AllStarts)
      BY <1>3 DEF CountInv
    <3>2. Cardinality(AllStarts) <= bound
      BY <1>3, <3>1, StartsCounted
    <3>3. IsFiniteSet({c \in Callers : D!Queued(c)})
      BY FS_Subset
    <3>4. bound \in Nat
      <4>1. Cardinality({c \in Callers : D!Queued(c)}) \in Nat /\ Attempts[kind] + MaxStalled \in Nat
        BY <1>3, <3>3, FS_CardinalityType DEF D!TypeOK
      <4> QED
        BY <4>1
    <3>5. stored[u] \in Nat /\ Cardinality(May(u)) \in Nat /\ Cardinality(AllStarts) \in Nat
      BY <1>3, <3>1, MayFinite, FS_CardinalityType DEF D!TypeOK, Recipients
    <3> HIDE DEF bound
    <3> QED
      BY <3>1, <3>2, <3>4, <3>5
  <2>2. kind = "chat" /\ ~overlapped => \A u \in Users : stored[u] <= 1
    BY <1>3 DEF ChatInv
  <2> QED
    BY <2>1, <2>2, SameCardinality DEF RepeatsBounded, D!RepeatsBounded, Recipients
<1> QED
  BY <1>1, <1>2, <1>3, DeliveryTypes, CountInvariant, PTL DEF D!Spec

-----------------------------------------------------------------------------
(* The two parts side by side. *)

\* What TLC runs does, in either part, what the part does by itself.
LEMMA PartsByThemselves == MCSpec => Spec /\ D!Spec
<1>1. MCInit => Init /\ D!Init
  BY DEF MCInit
<1>2. [MCNext]_allVars => [Next]_vars /\ [D!Next]_D!vars
  BY DEF MCNext, allVars, vars, deliveryVars, D!vars
<1> QED
  BY <1>1, <1>2, PTL DEF MCSpec, Spec, D!Spec

\* Connections, keys, jobs, executions and rows keep their types.
THEOREM TypesCorrect == MCSpec => []Types
<1>1. TypeOK /\ D!TypeOK => Types
  BY DEF Types
<1> QED
  BY <1>1, PartsByThemselves, TypeCorrect, DeliveryTypes, PTL
=============================================================================
