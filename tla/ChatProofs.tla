----------------------------- MODULE ChatProofs -----------------------------
(***************************************************************************)
(* Chat, for any number of users, rooms and calls in flight and any finite set*)
(* of messages: its types, the recipients of notifications, the DIRECT rooms*)
(* and the unread counters.                                                 *)
(***************************************************************************)
EXTENDS Chat, FiniteSetTheorems, TLAPS

-----------------------------------------------------------------------------
(* Types *)

DirectCall == [op : {"direct"}, pair : SUBSET Users]
AddCall == [op : {"add"}, roomId : Rooms, newUserIds : SUBSET Users, by : Users]
NotifyCall == [op : {"notify"}, messageId : Messages]
ReadCall == [op : {"read"}, userId : Users, roomId : Rooms, take : Nat \ {0}]
CommitCall ==
    [op : {"commit"}, userId : Users, roomId : Rooms, messageIds : SUBSET Messages]

\* The rows that a call in flight names are there.
CallsNameRows ==
    \A p \in Requests :
        /\ request[p] # Null /\ request[p].op = "notify"
             => chatMessage[request[p].messageId] # Null
        /\ request[p] # Null /\ request[p].op \in {"read", "commit"}
             => Member(request[p].roomId, request[p].userId)
        /\ request[p] # Null /\ request[p].op = "add"
             => Member(request[p].roomId, request[p].by)

\* Only rooms have members.
MembersHaveRooms ==
    \A r \in Rooms, u \in Users : Member(r, u) => chatRoom[r] # Null

TypeInv == TypeOK /\ CallsNameRows /\ MembersHaveRooms

\* The call in flight has the fields that its op says.
LEMMA CallType ==
    ASSUME TypeOK, NEW p \in Requests, request[p] # Null
    PROVE  /\ request[p].op = "direct" => request[p] \in DirectCall
           /\ request[p].op = "add" => request[p] \in AddCall
           /\ request[p].op = "notify" => request[p] \in NotifyCall
           /\ request[p].op = "read" => request[p] \in ReadCall
           /\ request[p].op = "commit" => request[p] \in CommitCall
<1>1. request[p] \in DirectCall \cup AddCall \cup NotifyCall \cup ReadCall \cup CommitCall
  BY DEF TypeOK, Call, DirectCall, AddCall, NotifyCall, ReadCall, CommitCall
<1>2. CASE request[p] \in DirectCall
  BY <1>2 DEF DirectCall
<1>3. CASE request[p] \in AddCall
  BY <1>3 DEF AddCall
<1>4. CASE request[p] \in NotifyCall
  BY <1>4 DEF NotifyCall
<1>5. CASE request[p] \in ReadCall
  BY <1>5 DEF ReadCall
<1>6. CASE request[p] \in CommitCall
  BY <1>6 DEF CommitCall
<1> QED
  BY <1>1, <1>2, <1>3, <1>4, <1>5, <1>6

LEMMA RowType ==
    ASSUME TypeOK, NEW r \in Rooms, NEW u \in Users, Member(r, u)
    PROVE  chatRoomMember[r][u] \in ChatRoomMember
  BY DEF TypeOK, Member

LEMMA CountType ==
    ASSUME NEW row \in ChatRoomMember, NEW n \in Int
    PROVE  /\ Count(row, n) \in ChatRoomMember
           /\ Count(row, n).unreadCount = row.unreadCount + n
           /\ Count(row, n).addedById = row.addedById
  BY DEF Count, ChatRoomMember

LEMMA NewMemberType ==
    ASSUME NEW by \in Users \cup {Null}
    PROVE  /\ NewMember(by) \in ChatRoomMember
           /\ NewMember(by).unreadCount = 0
           /\ NewMember(by).addedById = by
  BY DEF NewMember, ChatRoomMember

LEMMA UnreadFinite ==
    ASSUME NEW r, NEW u
    PROVE  /\ Unread(r, u) \subseteq Messages
           /\ IsFiniteSet(Unread(r, u))
           /\ Cardinality(Unread(r, u)) \in Nat
<1>1. Unread(r, u) \subseteq Messages
  BY DEF Unread
<1>2. IsFiniteSet(Unread(r, u))
  BY <1>1, ChatAssumption, FS_Subset
<1> QED
  BY <1>1, <1>2, FS_CardinalityType

-----------------------------------------------------------------------------
(* Type correctness *)

LEMMA InitType == Init => TypeInv
<1> SUFFICES ASSUME Init
             PROVE  TypeInv
  OBVIOUS
<1>1. TypeOK
  <2>1. chatRoomMember \in [Rooms -> [Users -> ChatRoomMember \cup {Null}]]
    BY DEF Init
  <2>2. /\ chatRoom \in [Rooms -> ChatRoom \cup {Null}]
        /\ chatMessage \in [Messages -> ChatMessage \cup {Null}]
        /\ request \in [Requests -> Call \cup {Null}]
    BY DEF Init
  <2>3. chatMessageJob \in [Messages -> (SUBSET Users) \cup {Null}]
    BY Zenon DEF Init
  <2>4. chatMessageRead \subseteq Messages \X Users
    BY DEF Init
  <2>5. replies \subseteq [pair : SUBSET Users, room : Rooms]
    BY DEF Init
  <2> QED
    BY <2>1, <2>2, <2>3, <2>4, <2>5 DEF TypeOK
<1>2. CallsNameRows /\ MembersHaveRooms
  BY DEF Init, CallsNameRows, MembersHaveRooms, Member
<1> QED
  BY <1>1, <1>2 DEF TypeInv

\* What every step keeps: rows stay, and other calls are not touched.
LEMMA RowsStay ==
    ASSUME TypeInv, NEW p \in Requests,
           \A q \in Requests : q # p => request'[q] = request[q],
           \A m \in Messages : chatMessage[m] # Null => chatMessage'[m] # Null,
           \A r \in Rooms, u \in Users : Member(r, u) => Member(r, u)',
           request'[p] # Null /\ request'[p].op = "notify"
             => chatMessage'[request'[p].messageId] # Null,
           request'[p] # Null /\ request'[p].op \in {"read", "commit"}
             => Member(request[p].roomId, request[p].userId)',
           request'[p] # Null /\ request'[p].op = "add"
             => Member(request[p].roomId, request[p].by)'
    PROVE  CallsNameRows'
<1> SUFFICES ASSUME NEW q \in Requests, q # p, request'[q] # Null
             PROVE  /\ request'[q].op = "notify"
                         => chatMessage'[request'[q].messageId] # Null
                    /\ request'[q].op \in {"read", "commit"}
                         => Member(request[q].roomId, request[q].userId)'
                    /\ request'[q].op = "add"
                         => Member(request[q].roomId, request[q].by)'
  BY DEF CallsNameRows
<1>1. request'[q] = request[q]
  OBVIOUS
<1>2. CASE request[q].op = "notify"
  BY <1>1, <1>2, CallType DEF NotifyCall, TypeInv, CallsNameRows
<1>3. CASE request[q].op = "read"
  BY <1>1, <1>3, CallType DEF ReadCall, TypeInv, CallsNameRows, Member
<1>4. CASE request[q].op = "commit"
  BY <1>1, <1>4, CallType DEF CommitCall, TypeInv, CallsNameRows, Member
<1>5. CASE request[q].op = "add"
  BY <1>1, <1>5, CallType DEF AddCall, TypeInv, CallsNameRows, Member
<1> QED
  BY <1>1, <1>2, <1>3, <1>4, <1>5

\* A call ends and no row goes.
LEMMA ReturnKeepsCalls ==
    ASSUME TypeInv, NEW p \in Requests, Return(p),
           \A m \in Messages : chatMessage[m] # Null => chatMessage'[m] # Null,
           \A r \in Rooms, u \in Users : Member(r, u) => Member(r, u)'
    PROVE  /\ CallsNameRows'
           /\ request' \in [Requests -> Call \cup {Null}]
           /\ \A q \in Requests : q # p => request'[q] = request[q]
           /\ request'[p] = Null
<1>1. /\ request' \in [Requests -> Call \cup {Null}]
      /\ \A q \in Requests : q # p => request'[q] = request[q]
      /\ request'[p] = Null
  BY DEF TypeInv, TypeOK, Return
<1> QED
  BY <1>1, RowsStay

LEMMA SameMembers ==
    ASSUME UNCHANGED chatRoomMember
    PROVE  \A r \in Rooms, u \in Users : Member(r, u) => Member(r, u)'
  BY DEF Member

\* A room comes with its founders; every other room keeps its members.
LEMMA CreateRoomRows ==
    ASSUME TypeInv, NEW r \in Rooms, NEW hash \in (SUBSET Users) \cup {Null},
           NEW founders \in SUBSET Users, CreateRoom(r, hash, founders)
    PROVE  /\ chatRoom' \in [Rooms -> ChatRoom \cup {Null}]
           /\ chatRoomMember' \in [Rooms -> [Users -> ChatRoomMember \cup {Null}]]
           /\ chatRoom'[r] = [directRoomHash |-> hash] /\ chatRoom'[r] # Null
           /\ \A s \in Rooms : s # r => /\ chatRoomMember'[s] = chatRoomMember[s]
                                        /\ chatRoom'[s] = chatRoom[s]
           /\ \A u \in Users : chatRoomMember'[r][u] =
                                 IF u \in founders THEN NewMember(Null) ELSE Null
           /\ \A u \in Users : ~Member(r, u)
           /\ \A s \in Rooms, u \in Users : Member(s, u) => Member(s, u)'
           /\ MembersHaveRooms'
<1>1. NewMember(Null) \in ChatRoomMember
  BY NewMemberType
<1>2. [directRoomHash |-> hash] \in ChatRoom
  BY DEF ChatRoom
<1>3. /\ chatRoom' \in [Rooms -> ChatRoom \cup {Null}]
      /\ chatRoomMember' \in [Rooms -> [Users -> ChatRoomMember \cup {Null}]]
      /\ chatRoom'[r] = [directRoomHash |-> hash]
      /\ \A s \in Rooms : s # r => /\ chatRoomMember'[s] = chatRoomMember[s]
                                   /\ chatRoom'[s] = chatRoom[s]
      /\ \A u \in Users : chatRoomMember'[r][u] =
                            IF u \in founders THEN NewMember(Null) ELSE Null
  BY <1>1, <1>2 DEF CreateRoom, TypeInv, TypeOK
<1>4. \A u \in Users : ~Member(r, u)
  BY DEF CreateRoom, TypeInv, MembersHaveRooms
<1>5. chatRoom'[r] # Null
  BY <1>2, <1>3, ChatAssumption
<1>6. \A s \in Rooms, u \in Users : Member(s, u) => Member(s, u)'
  BY <1>3, <1>4 DEF Member
<1>7. MembersHaveRooms'
  BY <1>3, <1>5 DEF MembersHaveRooms, Member, TypeInv
<1> QED
  BY <1>3, <1>4, <1>5, <1>6, <1>7

LEMMA ReplyType ==
    ASSUME TypeOK, NEW pair \in SUBSET Users, NEW r \in Rooms, Reply(pair, r)
    PROVE  replies' \subseteq [pair : SUBSET Users, room : Rooms]
  BY DEF TypeOK, Reply

LEMMA DirectFindType ==
    ASSUME TypeInv, NEW p \in Requests, NEW u \in Users, NEW v \in Users,
           DirectFind(p, u, v)
    PROVE  TypeInv'
<1> DEFINE call == [op |-> "direct", pair |-> {u, v}]
<1>1. UNCHANGED <<chatRoom, chatRoomMember, chatMessage, chatMessageRead, chatMessageJob>>
  BY DEF DirectFind
<1>2. CASE DirectRooms({u, v}) # {}
  <2>1. UNCHANGED request
    BY <1>2 DEF DirectFind
  <2>2. replies' \subseteq [pair : SUBSET Users, room : Rooms]
    BY <1>2, ReplyType DEF DirectFind, DirectRooms, TypeInv
  <2> QED
    BY <1>1, <2>1, <2>2 DEF TypeInv, TypeOK, CallsNameRows, MembersHaveRooms, Member
<1>3. CASE DirectRooms({u, v}) = {}
  <2>1. call \in Call /\ call.op = "direct"
    BY DEF Call
  <2>2. request' = [request EXCEPT ![p] = call] /\ UNCHANGED replies
    BY <1>3 DEF DirectFind, Start
  <2> HIDE DEF call
  <2>3. TypeOK'
    BY <1>1, <2>1, <2>2 DEF TypeInv, TypeOK
  <2>4. /\ request'[p] = call
        /\ \A q \in Requests : q # p => request'[q] = request[q]
    BY <2>2 DEF TypeInv, TypeOK
  <2>5. CallsNameRows'
    BY <1>1, <2>1, <2>4, RowsStay, SameMembers
  <2> QED
    BY <1>1, <2>3, <2>5 DEF TypeInv, MembersHaveRooms, Member
<1> QED
  BY <1>2, <1>3

LEMMA DirectCreateType ==
    ASSUME TypeInv, NEW p \in Requests, DirectCreate(p)
    PROVE  TypeInv'
<1> DEFINE pair == request[p].pair
<1>1. pair \in SUBSET Users
  BY CallType DEF DirectCreate, DirectCall, TypeInv
<1>2. PICK r \in Rooms : /\ CreateRoom(r, pair, pair)
                         /\ Reply(pair, r) \/ UNCHANGED replies
  BY DEF DirectCreate
<1>3. /\ UNCHANGED <<chatMessage, chatMessageRead, chatMessageJob>> /\ Return(p)
  BY DEF DirectCreate
<1> HIDE DEF pair
<1>4. replies' \subseteq [pair : SUBSET Users, room : Rooms]
  BY <1>1, <1>2, ReplyType DEF TypeInv, TypeOK
<1>5. TypeOK' /\ MembersHaveRooms' /\ CallsNameRows'
  BY <1>1, <1>2, <1>3, <1>4, CreateRoomRows, ReturnKeepsCalls DEF TypeInv, TypeOK
<1> QED
  BY <1>5 DEF TypeInv

LEMMA DirectConflictType ==
    ASSUME TypeInv, NEW p \in Requests, DirectConflict(p)
    PROVE  TypeInv'
<1>1. request[p].pair \in SUBSET Users
  BY CallType DEF DirectConflict, DirectCall, TypeInv
<1>2. replies' \subseteq [pair : SUBSET Users, room : Rooms]
  BY <1>1, ReplyType DEF DirectConflict, DirectRooms, TypeInv
<1>3. UNCHANGED <<chatRoom, chatRoomMember, chatMessage, chatMessageRead, chatMessageJob>>
  BY DEF DirectConflict
<1>4. CallsNameRows' /\ request' \in [Requests -> Call \cup {Null}]
  BY <1>3, ReturnKeepsCalls, SameMembers DEF DirectConflict
<1> QED
  BY <1>2, <1>3, <1>4 DEF TypeInv, TypeOK, MembersHaveRooms, Member

\* The rows of one room change; nobody leaves.
LEMMA RowsChange ==
    ASSUME TypeInv, UNCHANGED chatRoom, NEW r \in Rooms, chatRoom[r] # Null,
           NEW rows \in [Users -> ChatRoomMember \cup {Null}],
           \A u \in Users : Member(r, u) => rows[u] # Null,
           chatRoomMember' = [chatRoomMember EXCEPT ![r] = rows]
    PROVE  /\ chatRoomMember' \in [Rooms -> [Users -> ChatRoomMember \cup {Null}]]
           /\ \A s \in Rooms, u \in Users : Member(s, u) => Member(s, u)'
           /\ MembersHaveRooms'
           /\ \A u \in Users : chatRoomMember'[r][u] = rows[u]
           /\ \A s \in Rooms : s # r => chatRoomMember'[s] = chatRoomMember[s]
<1>1. /\ chatRoomMember' \in [Rooms -> [Users -> ChatRoomMember \cup {Null}]]
      /\ chatRoomMember'[r] = rows
      /\ \A s \in Rooms : s # r => chatRoomMember'[s] = chatRoomMember[s]
  BY DEF TypeInv, TypeOK
<1> QED
  BY <1>1 DEF Member, MembersHaveRooms, TypeInv

\* Only the call in flight changes.
LEMMA StartType ==
    ASSUME TypeInv, NEW p \in Requests, NEW call \in Call \cup {Null},
           request' = [request EXCEPT ![p] = call],
           UNCHANGED <<chatRoom, chatRoomMember, chatMessage, chatMessageRead,
                       chatMessageJob, replies>>,
           call # Null /\ call.op = "notify" => chatMessage[call.messageId] # Null,
           call # Null /\ call.op \in {"read", "commit"} => Member(call.roomId, call.userId),
           call # Null /\ call.op = "add" => Member(call.roomId, call.by)
    PROVE  TypeInv'
<1>1. /\ request'[p] = call
      /\ \A q \in Requests : q # p => request'[q] = request[q]
      /\ request' \in [Requests -> Call \cup {Null}]
  BY DEF TypeInv, TypeOK
<1>2. CallsNameRows'
  BY <1>1, RowsStay, SameMembers DEF Member
<1> QED
  BY <1>1, <1>2 DEF TypeInv, TypeOK, MembersHaveRooms, Member

\* No call starts or ends and no row goes.
LEMMA SameCalls ==
    ASSUME TypeInv, UNCHANGED <<chatMessage, request>>,
           \A r \in Rooms, u \in Users : Member(r, u) => Member(r, u)'
    PROVE  CallsNameRows'
<1>1. ASSUME NEW q \in Requests, request[q] # Null
      PROVE  /\ request[q].op = "notify" => chatMessage'[request[q].messageId] # Null
             /\ request[q].op \in {"read", "commit"}
                  => Member(request[q].roomId, request[q].userId)'
             /\ request[q].op = "add" => Member(request[q].roomId, request[q].by)'
  <2>1. CASE request[q].op = "read"
    BY <2>1, <1>1, CallType DEF ReadCall, TypeInv, CallsNameRows, Member
  <2>2. CASE request[q].op = "commit"
    BY <2>2, <1>1, CallType DEF CommitCall, TypeInv, CallsNameRows, Member
  <2>3. CASE request[q].op = "notify"
    BY <2>3, <1>1 DEF TypeInv, CallsNameRows
  <2>4. CASE request[q].op = "add"
    BY <2>4, <1>1, CallType DEF AddCall, TypeInv, CallsNameRows, Member
  <2> QED
    BY <2>1, <2>2, <2>3, <2>4
<1> QED
  BY <1>1 DEF CallsNameRows, Member

LEMMA GroupCreateType ==
    ASSUME TypeInv, NEW r \in Rooms, NEW founders \in SUBSET Users,
           GroupCreate(r, founders)
    PROVE  TypeInv'
<1>1. /\ CreateRoom(r, Null, founders)
      /\ UNCHANGED <<chatMessage, chatMessageRead, chatMessageJob, replies, request>>
  BY DEF GroupCreate
<1>2. /\ chatRoom' \in [Rooms -> ChatRoom \cup {Null}]
      /\ chatRoomMember' \in [Rooms -> [Users -> ChatRoomMember \cup {Null}]]
      /\ \A s \in Rooms, u \in Users : Member(s, u) => Member(s, u)'
      /\ MembersHaveRooms'
  <2>1. Null \in (SUBSET Users) \cup {Null}
    BY Zenon
  <2> QED
    BY <1>1, <2>1, CreateRoomRows
<1>3. TypeOK'
  BY <1>1, <1>2 DEF TypeInv, TypeOK
<1>4. CallsNameRows'
  BY <1>1, <1>2, SameCalls
<1> QED
  BY <1>2, <1>3, <1>4 DEF TypeInv

LEMMA AddMembersBeginType ==
    ASSUME TypeInv, NEW p \in Requests, NEW u \in Users, NEW r \in Rooms,
           NEW userIds \in SUBSET Users, AddMembersBegin(p, u, r, userIds)
    PROVE  TypeInv'
<1> DEFINE call == [op |-> "add", roomId |-> r, newUserIds |-> userIds \ Members(r),
                    by |-> u]
<1>1. call \in Call /\ call.op = "add" /\ call.roomId = r /\ call.by = u
  BY DEF Call
<1>2. /\ Member(r, u)
      /\ request' = [request EXCEPT ![p] = call]
      /\ UNCHANGED <<chatRoom, chatRoomMember, chatMessage, chatMessageRead,
                     chatMessageJob, replies>>
  BY DEF AddMembersBegin, Start
<1> HIDE DEF call
<1> QED
  BY <1>1, <1>2, StartType

\* New members start at zero and no row that was there changes.
LEMMA AddMembersRows ==
    ASSUME TypeInv, NEW p \in Requests, AddMembers(p)
    PROVE  /\ chatRoomMember' \in [Rooms -> [Users -> ChatRoomMember \cup {Null}]]
           /\ MembersHaveRooms'
           /\ \A s \in Rooms, v \in Users : Member(s, v)
                => chatRoomMember'[s][v] = chatRoomMember[s][v]
           /\ \A s \in Rooms, v \in Users : ~Member(s, v) /\ Member(s, v)'
                => \E by \in Users : chatRoomMember'[s][v] = NewMember(by)
<1> DEFINE new == request[p].newUserIds
           by == request[p].by
<1>1. PICK r \in Rooms : r = request[p].roomId
  BY CallType DEF AddMembers, AddCall, TypeInv
<1>2. by \in Users /\ new \subseteq Users
  BY CallType DEF AddMembers, AddCall, TypeInv
<1>3. CASE new \cap Members(r) = {}
  <2> DEFINE rows == [v \in Users |-> IF v \in new THEN NewMember(by)
                                                  ELSE chatRoomMember[r][v]]
  <2>1. UNCHANGED chatRoom /\ chatRoomMember' = [chatRoomMember EXCEPT ![r] = rows]
    BY <1>1, <1>3 DEF AddMembers
  <2>2. NewMember(by) \in ChatRoomMember
    BY <1>2, NewMemberType
  <2>3. rows \in [Users -> ChatRoomMember \cup {Null}]
    BY <2>2 DEF TypeInv, TypeOK
  <2>4. \A v \in Users : Member(r, v) => rows[v] = chatRoomMember[r][v]
    BY <1>3 DEF Members
  <2>5. chatRoom[r] # Null
    BY <1>1, <1>2 DEF AddMembers, TypeInv, CallsNameRows, MembersHaveRooms
  <2>6. \A v \in Users : rows[v] = NewMember(by) \/ rows[v] = chatRoomMember[r][v]
    OBVIOUS
  <2> HIDE DEF rows, by, new
  <2>7. \A v \in Users : Member(r, v) => rows[v] # Null
    BY <2>4 DEF Member
  <2>8. /\ chatRoomMember' \in [Rooms -> [Users -> ChatRoomMember \cup {Null}]]
        /\ MembersHaveRooms'
        /\ \A v \in Users : chatRoomMember'[r][v] = rows[v]
        /\ \A s \in Rooms : s # r => chatRoomMember'[s] = chatRoomMember[s]
    BY <2>1, <2>3, <2>5, <2>7, RowsChange
  <2> QED
    BY <1>2, <2>4, <2>6, <2>8 DEF Member
<1>4. CASE new \cap Members(r) # {}
  <2>1. UNCHANGED <<chatRoom, chatRoomMember>>
    BY <1>1, <1>4 DEF AddMembers
  <2> QED
    BY <2>1 DEF TypeInv, TypeOK, MembersHaveRooms, Member
<1> QED
  BY <1>3, <1>4

LEMMA AddMembersType ==
    ASSUME TypeInv, NEW p \in Requests, AddMembers(p)
    PROVE  TypeInv'
<1>1. /\ UNCHANGED <<chatRoom, chatMessage, chatMessageRead, chatMessageJob, replies>>
      /\ Return(p)
  BY DEF AddMembers
<1>2. \A s \in Rooms, v \in Users : Member(s, v) => Member(s, v)'
  BY AddMembersRows DEF Member
<1>3. CallsNameRows' /\ request' \in [Requests -> Call \cup {Null}]
  BY <1>1, <1>2, ReturnKeepsCalls
<1> QED
  BY <1>1, <1>3, AddMembersRows DEF TypeInv, TypeOK

\* The job of a message is queued and nothing else changes.
LEMMA NotifyType ==
    ASSUME TypeInv, NEW p \in Requests, NotifyRecipients(p)
    PROVE  TypeInv'
<1>1. request[p].messageId \in Messages
  BY CallType DEF NotifyRecipients, NotifyCall, TypeInv
<1>2. \A r, u : Recipients(r, u) \in SUBSET Users
  BY DEF Recipients, Members
<1>3. chatMessageJob' \in [Messages -> (SUBSET Users) \cup {Null}]
  BY <1>1, <1>2 DEF NotifyRecipients, TypeInv, TypeOK
<1>4. /\ UNCHANGED <<chatRoom, chatRoomMember, chatMessage, chatMessageRead, replies>>
      /\ Return(p)
  BY DEF NotifyRecipients
<1>5. CallsNameRows' /\ request' \in [Requests -> Call \cup {Null}]
  BY <1>4, ReturnKeepsCalls, SameMembers
<1> QED
  BY <1>3, <1>4, <1>5 DEF TypeInv, TypeOK, MembersHaveRooms, Member

\* The rows after a message of u in r: one more for everybody else.
LEMMA SendRows ==
    ASSUME TypeInv, NEW p \in Requests, NEW u \in Users, NEW r \in Rooms,
           NEW m \in Messages, SendMessage(p, u, r, m)
    PROVE  /\ chatRoomMember' \in [Rooms -> [Users -> ChatRoomMember \cup {Null}]]
           /\ \A s \in Rooms, v \in Users : Member(s, v)' <=> Member(s, v)
           /\ MembersHaveRooms'
           /\ \A s \in Rooms, v \in Users : s # r \/ v = u \/ ~Member(s, v)
                => chatRoomMember'[s][v] = chatRoomMember[s][v]
           /\ \A v \in Users : v # u /\ Member(r, v)
                => chatRoomMember'[r][v] = Count(chatRoomMember[r][v], 1)
<1> DEFINE others == Others(r, u)
           rows == [v \in Users |-> IF v \in others THEN Count(chatRoomMember[r][v], 1)
                                                    ELSE chatRoomMember[r][v]]
<1>1. \A v \in Users : v \in others <=> v # u /\ Member(r, v)
  BY DEF Others, Members
<1> HIDE DEF others
<1>2. \A v \in Users : v \in others => rows[v] \in ChatRoomMember
  BY <1>1, RowType, CountType DEF TypeInv
<1>3. \A v \in Users : v \notin others => rows[v] = chatRoomMember[r][v]
  OBVIOUS
<1>4. rows \in [Users -> ChatRoomMember \cup {Null}]
  BY <1>2, <1>3 DEF TypeInv, TypeOK
<1>5. \A v \in Users : rows[v] # Null <=> Member(r, v)
  BY <1>1, <1>2, <1>3, ChatAssumption DEF Member
<1>6. chatRoom[r] # Null
  BY DEF SendMessage, TypeInv, MembersHaveRooms
<1>7. UNCHANGED chatRoom /\ chatRoomMember' = [chatRoomMember EXCEPT ![r] = rows]
  BY DEF SendMessage, others
<1>8. \A v \in Users : v \in others => rows[v] = Count(chatRoomMember[r][v], 1)
  OBVIOUS
<1> HIDE DEF rows
<1>9. /\ chatRoomMember' \in [Rooms -> [Users -> ChatRoomMember \cup {Null}]]
      /\ MembersHaveRooms'
      /\ \A v \in Users : chatRoomMember'[r][v] = rows[v]
      /\ \A s \in Rooms : s # r => chatRoomMember'[s] = chatRoomMember[s]
  BY <1>4, <1>5, <1>6, <1>7, RowsChange
<1> QED
  BY <1>1, <1>3, <1>5, <1>8, <1>9 DEF Member

LEMMA SendType ==
    ASSUME TypeInv, NEW p \in Requests, NEW u \in Users, NEW r \in Rooms,
           NEW m \in Messages, SendMessage(p, u, r, m)
    PROVE  TypeInv'
<1> DEFINE row == [roomId |-> r, senderId |-> u, countedFor |-> Others(r, u)]
           call == [op |-> "notify", messageId |-> m]
<1>1. row \in ChatMessage
  BY DEF ChatMessage, Others, Members
<1>2. /\ chatMessage' = [chatMessage EXCEPT ![m] = row]
      /\ request' = [request EXCEPT ![p] = call]
      /\ UNCHANGED <<chatRoom, chatMessageRead, chatMessageJob, replies>>
  BY DEF SendMessage, Start
<1>3. call \in Call /\ call.op = "notify" /\ call.messageId = m
  BY DEF Call
<1> HIDE DEF row, call
<1>4. /\ chatMessage' \in [Messages -> ChatMessage \cup {Null}]
      /\ \A n \in Messages : chatMessage[n] # Null => chatMessage'[n] # Null
      /\ chatMessage'[m] # Null
  BY <1>1, <1>2, ChatAssumption DEF TypeInv, TypeOK
<1>5. /\ request'[p] = call
      /\ \A q \in Requests : q # p => request'[q] = request[q]
      /\ request' \in [Requests -> Call \cup {Null}]
  BY <1>2, <1>3 DEF TypeInv, TypeOK
<1>6. /\ chatRoomMember' \in [Rooms -> [Users -> ChatRoomMember \cup {Null}]]
      /\ \A s \in Rooms, v \in Users : Member(s, v) => Member(s, v)'
      /\ MembersHaveRooms'
  BY SendRows
<1>7. CallsNameRows'
  BY <1>3, <1>4, <1>5, <1>6, RowsStay
<1>8. TypeOK'
  BY <1>2, <1>4, <1>5, <1>6 DEF TypeInv, TypeOK
<1> QED
  BY <1>6, <1>7, <1>8 DEF TypeInv

\* The row of one member changes.
LEMMA RowChanges ==
    ASSUME TypeInv, UNCHANGED chatRoom, NEW r \in Rooms, NEW u \in Users, Member(r, u),
           NEW row \in ChatRoomMember,
           chatRoomMember' = [chatRoomMember EXCEPT ![r][u] = row]
    PROVE  /\ chatRoomMember' \in [Rooms -> [Users -> ChatRoomMember \cup {Null}]]
           /\ MembersHaveRooms'
           /\ \A s \in Rooms, v \in Users : Member(s, v)' <=> Member(s, v)
           /\ chatRoomMember'[r][u] = row
           /\ \A s \in Rooms, v \in Users :
                s # r \/ v # u => chatRoomMember'[s][v] = chatRoomMember[s][v]
<1>1. /\ chatRoomMember' \in [Rooms -> [Users -> ChatRoomMember \cup {Null}]]
      /\ chatRoomMember'[r][u] = row
      /\ \A s \in Rooms, v \in Users :
           s # r \/ v # u => chatRoomMember'[s][v] = chatRoomMember[s][v]
  BY DEF TypeInv, TypeOK
<1>2. \A s \in Rooms, v \in Users : Member(s, v)' <=> Member(s, v)
  BY <1>1, ChatAssumption DEF Member
<1> QED
  BY <1>1, <1>2 DEF MembersHaveRooms, TypeInv

\* One message read: its reader's counter goes down by one.
LEMMA MarkOneRows ==
    ASSUME TypeInv, NEW u \in Users, NEW m \in Messages, MarkOne(u, m)
    PROVE  /\ chatMessage[m].roomId \in Rooms
           /\ Member(chatMessage[m].roomId, u)
           /\ chatRoomMember' \in [Rooms -> [Users -> ChatRoomMember \cup {Null}]]
           /\ MembersHaveRooms'
           /\ \A s \in Rooms, v \in Users : Member(s, v)' <=> Member(s, v)
           /\ chatRoomMember'[chatMessage[m].roomId][u]
                = Count(chatRoomMember[chatMessage[m].roomId][u], -1)
           /\ \A s \in Rooms, v \in Users : s # chatMessage[m].roomId \/ v # u
                => chatRoomMember'[s][v] = chatRoomMember[s][v]
<1>1. PICK r \in Rooms : r = chatMessage[m].roomId
  BY DEF MarkOne, TypeInv, TypeOK, ChatMessage
<1>2. /\ Member(r, u) /\ UNCHANGED chatRoom
      /\ chatRoomMember' = [chatRoomMember EXCEPT ![r][u] = Count(chatRoomMember[r][u], -1)]
  BY <1>1 DEF MarkOne
<1>3. Count(chatRoomMember[r][u], -1) \in ChatRoomMember
  BY <1>2, RowType, CountType DEF TypeInv
<1>4. /\ chatRoomMember' \in [Rooms -> [Users -> ChatRoomMember \cup {Null}]]
      /\ MembersHaveRooms'
      /\ \A s \in Rooms, v \in Users : Member(s, v)' <=> Member(s, v)
      /\ chatRoomMember'[r][u] = Count(chatRoomMember[r][u], -1)
      /\ \A s \in Rooms, v \in Users :
           s # r \/ v # u => chatRoomMember'[s][v] = chatRoomMember[s][v]
  BY <1>2, <1>3, RowChanges, ZenonT(30)
<1> QED
  BY <1>1, <1>2, <1>4

LEMMA MarkOneType ==
    ASSUME TypeInv, NEW u \in Users, NEW m \in Messages, MarkOne(u, m)
    PROVE  TypeInv'
<1>1. /\ chatMessageRead' = chatMessageRead \cup {<<m, u>>}
      /\ UNCHANGED <<chatRoom, chatMessage, chatMessageJob, replies, request>>
  BY DEF MarkOne
<1>2. /\ chatRoomMember' \in [Rooms -> [Users -> ChatRoomMember \cup {Null}]]
      /\ MembersHaveRooms'
      /\ \A s \in Rooms, v \in Users : Member(s, v)' <=> Member(s, v)
  BY MarkOneRows
<1>3. TypeOK'
  BY <1>1, <1>2 DEF TypeInv, TypeOK
<1>4. CallsNameRows'
  BY <1>1, <1>2, SameCalls
<1> QED
  BY <1>2, <1>3, <1>4 DEF TypeInv

LEMMA MarkAllBeginType ==
    ASSUME TypeInv, NEW p \in Requests, NEW u \in Users, NEW r \in Rooms,
           MarkAllBegin(p, u, r)
    PROVE  TypeInv'
<1> DEFINE take == Take(chatRoomMember[r][u].unreadCount)
           call == [op |-> "read", userId |-> u, roomId |-> r, take |-> take]
<1>1. Member(r, u)
  BY DEF MarkAllBegin
<1>2. take \in Nat \ {0}
  BY <1>1, RowType DEF Take, ChatRoomMember, TypeInv
<1>3. /\ request' = [request EXCEPT ![p] = call]
      /\ UNCHANGED <<chatRoom, chatRoomMember, chatMessage, chatMessageRead,
                     chatMessageJob, replies>>
  BY DEF MarkAllBegin, Start
<1> HIDE DEF take
<1>4. call \in Call /\ call.op = "read" /\ call.roomId = r /\ call.userId = u
  BY <1>2 DEF Call
<1> HIDE DEF call
<1> QED
  BY <1>1, <1>3, <1>4, StartType

\* The call goes on with some of the unread messages, or ends.
LEMMA FindUnreadCall ==
    ASSUME TypeInv, NEW p \in Requests, FindUnread(p)
    PROVE  \E S \in SUBSET Unread(request[p].roomId, request[p].userId),
              call \in Call \cup {Null} :
                /\ request' = [request EXCEPT ![p] = call]
                /\ call # Null => /\ call.op = "commit"
                                  /\ call.userId = request[p].userId
                                  /\ call.roomId = request[p].roomId
                                  /\ call.messageIds = S
<1>1. request[p] \in ReadCall
  BY CallType DEF FindUnread, TypeInv
<1>2. PICK S \in SUBSET Unread(request[p].roomId, request[p].userId) :
         request' = [request EXCEPT ![p] =
           IF S = {} THEN Null
           ELSE [op |-> "commit", userId |-> request[p].userId,
                 roomId |-> request[p].roomId, messageIds |-> S]]
  BY DEF FindUnread
<1> DEFINE call == IF S = {} THEN Null
                   ELSE [op |-> "commit", userId |-> request[p].userId,
                         roomId |-> request[p].roomId, messageIds |-> S]
<1>3. S \in SUBSET Messages
  BY UnreadFinite
<1>4. call \in Call \cup {Null}
  BY <1>1, <1>3 DEF ReadCall, Call
<1>5. call # Null => /\ call.op = "commit"
                     /\ call.userId = request[p].userId
                     /\ call.roomId = request[p].roomId
                     /\ call.messageIds = S
  OBVIOUS
<1>6. request' = [request EXCEPT ![p] = call]
  BY <1>2
<1> HIDE DEF call
<1> QED
  BY <1>4, <1>5, <1>6

LEMMA FindUnreadType ==
    ASSUME TypeInv, NEW p \in Requests, FindUnread(p)
    PROVE  TypeInv'
<1>1. Member(request[p].roomId, request[p].userId)
  BY DEF FindUnread, TypeInv, CallsNameRows
<1>2. UNCHANGED <<chatRoom, chatRoomMember, chatMessage, chatMessageRead,
                  chatMessageJob, replies>>
  BY DEF FindUnread
<1>3. PICK call \in Call \cup {Null} :
         /\ request' = [request EXCEPT ![p] = call]
         /\ call # Null => /\ call.op = "commit"
                           /\ call.userId = request[p].userId
                           /\ call.roomId = request[p].roomId
  BY FindUnreadCall
<1> QED
  BY <1>1, <1>2, <1>3, StartType

\* All found messages read: the counter goes down by their number.
LEMMA MarkAllRows ==
    ASSUME TypeInv, NEW p \in Requests, MarkAll(p)
    PROVE  \E r \in Rooms, u \in Users, S \in SUBSET Messages :
             /\ request[p].op = "commit" /\ request[p].roomId = r
             /\ request[p].userId = u /\ request[p].messageIds = S
             /\ Member(r, u)
             /\ IsFiniteSet(S) /\ Cardinality(S) \in Nat
             /\ chatMessageRead' = chatMessageRead \cup (S \X {u})
             /\ chatRoomMember' \in [Rooms -> [Users -> ChatRoomMember \cup {Null}]]
             /\ MembersHaveRooms'
             /\ \A s \in Rooms, v \in Users : Member(s, v)' <=> Member(s, v)
             /\ chatRoomMember'[r][u] = Count(chatRoomMember[r][u], -Cardinality(S))
             /\ \A s \in Rooms, v \in Users :
                  s # r \/ v # u => chatRoomMember'[s][v] = chatRoomMember[s][v]
<1>1. request[p] \in CommitCall
  BY CallType DEF MarkAll, TypeInv
<1>2. PICK r \in Rooms, u \in Users, S \in SUBSET Messages :
         request[p].roomId = r /\ request[p].userId = u /\ request[p].messageIds = S
  BY <1>1 DEF CommitCall
<1>3. IsFiniteSet(S) /\ Cardinality(S) \in Nat
  BY ChatAssumption, FS_Subset, FS_CardinalityType
<1>4. /\ Member(r, u) /\ UNCHANGED chatRoom
      /\ request[p].op = "commit"
      /\ chatMessageRead' = chatMessageRead \cup (S \X {u})
      /\ chatRoomMember' = [chatRoomMember EXCEPT ![r][u] =
           Count(chatRoomMember[r][u], -Cardinality(S))]
  BY <1>2 DEF MarkAll, AfterReading, TypeInv, CallsNameRows
<1>5. Count(chatRoomMember[r][u], -Cardinality(S)) \in ChatRoomMember
  BY <1>3, <1>4, RowType, CountType DEF TypeInv
<1>6. /\ chatRoomMember' \in [Rooms -> [Users -> ChatRoomMember \cup {Null}]]
      /\ MembersHaveRooms'
      /\ \A s \in Rooms, v \in Users : Member(s, v)' <=> Member(s, v)
      /\ chatRoomMember'[r][u] = Count(chatRoomMember[r][u], -Cardinality(S))
      /\ \A s \in Rooms, v \in Users :
           s # r \/ v # u => chatRoomMember'[s][v] = chatRoomMember[s][v]
  <2> DEFINE row == Count(chatRoomMember[r][u], -Cardinality(S))
  <2>1. row \in ChatRoomMember /\ chatRoomMember' = [chatRoomMember EXCEPT ![r][u] = row]
    BY <1>4, <1>5
  <2>2. Member(r, u) /\ UNCHANGED chatRoom
    BY <1>4
  <2> HIDE DEF row
  <2>3. /\ chatRoomMember' \in [Rooms -> [Users -> ChatRoomMember \cup {Null}]]
        /\ MembersHaveRooms'
        /\ \A s \in Rooms, v \in Users : Member(s, v)' <=> Member(s, v)
        /\ chatRoomMember'[r][u] = row
        /\ \A s \in Rooms, v \in Users :
             s # r \/ v # u => chatRoomMember'[s][v] = chatRoomMember[s][v]
    BY <2>1, <2>2, RowChanges, ZenonT(30)
  <2> QED
    BY <2>3 DEF row
<1> QED
  BY <1>2, <1>3, <1>4, <1>6

LEMMA MarkAllType ==
    ASSUME TypeInv, NEW p \in Requests, MarkAll(p)
    PROVE  TypeInv'
<1>1. PICK u \in Users, S \in SUBSET Messages :
         chatMessageRead' = chatMessageRead \cup (S \X {u})
  BY MarkAllRows
<1>2. /\ chatRoomMember' \in [Rooms -> [Users -> ChatRoomMember \cup {Null}]]
      /\ MembersHaveRooms'
      /\ \A s \in Rooms, v \in Users : Member(s, v) => Member(s, v)'
  BY MarkAllRows
<1>3. /\ UNCHANGED <<chatRoom, chatMessage, chatMessageJob, replies>>
      /\ Return(p)
  BY DEF MarkAll
<1>4. CallsNameRows' /\ request' \in [Requests -> Call \cup {Null}]
  BY <1>2, <1>3, ReturnKeepsCalls
<1>5. chatMessageRead' \subseteq Messages \X Users
  BY <1>1 DEF TypeInv, TypeOK
<1> QED
  BY <1>2, <1>3, <1>4, <1>5 DEF TypeInv, TypeOK

LEMMA AbortType ==
    ASSUME TypeInv, NEW p \in Requests, Abort(p)
    PROVE  TypeInv'
<1>1. /\ request' = [request EXCEPT ![p] = Null]
      /\ UNCHANGED <<chatRoom, chatRoomMember, chatMessage, chatMessageRead,
                     chatMessageJob, replies>>
  BY DEF Abort, Return
<1>2. Null \in Call \cup {Null}
  OBVIOUS
<1> QED
  BY <1>1, <1>2, StartType

LEMMA NextType == TypeInv /\ [Next]_vars => TypeInv'
<1> SUFFICES ASSUME TypeInv, [Next]_vars
             PROVE  TypeInv'
  OBVIOUS
<1>1. CASE UNCHANGED vars
  BY <1>1 DEF vars, TypeInv, TypeOK, CallsNameRows, MembersHaveRooms, Member
<1>2. CASE Next
  BY <1>2, DirectFindType, DirectCreateType, DirectConflictType, GroupCreateType,
     AddMembersBeginType, AddMembersType, SendType, NotifyType, MarkOneType,
     MarkAllBeginType, FindUnreadType, MarkAllType, AbortType DEF Next
<1> QED
  BY <1>1, <1>2

\* Every row and every call has its type, for any number of users and calls.
THEOREM TypeCorrect == Spec => []TypeOK
<1>1. Spec => []TypeInv
  BY InitType, NextType, PTL DEF Spec
<1> QED
  BY <1>1, PTL DEF TypeInv

-----------------------------------------------------------------------------
(* Recipients, DIRECT rooms and counters *)

\* Rows stay, and messages and rooms never change.
RowsKept ==
    /\ \A r \in Rooms, u \in Users : Member(r, u) => Member(r, u)'
    /\ \A m \in Messages : chatMessage[m] # Null => chatMessage'[m] = chatMessage[m]
    /\ \A r \in Rooms : chatRoom[r] # Null => chatRoom'[r] = chatRoom[r]

LEMMA NextKeepsRows ==
    ASSUME TypeInv, [Next]_vars
    PROVE  RowsKept
<1>1. CASE UNCHANGED <<chatRoom, chatRoomMember, chatMessage>>
  BY <1>1 DEF RowsKept, Member
<1>2. ASSUME NEW r \in Rooms, NEW hash \in (SUBSET Users) \cup {Null},
             NEW founders \in SUBSET Users,
             CreateRoom(r, hash, founders), UNCHANGED chatMessage
      PROVE  RowsKept
  <2>1. /\ \A s \in Rooms, u \in Users : Member(s, u) => Member(s, u)'
        /\ \A s \in Rooms : s # r => chatRoom'[s] = chatRoom[s]
    BY <1>2, CreateRoomRows
  <2>2. chatRoom[r] = Null
    BY <1>2 DEF CreateRoom
  <2> QED
    BY <1>2, <2>1, <2>2 DEF RowsKept
<1>3. ASSUME NEW p \in Requests, NEW u \in Users, NEW v \in Users, DirectFind(p, u, v)
      PROVE  RowsKept
  BY <1>1, <1>3 DEF DirectFind
<1>4. ASSUME NEW p \in Requests, DirectCreate(p)
      PROVE  RowsKept
  <2>1. request[p].pair \in SUBSET Users
    BY <1>4, CallType DEF DirectCreate, DirectCall, TypeInv
  <2>2. /\ \E r \in Rooms : CreateRoom(r, request[p].pair, request[p].pair)
        /\ UNCHANGED chatMessage
    BY <1>4 DEF DirectCreate
  <2> QED
    BY <1>2, <2>1, <2>2
<1>5. ASSUME NEW p \in Requests, DirectConflict(p)
      PROVE  RowsKept
  BY <1>1, <1>5 DEF DirectConflict
<1>6. ASSUME NEW r \in Rooms, NEW founders \in SUBSET Users, GroupCreate(r, founders)
      PROVE  RowsKept
  <2>1. Null \in (SUBSET Users) \cup {Null}
    BY Zenon
  <2> QED
    BY <1>2, <1>6, <2>1 DEF GroupCreate
<1>7. ASSUME NEW p \in Requests, NEW u \in Users, NEW r \in Rooms,
             NEW userIds \in SUBSET Users, AddMembersBegin(p, u, r, userIds)
      PROVE  RowsKept
  BY <1>1, <1>7 DEF AddMembersBegin
<1>8. ASSUME NEW p \in Requests, AddMembers(p)
      PROVE  RowsKept
  <2>1. UNCHANGED <<chatRoom, chatMessage>>
    BY <1>8 DEF AddMembers
  <2>2. \A s \in Rooms, v \in Users : Member(s, v) => Member(s, v)'
    BY <1>8, AddMembersRows DEF Member
  <2> QED
    BY <2>1, <2>2 DEF RowsKept
<1>9. ASSUME NEW p \in Requests, NEW u \in Users, NEW r \in Rooms, NEW m \in Messages,
             SendMessage(p, u, r, m)
      PROVE  RowsKept
  <2>1. /\ \A n \in Messages : chatMessage[n] # Null => chatMessage'[n] = chatMessage[n]
        /\ UNCHANGED chatRoom
    BY <1>9 DEF SendMessage, TypeInv, TypeOK
  <2>2. \A s \in Rooms, v \in Users : Member(s, v) => Member(s, v)'
    BY <1>9, SendRows
  <2> QED
    BY <2>1, <2>2 DEF RowsKept
<1>10. ASSUME NEW u \in Users, NEW m \in Messages, MarkOne(u, m)
       PROVE  RowsKept
  <2>1. UNCHANGED <<chatRoom, chatMessage>>
    BY <1>10 DEF MarkOne
  <2>2. \A s \in Rooms, v \in Users : Member(s, v) => Member(s, v)'
    BY <1>10, MarkOneRows
  <2> QED
    BY <2>1, <2>2 DEF RowsKept
<1>11. ASSUME NEW p \in Requests, MarkAll(p)
       PROVE  RowsKept
  <2>1. UNCHANGED <<chatRoom, chatMessage>>
    BY <1>11 DEF MarkAll
  <2>2. \A s \in Rooms, v \in Users : Member(s, v) => Member(s, v)'
    BY <1>11, MarkAllRows
  <2> QED
    BY <2>1, <2>2 DEF RowsKept
<1>12. ASSUME NEW p \in Requests, NEW u \in Users, NEW r \in Rooms, MarkAllBegin(p, u, r)
       PROVE  RowsKept
  BY <1>1, <1>12 DEF MarkAllBegin
<1>13. ASSUME NEW p \in Requests,
              NotifyRecipients(p) \/ FindUnread(p) \/ Abort(p)
       PROVE  RowsKept
  BY <1>1, <1>13 DEF NotifyRecipients, FindUnread, Abort
<1>14. CASE UNCHANGED vars
  BY <1>1, <1>14 DEF vars
<1>15. CASE Next
  BY <1>3, <1>4, <1>5, <1>6, <1>7, <1>8, <1>9, <1>10, <1>11, <1>12, <1>13, <1>15 DEF Next
<1> QED
  BY <1>14, <1>15

-----------------------------------------------------------------------------
(* Notifications *)

\* Nobody whose counter a message raised has left the room, and only messages
\* that were stored are queued.
RecipientsInv ==
    \A m \in Messages :
        /\ chatMessage[m] # Null =>
             chatMessage[m].countedFor
               \subseteq Members(chatMessage[m].roomId) \ {chatMessage[m].senderId}
        /\ chatMessageJob[m] # Null => chatMessage[m] # Null

NotifyInv == RecipientsInv /\ CountedAreNotified

LEMMA MembersKept ==
    ASSUME RowsKept, NEW r \in Rooms
    PROVE  Members(r) \subseteq Members(r)'
  BY DEF RowsKept, Members

LEMMA RecipientsKept ==
    ASSUME TypeInv, NotifyInv, RowsKept, NEW m \in Messages, chatMessage[m] # Null,
           chatMessageJob'[m] = chatMessageJob[m]
    PROVE  /\ chatMessage'[m].countedFor
                \subseteq Members(chatMessage[m].roomId)' \ {chatMessage'[m].senderId}
           /\ chatMessage'[m] # Null
           /\ chatMessageJob'[m] # Null => chatMessage'[m].countedFor \subseteq chatMessageJob'[m]
<1>1. chatMessage'[m] = chatMessage[m]
  BY DEF RowsKept
<1>2. chatMessage[m].roomId \in Rooms
  BY DEF TypeInv, TypeOK, ChatMessage
<1>3. PICK r \in Rooms : r = chatMessage[m].roomId
  BY <1>2
<1>4. Members(r) \subseteq Members(r)'
  BY MembersKept
<1>5. chatMessage[m].countedFor \subseteq Members(r) \ {chatMessage[m].senderId}
  BY <1>3 DEF NotifyInv, RecipientsInv
<1> QED
  BY <1>1, <1>3, <1>4, <1>5 DEF NotifyInv, CountedAreNotified

LEMMA NextNotify ==
    ASSUME TypeInv, NotifyInv, [Next]_vars
    PROVE  NotifyInv'
<1>1. RowsKept
  BY NextKeepsRows
<1>2. CASE UNCHANGED <<chatMessage, chatMessageJob>>
  <2> SUFFICES ASSUME NEW m \in Messages
               PROVE  /\ chatMessage'[m] # Null =>
                           chatMessage'[m].countedFor
                             \subseteq Members(chatMessage[m].roomId)' \ {chatMessage'[m].senderId}
                      /\ chatMessageJob'[m] # Null => chatMessage'[m] # Null
                      /\ chatMessageJob'[m] # Null =>
                           chatMessage'[m].countedFor \subseteq chatMessageJob'[m]
    BY DEF NotifyInv, RecipientsInv, CountedAreNotified
  <2>1. CASE chatMessage[m] # Null
    BY <1>1, <1>2, <2>1, RecipientsKept
  <2>2. CASE chatMessage[m] = Null
    BY <1>2, <2>2 DEF NotifyInv, RecipientsInv
  <2> QED
    BY <2>1, <2>2
<1>3. ASSUME NEW p \in Requests, NEW u \in Users, NEW r \in Rooms, NEW m \in Messages,
             SendMessage(p, u, r, m)
      PROVE  NotifyInv'
  <2>1. /\ chatMessage'[m] = [roomId |-> r, senderId |-> u, countedFor |-> Others(r, u)]
        /\ \A n \in Messages : n # m => chatMessage'[n] = chatMessage[n]
        /\ UNCHANGED chatMessageJob
        /\ chatMessageJob[m] = Null
    BY <1>3 DEF SendMessage, TypeInv, TypeOK, NotifyInv, RecipientsInv
  <2>2. Others(r, u) \subseteq Members(r)' \ {u}
    BY <1>1, MembersKept DEF Others
  <2> SUFFICES ASSUME NEW n \in Messages, chatMessage'[n] # Null \/ chatMessageJob'[n] # Null
               PROVE  /\ chatMessage'[n].countedFor
                           \subseteq Members(chatMessage[n].roomId)' \ {chatMessage'[n].senderId}
                      /\ chatMessageJob'[n] # Null => chatMessage'[n] # Null
                      /\ chatMessageJob'[n] # Null =>
                           chatMessage'[n].countedFor \subseteq chatMessageJob'[n]
    BY DEF NotifyInv, RecipientsInv, CountedAreNotified
  <2>3. CASE n = m
    BY <2>1, <2>2, <2>3
  <2>4. CASE n # m
    <3>1. chatMessage[n] # Null
      BY <2>1, <2>4 DEF NotifyInv, RecipientsInv
    <3> QED
      BY <1>1, <2>1, <3>1, RecipientsKept
  <2> QED
    BY <2>3, <2>4
<1>4. ASSUME NEW p \in Requests, NotifyRecipients(p)
      PROVE  NotifyInv'
  <2>1. PICK m \in Messages : m = request[p].messageId
    BY <1>4, CallType DEF NotifyRecipients, NotifyCall, TypeInv
  <2>2. /\ chatMessage[m] # Null
        /\ UNCHANGED <<chatMessage, chatRoomMember>>
        /\ chatMessageJob'[m] = Recipients(chatMessage[m].roomId, chatMessage[m].senderId)
        /\ \A n \in Messages : n # m => chatMessageJob'[n] = chatMessageJob[n]
    BY <1>4, <2>1 DEF NotifyRecipients, TypeInv, TypeOK, CallsNameRows
  <2>3. \A n \in Messages : chatMessage[n] # Null =>
          Members(chatMessage[n].roomId)' = Members(chatMessage[n].roomId)
    BY <2>2 DEF Members, Member
  <2>4. chatMessage'[m].countedFor \subseteq chatMessageJob'[m]
    BY <2>2 DEF Recipients, NotifyInv, RecipientsInv
  <2> SUFFICES ASSUME NEW n \in Messages
               PROVE  /\ chatMessage'[n] # Null =>
                           chatMessage'[n].countedFor
                             \subseteq Members(chatMessage[n].roomId)' \ {chatMessage'[n].senderId}
                      /\ chatMessageJob'[n] # Null => chatMessage'[n] # Null
                      /\ chatMessageJob'[n] # Null =>
                           chatMessage'[n].countedFor \subseteq chatMessageJob'[n]
    BY DEF NotifyInv, RecipientsInv, CountedAreNotified
  <2> QED
    BY <2>2, <2>3, <2>4 DEF NotifyInv, RecipientsInv, CountedAreNotified
<1>5. CASE UNCHANGED vars
  BY <1>2, <1>5 DEF vars
<1>6. ASSUME NEW p \in Requests,
             \/ \E u, v \in Users : DirectFind(p, u, v)
             \/ DirectCreate(p) \/ DirectConflict(p)
             \/ \E u \in Users, r \in Rooms :
                  \/ \E userIds \in SUBSET Users : AddMembersBegin(p, u, r, userIds)
                  \/ MarkAllBegin(p, u, r)
             \/ AddMembers(p) \/ FindUnread(p) \/ MarkAll(p) \/ Abort(p)
      PROVE  UNCHANGED <<chatMessage, chatMessageJob>>
  BY <1>6 DEF DirectFind, DirectCreate, DirectConflict, AddMembersBegin, MarkAllBegin,
    AddMembers, FindUnread, MarkAll, Abort
<1>7. ASSUME \/ \E r \in Rooms, founders \in SUBSET Users : GroupCreate(r, founders)
             \/ \E u \in Users, m \in Messages : MarkOne(u, m)
      PROVE  UNCHANGED <<chatMessage, chatMessageJob>>
  BY <1>7 DEF GroupCreate, MarkOne
<1>8. CASE Next
  BY <1>2, <1>3, <1>4, <1>6, <1>7, <1>8 DEF Next
<1> QED
  BY <1>5, <1>8

\* Everyone whose counter a message raised is told, however late the members
\* are read again: nobody leaves a room.
THEOREM NotificationsComplete == Spec => []CountedAreNotified
<1>1. Init => NotifyInv
  BY DEF Init, NotifyInv, RecipientsInv, CountedAreNotified
<1>2. TypeInv /\ NotifyInv /\ [Next]_vars => NotifyInv'
  BY NextNotify
<1>3. NotifyInv => CountedAreNotified
  BY DEF NotifyInv
<1> QED
  BY <1>1, <1>2, <1>3, InitType, NextType, PTL DEF Spec

-----------------------------------------------------------------------------
(* DIRECT rooms *)

\* A DIRECT room is the only one of its pair and has both as members; a reply
\* names the room of its pair.
PairInv ==
    /\ \A r, s \in Rooms :
         /\ chatRoom[r] # Null /\ chatRoom[r].directRoomHash # Null
         /\ chatRoom[s] # Null /\ chatRoom[s].directRoomHash = chatRoom[r].directRoomHash
         => r = s
    /\ \A r \in Rooms : chatRoom[r] # Null /\ chatRoom[r].directRoomHash # Null
         => chatRoom[r].directRoomHash \subseteq Members(r)
    /\ \A a \in replies :
         /\ chatRoom[a.room] # Null
         /\ chatRoom[a.room].directRoomHash = a.pair

LEMMA PairsConverge ==
    ASSUME TypeInv, PairInv
    PROVE  DirectRoomsConverge
<1> SUFFICES ASSUME NEW a \in replies
             PROVE  /\ a.pair \subseteq Members(a.room)
                    /\ \A b \in replies : a.pair = b.pair => a.room = b.room
  BY DEF DirectRoomsConverge
<1>1. a.room \in Rooms /\ a.pair \in SUBSET Users /\ a.pair # Null
  BY ChatAssumption DEF TypeInv, TypeOK
<1>2. \A b \in replies : b.room \in Rooms
  BY DEF TypeInv, TypeOK
<1> QED
  BY <1>1, <1>2 DEF PairInv

\* A step that creates no room and replies with rooms of the pair.
LEMMA PairsKept ==
    ASSUME TypeInv, PairInv, RowsKept, UNCHANGED chatRoom,
           \A a \in replies' : a \in replies \/
             \E pair \in SUBSET Users : \E r \in DirectRooms(pair) :
                a = [pair |-> pair, room |-> r]
    PROVE  PairInv'
<1>1. \A r \in Rooms : Members(r) \subseteq Members(r)'
  BY MembersKept
<1>2. \A r \in Rooms : chatRoom[r] # Null /\ chatRoom[r].directRoomHash # Null
        => chatRoom[r].directRoomHash \subseteq Members(r)'
  BY <1>1 DEF PairInv
<1>3. \A a \in replies' : /\ chatRoom[a.room] # Null
                          /\ chatRoom[a.room].directRoomHash = a.pair
  BY DEF PairInv, DirectRooms
<1> QED
  BY <1>2, <1>3 DEF PairInv

\* A step that creates a room, of a pair that has none or of no pair.
LEMMA PairsGrow ==
    ASSUME TypeInv, PairInv, RowsKept, NEW r \in Rooms, NEW hash \in (SUBSET Users) \cup {Null},
           NEW founders \in SUBSET Users, CreateRoom(r, hash, founders),
           hash # Null => hash = founders /\ DirectRooms(hash) = {},
           \A a \in replies' : a \in replies \/ (hash # Null /\ a = [pair |-> hash, room |-> r])
    PROVE  PairInv'
<1>1. /\ chatRoom'[r] = [directRoomHash |-> hash] /\ chatRoom'[r] # Null
      /\ \A s \in Rooms : s # r => chatRoom'[s] = chatRoom[s]
      /\ \A u \in Users : chatRoomMember'[r][u] =
                            IF u \in founders THEN NewMember(Null) ELSE Null
  BY CreateRoomRows
<1>2. chatRoom[r] = Null
  BY DEF CreateRoom
<1>3. founders \subseteq Members(r)'
  <2>1. NewMember(Null) # Null
    BY NewMemberType, ChatAssumption
  <2> QED
    BY <1>1, <2>1 DEF Members, Member
<1>4. \A s \in Rooms : Members(s) \subseteq Members(s)'
  BY MembersKept
<1>5. hash # Null => \A s \in Rooms : chatRoom[s] # Null => chatRoom[s].directRoomHash # hash
  BY DEF DirectRooms
<1>6. \A s, t \in Rooms :
         /\ chatRoom'[s] # Null /\ chatRoom'[s].directRoomHash # Null
         /\ chatRoom'[t] # Null /\ chatRoom'[t].directRoomHash = chatRoom'[s].directRoomHash
         => s = t
  <2> SUFFICES ASSUME NEW s \in Rooms, NEW t \in Rooms, s # t,
                      chatRoom'[s] # Null, chatRoom'[s].directRoomHash # Null, chatRoom'[t] # Null
               PROVE  chatRoom'[t].directRoomHash # chatRoom'[s].directRoomHash
    OBVIOUS
  <2>1. CASE s = r
    BY <1>1, <1>5, <2>1
  <2>2. CASE t = r
    BY <1>1, <1>5, <2>2
  <2>3. CASE s # r /\ t # r
    BY <1>1, <2>3 DEF PairInv
  <2> QED
    BY <2>1, <2>2, <2>3
<1>7. ASSUME NEW s \in Rooms, chatRoom'[s] # Null, chatRoom'[s].directRoomHash # Null
      PROVE  chatRoom'[s].directRoomHash \subseteq Members(s)'
  <2>1. CASE s = r
    BY <1>1, <1>3, <1>7, <2>1
  <2>2. CASE s # r
    BY <1>1, <1>4, <1>7, <2>2 DEF PairInv
  <2> QED
    BY <2>1, <2>2
<1>8. \A a \in replies' : /\ chatRoom'[a.room] # Null
                          /\ chatRoom'[a.room].directRoomHash = a.pair
  <2> SUFFICES ASSUME NEW a \in replies'
               PROVE  /\ chatRoom'[a.room] # Null
                      /\ chatRoom'[a.room].directRoomHash = a.pair
    OBVIOUS
  <2>1. CASE a \in replies
    <3>1. chatRoom[a.room] # Null /\ a.room \in Rooms
      BY <2>1 DEF PairInv, TypeInv, TypeOK
    <3> QED
      BY <1>1, <1>2, <2>1, <3>1 DEF PairInv
  <2>2. CASE a = [pair |-> hash, room |-> r]
    BY <1>1, <2>2
  <2> QED
    BY <2>1, <2>2
<1> QED
  BY <1>6, <1>7, <1>8 DEF PairInv

LEMMA NextPair ==
    ASSUME TypeInv, PairInv, [Next]_vars
    PROVE  PairInv'
<1>1. RowsKept
  BY NextKeepsRows
<1>2. CASE UNCHANGED <<chatRoom, replies>>
  BY <1>1, <1>2, PairsKept
<1>3. ASSUME NEW p \in Requests, NEW u \in Users, NEW v \in Users, DirectFind(p, u, v)
      PROVE  PairInv'
  <2>1. UNCHANGED chatRoom
    BY <1>3 DEF DirectFind
  <2>2. \A a \in replies' : a \in replies \/
          \E r \in DirectRooms({u, v}) : a = [pair |-> {u, v}, room |-> r]
    BY <1>3 DEF DirectFind, Reply
  <2>3. {u, v} \in SUBSET Users
    OBVIOUS
  <2> QED
    BY <1>1, <2>1, <2>2, <2>3, PairsKept
<1>4. ASSUME NEW p \in Requests, DirectConflict(p)
      PROVE  PairInv'
  <2>1. request[p].pair \in SUBSET Users
    BY <1>4, CallType DEF DirectConflict, DirectCall, TypeInv
  <2>2. \A a \in replies' : a \in replies \/
          \E r \in DirectRooms(request[p].pair) : a = [pair |-> request[p].pair, room |-> r]
    BY <1>4 DEF DirectConflict, Reply
  <2>3. UNCHANGED chatRoom
    BY <1>4 DEF DirectConflict
  <2> QED
    BY <1>1, <2>1, <2>2, <2>3, PairsKept
<1>5. ASSUME NEW p \in Requests, DirectCreate(p)
      PROVE  PairInv'
  <2>1. PICK pair \in SUBSET Users : pair = request[p].pair
    BY <1>5, CallType DEF DirectCreate, DirectCall, TypeInv
  <2>2. PICK r \in Rooms : /\ CreateRoom(r, pair, pair)
                           /\ Reply(pair, r) \/ UNCHANGED replies
    BY <1>5, <2>1 DEF DirectCreate
  <2>3. DirectRooms(pair) = {} /\ pair # Null
    BY <1>5, <2>1, ChatAssumption DEF DirectCreate, HashFree
  <2>4. \A a \in replies' : a \in replies \/ a = [pair |-> pair, room |-> r]
    BY <2>2 DEF Reply
  <2> QED
    BY <1>1, <2>2, <2>3, <2>4, PairsGrow
<1>6. ASSUME NEW r \in Rooms, NEW founders \in SUBSET Users, GroupCreate(r, founders)
      PROVE  PairInv'
  <2>1. Null \in (SUBSET Users) \cup {Null}
    BY Zenon
  <2>2. CreateRoom(r, Null, founders) /\ UNCHANGED replies
    BY <1>6 DEF GroupCreate
  <2> QED
    BY <1>1, <2>1, <2>2, PairsGrow
<1>7. CASE UNCHANGED vars
  BY <1>2, <1>7 DEF vars
<1>8. ASSUME NEW p \in Requests, NEW u \in Users, NEW r \in Rooms, NEW m \in Messages,
             SendMessage(p, u, r, m)
      PROVE  PairInv'
  BY <1>2, <1>8 DEF SendMessage
<1>9. ASSUME NEW p \in Requests, NEW u \in Users, NEW r \in Rooms,
             \/ \E userIds \in SUBSET Users : AddMembersBegin(p, u, r, userIds)
             \/ MarkAllBegin(p, u, r)
      PROVE  PairInv'
  BY <1>2, <1>9 DEF AddMembersBegin, MarkAllBegin
<1>10. ASSUME NEW p \in Requests, AddMembers(p) \/ NotifyRecipients(p) \/ FindUnread(p)
                                     \/ MarkAll(p) \/ Abort(p)
       PROVE  PairInv'
  BY <1>2, <1>10 DEF AddMembers, NotifyRecipients, FindUnread, MarkAll, Abort
<1>11. ASSUME NEW u \in Users, NEW m \in Messages, MarkOne(u, m)
       PROVE  PairInv'
  BY <1>2, <1>11 DEF MarkOne
<1>12. CASE Next
  BY <1>3, <1>4, <1>5, <1>6, <1>8, <1>9, <1>10, <1>11, <1>12 DEF Next
<1> QED
  BY <1>7, <1>12

\* Two users who open a DIRECT room with each other at the same time, from
\* either side, end up in one room.
THEOREM OneRoomPerPair == Spec => []DirectRoomsConverge
<1>1. Init => PairInv
  BY DEF Init, PairInv
<1>2. TypeInv /\ PairInv /\ [Next]_vars => PairInv'
  BY NextPair
<1>3. TypeInv /\ PairInv => DirectRoomsConverge
  BY PairsConverge
<1> QED
  BY <1>1, <1>2, <1>3, InitType, NextType, PTL DEF Spec

-----------------------------------------------------------------------------
(* Unread counters *)

UnreadCount(r, u) == chatRoomMember[r][u].unreadCount

Reading(p) == request[p] # Null /\ request[p].op \in {"read", "commit"}

\* What a tidy client is about to mark has not been read since, and it marks a
\* room once at a time; messages are in rooms.
TidyCalls ==
    /\ \A p \in Requests :
         Reading(p) /\ request[p].op = "commit" /\ request[p].userId \in Tidy
           => request[p].messageIds \subseteq Unread(request[p].roomId, request[p].userId)
    /\ \A p, q \in Requests :
         /\ Reading(p) /\ Reading(q) /\ request[p].userId \in Tidy
         /\ request[p].userId = request[q].userId /\ request[p].roomId = request[q].roomId
         => p = q
    /\ \A m \in Messages : chatMessage[m] # Null => chatRoom[chatMessage[m].roomId] # Null

\* A new row starts at zero, with its room or on behalf of the member who adds it.
NewRow(r, u) ==
    /\ ~Member(r, u)
    /\ UnreadCount(r, u)' = 0
    /\ chatRoomMember'[r][u].addedById = Null => chatRoom[r] = Null
    /\ Unread(r, u)' = Unread(r, u)

\* An old row's counter goes up with its unread messages, and down at least as
\* much; exactly as much for a tidy client.
OldRow(r, u) ==
    /\ Member(r, u)
    /\ chatRoomMember'[r][u].addedById = chatRoomMember[r][u].addedById
    /\ UnreadCount(r, u)' - UnreadCount(r, u)
         <= Cardinality(Unread(r, u))' - Cardinality(Unread(r, u))
    /\ u \in Tidy /\ TidyCalls
         => UnreadCount(r, u)' - UnreadCount(r, u)
              = Cardinality(Unread(r, u))' - Cardinality(Unread(r, u))

RowsStep ==
    \A r \in Rooms, u \in Users : Member(r, u)' => NewRow(r, u) \/ OldRow(r, u)

\* Only stored messages have receipts.
ReadsNameMessages ==
    \A m \in Messages, u \in Users : <<m, u>> \in chatMessageRead => chatMessage[m] # Null

LEMMA CounterType ==
    ASSUME TypeInv, NEW r \in Rooms, NEW u \in Users, Member(r, u)
    PROVE  UnreadCount(r, u) \in Int
  BY RowType DEF UnreadCount, ChatRoomMember, TypeInv

LEMMA UnreadSame ==
    ASSUME UNCHANGED <<chatMessage, chatMessageRead>>
    PROVE  \A r, u : Unread(r, u)' = Unread(r, u)
  BY DEF Unread

\* Neither the row nor the messages and receipts change.
LEMMA SameRow ==
    ASSUME TypeInv, UNCHANGED <<chatMessage, chatMessageRead>>,
           NEW r \in Rooms, NEW u \in Users, Member(r, u),
           chatRoomMember'[r][u] = chatRoomMember[r][u]
    PROVE  OldRow(r, u)
<1>1. Unread(r, u)' = Unread(r, u)
  BY UnreadSame
<1>2. UnreadCount(r, u) \in Int /\ UnreadCount(r, u)' = UnreadCount(r, u)
  BY CounterType DEF UnreadCount
<1>3. Cardinality(Unread(r, u)) \in Nat /\ Cardinality(Unread(r, u))' = Cardinality(Unread(r, u))
  BY <1>1, UnreadFinite
<1> QED
  BY <1>2, <1>3 DEF OldRow

LEMMA RowsSame ==
    ASSUME TypeInv, UNCHANGED <<chatRoomMember, chatMessage, chatMessageRead>>
    PROVE  RowsStep
  BY SameRow DEF RowsStep, Member

LEMMA RowsCreate ==
    ASSUME TypeInv, UNCHANGED <<chatMessage, chatMessageRead>>,
           NEW r \in Rooms, NEW hash \in (SUBSET Users) \cup {Null},
           NEW founders \in SUBSET Users, CreateRoom(r, hash, founders)
    PROVE  RowsStep
<1> SUFFICES ASSUME NEW s \in Rooms, NEW v \in Users, Member(s, v)'
             PROVE  NewRow(s, v) \/ OldRow(s, v)
  BY DEF RowsStep
<1>1. CASE s = r
  <2>1. chatRoomMember'[r][v] = NewMember(Null) /\ ~Member(r, v) /\ chatRoom[r] = Null
    BY <1>1, CreateRoomRows DEF Member, CreateRoom
  <2>2. NewMember(Null).unreadCount = 0
    BY NewMemberType
  <2> QED
    BY <1>1, <2>1, <2>2, UnreadSame DEF NewRow, UnreadCount
<1>2. CASE s # r
  <2>1. chatRoomMember'[s][v] = chatRoomMember[s][v]
    BY <1>2, CreateRoomRows
  <2> QED
    BY <2>1, SameRow DEF Member
<1> QED
  BY <1>1, <1>2

LEMMA RowsAdd ==
    ASSUME TypeInv, NEW p \in Requests, AddMembers(p)
    PROVE  RowsStep
<1> SUFFICES ASSUME NEW s \in Rooms, NEW v \in Users, Member(s, v)'
             PROVE  NewRow(s, v) \/ OldRow(s, v)
  BY DEF RowsStep
<1>1. UNCHANGED <<chatMessage, chatMessageRead>>
  BY DEF AddMembers
<1>2. CASE Member(s, v)
  BY <1>1, <1>2, AddMembersRows, SameRow
<1>3. CASE ~Member(s, v)
  <2>1. PICK by \in Users : chatRoomMember'[s][v] = NewMember(by)
    BY <1>3, AddMembersRows
  <2>2. NewMember(by).unreadCount = 0 /\ NewMember(by).addedById # Null
    BY NewMemberType, ChatAssumption
  <2> QED
    BY <1>1, <1>3, <2>1, <2>2, UnreadSame DEF NewRow, UnreadCount
<1> QED
  BY <1>2, <1>3

\* A message is unread by everybody else in its room.
LEMMA UnreadSend ==
    ASSUME TypeInv, ReadsNameMessages, NEW p \in Requests, NEW u \in Users, NEW r \in Rooms,
           NEW m \in Messages, SendMessage(p, u, r, m), NEW s \in Rooms, NEW v \in Users
    PROVE  /\ s = r /\ v # u => /\ Unread(s, v)' = Unread(s, v) \cup {m}
                                /\ m \notin Unread(s, v)
           /\ ~(s = r /\ v # u) => Unread(s, v)' = Unread(s, v)
<1>1. /\ chatMessage'[m].roomId = r /\ chatMessage'[m].senderId = u
      /\ chatMessage'[m] = [roomId |-> r, senderId |-> u, countedFor |-> Others(r, u)]
      /\ chatMessage'[m] \in ChatMessage
      /\ \A n \in Messages : n # m => chatMessage'[n] = chatMessage[n]
      /\ chatMessage[m] = Null /\ chatMessageRead' = chatMessageRead
  BY DEF SendMessage, TypeInv, TypeOK, ChatMessage, Others, Members
<1>2. chatMessage'[m] # Null /\ <<m, v>> \notin chatMessageRead
  BY <1>1, ChatAssumption DEF ReadsNameMessages
<1> QED
  BY <1>1, <1>2 DEF Unread

LEMMA RowsSend ==
    ASSUME TypeInv, ReadsNameMessages, NEW p \in Requests, NEW u \in Users, NEW r \in Rooms,
           NEW m \in Messages, SendMessage(p, u, r, m)
    PROVE  RowsStep
<1> SUFFICES ASSUME NEW s \in Rooms, NEW v \in Users, Member(s, v)'
             PROVE  OldRow(s, v)
  BY DEF RowsStep
<1>1. Member(s, v)
  BY SendRows
<1>2. UnreadCount(s, v) \in Int /\ Cardinality(Unread(s, v)) \in Nat
  BY <1>1, CounterType, UnreadFinite
<1>3. CASE s = r /\ v # u
  <2>1. Unread(s, v)' = Unread(s, v) \cup {m} /\ m \notin Unread(s, v)
    BY <1>3, UnreadSend
  <2>2. Cardinality(Unread(s, v))' = Cardinality(Unread(s, v)) + 1
    BY <2>1, UnreadFinite, FS_AddElement
  <2>3. chatRoomMember'[s][v] = Count(chatRoomMember[s][v], 1)
    BY <1>1, <1>3, SendRows
  <2>4. /\ UnreadCount(s, v)' = UnreadCount(s, v) + 1
        /\ chatRoomMember'[s][v].addedById = chatRoomMember[s][v].addedById
    BY <1>1, <2>3, RowType, CountType DEF UnreadCount, TypeInv
  <2> QED
    BY <1>1, <1>2, <2>2, <2>4 DEF OldRow
<1>4. CASE ~(s = r /\ v # u)
  <2>1. Unread(s, v)' = Unread(s, v)
    BY <1>4, UnreadSend
  <2>2. chatRoomMember'[s][v] = chatRoomMember[s][v]
    BY <1>4, SendRows
  <2>3. Cardinality(Unread(s, v))' = Cardinality(Unread(s, v))
    BY <2>1
  <2> QED
    BY <1>1, <1>2, <2>2, <2>3 DEF OldRow, UnreadCount
<1> QED
  BY <1>3, <1>4

\* What its reader has marked is no longer unread, for the reader alone.
LEMMA UnreadMark ==
    ASSUME UNCHANGED chatMessage, NEW S \in SUBSET Messages, NEW u \in Users,
           chatMessageRead' = chatMessageRead \cup (S \X {u}),
           NEW r \in Rooms, NEW v \in Users
    PROVE  Unread(r, v)' = IF v = u THEN Unread(r, v) \ S ELSE Unread(r, v)
<1>1. \A m \in Messages : <<m, v>> \in chatMessageRead' <=>
        <<m, v>> \in chatMessageRead \/ (v = u /\ m \in S)
  OBVIOUS
<1> QED
  BY <1>1 DEF Unread

LEMMA RowsMark ==
    ASSUME TypeInv, UNCHANGED chatMessage, NEW S \in SUBSET Messages, NEW u \in Users,
           NEW r \in Rooms, Member(r, u),
           chatMessageRead' = chatMessageRead \cup (S \X {u}),
           \A m \in S : chatMessage[m] # Null /\ chatMessage[m].roomId = r,
           u \in Tidy /\ TidyCalls => S \subseteq Unread(r, u),
           \A s \in Rooms, v \in Users : Member(s, v)' <=> Member(s, v),
           chatRoomMember'[r][u] = Count(chatRoomMember[r][u], -Cardinality(S)),
           \A s \in Rooms, v \in Users :
             s # r \/ v # u => chatRoomMember'[s][v] = chatRoomMember[s][v]
    PROVE  RowsStep
<1>0. \A s \in Rooms, v \in Users :
        Unread(s, v)' = IF v = u THEN Unread(s, v) \ S ELSE Unread(s, v)
  BY UnreadMark
<1> SUFFICES ASSUME NEW s \in Rooms, NEW v \in Users, Member(s, v)
             PROVE  OldRow(s, v)
  BY DEF RowsStep
<1>1. /\ UnreadCount(s, v) \in Int /\ Cardinality(Unread(s, v)) \in Nat
      /\ IsFiniteSet(Unread(s, v))
      /\ IsFiniteSet(S) /\ Cardinality(S) \in Nat
  BY CounterType, UnreadFinite, ChatAssumption, FS_Subset, FS_CardinalityType
<1>2. CASE s = r /\ v = u
  <2> DEFINE shared == Unread(s, v) \cap S
  <2>1. /\ UnreadCount(s, v)' = UnreadCount(s, v) - Cardinality(S)
        /\ chatRoomMember'[s][v].addedById = chatRoomMember[s][v].addedById
    <3>1. PICK n \in Int : n = -Cardinality(S)
      BY <1>1
    <3>2. chatRoomMember[s][v] \in ChatRoomMember
      BY RowType DEF TypeInv
    <3>3. chatRoomMember'[s][v] = Count(chatRoomMember[s][v], n)
      BY <1>2, <3>1
    <3>4. UnreadCount(s, v)' = UnreadCount(s, v) + n
      BY <3>2, <3>3, CountType DEF UnreadCount
    <3>5. chatRoomMember'[s][v].addedById = chatRoomMember[s][v].addedById
      BY <3>2, <3>3, CountType
    <3> QED
      BY <1>1, <3>1, <3>4, <3>5
  <2>2. Cardinality(Unread(s, v))' = Cardinality(Unread(s, v)) - Cardinality(shared)
    <3>1. Unread(s, v)' = Unread(s, v) \ S
      BY <1>0, <1>2
    <3> QED
      BY <1>1, <3>1, FS_Difference
  <2>3. Cardinality(shared) \in Nat /\ Cardinality(shared) <= Cardinality(S)
    BY <1>1, FS_Intersection, FS_CardinalityType
  <2>4. u \in Tidy /\ TidyCalls => Cardinality(shared) = Cardinality(S)
    <3>1. S \subseteq Unread(r, u) => shared = S
      BY <1>2
    <3> QED
      BY <3>1
  <2> HIDE DEF shared
  <2> QED
    BY <1>1, <1>2, <2>1, <2>2, <2>3, <2>4 DEF OldRow
<1>3. CASE s # r \/ v # u
  <2>1. Unread(s, v)' = Unread(s, v)
    <3>1. CASE v = u
      <4>1. \A m \in S : m \notin Unread(s, v)
        BY <1>3, <3>1 DEF Unread
      <4>2. Unread(s, v)' = Unread(s, v) \ S
        BY <1>0, <3>1
      <4> QED
        BY <4>1, <4>2
    <3>2. CASE v # u
      BY <1>0, <3>2
    <3> QED
      BY <3>1, <3>2
  <2>2. Cardinality(Unread(s, v))' = Cardinality(Unread(s, v))
    BY <2>1
  <2>3. chatRoomMember'[s][v] = chatRoomMember[s][v]
    BY <1>3
  <2> QED
    BY <1>1, <2>2, <2>3 DEF OldRow, UnreadCount
<1> QED
  BY <1>2, <1>3

LEMMA CommitReads ==
    ASSUME TypeInv, NEW p \in Requests, MarkAll(p)
    PROVE  Reading(p) /\ request[p].op = "commit"
  BY DEF MarkAll, Reading

LEMMA UnreadNames ==
    ASSUME NEW r, NEW u, NEW m \in Unread(r, u)
    PROVE  /\ m \in Messages /\ chatMessage[m] # Null
           /\ chatMessage[m].roomId = r /\ <<m, u>> \notin chatMessageRead
  BY DEF Unread

\* The messages of a call about to mark are stored, in its room.
FoundInRoom ==
    \A p \in Requests : \A m \in Messages :
        Reading(p) /\ request[p].op = "commit" /\ m \in request[p].messageIds
          => chatMessage[m] # Null /\ chatMessage[m].roomId = request[p].roomId

LEMMA RowsMarkOne ==
    ASSUME TypeInv, NEW u \in Users, NEW m \in Messages, MarkOne(u, m)
    PROVE  RowsStep
<1>1. PICK r \in Rooms : /\ r = chatMessage[m].roomId /\ Member(r, u)
                         /\ \A s \in Rooms, v \in Users : Member(s, v)' <=> Member(s, v)
                         /\ chatRoomMember'[r][u] = Count(chatRoomMember[r][u], -1)
                         /\ \A s \in Rooms, v \in Users : s # r \/ v # u
                              => chatRoomMember'[s][v] = chatRoomMember[s][v]
  BY MarkOneRows
<1>2. /\ chatMessageRead' = chatMessageRead \cup ({m} \X {u})
      /\ UNCHANGED chatMessage /\ u \notin Tidy /\ chatMessage[m] # Null
  BY DEF MarkOne
<1>3. Cardinality({m}) = 1
  BY FS_Singleton
<1>4. chatRoomMember'[r][u] = Count(chatRoomMember[r][u], -Cardinality({m}))
  BY <1>1, <1>3
<1>5. {m} \in SUBSET Messages
  OBVIOUS
<1>6. /\ \A n \in {m} : chatMessage[n] # Null /\ chatMessage[n].roomId = r
      /\ u \in Tidy /\ TidyCalls => {m} \subseteq Unread(r, u)
  BY <1>1, <1>2
<1> QED
  BY <1>1, <1>2, <1>4, <1>5, <1>6, RowsMark

LEMMA RowsMarkAll ==
    ASSUME TypeInv, FoundInRoom, NEW p \in Requests, MarkAll(p)
    PROVE  RowsStep
<1>1. PICK r \in Rooms, u \in Users, S \in SUBSET Messages :
         /\ request[p].op = "commit" /\ request[p].roomId = r
         /\ request[p].userId = u /\ request[p].messageIds = S
         /\ Member(r, u)
         /\ chatMessageRead' = chatMessageRead \cup (S \X {u})
         /\ \A s \in Rooms, v \in Users : Member(s, v)' <=> Member(s, v)
         /\ chatRoomMember'[r][u] = Count(chatRoomMember[r][u], -Cardinality(S))
         /\ \A s \in Rooms, v \in Users : s # r \/ v # u
              => chatRoomMember'[s][v] = chatRoomMember[s][v]
  BY MarkAllRows
<1>2. UNCHANGED chatMessage
  BY DEF MarkAll
<1>3. u \in Tidy /\ TidyCalls => S \subseteq Unread(r, u)
  BY <1>1, CommitReads DEF TidyCalls
<1>4. \A m \in S : chatMessage[m] # Null /\ chatMessage[m].roomId = r
  BY <1>1, CommitReads DEF FoundInRoom
<1> QED
  BY <1>1, <1>2, <1>3, <1>4, RowsMark

LEMMA NextRows ==
    ASSUME TypeInv, ReadsNameMessages, FoundInRoom, [Next]_vars
    PROVE  RowsStep
<1>1. CASE UNCHANGED <<chatRoomMember, chatMessage, chatMessageRead>>
  BY <1>1, RowsSame
<1>2. ASSUME NEW p \in Requests, DirectCreate(p)
      PROVE  RowsStep
  <2>1. request[p].pair \in SUBSET Users
    BY <1>2, CallType DEF DirectCreate, DirectCall, TypeInv
  <2>2. /\ \E r \in Rooms : CreateRoom(r, request[p].pair, request[p].pair)
        /\ UNCHANGED <<chatMessage, chatMessageRead>>
    BY <1>2 DEF DirectCreate
  <2> QED
    BY <2>1, <2>2, RowsCreate
<1>3. ASSUME NEW r \in Rooms, NEW founders \in SUBSET Users, GroupCreate(r, founders)
      PROVE  RowsStep
  <2>1. Null \in (SUBSET Users) \cup {Null}
    BY Zenon
  <2> QED
    BY <1>3, <2>1, RowsCreate DEF GroupCreate
<1>4. ASSUME NEW p \in Requests, NEW u \in Users, NEW v \in Users, DirectFind(p, u, v)
      PROVE  RowsStep
  BY <1>1, <1>4 DEF DirectFind
<1>5. ASSUME NEW p \in Requests, NEW u \in Users, NEW r \in Rooms,
             \/ \E userIds \in SUBSET Users : AddMembersBegin(p, u, r, userIds)
             \/ MarkAllBegin(p, u, r)
      PROVE  RowsStep
  BY <1>1, <1>5 DEF AddMembersBegin, MarkAllBegin
<1>6. ASSUME NEW p \in Requests, DirectConflict(p) \/ NotifyRecipients(p) \/ FindUnread(p)
                                   \/ Abort(p)
      PROVE  RowsStep
  BY <1>1, <1>6 DEF DirectConflict, NotifyRecipients, FindUnread, Abort
<1>7. CASE UNCHANGED vars
  BY <1>1, <1>7 DEF vars
<1>8. CASE Next
  BY <1>2, <1>3, <1>4, <1>5, <1>6, <1>8, RowsAdd, RowsSend, RowsMarkOne, RowsMarkAll DEF Next
<1> QED
  BY <1>7, <1>8

\* How a step may change the calls of markRead: it drops one, starts a read,
\* or turns the read that found S into the call that will mark S.
CallsStep ==
    \A p \in Requests : Reading(p)' =>
        \/ request'[p] = request[p] /\ Reading(p)
        \/ /\ request'[p].op = "read"
           /\ request'[p].userId \in Tidy => ~ReadingNow(request'[p].userId, request'[p].roomId)
           /\ \A q \in Requests : q # p => request'[q] = request[q]
        \/ /\ Reading(p)
           /\ request'[p].userId = request[p].userId /\ request'[p].roomId = request[p].roomId
           /\ request'[p].op = "commit"
           /\ request'[p].messageIds \subseteq Unread(request[p].roomId, request[p].userId)
           /\ UNCHANGED <<chatMessage, chatMessageRead>>

\* A new receipt is of a stored message; a tidy reader's call had found it.
ReadsStep ==
    \A m \in Messages, u \in Users :
        <<m, u>> \in chatMessageRead' /\ <<m, u>> \notin chatMessageRead =>
          /\ chatMessage[m] # Null
          /\ u \in Tidy => \E p \in Requests :
               /\ Reading(p) /\ request[p].op = "commit" /\ request[p].userId = u
               /\ m \in request[p].messageIds /\ request'[p] = Null

\* A new message is in a room.
MessagesStep ==
    \A m \in Messages : chatMessage[m] = Null /\ chatMessage'[m] # Null
        => chatMessage'[m].roomId \in Rooms /\ chatRoom[chatMessage'[m].roomId] # Null

LEMMA ReturnCalls ==
    ASSUME TypeInv, NEW p \in Requests, Return(p)
    PROVE  CallsStep /\ request'[p] = Null
<1>1. request'[p] = Null /\ \A q \in Requests : q # p => request'[q] = request[q]
  BY DEF Return, TypeInv, TypeOK
<1> QED
  BY <1>1 DEF CallsStep, Reading

\* A call that is not markRead's starts.
LEMMA StartCalls ==
    ASSUME TypeInv, NEW p \in Requests, NEW call, Start(p, call),
           call.op \notin {"read", "commit"}
    PROVE  CallsStep
<1>1. request'[p] = call /\ \A q \in Requests : q # p => request'[q] = request[q]
  BY DEF Start, TypeInv, TypeOK
<1> QED
  BY <1>1 DEF CallsStep, Reading

LEMMA SameCallsStep ==
    ASSUME UNCHANGED request
    PROVE  CallsStep
  BY DEF CallsStep, Reading

LEMMA MarkAllBeginCalls ==
    ASSUME TypeInv, NEW p \in Requests, NEW u \in Users, NEW r \in Rooms,
           MarkAllBegin(p, u, r)
    PROVE  CallsStep
<1> DEFINE call == [op |-> "read", userId |-> u, roomId |-> r,
                    take |-> Take(chatRoomMember[r][u].unreadCount)]
<1>1. call.op = "read" /\ call.userId = u /\ call.roomId = r
  OBVIOUS
<1>2. request' = [request EXCEPT ![p] = call]
  BY DEF MarkAllBegin, Start
<1>3. u \in Tidy => ~ReadingNow(u, r)
  BY DEF MarkAllBegin
<1> HIDE DEF call
<1>4. request'[p] = call /\ \A q \in Requests : q # p => request'[q] = request[q]
  BY <1>2 DEF TypeInv, TypeOK
<1> QED
  BY <1>1, <1>3, <1>4 DEF CallsStep, Reading

LEMMA FindUnreadCalls ==
    ASSUME TypeInv, NEW p \in Requests, FindUnread(p)
    PROVE  CallsStep
<1>1. Reading(p) /\ UNCHANGED <<chatMessage, chatMessageRead>>
  BY DEF FindUnread, Reading
<1>2. PICK S \in SUBSET Unread(request[p].roomId, request[p].userId),
           call \in Call \cup {Null} :
         /\ request' = [request EXCEPT ![p] = call]
         /\ call # Null => /\ call.op = "commit"
                           /\ call.userId = request[p].userId
                           /\ call.roomId = request[p].roomId
                           /\ call.messageIds = S
  BY FindUnreadCall
<1>3. request'[p] = call /\ \A q \in Requests : q # p => request'[q] = request[q]
  BY <1>2 DEF TypeInv, TypeOK
<1> SUFFICES ASSUME NEW q \in Requests, Reading(q)', q = p
             PROVE  /\ Reading(q)
                    /\ request'[q].userId = request[q].userId
                    /\ request'[q].roomId = request[q].roomId
                    /\ request'[q].op = "commit"
                    /\ request'[q].messageIds \subseteq Unread(request[q].roomId, request[q].userId)
                    /\ UNCHANGED <<chatMessage, chatMessageRead>>
  BY <1>3 DEF CallsStep, Reading
<1>4. call # Null
  BY <1>3 DEF Reading
<1> QED
  BY <1>1, <1>2, <1>3, <1>4

LEMMA NextCalls ==
    ASSUME TypeInv, FoundInRoom, [Next]_vars
    PROVE  CallsStep /\ ReadsStep /\ MessagesStep
<1>1. CASE UNCHANGED <<chatMessage, chatMessageRead>> /\ CallsStep
  BY <1>1 DEF ReadsStep, MessagesStep
<1>2. ASSUME NEW p \in Requests, NEW u \in Users, NEW v \in Users, DirectFind(p, u, v)
      PROVE  CallsStep /\ ReadsStep /\ MessagesStep
  <2>1. UNCHANGED <<chatMessage, chatMessageRead>>
    BY <1>2 DEF DirectFind
  <2>2. UNCHANGED request \/ Start(p, [op |-> "direct", pair |-> {u, v}])
    BY <1>2 DEF DirectFind
  <2> QED
    BY <1>1, <2>1, <2>2, SameCallsStep, StartCalls
<1>3. ASSUME NEW p \in Requests,
             DirectCreate(p) \/ DirectConflict(p) \/ AddMembers(p) \/ NotifyRecipients(p) \/ Abort(p)
      PROVE  CallsStep /\ ReadsStep /\ MessagesStep
  <2>1. Return(p) /\ UNCHANGED <<chatMessage, chatMessageRead>>
    BY <1>3 DEF DirectCreate, DirectConflict, AddMembers, NotifyRecipients, Abort
  <2> QED
    BY <1>1, <2>1, ReturnCalls
<1>4. ASSUME NEW r \in Rooms, NEW founders \in SUBSET Users, GroupCreate(r, founders)
      PROVE  CallsStep /\ ReadsStep /\ MessagesStep
  BY <1>1, <1>4, SameCallsStep DEF GroupCreate
<1>5. ASSUME NEW p \in Requests, NEW u \in Users, NEW r \in Rooms, NEW userIds \in SUBSET Users,
             AddMembersBegin(p, u, r, userIds)
      PROVE  CallsStep /\ ReadsStep /\ MessagesStep
  <2>1. /\ Start(p, [op |-> "add", roomId |-> r, newUserIds |-> userIds \ Members(r), by |-> u])
        /\ UNCHANGED <<chatMessage, chatMessageRead>>
    BY <1>5 DEF AddMembersBegin
  <2> QED
    BY <1>1, <2>1, StartCalls
<1>6. ASSUME NEW p \in Requests, NEW u \in Users, NEW r \in Rooms, NEW m \in Messages,
             SendMessage(p, u, r, m)
      PROVE  CallsStep /\ ReadsStep /\ MessagesStep
  <2>1. /\ Start(p, [op |-> "notify", messageId |-> m])
        /\ UNCHANGED chatMessageRead
    BY <1>6 DEF SendMessage
  <2>2. CallsStep
    BY <2>1, StartCalls
  <2>3. MessagesStep
    <3>1. /\ chatMessage'[m] = [roomId |-> r, senderId |-> u, countedFor |-> Others(r, u)]
          /\ \A n \in Messages : n # m => chatMessage'[n] = chatMessage[n]
          /\ Member(r, u)
      BY <1>6 DEF SendMessage, TypeInv, TypeOK
    <3> QED
      BY <3>1 DEF MessagesStep, TypeInv, MembersHaveRooms
  <2> QED
    BY <2>1, <2>2, <2>3 DEF ReadsStep
<1>7. ASSUME NEW p \in Requests, NEW u \in Users, NEW r \in Rooms, MarkAllBegin(p, u, r)
      PROVE  CallsStep /\ ReadsStep /\ MessagesStep
  <2>1. UNCHANGED <<chatMessage, chatMessageRead>>
    BY <1>7 DEF MarkAllBegin
  <2> QED
    BY <1>1, <1>7, <2>1, MarkAllBeginCalls
<1>8. ASSUME NEW p \in Requests, FindUnread(p)
      PROVE  CallsStep /\ ReadsStep /\ MessagesStep
  <2>1. UNCHANGED <<chatMessage, chatMessageRead>>
    BY <1>8 DEF FindUnread
  <2> QED
    BY <1>1, <1>8, <2>1, FindUnreadCalls
<1>9. ASSUME NEW p \in Requests, MarkAll(p)
      PROVE  CallsStep /\ ReadsStep /\ MessagesStep
  <2>1. PICK u \in Users, S \in SUBSET Messages :
          /\ request[p].userId = u /\ request[p].messageIds = S
          /\ chatMessageRead' = chatMessageRead \cup (S \X {u})
    <3>1. request[p] \in CommitCall
      BY <1>9, CallType DEF MarkAll, TypeInv
    <3> QED
      BY <1>9, <3>1 DEF MarkAll, CommitCall
  <2>2. Return(p) /\ UNCHANGED chatMessage
    BY <1>9 DEF MarkAll
  <2>3. CallsStep /\ request'[p] = Null
    BY <2>2, ReturnCalls
  <2>4. Reading(p) /\ request[p].op = "commit"
    BY <1>9, CommitReads
  <2>5. \A m \in S : chatMessage[m] # Null
    BY <2>1, <2>4 DEF FoundInRoom
  <2>6. ReadsStep
    BY <2>1, <2>3, <2>4, <2>5 DEF ReadsStep
  <2> QED
    BY <2>2, <2>3, <2>6 DEF MessagesStep
<1>10. ASSUME NEW u \in Users, NEW m \in Messages, MarkOne(u, m)
       PROVE  CallsStep /\ ReadsStep /\ MessagesStep
  BY <1>10, SameCallsStep DEF MarkOne, ReadsStep, MessagesStep
<1>11. CASE UNCHANGED vars
  BY <1>1, <1>11, SameCallsStep DEF vars
<1>12. CASE Next
  BY <1>2, <1>3, <1>4, <1>5, <1>6, <1>7, <1>8, <1>9, <1>10, <1>12 DEF Next
<1> QED
  BY <1>11, <1>12

CallsInv == ReadsNameMessages /\ FoundInRoom /\ TidyCalls

LEMMA NextFoundInRoom ==
    ASSUME FoundInRoom, RowsKept, CallsStep
    PROVE  FoundInRoom'
<1> SUFFICES ASSUME NEW p \in Requests, NEW m \in Messages, Reading(p)',
                    request'[p].op = "commit", m \in request'[p].messageIds
             PROVE  chatMessage'[m] # Null /\ chatMessage'[m].roomId = request'[p].roomId
  BY DEF FoundInRoom
<1>1. CASE request'[p] = request[p] /\ Reading(p)
  BY <1>1 DEF FoundInRoom, RowsKept
<1>2. CASE /\ request'[p].roomId = request[p].roomId
           /\ request'[p].messageIds \subseteq Unread(request[p].roomId, request[p].userId)
           /\ UNCHANGED <<chatMessage, chatMessageRead>>
  BY <1>2, UnreadNames, ZenonT(30)
<1> QED
  BY <1>1, <1>2 DEF CallsStep

\* What a tidy client is about to mark is still unread: only this call marks
\* the user's messages in the room.
LEMMA NextTidyUnread ==
    ASSUME CallsInv, RowsKept, CallsStep, ReadsStep,
           NEW p \in Requests, Reading(p)', request'[p].op = "commit",
           request'[p].userId \in Tidy
    PROVE  request'[p].messageIds \subseteq Unread(request[p].roomId, request[p].userId)'
<1>1. CASE request'[p] = request[p] /\ Reading(p)
  <2> SUFFICES ASSUME NEW m \in request[p].messageIds
               PROVE  m \in Unread(request[p].roomId, request[p].userId)'
    BY <1>1
  <2>1. m \in Unread(request[p].roomId, request[p].userId)
    BY <1>1 DEF CallsInv, TidyCalls
  <2>2. /\ m \in Messages /\ chatMessage[m] # Null
        /\ chatMessage[m].roomId = request[p].roomId
        /\ chatMessage[m].senderId # request[p].userId
        /\ <<m, request[p].userId>> \notin chatMessageRead
    BY <2>1 DEF Unread
  <2>3. chatMessage'[m] = chatMessage[m]
    BY <2>2 DEF RowsKept
  <2>4. <<m, request[p].userId>> \notin chatMessageRead'
    <3> SUFFICES ASSUME <<m, request[p].userId>> \in chatMessageRead'
                 PROVE  FALSE
      OBVIOUS
    <3>1. request[p].userId \in Users
      BY <1>1, ChatAssumption
    <3>2. PICK q \in Requests :
            /\ Reading(q) /\ request[q].op = "commit" /\ request[q].userId = request[p].userId
            /\ m \in request[q].messageIds /\ request'[q] = Null
      BY <1>1, <2>2, <3>1 DEF ReadsStep
    <3>3. request[q].roomId = request[p].roomId
      BY <2>2, <3>2 DEF CallsInv, FoundInRoom
    <3>4. q = p
      BY <1>1, <3>2, <3>3 DEF CallsInv, TidyCalls
    <3> QED
      BY <1>1, <3>2, <3>4 DEF Reading
  <2> QED
    BY <1>1, <2>2, <2>3, <2>4 DEF Unread
<1>2. CASE /\ request'[p].userId = request[p].userId /\ request'[p].roomId = request[p].roomId
           /\ request'[p].messageIds \subseteq Unread(request[p].roomId, request[p].userId)
           /\ UNCHANGED <<chatMessage, chatMessageRead>>
  <2>1. \A r, u : Unread(r, u)' = Unread(r, u)
    BY <1>2, UnreadSame
  <2> QED
    BY <1>2, <2>1 DEF Unread
<1> QED
  BY <1>1, <1>2 DEF CallsStep

LEMMA NextOneAtATime ==
    ASSUME CallsInv, CallsStep, NEW p \in Requests, NEW q \in Requests,
           Reading(p)', Reading(q)', request'[p].userId \in Tidy,
           request'[p].userId = request'[q].userId, request'[p].roomId = request'[q].roomId
    PROVE  p = q
<1> SUFFICES ASSUME p # q
             PROVE  FALSE
  OBVIOUS
<1> DEFINE u == request'[p].userId
           r == request'[p].roomId
           Old(o) == Reading(o) /\ request[o].userId = u /\ request[o].roomId = r
           New(o) == /\ ~ReadingNow(u, r)
                     /\ \A other \in Requests : other # o => request'[other] = request[other]
<1>1. Old(p) \/ New(p)
  BY DEF CallsStep
<1>2. Old(q) \/ New(q)
  BY DEF CallsStep
<1>3. Old(p) => ReadingNow(u, r)
  BY DEF ReadingNow, Reading
<1>4. Old(q) => ReadingNow(u, r)
  BY DEF ReadingNow, Reading
<1>5. ~(Old(p) /\ Old(q))
  BY DEF CallsInv, TidyCalls
<1>6. New(p) => Old(q)
  BY DEF Reading
<1>7. New(q) => Old(p)
  BY DEF Reading
<1> QED
  BY <1>1, <1>2, <1>3, <1>4, <1>5, <1>6, <1>7

LEMMA NextCallsInv ==
    ASSUME TypeInv, CallsInv, [Next]_vars
    PROVE  CallsInv'
<1>1. RowsKept /\ CallsStep /\ ReadsStep /\ MessagesStep
  BY NextKeepsRows, NextCalls DEF CallsInv
<1>2. FoundInRoom'
  BY <1>1, NextFoundInRoom DEF CallsInv
<1>3. ReadsNameMessages'
  BY <1>1 DEF CallsInv, ReadsNameMessages, ReadsStep, RowsKept
<1>4. ASSUME NEW m \in Messages, chatMessage'[m] # Null
      PROVE  chatRoom'[chatMessage'[m].roomId] # Null
  <2>1. CASE chatMessage[m] # Null
    <3>1. chatMessage'[m] = chatMessage[m] /\ chatMessage[m].roomId \in Rooms
      BY <1>1, <2>1 DEF RowsKept, TypeInv, TypeOK, ChatMessage
    <3> QED
      BY <1>1, <2>1, <3>1 DEF RowsKept, CallsInv, TidyCalls
  <2>2. CASE chatMessage[m] = Null
    BY <1>1, <1>4, <2>2 DEF MessagesStep, RowsKept
  <2> QED
    BY <2>1, <2>2
<1>5. TidyCalls'
  BY <1>1, <1>4, NextTidyUnread, NextOneAtATime DEF TidyCalls
<1> QED
  BY <1>2, <1>3, <1>5 DEF CallsInv

LEMMA NextOvercounts ==
    ASSUME TypeInv, CallsInv, UnreadNeverOvercounts, [Next]_vars
    PROVE  UnreadNeverOvercounts'
<1>1. TypeInv' /\ RowsStep
  BY NextType, NextRows DEF CallsInv
<1> SUFFICES ASSUME NEW r \in Rooms, NEW u \in Users, Member(r, u)'
             PROVE  UnreadCount(r, u)' <= Cardinality(Unread(r, u))'
  BY DEF UnreadNeverOvercounts, UnreadCount
<1>2. UnreadCount(r, u)' \in Int
  BY <1>1 DEF TypeInv, TypeOK, ChatRoomMember, Member, UnreadCount
<1>3. Cardinality(Unread(r, u)) \in Nat
  BY UnreadFinite
<1>4. CASE NewRow(r, u)
  <2>1. Cardinality(Unread(r, u))' = Cardinality(Unread(r, u))
    BY <1>4 DEF NewRow
  <2> QED
    BY <1>3, <1>4, <2>1 DEF NewRow
<1>5. CASE OldRow(r, u)
  <2>1. UnreadCount(r, u) \in Int /\ UnreadCount(r, u) <= Cardinality(Unread(r, u))
    BY <1>5, CounterType DEF OldRow, UnreadNeverOvercounts, UnreadCount
  <2>2. Cardinality(Unread(r, u))' \in Nat
    <3>1. Unread(r, u)' \subseteq Messages
      BY DEF Unread
    <3> QED
      BY <3>1, ChatAssumption, FS_Subset, FS_CardinalityType
  <2> QED
    BY <1>2, <1>3, <1>5, <2>1, <2>2 DEF OldRow
<1> QED
  BY <1>1, <1>4, <1>5 DEF RowsStep

LEMMA NextExact ==
    ASSUME TypeInv, CallsInv, UnreadExact, [Next]_vars
    PROVE  UnreadExact'
<1>1. TypeInv' /\ RowsStep
  BY NextType, NextRows DEF CallsInv
<1> SUFFICES ASSUME NEW r \in Rooms, NEW u \in Tidy, Member(r, u)',
                    chatRoomMember'[r][u].addedById = Null
             PROVE  UnreadCount(r, u)' = Cardinality(Unread(r, u))'
  BY DEF UnreadExact, UnreadCount
<1>2. u \in Users
  BY ChatAssumption
<1>3. CASE NewRow(r, u)
  <2>1. chatRoom[r] = Null
    BY <1>3 DEF NewRow
  <2>2. Unread(r, u)' = {}
    BY <1>3, <2>1 DEF NewRow, Unread, CallsInv, TidyCalls
  <2>3. Cardinality(Unread(r, u))' = 0
    BY <2>2, FS_EmptySet
  <2> QED
    BY <1>3, <2>3 DEF NewRow
<1>4. CASE OldRow(r, u)
  <2>1. UnreadCount(r, u) \in Int /\ UnreadCount(r, u) = Cardinality(Unread(r, u))
    BY <1>2, <1>4, CounterType DEF OldRow, UnreadExact, UnreadCount
  <2>2. UnreadCount(r, u)' \in Int
    BY <1>1, <1>2 DEF TypeInv, TypeOK, ChatRoomMember, Member, UnreadCount
  <2>3. Cardinality(Unread(r, u))' \in Nat
    <3>1. Unread(r, u)' \subseteq Messages
      BY DEF Unread
    <3> QED
      BY <3>1, ChatAssumption, FS_Subset, FS_CardinalityType
  <2> QED
    BY <1>4, <2>1, <2>2, <2>3 DEF OldRow, CallsInv
<1> QED
  BY <1>1, <1>2, <1>3, <1>4 DEF RowsStep

LEMMA InitCounters == Init => CallsInv /\ UnreadNeverOvercounts /\ UnreadExact
<1> SUFFICES ASSUME Init
             PROVE  CallsInv /\ UnreadNeverOvercounts /\ UnreadExact
  OBVIOUS
<1>1. \A p \in Requests : ~Reading(p)
  BY DEF Init, Reading
<1>2. \A m \in Messages : chatMessage[m] = Null
  BY DEF Init
<1>3. chatMessageRead = {}
  BY DEF Init
<1>4. \A r \in Rooms, u \in Users : ~Member(r, u)
  BY DEF Init, Member
<1> QED
  BY <1>1, <1>2, <1>3, <1>4, ChatAssumption
     DEF CallsInv, ReadsNameMessages, FoundInRoom, TidyCalls, UnreadNeverOvercounts, UnreadExact

\* The badge never shows more than there is to read, however the calls of any
\* number of users, tabs and retries interleave and fail.
THEOREM BadgeNeverOvercounts == Spec => []UnreadNeverOvercounts
  BY InitType, NextType, InitCounters, NextCallsInv, NextOvercounts, PTL DEF Spec

\* For a founder of the room whose client marks it as read one call at a time,
\* the counter is the number of unread messages, whatever all others do.
THEOREM BadgeExact == Spec => []UnreadExact
  BY InitType, NextType, InitCounters, NextCallsInv, NextExact, PTL DEF Spec
=============================================================================
