-------------------------------- MODULE Chat --------------------------------
(***************************************************************************)
(* ChatService: rooms, members, messages, read receipts and the unread      *)
(* counter of each member, kept beside the receipts it should agree with.   *)
(* A transaction is one step; a read that a later write depends on is a     *)
(* step of its own.  Nothing leaves a room and no message is deleted, so a  *)
(* membership or message that was checked stays there.  Refused calls,      *)
(* policies, message content, lastMessageAt, audit logs and socket events   *)
(* are left out; they read these tables and do not write them.              *)
(***************************************************************************)
EXTENDS Integers, FiniteSets

CONSTANTS
    Users, Rooms, Messages,
    Requests,   \* calls that can be in flight
    Tidy,       \* users whose client marks whole rooms as read, one call at a time
    Null

ChatRoom == [directRoomHash : (SUBSET Users) \cup {Null}]

ChatRoomMember == [unreadCount : Int, addedById : Users \cup {Null}]

\* `countedFor' is history: whose counter the message has raised.
ChatMessage == [roomId : Rooms, senderId : Users, countedFor : SUBSET Users]

\* A call in flight, with what it has read.
Call ==
    [op : {"direct"}, pair : SUBSET Users]
      \cup [op : {"add"}, roomId : Rooms, newUserIds : SUBSET Users, by : Users]
      \cup [op : {"notify"}, messageId : Messages]
      \cup [op : {"read"}, userId : Users, roomId : Rooms, take : Nat \ {0}]
      \cup [op : {"commit"}, userId : Users, roomId : Rooms, messageIds : SUBSET Messages]

ASSUME ChatAssumption ==
    /\ Tidy \subseteq Users
    /\ IsFiniteSet(Messages)
    /\ Null \notin Users \cup ChatRoom \cup ChatRoomMember \cup ChatMessage \cup Call
    /\ \A set \in SUBSET Users : Null # set

VARIABLES
    chatRoom,        \* rows of ChatRoom, or Null
    chatRoomMember,  \* rows of ChatRoomMember, or Null
    chatMessage,     \* rows of ChatMessage, or Null
    chatMessageRead, \* rows of ChatMessageRead
    chatMessageJob,  \* recipients of the queued CHAT_MESSAGE job, or Null
    replies,         \* rooms that DIRECT creations have answered with
    request          \* the calls in flight, or Null

vars == <<chatRoom, chatRoomMember, chatMessage, chatMessageRead,
          chatMessageJob, replies, request>>

Init ==
    /\ chatRoom = [r \in Rooms |-> Null]
    /\ chatRoomMember = [r \in Rooms |-> [u \in Users |-> Null]]
    /\ chatMessage = [m \in Messages |-> Null]
    /\ chatMessageRead = {}
    /\ chatMessageJob = [m \in Messages |-> Null]
    /\ replies = {}
    /\ request = [p \in Requests |-> Null]

Member(r, u) == chatRoomMember[r][u] # Null

Members(r) == {u \in Users : Member(r, u)}

\* The messages of r that u has not read and did not send.
Unread(r, u) ==
    {m \in Messages :
        /\ chatMessage[m] # Null
        /\ chatMessage[m].roomId = r
        /\ chatMessage[m].senderId # u
        /\ <<m, u>> \notin chatMessageRead}

Start(p, call) == request[p] = Null /\ request' = [request EXCEPT ![p] = call]

Return(p) == request' = [request EXCEPT ![p] = Null]

-----------------------------------------------------------------------------
(* createRoom *)

\* The pair of users is what directRoomHash is made of; it is a unique key.
DirectRooms(pair) == {r \in Rooms : chatRoom[r] # Null /\ chatRoom[r].directRoomHash = pair}

NewMember(by) == [unreadCount |-> 0, addedById |-> by]

CreateRoom(r, hash, founders) ==
    /\ chatRoom[r] = Null
    /\ chatRoom' = [chatRoom EXCEPT ![r] = [directRoomHash |-> hash]]
    /\ chatRoomMember' = [chatRoomMember EXCEPT ![r] =
         [u \in Users |-> IF u \in founders THEN NewMember(Null) ELSE Null]]

Reply(pair, r) == replies' = replies \cup {[pair |-> pair, room |-> r]}

\* DIRECT: the room of the pair if there is one.  (A pair of one user breaks
\* the key of ChatRoomMember and changes nothing.)
DirectFind(p, u, v) ==
    /\ u # v
    /\ LET pair == {u, v} IN
         IF DirectRooms(pair) # {}
         THEN /\ request[p] = Null
              /\ \E r \in DirectRooms(pair) : Reply(pair, r)
              /\ UNCHANGED request
         ELSE /\ Start(p, [op |-> "direct", pair |-> pair])
              /\ UNCHANGED replies
    /\ UNCHANGED <<chatRoom, chatRoomMember, chatMessage, chatMessageRead, chatMessageJob>>

\* Mutant: the hash is not a unique key.
AnyHash(pair) == TRUE

HashFree(pair) == DirectRooms(pair) = {}

\* The room is stored even if the audit log or the queue then fails the call.
DirectCreate(p) ==
    /\ request[p] # Null
    /\ request[p].op = "direct"
    /\ HashFree(request[p].pair)
    /\ \E r \in Rooms :
         /\ CreateRoom(r, request[p].pair, request[p].pair)
         /\ Reply(request[p].pair, r) \/ UNCHANGED replies
    /\ Return(p)
    /\ UNCHANGED <<chatMessage, chatMessageRead, chatMessageJob>>

\* P2002: another call has created the room of the pair.
DirectConflict(p) ==
    /\ request[p] # Null
    /\ request[p].op = "direct"
    /\ ~HashFree(request[p].pair)
    /\ \E r \in DirectRooms(request[p].pair) : Reply(request[p].pair, r)
    /\ Return(p)
    /\ UNCHANGED <<chatRoom, chatRoomMember, chatMessage, chatMessageRead, chatMessageJob>>

GroupCreate(r, founders) ==
    /\ founders # {}
    /\ CreateRoom(r, Null, founders)
    /\ UNCHANGED <<chatMessage, chatMessageRead, chatMessageJob, replies, request>>

-----------------------------------------------------------------------------
(* addMembers: any member of any room, DIRECT ones too *)

AddMembersBegin(p, u, r, userIds) ==
    /\ Member(r, u)
    /\ userIds \ Members(r) # {}
    /\ Start(p, [op |-> "add", roomId |-> r, newUserIds |-> userIds \ Members(r), by |-> u])
    /\ UNCHANGED <<chatRoom, chatRoomMember, chatMessage, chatMessageRead,
                   chatMessageJob, replies>>

\* One statement: if one of them has become a member, none is added.
AddMembers(p) ==
    /\ request[p] # Null
    /\ request[p].op = "add"
    /\ LET c == request[p] IN
         chatRoomMember' =
           IF c.newUserIds \cap Members(c.roomId) = {}
           THEN [chatRoomMember EXCEPT ![c.roomId] =
                   [u \in Users |-> IF u \in c.newUserIds THEN NewMember(c.by) ELSE @[u]]]
           ELSE chatRoomMember
    /\ Return(p)
    /\ UNCHANGED <<chatRoom, chatMessage, chatMessageRead, chatMessageJob, replies>>

-----------------------------------------------------------------------------
(* sendMessage *)

\* A row with its counter raised by n.
Count(row, n) == [row EXCEPT !.unreadCount = @ + n]

\* Mutant: the sender's own counter goes up, too.
Everyone(r, u) == Members(r)

\* Whose counter a message of u raises.
Others(r, u) == Members(r) \ {u}

\* The transaction.
SendMessage(p, u, r, m) ==
    /\ Member(r, u)
    /\ chatMessage[m] = Null
    /\ LET others == Others(r, u) IN
         /\ chatMessage' = [chatMessage EXCEPT ![m] =
              [roomId |-> r, senderId |-> u, countedFor |-> others]]
         /\ chatRoomMember' = [chatRoomMember EXCEPT ![r] =
              [v \in Users |-> IF v \in others THEN Count(@[v], 1) ELSE @[v]]]
    /\ Start(p, [op |-> "notify", messageId |-> m])
    /\ UNCHANGED <<chatRoom, chatMessageRead, chatMessageJob, replies>>

\* Mutant: only those who founded the room are told.
Founders(r, u) == {v \in Members(r) \ {u} : chatRoomMember[r][v].addedById = Null}

Recipients(r, u) == Members(r) \ {u}

\* After the commit the members are read again and the job is queued.
NotifyRecipients(p) ==
    /\ request[p] # Null
    /\ request[p].op = "notify"
    /\ LET m == request[p].messageId IN
         chatMessageJob' = [chatMessageJob EXCEPT ![m] =
           Recipients(chatMessage[m].roomId, chatMessage[m].senderId)]
    /\ Return(p)
    /\ UNCHANGED <<chatRoom, chatRoomMember, chatMessage, chatMessageRead, replies>>

-----------------------------------------------------------------------------
(* markRead *)

\* One message: the receipt is an upsert, so it may be there already; the
\* message may be the reader's own.  At zero the transaction is rolled back.
MarkOne(u, m) ==
    /\ u \notin Tidy
    /\ chatMessage[m] # Null
    /\ LET r == chatMessage[m].roomId IN
         /\ Member(r, u)
         /\ chatRoomMember[r][u].unreadCount > 0
         /\ chatRoomMember' = [chatRoomMember EXCEPT ![r][u] = Count(@, -1)]
    /\ chatMessageRead' = chatMessageRead \cup {<<m, u>>}
    /\ UNCHANGED <<chatRoom, chatMessage, chatMessageJob, replies, request>>

\* A tidy client waits for the answer before it marks again.
ReadingNow(u, r) ==
    \E p \in Requests :
        /\ request[p] # Null
        /\ request[p].op \in {"read", "commit"}
        /\ request[p].userId = u /\ request[p].roomId = r

\* Mutant: as many as the counter says.
TakeCounted(n) == n

Take(n) == IF n > 1 THEN n ELSE 1

MarkAllBegin(p, u, r) ==
    /\ Member(r, u)
    /\ u \in Tidy => ~ReadingNow(u, r)
    /\ Start(p, [op |-> "read", userId |-> u, roomId |-> r,
                 take |-> Take(chatRoomMember[r][u].unreadCount)])
    /\ UNCHANGED <<chatRoom, chatRoomMember, chatMessage, chatMessageRead,
                   chatMessageJob, replies>>

\* findMany with `take' and no order: any so many of the unread ones.
FindUnread(p) ==
    /\ request[p] # Null
    /\ request[p].op = "read"
    /\ LET c == request[p]
           unread == Unread(c.roomId, c.userId)
       IN \E S \in SUBSET unread :
            /\ Cardinality(S) <= c.take
            /\ Cardinality(S) = c.take \/ S = unread
            /\ request' = [request EXCEPT ![p] =
                 IF S = {} THEN Null
                 ELSE [op |-> "commit", userId |-> c.userId, roomId |-> c.roomId,
                       messageIds |-> S]]
    /\ UNCHANGED <<chatRoom, chatRoomMember, chatMessage, chatMessageRead,
                   chatMessageJob, replies>>

\* Mutant: everything is read now.
Cleared(row, messageIds) == [row EXCEPT !.unreadCount = 0]

\* The counter goes down by all that were found, receipt or not.
AfterReading(row, messageIds) == Count(row, -Cardinality(messageIds))

MarkAll(p) ==
    /\ request[p] # Null
    /\ request[p].op = "commit"
    /\ LET c == request[p] IN
         /\ chatMessageRead' = chatMessageRead \cup (c.messageIds \X {c.userId})
         /\ chatRoomMember' = [chatRoomMember EXCEPT ![c.roomId][c.userId] =
              AfterReading(@, c.messageIds)]
    /\ Return(p)
    /\ UNCHANGED <<chatRoom, chatMessage, chatMessageJob, replies>>

-----------------------------------------------------------------------------
\* The call fails (database, queue or process); what it committed stays.
Abort(p) ==
    /\ request[p] # Null
    /\ Return(p)
    /\ UNCHANGED <<chatRoom, chatRoomMember, chatMessage, chatMessageRead,
                   chatMessageJob, replies>>

Next ==
    \/ \E p \in Requests :
          \/ \E u, v \in Users : DirectFind(p, u, v)
          \/ DirectCreate(p) \/ DirectConflict(p)
          \/ \E u \in Users, r \in Rooms :
                \/ \E userIds \in SUBSET Users : AddMembersBegin(p, u, r, userIds)
                \/ \E m \in Messages : SendMessage(p, u, r, m)
                \/ MarkAllBegin(p, u, r)
          \/ AddMembers(p) \/ NotifyRecipients(p) \/ FindUnread(p) \/ MarkAll(p)
          \/ Abort(p)
    \/ \E r \in Rooms, founders \in SUBSET Users : GroupCreate(r, founders)
    \/ \E u \in Users, m \in Messages : MarkOne(u, m)

Spec == Init /\ [][Next]_vars

-----------------------------------------------------------------------------
(* Properties *)

\* Every row and every call has its type, and a call names rows that exist.
TypeOK ==
    /\ chatRoom \in [Rooms -> ChatRoom \cup {Null}]
    /\ chatRoomMember \in [Rooms -> [Users -> ChatRoomMember \cup {Null}]]
    /\ chatMessage \in [Messages -> ChatMessage \cup {Null}]
    /\ chatMessageRead \subseteq Messages \X Users
    /\ chatMessageJob \in [Messages -> (SUBSET Users) \cup {Null}]
    /\ replies \subseteq [pair : SUBSET Users, room : Rooms]
    /\ request \in [Requests -> Call \cup {Null}]

\* The unread badge never shows more than there is to read, however the calls
\* of all users, tabs and retries interleave and fail.
UnreadNeverOvercounts ==
    \A r \in Rooms, u \in Users :
        Member(r, u) => chatRoomMember[r][u].unreadCount <= Cardinality(Unread(r, u))

\* For a user who was in the room from the start and marks whole rooms as
\* read, one call at a time, the denormalised counter is the number of unread
\* messages, although markRead acts on a count read two queries earlier.
UnreadExact ==
    \A r \in Rooms, u \in Tidy :
        Member(r, u) /\ chatRoomMember[r][u].addedById = Null
          => chatRoomMember[r][u].unreadCount = Cardinality(Unread(r, u))

\* All DIRECT creations of a pair answer with one room, of which both are
\* members, whichever of them created it.
DirectRoomsConverge ==
    \A a \in replies :
        /\ a.pair \subseteq Members(a.room)
        /\ \A b \in replies : a.pair = b.pair => a.room = b.room

\* Everyone whose counter a message raised is among the recipients of its
\* notification, also those who joined just before it was sent.
CountedAreNotified ==
    \A m \in Messages :
        chatMessageJob[m] # Null => chatMessage[m].countedFor \subseteq chatMessageJob[m]
=============================================================================
