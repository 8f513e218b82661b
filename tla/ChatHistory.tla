----------------------------- MODULE ChatHistory -----------------------------
(***************************************************************************)
(* The messages of a room as MessageList shows them: findMessages answers   *)
(* with one page, newest first, and the cursor of the next; useChatMessages *)
(* keeps the pages, fetches older ones as the reader scrolls up, and        *)
(* fetches all of them again every few seconds.  A message gets sentAt, in  *)
(* milliseconds, before its transaction commits.                            *)
(***************************************************************************)
EXTENDS Integers, FiniteSets, Sequences, SequencesExt, FiniteSetsExt

CONSTANTS
    Messages,
    MaxTime,        \* bound: sentAt is a time up to MaxTime
    Limit,          \* dto.limit
    Null

Times == 1..MaxTime

VARIABLES
    now,
    sentAt,         \* by message, or Null
    committed,      \* the messages of the room
    pages,          \* data.pages: messages, nextCursor and hasMore of each
    fetching,       \* the requests under way: the pages there are and how many it will be,
                    \* with (history) the messages committed since the first of them
    unseen          \* history: the messages committed since the first page was asked for

vars == <<now, sentAt, committed, pages, fetching, unseen>>

Page == [messages : SUBSET Messages, nextCursor : Times \cup {Null}]

Init ==
    /\ now = 1
    /\ sentAt = [m \in Messages |-> Null]
    /\ committed = {}
    /\ pages = <<>>
    /\ fetching = Null
    /\ unseen = {}

-----------------------------------------------------------------------------
(* sendMessage *)

Tick ==
    /\ now < MaxTime
    /\ now' = now + 1
    /\ UNCHANGED <<sentAt, committed, pages, fetching, unseen>>

Stamp(m) ==
    /\ sentAt[m] = Null
    /\ sentAt' = [sentAt EXCEPT ![m] = now]
    /\ UNCHANGED <<now, committed, pages, fetching, unseen>>

Commit(m) ==
    /\ sentAt[m] # Null /\ m \notin committed
    /\ committed' = committed \cup {m}
    /\ unseen' = unseen \cup {m}
    /\ fetching' = IF fetching = Null THEN Null ELSE [fetching EXCEPT !.unseen = @ \cup {m}]
    /\ UNCHANGED <<now, sentAt, pages>>

\* The transaction rolls back.
Rollback(m) ==
    /\ sentAt[m] # Null /\ m \notin committed
    /\ sentAt' = [sentAt EXCEPT ![m] = Null]
    /\ UNCHANGED <<now, committed, pages, fetching, unseen>>

-----------------------------------------------------------------------------
(* findMessages *)

Older(before) == {m \in committed : before = Null \/ sentAt[m] < before}

\* orderBy sentAt desc, take n: messages of one millisecond come in any order.
Newest(ms, n) ==
    {top \in SUBSET ms :
        /\ Cardinality(top) = IF Cardinality(ms) < n THEN Cardinality(ms) ELSE n
        /\ \A m \in top, o \in ms \ top : sentAt[m] >= sentAt[o]}

Oldest(ms) == Min({sentAt[m] : m \in ms})

\* Mutant: the cursor is that of the row that shows there are more.
ExtraCursor(results, extra) == Oldest(extra)

NextCursor(results, extra) == Oldest(results)

\* One row more than the limit tells whether there are more.
Answers(before) ==
    LET found(rows) ==
          IF Cardinality(rows) <= Limit THEN {[messages |-> rows, nextCursor |-> Null]}
          ELSE {[messages |-> results, nextCursor |-> NextCursor(results, rows)] :
                  results \in Newest(rows, Limit)}
    IN  UNION {found(rows) : rows \in Newest(Older(before), Limit + 1)}

-----------------------------------------------------------------------------
(* useInfiniteQuery *)

\* Entering the room, the interval, a message that was sent: every page there
\* is, or the first, one after the other.
Refetch ==
    /\ fetching' = [pages |-> <<>>, wanted |-> IF pages = <<>> THEN 1 ELSE Len(pages),
                    unseen |-> {}]
    /\ UNCHANGED <<now, sentAt, committed, pages, unseen>>

\* fetchNextPage: a page after those there are; it cancels a refetch.
FetchNextPage ==
    /\ pages # <<>> /\ Last(pages).nextCursor # Null
    /\ fetching' = [pages |-> pages, wanted |-> Len(pages) + 1, unseen |-> unseen]
    /\ UNCHANGED <<now, sentAt, committed, pages, unseen>>

Cursor == IF fetching.pages = <<>> THEN Null ELSE Last(fetching.pages).nextCursor

\* The next page of a request.  A page without a cursor is the last one.
Fetch ==
    /\ fetching # Null
    /\ \E page \in Answers(Cursor) :
         LET so == Append(fetching.pages, page) IN
         IF Len(so) = fetching.wanted \/ page.nextCursor = Null
         THEN pages' = so /\ unseen' = fetching.unseen /\ fetching' = Null
         ELSE fetching' = [fetching EXCEPT !.pages = so] /\ UNCHANGED <<pages, unseen>>
    /\ UNCHANGED <<now, sentAt, committed>>

\* The pages there are stay.
FetchFails ==
    /\ fetching # Null
    /\ fetching' = Null
    /\ UNCHANGED <<now, sentAt, committed, pages, unseen>>

Next ==
    \/ Tick
    \/ \E m \in Messages : Stamp(m) \/ Commit(m) \/ Rollback(m)
    \/ Refetch \/ FetchNextPage \/ Fetch \/ FetchFails

Spec == Init /\ [][Next]_vars

-----------------------------------------------------------------------------
(* Properties *)

\* flattenMessages.
Shown == UNION {pages[i].messages : i \in DOMAIN pages}

\* Times, pages and requests have their types.
TypeOK ==
    /\ now \in Times
    /\ sentAt \in [Messages -> Times \cup {Null}]
    /\ committed \subseteq Messages /\ unseen \subseteq committed
    /\ pages \in Seq(Page)
    /\ fetching # Null => fetching.pages \in Seq(Page) /\ fetching.wanted \in Nat

\* Some page, which is not the last there is, ends within this millisecond.
Cut(t) == \E i \in DOMAIN pages :
             pages[i].nextCursor # Null /\ Oldest(pages[i].messages) = t

\* No message is missing between those on the screen, nor before them once there
\* are no more pages, unless the end of a page separated it from others of its
\* millisecond or it was committed after the pages were last fetched.
NoGap ==
    \A m \in committed \ (Shown \cup unseen) :
        ~Cut(sentAt[m]) => pages = <<>> \/ (Last(pages).nextCursor # Null
                                            /\ \A s \in Shown : sentAt[m] <= sentAt[s])

\* No message is shown twice.
ShownOnce ==
    \A i, j \in DOMAIN pages : i # j => pages[i].messages \cap pages[j].messages = {}
=============================================================================
