---------------------------- MODULE ActivityList ----------------------------
(***************************************************************************)
(* The like events of one message (Message.ActivityList in chat/data.go):  *)
(* a linked list of the same type as the list of messages, to which local  *)
(* events are appended (List.Append) and into which the events of other    *)
(* servers are sorted by their time (InsertLike), and the votes that       *)
(* CalculateLike finds in it.                                              *)
(*                                                                         *)
(* A server keeps the time of its own events with its fraction of a        *)
(* second; on the wire times are RFC 3339 texts, which have none.  Times   *)
(* count half seconds: an odd time is "some time within that second".      *)
(***************************************************************************)
EXTENDS Integers, Sequences

CONSTANT User    \* the names of users

List == INSTANCE MessageList WITH Latest <- 10

Nil == List!Nil

NoEvents == [node |-> <<>>, head |-> Nil, tail |-> Nil]

Nodes(l) == List!Nodes(l)

Walk(l) == List!Walk(l)

LocalTime(second) == 2 * second + 1

WireTime(time) == time - (time % 2)

Event(user, like, time) == [user |-> user, like |-> like, time |-> time]

NodeOf(event, next) ==
    [user |-> event.user, like |-> event.like, time |-> event.time, next |-> next]

\* What a node says, with the time as other servers are told it.
Says(n) == Event(n.user, n.like, WireTime(n.time))

\* The list with one more node, linked after the node "after" (Nil: nowhere).
LinkedAfter(l, event, after, next) ==
    Append([n \in Nodes(l) |-> IF n = after THEN [l.node[n] EXCEPT !.next = Len(l.node) + 1]
                                            ELSE l.node[n]],
           NodeOf(event, next))

\* List.Append: without a Tail, a list that has a Head does not get the node.
Appended(l, event) ==
    LET new == Len(l.node) + 1
    IN  [node |-> LinkedAfter(l, event, l.tail, Nil),
         head |-> IF l.head = Nil THEN new ELSE l.head,
         tail |-> IF l.tail # Nil \/ l.head = Nil THEN new ELSE Nil]

\* The events of the list, in its order.
Events(l) == [k \in DOMAIN Walk(l) |-> l.node[Walk(l)[k]]]

BecomesHead(l, time) == l.head = Nil \/ l.node[l.head].time > time

\* The k-th event is before "time", and the next one, if any, after it.
Follows(l, k, time) ==
    LET events == Events(l)
    IN  /\ events[k].time < time
        /\ k < Len(events) => events[k + 1].time > time

\* The first such event of the walk, if there is one.
Place(l, time) ==
    {n \in Nodes(l) : \E k \in DOMAIN Walk(l) :
        /\ Walk(l)[k] = n
        /\ Follows(l, k, time)
        /\ \A j \in DOMAIN Walk(l) : Follows(l, j, time) => k <= j}

\* InsertLike returns nil: an event of that very second is in the way.
NoPlace(l, time) == ~BecomesHead(l, time) /\ Place(l, time) = {}

\* Mutant of Sorted: the event goes after the last one, whatever its time.
SortedLast(l, event) == Appended(l, event)

\* InsertLike: Tail stays where it is.
Sorted(l, event) ==
    LET new == Len(l.node) + 1
        after == CHOOSE n \in Place(l, event.time) : TRUE
    IN  IF BecomesHead(l, event.time)
        THEN [l EXCEPT !.node = LinkedAfter(l, event, Nil, l.head), !.head = new]
        ELSE [l EXCEPT !.node = LinkedAfter(l, event, after, l.node[after].next)]

-----------------------------------------------------------------------------
(***************************************************************************)
(* CalculateLike.  A vote is 1, -1, or 0 for a user the map does not hold. *)
(***************************************************************************)
NoVotes == [vote |-> [u \in User |-> 0], total |-> 0]

\* Mutant of Judged: a user votes once.
JudgedOnce(votes, event) ==
    IF votes.vote[event.user] # 0 \/ event.like = -1 THEN votes
    ELSE [vote |-> [votes.vote EXCEPT ![event.user] = event.like],
          total |-> votes.total + event.like]

\* A repeated vote and the removal of a like never given are illegal.
Judged(votes, event) ==
    IF votes.vote[event.user] = event.like \/ (votes.vote[event.user] = 0 /\ event.like = -1)
    THEN votes
    ELSE [vote |-> [votes.vote EXCEPT ![event.user] = event.like],
          total |-> votes.total + event.like]

\* The events are judged one after the other.
Votes(events) ==
    LET after[k \in 0..Len(events)] == IF k = 0 THEN NoVotes
                                        ELSE Judged(after[k - 1], events[k])
    IN  after[Len(events)]

CalculateLike(l) == Votes(Events(l))
=============================================================================
