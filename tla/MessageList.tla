---------------------------- MODULE MessageList ----------------------------
(***************************************************************************)
(* The linked list in which a chat server keeps the messages of one group  *)
(* (type List in chat/data.go), with the operations AppendMessage and      *)
(* Insertion perform on it.                                                *)
(*                                                                         *)
(* A node is a number: its place in the sequence "node", in the order in   *)
(* which the server allocated the nodes.  Nodes are never freed while the  *)
(* server keeps pointers to them (MessageLamport does), so a node that the *)
(* list no longer reaches is still there.  Pointers are kept as pointers:  *)
(* what the list shows is what Walk finds from Head.                       *)
(*                                                                         *)
(* A node holds the fields of Message that order or identify it (Lamport,  *)
(* Replica), its MsgId, and Content, which stands for Creator and Content  *)
(* together.  Likes are not here.                                          *)
(***************************************************************************)
EXTENDS Naturals, Sequences, FiniteSets

CONSTANT Latest    \* how many messages a screen shows; 10 in the code

ASSUME LatestAssumption == Latest \in Nat \ {0}

Nil == 0           \* Go's nil pointer: no node has this number

EmptyList == [node |-> <<>>, head |-> Nil, tail |-> Nil, tenStart |-> Nil,
              count |-> 0]

Nodes(l) == DOMAIN l.node

NodeOf(m, id, next) ==
    [lamport |-> m.lamport, replica |-> m.replica, content |-> m.content,
     id |-> id, next |-> next]

\* What a node tells its reader: the message without its place in the list.
Says(m) == [lamport |-> m.lamport, replica |-> m.replica, content |-> m.content]

\* What the nodes of the list say, those included that Walk misses.
Messages(l) == {Says(l.node[n]) : n \in Nodes(l)}

\* Every pointer of the list is nil or one of its nodes.
PointersHold(l) ==
    LET pointer == Nodes(l) \cup {Nil}
    IN  /\ {l.head, l.tail, l.tenStart} \subseteq pointer
        /\ \A n \in Nodes(l) : l.node[n].next \in pointer

\* The Next pointers, with Nil as its own successor.
Links(l) == [n \in Nodes(l) \cup {Nil} |-> IF n = Nil THEN Nil ELSE l.node[n].next]

(***************************************************************************)
(* The nodes met from Head along Next, in that order.                      *)
(***************************************************************************)
Walk(l) ==
    LET next == Links(l)
        at[k \in Nodes(l)] == IF k = 1 THEN l.head ELSE next[at[k - 1]]
        met == {k \in Nodes(l) : at[k] # Nil}
    IN  [k \in 1..Cardinality(met) |-> at[k]]

-----------------------------------------------------------------------------
(***************************************************************************)
(* LamportPlace: messages are ordered by Lamport, then by Replica.         *)
(***************************************************************************)
Precedes(m, n) == \/ m.lamport < n.lamport
                  \/ m.lamport = n.lamport /\ m.replica < n.replica

SameKey(m, n) == m.lamport = n.lamport /\ m.replica = n.replica

\* Mutant of PastTail: a message with Tail's own Lamport takes the shortcut too.
PastTailOnTie(l, m) == /\ l.head # Nil
                       /\ l.node[l.head].lamport < m.lamport
                       /\ l.node[l.tail].lamport <= m.lamport

\* The shortcut taken when the message is later than both ends of the list.
PastTail(l, m) == /\ l.head # Nil
                  /\ l.node[l.head].lamport < m.lamport
                  /\ l.node[l.tail].lamport < m.lamport

\* Otherwise the list is walked up to the first node that is not before m.
Stop(l, m) ==
    LET walk == Walk(l)
    IN  CHOOSE k \in 1..(Len(walk) + 1) :
            /\ \A j \in 1..(k - 1) : Precedes(l.node[walk[j]], m)
            /\ k <= Len(walk) => ~Precedes(l.node[walk[k]], m)

\* The k-th node of the list, as a set: empty when the list has no k-th node.
NodeAt(l, k) ==
    LET walk == Walk(l)
    IN  {n \in Nodes(l) : k \in DOMAIN walk /\ walk[k] = n}

\* The node the message already has, if LamportPlace comes across it.
Match(l, m) == IF PastTail(l, m) THEN {}
               ELSE {n \in NodeAt(l, Stop(l, m)) : SameKey(l.node[n], m)}

\* The node after which the message goes; no node when it becomes the head.
Place(l, m) == IF PastTail(l, m) THEN {n \in Nodes(l) : n = l.tail}
               ELSE NodeAt(l, Stop(l, m) - 1)

-----------------------------------------------------------------------------
\* Mutant of IndexReorder: the ids are left as they are.
IndexKept(l) == l

\* IndexReorder: the nodes of the list are numbered from 1 in its order.
IndexReorder(l) ==
    LET walk == Walk(l)
        places(n) == {k \in DOMAIN walk : walk[k] = n}
    IN  [l EXCEPT !.node =
            [n \in Nodes(l) |->
                IF places(n) = {} THEN l.node[n]
                ELSE [l.node[n] EXCEPT !.id = CHOOSE k \in places(n) : TRUE]]]

\* UpdateTenStart(insert), for a list that already links the new node.
UpdateTenStart(l, insert) ==
    IF l.count <= Latest THEN l.head
    ELSE IF Links(l)[l.tenStart] = insert THEN insert
    ELSE l.tenStart

\* List.Append and the end of AppendMessage: the message goes after Tail.
Appended(l, m) ==
    LET new == Len(l.node) + 1
        old == [n \in Nodes(l) |->
                  IF n = l.tail THEN [l.node[n] EXCEPT !.next = new] ELSE l.node[n]]
        linked == [node |-> Append(old, NodeOf(m, l.count + 1, Nil)),
                   head |-> IF l.head = Nil THEN new ELSE l.head,
                   tail |-> new,
                   tenStart |-> l.tenStart,
                   count |-> l.count + 1]
    IN  [linked EXCEPT !.tenStart = IF linked.count = 1 THEN new
                                    ELSE IF linked.count > Latest
                                    THEN Links(linked)[l.tenStart]
                                    ELSE @]

\* The first message of a group that Insertion itself had to create: MsgId
\* is set on the node's old Message and is 0 in the one that replaces it.
Created(m) == [node |-> <<NodeOf(m, 0, Nil)>>, head |-> 1, tail |-> 1,
               tenStart |-> 1, count |-> 1]

\* "Replace the information" of a message that is already in the list.
Replaced(l, m) ==
    [l EXCEPT !.node = [n \in Nodes(l) |->
        IF n \in Match(l, m) THEN [l.node[n] EXCEPT !.content = m.content]
                             ELSE l.node[n]]]

\* Mutant of TailAfter: Tail is not set for the first message of the list.
TailOnlyByShortcut(l, m, new) == IF PastTail(l, m) THEN new ELSE l.tail

\* Tail moves only when LamportPlace returned Tail by its shortcut, and not
\* when the walk reached the end of the list.
TailAfter(l, m, new) == IF l.head = Nil \/ PastTail(l, m) THEN new ELSE l.tail

\* Insertion links a message from another server after its place, or as head.
Inserted(l, m) ==
    LET new == Len(l.node) + 1
        place == Place(l, m)
        following == IF place = {} THEN l.head
                     ELSE l.node[CHOOSE n \in place : TRUE].next
        old == [n \in Nodes(l) |->
                  IF n \in place THEN [l.node[n] EXCEPT !.next = new] ELSE l.node[n]]
        linked == [node |-> Append(old, NodeOf(m, 0, following)),
                   head |-> IF place = {} THEN new ELSE l.head,
                   tail |-> TailAfter(l, m, new),
                   tenStart |-> l.tenStart,
                   count |-> l.count + 1]
    IN  IndexReorder([linked EXCEPT !.tenStart = UpdateTenStart(linked, new)])

\* Both operations dereference TenStart once the list has outgrown the screen;
\* the process panics when it is nil.
ScreenLost(l) == l.count >= Latest /\ l.tenStart = Nil
=============================================================================
