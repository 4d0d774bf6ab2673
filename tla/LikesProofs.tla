---------------------------- MODULE LikesProofs ----------------------------
(***************************************************************************)
(* An index of the log of likes means the same like on every server, for   *)
(* any servers, users, clocks and bounds: what is filed at a server, and   *)
(* what is on its way, is what the server of the liker has filed itself.   *)
(***************************************************************************)
EXTENDS Likes, WalkProofs

ListType == [node : Seq(NodeType), head : Nat, tail : Nat]

EventType == [user : User, like : {1, -1}, time : Nat]

\* The list k is l with one more node, which is the last and says "event".
Extends(k, l, event) ==
    /\ k \in ListType
    /\ Len(k.node) = Len(l.node) + 1
    /\ \A n \in Nodes(l) : Says(k.node[n]) = Says(l.node[n])
    /\ Says(k.node[Len(k.node)]) = Event(event.user, event.like, WireTime(event.time))

\* Totals and votes may be anything (members of V): the argument does not read
\* them.
GroupOf(V) == [made          : BOOLEAN,
               creator       : User \cup {Nobody},
               numbered      : BOOLEAN,
               total         : V,
               vote          : V,
               list          : ListType,
               msgTimestamp  : [Server -> Nat],
               likeTimestamp : [Server -> Nat],
               likeEvent     : [Server -> [Index -> Nat]]]

RequestOf(V) == [kind : {"UpdateMsg"}, from : Server, index : {1},
                 user : User \cup {Nobody}, like : V]
                \cup UpdateLikeType \cup CheckForMergeType

\* In the groups h, event is the i-th like the server o has performed.
Given(h, o, i, event) ==
    /\ i \in 1..h[o].likeTimestamp[o]
    /\ LikeFiled(h[o], o, i) = event

\* What g has filed, up to the counter of an origin or beyond, was given there.
Filed(h, g) ==
    \A o \in Server : \A i \in Index : g.likeEvent[o][i] # Nil =>
        /\ g.likeEvent[o][i] \in Nodes(g.list)
        /\ Given(h, o, i, LikeFiled(g, o, i))

\* Nothing below a counter is missing: CheckForMerge follows every entry.
Complete(g) ==
    \A o \in Server : \A i \in 1..g.likeTimestamp[o] :
        i \in Index /\ g.likeEvent[o][i] # Nil

\* A server without the group has nothing of it.
Unmade(g) == ~g.made => g = NoGroup

LogsHold(h) == \A s \in Server : Filed(h, h[s]) /\ Complete(h[s]) /\ Unmade(h[s])

\* The requests that may be on their way: a like was given at its origin.
Backed(h, V) ==
    {m \in RequestOf(V) : m.kind = "UpdateLike" =>
        Given(h, m.from, m.index, Event(m.user, m.like, m.time))}

Shape(V) ==
    /\ group \in [Server -> GroupOf(V)]
    /\ net \in [Server -> [Server -> Seq(Backed(group, V))]]
    /\ out \in [User -> Backed(group, V) \cup {NoRequest}]
    /\ clock \in [Server -> Nat]

\* The inductive invariant.
Inv == (\E V : Shape(V)) /\ LogsHold(group)

\* What a server has given stays given.
Grows(h, hh) ==
    \A o \in Server :
        /\ {h[o].likeTimestamp[o], hh[o].likeTimestamp[o]} \subseteq Nat
        /\ h[o].likeTimestamp[o] <= hh[o].likeTimestamp[o]
        /\ \A i \in 1..h[o].likeTimestamp[o] : LikeFiled(hh[o], o, i) = LikeFiled(h[o], o, i)

-----------------------------------------------------------------------------
(***************************************************************************)
(* Times and lists.                                                        *)
(***************************************************************************)
LEMMA WireTimes ==
    ASSUME NEW t \in Nat
    PROVE  WireTime(t) \in Nat /\ WireTime(WireTime(t)) = WireTime(t)
  BY DEF WireTime

LEMMA IntervalSeq ==
    ASSUME NEW S, NEW N \in Nat, NEW f \in [1..N -> S]
    PROVE  f \in Seq(S) /\ Len(f) = N /\ DOMAIN f = 1..N
  BY SeqDef

LEMMA NodesShape ==
    ASSUME NEW l \in ListType
    PROVE  /\ Len(l.node) \in Nat
           /\ Nodes(l) = 1..Len(l.node)
           /\ Nil = 0
           /\ \A n \in Nodes(l) : l.node[n] \in NodeType
  BY DEF ListType, Nodes, List!Nodes, Nil, List!Nil

LEMMA NodeSays ==
    ASSUME NEW n \in NodeType
    PROVE  Says(n) \in EventType /\ Says(n).time = WireTime(n.time)
  BY WireTimes DEF NodeType, Says, Event, EventType

\* The nodes of a list with one more, wherever it is linked.
LEMMA Linking ==
    ASSUME NEW l \in ListType, NEW event \in EventType, NEW after, NEW next \in Nat,
           NEW k \in ListType, k.node = LinkedAfter(l, event, after, next)
    PROVE  Extends(k, l, event)
<1> DEFINE old == [n \in Nodes(l) |-> IF n = after THEN [l.node[n] EXCEPT !.next = Len(l.node) + 1]
                                               ELSE l.node[n]]
           new == NodeOf(event, next)
<1>1. /\ Len(l.node) \in Nat
      /\ Nodes(l) = 1..Len(l.node)
      /\ \A n \in Nodes(l) : l.node[n] \in NodeType
  BY NodesShape
<1>2. new \in NodeType /\ Says(new) = Event(event.user, event.like, WireTime(event.time))
  BY DEF NodeOf, NodeType, EventType, Says
<1>3. \A n \in Nodes(l) : old[n] \in NodeType /\ Says(old[n]) = Says(l.node[n])
  BY <1>1 DEF NodeType, Says
<1>4. old \in Seq(NodeType) /\ Len(old) = Len(l.node)
  <2>1. old \in [1..Len(l.node) -> NodeType]
    BY <1>1, <1>3
  <2> QED
    BY <1>1, <2>1, IntervalSeq
<1>5. k.node = Append(old, new)
  BY DEF LinkedAfter
<1> HIDE DEF old, new
<1>6. /\ Len(k.node) = Len(l.node) + 1
      /\ \A n \in 1..Len(l.node) : k.node[n] = old[n]
      /\ k.node[Len(l.node) + 1] = new
  BY <1>1, <1>2, <1>4, <1>5, AppendProperties
<1> QED
  BY <1>1, <1>2, <1>3, <1>6 DEF Extends

LEMMA LinkedType ==
    ASSUME NEW l \in ListType, NEW event \in EventType, NEW after, NEW next \in Nat
    PROVE  LinkedAfter(l, event, after, next) \in Seq(NodeType)
<1> DEFINE old == [n \in Nodes(l) |-> IF n = after THEN [l.node[n] EXCEPT !.next = Len(l.node) + 1]
                                               ELSE l.node[n]]
           new == NodeOf(event, next)
<1>1. /\ Len(l.node) \in Nat
      /\ Nodes(l) = 1..Len(l.node)
      /\ \A n \in Nodes(l) : l.node[n] \in NodeType
  BY NodesShape
<1>2. new \in NodeType
  BY DEF NodeOf, NodeType, EventType
<1>3. old \in [1..Len(l.node) -> NodeType]
  BY <1>1 DEF NodeType
<1>4. old \in Seq(NodeType)
  BY <1>1, <1>3, IntervalSeq
<1>5. Append(old, new) \in Seq(NodeType)
  BY <1>2, <1>4, AppendProperties
<1> QED
  BY <1>5 DEF LinkedAfter

\* A like of one's own.
LEMMA AppendedExtends ==
    ASSUME NEW l \in ListType, NEW event \in EventType
    PROVE  Extends(Appended(l, event), l, event)
<1> DEFINE k == Appended(l, event)
<1>1. Len(l.node) + 1 \in Nat /\ Nil \in Nat
  BY NodesShape
<1>2. LinkedAfter(l, event, l.tail, Nil) \in Seq(NodeType)
  BY <1>1, LinkedType
<1>3. k \in ListType /\ k.node = LinkedAfter(l, event, l.tail, Nil)
  BY <1>1, <1>2 DEF Appended, ListType
<1> QED
  BY <1>1, <1>3, Linking

\* A like of another server, if it finds a place.
LEMMA SortedExtends ==
    ASSUME NEW l \in ListType, NEW event \in EventType, ~NoPlace(l, event.time)
    PROVE  Extends(Sorted(l, event), l, event)
<1> DEFINE k == Sorted(l, event)
           node == CHOOSE n \in Place(l, event.time) : TRUE
<1>1. Len(l.node) + 1 \in Nat /\ l.head \in Nat
  BY NodesShape DEF ListType
<1>2. CASE BecomesHead(l, event.time)
  <2>1. LinkedAfter(l, event, Nil, l.head) \in Seq(NodeType)
    BY <1>1, LinkedType
  <2>2. k \in ListType /\ k.node = LinkedAfter(l, event, Nil, l.head)
    BY <1>1, <1>2, <2>1 DEF Sorted, ListType
  <2> QED
    BY <1>1, <2>2, Linking
<1>3. CASE ~BecomesHead(l, event.time)
  <2>1. node \in Place(l, event.time)
    BY <1>3 DEF NoPlace
  <2>2. node \in Nodes(l)
    BY <2>1 DEF Place
  <2> HIDE DEF node
  <2>3. l.node[node].next \in Nat
    BY <2>2, NodesShape DEF NodeType
  <2>4. LinkedAfter(l, event, node, l.node[node].next) \in Seq(NodeType)
    BY <2>3, LinkedType
  <2>5. k \in ListType /\ k.node = LinkedAfter(l, event, node, l.node[node].next)
    BY <1>3, <2>4 DEF Sorted, ListType, node
  <2> QED
    BY <2>3, <2>5, Linking
<1> QED
  BY <1>2, <1>3

\* What was filed in a list is filed in a longer one.
LEMMA ExtendsFiled ==
    ASSUME NEW l \in ListType, NEW k, NEW event, Extends(k, l, event), NEW n \in Nodes(l)
    PROVE  n \in Nodes(k) /\ Says(k.node[n]) = Says(l.node[n]) /\ Len(k.node) \in Nodes(k)
           /\ Len(k.node) # n /\ Len(k.node) \in Nat /\ Len(k.node) # Nil
  BY NodesShape DEF Extends

-----------------------------------------------------------------------------
(***************************************************************************)
(* The group at one server.                                                *)
(***************************************************************************)
\* The group k is there and has the list and the log of g.
SameLog(k, g) ==
    /\ k.made
    /\ k.list = g.list
    /\ k.likeEvent = g.likeEvent
    /\ k.likeTimestamp = g.likeTimestamp

\* The group k has a like more than g, filed under an index of the origin o.
OneMore(k, g, o, i, event) ==
    /\ k.made
    /\ Extends(k.list, g.list, event)
    /\ k.likeEvent = [g.likeEvent EXCEPT ![o][i] = Len(k.list.node)]

LEMMA NoGroupType ==
    ASSUME NEW V, 0 \in V, NoVotes.vote \in V
    PROVE  NoGroup \in GroupOf(V) /\ CreateGroup \in GroupOf(V) /\ SameLog(CreateGroup, NoGroup)
<1>1. NoEvents \in ListType
  BY EmptySeq DEF NoEvents, ListType, Nil, List!Nil
<1>2. NoGroup \in GroupOf(V)
  BY <1>1 DEF NoGroup, GroupOf, Nil, List!Nil
<1>3. CreateGroup \in GroupOf(V) /\ SameLog(CreateGroup, NoGroup)
  BY <1>2 DEF CreateGroup, GroupOf, SameLog
<1> QED
  BY <1>2, <1>3

LEMMA Acknowledging ==
    ASSUME NEW n \in Nat, NEW i
    PROVE  Acknowledged(n, i) \in Nat /\ Acknowledged(n, i) \in {n, n + 1}
           /\ (Acknowledged(n, i) # n => i = n + 1)
  BY DEF Acknowledged

LEMMA WithMessageLog ==
    ASSUME NEW V, NEW g \in GroupOf(V), NEW creator \in User \cup {Nobody},
           NEW numbered \in BOOLEAN, NEW total \in V
    PROVE  /\ WithMessage(g, creator, numbered, total) \in GroupOf(V)
           /\ g.made => SameLog(WithMessage(g, creator, numbered, total), g)
           /\ WithMessage(g, creator, numbered, total).made = g.made
  BY DEF WithMessage, GroupOf, SameLog

LEMMA CountedMessage ==
    ASSUME NEW V, NEW g \in GroupOf(V), NEW o \in Server, NEW n \in Nat
    PROVE  /\ [g EXCEPT !.msgTimestamp[o] = n] \in GroupOf(V)
           /\ g.made => SameLog([g EXCEPT !.msgTimestamp[o] = n], g)
  BY DEF GroupOf, SameLog

LEMMA SameLogTrans ==
    ASSUME NEW a, NEW b, NEW c, SameLog(a, b), SameLog(b, c)
    PROVE  SameLog(a, c)
  BY DEF SameLog

\* Insertion of a message.
LEMMA MsgInsertedLog ==
    ASSUME NEW V, NEW g \in GroupOf(V), Unmade(g), 0 \in V, NoVotes.vote \in V,
           NEW m \in RequestOf(V), m.kind = "UpdateMsg"
    PROVE  /\ MsgInserted(g, m) \in GroupOf(V)
           /\ SameLog(MsgInserted(g, m), g)
<1>1. /\ m.from \in Server /\ m.user \in User \cup {Nobody} /\ m.like \in V
  BY DEF RequestOf, UpdateLikeType, CheckForMergeType
<1>2. CASE g.made /\ g.msgTimestamp[m.from] >= m.index
  BY <1>2 DEF MsgInserted, SameLog
<1>3. CASE ~(g.made /\ g.msgTimestamp[m.from] >= m.index) /\ HasMessage(g)
  <2>1. g.made
    BY <1>3 DEF Unmade, HasMessage, NoGroup
  <2>2. MsgInserted(g, m) = [g EXCEPT !.creator = m.user, !.total = m.like]
    BY <1>3 DEF MsgInserted
  <2> QED
    BY <1>1, <2>1, <2>2 DEF GroupOf, SameLog
<1>4. CASE ~(g.made /\ g.msgTimestamp[m.from] >= m.index) /\ ~HasMessage(g)
  <2> DEFINE there == [g EXCEPT !.made = TRUE]
             total == IF g.made THEN m.like ELSE 0
             with == WithMessage(there, m.user, g.made, total)
             n == Acknowledged(with.msgTimestamp[m.from], m.index)
  <2>1. there \in GroupOf(V) /\ SameLog(there, g)
    BY DEF GroupOf, SameLog
  <2>2. total \in V /\ g.made \in BOOLEAN
    BY <1>1 DEF GroupOf
  <2>3. MsgInserted(g, m) = [with EXCEPT !.msgTimestamp[m.from] = n]
    <3>1. with \in GroupOf(V)
      BY <1>1, <2>1, <2>2, WithMessageLog
    <3> QED
      BY <1>4, <3>1 DEF MsgInserted
  <2> HIDE DEF there, total
  <2>4. with \in GroupOf(V) /\ SameLog(with, there)
    BY <1>1, <2>1, <2>2, WithMessageLog DEF SameLog
  <2>5. n \in Nat
    <3>1. with.msgTimestamp[m.from] \in Nat
      BY <1>1, <2>4 DEF GroupOf
    <3> QED
      BY <3>1, Acknowledging
  <2> HIDE DEF with, n
  <2>6. MsgInserted(g, m) \in GroupOf(V) /\ SameLog(MsgInserted(g, m), with)
    <3>1. with.made
      BY <2>4 DEF SameLog
    <3> QED
      BY <1>1, <2>3, <2>4, <2>5, <3>1, CountedMessage
  <2> QED
    BY <2>1, <2>4, <2>6, SameLogTrans
<1> QED
  BY <1>2, <1>3, <1>4

\* The message a like is for, made up or not.
LEMMA MsgToLikeLog ==
    ASSUME NEW V, NEW g \in GroupOf(V), Unmade(g), 0 \in V, NoVotes.vote \in V,
           1 \in V, -1 \in V, NEW m \in UpdateLikeType
    PROVE  /\ MsgToLike(g, m) \in GroupOf(V)
           /\ SameLog(MsgToLike(g, m), g)
<1>1. m.from \in Server /\ m.user \in User /\ m.like \in V
  BY DEF UpdateLikeType
<1>2. CASE HasMessage(g)
  <2>1. g.made
    BY <1>2 DEF Unmade, HasMessage, NoGroup
  <2> QED
    BY <1>2, <2>1 DEF MsgToLike, SameLog
<1>3. CASE ~HasMessage(g) /\ g.made
  <2>1. MsgToLike(g, m) = WithMessage(g, m.user, TRUE, m.like)
    BY <1>3 DEF MsgToLike
  <2>2. m.user \in User \cup {Nobody} /\ TRUE \in BOOLEAN
    BY <1>1
  <2>3. WithMessage(g, m.user, TRUE, m.like) \in GroupOf(V)
        /\ SameLog(WithMessage(g, m.user, TRUE, m.like), g)
    BY <1>1, <1>3, <2>2, WithMessageLog
  <2> QED
    BY <2>1, <2>3
<1>4. CASE ~HasMessage(g) /\ ~g.made
  <2> DEFINE with == WithMessage(CreateGroup, m.user, FALSE, 0)
             n == Acknowledged(with.msgTimestamp[m.from], m.index)
  <2>1. g = NoGroup
    BY <1>4 DEF Unmade
  <2>2. CreateGroup \in GroupOf(V) /\ SameLog(CreateGroup, g) /\ CreateGroup.made
    BY <2>1, NoGroupType DEF SameLog
  <2>3. with \in GroupOf(V) /\ SameLog(with, CreateGroup) /\ with.made
    BY <1>1, <2>2, WithMessageLog DEF SameLog
  <2>4. MsgToLike(g, m) = [with EXCEPT !.msgTimestamp[m.from] = n]
    BY <1>4, <2>3 DEF MsgToLike
  <2>5. n \in Nat
    <3>1. with.msgTimestamp[m.from] \in Nat
      BY <1>1, <2>3 DEF GroupOf
    <3> QED
      BY <3>1, Acknowledging
  <2> HIDE DEF with, n
  <2>6. MsgToLike(g, m) \in GroupOf(V) /\ SameLog(MsgToLike(g, m), with)
    BY <1>1, <2>3, <2>4, <2>5, CountedMessage
  <2> QED
    BY <2>2, <2>3, <2>6, SameLogTrans
<1> QED
  BY <1>2, <1>3, <1>4

\* The like of another server.
LEMMA LikedLog ==
    ASSUME NEW V, NEW g \in GroupOf(V), g.made, NEW m \in UpdateLikeType, m.index \in Index,
           ~NoPlace(g.list, m.time),
           NEW W, V \subseteq W, Liked(g, m).total \in W, Liked(g, m).vote \in W
    PROVE  /\ Liked(g, m) \in GroupOf(W)
           /\ OneMore(Liked(g, m), g, m.from, m.index, Event(m.user, m.like, m.time))
           /\ Liked(g, m).likeTimestamp =
                 [g.likeTimestamp EXCEPT ![m.from] = Acknowledged(@, m.index)]
<1> DEFINE event == Event(m.user, m.like, m.time)
           list == Sorted(g.list, event)
           votes == CalculateLike(list)
           k == Liked(g, m)
           n == Acknowledged(g.likeTimestamp[m.from], m.index)
<1>1. event \in EventType /\ event.time = m.time /\ m.from \in Server
  BY DEF UpdateLikeType, Event, EventType
<1>2. g.list \in ListType /\ g.likeTimestamp \in [Server -> Nat]
      /\ g.likeEvent \in [Server -> [Index -> Nat]]
  BY DEF GroupOf
<1> HIDE DEF event
<1>3. Extends(list, g.list, event)
  BY <1>1, <1>2, SortedExtends
<1>4. k = [g EXCEPT !.list = list, !.total = votes.total, !.vote = votes.vote,
                    !.likeEvent[m.from][m.index] = Len(list.node),
                    !.likeTimestamp[m.from] = n]
  BY <1>1, <1>2 DEF Liked, GroupOf, event
<1>5. n \in Nat
  BY <1>1, <1>2, Acknowledging
<1>6. list \in ListType /\ Len(list.node) \in Nat
  BY <1>3, NodesShape DEF Extends
<1> HIDE DEF list, votes, n
<1>7. k.total = votes.total /\ k.vote = votes.vote
  BY <1>4 DEF GroupOf
<1>8. votes.total \in W /\ votes.vote \in W
  BY <1>7
<1> HIDE DEF k
<1>9. k \in GroupOf(W)
  BY <1>1, <1>2, <1>4, <1>5, <1>6, <1>8 DEF GroupOf
<1>10. /\ k.made /\ k.list = list
       /\ k.likeEvent = [g.likeEvent EXCEPT ![m.from][m.index] = Len(list.node)]
       /\ k.likeTimestamp = [g.likeTimestamp EXCEPT ![m.from] = n]
  BY <1>4 DEF GroupOf
<1> QED
  BY <1>3, <1>9, <1>10 DEF k, n, OneMore, event

\* The like of a user of the server itself.
LEMMA PerformedLog ==
    ASSUME NEW V, NEW g \in GroupOf(V), g.made, NEW s \in Server, NEW like \in {1, -1},
           NEW user \in User, NEW second \in Nat, g.likeTimestamp[s] + 1 \in Index,
           NEW W, V \subseteq W, PerformingLike(g, s, like, user, second).total \in W,
           PerformingLike(g, s, like, user, second).vote \in W
    PROVE  LET k == PerformingLike(g, s, like, user, second)
           IN  /\ k \in GroupOf(W)
               /\ OneMore(k, g, s, g.likeTimestamp[s] + 1, Event(user, like, LocalTime(second)))
               /\ k.likeTimestamp = [g.likeTimestamp EXCEPT ![s] = g.likeTimestamp[s] + 1]
<1> DEFINE event == Event(user, like, LocalTime(second))
           list == Appended(g.list, event)
           k == PerformingLike(g, s, like, user, second)
           total == g.total + like
           vote == [g.vote EXCEPT ![user] = like]
           new == Len(g.list.node) + 1
<1>1. event \in EventType
  BY DEF Event, EventType, LocalTime
<1>2. g.list \in ListType /\ g.likeTimestamp \in [Server -> Nat]
      /\ g.likeEvent \in [Server -> [Index -> Nat]]
  BY DEF GroupOf
<1> HIDE DEF event
<1>3. Extends(list, g.list, event)
  BY <1>1, <1>2, AppendedExtends
<1>4. k = [g EXCEPT !.total = total, !.vote = vote, !.list = list,
                    !.likeTimestamp[s] = g.likeTimestamp[s] + 1,
                    !.likeEvent[s][g.likeTimestamp[s] + 1] = new]
  BY <1>2 DEF PerformingLike, GroupOf, event
<1>5. list \in ListType /\ Len(list.node) = new /\ new \in Nat
  BY <1>2, <1>3, NodesShape DEF Extends
<1> HIDE DEF list, total, vote, new
<1>6. k.total = total /\ k.vote = vote
  BY <1>4 DEF GroupOf
<1>7. total \in W /\ vote \in W
  BY <1>6
<1> HIDE DEF k
<1>8. k \in GroupOf(W)
  <2>1. g.likeTimestamp[s] + 1 \in Nat
    BY <1>2
  <2>2. [g.likeTimestamp EXCEPT ![s] = g.likeTimestamp[s] + 1] \in [Server -> Nat]
    BY <1>2, <2>1
  <2>3. [g.likeEvent EXCEPT ![s][g.likeTimestamp[s] + 1] = new] \in [Server -> [Index -> Nat]]
    BY <1>2, <1>5
  <2> QED
    BY <1>4, <1>5, <1>7, <2>2, <2>3 DEF GroupOf
<1>9. /\ k.made /\ k.list = list
      /\ k.likeEvent = [g.likeEvent EXCEPT ![s][g.likeTimestamp[s] + 1] = new]
      /\ k.likeTimestamp = [g.likeTimestamp EXCEPT ![s] = g.likeTimestamp[s] + 1]
  BY <1>4 DEF GroupOf
<1> QED
  BY <1>3, <1>5, <1>8, <1>9 DEF k, OneMore, event

-----------------------------------------------------------------------------
(***************************************************************************)
(* All groups: what the change of one means for the logs.                  *)
(***************************************************************************)
\* What was filed in g is filed in k, next to the new like.
LEMMA OneMoreFiled ==
    ASSUME NEW V, NEW g \in GroupOf(V), NEW W, NEW k \in GroupOf(W),
           NEW o \in Server, NEW i \in Index, NEW event, OneMore(k, g, o, i, event)
    PROVE  /\ k.likeEvent[o][i] # Nil /\ k.likeEvent[o][i] \in Nodes(k.list)
           /\ LikeFiled(k, o, i) = Event(event.user, event.like, WireTime(event.time))
           /\ \A p \in Server : \A j \in Index : ~(p = o /\ j = i) =>
                 /\ k.likeEvent[p][j] = g.likeEvent[p][j]
                 /\ g.likeEvent[p][j] \in Nodes(g.list) =>
                       /\ k.likeEvent[p][j] \in Nodes(k.list)
                       /\ LikeFiled(k, p, j) = LikeFiled(g, p, j)
<1>1. g.list \in ListType /\ Extends(k.list, g.list, event)
      /\ g.likeEvent \in [Server -> [Index -> Nat]]
  BY DEF OneMore, GroupOf
<1>2. \A n \in Nodes(g.list) : n \in Nodes(k.list) /\ Says(k.list.node[n]) = Says(g.list.node[n])
  BY <1>1, ExtendsFiled
<1>3. Len(k.list.node) \in Nodes(k.list) /\ Len(k.list.node) # Nil
  BY <1>1, NodesShape DEF Extends
<1>4. k.likeEvent[o][i] = Len(k.list.node)
  BY <1>1 DEF OneMore
<1>5. LikeFiled(k, o, i) = Event(event.user, event.like, WireTime(event.time))
  BY <1>1, <1>4 DEF LikeFiled, Extends
<1>6. ASSUME NEW p \in Server, NEW j \in Index, ~(p = o /\ j = i)
      PROVE  k.likeEvent[p][j] = g.likeEvent[p][j]
  BY <1>1, <1>6 DEF OneMore
<1> QED
  BY <1>2, <1>3, <1>4, <1>5, <1>6 DEF LikeFiled

LEMMA GivenGrows ==
    ASSUME NEW h, NEW hh, Grows(h, hh), NEW o \in Server, NEW i, NEW event, Given(h, o, i, event)
    PROVE  Given(hh, o, i, event)
  BY DEF Given, Grows

LEMMA FiledGrows ==
    ASSUME NEW h, NEW hh, Grows(h, hh), NEW g, Filed(h, g)
    PROVE  Filed(hh, g)
  BY GivenGrows DEF Filed

LEMMA BackedGrows ==
    ASSUME NEW h, NEW hh, Grows(h, hh), NEW V, NEW W, V \subseteq W
    PROVE  Backed(h, V) \subseteq Backed(hh, W)
<1> SUFFICES ASSUME NEW m \in Backed(h, V) PROVE m \in Backed(hh, W)
  OBVIOUS
<1>1. m \in RequestOf(W)
  BY DEF Backed, RequestOf
<1>2. ASSUME m.kind = "UpdateLike"
      PROVE  Given(hh, m.from, m.index, Event(m.user, m.like, m.time))
  <2>1. m.from \in Server
    BY <1>2 DEF Backed, RequestOf, UpdateLikeType, CheckForMergeType
  <2>2. Given(h, m.from, m.index, Event(m.user, m.like, m.time))
    BY <1>2 DEF Backed
  <2> QED
    BY <2>1, <2>2, GivenGrows
<1> QED
  BY <1>1, <1>2 DEF Backed

\* The log of one server changes, and its own part of it only grows.
LEMMA OneGroupHolds ==
    ASSUME NEW V, NEW W, V \subseteq W, NEW h \in [Server -> GroupOf(V)], LogsHold(h),
           NEW s \in Server, NEW k \in GroupOf(W), NEW hh, hh = [h EXCEPT ![s] = k],
           h[s].likeTimestamp[s] <= k.likeTimestamp[s],
           \A i \in 1..h[s].likeTimestamp[s] : LikeFiled(k, s, i) = LikeFiled(h[s], s, i),
           Grows(h, hh) => Filed(hh, k), Complete(k), k.made
    PROVE  hh \in [Server -> GroupOf(W)] /\ LogsHold(hh) /\ Grows(h, hh)
<1>1. GroupOf(V) \subseteq GroupOf(W)
  BY DEF GroupOf
<1>2. hh \in [Server -> GroupOf(W)]
  BY <1>1
<1>3. hh[s] = k /\ \A t \in Server \ {s} : hh[t] = h[t]
  OBVIOUS
<1>4. \A t \in Server : h[t].likeTimestamp[t] \in Nat /\ hh[t].likeTimestamp[t] \in Nat
  BY <1>2 DEF GroupOf
<1>5. Grows(h, hh)
  BY <1>3, <1>4 DEF Grows
<1>6. ASSUME NEW t \in Server PROVE Filed(hh, hh[t]) /\ Complete(hh[t]) /\ Unmade(hh[t])
  <2>1. CASE t = s
    BY <1>3, <1>5, <2>1 DEF Unmade
  <2>2. CASE t # s
    BY <1>3, <1>5, <2>2, FiledGrows DEF LogsHold
  <2> QED
    BY <2>1, <2>2
<1> QED
  BY <1>2, <1>5, <1>6 DEF LogsHold

LEMMA SameLogHolds ==
    ASSUME NEW V, NEW W, V \subseteq W, NEW h \in [Server -> GroupOf(V)], LogsHold(h),
           NEW s \in Server, NEW k \in GroupOf(W), SameLog(k, h[s]),
           NEW hh, hh = [h EXCEPT ![s] = k]
    PROVE  hh \in [Server -> GroupOf(W)] /\ LogsHold(hh) /\ Grows(h, hh)
<1>1. \A o, i : LikeFiled(k, o, i) = LikeFiled(h[s], o, i)
  BY DEF LikeFiled, SameLog
<1>2. h[s].likeTimestamp[s] \in Nat
  BY DEF GroupOf
<1>3. Grows(h, hh) => Filed(hh, k)
  <2> SUFFICES ASSUME Grows(h, hh) PROVE Filed(hh, k)
    OBVIOUS
  <2>1. Filed(hh, h[s])
    BY FiledGrows DEF LogsHold
  <2> QED
    BY <1>1, <2>1 DEF Filed, SameLog
<1>4. Complete(k) /\ k.made
  BY DEF LogsHold, Complete, SameLog
<1>5. /\ h[s].likeTimestamp[s] <= k.likeTimestamp[s]
      /\ \A i \in 1..h[s].likeTimestamp[s] : LikeFiled(k, s, i) = LikeFiled(h[s], s, i)
  BY <1>1, <1>2 DEF SameLog
<1> QED
  BY <1>3, <1>4, <1>5, OneGroupHolds

\* A server files a like that its origin has given.
LEMMA LikedHolds ==
    ASSUME NEW V, NEW W, V \subseteq W, NEW h \in [Server -> GroupOf(V)], LogsHold(h),
           NEW s \in Server, NEW k \in GroupOf(W), NEW o \in Server, o # s, NEW i \in Index,
           NEW event \in EventType, OneMore(k, h[s], o, i, event), Given(h, o, i, event),
           k.likeTimestamp = [h[s].likeTimestamp EXCEPT ![o] = Acknowledged(@, i)],
           NEW hh, hh = [h EXCEPT ![s] = k]
    PROVE  hh \in [Server -> GroupOf(W)] /\ LogsHold(hh) /\ Grows(h, hh)
<1> DEFINE g == h[s]
<1>1. g \in GroupOf(V) /\ Filed(h, g) /\ Complete(g) /\ Filed(h, h[o]) /\ Complete(h[o])
  BY DEF LogsHold
<1>2. g.likeTimestamp \in [Server -> Nat] /\ h[o].likeTimestamp[o] \in Nat
  BY DEF GroupOf
<1> HIDE DEF g
<1>3. WireTime(event.time) = event.time
  <2>1. h[o].likeEvent[o][i] \in Nodes(h[o].list)
    BY <1>1 DEF Given, Complete, Filed
  <2>2. h[o].list \in ListType
    BY DEF GroupOf
  <2>3. PICK n \in NodeType : event = Says(n)
    BY <2>1, <2>2, NodesShape DEF Given, LikeFiled
  <2>4. event.time = WireTime(n.time) /\ n.time \in Nat
    BY <2>3, NodeSays DEF NodeType
  <2> QED
    BY <2>4, WireTimes
<1>4. Event(event.user, event.like, WireTime(event.time)) = event
  BY <1>3 DEF Event, EventType
<1>5. k.likeTimestamp[s] = g.likeTimestamp[s]
  BY <1>2 DEF g
<1>6. ASSUME NEW j \in 1..g.likeTimestamp[s] PROVE LikeFiled(k, s, j) = LikeFiled(g, s, j)
  <2>1. j \in Index /\ g.likeEvent[s][j] \in Nodes(g.list)
    BY <1>1 DEF Complete, Filed
  <2> QED
    BY <1>1, <2>1, OneMoreFiled DEF g
<1>7. Grows(h, hh) => Filed(hh, k)
  <2> SUFFICES ASSUME Grows(h, hh), NEW p \in Server, NEW j \in Index, k.likeEvent[p][j] # Nil
               PROVE  k.likeEvent[p][j] \in Nodes(k.list) /\ Given(hh, p, j, LikeFiled(k, p, j))
    BY DEF Filed
  <2>1. CASE p = o /\ j = i
    BY <1>1, <1>4, <2>1, OneMoreFiled, GivenGrows DEF g
  <2>2. CASE ~(p = o /\ j = i)
    <3>1. k.likeEvent[p][j] = g.likeEvent[p][j]
      BY <1>1, <2>2, OneMoreFiled DEF g
    <3>2. g.likeEvent[p][j] \in Nodes(g.list) /\ Given(h, p, j, LikeFiled(g, p, j))
      BY <1>1, <3>1 DEF Filed
    <3>3. k.likeEvent[p][j] \in Nodes(k.list) /\ LikeFiled(k, p, j) = LikeFiled(g, p, j)
      BY <1>1, <2>2, <3>2, OneMoreFiled DEF g
    <3> QED
      BY <3>2, <3>3, GivenGrows
  <2> QED
    BY <2>1, <2>2
<1>8. Complete(k)
  <2> SUFFICES ASSUME NEW p \in Server, NEW j \in 1..k.likeTimestamp[p]
               PROVE  j \in Index /\ k.likeEvent[p][j] # Nil
    BY DEF Complete
  <2>1. CASE p = o /\ j = i
    BY <1>1, <2>1, OneMoreFiled DEF g
  <2>2. CASE ~(p = o /\ j = i)
    <3>1. j \in 1..g.likeTimestamp[p]
      <4>1. CASE p # o
        BY <1>2, <4>1 DEF g
      <4>2. CASE p = o
        BY <1>2, <2>2, <4>2 DEF Acknowledged, g
      <4> QED
        BY <4>1, <4>2
    <3>2. j \in Index /\ g.likeEvent[p][j] # Nil
      BY <1>1, <3>1 DEF Complete
    <3> QED
      BY <1>1, <2>2, <3>2, OneMoreFiled DEF g
  <2> QED
    BY <2>1, <2>2
<1>9. /\ h[s].likeTimestamp[s] <= k.likeTimestamp[s] /\ k.made
      /\ \A j \in 1..h[s].likeTimestamp[s] : LikeFiled(k, s, j) = LikeFiled(h[s], s, j)
  BY <1>2, <1>5, <1>6 DEF g, OneMore
<1> QED
  BY <1>7, <1>8, <1>9, OneGroupHolds

NextIndex(h, s) == h[s].likeTimestamp[s] + 1

\* A server gives a like of its own.
LEMMA PerformedHolds ==
    ASSUME NEW V, NEW W, V \subseteq W, NEW h \in [Server -> GroupOf(V)], LogsHold(h),
           NEW s \in Server, NEW k \in GroupOf(W), NEW event \in EventType, NEW n \in Index,
           n = NextIndex(h, s), OneMore(k, h[s], s, n, event),
           k.likeTimestamp = [h[s].likeTimestamp EXCEPT ![s] = n],
           NEW hh, hh = [h EXCEPT ![s] = k]
    PROVE  /\ hh \in [Server -> GroupOf(W)] /\ LogsHold(hh) /\ Grows(h, hh)
           /\ Given(hh, s, n, Event(event.user, event.like, WireTime(event.time)))
<1> DEFINE g == h[s]
<1>1. g \in GroupOf(V) /\ Filed(h, g) /\ Complete(g)
  BY DEF LogsHold
<1>2. g.likeTimestamp \in [Server -> Nat]
  BY DEF GroupOf
<1> HIDE DEF g
<1>3. k.likeTimestamp[s] = n /\ g.likeTimestamp[s] + 1 = n /\ n \in Nat
      /\ \A p \in Server \ {s} : k.likeTimestamp[p] = g.likeTimestamp[p]
  BY <1>2 DEF g, NextIndex
<1>4. ASSUME NEW j \in 1..g.likeTimestamp[s] PROVE LikeFiled(k, s, j) = LikeFiled(g, s, j)
  <2>1. j \in Index /\ g.likeEvent[s][j] \in Nodes(g.list) /\ j # n
    BY <1>1, <1>2, <1>3 DEF Complete, Filed
  <2> QED
    BY <1>1, <2>1, OneMoreFiled DEF g
<1>5. /\ k.likeEvent[s][n] # Nil /\ k.likeEvent[s][n] \in Nodes(k.list)
      /\ LikeFiled(k, s, n) = Event(event.user, event.like, WireTime(event.time))
  BY <1>1, OneMoreFiled DEF g
<1>6. hh[s] = k /\ n \in 1..k.likeTimestamp[s]
  BY <1>2, <1>3 DEF g
<1>7. Grows(h, hh) => Filed(hh, k)
  <2> SUFFICES ASSUME Grows(h, hh), NEW p \in Server, NEW j \in Index, k.likeEvent[p][j] # Nil
               PROVE  k.likeEvent[p][j] \in Nodes(k.list) /\ Given(hh, p, j, LikeFiled(k, p, j))
    BY DEF Filed
  <2>1. CASE p = s /\ j = n
    BY <1>5, <1>6, <2>1 DEF Given
  <2>2. CASE ~(p = s /\ j = n)
    <3>1. k.likeEvent[p][j] = g.likeEvent[p][j]
      BY <1>1, <2>2, OneMoreFiled DEF g
    <3>2. g.likeEvent[p][j] \in Nodes(g.list) /\ Given(h, p, j, LikeFiled(g, p, j))
      BY <1>1, <3>1 DEF Filed
    <3>3. k.likeEvent[p][j] \in Nodes(k.list) /\ LikeFiled(k, p, j) = LikeFiled(g, p, j)
      BY <1>1, <2>2, <3>2, OneMoreFiled DEF g
    <3> QED
      BY <3>2, <3>3, GivenGrows
  <2> QED
    BY <2>1, <2>2
<1>8. Complete(k)
  <2> SUFFICES ASSUME NEW p \in Server, NEW j \in 1..k.likeTimestamp[p]
               PROVE  j \in Index /\ k.likeEvent[p][j] # Nil
    BY DEF Complete
  <2>1. CASE p = s /\ j = n
    BY <1>5, <2>1
  <2>2. CASE ~(p = s /\ j = n)
    <3>1. j \in 1..g.likeTimestamp[p]
      BY <1>2, <1>3, <2>2
    <3>2. j \in Index /\ g.likeEvent[p][j] # Nil
      BY <1>1, <3>1 DEF Complete
    <3> QED
      BY <1>1, <2>2, <3>2, OneMoreFiled DEF g
  <2> QED
    BY <2>1, <2>2
<1>9. hh \in [Server -> GroupOf(W)] /\ LogsHold(hh) /\ Grows(h, hh)
  <2>1. /\ h[s].likeTimestamp[s] <= k.likeTimestamp[s] /\ k.made
        /\ \A j \in 1..h[s].likeTimestamp[s] : LikeFiled(k, s, j) = LikeFiled(h[s], s, j)
    BY <1>2, <1>3, <1>4 DEF g, OneMore
  <2> QED
    BY <1>7, <1>8, <2>1, OneGroupHolds
<1>10. Given(hh, s, n, Event(event.user, event.like, WireTime(event.time)))
  BY <1>5, <1>6 DEF Given
<1> QED
  BY <1>9, <1>10

-----------------------------------------------------------------------------
(***************************************************************************)
(* The steps: what they do to the groups, and what is then on the streams. *)
(***************************************************************************)
Effect(V, W) ==
    /\ V \subseteq W
    /\ group' \in [Server -> GroupOf(W)]
    /\ LogsHold(group')
    /\ Grows(group, group')

LEMMA NoEffect ==
    ASSUME NEW V, Shape(V), LogsHold(group), UNCHANGED group
    PROVE  Effect(V, V)
<1>1. \A o \in Server : group[o].likeTimestamp[o] \in Nat
  BY DEF Shape, GroupOf
<1>2. Grows(group, group')
  BY <1>1 DEF Grows
<1> QED
  BY <1>2 DEF Effect, Shape

\* What was on its way is still backed.
LEMMA Waiting ==
    ASSUME NEW V, Shape(V), NEW W, Effect(V, W)
    PROVE  /\ net \in [Server -> [Server -> Seq(Backed(group', W))]]
           /\ out \in [User -> Backed(group', W) \cup {NoRequest}]
<1>1. Backed(group, V) \subseteq Backed(group', W)
  BY BackedGrows DEF Effect
<1>2. Seq(Backed(group, V)) \subseteq Seq(Backed(group', W))
  BY <1>1, SeqMonotonic
<1> QED
  BY <1>1, <1>2 DEF Shape

LEMMA Assemble ==
    ASSUME NEW V, NEW W, Effect(V, W), clock' \in [Server -> Nat],
           net' \in [Server -> [Server -> Seq(Backed(group', W))]],
           out' \in [User -> Backed(group', W) \cup {NoRequest}]
    PROVE  Inv'
  BY DEF Effect, Inv, Shape

LEMMA Sending ==
    ASSUME NEW B, NEW s \in Server, NEW reqs, \A t \in Server : reqs[t] \in Seq(B),
           NEW queued \in [Server -> [Server -> Seq(B)]], Send(s, reqs, queued)
    PROVE  net' \in [Server -> [Server -> Seq(B)]]
<1>1. \A t \in Server : queued[s][t] \o reqs[t] \in Seq(B)
  BY ConcatProperties
<1>2. [t \in Server |-> IF t \in linked[s] /\ t \in up THEN queued[s][t] \o reqs[t]
                                                       ELSE queued[s][t]] \in [Server -> Seq(B)]
  BY <1>1
<1> QED
  BY <1>2 DEF Send

\* The request a server takes, and what it leaves.
LEMMA Taking ==
    ASSUME NEW V, Shape(V), NEW s \in Server, NEW t \in Server, NEW kind, Takes(s, t, kind)
    PROVE  /\ Head(net[s][t]) \in Backed(group, V)
           /\ Head(net[s][t]).kind = kind
           /\ \A B : net \in [Server -> [Server -> Seq(B)]] =>
                 Handled(s, t) \in [Server -> [Server -> Seq(B)]]
<1>1. net[s][t] \in Seq(Backed(group, V)) /\ net[s][t] # <<>>
  BY DEF Shape, Takes
<1>2. Head(net[s][t]) \in Backed(group, V)
  BY <1>1, HeadTailProperties
<1>3. ASSUME NEW B, net \in [Server -> [Server -> Seq(B)]]
      PROVE  Handled(s, t) \in [Server -> [Server -> Seq(B)]]
  <2>1. Tail(net[s][t]) \in Seq(B)
    BY <1>1, <1>3, HeadTailProperties
  <2> QED
    BY <1>3, <2>1 DEF Handled
<1> QED
  BY <1>2, <1>3 DEF Takes

-----------------------------------------------------------------------------
(***************************************************************************)
(* Streams.                                                                *)
(***************************************************************************)
LEMMA StreamStep ==
    ASSUME Inv, NEW s \in Server, NEW t \in Server, ReplicaSetUp(s, t) \/ Break(s, t)
    PROVE  Inv'
<1>1. PICK V : Shape(V)
  BY DEF Inv
<1>2. Effect(V, V)
  BY <1>1, NoEffect DEF Inv, ReplicaSetUp, Break
<1>3. net \in [Server -> [Server -> Seq(Backed(group', V))]]
      /\ out \in [User -> Backed(group', V) \cup {NoRequest}]
  BY <1>1, <1>2, Waiting
<1>4. net' \in [Server -> [Server -> Seq(Backed(group', V))]]
  <2>1. <<>> \in Seq(Backed(group', V))
    BY EmptySeq
  <2>2. net' = net \/ net' = [net EXCEPT ![s][t] = <<>>]
    BY DEF ReplicaSetUp, Break
  <2>3. \A B : net \in [Server -> [Server -> Seq(B)]] /\ <<>> \in Seq(B) =>
           [net EXCEPT ![s][t] = <<>>] \in [Server -> [Server -> Seq(B)]]
    OBVIOUS
  <2> QED
    BY <1>3, <2>1, <2>2, <2>3
<1>5. out' = out /\ clock' = clock
  BY DEF ReplicaSetUp, Break
<1> QED
  BY <1>1, <1>2, <1>3, <1>4, <1>5, Assemble DEF Shape

LEMMA PanicStep ==
    ASSUME Inv, NEW s \in Server, Panic(s)
    PROVE  Inv'
<1>1. PICK V : Shape(V)
  BY DEF Inv
<1>2. Effect(V, V)
  BY <1>1, NoEffect DEF Inv, Panic
<1>3. net \in [Server -> [Server -> Seq(Backed(group', V))]]
      /\ out \in [User -> Backed(group', V) \cup {NoRequest}]
  BY <1>1, <1>2, Waiting
<1>4. net' \in [Server -> [Server -> Seq(Backed(group', V))]]
  <2>1. <<>> \in Seq(Backed(group', V))
    BY EmptySeq
  <2> QED
    BY <1>3, <2>1 DEF Panic
<1>5. out' = out /\ clock' = clock
  BY DEF Panic
<1> QED
  BY <1>1, <1>2, <1>3, <1>4, <1>5, Assemble DEF Shape

LEMMA EntropyStep ==
    ASSUME Inv, NEW s \in Server, Entropy(s)
    PROVE  Inv'
<1> DEFINE req == CheckForMerge(s, group[s])
           reqs == [t \in Server |-> <<req>>]
<1>1. PICK V : Shape(V)
  BY DEF Inv
<1>2. Effect(V, V)
  BY <1>1, NoEffect DEF Inv, Entropy
<1>3. net \in [Server -> [Server -> Seq(Backed(group', V))]]
      /\ out \in [User -> Backed(group', V) \cup {NoRequest}]
  BY <1>1, <1>2, Waiting
<1>4. req \in CheckForMergeType
  <2>1. group[s] \in GroupOf(V)
    BY <1>1 DEF Shape
  <2> QED
    BY <2>1 DEF GroupOf, CheckForMerge, CheckForMergeType
<1>5. req \in Backed(group', V)
  BY <1>4 DEF Backed, RequestOf, CheckForMergeType
<1> HIDE DEF req
<1>6. \A t \in Server : reqs[t] \in Seq(Backed(group', V))
  BY <1>5
<1>7. Send(s, reqs, net)
  BY DEF Entropy, ReplicaBroadcast, req
<1> HIDE DEF reqs
<1>8. net' \in [Server -> [Server -> Seq(Backed(group', V))]]
  BY <1>3, <1>6, <1>7, Sending
<1>9. out' = out /\ clock' = clock
  BY DEF Entropy
<1> QED
  BY <1>1, <1>2, <1>3, <1>8, <1>9, Assemble DEF Shape

LEMMA BroadcastStep ==
    ASSUME Inv, NEW c \in User, Broadcast(c)
    PROVE  Inv'
<1> DEFINE s == Home[c]
           reqs == [t \in Server |-> <<out[c]>>]
<1>1. PICK V : Shape(V)
  BY DEF Inv
<1>2. Effect(V, V)
  BY <1>1, NoEffect DEF Inv, Broadcast
<1>3. net \in [Server -> [Server -> Seq(Backed(group', V))]]
      /\ out \in [User -> Backed(group', V) \cup {NoRequest}]
  BY <1>1, <1>2, Waiting
<1>4. s \in Server
  BY HomeAssumption
<1>5. out[c] \in Backed(group', V)
  BY <1>3 DEF Broadcast
<1>6. \A t \in Server : reqs[t] \in Seq(Backed(group', V))
  BY <1>5
<1>7. Send(s, reqs, net)
  BY DEF Broadcast, ReplicaBroadcast
<1> HIDE DEF reqs, s
<1>8. net' \in [Server -> [Server -> Seq(Backed(group', V))]]
  BY <1>3, <1>4, <1>6, <1>7, Sending
<1>9. out' \in [User -> Backed(group', V) \cup {NoRequest}] /\ clock' = clock
  BY <1>3 DEF Broadcast
<1> QED
  BY <1>1, <1>2, <1>8, <1>9, Assemble DEF Shape

-----------------------------------------------------------------------------
(***************************************************************************)
(* Groups.                                                                 *)
(***************************************************************************)
\* A step that leaves the log of the one group it changes as it was.
LEMMA SameLogEffect ==
    ASSUME NEW V, Shape(V), LogsHold(group), NEW W, V \subseteq W, NEW s \in Server,
           NEW k \in GroupOf(W), SameLog(k, group[s]), group' = [group EXCEPT ![s] = k]
    PROVE  Effect(V, W)
<1>1. group \in [Server -> GroupOf(V)]
  BY DEF Shape
<1>2. \A hh : hh = [group EXCEPT ![s] = k] =>
         hh \in [Server -> GroupOf(W)] /\ LogsHold(hh) /\ Grows(group, hh)
  BY <1>1, SameLogHolds
<1> QED
  BY <1>2 DEF Effect

LEMMA GroupMadeStep ==
    ASSUME Inv, NEW s \in Server, GroupMade(s)
    PROVE  Inv'
<1>1. PICK V : Shape(V)
  BY DEF Inv
<1>2. PICK W : W = V \cup {0, NoVotes.vote}
  OBVIOUS
<1>3. group[s] = NoGroup
  BY DEF Inv, LogsHold, Unmade, GroupMade
<1>4. CreateGroup \in GroupOf(W) /\ SameLog(CreateGroup, group[s])
  BY <1>2, <1>3, NoGroupType
<1>5. Effect(V, W)
  BY <1>1, <1>2, <1>4, SameLogEffect DEF Inv, GroupMade
<1>6. net' = net /\ out' = out /\ clock' = clock
  BY DEF GroupMade
<1> QED
  BY <1>1, <1>5, <1>6, Waiting, Assemble DEF Shape

LEMMA PostStep ==
    ASSUME Inv, Post
    PROVE  Inv'
<1> DEFINE s == Home[Author]
           with == WithMessage(group[s], Author, TRUE, 0)
           k == [with EXCEPT !.msgTimestamp[s] = 1]
           req == UpdateMsg(s, Author, 0)
<1>1. PICK V : Shape(V)
  BY DEF Inv
<1>2. PICK W : W = V \cup {0}
  OBVIOUS
<1>3. s \in Server /\ group[s].made /\ Author \in User
  BY HomeAssumption, AuthorAssumption DEF Post, Serves
<1>4. group[s] \in GroupOf(W)
  BY <1>1, <1>2, <1>3 DEF Shape, GroupOf
<1>5. with \in GroupOf(W) /\ SameLog(with, group[s])
  <2>1. Author \in User \cup {Nobody} /\ TRUE \in BOOLEAN /\ 0 \in W
    BY <1>2, <1>3
  <2> HIDE DEF s
  <2> QED
    BY <1>3, <1>4, <2>1, WithMessageLog
<1>6. group' = [group EXCEPT ![s] = k]
  BY <1>1, <1>3 DEF Post, Shape
<1>7. req \in RequestOf(W) /\ req.kind = "UpdateMsg"
  BY <1>2, <1>3 DEF UpdateMsg, RequestOf
<1>8. out' = [out EXCEPT ![Author] = req] /\ net' = net /\ clock' = clock
  BY DEF Post
<1> HIDE DEF s, with, req
<1>9. k \in GroupOf(W) /\ SameLog(k, group[s])
  BY <1>3, <1>5, CountedMessage, SameLogTrans DEF SameLog
<1> HIDE DEF k
<1>10. Effect(V, W)
  BY <1>1, <1>2, <1>3, <1>6, <1>9, SameLogEffect DEF Inv
<1>11. req \in Backed(group', W)
  BY <1>7 DEF Backed
<1>12. out' \in [User -> Backed(group', W) \cup {NoRequest}]
  BY <1>1, <1>3, <1>8, <1>10, <1>11, Waiting
<1> QED
  BY <1>1, <1>8, <1>10, <1>12, Waiting, Assemble DEF Shape

LEMMA ReceiveUpdateMsgStep ==
    ASSUME Inv, NEW s \in Server, NEW t \in Server, ReceiveUpdateMsg(s, t)
    PROVE  Inv'
<1> DEFINE m == Head(net[s][t])
           k == MsgInserted(group[t], m)
<1>1. PICK V : Shape(V)
  BY DEF Inv
<1>2. PICK W : W = V \cup {0, NoVotes.vote}
  OBVIOUS
<1>3. /\ m \in Backed(group, V) /\ m.kind = "UpdateMsg"
      /\ \A B : net \in [Server -> [Server -> Seq(B)]] =>
            Handled(s, t) \in [Server -> [Server -> Seq(B)]]
  BY <1>1, Taking DEF ReceiveUpdateMsg
<1>4. group' = [group EXCEPT ![t] = k] /\ net' = Handled(s, t) /\ out' = out /\ clock' = clock
  BY <1>1 DEF ReceiveUpdateMsg, Shape
<1>5. m \in RequestOf(W)
  BY <1>2, <1>3 DEF Backed, RequestOf
<1>6. group[t] \in GroupOf(W) /\ Unmade(group[t])
  BY <1>1, <1>2 DEF Shape, GroupOf, Inv, LogsHold
<1> HIDE DEF m
<1>7. k \in GroupOf(W) /\ SameLog(k, group[t])
  BY <1>2, <1>3, <1>5, <1>6, MsgInsertedLog
<1> HIDE DEF k
<1>8. Effect(V, W)
  BY <1>1, <1>2, <1>4, <1>7, SameLogEffect DEF Inv
<1>9. net' \in [Server -> [Server -> Seq(Backed(group', W))]]
  BY <1>1, <1>3, <1>4, <1>8, Waiting
<1> QED
  BY <1>1, <1>4, <1>8, <1>9, Waiting, Assemble DEF Shape

LEMMA PerformStep ==
    ASSUME Inv, NEW c \in User, NEW like \in {1, -1}, Perform(c, like)
    PROVE  Inv'
<1> DEFINE s == Home[c]
           n == group[s].likeTimestamp[s] + 1
<1>1. PICK V : Shape(V)
  BY DEF Inv
<1>2. s \in Server /\ group[s].made /\ group[s].likeTimestamp[s] < MaxLikes[s]
  BY HomeAssumption DEF Perform, Serves
<1>3. group[s] \in GroupOf(V) /\ clock[s] \in Nat /\ group[s].likeTimestamp[s] \in Nat
  BY <1>1, <1>2 DEF Shape, GroupOf
<1>4. PICK second \in clock[s]..MaxSeconds :
         /\ clock' = [clock EXCEPT ![s] = second]
         /\ group' = [group EXCEPT ![s] = PerformingLike(@, s, like, c, second)]
         /\ out' = [out EXCEPT ![c] = UpdateLike(s, n, Event(c, like, WireTime(LocalTime(second))))]
  BY DEF Perform
<1>5. second \in Nat
  BY <1>3, MaxSecondsAssumption
<1>6. LocalTime(second) \in Nat /\ WireTime(LocalTime(second)) \in Nat
  BY <1>5, WireTimes DEF LocalTime
<1>7. n \in Index
  <2>1. n \in 1..MaxLikes[s]
    BY <1>2, <1>3, MaxLikesAssumption
  <2> QED
    BY <1>2, <2>1 DEF Index
<1> DEFINE k == PerformingLike(group[s], s, like, c, second)
           event == Event(c, like, LocalTime(second))
           sent == Event(c, like, WireTime(LocalTime(second)))
           req == UpdateLike(s, n, sent)
<1>8. PICK W : W = V \cup {k.total, k.vote}
  OBVIOUS
<1>9. k \in GroupOf(W) /\ OneMore(k, group[s], s, n, event)
      /\ k.likeTimestamp = [group[s].likeTimestamp EXCEPT ![s] = n]
  <2>1. V \subseteq W /\ k.total \in W /\ k.vote \in W
    BY <1>8
  <2> HIDE DEF s
  <2> QED
    BY <1>2, <1>3, <1>5, <1>7, <2>1, PerformedLog
<1>10. group' = [group EXCEPT ![s] = k] /\ out' = [out EXCEPT ![c] = req] /\ net' = net
  BY <1>1, <1>2, <1>4 DEF Shape, Perform
<1>11. Event(event.user, event.like, WireTime(event.time)) = sent
       /\ sent.user = c /\ sent.like = like /\ sent.time = WireTime(LocalTime(second))
       /\ event \in EventType
  BY <1>6 DEF Event, EventType
<1> HIDE DEF k, event, sent, s
<1>12. /\ group' \in [Server -> GroupOf(W)] /\ LogsHold(group') /\ Grows(group, group')
       /\ Given(group', s, n, sent)
  <2>1. group \in [Server -> GroupOf(V)] /\ LogsHold(group) /\ V \subseteq W
    BY <1>1, <1>8 DEF Shape, Inv
  <2>2. \A hh : hh = [group EXCEPT ![s] = k] =>
          /\ hh \in [Server -> GroupOf(W)] /\ LogsHold(hh) /\ Grows(group, hh)
          /\ Given(hh, s, n, Event(event.user, event.like, WireTime(event.time)))
    <3>1. n = NextIndex(group, s)
      BY DEF NextIndex
    <3> HIDE DEF n
    <3>2. /\ s \in Server /\ k \in GroupOf(W) /\ event \in EventType /\ n \in Index
          /\ OneMore(k, group[s], s, n, event)
          /\ k.likeTimestamp = [group[s].likeTimestamp EXCEPT ![s] = n]
      BY <1>2, <1>7, <1>9, <1>11
    <3>3. ASSUME NEW hh, hh = [group EXCEPT ![s] = k]
          PROVE  hh \in [Server -> GroupOf(W)] /\ LogsHold(hh) /\ Grows(group, hh)
      BY ONLY <3>2, <3>3, <2>1, <3>1, PerformedHolds
    <3>4. ASSUME NEW hh, hh = [group EXCEPT ![s] = k]
          PROVE  Given(hh, s, n, Event(event.user, event.like, WireTime(event.time)))
      BY ONLY <3>2, <3>4, <2>1, <3>1, PerformedHolds
    <3> QED
      BY <3>3, <3>4
  <2> QED
    BY <1>10, <1>11, <2>2
<1>13. Effect(V, W)
  BY <1>8, <1>12 DEF Effect
<1>14. req \in UpdateLikeType /\ req.kind = "UpdateLike" /\ req.from = s /\ req.index = n
       /\ Event(req.user, req.like, req.time) = sent
  BY <1>2, <1>3, <1>6, <1>11 DEF UpdateLike, UpdateLikeType, sent
<1> HIDE DEF req, n
<1>15. req \in Backed(group', W)
  BY <1>12, <1>14 DEF Backed, RequestOf
<1>16. out' \in [User -> Backed(group', W) \cup {NoRequest}]
  BY <1>1, <1>10, <1>13, <1>15, Waiting
<1>17. clock' \in [Server -> Nat]
  BY <1>1, <1>4, <1>5 DEF Shape
<1> QED
  BY <1>1, <1>10, <1>13, <1>16, <1>17, Waiting, Assemble

LEMMA ReceiveUpdateLikeStep ==
    ASSUME Inv, NEW s \in Server, NEW t \in Server, ReceiveUpdateLike(s, t)
    PROVE  Inv'
<1> DEFINE m == Head(net[s][t])
           g == group[t]
           k == LikeInserted(g, m)
           event == Event(m.user, m.like, m.time)
<1>1. PICK V : Shape(V)
  BY DEF Inv
<1>2. /\ m \in Backed(group, V) /\ m.kind = "UpdateLike"
      /\ \A B : net \in [Server -> [Server -> Seq(B)]] =>
            Handled(s, t) \in [Server -> [Server -> Seq(B)]]
  BY <1>1, Taking DEF ReceiveUpdateLike
<1>3. group' = [group EXCEPT ![t] = k] /\ net' = Handled(s, t) /\ out' = out /\ clock' = clock
      /\ ~LikePanics(g, m)
  BY <1>1 DEF ReceiveUpdateLike, Shape
<1>4. m \in UpdateLikeType /\ Given(group, m.from, m.index, event) /\ m.from \in Server
  BY <1>2 DEF Backed, RequestOf, UpdateLikeType, CheckForMergeType
<1>5. g \in GroupOf(V) /\ Unmade(g) /\ group \in [Server -> GroupOf(V)]
  BY <1>1 DEF Shape, Inv, LogsHold
<1>6. event \in EventType
  BY <1>4 DEF UpdateLikeType, Event, EventType
<1> HIDE DEF m
<1>7. \E W : Effect(V, W)
  <2>1. CASE RedundantLike(g, m)
    <3>1. group' = group
      BY <1>3, <1>5, <2>1 DEF LikeInserted
    <3> QED
      BY <1>1, <3>1, NoEffect DEF Inv
  <2>2. CASE ~RedundantLike(g, m)
    <3> DEFINE b == MsgToLike(g, m)
    <3>1. PICK U : U = V \cup {0, 1, -1, NoVotes.vote}
      OBVIOUS
    <3>2. PICK W : W = U \cup {k.total, k.vote}
      OBVIOUS
    <3>3. g \in GroupOf(U)
      BY <1>5, <3>1 DEF GroupOf
    <3>4. b \in GroupOf(U) /\ SameLog(b, g)
      BY <1>4, <1>5, <3>1, <3>3, MsgToLikeLog
    <3>5. b.made /\ ~NoPlace(b.list, m.time)
      BY <1>3, <2>2, <3>4 DEF LikePanics, SameLog
    <3>6. m.index \in Index
      BY <1>4 DEF Given, Inv, LogsHold, Complete
    <3>7. k = Liked(b, m)
      BY <2>2 DEF LikeInserted
    <3>8. k \in GroupOf(W) /\ OneMore(k, b, m.from, m.index, event)
          /\ k.likeTimestamp = [b.likeTimestamp EXCEPT ![m.from] = Acknowledged(@, m.index)]
      BY <1>4, <3>2, <3>4, <3>5, <3>6, <3>7, LikedLog
    <3> HIDE DEF b, k
    <3>9. OneMore(k, g, m.from, m.index, event)
          /\ k.likeTimestamp = [g.likeTimestamp EXCEPT ![m.from] = Acknowledged(@, m.index)]
      BY <3>4, <3>8 DEF OneMore, SameLog, Extends
    <3>10. m.from # t
      <4> SUFFICES ASSUME m.from = t PROVE FALSE
        OBVIOUS
      <4>1. m.index \in 1..g.likeTimestamp[t] /\ g.likeTimestamp[t] \in Nat
        BY <1>4, <1>5 DEF Given, GroupOf
      <4>2. g.made
        <5>1. NoGroup.likeTimestamp[t] = 0
          BY DEF NoGroup
        <5> QED
          BY <1>5, <4>1, <5>1 DEF Unmade
      <4> QED
        BY <2>2, <4>1, <4>2 DEF RedundantLike
    <3> HIDE DEF event
    <3>11. \A hh : hh = [group EXCEPT ![t] = k] =>
             hh \in [Server -> GroupOf(W)] /\ LogsHold(hh) /\ Grows(group, hh)
      <4>1. V \subseteq W /\ LogsHold(group)
        BY <3>1, <3>2 DEF Inv
      <4> QED
        BY <1>4, <1>5, <1>6, <3>6, <3>8, <3>9, <3>10, <4>1, LikedHolds
    <3> QED
      BY <1>3, <3>1, <3>2, <3>11 DEF Effect
  <2> QED
    BY <2>1, <2>2
<1>8. PICK W : Effect(V, W)
  BY <1>7
<1>9. net' \in [Server -> [Server -> Seq(Backed(group', W))]]
  BY <1>1, <1>2, <1>3, <1>8, Waiting
<1> QED
  BY <1>1, <1>3, <1>8, <1>9, Waiting, Assemble DEF Shape

\* The likes sent again to a server that lacks them are the ones filed here.
LEMMA MissingBacked ==
    ASSUME NEW V, NEW h \in [Server -> GroupOf(V)], LogsHold(h), NEW t \in Server,
           NEW m \in CheckForMergeType, NEW o \in Server
    PROVE  Missing(h[t], m, o) \in Seq(Backed(h, V))
<1> DEFINE g == h[t]
           B == Backed(h, V)
           known == m.likes[o]
           here == g.likeTimestamp[o]
           N == IF here > known THEN here - known ELSE 0
           msg == UpdateMsg(o, g.creator, g.total)
           first == IF m.msgs[o] < g.msgTimestamp[o] THEN <<msg>> ELSE <<>>
           like(k) == UpdateLike(o, known + k, LikeFiled(g, o, known + k))
           likes == [k \in 1..N |-> like(k)]
<1>1. g \in GroupOf(V) /\ Filed(h, g) /\ Complete(g)
  BY DEF LogsHold
<1>2. known \in Nat /\ here \in Nat /\ N \in Nat
  BY <1>1 DEF GroupOf, CheckForMergeType
<1>3. msg \in B
  <2>1. g.creator \in User \cup {Nobody} /\ g.total \in V
    BY <1>1 DEF GroupOf
  <2> QED
    BY <2>1 DEF UpdateMsg, Backed, RequestOf
<1>4. ASSUME NEW k \in 1..N
      PROVE  like(k) \in B
  <2> DEFINE i == known + k
             event == LikeFiled(g, o, i)
  <2>1. i \in 1..here /\ i \in Nat
    BY <1>2
  <2>2. g.likeEvent[o][i] \in Nodes(g.list) /\ Given(h, o, i, event)
    BY <1>1, <2>1 DEF Complete, Filed
  <2>3. event \in EventType
    <3>1. g.list \in ListType
      BY <1>1 DEF GroupOf
    <3> QED
      BY <2>2, <3>1, NodesShape, NodeSays DEF LikeFiled
  <2> HIDE DEF i, event
  <2>4. Event(event.user, event.like, event.time) = event
    BY <2>3 DEF Event, EventType
  <2>5. UpdateLike(o, i, event) \in B
    BY <2>1, <2>2, <2>3, <2>4 DEF UpdateLike, UpdateLikeType, EventType, Backed, RequestOf
  <2> QED
    BY <2>5 DEF i, event
<1> HIDE DEF like, msg, B
<1>5. first \in Seq(B)
  BY <1>3, EmptySeq
<1>6. likes \in Seq(B)
  <2>1. likes \in [1..N -> B]
    BY <1>4
  <2> HIDE DEF N, likes
  <2> QED
    BY <1>2, <2>1, IntervalSeq
<1>7. Missing(h[t], m, o) = first \o likes
  BY DEF Missing, msg, like
<1> QED
  BY <1>5, <1>6, <1>7, ConcatProperties DEF B

LEMMA ReceiveCheckForMergeStep ==
    ASSUME Inv, NEW s \in Server, NEW t \in Server, ReceiveCheckForMerge(s, t)
    PROVE  Inv'
<1> DEFINE m == Head(net[s][t])
           rest(o) == IF m.todo = {o} THEN Handled(s, t)
                      ELSE [net EXCEPT ![s][t][1].todo = @ \ {o}]
           reqs(o) == [u \in Server |-> IF u = m.replica THEN Missing(group[t], m, o) ELSE <<>>]
<1>1. PICK V : Shape(V)
  BY DEF Inv
<1>2. Effect(V, V)
  BY <1>1, NoEffect DEF Inv, ReceiveCheckForMerge
<1>3. net \in [Server -> [Server -> Seq(Backed(group', V))]]
      /\ out \in [User -> Backed(group', V) \cup {NoRequest}]
  BY <1>1, <1>2, Waiting
<1>4. Takes(s, t, "CheckForMerge") /\ group' = group /\ out' = out /\ clock' = clock
  BY DEF ReceiveCheckForMerge
<1>5. /\ m \in Backed(group, V) /\ m.kind = "CheckForMerge"
      /\ \A B : net \in [Server -> [Server -> Seq(B)]] =>
            Handled(s, t) \in [Server -> [Server -> Seq(B)]]
  BY <1>1, <1>4, Taking
<1>6. m \in CheckForMergeType
  BY <1>5 DEF Backed, RequestOf, UpdateLikeType
<1>7. PICK o \in m.todo : IF group[t].made THEN Send(t, reqs(o), rest(o)) ELSE net' = rest(o)
  BY DEF ReceiveCheckForMerge
<1>8. o \in Server
  BY <1>6 DEF CheckForMergeType
<1> DEFINE B == Backed(group', V)
           cut == [m EXCEPT !.todo = @ \ {o}]
<1>9. cut \in B
  <2>1. cut \in CheckForMergeType
    BY <1>6 DEF CheckForMergeType
  <2> QED
    BY <2>1 DEF Backed, RequestOf, CheckForMergeType
<1>10. rest(o) \in [Server -> [Server -> Seq(B)]]
  <2>1. CASE m.todo = {o}
    BY <1>3, <1>5, <2>1
  <2>2. CASE m.todo # {o}
    <3>1. net[s][t] \in Seq(B) /\ net[s][t] # <<>>
      BY <1>3, <1>4 DEF Takes
    <3>2. Len(net[s][t]) \in Nat /\ 1 \in 1..Len(net[s][t]) /\ m = net[s][t][1]
          /\ net[s][t] \in [1..Len(net[s][t]) -> B]
      BY <3>1, HeadTailProperties, EmptySeq
    <3>3. [net[s][t] EXCEPT ![1] = cut] \in Seq(B)
      <4> HIDE DEF cut, B
      <4>1. [net[s][t] EXCEPT ![1] = cut] \in [1..Len(net[s][t]) -> B]
        BY <1>9, <3>2
      <4> QED
        BY <3>2, <4>1, IntervalSeq
    <3>4. rest(o) = [net EXCEPT ![s][t] = [net[s][t] EXCEPT ![1] = cut]]
      BY <1>3, <2>2, <3>2
    <3> HIDE DEF cut, B, rest
    <3> QED
      BY <1>3, <3>3, <3>4 DEF B
  <2> QED
    BY <2>1, <2>2
<1>11. ASSUME group[t].made
       PROVE  \A u \in Server : reqs(o)[u] \in Seq(B)
  <2>1. Missing(group[t], m, o) \in Seq(Backed(group, V))
    BY <1>1, <1>6, <1>8, MissingBacked DEF Shape, Inv
  <2>2. Missing(group[t], m, o) \in Seq(B)
    BY <1>4, <2>1
  <2>3. <<>> \in Seq(B)
    BY EmptySeq
  <2> HIDE DEF B
  <2> QED
    BY <2>2, <2>3
<1>12. net' \in [Server -> [Server -> Seq(B)]]
  <2> HIDE DEF B, rest, reqs
  <2> QED
    BY <1>7, <1>10, <1>11, Sending
<1> QED
  BY <1>1, <1>2, <1>3, <1>4, <1>12, Assemble DEF Shape

-----------------------------------------------------------------------------
(***************************************************************************)
(* The invariant.                                                          *)
(***************************************************************************)
LEMMA InitInv ==
    ASSUME Init
    PROVE  Inv
<1>1. PICK V : V = {0, NoVotes.vote}
  OBVIOUS
<1>2. NoGroup \in GroupOf(V)
  BY <1>1, NoGroupType
<1>3. group \in [Server -> GroupOf(V)] /\ \A s \in Server : group[s] = NoGroup
  BY <1>2 DEF Init
<1>4. <<>> \in Seq(Backed(group, V))
  BY EmptySeq
<1>5. Shape(V)
  <2>1. net \in [Server -> [Server -> Seq(Backed(group, V))]]
    BY <1>4 DEF Init
  <2>2. out \in [User -> Backed(group, V) \cup {NoRequest}] /\ clock \in [Server -> Nat]
    BY DEF Init
  <2> QED
    BY <1>3, <2>1, <2>2 DEF Shape
<1>6. \A o \in Server : NoGroup.likeTimestamp[o] = 0 /\ \A i \in Index : NoGroup.likeEvent[o][i] = Nil
  BY DEF NoGroup
<1>7. LogsHold(group)
  BY <1>3, <1>6 DEF LogsHold, Filed, Complete, Unmade
<1> QED
  BY <1>5, <1>7 DEF Inv

LEMMA StepKeeps ==
    ASSUME Inv, [Next]_vars
    PROVE  Inv'
<1>1. CASE Post
  BY <1>1, PostStep
<1>2. ASSUME NEW c \in User, UserStep(c)
      PROVE  Inv'
  <2>1. ASSUME Like(c) \/ Unlike(c)
        PROVE  Inv'
    BY <2>1, PerformStep DEF Like, Unlike
  <2> QED
    BY <1>2, <2>1, BroadcastStep DEF UserStep
<1>3. ASSUME NEW s \in Server, GroupMade(s) \/ Entropy(s)
      PROVE  Inv'
  BY <1>3, GroupMadeStep, EntropyStep
<1>4. ASSUME NEW s \in Server, NEW t \in Server, ReplicaSetUp(s, t) \/ Break(s, t) \/ Receive(s, t)
      PROVE  Inv'
  <2>1. CASE ReceiveUpdateMsg(s, t)
    BY <2>1, ReceiveUpdateMsgStep
  <2>2. CASE ReceiveUpdateLike(s, t)
    BY <2>2, ReceiveUpdateLikeStep
  <2>3. CASE ReceiveCheckForMerge(s, t)
    BY <2>3, ReceiveCheckForMergeStep
  <2>4. CASE UpdateLikePanics(s, t) \/ CheckForMergePanics(s, t)
    BY <2>4, PanicStep DEF UpdateLikePanics, CheckForMergePanics
  <2> QED
    BY <1>4, <2>1, <2>2, <2>3, <2>4, StreamStep DEF Receive
<1>5. CASE UNCHANGED vars
  BY <1>5 DEF vars, Inv, Shape, LogsHold, Filed, Complete, Unmade, Backed, Given, LikeFiled
<1> QED
  BY <1>1, <1>2, <1>3, <1>4, <1>5 DEF Next

\* Whatever the interleaving, the breaks of streams and the panics: a server
\* files under an index only the like its origin has performed under it, files
\* one for every index it has counted, and sends no other.
THEOREM LikesInvariance == Spec => []Inv
<1>1. Init => Inv
  BY InitInv
<1>2. Inv /\ [Next]_vars => Inv'
  BY StepKeeps
<1> QED
  BY <1>1, <1>2, PTL DEF Spec

\* The likes of any origin may be sent on from any server: on all servers that
\* have counted it, an index is the same like of the same user at the same time.
THEOREM LikesAgree == Spec => []LikeLogAgreement
<1>1. Inv => LikeLogAgreement
  <2> SUFFICES ASSUME Inv, NEW s \in Server, NEW o \in Server,
                      NEW i \in 1..group[s].likeTimestamp[o]
               PROVE  /\ i <= group[o].likeTimestamp[o]
                      /\ LikeFiled(group[s], o, i) = LikeFiled(group[o], o, i)
    BY DEF LikeLogAgreement
  <2>1. Given(group, o, i, LikeFiled(group[s], o, i))
    BY DEF Inv, LogsHold, Complete, Filed
  <2> QED
    BY <2>1 DEF Given
<1> QED
  BY <1>1, LikesInvariance, PTL


-----------------------------------------------------------------------------
(***************************************************************************)
(* What the lists show, and in which order.                                *)
(***************************************************************************)
\* v holds the nodes of l that its readers meet, in the order they meet them.
Shows(l, v) == Chain(Len(l.node), l.head, List!Links(l), v)

\* The times along v do not go back.
InTime(l, v) ==
    \A i, j \in 1..Len(v) : i < j => l.node[v[i]].time <= l.node[v[j]].time

\* Tail is shown, and is no later than the second c of the server's clock.
TailBefore(l, v, c) ==
    l.tail # Nil => /\ \E p \in 1..Len(v) : v[p] = l.tail
                    /\ l.node[l.tail].time <= LocalTime(c)

ListKept(l, c) == \E v : Shows(l, v) /\ InTime(l, v) /\ TailBefore(l, v, c)

LEMMA WalkIs ==
    ASSUME NEW l \in ListType, NEW v, Shows(l, v)
    PROVE  Walk(l) = v
<1>1. Len(l.node) \in Nat /\ Nodes(l) = 1..Len(l.node)
  BY NodesShape
<1>2. List!Links(l)[0] = 0
  BY DEF List!Links, List!Nil
<1>3. From(Nodes(l), l.head, List!Links(l)) = v
  BY <1>1, <1>2, ChainIsWalk DEF Shows
<1>4. \A S : List!Cardinality(S) = Cardinality(S)
  BY DEF Cardinality, List!Cardinality
<1> QED
  BY <1>3, <1>4 DEF Walk, List!Walk, From, Nodes, List!Nodes, List!Nil

LEMMA ShowsParts ==
    ASSUME NEW l \in ListType, NEW v, Shows(l, v)
    PROVE  /\ Len(v) \in Nat
           /\ v \in [1..Len(v) -> Nodes(l)]
           /\ \A k \in 1..Len(v) : v[k] \in 1..Len(l.node)
           /\ l.head = IF Len(v) = 0 THEN Nil ELSE v[1]
           /\ \A k \in 1..Len(v) : l.node[v[k]].next = IF k = Len(v) THEN Nil ELSE v[k + 1]
<1>1. Len(l.node) \in Nat /\ Nodes(l) = 1..Len(l.node) /\ Nil = 0
  BY NodesShape
<1>2. /\ Len(v) \in Nat
      /\ v \in [1..Len(v) -> Nodes(l)]
      /\ l.head = IF Len(v) = 0 THEN 0 ELSE v[1]
      /\ \A k \in 1..Len(v) : List!Links(l)[v[k]] = IF k = Len(v) THEN 0 ELSE v[k + 1]
  BY <1>1, ChainParts DEF Shows
<1>3. \A n \in Nodes(l) : List!Links(l)[n] = l.node[n].next
  BY <1>1 DEF List!Links, List!Nil, Nodes
<1>4. \A k \in 1..Len(v) : v[k] \in Nodes(l)
  BY <1>2
<1> QED
  BY <1>1, <1>2, <1>3, <1>4

\* The pointers and the times of a list with one more node.
LEMMA LinkedLinks ==
    ASSUME NEW l \in ListType, NEW event \in EventType, NEW after, NEW next \in Nat,
           NEW k \in ListType, k.node = LinkedAfter(l, event, after, next)
    PROVE  LET N == Len(l.node)
           IN  /\ N \in Nat /\ Len(k.node) = N + 1
               /\ \A n \in 1..N : /\ List!Links(k)[n] = IF n = after THEN N + 1
                                                        ELSE List!Links(l)[n]
                                  /\ k.node[n].time = l.node[n].time
                                  /\ l.node[n].time \in Nat
               /\ List!Links(k)[N + 1] = next
               /\ k.node[N + 1].time = event.time
<1> DEFINE N == Len(l.node)
           old == [n \in Nodes(l) |-> IF n = after THEN [l.node[n] EXCEPT !.next = Len(l.node) + 1]
                                               ELSE l.node[n]]
           new == NodeOf(event, next)
<1>1. /\ N \in Nat /\ N + 1 \in Nat
      /\ Nodes(l) = 1..N /\ List!Nodes(l) = 1..N
      /\ \A n \in 1..N : l.node[n] \in NodeType
      /\ List!Nil = 0
  BY NodesShape DEF Nodes, List!Nil
<1>2. \A n \in 1..N : /\ old[n] \in NodeType
                      /\ old[n].time = l.node[n].time
                      /\ old[n].next = IF n = after THEN N + 1 ELSE l.node[n].next
  BY <1>1 DEF NodeType
<1>3. old \in Seq(NodeType) /\ Len(old) = N
  <2>1. old \in [1..N -> NodeType]
    BY <1>1, <1>2
  <2> HIDE DEF old
  <2> QED
    BY <1>1, <2>1, IntervalSeq
<1>4. k.node = Append(old, new)
  BY DEF LinkedAfter
<1>5. new.next = next /\ new.time = event.time /\ new \in NodeType
  BY DEF NodeOf, NodeType, EventType
<1> HIDE DEF old, new
<1>6. /\ Len(k.node) = N + 1
      /\ \A n \in 1..N : k.node[n] = old[n]
      /\ k.node[N + 1] = new
  BY <1>1, <1>3, <1>4, <1>5, AppendProperties
<1>7. Nodes(k) = 1..(N + 1) /\ List!Nodes(k) = 1..(N + 1)
  BY <1>6, NodesShape DEF Nodes
<1>8. /\ \A n \in 1..(N + 1) : List!Links(k)[n] = k.node[n].next
      /\ \A n \in 1..N : List!Links(l)[n] = l.node[n].next
  BY <1>1, <1>7 DEF List!Links
<1>9. \A n \in 1..N : n \in 1..(N + 1) /\ l.node[n].time \in Nat
  BY <1>1 DEF NodeType
<1>10. N + 1 \in 1..(N + 1)
  BY <1>1
<1> QED
  BY <1>1, <1>2, <1>5, <1>6, <1>8, <1>9, <1>10


\* A like of one's own follows Tail, and everything after Tail is cut off.
LEMMA AppendedKept ==
    ASSUME NEW l \in ListType, NEW c \in Nat, NEW d \in Nat, c <= d, ListKept(l, c),
           NEW event \in EventType, event.time = LocalTime(d)
    PROVE  ListKept(Appended(l, event), d)
<1> DEFINE k == Appended(l, event)
           N == Len(l.node)
           e == event.time
<1>1. PICK v : Shows(l, v) /\ InTime(l, v) /\ TailBefore(l, v, c)
  BY DEF ListKept
<1>2. /\ k \in ListType
      /\ k.node = LinkedAfter(l, event, l.tail, Nil)
      /\ k.head = IF l.head = Nil THEN N + 1 ELSE l.head
      /\ k.tail = IF l.tail # Nil \/ l.head = Nil THEN N + 1 ELSE Nil
  <2>1. k \in ListType
    BY AppendedExtends DEF Extends
  <2> QED
    BY <2>1 DEF Appended
<1> HIDE DEF k
<1>3. /\ N \in Nat /\ Len(k.node) = N + 1
      /\ \A n \in 1..N : /\ List!Links(k)[n] = IF n = l.tail THEN N + 1 ELSE List!Links(l)[n]
                         /\ k.node[n].time = l.node[n].time
                         /\ l.node[n].time \in Nat
      /\ List!Links(k)[N + 1] = 0
      /\ k.node[N + 1].time = e
      /\ Nil = 0
  <2>1. Nil = 0 /\ Nil \in Nat
    BY NodesShape
  <2> QED
    BY <1>2, <2>1, LinkedLinks
<1>4. /\ Len(v) \in Nat
      /\ \A j \in 1..Len(v) : v[j] \in 1..N
      /\ l.head = IF Len(v) = 0 THEN 0 ELSE v[1]
  BY <1>1, <1>3, ShowsParts
<1>5. Chain(N, l.head, List!Links(l), v)
  BY <1>1 DEF Shows
<1>6. e \in Nat /\ e = LocalTime(d) /\ LocalTime(c) <= LocalTime(d) /\ LocalTime(d) \in Nat
      /\ LocalTime(c) \in Nat
  BY DEF LocalTime
<1>7. CASE l.tail = Nil /\ l.head # Nil
  <2>1. \A j \in 1..Len(v) : List!Links(k)[v[j]] = List!Links(l)[v[j]]
    BY <1>3, <1>4, <1>7
  <2>2. N + 1 \in Nat /\ N <= N + 1
    BY <1>3
  <2>3. Chain(N + 1, l.head, List!Links(k), v)
    BY <1>3, <1>5, <2>1, <2>2, ChainSame
  <2>4. Shows(k, v)
    BY <1>2, <1>3, <1>7, <2>3 DEF Shows
  <2>5. InTime(k, v)
    BY <1>1, <1>3, <1>4 DEF InTime
  <2>6. TailBefore(k, v, d)
    BY <1>2, <1>7 DEF TailBefore
  <2> QED
    BY <2>4, <2>5, <2>6 DEF ListKept, k
<1>8. CASE l.tail # Nil \/ l.head = Nil
  <2>1. PICK p \in 0..Len(v) : IF l.tail = Nil THEN p = 0 ELSE p > 0 /\ v[p] = l.tail
    <3>1. CASE l.tail = Nil
      BY <1>4, <3>1
    <3>2. CASE l.tail # Nil
      <4>1. PICK q \in 1..Len(v) : v[q] = l.tail
        BY <1>1, <3>2 DEF TailBefore
      <4> QED
        BY <1>4, <3>2, <4>1
    <3> QED
      BY <3>1, <3>2
  <2>2. p = 0 => Len(v) = 0
    BY <1>3, <1>4, <1>8, <2>1
  <2>3. p > 0 => List!Links(k)[v[p]] = N + 1
    BY <1>3, <1>4, <2>1
  <2>4. \A j \in 1..Len(v) : j # p => List!Links(k)[v[j]] = List!Links(l)[v[j]]
    <3> SUFFICES ASSUME NEW j \in 1..Len(v), j # p PROVE v[j] # l.tail
      BY <1>3, <1>4
    <3>1. CASE l.tail = Nil
      BY <1>3, <1>4, <3>1
    <3>2. CASE l.tail # Nil
      <4>1. p \in 1..Len(v) /\ v[p] = l.tail
        BY <1>4, <2>1, <3>2
      <4> QED
        BY <1>5, <4>1 DEF Chain
    <3> QED
      BY <3>1, <3>2
  <2>5. k.head = IF Len(v) = 0 THEN N + 1 ELSE l.head
    BY <1>2, <1>3, <1>4
  <2> DEFINE w == Cut(v, p, N + 1)
  <2>6. Chain(N + 1, k.head, List!Links(k), w) /\ Len(w) = p + 1
    BY <1>3, <1>5, <2>2, <2>3, <2>4, <2>5, ChainCut
  <2>7. \A j \in 1..(p + 1) : w[j] = IF j <= p THEN v[j] ELSE N + 1
    BY DEF Cut
  <2>8. p \in Nat /\ p <= Len(v)
    BY <1>4
  <2> HIDE DEF w, N, e
  <2>9. \A j \in 1..p : k.node[v[j]].time = l.node[v[j]].time /\ l.node[v[j]].time <= e
        /\ j \in 1..Len(v)
    <3> SUFFICES ASSUME NEW j \in 1..p
                 PROVE  /\ k.node[v[j]].time = l.node[v[j]].time
                        /\ l.node[v[j]].time <= e /\ j \in 1..Len(v)
      OBVIOUS
    <3>1. j \in 1..Len(v) /\ p \in 1..Len(v) /\ p > 0
      BY <1>4, <2>8
    <3>2. v[j] \in 1..N /\ v[p] \in 1..N /\ v[p] = l.tail /\ l.tail # Nil
      BY <1>3, <1>4, <2>1, <3>1
    <3>3. l.node[v[j]].time <= l.node[v[p]].time
      <4>1. CASE j = p
        BY <1>3, <3>2, <4>1
      <4>2. CASE j < p
        BY <1>1, <3>1, <4>2 DEF InTime
      <4> QED
        BY <2>8, <4>1, <4>2
    <3>4. l.node[l.tail].time <= LocalTime(c)
      BY <1>1, <3>2 DEF TailBefore
    <3>5. /\ k.node[v[j]].time = l.node[v[j]].time
          /\ l.node[v[j]].time \in Nat /\ l.node[v[p]].time \in Nat
      BY <1>3, <3>2
    <3> QED
      BY <1>6, <3>1, <3>2, <3>3, <3>4, <3>5
  <2>10. InTime(k, w)
    <3> SUFFICES ASSUME NEW i \in 1..(p + 1), NEW j \in 1..(p + 1), i < j
                 PROVE  k.node[w[i]].time <= k.node[w[j]].time
      BY <2>6 DEF InTime
    <3>1. i \in 1..p /\ i <= p /\ w[i] = v[i]
      BY <2>7, <2>8
    <3>2. CASE j = p + 1
      <4>1. w[j] = N + 1
        BY <2>7, <2>8, <3>2
      <4> QED
        BY <1>3, <2>9, <3>1, <4>1
    <3>3. CASE j \in 1..p
      <4>1. w[j] = v[j]
        BY <2>7, <3>3
      <4> QED
        BY <1>1, <2>9, <3>1, <3>3, <4>1 DEF InTime
    <3> QED
      BY <2>8, <3>2, <3>3
  <2>11. TailBefore(k, w, d)
    <3>1. w[p + 1] = N + 1 /\ p + 1 \in 1..(p + 1)
      BY <2>7, <2>8
    <3> QED
      BY <1>2, <1>3, <1>6, <1>8, <2>6, <3>1 DEF TailBefore, N
  <2>12. Shows(k, w)
    BY <1>3, <2>6 DEF Shows, N
  <2> QED
    BY <2>10, <2>11, <2>12 DEF ListKept, k
<1> QED
  BY <1>7, <1>8

\* A like of another server goes between those before and those after it.
LEMMA SortedShows ==
    ASSUME NEW l \in ListType, NEW v, Shows(l, v), InTime(l, v), NEW event \in EventType,
           ~NoPlace(l, event.time)
    PROVE  LET k == Sorted(l, event)
               N == Len(l.node)
           IN  /\ k \in ListType /\ k.tail = l.tail
               /\ k.node[N + 1].time = event.time
               /\ \A j \in 1..Len(v) : /\ k.node[v[j]].time = l.node[v[j]].time
                                       /\ l.node[v[j]].time \in Nat
               /\ \E p \in 0..Len(v) :
                     /\ Shows(k, Put(v, p, N + 1))
                     /\ \A j \in 1..Len(v) : /\ j <= p => l.node[v[j]].time < event.time
                                             /\ j > p => event.time < l.node[v[j]].time
<1> DEFINE k == Sorted(l, event)
           N == Len(l.node)
           e == event.time
           Time(n) == l.node[n].time
<1>2. k \in ListType /\ k.tail = l.tail /\ e \in Nat
  <2>1. k \in ListType
    BY SortedExtends DEF Extends
  <2>2. k.tail = l.tail
    BY DEF Sorted, ListType
  <2> QED
    BY <2>1, <2>2 DEF EventType
<1>3. /\ N \in Nat /\ Nil = 0
      /\ Len(v) \in Nat
      /\ \A j \in 1..Len(v) : v[j] \in 1..N
      /\ l.head = IF Len(v) = 0 THEN 0 ELSE v[1]
      /\ l.head \in Nat
      /\ \A j \in 1..Len(v) : l.node[v[j]].next = IF j = Len(v) THEN 0 ELSE v[j + 1]
      /\ \A n \in 1..N : Time(n) \in Nat
  BY ShowsParts, NodesShape DEF ListType, NodeType
<1>4. Chain(N, l.head, List!Links(l), v)
  BY DEF Shows
<1>5. PICK p \in 0..Len(v) :
        /\ k.head = IF p = 0 THEN N + 1 ELSE l.head
        /\ k.node = LinkedAfter(l, event, IF p = 0 THEN 0 ELSE v[p],
                                IF p = Len(v) THEN 0 ELSE v[p + 1])
        /\ p > 0 => Time(v[p]) < e
        /\ p < Len(v) => Time(v[p + 1]) > e
  <2>1. CASE BecomesHead(l, e)
    <3>1. k.head = N + 1 /\ k.node = LinkedAfter(l, event, 0, l.head)
      BY <1>2, <1>3, <2>1 DEF Sorted
    <3>2. l.head = IF 0 = Len(v) THEN 0 ELSE v[0 + 1]
      BY <1>3
    <3>3. 0 < Len(v) => Time(v[0 + 1]) > e
      <4> SUFFICES ASSUME 0 < Len(v) PROVE Time(v[1]) > e
        OBVIOUS
      <4>1. l.head = v[1] /\ 1 \in 1..Len(v) /\ v[1] # 0
        BY <1>3
      <4> QED
        BY <1>3, <2>1, <4>1 DEF BecomesHead
    <3> QED
      BY <1>3, <3>1, <3>2, <3>3
  <2>2. CASE ~BecomesHead(l, e)
    <3> DEFINE after == CHOOSE n \in Place(l, e) : TRUE
    <3>1. after \in Place(l, e)
      BY <2>2 DEF NoPlace
    <3>2. k.head = l.head /\ k.node = LinkedAfter(l, event, after, l.node[after].next)
      BY <2>2 DEF Sorted
    <3> HIDE DEF after
    <3>3. PICK q \in DOMAIN Walk(l) : Walk(l)[q] = after /\ Follows(l, q, e)
      BY <3>1 DEF Place
    <3>4. Walk(l) = v /\ DOMAIN v = 1..Len(v)
      BY WalkIs, ShowsParts
    <3>5. q \in 1..Len(v) /\ v[q] = after
      BY <3>3, <3>4
    <3>6. Events(l) = [j \in 1..Len(v) |-> l.node[v[j]]]
      BY <3>4 DEF Events
    <3>7. Len(Events(l)) = Len(v)
      BY <1>3, <3>6
    <3>8. Time(v[q]) < e /\ (q < Len(v) => Time(v[q + 1]) > e)
      <4>1. Events(l)[q].time < e /\ (q < Len(v) => Events(l)[q + 1].time > e)
        BY <3>3, <3>7 DEF Follows
      <4>2. q < Len(v) => q + 1 \in 1..Len(v)
        BY <1>3, <3>5
      <4> QED
        BY <3>5, <3>6, <4>1, <4>2
    <3>9. q \in 0..Len(v) /\ q # 0
      BY <1>3, <3>5
    <3>10. l.node[after].next = IF q = Len(v) THEN 0 ELSE v[q + 1]
      BY <1>3, <3>5
    <3> HIDE DEF k, Time
    <3> QED
      BY <3>2, <3>5, <3>8, <3>9, <3>10
  <2> QED
    BY <2>1, <2>2
<1> DEFINE after == IF p = 0 THEN 0 ELSE v[p]
           next == IF p = Len(v) THEN 0 ELSE v[p + 1]
           w == Put(v, p, N + 1)
<1>6. p \in Nat /\ p <= Len(v) /\ (p > 0 => p \in 1..Len(v)) /\ (p < Len(v) => p + 1 \in 1..Len(v))
  BY <1>3
<1>7. next \in Nat
  BY <1>3, <1>6
<1> HIDE DEF k
<1>8. /\ Len(k.node) = N + 1
      /\ \A n \in 1..N : /\ List!Links(k)[n] = IF n = after THEN N + 1 ELSE List!Links(l)[n]
                         /\ k.node[n].time = Time(n)
      /\ List!Links(k)[N + 1] = next
      /\ k.node[N + 1].time = e
  BY <1>2, <1>5, <1>7, LinkedLinks
<1>9. p > 0 => List!Links(k)[v[p]] = N + 1
  BY <1>3, <1>6, <1>8
<1>10. \A j \in 1..Len(v) : j # p => List!Links(k)[v[j]] = List!Links(l)[v[j]]
  <2> SUFFICES ASSUME NEW j \in 1..Len(v), j # p PROVE v[j] # after
    BY <1>3, <1>8
  <2>1. CASE p = 0
    BY <1>3, <2>1
  <2>2. CASE p > 0
    BY <1>4, <1>6, <2>2 DEF Chain
  <2> QED
    BY <1>6, <2>1, <2>2
<1>11. Chain(N + 1, k.head, List!Links(k), w) /\ Len(w) = Len(v) + 1
  BY <1>3, <1>4, <1>5, <1>8, <1>9, <1>10, ChainPut
<1> HIDE DEF w, N, e, after, next
<1>12. \A j \in 1..Len(v) : k.node[v[j]].time = Time(v[j]) /\ Time(v[j]) \in Nat
  BY <1>3, <1>8
<1>13. \A i, j \in 1..Len(v) : i < j => Time(v[i]) <= Time(v[j])
  BY DEF InTime
<1> HIDE DEF Time
<1>14. \A j \in 1..Len(v) : (j <= p => Time(v[j]) < e) /\ (j > p => e < Time(v[j]))
  <2> SUFFICES ASSUME NEW j \in 1..Len(v)
               PROVE (j <= p => Time(v[j]) < e) /\ (j > p => e < Time(v[j]))
    OBVIOUS
  <2>1. ASSUME j <= p PROVE Time(v[j]) < e
    <3>1. p \in 1..Len(v) /\ Time(v[p]) < e
      BY <1>3, <1>5, <1>6, <2>1
    <3>2. j = p \/ j < p
      BY <1>6, <2>1
    <3> QED
      BY <1>2, <1>12, <1>13, <3>1, <3>2 DEF e
  <2>2. ASSUME j > p PROVE e < Time(v[j])
    <3>1. p + 1 \in 1..Len(v) /\ Time(v[p + 1]) > e
      BY <1>3, <1>5, <1>6, <2>2
    <3>2. j = p + 1 \/ p + 1 < j
      BY <1>6, <2>2
    <3> QED
      BY <1>2, <1>12, <1>13, <3>1, <3>2 DEF e
  <2> QED
    BY <2>1, <2>2
<1>15. Shows(k, w)
  BY <1>8, <1>11 DEF Shows, N
<1> QED
  BY <1>2, <1>8, <1>12, <1>14, <1>15 DEF k, w, N, e, Time

\* What is in order, or strictly in order (d = 1), is so with the new one in.
LEMMA PutOrdered ==
    ASSUME NEW L \in Nat, NEW p \in 0..L, NEW d \in {0, 1}, NEW e \in Int,
           NEW a, \A j \in 1..L : a[j] \in Int,
           \A i, j \in 1..L : i < j => a[i] + d <= a[j],
           \A j \in 1..L : (j <= p => a[j] < e) /\ (j > p => e < a[j]),
           NEW b, \A j \in 1..(L + 1) : b[j] = IF j <= p THEN a[j]
                                               ELSE IF j = p + 1 THEN e ELSE a[j - 1]
    PROVE  \A i, j \in 1..(L + 1) : i < j => b[i] + d <= b[j]
<1> SUFFICES ASSUME NEW i \in 1..(L + 1), NEW j \in 1..(L + 1), i < j
             PROVE  b[i] + d <= b[j]
  OBVIOUS
<1>1. \A n \in 1..(L + 1) :
         \/ n <= p /\ n \in 1..L /\ b[n] = a[n]
         \/ n = p + 1 /\ b[n] = e
         \/ n > p + 1 /\ n - 1 > p /\ n - 1 \in 1..L /\ b[n] = a[n - 1]
  OBVIOUS
<1>2. \A n \in 1..L : a[n] \in Int /\ (n <= p => a[n] + d <= e) /\ (n > p => e + d <= a[n])
  OBVIOUS
<1>3. CASE i <= p /\ i \in 1..L /\ b[i] = a[i]
  <2>1. CASE j <= p /\ j \in 1..L /\ b[j] = a[j]
    BY <1>3, <2>1
  <2>2. CASE j = p + 1 /\ b[j] = e
    BY <1>2, <1>3, <2>2
  <2>3. CASE j > p + 1 /\ j - 1 > p /\ j - 1 \in 1..L /\ b[j] = a[j - 1]
    <3>1. i < j - 1
      BY <1>3, <2>3
    <3> QED
      BY <1>3, <2>3, <3>1
  <2> QED
    BY <1>1, <2>1, <2>2, <2>3
<1>4. CASE i = p + 1 /\ b[i] = e
  <2>1. j > p + 1
    BY <1>4
  <2>2. j - 1 > p /\ j - 1 \in 1..L /\ b[j] = a[j - 1]
    BY <1>1, <2>1
  <2> QED
    BY <1>2, <1>4, <2>2
<1>5. CASE i > p + 1 /\ i - 1 > p /\ i - 1 \in 1..L /\ b[i] = a[i - 1]
  <2>1. j > p + 1 /\ i - 1 < j - 1
    BY <1>5
  <2>2. j - 1 > p /\ j - 1 \in 1..L /\ b[j] = a[j - 1]
    BY <1>1, <2>1
  <2> QED
    BY <1>5, <2>1, <2>2
<1> QED
  BY <1>1, <1>3, <1>4, <1>5

LEMMA SortedKept ==
    ASSUME NEW l \in ListType, NEW c \in Nat, ListKept(l, c), NEW event \in EventType,
           ~NoPlace(l, event.time)
    PROVE  ListKept(Sorted(l, event), c)
<1> DEFINE k == Sorted(l, event)
           N == Len(l.node)
           e == event.time
           Time(n) == l.node[n].time
<1>1. PICK v : Shows(l, v) /\ InTime(l, v) /\ TailBefore(l, v, c)
  BY DEF ListKept
<1>2. /\ k.tail = l.tail
      /\ k.node[N + 1].time = e
      /\ \A j \in 1..Len(v) : k.node[v[j]].time = Time(v[j]) /\ Time(v[j]) \in Nat
  BY <1>1, SortedShows
<1>3. PICK p \in 0..Len(v) :
        /\ Shows(k, Put(v, p, N + 1))
        /\ \A j \in 1..Len(v) : (j <= p => Time(v[j]) < e) /\ (j > p => e < Time(v[j]))
  BY <1>1, SortedShows
<1> DEFINE w == Put(v, p, N + 1)
<1>4. Len(v) \in Nat /\ p \in Nat /\ p <= Len(v) /\ e \in Nat
  BY <1>1, ShowsParts DEF EventType
<1>5. \A j \in 1..(Len(v) + 1) : w[j] = IF j <= p THEN v[j] ELSE IF j = p + 1 THEN N + 1 ELSE v[j - 1]
  BY DEF Put
<1>6. Len(w) = Len(v) + 1
  BY <1>4 DEF Put
<1>7. \A i, j \in 1..Len(v) : i < j => Time(v[i]) <= Time(v[j])
  BY <1>1 DEF InTime
<1> HIDE DEF w, N, e, k, Time
<1>8. \A j \in 1..(Len(v) + 1) : k.node[w[j]].time = IF j <= p THEN Time(v[j])
                                                     ELSE IF j = p + 1 THEN e ELSE Time(v[j - 1])
  <2> SUFFICES ASSUME NEW j \in 1..(Len(v) + 1)
               PROVE  k.node[w[j]].time = IF j <= p THEN Time(v[j])
                                          ELSE IF j = p + 1 THEN e ELSE Time(v[j - 1])
    OBVIOUS
  <2>1. w[j] = IF j <= p THEN v[j] ELSE IF j = p + 1 THEN N + 1 ELSE v[j - 1]
    BY <1>5
  <2>2. (j <= p => j \in 1..Len(v)) /\ (j > p + 1 => j - 1 \in 1..Len(v))
    BY <1>4
  <2> QED
    BY <1>2, <1>4, <2>1, <2>2
<1>9. InTime(k, w)
  <2> DEFINE a == [j \in 1..Len(v) |-> Time(v[j])]
             b == [j \in 1..(Len(v) + 1) |-> k.node[w[j]].time]
  <2>1. \A j \in 1..Len(v) : a[j] \in Int /\ (j <= p => a[j] < e) /\ (j > p => e < a[j])
    BY <1>2, <1>3
  <2>2. \A i, j \in 1..Len(v) : i < j => a[i] + 0 <= a[j]
    BY <1>2, <1>7
  <2>3. \A j \in 1..(Len(v) + 1) : b[j] = IF j <= p THEN a[j] ELSE IF j = p + 1 THEN e ELSE a[j - 1]
    BY <1>4, <1>8
  <2> HIDE DEF a, b
  <2>4. \A i, j \in 1..(Len(v) + 1) : i < j => b[i] + 0 <= b[j]
    <3>1. PICK L \in Nat, d \in {0, 1}, E \in Int : L = Len(v) /\ d = 0 /\ E = e
      BY <1>4
    <3>2. /\ p \in 0..L
          /\ \A j \in 1..L : a[j] \in Int /\ (j <= p => a[j] < E) /\ (j > p => E < a[j])
          /\ \A i, j \in 1..L : i < j => a[i] + d <= a[j]
          /\ \A j \in 1..(L + 1) : b[j] = IF j <= p THEN a[j] ELSE IF j = p + 1 THEN E ELSE a[j - 1]
      BY <2>1, <2>2, <2>3, <3>1
    <3>3. \A i, j \in 1..(L + 1) : i < j => b[i] + d <= b[j]
      BY ONLY <3>2, PutOrdered
    <3> QED
      BY ONLY <3>1, <3>3
  <2>5. \A j \in 1..(Len(v) + 1) : b[j] = k.node[w[j]].time /\ b[j] \in Int
    BY <1>4, <2>1, <2>3 DEF b
  <2> QED
    BY <1>6, <2>4, <2>5 DEF InTime
<1>10. TailBefore(k, w, c)
  <2> SUFFICES ASSUME l.tail # Nil
               PROVE  /\ \E q \in 1..(Len(v) + 1) : w[q] = l.tail
                      /\ k.node[l.tail].time <= LocalTime(c)
    BY <1>2, <1>6 DEF TailBefore
  <2>1. PICK q \in 1..Len(v) : v[q] = l.tail
    BY <1>1 DEF TailBefore
  <2>2. l.node[l.tail].time <= LocalTime(c)
    BY <1>1 DEF TailBefore
  <2>3. k.node[l.tail].time = l.node[l.tail].time
    BY <1>2, <2>1 DEF Time
  <2>4. CASE q <= p
    <3>1. q \in 1..(Len(v) + 1) /\ w[q] = v[q]
      BY <1>4, <1>5, <2>4
    <3> QED
      BY <2>1, <2>2, <2>3, <3>1
  <2>5. CASE q > p
    <3>1. q + 1 \in 1..(Len(v) + 1) /\ ~(q + 1 <= p) /\ q + 1 # p + 1 /\ (q + 1) - 1 = q
      BY <1>4, <2>5
    <3>2. w[q + 1] = v[q]
      BY <1>5, <3>1
    <3> QED
      BY <2>1, <2>2, <2>3, <3>1, <3>2
  <2> QED
    BY <1>4, <2>4, <2>5
<1> QED
  BY <1>3, <1>9, <1>10 DEF ListKept, k, w, N

-----------------------------------------------------------------------------
(***************************************************************************)
(* What a step makes of one group.                                         *)
(***************************************************************************)
Votable(g, c, like) == \/ like = 1 /\ MayLike(g, c)
                       \/ like = -1 /\ MayUnlike(g, c)

\* The group k takes the place of the one at s, by an operation without a clock.
Handed(s, k) ==
    LET g == group[s]
    IN  \/ ~g.made /\ k = CreateGroup
        \/ /\ s = Home[Author]
           /\ k = [WithMessage(g, Author, TRUE, 0) EXCEPT !.msgTimestamp[s] = 1]
        \/ \E u \in Server :
              LET m == Head(net[u][s])
              IN  /\ net[u][s] # <<>>
                  /\ \/ m.kind = "UpdateMsg" /\ k = MsgInserted(g, m)
                     \/ /\ m.kind = "UpdateLike" /\ m \in UpdateLikeType
                        /\ ~LikePanics(g, m) /\ k = LikeInserted(g, m)

\* A like is given or taken back at s.
Voted(s, k) ==
    \E c \in User, like \in {1, -1}, second \in clock[s]..MaxSeconds :
        /\ Votable(group[s], c, like)
        /\ group[s].likeTimestamp[s] < MaxLikes[s]
        /\ k = PerformingLike(group[s], s, like, c, second)
        /\ clock' = [clock EXCEPT ![s] = second]

LEMMA GroupChanges ==
    ASSUME Inv, [Next]_vars
    PROVE  \/ group' = group /\ clock' = clock
           \/ \E s \in Server : \E k :
                 /\ group' = [group EXCEPT ![s] = k]
                 /\ (Handed(s, k) /\ clock' = clock) \/ Voted(s, k)
<1> DEFINE Changed(s, k) == /\ group' = [group EXCEPT ![s] = k]
                            /\ (Handed(s, k) /\ clock' = clock) \/ Voted(s, k)
           Goal == \/ group' = group /\ clock' = clock
                   \/ \E s \in Server : \E k : Changed(s, k)
<1>1. PICK V : Shape(V)
  BY DEF Inv
<1>2. DOMAIN group = Server /\ \A c \in User : Home[c] \in Server
  BY <1>1, HomeAssumption DEF Shape
<1>3. ASSUME NEW s \in Server, NEW k, group' = [group EXCEPT ![s] = k],
             (Handed(s, k) /\ clock' = clock) \/ Voted(s, k)
      PROVE  Goal
  BY <1>3
<1> HIDE DEF Goal
<1>4. ASSUME group' = group, clock' = clock PROVE Goal
  BY <1>4 DEF Goal
<1>5. ASSUME Post PROVE Goal
  <2> DEFINE s == Home[Author]
             k == [WithMessage(group[s], Author, TRUE, 0) EXCEPT !.msgTimestamp[s] = 1]
  <2>1. s \in Server /\ group' = [group EXCEPT ![s] = k] /\ clock' = clock
    BY <1>2, <1>5, AuthorAssumption DEF Post
  <2>2. Handed(s, k)
    BY <2>1 DEF Handed
  <2> HIDE DEF k
  <2> QED
    BY <1>3, <2>1, <2>2
<1>6. ASSUME NEW c \in User, NEW like \in {1, -1}, Perform(c, like),
             Votable(group[Home[c]], c, like)
      PROVE  Goal
  <2> DEFINE s == Home[c]
  <2>1. PICK second \in clock[s]..MaxSeconds :
            /\ group[s].likeTimestamp[s] < MaxLikes[s]
            /\ clock' = [clock EXCEPT ![s] = second]
            /\ group' = [group EXCEPT ![s] = PerformingLike(group[s], s, like, c, second)]
    BY <1>2, <1>6 DEF Perform
  <2> DEFINE k == PerformingLike(group[s], s, like, c, second)
  <2>2. Voted(s, k)
    BY <1>6, <2>1 DEF Voted
  <2> HIDE DEF k
  <2> QED
    BY <1>2, <1>3, <2>1, <2>2 DEF k
<1>7. ASSUME NEW c \in User, UserStep(c) PROVE Goal
  <2>1. CASE Like(c)
    BY <1>6, <2>1 DEF Like, Votable
  <2>2. CASE Unlike(c)
    BY <1>6, <2>2 DEF Unlike, Votable
  <2>3. CASE Broadcast(c)
    BY <1>4, <2>3 DEF Broadcast
  <2> QED
    BY <1>7, <2>1, <2>2, <2>3 DEF UserStep
<1>8. ASSUME NEW s \in Server, GroupMade(s) \/ Entropy(s) PROVE Goal
  <2>1. CASE GroupMade(s)
    <3>1. ~group[s].made /\ group' = [group EXCEPT ![s] = CreateGroup] /\ clock' = clock
      BY <2>1 DEF GroupMade
    <3>2. Handed(s, CreateGroup)
      BY <3>1 DEF Handed
    <3> QED
      BY <1>3, <3>1, <3>2
  <2>2. CASE Entropy(s)
    BY <1>4, <2>2 DEF Entropy
  <2> QED
    BY <1>8, <2>1, <2>2
<1>9. ASSUME NEW u \in Server, NEW s \in Server, Receive(u, s) PROVE Goal
  <2> DEFINE m == Head(net[u][s])
  <2>1. CASE ReceiveUpdateMsg(u, s)
    <3>1. /\ group' = [group EXCEPT ![s] = MsgInserted(group[s], m)] /\ clock' = clock
          /\ net[u][s] # <<>> /\ m.kind = "UpdateMsg"
      BY <1>2, <2>1 DEF ReceiveUpdateMsg, Takes
    <3>2. Handed(s, MsgInserted(group[s], m))
      BY <3>1 DEF Handed
    <3> QED
      BY <1>3, <3>1, <3>2
  <2>2. CASE ReceiveUpdateLike(u, s)
    <3>1. /\ group' = [group EXCEPT ![s] = LikeInserted(group[s], m)] /\ clock' = clock
          /\ net[u][s] # <<>> /\ m.kind = "UpdateLike" /\ ~LikePanics(group[s], m)
      BY <1>2, <2>2 DEF ReceiveUpdateLike, Takes
    <3>2. m \in UpdateLikeType
      <4>1. m \in Backed(group, V)
        BY <1>1, <2>2, Taking DEF ReceiveUpdateLike
      <4> QED
        BY <3>1, <4>1 DEF Backed, RequestOf, CheckForMergeType
    <3>3. Handed(s, LikeInserted(group[s], m))
      BY <3>1, <3>2 DEF Handed
    <3> QED
      BY <1>3, <3>1, <3>3
  <2>3. CASE UpdateLikePanics(u, s) \/ ReceiveCheckForMerge(u, s) \/ CheckForMergePanics(u, s)
    BY <1>4, <2>3 DEF UpdateLikePanics, ReceiveCheckForMerge, CheckForMergePanics, Panic
  <2> QED
    BY <1>9, <2>1, <2>2, <2>3 DEF Receive
<1>10. ASSUME NEW s \in Server, NEW t \in Server, ReplicaSetUp(s, t) \/ Break(s, t) PROVE Goal
  BY <1>4, <1>10 DEF ReplicaSetUp, Break
<1>11. ASSUME UNCHANGED vars PROVE Goal
  BY <1>4, <1>11 DEF vars
<1>12. Goal
  <2>1. ASSUME Next PROVE Goal
    BY <1>5, <1>7, <1>8, <1>9, <1>10, <2>1 DEF Next
  <2> QED
    BY <1>11, <2>1
<1> QED
  BY <1>12 DEF Goal

\* What the handed group shows.
LEMMA HandedList ==
    ASSUME Inv, NEW s \in Server, NEW k, Handed(s, k)
    PROVE  \/ k.list = group[s].list
           \/ \E event \in EventType : /\ ~NoPlace(group[s].list, event.time)
                                       /\ k.list = Sorted(group[s].list, event)
<1> DEFINE g == group[s]
<1>1. PICK V : Shape(V)
  BY DEF Inv
<1>2. g \in GroupOf(V) /\ (~g.made => g = NoGroup)
  BY <1>1 DEF Shape, Inv, LogsHold, Unmade
<1>3. NoGroup.list = NoEvents /\ CreateGroup.list = NoEvents
  BY DEF NoGroup, CreateGroup
<1>4. CASE ~g.made /\ k = CreateGroup
  BY <1>2, <1>3, <1>4
<1>5. CASE k = [WithMessage(g, Author, TRUE, 0) EXCEPT !.msgTimestamp[s] = 1]
  BY <1>2, <1>5 DEF WithMessage, GroupOf
<1>6. ASSUME NEW m, k = MsgInserted(g, m) PROVE k.list = g.list
  BY <1>2, <1>6 DEF MsgInserted, WithMessage, GroupOf
<1>7. ASSUME NEW m \in UpdateLikeType, ~LikePanics(g, m), k = LikeInserted(g, m)
      PROVE  \/ k.list = g.list
             \/ \E event \in EventType : /\ ~NoPlace(g.list, event.time)
                                         /\ k.list = Sorted(g.list, event)
  <2>1. CASE RedundantLike(g, m)
    BY <1>7, <2>1 DEF LikeInserted
  <2>2. CASE ~RedundantLike(g, m)
    <3> DEFINE b == MsgToLike(g, m)
               event == Event(m.user, m.like, m.time)
    <3>1. b.list = g.list
      BY <1>2, <1>3 DEF MsgToLike, WithMessage, GroupOf, CreateGroup, NoGroup
    <3>2. k = Liked(b, m)
      BY <1>7, <2>2 DEF LikeInserted
    <3>3. k.list = Sorted(b.list, event)
      <4>1. \A x : Liked(x, m).list = Sorted(x.list, event)
        BY DEF Liked
      <4> QED
        BY <3>2, <4>1
    <3>4. event \in EventType /\ event.time = m.time
      BY DEF UpdateLikeType, Event, EventType
    <3>5. ~NoPlace(g.list, m.time)
      BY <1>7, <2>2 DEF LikePanics
    <3> HIDE DEF event
    <3> QED
      BY <3>1, <3>3, <3>4, <3>5
  <2> QED
    BY <2>1, <2>2
<1> QED
  BY <1>4, <1>5, <1>6, <1>7 DEF Handed


\* The clock of a server does not go back, and only a like given there moves it.
LEMMA VotedParts ==
    ASSUME Inv, NEW s \in Server, NEW k, Voted(s, k)
    PROVE  \E second \in Nat, c \in User, like \in {1, -1} :
              /\ clock[s] \in Nat /\ clock[s] <= second
              /\ clock' = [clock EXCEPT ![s] = second]
              /\ Votable(group[s], c, like)
              /\ group[s].likeTimestamp[s] < MaxLikes[s]
              /\ k = PerformingLike(group[s], s, like, c, second)
<1>1. clock[s] \in Nat
  BY DEF Inv, Shape
<1>2. PICK c \in User, like \in {1, -1}, second \in clock[s]..MaxSeconds :
        /\ Votable(group[s], c, like)
        /\ group[s].likeTimestamp[s] < MaxLikes[s]
        /\ k = PerformingLike(group[s], s, like, c, second)
        /\ clock' = [clock EXCEPT ![s] = second]
  BY DEF Voted
<1>3. second \in Nat /\ clock[s] <= second
  BY <1>1, MaxSecondsAssumption
<1> QED
  BY <1>1, <1>2, <1>3

ListsKept == \A s \in Server : ListKept(group[s].list, clock[s])

LEMMA ListsStay ==
    ASSUME Inv, ListsKept, [Next]_vars
    PROVE  ListsKept'
<1>1. PICK V : Shape(V)
  BY DEF Inv
<1>2. DOMAIN group = Server /\ \A t \in Server : group[t].list \in ListType
      /\ clock \in [Server -> Nat]
  BY <1>1 DEF Shape, GroupOf
<1>3. CASE group' = group /\ clock' = clock
  BY <1>3 DEF ListsKept
<1>4. ASSUME NEW s \in Server, NEW k, group' = [group EXCEPT ![s] = k],
             (Handed(s, k) /\ clock' = clock) \/ Voted(s, k), NEW t \in Server
      PROVE  ListKept(group'[t].list, clock'[t])
  <2>1. CASE t # s
    <3>1. group'[t] = group[t] /\ clock'[t] = clock[t]
      BY <1>2, <1>4, <2>1 DEF Voted
    <3> QED
      BY <3>1 DEF ListsKept
  <2>2. CASE t = s
    <3>1. group'[t] = k
      BY <1>2, <1>4, <2>2
    <3>2. CASE Handed(s, k) /\ clock' = clock
      BY <1>2, <2>2, <3>1, <3>2, HandedList, SortedKept DEF ListsKept
    <3>3. CASE Voted(s, k)
      <4>1. PICK second \in Nat, c \in User, like \in {1, -1} :
              /\ clock[s] \in Nat /\ clock[s] <= second
              /\ clock' = [clock EXCEPT ![s] = second]
              /\ k = PerformingLike(group[s], s, like, c, second)
        BY <3>3, VotedParts
      <4> DEFINE event == Event(c, like, LocalTime(second))
      <4>2. event \in EventType /\ event.time = LocalTime(second)
        BY DEF Event, EventType, LocalTime
      <4>3. k.list = Appended(group[s].list, event)
        BY <1>1, <4>1 DEF PerformingLike, Shape, GroupOf
      <4>4. ListKept(group[s].list, clock[s])
        BY DEF ListsKept
      <4> HIDE DEF event
      <4>5. ListKept(Appended(group[s].list, event), second)
        BY <1>2, <4>1, <4>2, <4>4, AppendedKept
      <4>6. clock'[t] = second
        BY <1>2, <2>2, <4>1
      <4> QED
        BY <3>1, <4>3, <4>5, <4>6
    <3> QED
      BY <1>4, <3>2, <3>3
  <2> QED
    BY <2>1, <2>2
<1> QED
  BY <1>3, <1>4, GroupChanges DEF ListsKept

LEMMA InitKept ==
    ASSUME Init
    PROVE  ListsKept
<1> SUFFICES ASSUME NEW s \in Server PROVE ListKept(group[s].list, clock[s])
  BY DEF ListsKept
<1>1. group[s].list = NoEvents
  BY DEF Init, NoGroup
<1>2. /\ Len(NoEvents.node) = 0 /\ NoEvents.head = 0 /\ NoEvents.tail = Nil
  BY DEF NoEvents, Nil, List!Nil
<1>3. Shows(NoEvents, <<>>)
  BY <1>2, ChainEmpty DEF Shows
<1>4. InTime(NoEvents, <<>>) /\ TailBefore(NoEvents, <<>>, clock[s])
  BY <1>2 DEF InTime, TailBefore
<1> QED
  BY <1>1, <1>3, <1>4 DEF ListKept

LEMMA ListsStayKept == Spec => []ListsKept
<1>1. Init => ListsKept
  BY InitKept
<1>2. Inv /\ ListsKept /\ [Next]_vars => ListsKept'
  BY ListsStay
<1> QED
  BY <1>1, <1>2, LikesInvariance, PTL DEF Spec

\* The events from Head on are in the order of their times on every server,
\* whatever the clocks of the others say and whatever Append has cut off.
THEOREM LikesInOrder == Spec => []InTimeOrder
<1>1. Inv /\ ListsKept => InTimeOrder
  <2> SUFFICES ASSUME Inv, ListsKept, NEW s \in Server
               PROVE  LET events == Events(group[s].list)
                      IN  \A j, k \in DOMAIN events :
                             j < k => events[j].time <= events[k].time
    BY DEF InTimeOrder
  <2> DEFINE l == group[s].list
  <2>1. l \in ListType
    BY DEF Inv, Shape, GroupOf
  <2>2. PICK v : Shows(l, v) /\ InTime(l, v)
    BY DEF ListsKept, ListKept
  <2>3. Walk(l) = v /\ DOMAIN v = 1..Len(v)
    BY <2>1, <2>2, WalkIs, ShowsParts
  <2>4. Events(l) = [k \in 1..Len(v) |-> l.node[v[k]]]
    BY <2>3 DEF Events
  <2> QED
    BY <2>2, <2>4 DEF InTime
<1> QED
  BY <1>1, LikesInvariance, ListsStayKept, PTL


-----------------------------------------------------------------------------
(***************************************************************************)
(* What CalculateLike finds: every user with one vote at most, and as many *)
(* likes as there are likers.                                              *)
(***************************************************************************)
Counted(x) == /\ x.vote \in [User -> {1, 0, -1}]
              /\ IsFiniteSet(Likers(x))
              /\ x.total = Cardinality(Likers(x))

\* The vote of u becomes "like", which it was not; only a like is taken back.
Revotes(x, u, like, y) ==
    /\ x.vote \in [User -> {1, 0, -1}]
    /\ IsFiniteSet(Likers(x))
    /\ u \in User
    /\ like \in {1, -1}
    /\ x.vote[u] # like
    /\ like = -1 => x.vote[u] = 1
    /\ y.vote = [x.vote EXCEPT ![u] = like]

\* A vote given, changed or taken back moves the number of likers.
LEMMA Revoted ==
    ASSUME NEW x, NEW u, NEW like, NEW y, Revotes(x, u, like, y)
    PROVE  /\ y.vote \in [User -> {1, 0, -1}]
           /\ IsFiniteSet(Likers(y))
           /\ Cardinality(Likers(x)) \in Nat
           /\ Cardinality(Likers(y)) = Cardinality(Likers(x)) + like
<1> USE DEF Revotes
<1>1. y.vote \in [User -> {1, 0, -1}]
  OBVIOUS
<1>2. Cardinality(Likers(x)) \in Nat
  BY FS_CardinalityType
<1>3. CASE like = 1
  <2>1. Likers(y) = Likers(x) \cup {u} /\ u \notin Likers(x)
    BY <1>3 DEF Likers
  <2> QED
    BY <1>1, <1>2, <1>3, <2>1, FS_AddElement
<1>4. CASE like = -1
  <2>1. Likers(y) = Likers(x) \ {u} /\ u \in Likers(x)
    BY <1>4 DEF Likers
  <2>2. IsFiniteSet(Likers(y)) /\ Cardinality(Likers(y)) = Cardinality(Likers(x)) - 1
    BY <2>1, FS_RemoveElement
  <2>3. Cardinality(Likers(x)) - 1 = Cardinality(Likers(x)) + like
    BY <1>2, <1>4
  <2> QED
    BY <1>1, <1>2, <2>2, <2>3
<1> QED
  BY <1>3, <1>4

LEMMA JudgedCounted ==
    ASSUME NEW x, Counted(x), NEW event, event.user \in User, event.like \in {1, -1}
    PROVE  Counted(Judged(x, event))
<1> DEFINE like == event.like
           u == event.user
           y == [vote |-> [x.vote EXCEPT ![u] = like], total |-> x.total + like]
<1>1. CASE x.vote[u] = like \/ (x.vote[u] = 0 /\ like = -1)
  BY <1>1 DEF Judged
<1>2. CASE ~(x.vote[u] = like \/ (x.vote[u] = 0 /\ like = -1))
  <2>1. Judged(x, event) = y
    BY <1>2 DEF Judged
  <2>2. x.vote[u] # like /\ (like = -1 => x.vote[u] = 1)
    BY <1>2 DEF Counted
  <2>3. y.vote = [x.vote EXCEPT ![u] = like] /\ y.total = x.total + like
    OBVIOUS
  <2> HIDE DEF y
  <2>4. Revotes(x, u, like, y)
    BY <2>2, <2>3 DEF Counted, Revotes
  <2>5. /\ y.vote \in [User -> {1, 0, -1}]
        /\ IsFiniteSet(Likers(y))
        /\ Cardinality(Likers(y)) = Cardinality(Likers(x)) + like
    BY ONLY <2>4, Revoted
  <2> QED
    BY <2>1, <2>3, <2>5 DEF Counted
<1> QED
  BY <1>1, <1>2

LEMMA NoVotesCounted == Counted(NoVotes)
<1>1. NoVotes.vote = [u \in User |-> 0] /\ NoVotes.total = 0
  BY DEF NoVotes
<1>2. Likers(NoVotes) = {}
  BY <1>1 DEF Likers
<1> QED
  BY <1>1, <1>2, FS_EmptySet DEF Counted

\* The judgements one after the other: there is such a function.
LEMMA Judging ==
    ASSUME NEW events, Len(events) \in Nat
    PROVE  \E f : /\ f = [k \in 0..Len(events) |-> IF k = 0 THEN NoVotes
                                                   ELSE Judged(f[k - 1], events[k])]
                  /\ Votes(events) = f[Len(events)]
<1> DEFINE along(f, n) == [k \in 0..n |-> IF k = 0 THEN NoVotes
                                          ELSE Judged(f[k - 1], events[k])]
           S == {n \in Nat : \E f : f = along(f, n)}
           L == Len(events)
<1>1. 0 \in S
  <2> DEFINE f0 == [k \in 0..0 |-> NoVotes]
  <2>1. f0 = along(f0, 0)
    OBVIOUS
  <2> HIDE DEF f0, along
  <2> QED
    BY <2>1
<1>2. ASSUME NEW n \in Nat, n \in S PROVE n + 1 \in S
  <2>1. PICK f : f = along(f, n)
    BY <1>2
  <2> DEFINE g == [k \in 0..(n + 1) |-> IF k = n + 1 THEN Judged(f[n], events[n + 1])
                                        ELSE f[k]]
  <2>2. \A k \in 0..n : f[k] = IF k = 0 THEN NoVotes ELSE Judged(f[k - 1], events[k])
    BY <2>1
  <2>3. ASSUME NEW k \in 0..(n + 1)
        PROVE  g[k] = IF k = 0 THEN NoVotes ELSE Judged(g[k - 1], events[k])
    <3>1. CASE k = n + 1
      <4>1. k # 0 /\ k - 1 = n /\ n \in 0..(n + 1) /\ n # n + 1
        BY <3>1
      <4>2. g[n] = f[n] /\ g[k] = Judged(f[n], events[n + 1])
        BY <3>1, <4>1
      <4> HIDE DEF g
      <4> QED
        BY <3>1, <4>1, <4>2
    <3>2. CASE k # n + 1
      <4>1. k \in 0..n /\ (k # 0 => k - 1 \in 0..(n + 1) /\ k - 1 # n + 1)
        BY <3>2
      <4>2. g[k] = f[k] /\ (k # 0 => g[k - 1] = f[k - 1])
        BY <3>2, <4>1
      <4> HIDE DEF g
      <4> QED
        BY <2>2, <4>1, <4>2
    <3> QED
      BY <3>1, <3>2
  <2>4. g = [k \in 0..(n + 1) |-> g[k]]
    OBVIOUS
  <2> HIDE DEF g
  <2>5. [k \in 0..(n + 1) |-> g[k]] = along(g, n + 1)
    BY <2>3
  <2>6. g = along(g, n + 1)
    BY <2>4, <2>5
  <2> HIDE DEF along
  <2> QED
    BY <2>6
<1>3. L \in S
  <2> HIDE DEF S, L
  <2>1. Nat \subseteq S
    BY <1>1, <1>2, Induct
  <2> QED
    BY <2>1 DEF L
<1> DEFINE after[k \in 0..L] == IF k = 0 THEN NoVotes ELSE Judged(after[k - 1], events[k])
<1>4. after = along(after, L)
  <2>1. \E f : f = along(f, L)
    BY <1>3
  <2>2. after = CHOOSE f : f = along(f, L)
    BY DEF after
  <2> HIDE DEF after, along
  <2> QED
    BY <2>1, <2>2
<1>5. Votes(events) = after[L]
  BY DEF Votes, after
<1> HIDE DEF after
<1> QED
  BY <1>4, <1>5

LEMMA VotesCounted ==
    ASSUME NEW events, Len(events) \in Nat,
           \A k \in 1..Len(events) : events[k].user \in User /\ events[k].like \in {1, -1}
    PROVE  Counted(Votes(events))
<1> DEFINE L == Len(events)
<1>1. PICK f : /\ f = [k \in 0..L |-> IF k = 0 THEN NoVotes ELSE Judged(f[k - 1], events[k])]
               /\ Votes(events) = f[L]
  BY Judging
<1>2. \A k \in 0..L : f[k] = IF k = 0 THEN NoVotes ELSE Judged(f[k - 1], events[k])
  BY <1>1
<1> DEFINE S == {n \in Nat : n <= L => Counted(f[n])}
<1>3. 0 \in S
  BY <1>2, NoVotesCounted
<1>4. ASSUME NEW n \in Nat, n \in S PROVE n + 1 \in S
  <2> SUFFICES ASSUME n + 1 <= L PROVE Counted(f[n + 1])
    OBVIOUS
  <2>1. n <= L /\ n + 1 \in 1..L /\ n + 1 \in 0..L /\ n + 1 # 0 /\ (n + 1) - 1 = n
    OBVIOUS
  <2>2. Counted(f[n])
    BY <1>4, <2>1
  <2>3. f[n + 1] = Judged(f[n], events[n + 1])
    BY <1>2, <2>1
  <2> QED
    BY <2>1, <2>2, <2>3, JudgedCounted
<1>5. L \in S
  <2> HIDE DEF S, L
  <2>1. Nat \subseteq S
    BY <1>3, <1>4, Induct
  <2> QED
    BY <2>1 DEF L
<1> QED
  BY <1>1, <1>5

LEMMA CalculateLikeCounts ==
    ASSUME NEW l \in ListType, NEW c, ListKept(l, c)
    PROVE  Counted(CalculateLike(l))
<1>1. PICK v : Shows(l, v)
  BY DEF ListKept
<1>2. Len(v) \in Nat /\ DOMAIN v = 1..Len(v) /\ Walk(l) = v
      /\ \A k \in 1..Len(v) : v[k] \in Nodes(l)
  BY <1>1, WalkIs, ShowsParts
<1>3. Events(l) = [k \in 1..Len(v) |-> l.node[v[k]]]
  BY <1>2 DEF Events
<1>4. Len(Events(l)) = Len(v)
  BY <1>2, <1>3
<1>5. \A k \in 1..Len(v) : l.node[v[k]] \in NodeType
  BY <1>2, NodesShape
<1>6. \A k \in 1..Len(v) : Events(l)[k].user \in User /\ Events(l)[k].like \in {1, -1}
  BY <1>3, <1>5 DEF NodeType
<1> QED
  BY <1>2, <1>4, <1>6, VotesCounted DEF CalculateLike

-----------------------------------------------------------------------------
(***************************************************************************)
(* Types: what the argument about the log leaves open.  A total and the    *)
(* votes come from CalculateLike or from one like more, and a message that *)
(* is counted has been given a creator: CheckForMerge sends it on.         *)
(***************************************************************************)
TypedGroup(g) ==
    /\ g.total \in Int
    /\ g.vote \in [User -> {1, 0, -1}]
    /\ IsFiniteSet(Likers(g))
    /\ \A o \in Server : g.msgTimestamp[o] > 0 => HasMessage(g)

Typed ==
    /\ up \subseteq Server
    /\ \A s \in Server : TypedGroup(group[s])
    /\ linked \in [Server -> SUBSET Server]
    /\ net \in [Server -> [Server -> Seq(RequestType)]]
    /\ out \in [User -> UpdateMsgType \cup UpdateLikeType \cup {NoRequest}]
    /\ breaks \in Nat

LEMMA SameVotes ==
    ASSUME NEW g, NEW k, TypedGroup(g), k.vote = g.vote, k.total \in Int, HasMessage(k)
    PROVE  TypedGroup(k)
<1>1. Likers(k) = Likers(g)
  BY DEF Likers
<1> QED
  BY <1>1 DEF TypedGroup

LEMMA EmptyTyped == TypedGroup(NoGroup) /\ TypedGroup(CreateGroup)
<1>1. NoVotes.vote = [u \in User |-> 0]
  BY DEF NoVotes
<1>2. /\ NoGroup.total = 0 /\ NoGroup.vote = [u \in User |-> 0]
      /\ \A o \in Server : NoGroup.msgTimestamp[o] = 0
  BY <1>1 DEF NoGroup
<1>3. /\ CreateGroup.total = 0 /\ CreateGroup.vote = [u \in User |-> 0]
      /\ \A o \in Server : CreateGroup.msgTimestamp[o] = 0
  BY <1>1 DEF CreateGroup, NoGroup
<1>4. ASSUME NEW g, g.total = 0, g.vote = [u \in User |-> 0],
             \A o \in Server : g.msgTimestamp[o] = 0
      PROVE  TypedGroup(g)
  <2>1. Likers(g) = {}
    BY <1>4 DEF Likers
  <2> QED
    BY <1>4, <2>1, FS_EmptySet DEF TypedGroup
<1> QED
  BY <1>2, <1>3, <1>4

\* AppendMessage.
LEMMA PostTyped ==
    ASSUME NEW V, NEW g \in GroupOf(V), TypedGroup(g), NEW s
    PROVE  TypedGroup([WithMessage(g, Author, TRUE, 0) EXCEPT !.msgTimestamp[s] = 1])
<1> DEFINE k == [WithMessage(g, Author, TRUE, 0) EXCEPT !.msgTimestamp[s] = 1]
<1>1. k.vote = g.vote /\ k.total = 0 /\ k.creator = Author
  BY DEF WithMessage, GroupOf
<1> HIDE DEF k
<1>2. k.total \in Int /\ HasMessage(k)
  BY <1>1, AuthorAssumption, NobodyAssumption DEF HasMessage
<1> QED
  BY <1>1, <1>2, SameVotes DEF k

\* Insertion of a message.
LEMMA MsgInsertedTyped ==
    ASSUME NEW V, NEW g \in GroupOf(V), TypedGroup(g), NEW m \in UpdateMsgType
    PROVE  TypedGroup(MsgInserted(g, m))
<1> DEFINE k == MsgInserted(g, m)
<1>1. m.user \in User /\ m.like \in Int
  BY DEF UpdateMsgType
<1>2. k = g \/ (k.vote = g.vote /\ k.total \in {m.like, 0} /\ k.creator = m.user)
  <2>1. CASE g.made /\ g.msgTimestamp[m.from] >= m.index
    BY <2>1 DEF MsgInserted
  <2>2. CASE ~(g.made /\ g.msgTimestamp[m.from] >= m.index) /\ HasMessage(g)
    <3>1. k = [g EXCEPT !.creator = m.user, !.total = m.like]
      BY <2>2 DEF MsgInserted
    <3> QED
      BY <3>1 DEF GroupOf
  <2>3. CASE ~(g.made /\ g.msgTimestamp[m.from] >= m.index) /\ ~HasMessage(g)
    <3> DEFINE b == [[g EXCEPT !.made = TRUE] EXCEPT
                       !.creator = m.user, !.numbered = g.made,
                       !.total = IF g.made THEN m.like ELSE 0]
    <3>1. \E n : k = [b EXCEPT !.msgTimestamp[m.from] = n]
      BY <2>3 DEF MsgInserted, WithMessage
    <3>2. b.vote = g.vote /\ b.total \in {m.like, 0} /\ b.creator = m.user
      BY DEF GroupOf
    <3>3. \A n : LET x == [b EXCEPT !.msgTimestamp[m.from] = n]
                 IN  x.vote = b.vote /\ x.total = b.total /\ x.creator = b.creator
      BY DEF GroupOf
    <3> HIDE DEF k, b
    <3> QED
      BY <3>1, <3>2, <3>3
  <2> QED
    BY <2>1, <2>2, <2>3
<1> HIDE DEF k
<1>3. CASE k = g
  BY <1>3 DEF k
<1>4. CASE k # g
  <2>1. k.vote = g.vote /\ k.total \in Int /\ HasMessage(k)
    BY <1>1, <1>2, <1>4, NobodyAssumption DEF HasMessage
  <2> QED
    BY <2>1, SameVotes DEF k
<1> QED
  BY <1>3, <1>4

\* InsertLike and CalculateLike.
LEMMA LikeInsertedTyped ==
    ASSUME NEW V, NEW g \in GroupOf(V), TypedGroup(g), NEW m \in UpdateLikeType,
           ~LikePanics(g, m), NEW c \in Nat, ListKept(g.list, c), Unmade(g)
    PROVE  /\ TypedGroup(LikeInserted(g, m))
           /\ LikeInserted(g, m).list # g.list => Counted(LikeInserted(g, m))
<1>1. CASE RedundantLike(g, m)
  BY <1>1 DEF LikeInserted
<1>2. CASE ~RedundantLike(g, m)
  <2> DEFINE b == MsgToLike(g, m)
             event == Event(m.user, m.like, m.time)
             list == Sorted(b.list, event)
             votes == CalculateLike(list)
             k == LikeInserted(g, m)
  <2>1. m.user \in User /\ event \in EventType /\ event.time = m.time
    BY DEF UpdateLikeType, Event, EventType
  <2>2. b.list = g.list /\ HasMessage(b)
    <3>1. CASE HasMessage(g)
      BY <3>1 DEF MsgToLike
    <3>2. CASE ~HasMessage(g) /\ g.made
      BY <2>1, <3>2, NobodyAssumption DEF MsgToLike, WithMessage, GroupOf, HasMessage
    <3>3. CASE ~HasMessage(g) /\ ~g.made
      <4>1. g = NoGroup
        BY <3>3 DEF Unmade
      <4>2. b.creator = m.user /\ b.list = NoEvents
        BY <3>3 DEF MsgToLike, WithMessage, CreateGroup, NoGroup
      <4>3. NoGroup.list = NoEvents
        BY DEF NoGroup
      <4> QED
        BY <2>1, <4>1, <4>2, <4>3, NobodyAssumption DEF HasMessage
    <3> QED
      BY <3>1, <3>2, <3>3
  <2>3. /\ k.total = votes.total /\ k.vote = votes.vote
        /\ k.creator = b.creator
    <3>1. k = Liked(b, m)
      BY <1>2 DEF LikeInserted
    <3>2. \A x : LET y == Liked(x, m)
                     v == CalculateLike(Sorted(x.list, event))
                 IN  "creator" \in DOMAIN x /\ "total" \in DOMAIN x /\ "vote" \in DOMAIN x =>
                     y.total = v.total /\ y.vote = v.vote /\ y.creator = x.creator
      BY DEF Liked
    <3>3. "creator" \in DOMAIN b /\ "total" \in DOMAIN b /\ "vote" \in DOMAIN b
      BY DEF MsgToLike, WithMessage, GroupOf, CreateGroup, NoGroup
    <3> QED
      BY <3>1, <3>2, <3>3
  <2>4. g.list \in ListType /\ ~NoPlace(g.list, m.time)
    BY <1>2 DEF LikePanics, GroupOf
  <2> HIDE DEF event, b, k
  <2>5. list \in ListType /\ ListKept(list, c)
    BY <2>1, <2>2, <2>4, SortedExtends, SortedKept DEF Extends
  <2> HIDE DEF list
  <2>6. Counted(votes)
    BY <2>5, CalculateLikeCounts
  <2> HIDE DEF votes
  <2>7. Likers(k) = Likers(votes) /\ HasMessage(k)
    BY <2>2, <2>3 DEF Likers, HasMessage
  <2>8. Counted(k)
    BY <2>3, <2>6, <2>7 DEF Counted
  <2>9. k.total \in Int
    BY <2>8, FS_CardinalityType DEF Counted
  <2>10. TypedGroup(k)
    BY <2>7, <2>8, <2>9 DEF Counted, TypedGroup
  <2> QED
    BY <2>8, <2>10 DEF k
<1> QED
  BY <1>1, <1>2

\* PerformingLike, after LikeMessage or UnlikeMessage has let it through.
LEMMA PerformingTyped ==
    ASSUME NEW V, NEW g \in GroupOf(V), TypedGroup(g), NEW s \in Server, NEW u \in User,
           NEW like \in {1, -1}, Votable(g, u, like), NEW second
    PROVE  LET k == PerformingLike(g, s, like, u, second)
           IN  /\ TypedGroup(k)
               /\ Cardinality(Likers(g)) \in Int /\ g.total \in Int
               /\ k.total = g.total + like
               /\ Cardinality(Likers(k)) = Cardinality(Likers(g)) + like
<1> DEFINE k == PerformingLike(g, s, like, u, second)
<1>1. /\ k.total = g.total + like
      /\ k.vote = [g.vote EXCEPT ![u] = like]
      /\ k.msgTimestamp = g.msgTimestamp
      /\ k.creator = g.creator
  BY DEF PerformingLike, GroupOf
<1>2. g.vote[u] # like /\ (like = -1 => g.vote[u] = 1)
  BY DEF Votable, MayLike, MayUnlike
<1> HIDE DEF k
<1>3. Revotes(g, u, like, k)
  BY <1>1, <1>2 DEF Revotes, TypedGroup
<1>4. /\ k.vote \in [User -> {1, 0, -1}]
      /\ IsFiniteSet(Likers(k))
      /\ Cardinality(Likers(g)) \in Nat
      /\ Cardinality(Likers(k)) = Cardinality(Likers(g)) + like
  BY ONLY <1>3, Revoted
<1>5. g.total \in Int /\ k.total \in Int
  BY <1>1 DEF TypedGroup
<1>6. TypedGroup(k)
  BY <1>1, <1>4, <1>5 DEF TypedGroup, HasMessage
<1> QED
  BY <1>1, <1>4, <1>5, <1>6 DEF k

-----------------------------------------------------------------------------
(***************************************************************************)
(* Types on the streams.                                                   *)
(***************************************************************************)
\* What CheckForMerge answers: the message only if it is there.
LEMMA MissingTyped ==
    ASSUME NEW V, NEW h \in [Server -> GroupOf(V)], LogsHold(h), NEW t \in Server,
           TypedGroup(h[t]), NEW m \in CheckForMergeType, NEW o \in Server
    PROVE  Missing(h[t], m, o) \in Seq(RequestType)
<1> DEFINE g == h[t]
           known == m.likes[o]
           here == g.likeTimestamp[o]
           N == IF here > known THEN here - known ELSE 0
           msg == UpdateMsg(o, g.creator, g.total)
           first == IF m.msgs[o] < g.msgTimestamp[o] THEN <<msg>> ELSE <<>>
           like(k) == UpdateLike(o, known + k, LikeFiled(g, o, known + k))
           likes == [k \in 1..N |-> like(k)]
<1>1. g \in GroupOf(V) /\ Filed(h, g) /\ Complete(g) /\ TypedGroup(g)
  BY DEF LogsHold
<1>2. known \in Nat /\ here \in Nat /\ N \in Nat /\ m.msgs[o] \in Nat /\ g.msgTimestamp[o] \in Nat
  BY <1>1 DEF GroupOf, CheckForMergeType
<1>3. m.msgs[o] < g.msgTimestamp[o] => msg \in RequestType
  <2> SUFFICES ASSUME m.msgs[o] < g.msgTimestamp[o] PROVE msg \in RequestType
    OBVIOUS
  <2>1. g.msgTimestamp[o] > 0
    BY <1>2
  <2>2. g.creator \in User /\ g.total \in Int
    BY <1>1, <2>1 DEF TypedGroup, HasMessage, GroupOf
  <2> QED
    BY <2>2 DEF UpdateMsg, UpdateMsgType, RequestType
<1>4. ASSUME NEW k \in 1..N
      PROVE  like(k) \in RequestType
  <2> DEFINE i == known + k
             event == LikeFiled(g, o, i)
  <2>1. i \in 1..here /\ i \in Nat
    BY <1>2
  <2>2. g.likeEvent[o][i] \in Nodes(g.list)
    BY <1>1, <2>1 DEF Complete, Filed
  <2>3. event \in EventType
    <3>1. g.list \in ListType
      BY <1>1 DEF GroupOf
    <3> QED
      BY <2>2, <3>1, NodesShape, NodeSays DEF LikeFiled
  <2> HIDE DEF i, event
  <2>4. UpdateLike(o, i, event) \in RequestType
    BY <2>1, <2>3 DEF UpdateLike, UpdateLikeType, EventType, RequestType
  <2> QED
    BY <2>4 DEF i, event
<1> HIDE DEF like, msg
<1>5. first \in Seq(RequestType)
  BY <1>3, EmptySeq
<1>6. likes \in Seq(RequestType)
  <2>1. likes \in [1..N -> RequestType]
    BY <1>4
  <2> HIDE DEF N, likes
  <2> QED
    BY <1>2, <2>1, IntervalSeq
<1>7. Missing(h[t], m, o) = first \o likes
  BY DEF Missing, msg, like
<1> QED
  BY <1>5, <1>6, <1>7, ConcatProperties

\* A request that stays at the head of its stream with an origin less to do.
LEMMA OriginDone ==
    ASSUME NEW B, net \in [Server -> [Server -> Seq(B)]], NEW s \in Server, NEW t \in Server,
           net[s][t] # <<>>, NEW o, [Head(net[s][t]) EXCEPT !.todo = @ \ {o}] \in B
    PROVE  [net EXCEPT ![s][t][1].todo = @ \ {o}] \in [Server -> [Server -> Seq(B)]]
<1> DEFINE m == Head(net[s][t])
           cut == [m EXCEPT !.todo = @ \ {o}]
<1>1. net[s][t] \in Seq(B) /\ net[s][t] # <<>>
  OBVIOUS
<1>2. Len(net[s][t]) \in Nat /\ 1 \in 1..Len(net[s][t]) /\ m = net[s][t][1]
      /\ net[s][t] \in [1..Len(net[s][t]) -> B]
  BY <1>1, HeadTailProperties, EmptySeq
<1>3. cut \in B
  OBVIOUS
<1>4. [net[s][t] EXCEPT ![1] = cut] \in Seq(B)
  <2> HIDE DEF cut
  <2>1. [net[s][t] EXCEPT ![1] = cut] \in [1..Len(net[s][t]) -> B]
    BY <1>2, <1>3
  <2> QED
    BY <1>2, <2>1, IntervalSeq
<1>5. [net EXCEPT ![s][t][1].todo = @ \ {o}] = [net EXCEPT ![s][t] = [net[s][t] EXCEPT ![1] = cut]]
  BY <1>2
<1> QED
  <2> HIDE DEF cut
  <2>1. [net EXCEPT ![s][t] = [net[s][t] EXCEPT ![1] = cut]] \in [Server -> [Server -> Seq(B)]]
    BY <1>4
  <2> QED
    BY <1>5, <2>1

LEMMA CheckForMergeTyped ==
    ASSUME Inv, Typed, NEW s \in Server, NEW t \in Server, ReceiveCheckForMerge(s, t)
    PROVE  net' \in [Server -> [Server -> Seq(RequestType)]]
<1> DEFINE m == Head(net[s][t])
           rest(o) == IF m.todo = {o} THEN Handled(s, t)
                      ELSE [net EXCEPT ![s][t][1].todo = @ \ {o}]
           reqs(o) == [u \in Server |-> IF u = m.replica THEN Missing(group[t], m, o) ELSE <<>>]
<1>1. PICK V : Shape(V)
  BY DEF Inv
<1>2. net \in [Server -> [Server -> Seq(RequestType)]] /\ TypedGroup(group[t])
  BY DEF Typed
<1>3. Takes(s, t, "CheckForMerge") /\ net[s][t] # <<>>
  BY DEF ReceiveCheckForMerge, Takes
<1>4. /\ m \in Backed(group, V) /\ m.kind = "CheckForMerge"
      /\ Handled(s, t) \in [Server -> [Server -> Seq(RequestType)]]
  BY <1>1, <1>2, <1>3, Taking
<1>5. m \in CheckForMergeType
  BY <1>4 DEF Backed, RequestOf, UpdateLikeType
<1>6. PICK o \in m.todo : IF group[t].made THEN Send(t, reqs(o), rest(o)) ELSE net' = rest(o)
  BY DEF ReceiveCheckForMerge
<1>7. o \in Server
  BY <1>5 DEF CheckForMergeType
<1>8. [m EXCEPT !.todo = @ \ {o}] \in RequestType
  BY <1>5 DEF CheckForMergeType, RequestType
<1>9. [net EXCEPT ![s][t][1].todo = @ \ {o}] \in [Server -> [Server -> Seq(RequestType)]]
  BY ONLY <1>2, <1>3, <1>8, OriginDone
<1>10. rest(o) \in [Server -> [Server -> Seq(RequestType)]]
  BY <1>4, <1>9
<1>11. \A u \in Server : reqs(o)[u] \in Seq(RequestType)
  <2>1. Missing(group[t], m, o) \in Seq(RequestType)
    BY <1>1, <1>2, <1>5, <1>7, MissingTyped DEF Shape, Inv
  <2>2. <<>> \in Seq(RequestType)
    BY EmptySeq
  <2> QED
    BY <2>1, <2>2
<1> HIDE DEF rest, reqs
<1> QED
  BY <1>6, <1>10, <1>11, Sending

LEMMA StreamsTyped ==
    ASSUME Inv, Typed, [Next]_vars
    PROVE  /\ up' \subseteq Server
           /\ linked' \in [Server -> SUBSET Server]
           /\ net' \in [Server -> [Server -> Seq(RequestType)]]
           /\ out' \in [User -> UpdateMsgType \cup UpdateLikeType \cup {NoRequest}]
           /\ breaks' \in Nat
<1> DEFINE Streams == [Server -> [Server -> Seq(RequestType)]]
           Outs == [User -> UpdateMsgType \cup UpdateLikeType \cup {NoRequest}]
           Goal == /\ up' \subseteq Server
                   /\ linked' \in [Server -> SUBSET Server]
                   /\ net' \in Streams
                   /\ out' \in Outs
                   /\ breaks' \in Nat
<1>1. PICK V : Shape(V)
  BY DEF Inv
<1>2. /\ up \subseteq Server
      /\ linked \in [Server -> SUBSET Server]
      /\ net \in Streams
      /\ out \in Outs
      /\ breaks \in Nat
      /\ \A s \in Server : TypedGroup(group[s])
  BY DEF Typed
<1>3. <<>> \in Seq(RequestType)
  BY EmptySeq
<1> HIDE DEF Goal
<1>4. ASSUME UNCHANGED <<up, linked, breaks>>, net' \in Streams, out' \in Outs
      PROVE  Goal
  BY <1>2, <1>4 DEF Goal
<1>5. ASSUME Post PROVE Goal
  <2>1. Home[Author] \in Server /\ Author \in User
    BY HomeAssumption, AuthorAssumption
  <2>2. UpdateMsg(Home[Author], Author, 0) \in UpdateMsgType
    BY <2>1 DEF UpdateMsg, UpdateMsgType
  <2>3. out' \in Outs /\ UNCHANGED <<up, linked, net, breaks>>
    BY <1>2, <1>5, <2>2 DEF Post
  <2> QED
    BY <1>2, <1>4, <2>3
<1>6. ASSUME NEW c \in User, NEW like \in {1, -1}, Perform(c, like) PROVE Goal
  <2> DEFINE s == Home[c]
             n == group[s].likeTimestamp[s] + 1
  <2>1. PICK second \in clock[s]..MaxSeconds :
           out' = [out EXCEPT ![c] = UpdateLike(s, n, Event(c, like, WireTime(LocalTime(second))))]
    BY <1>6 DEF Perform
  <2>2. s \in Server
    BY HomeAssumption
  <2>3. second \in Nat /\ n \in Nat
    <3>1. clock[s] \in Nat /\ group[s].likeTimestamp[s] \in Nat
      BY <1>1, <2>2 DEF Shape, GroupOf
    <3> QED
      BY <3>1, MaxSecondsAssumption
  <2>4. WireTime(LocalTime(second)) \in Nat
    <3>1. LocalTime(second) \in Nat
      BY <2>3 DEF LocalTime
    <3> QED
      BY <3>1, WireTimes
  <2> HIDE DEF s, n
  <2>5. UpdateLike(s, n, Event(c, like, WireTime(LocalTime(second)))) \in UpdateLikeType
    BY <2>2, <2>3, <2>4 DEF UpdateLike, Event, UpdateLikeType
  <2>6. out' \in Outs /\ UNCHANGED <<up, linked, net, breaks>>
    BY <1>2, <1>6, <2>1, <2>5 DEF Perform
  <2> QED
    BY <1>2, <1>4, <2>6
<1>7. ASSUME NEW c \in User, Broadcast(c) PROVE Goal
  <2> DEFINE reqs == [t \in Server |-> <<out[c]>>]
  <2>1. Home[c] \in Server
    BY HomeAssumption
  <2>2. out[c] \in RequestType
    BY <1>2, <1>7 DEF Broadcast, RequestType
  <2>3. \A t \in Server : reqs[t] \in Seq(RequestType)
    BY <2>2
  <2>4. Send(Home[c], reqs, net)
    BY <1>7 DEF Broadcast, ReplicaBroadcast
  <2> HIDE DEF reqs
  <2>5. net' \in Streams
    BY <1>2, <2>1, <2>3, <2>4, Sending
  <2>6. out' \in Outs /\ UNCHANGED <<up, linked, breaks>>
    BY <1>2, <1>7 DEF Broadcast
  <2> QED
    BY <1>4, <2>5, <2>6
<1>8. ASSUME NEW s \in Server, Entropy(s) PROVE Goal
  <2> DEFINE req == CheckForMerge(s, group[s])
             reqs == [t \in Server |-> <<req>>]
  <2>1. req \in RequestType
    <3>1. group[s] \in GroupOf(V)
      BY <1>1 DEF Shape
    <3> QED
      BY <3>1 DEF GroupOf, CheckForMerge, CheckForMergeType, RequestType
  <2> HIDE DEF req
  <2>2. \A t \in Server : reqs[t] \in Seq(RequestType)
    BY <2>1
  <2>3. Send(s, reqs, net)
    BY <1>8 DEF Entropy, ReplicaBroadcast, req
  <2> HIDE DEF reqs
  <2>4. net' \in Streams
    BY <1>2, <2>2, <2>3, Sending
  <2>5. UNCHANGED <<up, linked, out, breaks>>
    BY <1>8 DEF Entropy
  <2> QED
    BY <1>2, <1>4, <2>4, <2>5
<1>9. ASSUME NEW s \in Server, Panic(s) PROVE Goal
  <2>1. net' \in Streams
    BY <1>2, <1>3, <1>9 DEF Panic
  <2>2. up' \subseteq Server /\ UNCHANGED <<linked, out, breaks>>
    BY <1>2, <1>9 DEF Panic
  <2> QED
    BY <1>2, <2>1, <2>2 DEF Goal
<1>10. ASSUME NEW s \in Server, NEW t \in Server, Receive(s, t) PROVE Goal
  <2>1. ASSUME NEW kind, Takes(s, t, kind), net' = Handled(s, t), UNCHANGED <<up, linked, out, breaks>>
        PROVE  Goal
    <3>1. net' \in Streams
      BY <1>1, <1>2, <2>1, Taking
    <3> QED
      BY <1>2, <1>4, <2>1, <3>1
  <2>2. ASSUME ReceiveUpdateMsg(s, t) \/ ReceiveUpdateLike(s, t) PROVE Goal
    BY <2>1, <2>2 DEF ReceiveUpdateMsg, ReceiveUpdateLike
  <2>3. ASSUME ReceiveCheckForMerge(s, t) PROVE Goal
    <3>1. net' \in Streams
      BY <2>3, CheckForMergeTyped
    <3>2. UNCHANGED <<up, linked, out, breaks>>
      BY <2>3 DEF ReceiveCheckForMerge
    <3> QED
      BY <1>2, <1>4, <3>1, <3>2
  <2>4. ASSUME UpdateLikePanics(s, t) \/ CheckForMergePanics(s, t) PROVE Goal
    BY <1>9, <2>4 DEF UpdateLikePanics, CheckForMergePanics
  <2> QED
    BY <1>10, <2>2, <2>3, <2>4 DEF Receive
<1>11. ASSUME NEW s \in Server, NEW t \in Server, ReplicaSetUp(s, t) PROVE Goal
  BY <1>2, <1>11 DEF ReplicaSetUp, Goal
<1>12. ASSUME NEW s \in Server, NEW t \in Server, Break(s, t) PROVE Goal
  <2>1. net' \in Streams
    BY <1>2, <1>3, <1>12 DEF Break
  <2>2. breaks' \in Nat /\ UNCHANGED <<up, linked, out>>
    BY <1>2, <1>12 DEF Break
  <2> QED
    BY <1>2, <2>1, <2>2 DEF Goal
<1>13. ASSUME NEW s \in Server, GroupMade(s) PROVE Goal
  BY <1>2, <1>4, <1>13 DEF GroupMade
<1>14. ASSUME UNCHANGED vars PROVE Goal
  BY <1>2, <1>4, <1>14 DEF vars
<1>15. Goal
  <2>1. ASSUME NEW c \in User, UserStep(c) PROVE Goal
    BY <1>6, <1>7, <2>1 DEF UserStep, Like, Unlike
  <2>2. ASSUME Next PROVE Goal
    BY <1>5, <1>8, <1>10, <1>11, <1>12, <1>13, <2>1, <2>2 DEF Next
  <2> QED
    BY <1>14, <2>2
<1> QED
  BY <1>15 DEF Goal

-----------------------------------------------------------------------------
(***************************************************************************)
(* Types and totals at the servers.                                        *)
(***************************************************************************)
LEMMA HandedTyped ==
    ASSUME Inv, ListsKept, Typed, NEW s \in Server, NEW k, Handed(s, k)
    PROVE  TypedGroup(k) /\ (k.list # group[s].list => Counted(k))
<1> DEFINE g == group[s]
           Goal == TypedGroup(k) /\ (k.list # g.list => Counted(k))
<1>1. PICK V : Shape(V)
  BY DEF Inv
<1>2. /\ g \in GroupOf(V) /\ TypedGroup(g) /\ Unmade(g)
      /\ ListKept(g.list, clock[s]) /\ clock[s] \in Nat
  BY <1>1 DEF Shape, Inv, LogsHold, Typed, ListsKept
<1>3. CASE ~g.made /\ k = CreateGroup
  <2>1. g = NoGroup
    BY <1>2, <1>3 DEF Unmade
  <2>2. CreateGroup.list = NoGroup.list
    BY DEF CreateGroup, NoGroup
  <2> QED
    BY <1>3, <2>1, <2>2, EmptyTyped
<1>4. CASE k = [WithMessage(g, Author, TRUE, 0) EXCEPT !.msgTimestamp[s] = 1]
  <2>1. TypedGroup(k)
    BY <1>2, <1>4, PostTyped
  <2>2. k.list = g.list
    BY <1>2, <1>4 DEF WithMessage, GroupOf
  <2> QED
    BY <2>1, <2>2
<1>5. ASSUME NEW u \in Server, net[u][s] # <<>>, Head(net[u][s]).kind = "UpdateMsg",
             k = MsgInserted(g, Head(net[u][s]))
      PROVE  Goal
  <2>1. net[u][s] \in Seq(RequestType)
    BY DEF Typed
  <2>2. Head(net[u][s]) \in RequestType
    BY <1>5, <2>1, HeadTailProperties
  <2>3. PICK m \in UpdateMsgType : m = Head(net[u][s])
    BY <1>5, <2>2 DEF RequestType, UpdateLikeType, CheckForMergeType
  <2>4. TypedGroup(k)
    BY <1>2, <1>5, <2>3, MsgInsertedTyped
  <2>5. k.list = g.list
    BY <1>2, <1>5, <2>3 DEF MsgInserted, WithMessage, GroupOf
  <2> QED
    BY <2>4, <2>5
<1>6. ASSUME NEW m \in UpdateLikeType, ~LikePanics(g, m), k = LikeInserted(g, m)
      PROVE  Goal
  <2> HIDE DEF g
  <2> QED
    BY <1>2, <1>6, LikeInsertedTyped
<1> QED
  BY <1>3, <1>4, <1>5, <1>6 DEF Handed

LEMMA VotedTyped ==
    ASSUME Inv, Typed, NEW s \in Server, NEW k, Voted(s, k)
    PROVE  /\ TypedGroup(k)
           /\ group[s].total = Cardinality(Likers(group[s])) => k.total = Cardinality(Likers(k))
<1>1. PICK V : Shape(V)
  BY DEF Inv
<1>2. group[s] \in GroupOf(V) /\ TypedGroup(group[s])
  BY <1>1 DEF Shape, Typed
<1>3. PICK second \in Nat, c \in User, like \in {1, -1} :
        Votable(group[s], c, like) /\ k = PerformingLike(group[s], s, like, c, second)
  BY VotedParts
<1>4. /\ TypedGroup(k)
      /\ Cardinality(Likers(group[s])) \in Int /\ group[s].total \in Int
      /\ k.total = group[s].total + like
      /\ Cardinality(Likers(k)) = Cardinality(Likers(group[s])) + like
  BY <1>2, <1>3, PerformingTyped
<1> QED
  BY <1>4

LEMMA TypesStay ==
    ASSUME Inv, ListsKept, Typed, [Next]_vars
    PROVE  Typed'
<1>1. PICK V : Shape(V)
  BY DEF Inv
<1>2. DOMAIN group = Server /\ \A t \in Server : TypedGroup(group[t])
  BY <1>1 DEF Shape, Typed
<1>3. \A t \in Server : TypedGroup(group'[t])
  <2>1. CASE group' = group
    BY <1>2, <2>1
  <2>2. ASSUME NEW s \in Server, NEW k, group' = [group EXCEPT ![s] = k],
               Handed(s, k) \/ Voted(s, k), NEW t \in Server
        PROVE  TypedGroup(group'[t])
    <3>1. TypedGroup(k)
      BY <2>2, HandedTyped, VotedTyped
    <3>2. group'[t] = IF t = s THEN k ELSE group[t]
      BY <1>2, <2>2
    <3> QED
      BY <1>2, <3>1, <3>2
  <2> QED
    BY <2>1, <2>2, GroupChanges
<1>4. /\ up' \subseteq Server
      /\ linked' \in [Server -> SUBSET Server]
      /\ net' \in [Server -> [Server -> Seq(RequestType)]]
      /\ out' \in [User -> UpdateMsgType \cup UpdateLikeType \cup {NoRequest}]
      /\ breaks' \in Nat
  BY StreamsTyped
<1>5. (\A t \in Server : TypedGroup(group[t]))'
  BY <1>3 DEF TypedGroup, Likers, HasMessage
<1> QED
  BY <1>4, <1>5 DEF Typed

LEMMA InitTyped ==
    ASSUME Init
    PROVE  Typed
<1>1. \A s \in Server : TypedGroup(group[s])
  BY EmptyTyped DEF Init
<1>2. <<>> \in Seq(RequestType)
  BY EmptySeq
<1>3. net \in [Server -> [Server -> Seq(RequestType)]]
  BY <1>2 DEF Init
<1> QED
  BY <1>1, <1>3 DEF Init, Typed

LEMMA TypesKept == Spec => []Typed
<1>1. Init => Typed
  BY InitTyped
<1>2. Inv /\ ListsKept /\ Typed /\ [Next]_vars => Typed'
  BY TypesStay
<1> QED
  BY <1>1, <1>2, LikesInvariance, ListsStayKept, PTL DEF Spec

\* Every variable keeps its type, whatever the order of messages and likes: no
\* message without a creator is sent on, and what CheckForMerge dereferences for
\* a counted like is there.
THEOREM LikesTypeCorrect == Spec => []TypeOK
<1>1. Inv /\ Typed => TypeOK
  <2> SUFFICES ASSUME Inv, Typed PROVE TypeOK
    OBVIOUS
  <2>1. PICK V : Shape(V)
    BY DEF Inv
  <2>2. group \in [Server -> GroupType]
    <3> SUFFICES ASSUME NEW s \in Server PROVE group[s] \in GroupType
      BY <2>1 DEF Shape
    <3>1. group[s] \in GroupOf(V)
      BY <2>1 DEF Shape
    <3>2. group[s].total \in Int /\ group[s].vote \in [User -> {1, 0, -1}]
      BY DEF Typed, TypedGroup
    <3> QED
      BY <3>1, <3>2 DEF GroupOf, GroupType, ListType
  <2>3. ASSUME NEW s \in Server, NEW o \in Server, NEW i \in 1..group[s].likeTimestamp[o]
        PROVE  i \in Index /\ group[s].likeEvent[o][i] \in Nodes(group[s].list)
    BY DEF Inv, LogsHold, Complete, Filed
  <2>4. clock \in [Server -> Nat]
    BY <2>1 DEF Shape
  <2> QED
    BY <2>2, <2>3, <2>4 DEF TypeOK, Typed
<1> QED
  BY <1>1, LikesInvariance, TypesKept, PTL

\* The number beside the message may come from another server, but an event that
\* joins the list never takes a right one away from the number of likers.
THEOREM TotalStays == Spec => TotalFollowsVotes
<1> DEFINE Right(s) ==
             /\ group'[s].list # group[s].list
             /\ group[s].total = Cardinality(Likers(group[s]))
             => group'[s].total = Cardinality(Likers(group'[s]))
<1>1. ASSUME Inv, ListsKept, Typed, [Next]_vars, NEW s \in Server
      PROVE  Right(s)
  <2>1. DOMAIN group = Server
    BY <1>1 DEF Inv, Shape
  <2>2. CASE group' = group
    BY <2>2
  <2>3. ASSUME NEW p \in Server, NEW k, group' = [group EXCEPT ![p] = k],
               Handed(p, k) \/ Voted(p, k)
        PROVE  Right(s)
    <3>1. CASE s # p
      BY <2>1, <2>3, <3>1
    <3>2. CASE s = p
      <4>1. group'[s] = k
        BY <2>1, <2>3, <3>2
      <4>2. CASE Handed(s, k)
        <5>1. k.list # group[s].list => k.total = Cardinality(Likers(k))
          BY <1>1, <4>2, HandedTyped DEF Counted
        <5> QED
          BY <4>1, <5>1
      <4>3. CASE Voted(s, k)
        BY <1>1, <4>1, <4>3, VotedTyped
      <4> QED
        BY <2>3, <3>2, <4>2, <4>3
    <3> QED
      BY <3>1, <3>2
  <2> HIDE DEF Right
  <2> QED
    BY <1>1, <2>2, <2>3, GroupChanges
<1>2. Inv /\ ListsKept /\ Typed /\ [Next]_vars =>
        [\A s \in Server :
            /\ group'[s].list # group[s].list
            /\ group[s].total = Cardinality(Likers(group[s]))
            => group'[s].total = Cardinality(Likers(group'[s]))]_vars
  BY <1>1
<1> QED
  BY <1>2, LikesInvariance, ListsStayKept, TypesKept, PTL DEF Spec, TotalFollowsVotes

-----------------------------------------------------------------------------
(***************************************************************************)
(* The likes of one server: the others find in their lists the votes it    *)
(* keeps.  CalculateLike judges the events of a list from its first on, so *)
(* it is a matter of the order of the list.                                *)
(***************************************************************************)
\* The order of the events decides, and who gave or took back which like.
LEMMA JudgedSame ==
    ASSUME NEW x, NEW d, NEW e, d.user = e.user, d.like = e.like
    PROVE  Judged(x, d) = Judged(x, e)
  BY DEF Judged

\* The events d and e begin with the same n votes.
Alike(d, e, n) ==
    /\ {n, Len(d), Len(e)} \subseteq Nat /\ n <= Len(d) /\ n <= Len(e)
    /\ \A k \in 1..n : d[k].user = e[k].user /\ d[k].like = e[k].like

LEMMA VotesGo ==
    ASSUME NEW d, NEW e, NEW n, Alike(d, e, n)
    PROVE  \E f, g : /\ f[n] = g[n]
                     /\ Votes(d) = f[Len(d)] /\ Votes(e) = g[Len(e)]
                     /\ \A k \in 1..Len(e) : g[k] = Judged(g[k - 1], e[k])
<1> USE DEF Alike
<1>1. PICK f : /\ f = [k \in 0..Len(d) |-> IF k = 0 THEN NoVotes ELSE Judged(f[k - 1], d[k])]
               /\ Votes(d) = f[Len(d)]
  BY Judging
<1>2. PICK g : /\ g = [k \in 0..Len(e) |-> IF k = 0 THEN NoVotes ELSE Judged(g[k - 1], e[k])]
               /\ Votes(e) = g[Len(e)]
  BY Judging
<1>3. \A k \in 0..Len(d) : f[k] = IF k = 0 THEN NoVotes ELSE Judged(f[k - 1], d[k])
  BY <1>1
<1>4. \A k \in 0..Len(e) : g[k] = IF k = 0 THEN NoVotes ELSE Judged(g[k - 1], e[k])
  BY <1>2
<1> DEFINE S == {k \in Nat : k <= n => f[k] = g[k]}
<1>5. 0 \in S
  BY <1>3, <1>4
<1>6. ASSUME NEW k \in Nat, k \in S PROVE k + 1 \in S
  <2> SUFFICES ASSUME k + 1 <= n PROVE f[k + 1] = g[k + 1]
    OBVIOUS
  <2>1. /\ f[k] = g[k] /\ k + 1 # 0 /\ (k + 1) - 1 = k /\ k + 1 \in 1..n
        /\ k + 1 \in 0..Len(d) /\ k + 1 \in 0..Len(e)
    BY <1>6
  <2>2. f[k + 1] = Judged(f[k], d[k + 1]) /\ g[k + 1] = Judged(g[k], e[k + 1])
    BY <1>3, <1>4, <2>1
  <2>3. d[k + 1].user = e[k + 1].user /\ d[k + 1].like = e[k + 1].like
    BY <2>1
  <2> QED
    BY <2>1, <2>2, <2>3, JudgedSame
<1>7. n \in S
  <2> HIDE DEF S
  <2>1. Nat \subseteq S
    BY <1>5, <1>6, Induct
  <2> QED
    BY <2>1
<1>8. \A k \in 1..Len(e) : g[k] = Judged(g[k - 1], e[k])
  BY <1>4
<1>9. f[n] = g[n]
  BY <1>7
<1>10. Votes(d) = f[Len(d)] /\ Votes(e) = g[Len(e)]
  BY <1>1, <1>2
<1> HIDE DEF Alike
<1> QED
  BY ONLY <1>8, <1>9, <1>10, Zenon

LEMMA VotesSame ==
    ASSUME NEW d, NEW e, Alike(d, e, Len(d)), Len(e) = Len(d)
    PROVE  Votes(d) = Votes(e)
<1>1. PICK f, g : f[Len(d)] = g[Len(d)] /\ Votes(d) = f[Len(d)] /\ Votes(e) = g[Len(e)]
  BY VotesGo
<1> QED
  BY <1>1

LEMMA VotesOneMore ==
    ASSUME NEW d, NEW e, Alike(d, e, Len(d)), Len(e) = Len(d) + 1
    PROVE  Votes(e) = Judged(Votes(d), e[Len(e)])
<1>1. PICK f, g : /\ f[Len(d)] = g[Len(d)] /\ Votes(d) = f[Len(d)] /\ Votes(e) = g[Len(e)]
                  /\ \A k \in 1..Len(e) : g[k] = Judged(g[k - 1], e[k])
  BY VotesGo
<1>2. Len(e) \in 1..Len(e) /\ Len(e) - 1 = Len(d)
  BY DEF Alike
<1> QED
  BY <1>1, <1>2

LEMMA VotesNone ==
    ASSUME NEW e, Len(e) = 0
    PROVE  Votes(e) = NoVotes
<1>1. PICK f : /\ f = [k \in 0..Len(e) |-> IF k = 0 THEN NoVotes ELSE Judged(f[k - 1], e[k])]
               /\ Votes(e) = f[Len(e)]
  BY Judging
<1>2. 0 \in 0..Len(e)
  OBVIOUS
<1> QED
  BY <1>1, <1>2

\* The L numbers f[k] go up, and are those up to n.
Climbs(f, L, n) ==
    /\ \A k \in 1..L : f[k] \in 1..n
    /\ \A j, k \in 1..L : j < k => f[j] < f[k]
    /\ \A i \in 1..n : \E k \in 1..L : f[k] = i

\* Then each is numbered by itself.
LEMMA Climbing ==
    ASSUME NEW L \in Nat, NEW n \in Nat, NEW f, Climbs(f, L, n)
    PROVE  L = n /\ \A k \in 1..L : f[k] = k
<1> USE DEF Climbs
<1> DEFINE S == {k \in Nat : k + 1 <= L => f[k + 1] >= k + 1}
<1>1. 0 \in S
  OBVIOUS
<1>2. ASSUME NEW k \in Nat, k \in S PROVE k + 1 \in S
  <2> SUFFICES ASSUME (k + 1) + 1 <= L PROVE f[(k + 1) + 1] >= (k + 1) + 1
    OBVIOUS
  <2>1. k + 1 \in 1..L /\ (k + 1) + 1 \in 1..L /\ k + 1 < (k + 1) + 1
    OBVIOUS
  <2>2. f[k + 1] >= k + 1 /\ f[k + 1] < f[(k + 1) + 1]
    BY <1>2, <2>1
  <2>3. f[k + 1] \in Nat /\ f[(k + 1) + 1] \in Nat
    BY <2>1
  <2> QED
    BY <2>2, <2>3
<1>3. ASSUME NEW k \in 1..L PROVE f[k] >= k
  <2>1. Nat \subseteq S
    <3> HIDE DEF S
    <3> QED
      BY <1>1, <1>2, Induct
  <2>2. k - 1 \in S
    <3>1. k - 1 \in Nat
      OBVIOUS
    <3> HIDE DEF S
    <3> QED
      BY <2>1, <3>1
  <2>3. (k - 1) + 1 = k /\ k <= L
    OBVIOUS
  <2> QED
    BY <2>2, <2>3
<1>4. ASSUME NEW k0 \in 1..L, f[k0] # k0 PROVE FALSE
  <2> DEFINE T == {k \in 1..L : f[k] # k}
  <2>1. PICK k \in T : \A m \in T : k <= m
    <3>1. T \subseteq Nat /\ T # {}
      BY <1>4
    <3> HIDE DEF T
    <3> QED
      BY <3>1, Least
  <2>2. k \in 1..L /\ f[k] > k /\ f[k] \in 1..n
    BY <1>3, <2>1
  <2>3. PICK j \in 1..L : f[j] = k
    BY <2>2
  <2>4. CASE j < k
    BY <2>1, <2>3, <2>4
  <2>5. CASE j > k
    <3>1. f[j] > f[k] /\ f[j] \in 1..n
      BY <2>2, <2>3, <2>5
    <3> QED
      BY <2>2, <2>3, <3>1
  <2> QED
    BY <2>2, <2>3, <2>4, <2>5
<1>5. L = n
  <2>1. CASE L = 0
    BY <2>1
  <2>2. CASE L # 0
    <3>1. L \in 1..L /\ f[L] = L
      BY <1>4, <2>2
    <3>2. n \in 1..n
      BY <3>1
    <3>3. PICK j \in 1..L : f[j] = n
      BY <3>2
    <3> QED
      BY <1>4, <3>1, <3>2, <3>3
  <2> QED
    BY <2>1, <2>2
<1> QED
  BY <1>4, <1>5

-----------------------------------------------------------------------------
(***************************************************************************)
(* As long as the users of one server only vote: what that server keeps,   *)
(* and what the others do.  Its clock does not go back, and the others     *)
(* have panicked rather than taken two likes of one second, so the times   *)
(* in their lists go up and tell the likes apart.                          *)
(***************************************************************************)
\* In the groups h, no server but o has performed a like.
Alone(h, o) == \A p \in Server \ {o} : h[p].likeTimestamp[p] = 0

\* The likes of o that the group g has counted.
Log(g, o) == [i \in 1..g.likeTimestamp[o] |-> LikeFiled(g, o, i)]

\* The group at o itself, when its clock is at the second c.
Own(g, o, c) ==
    /\ g.vote = Votes(Log(g, o)).vote
    /\ \A i, j \in 1..g.likeTimestamp[o] :
          i < j => LikeFiled(g, o, i).time <= LikeFiled(g, o, j).time
    /\ \A i \in 1..g.likeTimestamp[o] : LikeFiled(g, o, i).time <= WireTime(LocalTime(c))

\* The times along v go up, and are those of the wire.
Rising(l, v) ==
    /\ \A i, j \in 1..Len(v) : i < j => l.node[v[i]].time < l.node[v[j]].time
    /\ \A i \in 1..Len(v) : WireTime(l.node[v[i]].time) = l.node[v[i]].time

\* v holds what is filed of o, and nothing else.
Matches(g, o, v) ==
    /\ \A k \in 1..Len(v) : \E i \in Index : g.likeEvent[o][i] = v[k]
    /\ \A i \in Index : g.likeEvent[o][i] # Nil => \E k \in 1..Len(v) : v[k] = g.likeEvent[o][i]
    /\ \A i, j \in Index : /\ g.likeEvent[o][i] # Nil
                           /\ g.likeEvent[o][i] = g.likeEvent[o][j]
                           => i = j

\* The group at another server.
Following(g, o) ==
    /\ \E v : Shows(g.list, v) /\ Rising(g.list, v) /\ Matches(g, o, v)
    /\ g.vote = CalculateLike(g.list).vote

OneVotes ==
    \A o \in Server : Alone(group, o) =>
        /\ Own(group[o], o, clock[o])
        /\ \A s \in Server \ {o} : Following(group[s], o)

LEMMA Seconds ==
    ASSUME NEW c \in Nat
    PROVE  WireTime(LocalTime(c)) = 2 * c
<1>1. (2 * c + 1) % 2 = 1
  OBVIOUS
<1> QED
  BY <1>1 DEF WireTime, LocalTime

\* A group that has not got a like.
SameVoting(k, g) ==
    /\ k.vote = g.vote
    /\ k.list = g.list
    /\ k.likeEvent = g.likeEvent
    /\ k.likeTimestamp = g.likeTimestamp

LEMMA SameVotingKeeps ==
    ASSUME NEW g, NEW k, SameVoting(k, g), NEW o, NEW c
    PROVE  /\ Own(g, o, c) => Own(k, o, c)
           /\ Following(g, o) => Following(k, o)
<1>1. \A i : LikeFiled(k, o, i) = LikeFiled(g, o, i)
  BY DEF SameVoting, LikeFiled
<1>2. Log(k, o) = Log(g, o)
  BY <1>1 DEF Log, SameVoting
<1>3. Own(g, o, c) => Own(k, o, c)
  BY <1>1, <1>2 DEF Own, SameVoting
<1>4. Following(g, o) => Following(k, o)
  BY DEF Following, Matches, SameVoting
<1> QED
  BY <1>3, <1>4

\* The group k has got the like m of another server.
GotLike(k, g, m) ==
    LET event == Event(m.user, m.like, m.time)
    IN  /\ m \in UpdateLikeType
        /\ Given(group, m.from, m.index, event)
        /\ m.index \in Index
        /\ ~(g.made /\ g.likeTimestamp[m.from] >= m.index)
        /\ ~NoPlace(g.list, m.time)
        /\ k.list = Sorted(g.list, event)
        /\ k.vote = CalculateLike(k.list).vote
        /\ k.likeEvent = [g.likeEvent EXCEPT ![m.from][m.index] = Len(k.list.node)]
        /\ k.likeTimestamp = [g.likeTimestamp EXCEPT ![m.from] = Acknowledged(@, m.index)]

LEMMA HandedVoting ==
    ASSUME Inv, NEW s \in Server, NEW k, Handed(s, k)
    PROVE  SameVoting(k, group[s]) \/ \E m : GotLike(k, group[s], m)
<1> DEFINE g == group[s]
           Goal == SameVoting(k, g) \/ \E m : GotLike(k, g, m)
<1>1. PICK V : Shape(V)
  BY DEF Inv
<1>2. g \in GroupOf(V) /\ Unmade(g)
  BY <1>1 DEF Shape, Inv, LogsHold
<1>3. CASE ~g.made /\ k = CreateGroup
  <2>1. g = NoGroup
    BY <1>2, <1>3 DEF Unmade
  <2>2. /\ CreateGroup.vote = NoGroup.vote /\ CreateGroup.list = NoGroup.list
        /\ CreateGroup.likeEvent = NoGroup.likeEvent
        /\ CreateGroup.likeTimestamp = NoGroup.likeTimestamp
    BY DEF CreateGroup, NoGroup
  <2> QED
    BY <1>3, <2>1, <2>2 DEF SameVoting
<1>4. CASE k = [WithMessage(g, Author, TRUE, 0) EXCEPT !.msgTimestamp[s] = 1]
  BY <1>2, <1>4 DEF WithMessage, GroupOf, SameVoting
<1>5. ASSUME NEW m, k = MsgInserted(g, m) PROVE SameVoting(k, g)
  BY <1>2, <1>5 DEF MsgInserted, WithMessage, GroupOf, SameVoting
<1>6. ASSUME NEW u \in Server, net[u][s] # <<>>,
             NEW m, m = Head(net[u][s]), m.kind = "UpdateLike", m \in UpdateLikeType,
             ~LikePanics(g, m), k = LikeInserted(g, m)
      PROVE  Goal
  <2>1. CASE RedundantLike(g, m)
    BY <1>6, <2>1 DEF LikeInserted, SameVoting
  <2>2. CASE ~RedundantLike(g, m)
    <3> DEFINE b == MsgToLike(g, m)
               event == Event(m.user, m.like, m.time)
    <3>1. Given(group, m.from, m.index, event) /\ m.from \in Server
      <4>1. net[u][s] \in Seq(Backed(group, V))
        BY <1>1 DEF Shape
      <4>2. m \in Backed(group, V)
        BY <1>6, <4>1, HeadTailProperties
      <4> QED
        BY <1>6, <4>2 DEF Backed, UpdateLikeType
    <3>2. m.index \in Index
      BY <3>1 DEF Given, Inv, LogsHold, Complete
    <3>3. PICK U : U = V \cup {0, 1, -1, NoVotes.vote}
      OBVIOUS
    <3>4. g \in GroupOf(U)
      BY <1>2, <3>3 DEF GroupOf
    <3>5. b \in GroupOf(U) /\ SameLog(b, g)
      BY <1>2, <1>6, <3>3, <3>4, MsgToLikeLog
    <3>6. k = Liked(b, m)
      BY <1>6, <2>2 DEF LikeInserted
    <3>7. ~NoPlace(g.list, m.time)
      BY <1>6, <2>2 DEF LikePanics
    <3>8. b.likeEvent = g.likeEvent /\ b.likeTimestamp = g.likeTimestamp /\ b.list = g.list
      BY <3>5 DEF SameLog
    <3> HIDE DEF event, b, g
    <3>9. /\ k.list = Sorted(b.list, event)
          /\ k.vote = CalculateLike(k.list).vote
          /\ k.likeEvent = [b.likeEvent EXCEPT ![m.from][m.index] = Len(k.list.node)]
          /\ k.likeTimestamp = [b.likeTimestamp EXCEPT ![m.from] = Acknowledged(@, m.index)]
      BY <3>1, <3>5, <3>6 DEF Liked, GroupOf, event
    <3>10. ~(g.made /\ g.likeTimestamp[m.from] >= m.index)
      BY <2>2 DEF RedundantLike
    <3>11. GotLike(k, g, m)
      BY <1>6, <3>1, <3>2, <3>7, <3>8, <3>9, <3>10 DEF GotLike, event
    <3> QED
      BY <3>11
  <2> QED
    BY <2>1, <2>2
<1> QED
  BY <1>3, <1>4, <1>5, <1>6 DEF Handed

\* A like given or taken back at o.
LEMMA OwnVoted ==
    ASSUME NEW V, NEW h \in [Server -> GroupOf(V)], LogsHold(h), NEW o \in Server,
           NEW c \in Nat, Own(h[o], o, c), h[o].made, h[o].vote \in [User -> {1, 0, -1}],
           NEW u \in User, NEW like \in {1, -1}, Votable(h[o], u, like),
           NEW second \in Nat, c <= second, h[o].likeTimestamp[o] + 1 \in Index
    PROVE  Own(PerformingLike(h[o], o, like, u, second), o, second)
<1> DEFINE g == h[o]
           k == PerformingLike(g, o, like, u, second)
           n == g.likeTimestamp[o]
           event == Event(u, like, LocalTime(second))
           sent == Event(event.user, event.like, WireTime(event.time))
<1>1. g \in GroupOf(V) /\ Filed(h, g) /\ Complete(g) /\ n \in Nat
  BY DEF LogsHold, GroupOf
<1>2. PICK W : W = V \cup {k.total, k.vote}
  OBVIOUS
<1>3. k \in GroupOf(W) /\ OneMore(k, g, o, n + 1, event)
      /\ k.likeTimestamp = [g.likeTimestamp EXCEPT ![o] = n + 1]
  <2>1. V \subseteq W /\ k.total \in W /\ k.vote \in W
    BY <1>2
  <2>2. /\ g \in GroupOf(V) /\ g.made /\ g.likeTimestamp[o] + 1 \in Index
        /\ o \in Server /\ u \in User /\ like \in {1, -1} /\ second \in Nat
    BY <1>1
  <2> HIDE DEF g
  <2> QED
    BY ONLY <2>1, <2>2, PerformedLog
<1>4. k.vote = [g.vote EXCEPT ![u] = like]
  BY <1>1 DEF PerformingLike, GroupOf
<1>5. sent.user = u /\ sent.like = like /\ sent.time = 2 * second
  BY Seconds DEF event, Event
<1> HIDE DEF k, event, sent
<1>6. LikeFiled(k, o, n + 1) = sent
  BY <1>1, <1>3, OneMoreFiled DEF sent
<1>7. \A j \in 1..n : LikeFiled(k, o, j) = LikeFiled(g, o, j)
  <2> SUFFICES ASSUME NEW j \in 1..n PROVE LikeFiled(k, o, j) = LikeFiled(g, o, j)
    OBVIOUS
  <2>1. j \in Index /\ g.likeEvent[o][j] \in Nodes(g.list) /\ j # n + 1
    BY <1>1 DEF Complete, Filed
  <2> QED
    BY <1>1, <1>3, <2>1, OneMoreFiled
<1>8. k.likeTimestamp[o] = n + 1
  BY <1>1, <1>3 DEF GroupOf
<1> HIDE DEF n
<1>9. k.vote = Votes(Log(k, o)).vote
  <2> DEFINE d == Log(g, o)
             e == Log(k, o)
  <2>1. Len(d) = n /\ Len(e) = n + 1
    BY <1>1, <1>8 DEF Log, n
  <2>2. \A j \in 1..n : d[j] = LikeFiled(g, o, j) /\ e[j] = LikeFiled(k, o, j)
    BY <1>1, <1>8 DEF Log, n
  <2>3. e[n + 1] = sent
    BY <1>1, <1>6, <1>8 DEF Log
  <2> HIDE DEF d, e
  <2>4. Alike(d, e, Len(d))
    BY <1>1, <1>7, <2>1, <2>2 DEF Alike
  <2>5. Votes(e) = Judged(Votes(d), sent)
    BY <2>1, <2>3, <2>4, VotesOneMore
  <2>6. Votes(d).vote = g.vote
    BY DEF Own, d
  <2>7. g.vote[u] # like /\ (like = -1 => g.vote[u] = 1)
    BY DEF Votable, MayLike, MayUnlike
  <2>8. Votes(e).vote = [g.vote EXCEPT ![u] = like]
    <3>1. PICK x : x = Votes(d)
      OBVIOUS
    <3>2. Judged(x, sent).vote = [x.vote EXCEPT ![u] = like]
      BY <1>5, <2>6, <2>7, <3>1 DEF Judged
    <3> QED
      BY <2>5, <2>6, <3>1, <3>2
  <2> QED
    BY <1>4, <2>8 DEF e
<1>10. \A j \in 1..n : LikeFiled(g, o, j).time \in Nat /\ LikeFiled(g, o, j).time <= 2 * second
  <2> SUFFICES ASSUME NEW j \in 1..n
               PROVE  LikeFiled(g, o, j).time \in Nat /\ LikeFiled(g, o, j).time <= 2 * second
    OBVIOUS
  <2>1. j \in Index /\ g.likeEvent[o][j] \in Nodes(g.list) /\ g.list \in ListType
    BY <1>1 DEF Complete, Filed, GroupOf, n
  <2>2. LikeFiled(g, o, j).time \in Nat
    BY <2>1, NodesShape, NodeSays DEF LikeFiled, EventType
  <2>3. LikeFiled(g, o, j).time <= WireTime(LocalTime(c))
    BY DEF Own, n
  <2> QED
    BY <2>2, <2>3, Seconds
<1>11. \A i, j \in 1..n : i < j => LikeFiled(g, o, i).time <= LikeFiled(g, o, j).time
  BY DEF Own, n
<1>12. ASSUME NEW i \in 1..(n + 1), NEW j \in 1..(n + 1), i < j
       PROVE  LikeFiled(k, o, i).time <= LikeFiled(k, o, j).time
  <2>1. i \in 1..n
    BY <1>1, <1>12
  <2>2. CASE j = n + 1
    BY <1>5, <1>6, <1>7, <1>10, <2>1, <2>2
  <2>3. CASE j # n + 1
    <3>1. j \in 1..n
      BY <1>1, <2>3
    <3> QED
      BY <1>7, <1>11, <1>12, <2>1, <3>1
  <2> QED
    BY <2>2, <2>3
<1>13. ASSUME NEW i \in 1..(n + 1)
       PROVE  LikeFiled(k, o, i).time <= WireTime(LocalTime(second))
  <2>1. CASE i = n + 1
    BY <1>5, <1>6, <2>1, Seconds
  <2>2. CASE i # n + 1
    <3>1. i \in 1..n
      BY <1>1, <2>2
    <3> QED
      BY <1>7, <1>10, <3>1, Seconds
  <2> QED
    BY <2>1, <2>2
<1>14. Own(k, o, second)
  BY <1>8, <1>9, <1>12, <1>13 DEF Own
<1> QED
  BY <1>14 DEF k

\* The nodes of a sequence with one more node.
LEMMA PutHolds ==
    ASSUME NEW v, Len(v) \in Nat, NEW p \in 0..Len(v), NEW new
    PROVE  LET w == Put(v, p, new)
           IN  /\ Len(w) = Len(v) + 1
               /\ p + 1 \in 1..Len(w) /\ w[p + 1] = new
               /\ \A q \in 1..Len(v) : \E r \in 1..Len(w) : w[r] = v[q]
               /\ \A r \in 1..Len(w) : w[r] = new \/ \E q \in 1..Len(v) : w[r] = v[q]
<1> DEFINE w == Put(v, p, new)
           L == Len(v)
<1>1. Len(w) = L + 1
  BY DEF Put
<1>2. \A r \in 1..(L + 1) : w[r] = IF r <= p THEN v[r] ELSE IF r = p + 1 THEN new ELSE v[r - 1]
  BY DEF Put
<1> HIDE DEF w
<1>3. p + 1 \in 1..(L + 1) /\ ~(p + 1 <= p)
  OBVIOUS
<1>4. w[p + 1] = new
  BY <1>2, <1>3
<1>5. ASSUME NEW q \in 1..L PROVE \E r \in 1..(L + 1) : w[r] = v[q]
  <2>1. CASE q <= p
    <3>1. q \in 1..(L + 1) /\ w[q] = v[q]
      BY <1>2, <2>1
    <3> QED
      BY <3>1
  <2>2. CASE q > p
    <3>1. q + 1 \in 1..(L + 1) /\ ~(q + 1 <= p) /\ q + 1 # p + 1 /\ (q + 1) - 1 = q
      BY <2>2
    <3>2. w[q + 1] = v[q]
      BY <1>2, <3>1
    <3> QED
      BY <3>1, <3>2
  <2> QED
    BY <2>1, <2>2
<1>6. ASSUME NEW r \in 1..(L + 1) PROVE w[r] = new \/ \E q \in 1..L : w[r] = v[q]
  <2>1. CASE r <= p
    <3>1. r \in 1..L /\ w[r] = v[r]
      BY <1>2, <2>1
    <3> QED
      BY <3>1
  <2>2. CASE r = p + 1
    BY <1>4, <2>2
  <2>3. CASE r > p + 1
    <3>1. r - 1 \in 1..L /\ w[r] = v[r - 1]
      BY <1>2, <2>3
    <3> QED
      BY <3>1
  <2> QED
    BY <2>1, <2>2, <2>3
<1> QED
  BY <1>1, <1>3, <1>4, <1>5, <1>6 DEF w


\* A like of o gets in at another server.
LEMMA FollowingGot ==
    ASSUME Inv, NEW s \in Server, NEW o \in Server, Following(group[s], o),
           NEW k, NEW m, GotLike(k, group[s], m), m.from = o
    PROVE  Following(k, o)
<1> DEFINE g == group[s]
           l == g.list
           N == Len(l.node)
           i == m.index
           e == m.time
           event == Event(m.user, m.like, m.time)
           Time(n) == l.node[n].time
<1>1. PICK V : Shape(V)
  BY DEF Inv
<1>2. /\ g \in GroupOf(V) /\ Filed(group, g) /\ group[o] \in GroupOf(V)
      /\ Filed(group, group[o]) /\ Complete(group[o])
  BY <1>1 DEF Shape, Inv, LogsHold
<1>3. /\ m \in UpdateLikeType /\ Given(group, o, i, event) /\ i \in Index
      /\ ~NoPlace(l, e)
      /\ k.list = Sorted(l, event)
      /\ k.vote = CalculateLike(k.list).vote
      /\ k.likeEvent = [g.likeEvent EXCEPT ![o][i] = Len(k.list.node)]
  BY DEF GotLike
<1>4. event \in EventType /\ event.time = e /\ e \in Nat /\ l \in ListType
      /\ g.likeEvent \in [Server -> [Index -> Nat]]
  BY <1>2, <1>3 DEF UpdateLikeType, Event, EventType, GroupOf
<1>5. PICK v : Shows(l, v) /\ Rising(l, v) /\ Matches(g, o, v)
  BY DEF Following
<1>6. /\ Len(v) \in Nat /\ N \in Nat /\ Nil = 0 /\ Nodes(l) = 1..N
      /\ \A q \in 1..Len(v) : v[q] \in 1..N /\ Time(v[q]) \in Nat
  BY <1>4, <1>5, ShowsParts, NodesShape DEF NodeType
<1>7. InTime(l, v)
  <2> SUFFICES ASSUME NEW a \in 1..Len(v), NEW b \in 1..Len(v), a < b
               PROVE  l.node[v[a]].time <= l.node[v[b]].time
    BY DEF InTime
  <2>1. Time(v[a]) < Time(v[b])
    BY <1>5 DEF Rising
  <2> QED
    BY <1>6, <2>1
<1> HIDE DEF event
<1> DEFINE S == Sorted(l, event)
<1>8. /\ S.node[N + 1].time = event.time
      /\ \A q \in 1..Len(v) : S.node[v[q]].time = Time(v[q])
      /\ \E p \in 0..Len(v) :
            /\ Shows(S, Put(v, p, N + 1))
            /\ \A q \in 1..Len(v) : /\ q <= p => Time(v[q]) < event.time
                                    /\ q > p => event.time < Time(v[q])
  <2>1. event \in EventType /\ l \in ListType /\ Shows(l, v) /\ ~NoPlace(l, event.time)
    BY <1>3, <1>4, <1>5
  <2> HIDE DEF l
  <2> QED
    BY ONLY <1>7, <2>1, SortedShows
<1>9. PICK p \in 0..Len(v) :
        /\ Shows(k.list, Put(v, p, N + 1))
        /\ \A q \in 1..Len(v) : (q <= p => Time(v[q]) < e) /\ (q > p => e < Time(v[q]))
  BY <1>3, <1>4, <1>8
<1>10. /\ k.list.node[N + 1].time = e
       /\ \A q \in 1..Len(v) : k.list.node[v[q]].time = Time(v[q])
       /\ Len(k.list.node) = N + 1
  <2>1. Extends(S, l, event)
    BY <1>3, <1>4, SortedExtends
  <2> HIDE DEF S
  <2> QED
    BY <1>3, <1>4, <1>8, <2>1 DEF Extends, S
<1> HIDE DEF S
<1> DEFINE w == Put(v, p, N + 1)
           L == Len(v)
<1>11. \A r \in 1..(L + 1) : w[r] = IF r <= p THEN v[r] ELSE IF r = p + 1 THEN N + 1 ELSE v[r - 1]
  BY DEF Put
<1>12. /\ Len(w) = L + 1
       /\ p + 1 \in 1..Len(w) /\ w[p + 1] = N + 1
       /\ \A q \in 1..Len(v) : \E r \in 1..Len(w) : w[r] = v[q]
       /\ \A r \in 1..Len(w) : w[r] = N + 1 \/ \E q \in 1..Len(v) : w[r] = v[q]
  <2>1. Len(v) \in Nat /\ p \in 0..Len(v)
    BY <1>6
  <2> HIDE DEF N
  <2> QED
    BY ONLY <2>1, PutHolds
<1> HIDE DEF w
\* The like at its origin: its time is one of the wire.
<1>13. LikeFiled(group[o], o, i) = event /\ WireTime(e) = e
  <2>1. i \in 1..group[o].likeTimestamp[o] /\ LikeFiled(group[o], o, i) = event
    BY <1>3 DEF Given
  <2>2. group[o].likeEvent[o][i] \in Nodes(group[o].list) /\ group[o].list \in ListType
    BY <1>2, <1>3, <2>1 DEF Complete, Filed, GroupOf
  <2>3. group[o].list.node[group[o].likeEvent[o][i]] \in NodeType
    BY <2>2, NodesShape
  <2>4. PICK n \in NodeType : event = Says(n)
    BY <2>1, <2>3 DEF LikeFiled
  <2>5. e = WireTime(n.time) /\ n.time \in Nat
    BY <1>4, <2>4, NodeSays DEF NodeType
  <2> QED
    BY <2>1, <2>5, WireTimes
\* It has not been filed here, or an event of its time would be in the way.
<1>14. g.likeEvent[o][i] = Nil
  <2> SUFFICES ASSUME g.likeEvent[o][i] # Nil PROVE FALSE
    OBVIOUS
  <2>1. PICK q \in 1..L : v[q] = g.likeEvent[o][i]
    BY <1>3, <1>5 DEF Matches
  <2>2. Given(group, o, i, LikeFiled(g, o, i))
    BY <1>2, <1>3 DEF Filed
  <2>3. Says(l.node[v[q]]) = event
    BY <1>13, <2>1, <2>2 DEF Given, LikeFiled
  <2>4. l.node[v[q]] \in NodeType
    BY <1>4, <1>6, NodesShape
  <2>5. WireTime(Time(v[q])) = e
    BY <1>4, <2>3, <2>4, NodeSays
  <2>6. Time(v[q]) = e
    BY <1>5, <2>5 DEF Rising
  <2> HIDE DEF Time
  <2>7. (q <= p => Time(v[q]) < e) /\ (q > p => e < Time(v[q]))
    BY <1>9
  <2> QED
    BY <1>4, <2>6, <2>7
<1>15. Rising(k.list, w)
  <2> DEFINE a == [j \in 1..L |-> Time(v[j])]
             b == [j \in 1..(L + 1) |-> k.list.node[w[j]].time]
  <2>1. ASSUME NEW j \in 1..(L + 1)
        PROVE  k.list.node[w[j]].time = IF j <= p THEN Time(v[j])
                                        ELSE IF j = p + 1 THEN e ELSE Time(v[j - 1])
    <3>1. w[j] = IF j <= p THEN v[j] ELSE IF j = p + 1 THEN N + 1 ELSE v[j - 1]
      BY <1>11
    <3>2. (j <= p => j \in 1..L) /\ (j > p + 1 => j - 1 \in 1..L)
      BY <1>6
    <3> QED
      <4>1. (j <= p => k.list.node[v[j]].time = Time(v[j]))
            /\ (j > p + 1 => k.list.node[v[j - 1]].time = Time(v[j - 1]))
        BY <1>10, <3>2
      <4> HIDE DEF Time, N
      <4> QED
        BY <1>6, <1>10, <3>1, <4>1
  <2>2. \A i1, j \in 1..L : i1 < j => Time(v[i1]) < Time(v[j])
    BY <1>5 DEF Rising
  <2> HIDE DEF Time, L, e
  <2>3. PICK M \in Nat, d \in {0, 1}, E \in Int : M = L /\ d = 1 /\ E = e
    BY <1>4, <1>6 DEF L
  <2>4. \A j \in 1..M : a[j] \in Int /\ (j <= p => a[j] < E) /\ (j > p => E < a[j])
    BY <1>6, <1>9, <2>3 DEF L
  <2>5. \A i1, j \in 1..M : i1 < j => a[i1] + d <= a[j]
    <3> SUFFICES ASSUME NEW i1 \in 1..M, NEW j \in 1..M, i1 < j PROVE a[i1] + 1 <= a[j]
      BY <2>3
    <3>1. Time(v[i1]) < Time(v[j])
      BY <2>2, <2>3
    <3>2. a[i1] = Time(v[i1]) /\ a[j] = Time(v[j])
      BY <2>3
    <3>3. a[i1] \in Int /\ a[j] \in Int
      BY <2>4
    <3> HIDE DEF a
    <3> QED
      BY ONLY <3>1, <3>2, <3>3
  <2>6. /\ p \in 0..M
        /\ \A j \in 1..(M + 1) : b[j] = IF j <= p THEN a[j] ELSE IF j = p + 1 THEN E ELSE a[j - 1]
    BY <1>6, <2>1, <2>3 DEF L
  <2>7. \A j \in 1..(M + 1) : b[j] = k.list.node[w[j]].time
    BY <2>3
  <2> HIDE DEF a, b
  <2>8. \A i1, j \in 1..(M + 1) : i1 < j => b[i1] + d <= b[j]
    BY ONLY <2>4, <2>5, <2>6, PutOrdered
  <2>9. \A j \in 1..(M + 1) : b[j] \in Int
    BY <2>4, <2>6
  <2>10. \A i1, j \in 1..Len(w) : i1 < j => k.list.node[w[i1]].time < k.list.node[w[j]].time
    <3> SUFFICES ASSUME NEW i1 \in 1..(M + 1), NEW j \in 1..(M + 1), i1 < j
                 PROVE  k.list.node[w[i1]].time < k.list.node[w[j]].time
      BY <1>12, <2>3 DEF L
    <3>1. b[i1] + 1 <= b[j] /\ b[i1] \in Int /\ b[j] \in Int
      BY <2>3, <2>8, <2>9
    <3> QED
      BY <2>7, <3>1
  <2>11. \A j \in 1..Len(w) : WireTime(k.list.node[w[j]].time) = k.list.node[w[j]].time
    <3>1. \A q \in 1..Len(v) : WireTime(Time(v[q])) = Time(v[q])
      BY <1>5 DEF Rising, Time
    <3> SUFFICES ASSUME NEW j \in 1..Len(w)
                 PROVE  WireTime(k.list.node[w[j]].time) = k.list.node[w[j]].time
      OBVIOUS
    <3>2. CASE w[j] = N + 1
      BY <1>10, <1>13, <3>2
    <3>3. ASSUME NEW q \in 1..Len(v), w[j] = v[q]
          PROVE  WireTime(k.list.node[w[j]].time) = k.list.node[w[j]].time
      <4>1. k.list.node[w[j]].time = Time(v[q])
        BY <1>10, <3>3
      <4> QED
        BY <3>1, <4>1
    <3> QED
      BY <1>12, <3>2, <3>3
  <2> QED
    BY <2>10, <2>11 DEF Rising
<1>16. Matches(k, o, w)
  <2>1. /\ k.likeEvent[o][i] = N + 1
        /\ \A j \in Index : j # i => k.likeEvent[o][j] = g.likeEvent[o][j]
    BY <1>3, <1>4, <1>10
  <2>2. \A j \in Index : g.likeEvent[o][j] \in Nat /\ (g.likeEvent[o][j] # Nil => g.likeEvent[o][j] \in 1..N)
    BY <1>2, <1>4, <1>6 DEF Filed
  <2> HIDE DEF g, i, l, N
  <2>3. ASSUME NEW r \in 1..Len(w) PROVE \E j \in Index : k.likeEvent[o][j] = w[r]
    <3>1. CASE w[r] = N + 1
      BY <1>3, <2>1, <3>1
    <3>2. ASSUME NEW q \in 1..Len(v), w[r] = v[q] PROVE \E j \in Index : k.likeEvent[o][j] = w[r]
      <4>1. PICK j \in Index : g.likeEvent[o][j] = v[q]
        BY <1>5 DEF Matches
      <4>2. v[q] # 0
        BY <1>6
      <4>3. j # i
        BY <1>6, <1>14, <4>1, <4>2
      <4> QED
        BY <2>1, <3>2, <4>1, <4>3
    <3> QED
      BY <1>12, <3>1, <3>2
  <2>4. ASSUME NEW j \in Index, k.likeEvent[o][j] # Nil
        PROVE  \E r \in 1..Len(w) : w[r] = k.likeEvent[o][j]
    <3>1. CASE j = i
      BY <1>12, <2>1, <3>1
    <3>2. CASE j # i
      <4>1. PICK q \in 1..Len(v) : v[q] = g.likeEvent[o][j]
        BY <1>5, <2>1, <2>4, <3>2 DEF Matches
      <4> QED
        BY <1>12, <2>1, <3>2, <4>1
    <3> QED
      BY <3>1, <3>2
  <2>5. ASSUME NEW j \in Index, NEW jj \in Index, k.likeEvent[o][j] # Nil,
               k.likeEvent[o][j] = k.likeEvent[o][jj]
        PROVE  j = jj
    <3>1. CASE j # i /\ jj # i
      BY <1>5, <2>1, <2>5, <3>1 DEF Matches
    <3>2. CASE j = i \/ jj = i
      BY <1>6, <2>1, <2>2, <2>5, <3>2
    <3> QED
      BY <3>1, <3>2
  <2> QED
    BY <2>3, <2>4, <2>5 DEF Matches
<1> QED
  BY <1>3, <1>9, <1>15, <1>16 DEF Following, w

LEMMA OneVotesInit ==
    ASSUME Init
    PROVE  OneVotes
<1>1. \A s \in Server : group[s] = NoGroup
  BY DEF Init
<1>2. /\ NoGroup.vote = NoVotes.vote /\ NoGroup.list = NoEvents
      /\ \A o \in Server : /\ NoGroup.likeTimestamp[o] = 0
                           /\ \A i \in Index : NoGroup.likeEvent[o][i] = Nil
  BY DEF NoGroup
<1>3. ASSUME NEW o \in Server, NEW c PROVE Own(NoGroup, o, c)
  <2>1. Len(Log(NoGroup, o)) = 0
    BY <1>2 DEF Log
  <2>2. NoGroup.vote = Votes(Log(NoGroup, o)).vote
    BY <1>2, <2>1, VotesNone
  <2> QED
    BY <1>2, <2>2 DEF Own
<1>4. ASSUME NEW o \in Server PROVE Following(NoGroup, o)
  <2>1. NoEvents \in ListType /\ Len(NoEvents.node) = 0 /\ NoEvents.head = 0
    BY EmptySeq DEF NoEvents, ListType, Nil, List!Nil
  <2>2. Shows(NoEvents, <<>>)
    BY <2>1, ChainEmpty DEF Shows
  <2>3. Rising(NoEvents, <<>>) /\ Matches(NoGroup, o, <<>>)
    BY <1>2 DEF Rising, Matches
  <2>4. Walk(NoEvents) = <<>>
    BY <2>1, <2>2, WalkIs
  <2>5. Len(Events(NoEvents)) = 0
    BY <2>4 DEF Events
  <2>6. CalculateLike(NoEvents) = NoVotes
    BY <2>5, VotesNone DEF CalculateLike
  <2> QED
    BY <1>2, <2>2, <2>3, <2>6 DEF Following
<1> QED
  BY <1>1, <1>3, <1>4 DEF OneVotes

LEMMA OneVotesStep ==
    ASSUME Inv, Typed, OneVotes, [Next]_vars
    PROVE  OneVotes'
<1>1. PICK V : Shape(V)
  BY DEF Inv
<1>2. /\ group \in [Server -> GroupOf(V)] /\ LogsHold(group) /\ DOMAIN group = Server
      /\ \A s, p \in Server : group[s].likeTimestamp[p] \in Nat
      /\ clock \in [Server -> Nat]
  BY <1>1 DEF Shape, Inv, GroupOf
<1> DEFINE Goal(o) == /\ Own(group'[o], o, clock'[o])
                      /\ \A s \in Server \ {o} : Following(group'[s], o)
<1>3. ASSUME NEW o \in Server, Alone(group', o), group' = group, clock' = clock
      PROVE  Goal(o)
  BY <1>3 DEF OneVotes
<1>4. ASSUME NEW s \in Server, NEW k, group' = [group EXCEPT ![s] = k],
             Handed(s, k), clock' = clock, NEW o \in Server, Alone(group', o)
      PROVE  Goal(o)
  <2>1. group'[s] = k /\ \A p \in Server \ {s} : group'[p] = group[p]
    BY <1>2, <1>4
  <2>2. SameVoting(k, group[s]) \/ \E m : GotLike(k, group[s], m)
    BY <1>4, HandedVoting
  <2>3. ASSUME NEW m, GotLike(k, group[s], m)
        PROVE  /\ m.from \in Server
               /\ m.index \in 1..group[m.from].likeTimestamp[m.from]
               /\ \A p \in Server : k.likeTimestamp[p] = 0 => group[s].likeTimestamp[p] = 0
    <3>1. m.from \in Server /\ m.index \in 1..group[m.from].likeTimestamp[m.from]
      BY <2>3 DEF GotLike, UpdateLikeType, Given
    <3>2. group[s].likeTimestamp \in [Server -> Nat]
      BY <1>2 DEF GroupOf
    <3>3. k.likeTimestamp =
            [group[s].likeTimestamp EXCEPT ![m.from] = Acknowledged(@, m.index)]
      BY <2>3 DEF GotLike
    <3> QED
      BY <3>1, <3>2, <3>3 DEF Acknowledged
  <2>4. Alone(group, o)
    <3> SUFFICES ASSUME NEW p \in Server \ {o} PROVE group[p].likeTimestamp[p] = 0
      BY DEF Alone
    <3>1. group'[p].likeTimestamp[p] = 0
      BY <1>4 DEF Alone
    <3>2. CASE p # s
      BY <2>1, <3>1, <3>2
    <3>3. CASE p = s
      BY <2>1, <2>2, <2>3, <3>1, <3>3 DEF SameVoting
    <3> QED
      BY <3>2, <3>3
  <2>5. Own(group[o], o, clock[o]) /\ \A p \in Server \ {o} : Following(group[p], o)
    BY <2>4 DEF OneVotes
  <2>6. CASE SameVoting(k, group[s])
    <3>1. Own(group[s], o, clock[o]) => Own(k, o, clock[o])
      BY <2>6, SameVotingKeeps
    <3>2. Following(group[s], o) => Following(k, o)
      BY <2>6, SameVotingKeeps
    <3> QED
      BY <1>4, <2>1, <2>5, <3>1, <3>2
  <2>7. ASSUME NEW m, GotLike(k, group[s], m)
        PROVE  Goal(o)
    <3>1. m.from \in Server /\ m.index \in 1..group[m.from].likeTimestamp[m.from]
      BY <2>3, <2>7
    <3>2. m.from = o
      BY <2>4, <3>1 DEF Alone
    \* A like that comes back to its origin is redundant.
    <3>3. s # o
      <4> SUFFICES ASSUME s = o PROVE FALSE
        OBVIOUS
      <4>1. ~(group[o].made /\ group[o].likeTimestamp[o] >= m.index)
        BY <2>7, <3>2 DEF GotLike
      <4>2. group[o].likeTimestamp[o] >= m.index /\ group[o].likeTimestamp[o] >= 1
        BY <1>2, <3>1, <3>2
      <4>3. ~group[o].made => group[o] = NoGroup
        BY <1>2 DEF LogsHold, Unmade
      <4>4. NoGroup.likeTimestamp[o] = 0
        BY DEF NoGroup
      <4> QED
        BY <4>1, <4>2, <4>3, <4>4
    <3>4. Following(k, o)
      BY <2>5, <2>7, <3>2, <3>3, FollowingGot
    <3> QED
      BY <1>4, <2>1, <2>5, <3>3, <3>4
  <2> QED
    BY <2>2, <2>6, <2>7
<1>5. ASSUME NEW s \in Server, NEW k, group' = [group EXCEPT ![s] = k],
             Voted(s, k), NEW o \in Server, Alone(group', o)
      PROVE  Goal(o)
  <2>1. group'[s] = k /\ \A p \in Server \ {s} : group'[p] = group[p]
    BY <1>2, <1>5
  <2>2. PICK second \in Nat, c \in User, like \in {1, -1} :
          /\ clock[s] \in Nat /\ clock[s] <= second
          /\ clock' = [clock EXCEPT ![s] = second]
          /\ Votable(group[s], c, like)
          /\ group[s].likeTimestamp[s] < MaxLikes[s]
          /\ k = PerformingLike(group[s], s, like, c, second)
    BY <1>5, VotedParts
  <2>3. k.likeTimestamp[s] = group[s].likeTimestamp[s] + 1
    <3>1. group[s] \in GroupOf(V)
      BY <1>2
    <3> QED
      BY <2>2, <3>1 DEF PerformingLike, GroupOf
  <2>4. s = o
    <3>1. k.likeTimestamp[s] # 0
      BY <1>2, <2>3
    <3> QED
      BY <1>5, <2>1, <3>1 DEF Alone
  <2>5. Alone(group, o)
    BY <1>5, <2>1, <2>4 DEF Alone
  <2>6. Own(group[o], o, clock[o]) /\ \A p \in Server \ {o} : Following(group[p], o)
    BY <2>5 DEF OneVotes
  <2>7. group[s].likeTimestamp[s] + 1 \in Index
    <3>1. group[s].likeTimestamp[s] + 1 \in 1..MaxLikes[s]
      <4>1. group[s].likeTimestamp[s] \in Nat /\ MaxLikes[s] \in Nat
        BY <1>2, MaxLikesAssumption
      <4>2. group[s].likeTimestamp[s] < MaxLikes[s]
        BY <2>2
      <4> QED
        BY ONLY <4>1, <4>2
    <3> QED
      BY <3>1 DEF Index
  <2>8. group[s].made
    <3>1. NoGroup.creator = Nobody
      BY DEF NoGroup
    <3> QED
      BY <1>2, <2>2, <3>1 DEF Votable, MayLike, MayUnlike, HasMessage, LogsHold, Unmade
  <2>9. group[s].vote \in [User -> {1, 0, -1}]
    BY DEF Typed, TypedGroup
  <2>10. Own(PerformingLike(group[s], s, like, c, second), s, second)
    BY <1>2, <2>2, <2>4, <2>6, <2>7, <2>8, <2>9, OwnVoted
  <2>11. clock'[s] = second
    BY <1>2, <2>2
  <2> QED
    BY <2>1, <2>2, <2>4, <2>6, <2>10, <2>11
<1>6. ASSUME NEW o \in Server, Alone(group', o) PROVE Goal(o)
  <2> HIDE DEF Goal
  <2> QED
    BY <1>3, <1>4, <1>5, <1>6, GroupChanges
<1>7. \A o \in Server : Alone(group', o) => Goal(o)
  BY <1>6
<1> QED
  BY <1>7 DEF OneVotes, Alone, Own, Following, Log, LikeFiled, Rising, Matches, Shows

LEMMA OneVotesKept == Spec => []OneVotes
<1>1. Init => OneVotes
  BY OneVotesInit
<1>2. Inv /\ Typed /\ OneVotes /\ [Next]_vars => OneVotes'
  BY OneVotesStep
<1> QED
  BY <1>1, <1>2, LikesInvariance, TypesKept, PTL DEF Spec

\* As long as the users of one server only have voted, another server that has
\* counted as many of their likes finds in its list the very votes that server
\* keeps, in whatever order the likes came and however often they were sent:
\* sorted by their times they are in the order of their indexes.
THEOREM OneServersVotes == Spec => []OneServerAgrees
<1>1. Inv /\ OneVotes => OneServerAgrees
  <2> SUFFICES ASSUME Inv, OneVotes, NEW s \in Server, NEW o \in Server,
                      \A p \in Server \ {o} : group[p].likeTimestamp[p] = 0,
                      group[s].likeTimestamp[o] = group[o].likeTimestamp[o]
               PROVE  group[s].vote = group[o].vote
    BY DEF OneServerAgrees
  <2> DEFINE g == group[s]
             l == g.list
             n == g.likeTimestamp[o]
             d == Log(group[o], o)
             e == Events(l)
             Time(k) == l.node[k].time
             said(i) == LikeFiled(group[o], o, i)
  <2>1. PICK V : Shape(V)
    BY DEF Inv
  <2>2. /\ g \in GroupOf(V) /\ Filed(group, g) /\ Complete(g) /\ n \in Nat
        /\ l \in ListType
    BY <2>1 DEF Shape, GroupOf, Inv, LogsHold
  <2>3. CASE s = o
    BY <2>3
  <2>4. CASE s # o
    <3>1. Own(group[o], o, clock[o]) /\ Following(g, o)
      BY <2>4 DEF OneVotes, Alone
    <3>2. group[o].vote = Votes(d).vote
      BY <3>1 DEF Own
    <3>3. g.vote = Votes(e).vote
      BY <3>1 DEF Following, CalculateLike
    <3>4. PICK v : Shows(l, v) /\ Rising(l, v) /\ Matches(g, o, v)
      BY <3>1 DEF Following
    <3>5. /\ Len(v) \in Nat /\ Nil = 0
          /\ Walk(l) = v /\ DOMAIN v = 1..Len(v)
          /\ \A k \in 1..Len(v) : v[k] \in Nodes(l) /\ v[k] # Nil
      BY <2>2, <3>4, WalkIs, ShowsParts, NodesShape
    <3>6. e = [k \in 1..Len(v) |-> l.node[v[k]]] /\ Len(e) = Len(v)
      BY <3>5 DEF Events
    <3>7. Len(d) = n /\ \A i \in 1..n : d[i] = said(i)
      BY <2>2 DEF Log
    <3>8. \A i, j \in 1..n : i < j => said(i).time <= said(j).time
      BY <3>1 DEF Own
    \* The index of the k-th event.
    <3> DEFINE f == [k \in 1..Len(v) |-> CHOOSE i \in Index : g.likeEvent[o][i] = v[k]]
    <3>9. ASSUME NEW k \in 1..Len(v)
          PROVE  /\ f[k] \in Index /\ g.likeEvent[o][f[k]] = v[k]
                 /\ f[k] \in 1..n
                 /\ Says(l.node[v[k]]) = said(f[k])
                 /\ Time(v[k]) \in Nat /\ said(f[k]).time = Time(v[k])
                 /\ said(f[k]).user = l.node[v[k]].user /\ said(f[k]).like = l.node[v[k]].like
      <4>1. \E i \in Index : g.likeEvent[o][i] = v[k]
        BY <3>4 DEF Matches
      <4>2. f[k] \in Index /\ g.likeEvent[o][f[k]] = v[k]
        BY <4>1
      <4> HIDE DEF f
      <4>3. Given(group, o, f[k], LikeFiled(g, o, f[k]))
        BY <2>2, <3>5, <4>2 DEF Filed
      <4>4. f[k] \in 1..n /\ said(f[k]) = Says(l.node[v[k]])
        BY <4>2, <4>3 DEF Given, LikeFiled
      <4>5. l.node[v[k]] \in NodeType
        BY <2>2, <3>5, NodesShape
      <4>6. /\ Says(l.node[v[k]]).time = WireTime(Time(v[k]))
            /\ Says(l.node[v[k]]).user = l.node[v[k]].user
            /\ Says(l.node[v[k]]).like = l.node[v[k]].like
        BY DEF Says, Event
      <4>7. WireTime(Time(v[k])) = Time(v[k]) /\ Time(v[k]) \in Nat
        BY <3>4, <4>5 DEF Rising, NodeType
      <4> QED
        BY <4>2, <4>4, <4>6, <4>7
    <3> HIDE DEF f, said, d, e
    <3>10. ASSUME NEW j \in 1..Len(v), NEW k \in 1..Len(v), j < k PROVE f[j] < f[k]
      <4>1. Time(v[j]) < Time(v[k])
        BY <3>4, <3>10 DEF Rising
      <4>2. said(f[j]).time < said(f[k]).time /\ said(f[j]).time \in Nat /\ said(f[k]).time \in Nat
        BY <3>9, <4>1
      <4>3. f[j] \in 1..n /\ f[k] \in 1..n
        BY <3>9
      <4>4. CASE f[k] < f[j]
        <5>1. said(f[k]).time <= said(f[j]).time
          BY <3>8, <4>3, <4>4
        <5> QED
          BY <4>2, <5>1
      <4>5. CASE f[k] = f[j]
        BY <4>2, <4>5
      <4> QED
        BY <4>3, <4>4, <4>5
    <3>11. ASSUME NEW i \in 1..n PROVE \E k \in 1..Len(v) : f[k] = i
      <4>1. i \in Index /\ g.likeEvent[o][i] # Nil
        BY <2>2 DEF Complete
      <4>2. PICK k \in 1..Len(v) : v[k] = g.likeEvent[o][i]
        BY <3>4, <4>1 DEF Matches
      <4>3. f[k] \in Index /\ g.likeEvent[o][f[k]] = g.likeEvent[o][i]
        BY <3>9, <4>2
      <4>4. f[k] = i
        BY <3>4, <4>1, <4>3 DEF Matches
      <4> QED
        BY <4>4
    <3>12. Len(v) = n /\ \A k \in 1..Len(v) : f[k] = k
      <4>1. PICK L \in Nat, N \in Nat : L = Len(v) /\ N = n
        BY <2>2, <3>5
      <4>2. /\ \A k \in 1..L : f[k] \in 1..N
            /\ \A j, k \in 1..L : j < k => f[j] < f[k]
            /\ \A i \in 1..N : \E k \in 1..L : f[k] = i
        BY <3>9, <3>10, <3>11, <4>1
      <4>3. L = N /\ \A k \in 1..L : f[k] = k
        <5>1. L \in Nat /\ N \in Nat /\ Climbs(f, L, N)
          BY <4>2 DEF Climbs
        <5> QED
          BY ONLY <5>1, Climbing
      <4> QED
        BY ONLY <4>1, <4>3
    <3>13. \A k \in 1..n : e[k].user = d[k].user /\ e[k].like = d[k].like
      BY <3>6, <3>7, <3>9, <3>12
    <3>14. Alike(e, d, Len(e))
      <4>1. Len(e) = n /\ Len(d) = n /\ n \in Nat
        BY <2>2, <3>6, <3>7, <3>12
      <4> HIDE DEF n
      <4> QED
        BY ONLY <3>13, <4>1 DEF Alike
    <3>15. Votes(e) = Votes(d)
      BY <3>6, <3>7, <3>12, <3>14, VotesSame
    <3> QED
      BY <3>2, <3>3, <3>15
  <2> QED
    BY <2>3, <2>4
<1> QED
  BY <1>1, LikesInvariance, OneVotesKept, PTL
=============================================================================
