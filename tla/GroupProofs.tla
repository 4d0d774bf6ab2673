---------------------------- MODULE GroupProofs ----------------------------
(***************************************************************************)
(* What the operations of MessageList and Group preserve, whatever the     *)
(* constants: shapes, pointers, and what the nodes say.                    *)
(***************************************************************************)
EXTENDS Group, WalkProofs

\* The fields of a message that order and identify it.
IsMessage(m) == m.lamport \in Nat /\ m.replica \in Server /\ m.content \in Nat

\* The list k is l with one more node, which says what m says.
Extends(k, l, m) ==
    /\ ListOK(k)
    /\ Len(k.node) = Len(l.node) + 1
    /\ \A n \in Nodes(l) : Says(k.node[n]) = Says(l.node[n])
    /\ Says(k.node[Len(k.node)]) = Says(m)

-----------------------------------------------------------------------------
\* A function on an interval from 1 is a sequence.
LEMMA IntervalSeq ==
    ASSUME NEW S, NEW N \in Nat, NEW f \in [1..N -> S]
    PROVE  f \in Seq(S) /\ Len(f) = N /\ DOMAIN f = 1..N
  BY SeqDef

\* The nodes of a list are the numbers of its sequence.
LEMMA NodesShape ==
    ASSUME NEW l \in ListType
    PROVE  /\ Len(l.node) \in Nat
           /\ Nodes(l) = 1..Len(l.node)
           /\ Nil \notin Nodes(l)
           /\ \A n \in Nodes(l) : l.node[n] \in NodeType
  BY DEF ListType, Nodes, Nil

\* Following the Next pointers of a well-formed list leads to a node or to nil.
LEMMA LinksShape ==
    ASSUME NEW l, ListOK(l), NEW n \in Nodes(l) \cup {Nil}
    PROVE  Links(l)[n] \in Nodes(l) \cup {Nil}
  BY NodesShape DEF ListOK, PointersHold, Links

\* The places of the nodes on the way through a list are numbers from 1.
LEMMA WalkDomain ==
    ASSUME NEW l \in ListType
    PROVE  DOMAIN Walk(l) \subseteq Nat \ {0}
<1> DEFINE next == Links(l)
           at[k \in Nodes(l)] == IF k = 1 THEN l.head ELSE next[at[k - 1]]
           met == {k \in Nodes(l) : at[k] # Nil}
<1>0. IsFiniteSet(Nodes(l))
  <2>1. Len(l.node) \in Int /\ Nodes(l) = 1..Len(l.node)
    BY NodesShape
  <2> QED
    BY <2>1, FS_Interval
<1>1. IsFiniteSet(met)
  <2> HIDE DEF at
  <2>1. met \in SUBSET Nodes(l)
    OBVIOUS
  <2> QED
    BY <1>0, <2>1, FS_Subset
<1>2. Cardinality(met) \in Nat
  BY <1>1, FS_CardinalityType
<1>3. DOMAIN Walk(l) = 1..Cardinality(met)
  BY DEF Walk
<1> QED
  BY <1>2, <1>3

-----------------------------------------------------------------------------
\* Numbering the nodes anew changes neither their pointers nor what they say.
LEMMA IndexReorderKeeps ==
    ASSUME NEW l, ListOK(l)
    PROVE  /\ ListOK(IndexReorder(l))
           /\ Len(IndexReorder(l).node) = Len(l.node)
           /\ \A n \in Nodes(l) : Says(IndexReorder(l).node[n]) = Says(l.node[n])
<1> DEFINE walk == Walk(l)
           places(n) == {k \in DOMAIN walk : walk[k] = n}
           id(n) == CHOOSE k \in places(n) : TRUE
           renumbered(n) == IF places(n) = {} THEN l.node[n]
                            ELSE [l.node[n] EXCEPT !.id = id(n)]
           node == [n \in Nodes(l) |-> renumbered(n)]
<1>1. l \in ListType
  BY DEF ListOK
<1>2. \A n \in Nodes(l) : places(n) # {} => id(n) \in Nat
  BY <1>1, WalkDomain
<1>3. IndexReorder(l) = [l EXCEPT !.node = node]
  BY DEF IndexReorder
<1> HIDE DEF walk, places, id
<1>4. \A n \in Nodes(l) :
        /\ renumbered(n) \in NodeType
        /\ Says(renumbered(n)) = Says(l.node[n])
        /\ renumbered(n).next = l.node[n].next
  BY <1>1, <1>2, NodesShape DEF NodeType, Says
<1> HIDE DEF renumbered
<1>5. node \in Seq(NodeType) /\ Len(node) = Len(l.node)
  BY <1>1, <1>4, NodesShape, IntervalSeq
<1>6. /\ IndexReorder(l) \in ListType
      /\ IndexReorder(l).node = node
      /\ Nodes(IndexReorder(l)) = Nodes(l)
  BY <1>1, <1>3, <1>5 DEF ListType, Nodes
<1>7. PointersHold(IndexReorder(l))
  BY <1>1, <1>3, <1>4, <1>6 DEF ListOK, PointersHold, ListType
<1> QED
  BY <1>4, <1>5, <1>6, <1>7 DEF ListOK

\* "node" is what becomes of the nodes of l when one for the message m is added:
\* a former node says what it said, and its pointer may lead to the new one.
Linked(node, l, m) ==
    LET new == Len(l.node) + 1
    IN  /\ node \in Seq(NodeType)
        /\ Len(node) = new
        /\ \A n \in Nodes(l) : /\ Says(node[n]) = Says(l.node[n])
                               /\ node[n].next \in {l.node[n].next, new}
        /\ Says(node[new]) = Says(m)
        /\ node[new].next \in Nodes(l) \cup {Nil}

LEMMA AppendLinks ==
    ASSUME NEW l, ListOK(l), NEW m, IsMessage(m), NEW id \in Nat,
           NEW next \in Nodes(l) \cup {Nil},
           NEW old \in [Nodes(l) -> NodeType],
           \A n \in Nodes(l) : /\ Says(old[n]) = Says(l.node[n])
                               /\ old[n].next \in {l.node[n].next, Len(l.node) + 1}
    PROVE  Linked(Append(old, NodeOf(m, id, next)), l, m)
<1> DEFINE node == Append(old, NodeOf(m, id, next))
           new == Len(l.node) + 1
<1>1. l \in ListType
  BY DEF ListOK
<1>2. Len(l.node) \in Nat /\ Nodes(l) = 1..Len(l.node) /\ Nil = 0
  BY <1>1, NodesShape DEF Nil
<1>3. /\ NodeOf(m, id, next) \in NodeType
      /\ Says(NodeOf(m, id, next)) = Says(m)
      /\ NodeOf(m, id, next).next = next
  <2>1. next \in Nat
    BY <1>2
  <2> QED
    BY <2>1 DEF NodeOf, NodeType, IsMessage, Says
<1>4. old \in Seq(NodeType) /\ Len(old) = Len(l.node)
  BY <1>2, IntervalSeq
<1>5. /\ node \in Seq(NodeType)
      /\ Len(node) = new
      /\ \A n \in Nodes(l) : node[n] = old[n]
      /\ node[new] = NodeOf(m, id, next)
  BY <1>2, <1>3, <1>4, AppendProperties
<1> HIDE DEF node
<1> QED
  BY <1>3, <1>5 DEF Linked, node

\* A list of such nodes with pointers of its own to former nodes and the new one.
LEMMA Linking ==
    ASSUME NEW l, ListOK(l), NEW m, NEW k,
           k = [node |-> k.node, head |-> k.head, tail |-> k.tail,
                tenStart |-> k.tenStart, count |-> k.count],
           Linked(k.node, l, m),
           {k.head, k.tail, k.tenStart} \subseteq Nodes(l) \cup {Nil, Len(l.node) + 1},
           k.count \in Nat
    PROVE  Extends(k, l, m) /\ Nodes(k) = Nodes(l) \cup {Len(l.node) + 1}
<1> DEFINE new == Len(l.node) + 1
<1>1. l \in ListType /\ PointersHold(l)
  BY DEF ListOK
<1>2. Len(l.node) \in Nat /\ Nodes(l) = 1..Len(l.node) /\ Nil = 0
  BY <1>1, NodesShape DEF Nil
<1>3. k.node \in Seq(NodeType) /\ Len(k.node) = new
  BY DEF Linked
<1>4. {k.head, k.tail, k.tenStart} \subseteq Nat
  BY <1>2
<1>5. k \in ListType
  BY <1>3, <1>4 DEF ListType
<1>6. Nodes(k) = Nodes(l) \cup {new}
  BY <1>2, <1>3, <1>5, NodesShape
<1>7. \A n \in Nodes(k) : k.node[n].next \in Nodes(k) \cup {Nil}
  BY <1>1, <1>6 DEF Linked, PointersHold
<1>8. PointersHold(k)
  BY <1>6, <1>7 DEF PointersHold
<1> QED
  BY <1>3, <1>5, <1>6, <1>8 DEF Extends, ListOK, Linked

\* Append adds the message, whether or not the list was empty.
LEMMA AppendedExtends ==
    ASSUME NEW l, ListOK(l), NEW m, IsMessage(m)
    PROVE  Extends(Appended(l, m), l, m)
<1> DEFINE new == Len(l.node) + 1
           old == [n \in Nodes(l) |->
                     IF n = l.tail THEN [l.node[n] EXCEPT !.next = new] ELSE l.node[n]]
           node == Append(old, NodeOf(m, l.count + 1, Nil))
           linked == [node |-> node,
                      head |-> IF l.head = Nil THEN new ELSE l.head,
                      tail |-> new,
                      tenStart |-> l.tenStart,
                      count |-> l.count + 1]
           tenStart == IF linked.count = 1 THEN new
                       ELSE IF linked.count > Latest THEN Links(linked)[l.tenStart]
                       ELSE l.tenStart
<1>1. l \in ListType /\ PointersHold(l) /\ l.count \in Nat
  BY DEF ListOK, ListType
<1>2. Len(l.node) \in Nat /\ Nodes(l) = 1..Len(l.node) /\ Nil = 0
  BY <1>1, NodesShape DEF Nil
<1>3. /\ old \in [Nodes(l) -> NodeType]
      /\ \A n \in Nodes(l) : /\ Says(old[n]) = Says(l.node[n])
                             /\ old[n].next \in {l.node[n].next, new}
  BY <1>1, <1>2, NodesShape DEF NodeType, Says
<1>4. l.head \in Nodes(l) \cup {Nil} /\ l.tenStart \in Nodes(l) \cup {Nil}
  BY <1>1 DEF PointersHold
<1>5. Appended(l, m) = [linked EXCEPT !.tenStart = tenStart]
  BY DEF Appended
<1> HIDE DEF old
<1>6. Linked(node, l, m)
  <2>1. l.count + 1 \in Nat
    BY <1>1
  <2> QED
    BY <1>3, <2>1, AppendLinks
<1> HIDE DEF node
<1>7. Extends(linked, l, m) /\ Nodes(linked) = Nodes(l) \cup {new}
  <2>1. /\ linked = [node |-> linked.node, head |-> linked.head, tail |-> linked.tail,
                     tenStart |-> linked.tenStart, count |-> linked.count]
        /\ linked.node = node
        /\ {linked.head, linked.tail, linked.tenStart} \subseteq Nodes(l) \cup {Nil, new}
        /\ linked.count \in Nat
    BY <1>1, <1>4
  <2> HIDE DEF linked
  <2> QED
    BY <1>6, <2>1, Linking
<1>8. tenStart \in Nodes(l) \cup {Nil, new}
  BY <1>4, <1>7, LinksShape DEF Extends
<1> HIDE DEF tenStart
<1> DEFINE k == [linked EXCEPT !.tenStart = tenStart]
<1>9. Extends(k, l, m)
  BY <1>1, <1>4, <1>6, <1>8, Linking
<1> QED
  BY <1>5, <1>9

\* So does Insertion, wherever LamportPlace puts the message.
LEMMA InsertedExtends ==
    ASSUME NEW l, ListOK(l), NEW m, IsMessage(m)
    PROVE  Extends(Inserted(l, m), l, m)
<1> DEFINE new == Len(l.node) + 1
           place == Place(l, m)
           following == IF place = {} THEN l.head
                        ELSE l.node[CHOOSE n \in place : TRUE].next
           old == [n \in Nodes(l) |->
                     IF n \in place THEN [l.node[n] EXCEPT !.next = new] ELSE l.node[n]]
           node == Append(old, NodeOf(m, 0, following))
           head == IF place = {} THEN new ELSE l.head
           tail == TailAfter(l, m, new)
           linked == [node |-> node, head |-> head, tail |-> tail,
                      tenStart |-> l.tenStart, count |-> l.count + 1]
           tenStart == UpdateTenStart(linked, new)
           k == [linked EXCEPT !.tenStart = tenStart]
<1>1. l \in ListType /\ PointersHold(l) /\ l.count \in Nat
  BY DEF ListOK, ListType
<1>2. Len(l.node) \in Nat /\ Nodes(l) = 1..Len(l.node) /\ Nil = 0
  BY <1>1, NodesShape DEF Nil
<1>3. place \subseteq Nodes(l)
  BY DEF Place, NodeAt
<1>4. following \in Nodes(l) \cup {Nil}
  BY <1>1, <1>3 DEF PointersHold
<1>5. Inserted(l, m) = IndexReorder(k)
  BY DEF Inserted
<1> HIDE DEF place, following
<1>6. /\ old \in [Nodes(l) -> NodeType]
      /\ \A n \in Nodes(l) : /\ Says(old[n]) = Says(l.node[n])
                             /\ old[n].next \in {l.node[n].next, new}
  BY <1>1, <1>2, NodesShape DEF NodeType, Says
<1>7. Linked(node, l, m)
  <2> HIDE DEF old
  <2> QED
    BY <1>4, <1>6, AppendLinks
<1>8. /\ linked.head \in Nodes(l) \cup {Nil, new}
      /\ linked.tail \in Nodes(l) \cup {Nil, new}
      /\ linked.tenStart \in Nodes(l) \cup {Nil}
      /\ linked.count \in Nat
      /\ linked.node = node
  BY <1>1 DEF PointersHold, TailAfter
<1>9. tenStart \in {linked.head, new, linked.tenStart}
  BY DEF UpdateTenStart
<1> HIDE DEF node, head, tail, tenStart
<1>10. k = [node |-> linked.node, head |-> linked.head, tail |-> linked.tail,
            tenStart |-> tenStart, count |-> linked.count]
  OBVIOUS
<1> HIDE DEF linked
<1>11. Extends(k, l, m)
  <2>1. /\ k = [node |-> k.node, head |-> k.head, tail |-> k.tail,
                tenStart |-> k.tenStart, count |-> k.count]
        /\ {k.head, k.tail, k.tenStart} \subseteq Nodes(l) \cup {Nil, new}
        /\ k.node = node
        /\ k.count \in Nat
    BY <1>8, <1>9, <1>10
  <2> HIDE DEF k
  <2> QED
    BY <1>7, <2>1, Linking
<1> HIDE DEF k
<1>12. Extends(IndexReorder(k), l, m)
  <2>1. ListOK(k) /\ k \in ListType /\ Len(k.node) = new
    BY <1>11 DEF Extends, ListOK
  <2>2. Nodes(k) = Nodes(l) \cup {new}
    BY <1>2, <2>1, NodesShape
  <2> QED
    BY <1>11, <2>1, <2>2, IndexReorderKeeps DEF Extends
<1> QED
  BY <1>5, <1>12

\* Creating the group with its first message.
LEMMA CreatedExtends ==
    ASSUME NEW m, IsMessage(m)
    PROVE  Extends(Created(m), EmptyList, m)
<1> DEFINE node == <<NodeOf(m, 0, Nil)>>
<1>1. NodeOf(m, 0, Nil) \in NodeType /\ Says(NodeOf(m, 0, Nil)) = Says(m)
  BY DEF NodeOf, NodeType, IsMessage, Says, Nil
<1>2. node \in Seq(NodeType) /\ Len(node) = 1 /\ node[1] = NodeOf(m, 0, Nil)
  BY <1>1
<1>3. node[1].next = Nil
  BY <1>2 DEF NodeOf
<1>4. Created(m) = [node |-> node, head |-> 1, tail |-> 1, tenStart |-> 1, count |-> 1]
  BY DEF Created
<1> HIDE DEF node
<1>5. Created(m) \in ListType /\ Created(m).node = node
  BY <1>2, <1>4 DEF ListType
<1>6. Nodes(Created(m)) = {1}
  BY <1>2, <1>5, NodesShape
<1>7. PointersHold(Created(m))
  BY <1>3, <1>4, <1>6 DEF PointersHold
<1>8. Len(EmptyList.node) = 0 /\ Nodes(EmptyList) = {}
  BY DEF EmptyList, Nodes
<1>9. Says(Created(m).node[Len(Created(m).node)]) = Says(m)
  BY <1>1, <1>2, <1>5
<1> QED
  BY <1>2, <1>5, <1>7, <1>8, <1>9 DEF Extends, ListOK

LEMMA EmptyListOK == ListOK(EmptyList) /\ Nodes(EmptyList) = {}
  BY DEF ListOK, ListType, PointersHold, EmptyList, Nodes, Nil

\* Overwriting a message that is already there moves nothing.
LEMMA ReplacedKeeps ==
    ASSUME NEW l, ListOK(l), NEW m, IsMessage(m)
    PROVE  /\ ListOK(Replaced(l, m))
           /\ Nodes(Replaced(l, m)) = Nodes(l)
           /\ Len(Replaced(l, m).node) = Len(l.node)
           /\ \A n \in Nodes(l) :
                 LET here == l.node[n]
                 IN  Says(Replaced(l, m).node[n]) =
                       IF n \in Match(l, m) THEN [Says(here) EXCEPT !.content = m.content]
                                            ELSE Says(here)
<1> DEFINE node == [n \in Nodes(l) |->
                      IF n \in Match(l, m) THEN [l.node[n] EXCEPT !.content = m.content]
                                           ELSE l.node[n]]
<1>1. l \in ListType /\ PointersHold(l)
  BY DEF ListOK
<1>2. \A n \in Nodes(l) :
        /\ node[n] \in NodeType
        /\ node[n].next = l.node[n].next
        /\ Says(node[n]) = IF n \in Match(l, m)
                           THEN [Says(l.node[n]) EXCEPT !.content = m.content]
                           ELSE Says(l.node[n])
  BY <1>1, NodesShape DEF NodeType, IsMessage, Says
<1>3. DOMAIN node = Nodes(l)
  OBVIOUS
<1>4. Replaced(l, m) = [l EXCEPT !.node = node]
  BY DEF Replaced
<1>5. node \in [Nodes(l) -> NodeType]
  BY <1>2
<1> HIDE DEF node
<1>6. node \in Seq(NodeType) /\ Len(node) = Len(l.node)
  BY <1>1, <1>5, NodesShape, IntervalSeq
<1>7. Replaced(l, m) \in ListType /\ Replaced(l, m).node = node
  BY <1>1, <1>4, <1>6 DEF ListType
<1>8. Nodes(Replaced(l, m)) = Nodes(l)
  BY <1>3, <1>7 DEF Nodes
<1>9. PointersHold(Replaced(l, m))
  <2>1. /\ Replaced(l, m).head = l.head /\ Replaced(l, m).tail = l.tail
        /\ Replaced(l, m).tenStart = l.tenStart
    BY <1>1, <1>4 DEF ListType
  <2> QED
    BY <1>1, <1>2, <1>7, <1>8, <2>1 DEF PointersHold
<1> QED
  BY <1>2, <1>6, <1>7, <1>8, <1>9 DEF ListOK

-----------------------------------------------------------------------------
(***************************************************************************)
(* Groups.                                                                 *)
(***************************************************************************)
LEMMA CreateGroupOK ==
    ASSUME NEW timestamp \in Nat
    PROVE  /\ GroupOK(CreateGroup(timestamp))
           /\ CreateGroup(timestamp).made
           /\ CreateGroup(timestamp).maxLamport = timestamp
           /\ CreateGroup(timestamp).list = EmptyList
           /\ CreateGroup(timestamp).msgTimestamp = [o \in Server |-> 0]
<1>1. EmptyList \in ListType /\ PointersHold(EmptyList)
  BY EmptyListOK DEF ListOK
<1>2. [i \in Index |-> Nil] \in [Index -> Nat]
  BY DEF Nil
<1>3. CreateGroup(timestamp) \in GroupType
  BY <1>1, <1>2 DEF CreateGroup, GroupType
<1>4. LogHeld(CreateGroup(timestamp))
  BY DEF CreateGroup, LogHeld
<1> QED
  BY <1>1, <1>3, <1>4 DEF GroupOK, CreateGroup

LEMMA NoGroupOK ==
    /\ GroupOK(NoGroup)
    /\ ~NoGroup.made
    /\ NoGroup.maxLamport = 0
    /\ NoGroup.list = EmptyList
    /\ NoGroup.msgTimestamp = [o \in Server |-> 0]
<1> DEFINE g == CreateGroup(0)
<1>1. /\ GroupOK(g)
      /\ g.maxLamport = 0
      /\ g.list = EmptyList
      /\ g.msgTimestamp = [o \in Server |-> 0]
  BY CreateGroupOK
<1>2. NoGroup = [g EXCEPT !.made = FALSE]
  BY DEF NoGroup
<1> HIDE DEF g
<1>3. g \in GroupType
  BY <1>1 DEF GroupOK
<1>4. /\ NoGroup \in GroupType
      /\ ~NoGroup.made
      /\ NoGroup.maxLamport = g.maxLamport
      /\ NoGroup.list = g.list
      /\ NoGroup.msgTimestamp = g.msgTimestamp
      /\ NoGroup.messageLamport = g.messageLamport
  BY <1>2, <1>3 DEF GroupType
<1>5. LogHeld(NoGroup)
  BY <1>1, <1>4 DEF GroupOK, LogHeld
<1> QED
  BY <1>1, <1>4, <1>5 DEF GroupOK

\* A group as it is when the newest node has been filed under some key.
LEMMA Refiled ==
    ASSUME NEW g, g \in GroupType, LogHeld(g), PointersHold(g.list), g.made,
           Len(g.list.node) > 0,
           NEW o \in Server, NEW i \in Nat, i <= MaxMsgs,
           NEW counter \in Nat,
           counter # g.msgTimestamp[o] => i = g.msgTimestamp[o] + 1 /\ counter = i
    PROVE  GroupOK([g EXCEPT !.messageLamport[o][i] = Len(g.list.node),
                             !.msgTimestamp[o] = counter])
<1> DEFINE newest == Len(g.list.node)
           k == [g EXCEPT !.messageLamport[o][i] = newest,
                          !.msgTimestamp[o] = counter]
<1>1. g.list \in ListType /\ newest \in Nat /\ newest \in Nodes(g.list)
  BY NodesShape DEF GroupType
<1>2. k \in GroupType
  BY <1>1 DEF GroupType
<1>3. k.list = g.list /\ k.made = g.made
  BY DEF GroupType
<1>4. ASSUME NEW p \in Server, NEW j \in 1..k.msgTimestamp[p]
      PROVE  j \in Index /\ k.messageLamport[p][j] \in Nodes(g.list)
  <2>1. g.msgTimestamp \in [Server -> Nat] /\ g.messageLamport \in [Server -> [Index -> Nat]]
    BY DEF GroupType
  <2>2. k.msgTimestamp[p] = IF p = o THEN counter ELSE g.msgTimestamp[p]
    BY <2>1 DEF GroupType
  <2>3. k.messageLamport[p] = IF p = o THEN [g.messageLamport[o] EXCEPT ![i] = newest]
                                       ELSE g.messageLamport[p]
    BY <2>1 DEF GroupType
  <2> HIDE DEF k
  <2>4. CASE p = o /\ j \in 1..g.msgTimestamp[o]
    <3>1. j \in Index /\ g.messageLamport[o][j] \in Nodes(g.list)
      BY <2>4 DEF LogHeld
    <3>2. [g.messageLamport[o] EXCEPT ![i] = newest][j] \in {newest, g.messageLamport[o][j]}
      BY <2>1, <3>1
    <3> QED
      BY <1>1, <2>3, <2>4, <3>1, <3>2
  <2>5. CASE p = o /\ j \notin 1..g.msgTimestamp[o]
    <3>1. j = i /\ i \in Index
      BY <2>1, <2>2, <2>5, MaxMsgsAssumption DEF Index
    <3>2. [g.messageLamport[o] EXCEPT ![i] = newest][i] = newest
      BY <2>1, <3>1
    <3> QED
      BY <1>1, <2>3, <2>5, <3>1, <3>2
  <2>6. CASE p # o
    BY <2>2, <2>3, <2>6 DEF LogHeld
  <2> QED
    BY <2>4, <2>5, <2>6
<1> HIDE DEF k
<1>5. GroupOK(k)
  BY <1>2, <1>3, <1>4 DEF GroupOK, LogHeld
<1> QED
  BY <1>5 DEF k

LEMMA JoinedGroup ==
    ASSUME NEW g, GroupOK(g), NEW s \in Server
    PROVE  /\ GroupOK(Joined(g, s))
           /\ Joined(g, s).made
           /\ Joined(g, s).maxLamport = g.maxLamport
           /\ Joined(g, s).list = g.list
           /\ Joined(g, s).msgTimestamp = g.msgTimestamp
<1> DEFINE base == IF g.made THEN g ELSE CreateGroup(0)
<1>1. /\ GroupOK(base)
      /\ base.made
      /\ base.maxLamport = g.maxLamport
      /\ base.list = g.list
      /\ base.msgTimestamp = g.msgTimestamp
  BY CreateGroupOK, NoGroupOK DEF GroupOK
<1>2. Joined(g, s) = [base EXCEPT !.nameTimestamp[s] = @ + 1]
  BY DEF Joined
<1> HIDE DEF base
<1>3. base \in GroupType
  BY <1>1 DEF GroupOK
<1>4. /\ Joined(g, s) \in GroupType
      /\ Joined(g, s).made = base.made
      /\ Joined(g, s).maxLamport = base.maxLamport
      /\ Joined(g, s).list = base.list
      /\ Joined(g, s).msgTimestamp = base.msgTimestamp
      /\ Joined(g, s).messageLamport = base.messageLamport
  <2> DEFINE k == [base EXCEPT !.nameTimestamp = [base.nameTimestamp EXCEPT ![s] = @ + 1]]
  <2>1. [base.nameTimestamp EXCEPT ![s] = @ + 1] \in [Server -> Nat]
    BY <1>3 DEF GroupType
  <2>2. Joined(g, s) = k
    BY <1>2, <1>3 DEF GroupType
  <2>3. k \in GroupType
    BY <1>3, <2>1 DEF GroupType
  <2>4. /\ k.made = base.made
        /\ k.maxLamport = base.maxLamport
        /\ k.list = base.list
        /\ k.msgTimestamp = base.msgTimestamp
        /\ k.messageLamport = base.messageLamport
    BY <1>3 DEF GroupType
  <2> QED
    BY <2>2, <2>3, <2>4
<1> QED
  BY <1>1, <1>4 DEF GroupOK, LogHeld

LEMMA NewMessageIs ==
    ASSUME NEW g \in GroupType, NEW s \in Server, NEW content \in Nat
    PROVE  IsMessage(NewMessage(g, s, content))
  BY DEF NewMessage, IsMessage, GroupType

\* Posting keeps the group well-formed as long as its counter has room.
LEMMA PostedGroup ==
    ASSUME NEW g, GroupOK(g), g.made, NEW s \in Server, NEW content \in Nat,
           g.msgTimestamp[s] < MaxMsgs
    PROVE  /\ GroupOK(Posted(g, s, content))
           /\ Posted(g, s, content).made
           /\ Posted(g, s, content).maxLamport = g.maxLamport + 1
           /\ Extends(Posted(g, s, content).list, g.list, NewMessage(g, s, content))
           /\ Posted(g, s, content).msgTimestamp
                = [g.msgTimestamp EXCEPT ![s] = @ + 1]
<1> DEFINE m == NewMessage(g, s, content)
           list == Appended(g.list, m)
           base == [g EXCEPT !.maxLamport = @ + 1, !.list = list]
           counter == g.msgTimestamp[s] + 1
           k == [base EXCEPT !.messageLamport[s][counter] = Len(base.list.node),
                             !.msgTimestamp[s] = counter]
<1>1. g \in GroupType /\ LogHeld(g) /\ ListOK(g.list) /\ g.msgTimestamp[s] \in Nat
  BY DEF GroupOK, GroupType, ListOK
<1>2. Extends(list, g.list, m)
  BY <1>1, NewMessageIs, AppendedExtends
<1>3. /\ ListOK(list)
      /\ Len(list.node) = Len(g.list.node) + 1
      /\ Len(list.node) > 0
      /\ Nodes(g.list) \subseteq Nodes(list)
  BY <1>1, <1>2, NodesShape DEF Extends, ListOK
<1>4. k = Posted(g, s, content)
  BY <1>1, <1>3 DEF Posted, GroupType
<1> HIDE DEF list
<1>5. /\ base \in GroupType
      /\ base.made
      /\ base.list = list
      /\ base.maxLamport = g.maxLamport + 1
      /\ base.msgTimestamp = g.msgTimestamp
      /\ base.messageLamport = g.messageLamport
  <2>1. list \in ListType /\ g.maxLamport + 1 \in Nat
    BY <1>1, <1>3 DEF GroupType, ListOK
  <2>2. base = [g EXCEPT !.maxLamport = g.maxLamport + 1, !.list = list]
    OBVIOUS
  <2> HIDE DEF base
  <2>3. base \in GroupType
    BY <1>1, <2>1, <2>2 DEF GroupType
  <2> QED
    BY <1>1, <2>2, <2>3 DEF GroupType
<1> HIDE DEF base
<1>6. LogHeld(base) /\ PointersHold(base.list)
  BY <1>1, <1>3, <1>5 DEF LogHeld, ListOK
<1>7. GroupOK(k)
  <2>1. /\ counter \in Nat
        /\ counter = base.msgTimestamp[s] + 1
        /\ counter <= MaxMsgs
        /\ Len(base.list.node) > 0
    BY <1>1, <1>3, <1>5, MaxMsgsAssumption
  <2> HIDE DEF counter
  <2> QED
    BY <1>5, <1>6, <2>1, Refiled
<1>8. /\ k.made
      /\ k.maxLamport = g.maxLamport + 1
      /\ k.list = list
      /\ k.msgTimestamp = [g.msgTimestamp EXCEPT ![s] = @ + 1]
  BY <1>5 DEF GroupType
<1> HIDE DEF k, m
<1>9. /\ GroupOK(k) /\ Extends(k.list, g.list, m)
  BY <1>2, <1>7, <1>8
<1> QED
  BY <1>4, <1>8, <1>9 DEF m

-----------------------------------------------------------------------------
(***************************************************************************)
(* Insertion.                                                              *)
(***************************************************************************)
\* The counters of k are those of g, but for that of m's origin, which may
\* have gone up to m's index.
Counts(k, g, m) ==
    \A o \in Server :
        \/ k.msgTimestamp[o] = g.msgTimestamp[o]
        \/ /\ o = m.from
           /\ g.msgTimestamp[o] < m.index
           /\ k.msgTimestamp[o] = m.index

LEMMA FiledGroup ==
    ASSUME NEW g, g \in GroupType, LogHeld(g), PointersHold(g.list), g.made,
           Len(g.list.node) > 0,
           NEW m \in UpdateMsgType, m.index <= MaxMsgs
    PROVE  /\ GroupOK(Filed(g, m))
           /\ Filed(g, m).made
           /\ Filed(g, m).list = g.list
           /\ Filed(g, m).maxLamport = g.maxLamport
           /\ Counts(Filed(g, m), g, m)
<1> DEFINE o == m.from
           i == m.index
           counter == IF i = g.msgTimestamp[o] + 1 THEN g.msgTimestamp[o] + 1
                                                   ELSE g.msgTimestamp[o]
           k == [g EXCEPT !.messageLamport[o][i] = Len(g.list.node),
                          !.msgTimestamp[o] = counter]
<1>1. o \in Server /\ i \in Nat
  BY DEF UpdateMsgType
<1>2. /\ counter \in Nat
      /\ g.msgTimestamp[o] \in Nat
      /\ i <= MaxMsgs
      /\ counter # g.msgTimestamp[o] => i = g.msgTimestamp[o] + 1 /\ counter = i
  BY <1>1 DEF GroupType
<1>3. Filed(g, m) = k
  BY DEF Filed, GroupType
<1> HIDE DEF o, i, counter
<1>4. GroupOK(k)
  BY <1>1, <1>2, Refiled
<1>5. /\ k.list = g.list
      /\ k.maxLamport = g.maxLamport
      /\ k.made = g.made
      /\ k.msgTimestamp = [g.msgTimestamp EXCEPT ![o] = counter]
  BY DEF GroupType
<1> HIDE DEF k
<1>6. Counts(k, g, m)
  <2>1. g.msgTimestamp \in [Server -> Nat]
    BY DEF GroupType
  <2> QED
    BY <1>1, <1>2, <1>5, <2>1 DEF Counts, o, i
<1> QED
  BY <1>3, <1>4, <1>5, <1>6

\* A message that is new to the server is added to its list.
Learns(k, g, m) ==
    /\ Extends(k.list, g.list, m)
    /\ k.maxLamport = IF g.made THEN UpdateGroupLamport(g, m.lamport)
                      ELSE m.groupTimestamp

\* A message with the keys of one of the list replaces its content.
Overwrites(k, g, m) ==
    /\ k.maxLamport = g.maxLamport
    /\ k.list = Replaced(g.list, m)

LEMMA MsgInsertedGroup ==
    ASSUME NEW g, GroupOK(g), NEW m \in UpdateMsgType, m.index <= MaxMsgs
    PROVE  /\ GroupOK(MsgInserted(g, m))
           /\ MsgInserted(g, m).made
           /\ Counts(MsgInserted(g, m), g, m)
           /\ \/ MsgInserted(g, m) = g
              \/ Overwrites(MsgInserted(g, m), g, m)
              \/ Learns(MsgInserted(g, m), g, m)
<1>1. /\ g \in GroupType /\ LogHeld(g) /\ ListOK(g.list) /\ g.maxLamport \in Nat
      /\ IsMessage(m)
      /\ m.lamport \in Nat /\ m.groupTimestamp \in Nat
  BY DEF GroupOK, GroupType, ListOK, UpdateMsgType, IsMessage
<1>2. CASE Redundant(g, m)
  BY <1>2 DEF MsgInserted, Redundant, Counts
<1>3. CASE ~Redundant(g, m) /\ Exists(g, m)
  <2> DEFINE k == [g EXCEPT !.list = Replaced(g.list, m)]
  <2>1. ListOK(Replaced(g.list, m)) /\ Nodes(Replaced(g.list, m)) = Nodes(g.list)
    BY <1>1, ReplacedKeeps
  <2>2. MsgInserted(g, m) = k
    BY <1>3 DEF MsgInserted
  <2>3. /\ k \in GroupType
        /\ k.made = g.made
        /\ k.maxLamport = g.maxLamport
        /\ k.list = Replaced(g.list, m)
        /\ k.msgTimestamp = g.msgTimestamp
        /\ k.messageLamport = g.messageLamport
    BY <1>1, <2>1 DEF GroupType, ListOK
  <2> HIDE DEF k
  <2>4. GroupOK(k) /\ k.made
    BY <1>1, <1>3, <2>1, <2>3 DEF GroupOK, LogHeld, ListOK, Exists
  <2> QED
    BY <2>2, <2>3, <2>4 DEF Counts, Overwrites
<1>4. CASE g.made /\ ~Redundant(g, m) /\ ~Exists(g, m)
  <2> DEFINE list == Inserted(g.list, m)
             lamport == UpdateGroupLamport(g, m.lamport)
             base == [g EXCEPT !.list = list, !.maxLamport = lamport]
  <2>1. /\ Extends(list, g.list, m)
        /\ ListOK(list)
        /\ Len(list.node) > 0
        /\ Nodes(g.list) \subseteq Nodes(list)
    BY <1>1, InsertedExtends, NodesShape DEF Extends, ListOK
  <2>2. lamport \in Nat
    BY <1>1 DEF UpdateGroupLamport
  <2>3. MsgInserted(g, m) = Filed(base, m)
    BY <1>4 DEF MsgInserted
  <2> HIDE DEF list, lamport
  <2>4. /\ base \in GroupType
        /\ base.made = g.made
        /\ base.maxLamport = lamport
        /\ base.list = list
        /\ base.msgTimestamp = g.msgTimestamp
        /\ base.messageLamport = g.messageLamport
    BY <1>1, <2>1, <2>2 DEF GroupType, ListOK
  <2> HIDE DEF base
  <2>5. LogHeld(base) /\ PointersHold(base.list)
    BY <1>1, <2>1, <2>4 DEF LogHeld, ListOK
  <2>6. /\ GroupOK(Filed(base, m))
        /\ Filed(base, m).made
        /\ Filed(base, m).list = list
        /\ Filed(base, m).maxLamport = lamport
        /\ Counts(Filed(base, m), base, m)
    BY <1>4, <2>1, <2>4, <2>5, FiledGroup
  <2> QED
    BY <1>4, <2>1, <2>3, <2>4, <2>6 DEF Counts, Learns, lamport
<1>5. CASE ~g.made
  <2> DEFINE list == Created(m)
             base == [CreateGroup(m.groupTimestamp) EXCEPT !.list = list]
  <2>1. g = NoGroup
    BY <1>5 DEF GroupOK
  <2>2. Extends(list, g.list, m) /\ ListOK(list) /\ Len(list.node) > 0
    BY <1>1, <2>1, CreatedExtends, NoGroupOK, NodesShape DEF Extends, EmptyList
  <2>3. MsgInserted(g, m) = Filed(base, m)
    BY <1>5 DEF MsgInserted, Redundant, Exists
  <2> HIDE DEF list
  <2>4. /\ base \in GroupType
        /\ base.made
        /\ base.maxLamport = m.groupTimestamp
        /\ base.list = list
        /\ base.msgTimestamp = g.msgTimestamp
    BY <1>1, <2>1, <2>2, CreateGroupOK, NoGroupOK DEF GroupOK, GroupType, ListOK
  <2>5. LogHeld(base) /\ PointersHold(base.list)
    BY <2>1, <2>2, <2>4, NoGroupOK DEF LogHeld, ListOK
  <2> HIDE DEF base
  <2>6. /\ GroupOK(Filed(base, m))
        /\ Filed(base, m).made
        /\ Filed(base, m).list = list
        /\ Filed(base, m).maxLamport = m.groupTimestamp
        /\ Counts(Filed(base, m), base, m)
    BY <2>2, <2>4, <2>5, FiledGroup
  <2> QED
    BY <1>5, <2>2, <2>3, <2>4, <2>6 DEF Counts, Learns
<1> QED
  BY <1>2, <1>3, <1>4, <1>5 DEF Redundant, Exists

LEMMA NamesInsertedGroup ==
    ASSUME NEW g, GroupOK(g), NEW m \in SendGroupInfoType
    PROVE  /\ GroupOK(NamesInserted(g, m))
           /\ NamesInserted(g, m).made
           /\ NamesInserted(g, m).list = g.list
           /\ NamesInserted(g, m).msgTimestamp = g.msgTimestamp
           /\ NamesInserted(g, m).maxLamport = IF g.made THEN g.maxLamport
                                               ELSE m.groupTimestamp
<1> DEFINE base == IF g.made THEN g ELSE CreateGroup(m.groupTimestamp)
           k == [base EXCEPT !.nameTimestamp[m.from] = m.timestamp]
<1>1. /\ m.from \in Server /\ m.timestamp \in Nat /\ m.groupTimestamp \in Nat
  BY DEF SendGroupInfoType
<1>2. /\ GroupOK(base)
      /\ base.made
      /\ base.list = g.list
      /\ base.msgTimestamp = g.msgTimestamp
      /\ base.maxLamport = IF g.made THEN g.maxLamport ELSE m.groupTimestamp
  BY <1>1, CreateGroupOK, NoGroupOK DEF GroupOK
<1>3. NamesInserted(g, m) = k \/ (g.made /\ NamesInserted(g, m) = g)
  BY DEF NamesInserted
<1> HIDE DEF base
<1>4. /\ k \in GroupType
      /\ k.made = base.made
      /\ k.list = base.list
      /\ k.msgTimestamp = base.msgTimestamp
      /\ k.messageLamport = base.messageLamport
      /\ k.maxLamport = base.maxLamport
  <2> DEFINE names == [base.nameTimestamp EXCEPT ![m.from] = m.timestamp]
  <2>1. base \in GroupType
    BY <1>2 DEF GroupOK
  <2>2. names \in [Server -> Nat]
    BY <1>1, <2>1 DEF GroupType
  <2>3. k = [base EXCEPT !.nameTimestamp = names]
    BY <2>1 DEF GroupType
  <2> HIDE DEF names, k
  <2> QED
    BY <2>1, <2>2, <2>3 DEF GroupType
<1> HIDE DEF k
<1>5. GroupOK(k)
  BY <1>2, <1>4 DEF GroupOK, LogHeld
<1> QED
  BY <1>2, <1>3, <1>4, <1>5 DEF base

-----------------------------------------------------------------------------
(***************************************************************************)
(* CheckForMerge.                                                          *)
(***************************************************************************)
\* What a server may send back about an origin: its user list, or a message
\* under an index it has counted, as it keeps it.
Answers(g, origin) ==
    {r \in SendGroupInfoType : r.groupTimestamp = g.maxLamport}
      \cup {r \in UpdateMsgType :
              /\ r.from = origin
              /\ r.index \in 1..g.msgTimestamp[origin]
              /\ r.groupTimestamp = 0
              /\ Says(r) = Says(NodeFiled(g, origin, r.index))}

LEMMA MissingAnswers ==
    ASSUME NEW g, GroupOK(g), NEW m \in CheckForMergeType, NEW origin \in Server
    PROVE  Missing(g, m, origin) \in Seq(Answers(g, origin))
<1> DEFINE known == m.msgs[origin]
           here == g.msgTimestamp[origin]
           count == IF here > known THEN here - known ELSE 0
           names == IF m.names[origin] < g.nameTimestamp[origin]
                    THEN <<SendGroupInfo(origin, g)>> ELSE <<>>
           msgs == [k \in 1..count |-> Resent(g, origin, known + k)]
<1>1. /\ g \in GroupType /\ LogHeld(g)
      /\ g.list \in ListType
      /\ g.maxLamport \in Nat
      /\ here \in Nat /\ known \in Nat /\ count \in Nat
      /\ g.nameTimestamp[origin] \in Nat
  BY DEF GroupOK, GroupType, CheckForMergeType
<1>2. SendGroupInfo(origin, g) \in Answers(g, origin)
  BY <1>1 DEF SendGroupInfo, SendGroupInfoType, Answers
<1>3. names \in Seq(Answers(g, origin))
  BY <1>2
<1>4. ASSUME NEW k \in 1..count
      PROVE  Resent(g, origin, known + k) \in Answers(g, origin)
  <2> DEFINE i == known + k
             n == g.messageLamport[origin][i]
             r == Resent(g, origin, i)
  <2>1. i \in 1..here
    BY <1>1, <1>4
  <2>2. n \in Nodes(g.list)
    BY <1>1, <2>1 DEF LogHeld
  <2>3. g.list.node[n] \in NodeType
    BY <1>1, <2>2, NodesShape
  <2>4. r = UpdateMsg(origin, i, g.list.node[n], 0)
    BY DEF Resent, NodeFiled
  <2>5. i \in Nat /\ NodeFiled(g, origin, i) = g.list.node[n]
    BY <1>1, <2>1 DEF NodeFiled
  <2> HIDE DEF i, n, r
  <2>6. /\ r \in UpdateMsgType
        /\ r.from = origin /\ r.index = i /\ r.groupTimestamp = 0
        /\ Says(r) = Says(g.list.node[n])
    BY <2>3, <2>4, <2>5 DEF UpdateMsg, UpdateMsgType, NodeType, Says
  <2>7. r \in Answers(g, origin)
    BY <2>1, <2>5, <2>6 DEF Answers
  <2> QED
    BY <2>7 DEF r, i
<1>5. msgs \in Seq(Answers(g, origin))
  <2>1. msgs \in [1..count -> Answers(g, origin)]
    BY <1>4
  <2> HIDE DEF msgs, count
  <2> QED
    BY <1>1, <2>1, IntervalSeq
<1>6. Missing(g, m, origin) = names \o msgs
  BY DEF Missing
<1> HIDE DEF names, msgs
<1> QED
  BY <1>3, <1>5, <1>6, ConcatProperties

-----------------------------------------------------------------------------
(***************************************************************************)
(* What the lists say.                                                     *)
(***************************************************************************)
LEMMA ExtendsMessages ==
    ASSUME NEW l, ListOK(l), NEW k, NEW m, Extends(k, l, m)
    PROVE  Messages(k) = Messages(l) \cup {Says(m)}
<1>1. /\ Len(l.node) \in Nat
      /\ Nodes(l) = 1..Len(l.node)
      /\ Len(k.node) = Len(l.node) + 1
      /\ Nodes(k) = 1..Len(k.node)
  BY NodesShape DEF ListOK, Extends
<1>2. Nodes(k) = Nodes(l) \cup {Len(k.node)}
  BY <1>1
<1> QED
  BY <1>2 DEF Messages, Extends

\* A message that is overwritten by its like stays as it is.
LEMMA ReplacedMessages ==
    ASSUME NEW l, ListOK(l), NEW m, IsMessage(m),
           \A x \in Messages(l) : SameKey(x, m) => x = Says(m)
    PROVE  Messages(Replaced(l, m)) = Messages(l)
<1>1. ASSUME NEW n \in Nodes(l)
      PROVE  Says(Replaced(l, m).node[n]) = Says(l.node[n])
  <2>1. CASE n \in Match(l, m)
    <3>1. SameKey(l.node[n], m)
      BY <2>1 DEF Match
    <3>2. Says(l.node[n]) = Says(m)
      BY <3>1 DEF Messages, Says, SameKey
    <3>3. [Says(l.node[n]) EXCEPT !.content = m.content] = Says(m)
      BY <3>2 DEF Says
    <3> QED
      BY <2>1, <3>2, <3>3, ReplacedKeeps
  <2>2. CASE n \notin Match(l, m)
    BY <2>2, ReplacedKeeps
  <2> QED
    BY <2>1, <2>2
<1> QED
  BY <1>1, ReplacedKeeps DEF Messages

LEMMA EmptyMessages == Messages(EmptyList) = {}
  BY EmptyListOK DEF Messages

-----------------------------------------------------------------------------
(***************************************************************************)
(* What an operation leaves as it was below the counters.                  *)
(***************************************************************************)
Settled(k, g) ==
    /\ \A o \in Server : \A i \in 1..g.msgTimestamp[o] :
          k.messageLamport[o][i] = g.messageLamport[o][i]
    /\ \A n \in Nodes(g.list) : SameKey(k.list.node[n], g.list.node[n])

LEMMA ExtendsSettles ==
    ASSUME NEW k, NEW l, NEW m, Extends(k, l, m)
    PROVE  \A n \in Nodes(l) : SameKey(k.node[n], l.node[n])
  BY DEF Extends, Says, SameKey

LEMMA JoinedSettles ==
    ASSUME NEW g, GroupOK(g), NEW s \in Server
    PROVE  Settled(Joined(g, s), g)
<1>1. Joined(g, s).list = g.list
  BY JoinedGroup
<1>2. CASE g.made
  <2>1. Joined(g, s).messageLamport = g.messageLamport
    BY <1>2 DEF Joined, GroupOK, GroupType
  <2> QED
    BY <1>1, <2>1 DEF Settled, SameKey
<1>3. CASE ~g.made
  BY <1>1, <1>3, NoGroupOK DEF Settled, SameKey, GroupOK
<1> QED
  BY <1>2, <1>3

LEMMA NamesInsertedSettles ==
    ASSUME NEW g, GroupOK(g), NEW m \in SendGroupInfoType
    PROVE  Settled(NamesInserted(g, m), g)
<1>1. NamesInserted(g, m).list = g.list
  BY NamesInsertedGroup
<1>2. CASE g.made
  <2> DEFINE k == [g EXCEPT !.nameTimestamp[m.from] = m.timestamp]
  <2>1. NamesInserted(g, m) \in {g, k}
    BY <1>2 DEF NamesInserted
  <2>2. k.messageLamport = g.messageLamport
    BY DEF GroupOK, GroupType
  <2> HIDE DEF k
  <2> QED
    BY <1>1, <2>1, <2>2 DEF Settled, SameKey
<1>3. CASE ~g.made
  BY <1>1, <1>3, NoGroupOK DEF Settled, SameKey, GroupOK
<1> QED
  BY <1>2, <1>3

LEMMA PostedSettles ==
    ASSUME NEW g, GroupOK(g), g.made, NEW s \in Server, NEW content \in Nat,
           g.msgTimestamp[s] < MaxMsgs
    PROVE  Settled(Posted(g, s, content), g)
<1> DEFINE k == Posted(g, s, content)
           filed == [g.messageLamport EXCEPT ![s][g.msgTimestamp[s] + 1] = Len(g.list.node) + 1]
<1>1. \A n \in Nodes(g.list) : SameKey(k.list.node[n], g.list.node[n])
  BY PostedGroup, ExtendsSettles
<1>2. /\ g \in GroupType
      /\ g.msgTimestamp \in [Server -> Nat]
      /\ g.messageLamport \in [Server -> [Index -> Nat]]
  BY DEF GroupOK, GroupType
<1>3. k.messageLamport = filed
  BY <1>2 DEF Posted, GroupType
<1>4. ASSUME NEW o \in Server, NEW i \in 1..g.msgTimestamp[o]
      PROVE  filed[o][i] = g.messageLamport[o][i]
  <2>1. i \in Index /\ (o = s => i # g.msgTimestamp[s] + 1)
    BY <1>2, <1>4 DEF GroupOK, LogHeld
  <2> QED
    BY <1>2, <2>1
<1> QED
  BY <1>1, <1>3, <1>4 DEF Settled

\* A message that is filed under no index below its counter.
LEMMA FiledSettles ==
    ASSUME NEW g \in GroupType, LogHeld(g), NEW m \in UpdateMsgType,
           m.index \notin 1..g.msgTimestamp[m.from],
           NEW o \in Server, NEW i \in 1..g.msgTimestamp[o]
    PROVE  Filed(g, m).messageLamport[o][i] = g.messageLamport[o][i]
<1> DEFINE filed == [g.messageLamport EXCEPT ![m.from][m.index] = Len(g.list.node)]
<1>1. g.messageLamport \in [Server -> [Index -> Nat]] /\ m.from \in Server
  BY DEF GroupType, UpdateMsgType
<1>2. Filed(g, m).messageLamport = filed
  BY DEF Filed, GroupType
<1>3. i \in Index /\ (o = m.from => i # m.index)
  BY DEF LogHeld
<1>4. filed[o][i] = g.messageLamport[o][i]
  BY <1>1, <1>3
<1> QED
  BY <1>2, <1>4

LEMMA MsgInsertedSettles ==
    ASSUME NEW g, GroupOK(g), NEW m \in UpdateMsgType, m.index <= MaxMsgs
    PROVE  Settled(MsgInserted(g, m), g)
<1>1. /\ g \in GroupType /\ LogHeld(g) /\ ListOK(g.list)
      /\ IsMessage(m) /\ m.from \in Server /\ m.index \in Nat
      /\ g.msgTimestamp[m.from] \in Nat
  BY DEF GroupOK, GroupType, ListOK, UpdateMsgType, IsMessage
<1>2. CASE Redundant(g, m)
  BY <1>2 DEF MsgInserted, Settled, SameKey
<1>3. CASE ~Redundant(g, m) /\ Exists(g, m)
  <2> DEFINE k == [g EXCEPT !.list = Replaced(g.list, m)]
  <2>1. MsgInserted(g, m) = k
    BY <1>3 DEF MsgInserted
  <2>2. k.list = Replaced(g.list, m) /\ k.messageLamport = g.messageLamport
    BY <1>1 DEF GroupType
  <2>3. ASSUME NEW n \in Nodes(g.list)
        PROVE  SameKey(Replaced(g.list, m).node[n], g.list.node[n])
    <3> DEFINE here == Says(g.list.node[n])
               there == Says(Replaced(g.list, m).node[n])
    <3>1. there = here \/ there = [here EXCEPT !.content = m.content]
      BY <1>1, ReplacedKeeps
    <3>2. there.lamport = here.lamport /\ there.replica = here.replica
      BY <3>1 DEF Says
    <3> QED
      BY <3>2 DEF Says, SameKey
  <2> HIDE DEF k
  <2> QED
    BY <2>1, <2>2, <2>3 DEF Settled
<1>4. CASE g.made /\ ~Redundant(g, m) /\ ~Exists(g, m)
  <2> DEFINE list == Inserted(g.list, m)
             base == [g EXCEPT !.list = list,
                               !.maxLamport = UpdateGroupLamport(g, m.lamport)]
  <2>1. MsgInserted(g, m) = Filed(base, m)
    BY <1>4 DEF MsgInserted
  <2>2. ListOK(list) /\ Nodes(g.list) \subseteq Nodes(list)
        /\ \A n \in Nodes(g.list) : SameKey(list.node[n], g.list.node[n])
    BY <1>1, InsertedExtends, ExtendsSettles, NodesShape DEF Extends, ListOK
  <2>3. UpdateGroupLamport(g, m.lamport) \in Nat
    BY <1>1 DEF UpdateGroupLamport, GroupType, IsMessage
  <2> HIDE DEF list
  <2>4. /\ base \in GroupType
        /\ base.list = list
        /\ base.msgTimestamp = g.msgTimestamp
        /\ base.messageLamport = g.messageLamport
    BY <1>1, <2>2, <2>3 DEF GroupType, ListOK
  <2> HIDE DEF base
  <2>5. LogHeld(base) /\ m.index \notin 1..base.msgTimestamp[m.from]
    BY <1>1, <1>4, <2>2, <2>4 DEF LogHeld, Redundant
  <2>6. /\ Filed(base, m).list = base.list
        /\ \A o \in Server : \A i \in 1..base.msgTimestamp[o] :
              Filed(base, m).messageLamport[o][i] = base.messageLamport[o][i]
    BY <2>4, <2>5, FiledSettles DEF Filed, GroupType
  <2> QED
    BY <2>1, <2>2, <2>4, <2>6 DEF Settled
<1>5. CASE ~g.made
  BY <1>5, NoGroupOK, EmptyListOK DEF Settled, GroupOK
<1> QED
  BY <1>2, <1>3, <1>4, <1>5 DEF Redundant, Exists

-----------------------------------------------------------------------------
(***************************************************************************)
(* What the list shows.                                                    *)
(***************************************************************************)
\* v holds the nodes of l that its readers meet, in the order they meet them.
Shows(l, v) == Chain(Len(l.node), l.head, Links(l), v)

LEMMA WalkIs ==
    ASSUME NEW l \in ListType, NEW v, Shows(l, v)
    PROVE  Walk(l) = v
<1>1. Len(l.node) \in Nat /\ Nodes(l) = 1..Len(l.node)
  BY NodesShape
<1>2. Links(l)[0] = 0
  BY DEF Links, Nil
<1>3. From(Nodes(l), l.head, Links(l)) = v
  BY <1>1, <1>2, ChainIsWalk DEF Shows
<1> QED
  BY <1>3 DEF Walk, From, Nil

\* The parts of what a list shows.
LEMMA ShowsParts ==
    ASSUME NEW l \in ListType, NEW v, Shows(l, v)
    PROVE  /\ Len(v) \in Nat
           /\ Len(v) <= Len(l.node)
           /\ v \in [1..Len(v) -> Nodes(l)]
           /\ \A j, k \in 1..Len(v) : v[j] = v[k] => j = k
           /\ l.head = IF Len(v) = 0 THEN Nil ELSE v[1]
           /\ \A k \in 1..Len(v) : l.node[v[k]].next = IF k = Len(v) THEN Nil ELSE v[k + 1]
<1>1. Len(l.node) \in Nat /\ Nodes(l) = 1..Len(l.node) /\ Nil = 0 /\ Nil \notin Nodes(l)
  BY NodesShape DEF Nil
<1>2. /\ Len(v) \in Nat
      /\ v \in [1..Len(v) -> Nodes(l)]
      /\ \A j, k \in 1..Len(v) : v[j] = v[k] => j = k
      /\ l.head = IF Len(v) = 0 THEN 0 ELSE v[1]
      /\ \A k \in 1..Len(v) : Links(l)[v[k]] = IF k = Len(v) THEN 0 ELSE v[k + 1]
  BY <1>1, ChainParts DEF Shows
<1>3. Len(v) <= Len(l.node)
  BY <1>1, ChainLength DEF Shows
<1>4. \A n \in Nodes(l) : Links(l)[n] = l.node[n].next
  BY <1>1 DEF Links
<1>5. \A k \in 1..Len(v) : v[k] \in Nodes(l)
  BY <1>2
<1> QED
  BY <1>1, <1>2, <1>3, <1>4, <1>5

\* The links of a list that has got one more node.
LEMMA LinksAfter ==
    ASSUME NEW l \in ListType, NEW old \in [Nodes(l) -> NodeType], NEW x \in NodeType,
           NEW k \in ListType, k.node = Append(old, x)
    PROVE  /\ Len(k.node) = Len(l.node) + 1
           /\ Nodes(k) = Nodes(l) \cup {Len(l.node) + 1}
           /\ \A n \in Nodes(l) : Links(k)[n] = old[n].next /\ k.node[n] = old[n]
           /\ Links(k)[Len(l.node) + 1] = x.next
           /\ k.node[Len(l.node) + 1] = x
<1>1. Len(l.node) \in Nat /\ Nodes(l) = 1..Len(l.node) /\ Nil = 0
  BY NodesShape DEF Nil
<1>2. old \in Seq(NodeType) /\ Len(old) = Len(l.node)
  BY <1>1, IntervalSeq
<1>3. /\ Len(k.node) = Len(l.node) + 1
      /\ \A n \in Nodes(l) : k.node[n] = old[n]
      /\ k.node[Len(l.node) + 1] = x
  BY <1>1, <1>2, AppendProperties
<1>4. Nodes(k) = 1..Len(k.node)
  BY NodesShape
<1>5. Nodes(k) = Nodes(l) \cup {Len(l.node) + 1}
  BY <1>1, <1>3, <1>4
<1>6. \A n \in Nodes(k) : n # Nil /\ Links(k)[n] = k.node[n].next
  BY <1>1, <1>5 DEF Links
<1> QED
  BY <1>3, <1>5, <1>6

\* What Tail stands for: the place of the last node Append has linked.
TailAt(l, v, p) == IF l.head = Nil THEN p = 0 /\ Len(v) = 0
                                   ELSE p \in 1..Len(v) /\ v[p] = l.tail

\* Append shows the message after Tail, and nothing behind it.
LEMMA AppendedShows ==
    ASSUME NEW l, ListOK(l), NEW m, IsMessage(m), NEW v, Shows(l, v), NEW p, TailAt(l, v, p)
    PROVE  LET k == Appended(l, m)
               new == Len(l.node) + 1
           IN  /\ Shows(k, Cut(v, p, new))
               /\ Len(Cut(v, p, new)) = p + 1
               /\ k.head # Nil /\ k.tail = new /\ k.count = l.count + 1
               /\ k.node[new].id = l.count + 1
               /\ \A n \in Nodes(l) : k.node[n].id = l.node[n].id
<1> DEFINE N == Len(l.node)
           new == N + 1
           old == [n \in Nodes(l) |->
                     IF n = l.tail THEN [l.node[n] EXCEPT !.next = new] ELSE l.node[n]]
           x == NodeOf(m, l.count + 1, Nil)
           k == Appended(l, m)
           w == Cut(v, p, new)
<1>1. l \in ListType /\ l.count \in Nat
  BY DEF ListOK, ListType
<1>2. N \in Nat /\ Nodes(l) = 1..N /\ Nil = 0
  BY <1>1, NodesShape DEF Nil
<1>3. k \in ListType /\ Len(k.node) = new
  BY AppendedExtends DEF Extends, ListOK
<1>4. /\ k.node = Append(old, x)
      /\ k.head = IF l.head = Nil THEN new ELSE l.head
      /\ k.tail = new
      /\ k.count = l.count + 1
  BY DEF Appended
<1> HIDE DEF k
<1>5. x \in NodeType /\ x.next = Nil /\ x.id = l.count + 1
  BY <1>1 DEF NodeOf, NodeType, IsMessage, Nil
<1>6. /\ old \in [Nodes(l) -> NodeType]
      /\ \A n \in Nodes(l) : /\ old[n].next = IF n = l.tail THEN new ELSE l.node[n].next
                             /\ old[n].id = l.node[n].id
  BY <1>1, <1>2, NodesShape DEF NodeType
<1> HIDE DEF old, x
<1>7. /\ \A n \in Nodes(l) : Links(k)[n] = old[n].next /\ k.node[n] = old[n]
      /\ Links(k)[new] = x.next
      /\ k.node[new] = x
  BY <1>1, <1>3, <1>4, <1>5, <1>6, LinksAfter
<1>8. /\ Len(v) \in Nat
      /\ v \in [1..Len(v) -> Nodes(l)]
      /\ \A i, j \in 1..Len(v) : v[i] = v[j] => i = j
      /\ l.head = IF Len(v) = 0 THEN Nil ELSE v[1]
  BY <1>1, ShowsParts
<1>9. \A j \in 1..Len(v) : v[j] \in Nodes(l)
  BY <1>8
<1>10. \A n \in Nodes(l) : n # Nil /\ Links(l)[n] = l.node[n].next
  BY <1>2 DEF Links
<1>11. /\ p \in 0..Len(v)
       /\ p = 0 => Len(v) = 0
       /\ p > 0 => p \in 1..Len(v) /\ v[p] = l.tail
  BY <1>2, <1>8, <1>9, <1>10 DEF TailAt
<1>12. k.head = IF Len(v) = 0 THEN new ELSE l.head
  BY <1>2, <1>4, <1>8, <1>9, <1>10, <1>11 DEF TailAt
<1>13. p > 0 => Links(k)[v[p]] = new
  BY <1>6, <1>7, <1>9, <1>11
<1>14. \A j \in 1..Len(v) : j # p => Links(k)[v[j]] = Links(l)[v[j]]
  <2> SUFFICES ASSUME NEW j \in 1..Len(v), j # p PROVE Links(k)[v[j]] = Links(l)[v[j]]
    OBVIOUS
  <2>1. p > 0
    BY <1>8, <1>11
  <2>2. v[j] # l.tail
    BY <1>8, <1>11, <2>1
  <2> QED
    BY <1>6, <1>7, <1>9, <1>10, <2>2
<1>15. Links(k)[new] = 0
  BY <1>2, <1>5, <1>7
<1> HIDE DEF N
<1>16. Chain(N + 1, k.head, Links(k), w) /\ Len(w) = p + 1
  <2>1. Chain(N, l.head, Links(l), v)
    BY DEF Shows, N
  <2> QED
    BY <1>2, <1>11, <1>12, <1>13, <1>14, <1>15, <2>1, ChainCut
<1>17. k.head # Nil
  BY <1>2, <1>4
<1> QED
  BY <1>3, <1>4, <1>5, <1>6, <1>7, <1>16, <1>17 DEF Shows, k, N

\* Numbering the nodes anew moves none, and gives each its place.
LEMMA IndexReorderShows ==
    ASSUME NEW l, ListOK(l), NEW v, Shows(l, v)
    PROVE  LET k == IndexReorder(l)
           IN  /\ Shows(k, v)
               /\ k.head = l.head /\ k.tail = l.tail /\ k.count = l.count
               /\ \A j \in 1..Len(v) : k.node[v[j]].id = j
<1> DEFINE walk == Walk(l)
           places(n) == {k \in DOMAIN walk : walk[k] = n}
           id(n) == CHOOSE k \in places(n) : TRUE
           renumbered(n) == IF places(n) = {} THEN l.node[n]
                            ELSE [l.node[n] EXCEPT !.id = id(n)]
           node == [n \in Nodes(l) |-> renumbered(n)]
           k == IndexReorder(l)
<1>1. l \in ListType
  BY DEF ListOK
<1>2. /\ Len(v) \in Nat
      /\ v \in [1..Len(v) -> Nodes(l)]
      /\ \A i, j \in 1..Len(v) : v[i] = v[j] => i = j
  BY <1>1, ShowsParts
<1>3. walk = v /\ DOMAIN walk = 1..Len(v)
  BY <1>1, <1>2, WalkIs
<1>4. k = [l EXCEPT !.node = node]
  BY DEF IndexReorder
<1>5. ListOK(k) /\ Len(k.node) = Len(l.node)
  BY IndexReorderKeeps
<1>6. /\ k.node = node /\ k.head = l.head /\ k.tail = l.tail /\ k.count = l.count
  BY <1>1, <1>4 DEF ListType
<1> HIDE DEF k
<1>7. ASSUME NEW n \in Nodes(l) PROVE node[n].next = l.node[n].next
  <2>1. l.node[n] \in NodeType
    BY <1>1, NodesShape
  <2> HIDE DEF places, id
  <2> QED
    BY <2>1 DEF NodeType
<1>8. ASSUME NEW j \in 1..Len(v) PROVE node[v[j]].id = j
  <2>1. v[j] \in Nodes(l)
    BY <1>2
  <2>2. l.node[v[j]] \in NodeType
    BY <1>1, <2>1, NodesShape
  <2>3. places(v[j]) = {j}
    BY <1>2, <1>3
  <2>4. id(v[j]) = j
    BY <2>3
  <2> HIDE DEF places, id
  <2> QED
    BY <2>1, <2>2, <2>3, <2>4 DEF NodeType
<1> HIDE DEF node
<1>9. \A j \in 1..Len(v) : Links(k)[v[j]] = Links(l)[v[j]]
  <2> SUFFICES ASSUME NEW j \in 1..Len(v) PROVE Links(k)[v[j]] = Links(l)[v[j]]
    OBVIOUS
  <2>1. v[j] \in Nodes(l) /\ Nodes(k) = Nodes(l)
    BY <1>1, <1>2, <1>5, NodesShape DEF ListOK
  <2> QED
    BY <1>6, <1>7, <2>1 DEF Links
<1>10. Shows(k, v)
  <2>1. Len(l.node) \in Nat
    BY <1>1, NodesShape
  <2>2. Chain(Len(l.node), l.head, Links(k), v)
    BY <1>9, <2>1, ChainSame DEF Shows
  <2> QED
    BY <1>5, <1>6, <2>2 DEF Shows
<1> QED
  BY <1>6, <1>8, <1>10 DEF k

\* The message goes behind the p-th node of v: behind Tail by the shortcut, and
\* otherwise behind the nodes that precede it.
PlacedAt(l, m, v, p) ==
    /\ p \in 0..Len(v)
    /\ Place(l, m) = IF p = 0 THEN {} ELSE {v[p]}
    /\ PastTail(l, m) => p # 0 /\ v[p] = l.tail
    /\ ~PastTail(l, m) =>
          /\ \A j \in 1..p : Precedes(l.node[v[j]], m)
          /\ p < Len(v) => ~Precedes(l.node[v[p + 1]], m)
          /\ Match(l, m) = IF p < Len(v) /\ SameKey(l.node[v[p + 1]], m) THEN {v[p + 1]} ELSE {}

LEMMA PlaceIs ==
    ASSUME NEW l, ListOK(l), NEW m, NEW v, Shows(l, v), NEW t, TailAt(l, v, t)
    PROVE  \E p : PlacedAt(l, m, v, p)
<1>1. l \in ListType
  BY DEF ListOK
<1>2. /\ Len(v) \in Nat
      /\ v \in [1..Len(v) -> Nodes(l)]
      /\ l.head = IF Len(v) = 0 THEN Nil ELSE v[1]
  BY <1>1, ShowsParts
<1>3. Walk(l) = v /\ DOMAIN v = 1..Len(v) /\ \A j \in 1..Len(v) : v[j] \in Nodes(l)
  BY <1>1, <1>2, WalkIs
<1>4. CASE PastTail(l, m)
  <2>1. t \in 1..Len(v) /\ v[t] = l.tail
    BY <1>4 DEF PastTail, TailAt
  <2>2. Place(l, m) = {v[t]}
    BY <1>3, <1>4, <2>1 DEF Place
  <2>3. t \in 0..Len(v) /\ t # 0
    BY <1>2, <2>1
  <2> QED
    BY <1>4, <2>1, <2>2, <2>3 DEF PlacedAt
<1>5. CASE ~PastTail(l, m)
  <2> DEFINE Right(k) == /\ \A j \in 1..(k - 1) : Precedes(l.node[v[j]], m)
                         /\ k <= Len(v) => ~Precedes(l.node[v[k]], m)
             S == {k \in 1..(Len(v) + 1) : k <= Len(v) => ~Precedes(l.node[v[k]], m)}
             stop == Stop(l, m)
  <2>1. PICK first \in S : \A k \in S : first <= k
    <3>1. S \subseteq Nat /\ Len(v) + 1 \in S
      BY <1>2
    <3> HIDE DEF S
    <3> QED
      BY <3>1, Least
  <2>2. first \in 1..(Len(v) + 1) /\ Right(first)
    <3> SUFFICES ASSUME NEW j \in 1..(first - 1) PROVE Precedes(l.node[v[j]], m)
      OBVIOUS
    <3>1. j \in 1..(Len(v) + 1) /\ j < first /\ j <= Len(v)
      BY <1>2
    <3>2. j \notin S
      BY <2>1, <3>1
    <3> QED
      BY <3>1, <3>2
  <2>3. stop = CHOOSE k \in 1..(Len(v) + 1) : Right(k)
    BY <1>3 DEF Stop
  <2>4. stop \in 1..(Len(v) + 1) /\ Right(stop)
    <3> HIDE DEF Right, stop
    <3> QED
      BY <2>2, <2>3
  <2> HIDE DEF stop
  <2> DEFINE p == stop - 1
  <2>5. p \in 0..Len(v) /\ stop = p + 1 /\ (p # 0 => p \in 1..Len(v))
    BY <1>2, <2>4
  <2>6. Place(l, m) = IF p = 0 THEN {} ELSE {v[p]}
    <3>1. Place(l, m) = {n \in Nodes(l) : p \in 1..Len(v) /\ v[p] = n}
      BY <1>3, <1>5 DEF Place, NodeAt, stop
    <3>2. p = 0 => p \notin 1..Len(v)
      BY <1>2
    <3> QED
      BY <1>3, <2>5, <3>1, <3>2
  <2>7. Match(l, m) = IF p < Len(v) /\ SameKey(l.node[v[p + 1]], m) THEN {v[p + 1]} ELSE {}
    <3>1. Match(l, m) = {n \in {n \in Nodes(l) : stop \in 1..Len(v) /\ v[stop] = n} :
                            SameKey(l.node[n], m)}
      BY <1>3, <1>5 DEF Match, NodeAt, stop
    <3>2. stop \in 1..Len(v) <=> p < Len(v)
      BY <1>2, <2>4
    <3> QED
      BY <1>3, <2>5, <3>1, <3>2
  <2>8. /\ \A j \in 1..p : Precedes(l.node[v[j]], m)
        /\ p < Len(v) => ~Precedes(l.node[v[p + 1]], m)
    BY <1>2, <2>4, <2>5
  <2> HIDE DEF p
  <2> QED
    BY <1>5, <2>5, <2>6, <2>7, <2>8 DEF PlacedAt
<1> QED
  BY <1>4, <1>5

\* Insertion shows the message there and leaves everything else where it was.
LEMMA InsertedShows ==
    ASSUME NEW l, ListOK(l), NEW m, IsMessage(m), NEW v, Shows(l, v),
           NEW p, PlacedAt(l, m, v, p)
    PROVE  LET k == Inserted(l, m)
               new == Len(l.node) + 1
               w == Put(v, p, new)
           IN  /\ Shows(k, w)
               /\ Len(w) = Len(v) + 1
               /\ k.head # Nil /\ k.tail = TailAfter(l, m, new) /\ k.count = l.count + 1
               /\ \A j \in 1..Len(w) : k.node[w[j]].id = j
<1> DEFINE N == Len(l.node)
           new == N + 1
           place == Place(l, m)
           following == IF place = {} THEN l.head
                        ELSE l.node[CHOOSE n \in place : TRUE].next
           old == [n \in Nodes(l) |->
                     IF n \in place THEN [l.node[n] EXCEPT !.next = new] ELSE l.node[n]]
           x == NodeOf(m, 0, following)
           linked == [node |-> Append(old, x),
                      head |-> IF place = {} THEN new ELSE l.head,
                      tail |-> TailAfter(l, m, new),
                      tenStart |-> l.tenStart,
                      count |-> l.count + 1]
           k == [linked EXCEPT !.tenStart = UpdateTenStart(linked, new)]
           w == Put(v, p, new)
<1>1. l \in ListType /\ PointersHold(l) /\ l.count \in Nat
  BY DEF ListOK, ListType
<1>2. N \in Nat /\ Nodes(l) = 1..N /\ Nil = 0
  BY <1>1, NodesShape DEF Nil
<1>3. /\ Len(v) \in Nat
      /\ v \in [1..Len(v) -> Nodes(l)]
      /\ \A i, j \in 1..Len(v) : v[i] = v[j] => i = j
      /\ l.head = IF Len(v) = 0 THEN Nil ELSE v[1]
      /\ \A j \in 1..Len(v) : l.node[v[j]].next = IF j = Len(v) THEN Nil ELSE v[j + 1]
  BY <1>1, ShowsParts
<1>4. \A j \in 1..Len(v) : v[j] \in Nodes(l)
  BY <1>3
<1>0. Len(v) \in Nat
  BY <1>3
<1>5. /\ p \in 0..Len(v) /\ p \in Nat
      /\ p # 0 => p \in 1..Len(v)
      /\ place = IF p = 0 THEN {} ELSE {v[p]}
  <2>1. p \in 0..Len(v) /\ place = IF p = 0 THEN {} ELSE {v[p]}
    BY DEF PlacedAt
  <2> HIDE DEF place
  <2> QED
    BY ONLY <1>0, <2>1
<1>6. following = IF p = Len(v) THEN Nil ELSE v[p + 1]
  <2>1. CASE p = 0
    <3>1. following = l.head
      BY <1>5, <2>1
    <3>2. p + 1 = 1
      BY <2>1
    <3> HIDE DEF following
    <3> QED
      BY <1>3, <2>1, <3>1, <3>2
  <2>2. CASE p # 0
    <3>1. (CHOOSE n \in place : TRUE) = v[p] /\ place # {}
      BY <1>5, <2>2
    <3> HIDE DEF place
    <3> QED
      BY <1>3, <1>5, <2>2, <3>1
  <2> QED
    BY <2>1, <2>2
<1>7. Inserted(l, m) = IndexReorder(k)
  BY DEF Inserted
<1> HIDE DEF place, following
<1>8. following \in Nat
  <2>1. p # Len(v) => p + 1 \in 1..Len(v)
    BY ONLY <1>0, <1>5
  <2> QED
    BY <1>2, <1>4, <1>6, <2>1
<1>9. x \in NodeType /\ x.next = following
  BY <1>8 DEF NodeOf, NodeType, IsMessage
<1>10. /\ old \in [Nodes(l) -> NodeType]
       /\ \A n \in Nodes(l) :
             old[n].next = IF n \in place THEN new ELSE l.node[n].next
  BY <1>1, <1>2, NodesShape DEF NodeType
<1>11. /\ k.node = Append(old, x)
       /\ k.head = IF place = {} THEN new ELSE l.head
       /\ k.tail = TailAfter(l, m, new)
       /\ k.count = l.count + 1
       /\ k.tenStart \in {linked.head, new, linked.tenStart}
       /\ k = [node |-> k.node, head |-> k.head, tail |-> k.tail,
               tenStart |-> k.tenStart, count |-> k.count]
  <2> HIDE DEF old, x, place
  <2>1. UpdateTenStart(linked, new) \in {linked.head, new, linked.tenStart}
    BY DEF UpdateTenStart
  <2> DEFINE tail == TailAfter(l, m, new)
             node == Append(old, x)
             first == IF place = {} THEN new ELSE l.head
             count == l.count + 1
  <2>3. PICK ts : ts = UpdateTenStart(linked, new)
    OBVIOUS
  <2>4. k = [node |-> node, head |-> first, tail |-> tail, tenStart |-> ts, count |-> count]
    BY <2>3
  <2> HIDE DEF k, node, tail, first, count
  <2>5. /\ k.node = node /\ k.head = first /\ k.tail = tail /\ k.tenStart = ts /\ k.count = count
        /\ k = [node |-> k.node, head |-> k.head, tail |-> k.tail,
                tenStart |-> k.tenStart, count |-> k.count]
    BY <2>4
  <2> QED
    BY <2>1, <2>3, <2>5 DEF node, tail, first, count
<1>12. ListOK(k) /\ Len(k.node) = new
  <2> HIDE DEF old
  <2>1. following \in Nodes(l) \cup {Nil}
    <3>1. p # Len(v) => p + 1 \in 1..Len(v)
      BY ONLY <1>0, <1>5
    <3> QED
      BY <1>4, <1>6, <3>1
  <2>2. \A n \in Nodes(l) : Says(old[n]) = Says(l.node[n])
    BY <1>1, <1>2, NodesShape DEF NodeType, Says, old
  <2>3. Linked(k.node, l, m)
    BY <1>10, <1>11, <2>1, <2>2, AppendLinks
  <2>4. {k.head, k.tail, k.tenStart} \subseteq Nodes(l) \cup {Nil, new}
    BY <1>1, <1>11 DEF PointersHold, TailAfter
  <2>5. k.count \in Nat
    BY <1>1, <1>11
  <2> HIDE DEF k
  <2>6. Extends(k, l, m)
    BY <1>11, <2>3, <2>4, <2>5, Linking
  <2> QED
    BY <2>6 DEF Extends
<1> HIDE DEF k, old, x
<1>13. /\ \A n \in Nodes(l) : Links(k)[n] = old[n].next
       /\ Links(k)[new] = x.next
  BY <1>1, <1>9, <1>10, <1>11, <1>12, LinksAfter DEF ListOK
<1>14. \A n \in Nodes(l) : n # Nil /\ Links(l)[n] = l.node[n].next
  BY <1>2 DEF Links
<1>15. k.head = IF p = 0 THEN new ELSE l.head
  BY <1>5, <1>11
<1>16. p > 0 => Links(k)[v[p]] = new
  BY <1>4, <1>5, <1>10, <1>13
<1>17. \A j \in 1..Len(v) : j # p => Links(k)[v[j]] = Links(l)[v[j]]
  <2> SUFFICES ASSUME NEW j \in 1..Len(v), j # p PROVE Links(k)[v[j]] = Links(l)[v[j]]
    OBVIOUS
  <2>1. v[j] \notin place
    BY <1>3, <1>5
  <2> QED
    BY <1>4, <1>10, <1>13, <1>14, <2>1
<1>18. Links(k)[new] = IF p = Len(v) THEN 0 ELSE v[p + 1]
  BY <1>2, <1>6, <1>9, <1>13
<1> HIDE DEF N
<1>19. Chain(N + 1, k.head, Links(k), w) /\ Len(w) = Len(v) + 1
  <2>1. Chain(N, l.head, Links(l), v)
    BY DEF Shows, N
  <2> QED
    BY <1>2, <1>5, <1>15, <1>16, <1>17, <1>18, <2>1, ChainPut
<1>20. k.head # Nil
  <2>1. p # 0 => Len(v) # 0 /\ 1 \in 1..Len(v)
    BY ONLY <1>0, <1>5
  <2>2. p # 0 => l.head # Nil
    BY <1>3, <1>4, <1>14, <2>1
  <2> QED
    BY <1>2, <1>15, <2>2
<1>21. Shows(k, w)
  BY <1>12, <1>19 DEF Shows, N
<1>22. /\ Shows(IndexReorder(k), w)
       /\ IndexReorder(k).head = k.head
       /\ IndexReorder(k).tail = k.tail
       /\ IndexReorder(k).count = k.count
       /\ \A j \in 1..Len(w) : IndexReorder(k).node[w[j]].id = j
  BY <1>12, <1>21, IndexReorderShows
<1> QED
  BY <1>7, <1>11, <1>19, <1>20, <1>22 DEF N, w

-----------------------------------------------------------------------------
(***************************************************************************)
(* Lists that are kept well: they end, no node is met twice, Tail is met,  *)
(* and the MsgIds grow.  "count" bounds them, so that Append gives a new   *)
(* message an id above all it shows.                                       *)
(***************************************************************************)
ListKept(l) ==
    LET walk == Walk(l)
    IN  /\ Shows(l, walk)
        /\ \A j, k \in 1..Len(walk) : j < k => l.node[walk[j]].id < l.node[walk[k]].id
        /\ \A k \in 1..Len(walk) : l.node[walk[k]].id <= l.count
        /\ Len(walk) <= l.count
        /\ \E t : TailAt(l, walk, t)

\* The list k is kept well, and still shows before its Tail what l shows there.
Keeps(k, l) ==
    /\ ListKept(k)
    /\ \A t, u : TailAt(l, Walk(l), t) /\ TailAt(k, Walk(k), u) =>
          \A j \in 1..t : \E i \in 1..u : Walk(k)[i] = Walk(l)[j]

\* The same, of sequences known to be the walks.
LEMMA KeepsIs ==
    ASSUME NEW l \in ListType, NEW v, Shows(l, v), NEW t, TailAt(l, v, t),
           NEW k \in ListType, NEW w, Shows(k, w), NEW u, TailAt(k, w, u),
           \A i, j \in 1..Len(w) : i < j => k.node[w[i]].id < k.node[w[j]].id,
           \A j \in 1..Len(w) : k.node[w[j]].id <= k.count,
           Len(w) <= k.count,
           \A j \in 1..t : \E i \in 1..u : w[i] = v[j]
    PROVE  Keeps(k, l)
<1>1. Walk(l) = v /\ Walk(k) = w
  BY WalkIs
<1>2. ListKept(k)
  BY <1>1 DEF ListKept
<1>3. ASSUME NEW x, TailAt(l, v, x) PROVE x = t
  BY <1>3, ShowsParts DEF TailAt
<1>4. ASSUME NEW x, TailAt(k, w, x) PROVE x = u
  BY <1>4, ShowsParts DEF TailAt
<1> QED
  BY <1>1, <1>2, <1>3, <1>4 DEF Keeps

\* Tail moves on to the appended message, and everything before it stays.
LEMMA AppendedKeeps ==
    ASSUME NEW l, ListOK(l), ListKept(l), NEW m, IsMessage(m)
    PROVE  /\ Keeps(Appended(l, m), l)
           /\ \E u : /\ TailAt(Appended(l, m), Walk(Appended(l, m)), u)
                     /\ u # 0
<1> DEFINE v == Walk(l)
           new == Len(l.node) + 1
           k == Appended(l, m)
<1>1. l \in ListType /\ Len(l.node) \in Nat /\ Nodes(l) = 1..Len(l.node) /\ l.count \in Nat /\ Nil = 0
  BY NodesShape DEF ListOK, ListType, Nil
<1>2. PICK t : TailAt(l, v, t)
  BY DEF ListKept
<1>3. /\ Shows(l, v)
      /\ \A i, j \in 1..Len(v) : i < j => l.node[v[i]].id < l.node[v[j]].id
      /\ \A j \in 1..Len(v) : l.node[v[j]].id <= l.count
      /\ Len(v) <= l.count
  BY DEF ListKept
<1>4. /\ Len(v) \in Nat
      /\ v \in [1..Len(v) -> Nodes(l)]
      /\ l.head = IF Len(v) = 0 THEN Nil ELSE v[1]
  BY <1>1, <1>3, ShowsParts
<1> HIDE DEF v
<1>5. PICK w : w = Cut(v, t, new)
  OBVIOUS
<1>6. /\ Shows(k, w)
      /\ Len(w) = t + 1
      /\ k.head # Nil /\ k.tail = new /\ k.count = l.count + 1
      /\ k.node[new].id = l.count + 1
      /\ \A n \in Nodes(l) : k.node[n].id = l.node[n].id
  BY <1>2, <1>3, <1>5, AppendedShows
<1>7. k \in ListType
  BY AppendedExtends DEF Extends, ListOK
<1> HIDE DEF k
<1>8. t \in Nat /\ t <= Len(v) /\ \A j \in 1..t : j \in 1..Len(v) /\ v[j] \in Nodes(l)
  BY <1>1, <1>2, <1>4 DEF TailAt
<1>9. \A j \in 1..(t + 1) : w[j] = IF j <= t THEN v[j] ELSE new
  BY <1>5 DEF Cut
<1>10. TailAt(k, w, t + 1)
  <2>1. t + 1 \in 1..(t + 1) /\ w[t + 1] = new
    BY <1>8, <1>9
  <2> QED
    BY <1>6, <2>1 DEF TailAt
<1>11. \A j \in 1..(t + 1) : \/ j \in 1..t /\ k.node[w[j]].id = l.node[v[j]].id
                             \/ j = t + 1 /\ k.node[w[j]].id = l.count + 1
  <2> SUFFICES ASSUME NEW j \in 1..(t + 1)
               PROVE  \/ j \in 1..t /\ k.node[w[j]].id = l.node[v[j]].id
                      \/ j = t + 1 /\ k.node[w[j]].id = l.count + 1
    OBVIOUS
  <2>1. CASE j <= t
    BY <1>6, <1>8, <1>9, <2>1
  <2>2. CASE j = t + 1
    BY <1>6, <1>8, <1>9, <2>2
  <2> QED
    BY <1>8, <2>1, <2>2
<1>12. \A j \in 1..Len(v) : l.node[v[j]].id \in Nat
  <2> SUFFICES ASSUME NEW j \in 1..Len(v) PROVE l.node[v[j]].id \in Nat
    OBVIOUS
  <2>1. l.node[v[j]] \in NodeType
    BY <1>1, <1>4, NodesShape
  <2> QED
    BY <2>1 DEF NodeType
<1>13. \A i, j \in 1..(t + 1) : i < j => k.node[w[i]].id < k.node[w[j]].id
  <2> SUFFICES ASSUME NEW i \in 1..(t + 1), NEW j \in 1..(t + 1), i < j
               PROVE  k.node[w[i]].id < k.node[w[j]].id
    OBVIOUS
  <2>1. i \in 1..Len(v) /\ k.node[w[i]].id = l.node[v[i]].id
    BY <1>8, <1>11
  <2>2. CASE j \in 1..t
    <3>1. j # t + 1 /\ j \in 1..Len(v)
      BY <1>8, <2>2
    <3>2. k.node[w[j]].id = l.node[v[j]].id
      BY <1>11, <3>1
    <3> QED
      BY <1>3, <2>1, <3>1, <3>2
  <2>3. CASE j = t + 1
    <3>1. k.node[w[j]].id = l.count + 1
      BY <1>8, <1>11, <2>3
    <3> QED
      BY <1>1, <1>3, <1>12, <2>1, <3>1
  <2> QED
    BY <1>8, <2>2, <2>3
<1>14. \A j \in 1..(t + 1) : k.node[w[j]].id <= k.count
  <2> SUFFICES ASSUME NEW j \in 1..(t + 1) PROVE k.node[w[j]].id <= k.count
    OBVIOUS
  <2>1. k.count \in Nat /\ k.count = l.count + 1
    BY <1>1, <1>6
  <2>2. CASE j \in 1..t
    <3>1. j \in 1..Len(v) /\ j # t + 1
      BY <1>8, <2>2
    <3>2. k.node[w[j]].id = l.node[v[j]].id /\ l.node[v[j]].id \in Nat
      BY <1>11, <1>12, <3>1
    <3> QED
      BY <1>1, <1>3, <2>1, <3>1, <3>2
  <2>3. CASE j = t + 1
    BY <1>1, <1>8, <1>11, <2>1, <2>3
  <2> QED
    BY <1>8, <2>2, <2>3
<1>15. t + 1 <= k.count
  BY <1>1, <1>3, <1>4, <1>6, <1>8
<1>16. \A j \in 1..t : \E i \in 1..(t + 1) : w[i] = v[j]
  BY <1>8, <1>9
<1>17. Walk(k) = w
  BY <1>6, <1>7, WalkIs
<1>18. Keeps(k, l)
  <2>1. \A i, j \in 1..Len(w) : i < j => k.node[w[i]].id < k.node[w[j]].id
    BY <1>6, <1>13
  <2>2. \A j \in 1..Len(w) : k.node[w[j]].id <= k.count
    BY <1>6, <1>14
  <2>3. Len(w) <= k.count
    BY <1>6, <1>15
  <2> QED
    BY <1>1, <1>2, <1>3, <1>6, <1>7, <1>10, <1>16, <2>1, <2>2, <2>3, KeepsIs
<1>19. t + 1 # 0
  BY <1>8
<1> QED
  BY <1>10, <1>17, <1>18, <1>19 DEF k

\* A message of another server pushes nothing behind Tail, or out of the list.
LEMMA InsertedKeeps ==
    ASSUME NEW l, ListOK(l), ListKept(l), NEW m, IsMessage(m)
    PROVE  Keeps(Inserted(l, m), l)
<1> DEFINE v == Walk(l)
           new == Len(l.node) + 1
           k == Inserted(l, m)
<1>1. l \in ListType /\ Len(l.node) \in Nat /\ Nodes(l) = 1..Len(l.node) /\ l.count \in Nat /\ Nil = 0
  BY NodesShape DEF ListOK, ListType, Nil
<1>2. PICK t : TailAt(l, v, t)
  BY DEF ListKept
<1>3. Shows(l, v) /\ Len(v) <= l.count
  BY DEF ListKept
<1>4. /\ Len(v) \in Nat
      /\ v \in [1..Len(v) -> Nodes(l)]
      /\ \A i, j \in 1..Len(v) : v[i] = v[j] => i = j
      /\ l.head = IF Len(v) = 0 THEN Nil ELSE v[1]
  BY <1>1, <1>3, ShowsParts
<1> HIDE DEF v
<1>5. PICK p : PlacedAt(l, m, v, p)
  BY <1>2, <1>3, PlaceIs
<1>6. PICK w : w = Put(v, p, new)
  OBVIOUS
<1>7. /\ Shows(k, w)
      /\ Len(w) = Len(v) + 1
      /\ k.head # Nil /\ k.tail = TailAfter(l, m, new) /\ k.count = l.count + 1
      /\ \A j \in 1..Len(w) : k.node[w[j]].id = j
  BY <1>3, <1>5, <1>6, InsertedShows
<1>8. k \in ListType
  BY InsertedExtends DEF Extends, ListOK
<1> HIDE DEF k
<1>9. /\ p \in Nat /\ p <= Len(v)
      /\ PastTail(l, m) => p # 0 /\ v[p] = l.tail
  <2>1. p \in 0..Len(v) /\ (PastTail(l, m) => p # 0 /\ v[p] = l.tail)
    BY ONLY <1>5 DEF PlacedAt
  <2>2. Len(v) \in Nat
    BY <1>4
  <2> QED
    BY ONLY <2>1, <2>2
<1>10. t \in Nat /\ t <= Len(v) /\ (l.head # Nil => t # 0 /\ v[t] = l.tail)
  BY <1>4, <1>2 DEF TailAt
<1>11. l.head = Nil => t = 0 /\ p = 0
  BY <1>2, <1>4, <1>9 DEF TailAt
<1>12. \A j \in 1..(Len(v) + 1) : w[j] = IF j <= p THEN v[j] ELSE IF j = p + 1 THEN new ELSE v[j - 1]
  BY <1>6 DEF Put
\* Where Tail and the nodes before it are now.
<1>13. PICK u : /\ u \in 1..(Len(v) + 1)
                /\ w[u] = k.tail
                /\ u = IF l.head = Nil \/ PastTail(l, m) THEN p + 1
                       ELSE IF t <= p THEN t ELSE t + 1
  <2>1. CASE l.head = Nil \/ PastTail(l, m)
    <3>1. k.tail = new
      BY <1>7, <2>1 DEF TailAfter
    <3>2. p + 1 \in 1..(Len(v) + 1) /\ w[p + 1] = new
      BY <1>4, <1>9, <1>12
    <3> QED
      BY <2>1, <3>1, <3>2
  <2>2. CASE ~(l.head = Nil \/ PastTail(l, m))
    <3>1. k.tail = l.tail /\ t # 0 /\ v[t] = l.tail
      BY <1>7, <1>10, <2>2 DEF TailAfter
    <3>2. CASE t <= p
      <4>1. t \in 1..(Len(v) + 1) /\ w[t] = v[t]
        BY <1>4, <1>10, <1>12, <3>1, <3>2
      <4> QED
        BY <2>2, <3>1, <3>2, <4>1
    <3>3. CASE ~(t <= p)
      <4>1. t + 1 \in 1..(Len(v) + 1) /\ ~(t + 1 <= p) /\ t + 1 # p + 1 /\ (t + 1) - 1 = t
        BY <1>4, <1>9, <1>10, <3>3
      <4>2. w[t + 1] = v[t]
        BY <1>12, <4>1
      <4> QED
        BY <2>2, <3>1, <3>3, <4>1, <4>2
    <3> QED
      BY <3>2, <3>3
  <2> QED
    BY <2>1, <2>2
<1>14. TailAt(k, w, u)
  BY <1>7, <1>13 DEF TailAt
<1>15. \A j \in 1..t : \E i \in 1..u : w[i] = v[j]
  <2> SUFFICES ASSUME NEW j \in 1..t PROVE \E i \in 1..u : w[i] = v[j]
    OBVIOUS
  <2>0. u \in Nat /\ j \in Nat /\ 1 <= j /\ j <= t /\ j <= Len(v) /\ t # 0
    BY <1>4, <1>10, <1>13
  <2>1. p + 1 <= u => t <= p \/ u = t + 1 \/ u = p + 1
    BY <1>13
  <2>2. PastTail(l, m) => t = p
    BY <1>4, <1>9, <1>10, <1>11, <2>0
  <2>3. l.head # Nil
    BY <1>11, <2>0
  <2>4. CASE j <= p
    <3>1. j \in 1..(Len(v) + 1) /\ w[j] = v[j]
      BY <1>4, <1>12, <2>0, <2>4
    <3>2. j <= u
      BY <1>9, <1>10, <1>13, <2>0, <2>2, <2>3, <2>4
    <3> QED
      BY <2>0, <3>1, <3>2
  <2>5. CASE ~(j <= p)
    <3>1. j + 1 \in 1..(Len(v) + 1) /\ ~(j + 1 <= p) /\ j + 1 # p + 1 /\ (j + 1) - 1 = j
      BY <1>4, <1>9, <2>0, <2>5
    <3>2. w[j + 1] = v[j]
      BY <1>12, <3>1
    <3>3. u = t + 1
      BY <1>9, <1>10, <1>13, <2>0, <2>2, <2>3, <2>5
    <3>4. j + 1 \in 1..u
      BY <1>10, <2>0, <3>3
    <3> QED
      BY <3>2, <3>4
  <2> QED
    BY <2>4, <2>5
<1>16. /\ \A i, j \in 1..Len(w) : i < j => k.node[w[i]].id < k.node[w[j]].id
       /\ \A j \in 1..Len(w) : k.node[w[j]].id <= k.count
       /\ Len(w) <= k.count
  <2>1. Len(w) \in Nat /\ k.count \in Nat /\ Len(w) <= k.count
    BY <1>1, <1>3, <1>4, <1>7
  <2>2. \A j \in 1..Len(w) : j <= k.count
    BY <2>1
  <2> QED
    BY <1>7, <2>1, <2>2
<1>17. Keeps(k, l)
  BY <1>1, <1>2, <1>3, <1>7, <1>8, <1>14, <1>15, <1>16, KeepsIs
<1> QED
  BY <1>17 DEF k

LEMMA EmptyKept == ListKept(EmptyList) /\ Walk(EmptyList) = <<>>
<1>1. EmptyList \in ListType /\ Len(EmptyList.node) = 0 /\ EmptyList.head = 0 /\ EmptyList.count = 0
  BY EmptyListOK DEF ListOK, EmptyList, Nil
<1>2. Shows(EmptyList, <<>>)
  BY <1>1, ChainEmpty DEF Shows
<1>3. Walk(EmptyList) = <<>>
  BY <1>1, <1>2, WalkIs
<1>4. TailAt(EmptyList, <<>>, 0)
  BY <1>1 DEF TailAt, Nil
<1>5. Len(<<>>) = 0
  OBVIOUS
<1> QED
  BY <1>1, <1>2, <1>3, <1>4, <1>5 DEF ListKept

LEMMA CreatedKept ==
    ASSUME NEW m, IsMessage(m)
    PROVE  ListKept(Created(m)) /\ Walk(Created(m)) = <<1>>
<1> DEFINE k == Created(m)
<1>1. k \in ListType /\ Len(k.node) = 1
  BY CreatedExtends DEF Extends, ListOK, EmptyList
<1>2. /\ k.head = 1 /\ k.tail = 1 /\ k.count = 1
      /\ k.node[1].id = 0 /\ k.node[1].next = Nil
  BY DEF Created, NodeOf
<1> HIDE DEF k
<1>3. Nodes(k) = {1} /\ Links(k)[1] = 0
  <2>1. Nodes(k) = {1}
    BY <1>1, NodesShape
  <2> QED
    BY <1>2, <2>1 DEF Links, Nil
<1>4. <<1>> \in Seq(1..1) /\ Len(<<1>>) = 1 /\ <<1>>[1] = 1
  OBVIOUS
<1>5. Shows(k, <<1>>)
  BY <1>1, <1>2, <1>3, <1>4 DEF Shows, Chain
<1>6. TailAt(k, <<1>>, 1)
  BY <1>2, <1>4 DEF TailAt, Nil
<1>7. Walk(k) = <<1>>
  BY <1>1, <1>5, WalkIs
<1>8. ListKept(k)
  BY <1>2, <1>4, <1>5, <1>6, <1>7 DEF ListKept
<1> QED
  BY <1>7, <1>8 DEF k

\* Overwriting a message moves nothing.
LEMMA ReplacedShows ==
    ASSUME NEW l, ListOK(l), NEW m, IsMessage(m)
    PROVE  LET k == Replaced(l, m)
           IN  /\ k.head = l.head /\ k.tail = l.tail /\ k.count = l.count
               /\ Links(k) = Links(l)
               /\ \A n \in Nodes(l) : k.node[n].id = l.node[n].id
               /\ \A v : Shows(l, v) => Shows(k, v)
<1> DEFINE node == [n \in Nodes(l) |->
                      IF n \in Match(l, m) THEN [l.node[n] EXCEPT !.content = m.content]
                                           ELSE l.node[n]]
           k == Replaced(l, m)
<1>1. l \in ListType
  BY DEF ListOK
<1>2. \A n \in Nodes(l) : node[n].next = l.node[n].next /\ node[n].id = l.node[n].id
  BY <1>1, NodesShape DEF NodeType
<1>3. k = [l EXCEPT !.node = node]
  BY DEF Replaced
<1>4. Nodes(k) = Nodes(l) /\ Len(k.node) = Len(l.node)
  BY ReplacedKeeps
<1> HIDE DEF node, k
<1>5. /\ k.node = node /\ k.head = l.head /\ k.tail = l.tail /\ k.count = l.count
  BY <1>1, <1>3 DEF ListType
<1>6. Links(k) = Links(l)
  BY <1>2, <1>4, <1>5 DEF Links
<1>7. \A v : Shows(l, v) => Shows(k, v)
  BY <1>4, <1>5, <1>6 DEF Shows
<1> QED
  BY <1>2, <1>5, <1>6, <1>7 DEF k

LEMMA ReplacedKept ==
    ASSUME NEW l, ListOK(l), ListKept(l), NEW m, IsMessage(m)
    PROVE  Keeps(Replaced(l, m), l) /\ Walk(Replaced(l, m)) = Walk(l)
<1> DEFINE v == Walk(l)
           k == Replaced(l, m)
<1>1. l \in ListType /\ k \in ListType
  BY ReplacedKeeps DEF ListOK
<1>2. /\ k.head = l.head /\ k.tail = l.tail /\ k.count = l.count
      /\ \A n \in Nodes(l) : k.node[n].id = l.node[n].id
      /\ Shows(k, v)
  BY ReplacedShows DEF ListKept
<1> HIDE DEF k
<1>3. PICK t : TailAt(l, v, t)
  BY DEF ListKept
<1>4. /\ Shows(l, v)
      /\ \A i, j \in 1..Len(v) : i < j => l.node[v[i]].id < l.node[v[j]].id
      /\ \A j \in 1..Len(v) : l.node[v[j]].id <= l.count
      /\ Len(v) <= l.count
  BY DEF ListKept
<1> HIDE DEF v
<1>5. \A j \in 1..Len(v) : v[j] \in Nodes(l)
  BY <1>1, <1>4, ShowsParts
<1>6. TailAt(k, v, t)
  BY <1>2, <1>3 DEF TailAt
<1>7. Walk(k) = v
  BY <1>1, <1>2, WalkIs
<1>8. Keeps(k, l)
  <2>1. /\ \A i, j \in 1..Len(v) : i < j => k.node[v[i]].id < k.node[v[j]].id
        /\ \A j \in 1..Len(v) : k.node[v[j]].id <= k.count
        /\ Len(v) <= k.count
        /\ \A j \in 1..t : \E i \in 1..t : v[i] = v[j]
    BY <1>2, <1>4, <1>5
  <2> QED
    BY <1>1, <1>2, <1>3, <1>4, <1>6, <2>1, KeepsIs
<1> QED
  BY <1>7, <1>8 DEF k, v

-----------------------------------------------------------------------------
(***************************************************************************)
(* Lists in Lamport order.                                                 *)
(***************************************************************************)
\* The list shows all its nodes, each before those with a later message.
AllInOrder(l) ==
    LET walk == Walk(l)
    IN  /\ Len(walk) = Len(l.node)
        /\ \A k \in 1..(Len(walk) - 1) : Precedes(l.node[walk[k]], l.node[walk[k + 1]])

\* Of two messages with different keys one precedes the other.
LEMMA Comparable ==
    ASSUME NEW m, NEW n, m.lamport \in Nat, m.replica \in Nat, n.lamport \in Nat, n.replica \in Nat,
           ~Precedes(m, n), ~SameKey(m, n)
    PROVE  Precedes(n, m)
  BY DEF Precedes, SameKey

\* What a node says is what counts for its order.
LEMMA PrecedesSays ==
    ASSUME NEW a, NEW b, NEW c, NEW d, Says(a) = Says(c), Says(b) = Says(d)
    PROVE  Precedes(a, b) = Precedes(c, d)
<1>1. a.lamport = c.lamport /\ a.replica = c.replica /\ b.lamport = d.lamport /\ b.replica = d.replica
  BY DEF Says
<1> QED
  BY <1>1 DEF Precedes

\* A message later than all others goes to the end of a list that is in order.
LEMMA AppendedInOrder ==
    ASSUME NEW l, ListOK(l), ListKept(l), NEW m, IsMessage(m), AllInOrder(l),
           l.head # Nil => Walk(l)[Len(Walk(l))] = l.tail,
           \A n \in Nodes(l) : Precedes(l.node[n], m)
    PROVE  AllInOrder(Appended(l, m))
<1> DEFINE v == Walk(l)
           N == Len(l.node)
           k == Appended(l, m)
<1>1. l \in ListType /\ N \in Nat /\ Nodes(l) = 1..N /\ Nil = 0
  BY NodesShape DEF ListOK, Nil
<1>2. PICK t : TailAt(l, v, t)
  BY DEF ListKept
<1>3. Shows(l, v)
  BY DEF ListKept
<1>4. /\ Len(v) \in Nat
      /\ v \in [1..Len(v) -> Nodes(l)]
      /\ \A i, j \in 1..Len(v) : v[i] = v[j] => i = j
      /\ l.head = IF Len(v) = 0 THEN Nil ELSE v[1]
  BY <1>1, <1>3, ShowsParts
<1>5. /\ Len(v) = N
      /\ \A j \in 1..(Len(v) - 1) : Precedes(l.node[v[j]], l.node[v[j + 1]])
      /\ l.head # Nil => v[Len(v)] = l.tail
  BY DEF AllInOrder
<1> HIDE DEF v
<1>6. t = N
  <2>1. CASE l.head = Nil
    BY <1>2, <1>5, <2>1 DEF TailAt
  <2>2. CASE l.head # Nil
    <3>1. t \in 1..Len(v) /\ v[t] = v[Len(v)] /\ Len(v) \in 1..Len(v)
      BY <1>2, <1>4, <1>5, <2>2 DEF TailAt
    <3> QED
      BY <1>4, <1>5, <3>1
  <2> QED
    BY <2>1, <2>2
<1>7. PICK w : w = Cut(v, t, N + 1)
  OBVIOUS
<1>8. Shows(k, w) /\ Len(w) = N + 1
  BY <1>2, <1>3, <1>6, <1>7, AppendedShows
<1>9. Extends(k, l, m)
  BY AppendedExtends
<1>10. k \in ListType /\ Len(k.node) = N + 1
       /\ (\A n \in Nodes(l) : Says(k.node[n]) = Says(l.node[n]))
       /\ Says(k.node[N + 1]) = Says(m)
  BY <1>9 DEF Extends, ListOK
<1> HIDE DEF k, N
<1>11. Walk(k) = w
  BY <1>8, <1>10, WalkIs
<1>12. \A j \in 1..(N + 1) : w[j] = IF j <= N THEN v[j] ELSE N + 1
  BY <1>6, <1>7 DEF Cut
<1>13. ASSUME NEW j \in 1..N PROVE Precedes(k.node[w[j]], k.node[w[j + 1]])
  <2>1. w[j] = v[j] /\ v[j] \in Nodes(l)
    BY <1>1, <1>4, <1>5, <1>12
  <2>2. Says(k.node[w[j]]) = Says(l.node[v[j]])
    BY <1>10, <2>1
  <2>3. CASE j = N
    <3>1. w[j + 1] = N + 1
      BY <1>1, <1>12, <2>3
    <3>2. Precedes(l.node[v[j]], m)
      BY <2>1
    <3> QED
      BY <1>10, <2>2, <3>1, <3>2, PrecedesSays
  <2>4. CASE j # N
    <3>1. j + 1 \in 1..N /\ j + 1 \in 1..(N + 1) /\ j \in 1..(Len(v) - 1)
      BY <1>1, <1>5, <2>4
    <3>2. w[j + 1] = v[j + 1] /\ v[j + 1] \in Nodes(l)
      BY <1>1, <1>4, <1>5, <1>12, <3>1
    <3>3. Says(k.node[w[j + 1]]) = Says(l.node[v[j + 1]])
      BY <1>10, <3>2
    <3>4. Precedes(l.node[v[j]], l.node[v[j + 1]])
      BY <1>5, <3>1
    <3> QED
      BY <2>2, <3>3, <3>4, PrecedesSays
  <2> QED
    BY <2>3, <2>4
<1>14. (N + 1) - 1 = N
  BY <1>1
<1>15. AllInOrder(k)
  BY <1>8, <1>10, <1>11, <1>13, <1>14 DEF AllInOrder
<1> QED
  BY <1>15 DEF k

\* And any other message that is not in the list yet finds its place there.
LEMMA InsertedInOrder ==
    ASSUME NEW l, ListOK(l), ListKept(l), NEW m, IsMessage(m), AllInOrder(l),
           l.head # Nil => Walk(l)[Len(Walk(l))] = l.tail,
           Match(l, m) = {}
    PROVE  AllInOrder(Inserted(l, m))
<1> DEFINE v == Walk(l)
           N == Len(l.node)
           k == Inserted(l, m)
<1>1. l \in ListType /\ N \in Nat /\ Nodes(l) = 1..N /\ Nil = 0
  BY NodesShape DEF ListOK, Nil
<1>2. PICK t : TailAt(l, v, t)
  BY DEF ListKept
<1>3. Shows(l, v)
  BY DEF ListKept
<1>4. /\ Len(v) \in Nat
      /\ v \in [1..Len(v) -> Nodes(l)]
      /\ \A i, j \in 1..Len(v) : v[i] = v[j] => i = j
      /\ l.head = IF Len(v) = 0 THEN Nil ELSE v[1]
  BY <1>1, <1>3, ShowsParts
<1>5. /\ Len(v) = N
      /\ \A j \in 1..(Len(v) - 1) : Precedes(l.node[v[j]], l.node[v[j + 1]])
      /\ l.head # Nil => v[Len(v)] = l.tail
  BY DEF AllInOrder
<1> HIDE DEF v
<1>6. PICK p : PlacedAt(l, m, v, p)
  BY <1>2, <1>3, PlaceIs
<1>7. PICK w : w = Put(v, p, N + 1)
  OBVIOUS
<1>8. Shows(k, w) /\ Len(w) = N + 1
  BY <1>3, <1>5, <1>6, <1>7, InsertedShows
<1>9. Extends(k, l, m)
  BY InsertedExtends
<1>10. k \in ListType /\ Len(k.node) = N + 1
       /\ (\A n \in Nodes(l) : Says(k.node[n]) = Says(l.node[n]))
       /\ Says(k.node[N + 1]) = Says(m)
  BY <1>9 DEF Extends, ListOK
<1> HIDE DEF k
<1>11. Walk(k) = w
  BY <1>8, <1>10, WalkIs
<1>12. \A j \in 1..(N + 1) : w[j] = IF j <= p THEN v[j] ELSE IF j = p + 1 THEN N + 1 ELSE v[j - 1]
  BY <1>5, <1>7 DEF Put
<1>13. p \in Nat /\ p <= N
  <2>1. p \in 0..Len(v)
    BY <1>6 DEF PlacedAt
  <2> QED
    BY <1>1, <1>5, <2>1
<1>14. \A j \in 1..N : /\ v[j] \in Nodes(l)
                       /\ l.node[v[j]].lamport \in Nat /\ l.node[v[j]].replica \in Nat
  <2> SUFFICES ASSUME NEW j \in 1..N
               PROVE  /\ v[j] \in Nodes(l)
                      /\ l.node[v[j]].lamport \in Nat /\ l.node[v[j]].replica \in Nat
    OBVIOUS
  <2>1. v[j] \in Nodes(l)
    BY <1>4, <1>5
  <2>2. l.node[v[j]] \in NodeType
    BY <1>1, <2>1, NodesShape
  <2> QED
    BY <2>1, <2>2, ServerAssumption DEF NodeType
\* It goes between a message before it and one after it.
<1>15. /\ p # 0 => Precedes(l.node[v[p]], m)
       /\ p < N => Precedes(m, l.node[v[p + 1]])
  <2>1. CASE PastTail(l, m)
    <3>1. p # 0 /\ v[p] = l.tail /\ l.head # Nil /\ l.node[l.tail].lamport < m.lamport
      BY <1>6, <2>1 DEF PlacedAt, PastTail
    <3>2. p \in 1..Len(v) /\ Len(v) \in 1..Len(v) /\ v[p] = v[Len(v)]
      BY <1>4, <1>5, <1>13, <3>1
    <3>3. p = N
      BY <1>4, <1>5, <3>2
    <3>4. Precedes(l.node[v[p]], m)
      BY <3>1 DEF Precedes
    <3> QED
      BY <1>1, <3>3, <3>4
  <2>2. CASE ~PastTail(l, m)
    <3>1. /\ \A j \in 1..p : Precedes(l.node[v[j]], m)
          /\ p < N => ~Precedes(l.node[v[p + 1]], m)
          /\ p < N => ~SameKey(l.node[v[p + 1]], m)
      BY <1>5, <1>6, <2>2 DEF PlacedAt
    <3>2. p # 0 => p \in 1..p
      BY <1>13
    <3>3. ASSUME p < N PROVE Precedes(m, l.node[v[p + 1]])
      <4>1. p + 1 \in 1..N
        BY <1>1, <1>13, <3>3
      <4>2. m.lamport \in Nat /\ m.replica \in Nat
        BY ServerAssumption DEF IsMessage
      <4>3. l.node[v[p + 1]].lamport \in Nat /\ l.node[v[p + 1]].replica \in Nat
        BY <1>14, <4>1
      <4> QED
        BY <3>1, <3>3, <4>2, <4>3, Comparable
    <3> QED
      BY <3>1, <3>2, <3>3
  <2> QED
    BY <2>1, <2>2
<1> HIDE DEF N
<1>16. ASSUME NEW j \in 1..N PROVE Precedes(k.node[w[j]], k.node[w[j + 1]])
  <2>0. j \in Nat /\ j + 1 \in 1..(N + 1) /\ j \in 1..(N + 1) /\ j >= 1 /\ j <= N
    BY <1>1
  <2>1. CASE j < p
    <3>1. w[j] = v[j] /\ w[j + 1] = v[j + 1] /\ j + 1 \in 1..N /\ j \in 1..(Len(v) - 1)
      BY <1>1, <1>5, <1>12, <1>13, <2>0, <2>1
    <3>2. Says(k.node[w[j]]) = Says(l.node[v[j]]) /\ Says(k.node[w[j + 1]]) = Says(l.node[v[j + 1]])
      BY <1>10, <1>14, <3>1
    <3> QED
      BY <1>5, <3>1, <3>2, PrecedesSays
  <2>2. CASE j = p
    <3>1. w[j] = v[p] /\ w[j + 1] = N + 1
      BY <1>1, <1>12, <1>13, <2>0, <2>2
    <3>2. Says(k.node[w[j]]) = Says(l.node[v[p]])
      BY <1>10, <1>14, <2>2, <3>1
    <3> QED
      BY <1>10, <1>15, <2>0, <2>2, <3>1, <3>2, PrecedesSays
  <2>3. CASE j = p + 1
    <3>1. w[j] = N + 1 /\ w[j + 1] = v[p + 1]
      BY <1>1, <1>12, <1>13, <2>0, <2>3
    <3>2. p < N /\ Says(k.node[w[j + 1]]) = Says(l.node[v[p + 1]])
      BY <1>1, <1>10, <1>13, <1>14, <2>0, <2>3, <3>1
    <3> QED
      BY <1>10, <1>15, <3>1, <3>2, PrecedesSays
  <2>4. CASE j > p + 1
    <3>1. w[j] = v[j - 1] /\ w[j + 1] = v[j] /\ j - 1 \in 1..(Len(v) - 1) /\ j - 1 \in 1..N /\ (j - 1) + 1 = j
      BY <1>1, <1>5, <1>12, <1>13, <2>0, <2>4
    <3>2. Says(k.node[w[j]]) = Says(l.node[v[j - 1]]) /\ Says(k.node[w[j + 1]]) = Says(l.node[v[j]])
      BY <1>10, <1>14, <3>1
    <3>3. Precedes(l.node[v[j - 1]], l.node[v[j]])
      BY <1>5, <3>1
    <3> QED
      BY <3>2, <3>3, PrecedesSays
  <2> QED
    BY <1>13, <2>0, <2>1, <2>2, <2>3, <2>4
<1>17. (N + 1) - 1 = N
  BY <1>1
<1>18. AllInOrder(k)
  BY <1>8, <1>10, <1>11, <1>16, <1>17 DEF AllInOrder
<1> QED
  BY <1>18 DEF k

LEMMA CreatedInOrder ==
    ASSUME NEW m, IsMessage(m)
    PROVE  AllInOrder(Created(m))
<1>1. Walk(Created(m)) = <<1>>
  BY CreatedKept
<1>2. Len(Created(m).node) = 1 /\ Len(<<1>>) = 1
  BY CreatedExtends DEF Extends, EmptyList
<1> QED
  BY <1>1, <1>2 DEF AllInOrder

LEMMA ReplacedInOrder ==
    ASSUME NEW l, ListOK(l), ListKept(l), NEW m, IsMessage(m), AllInOrder(l)
    PROVE  AllInOrder(Replaced(l, m))
<1> DEFINE v == Walk(l)
           k == Replaced(l, m)
<1>1. Walk(k) = v /\ Len(k.node) = Len(l.node)
  BY ReplacedKept, ReplacedKeeps
<1>2. l \in ListType /\ Shows(l, v)
  BY DEF ListOK, ListKept
<1>3. \A j \in 1..Len(v) : v[j] \in Nodes(l)
  BY <1>2, ShowsParts
<1>4. \A n \in Nodes(l) : k.node[n].lamport = l.node[n].lamport /\ k.node[n].replica = l.node[n].replica
  <2> SUFFICES ASSUME NEW n \in Nodes(l)
               PROVE  k.node[n].lamport = l.node[n].lamport /\ k.node[n].replica = l.node[n].replica
    OBVIOUS
  <2>1. Says(k.node[n]) \in {[Says(l.node[n]) EXCEPT !.content = m.content], Says(l.node[n])}
    BY ReplacedKeeps
  <2> QED
    BY <2>1 DEF Says
<1>5. /\ Len(v) = Len(l.node) /\ Len(v) \in Nat
      /\ \A j \in 1..(Len(v) - 1) : Precedes(l.node[v[j]], l.node[v[j + 1]])
  BY <1>2, ShowsParts DEF AllInOrder
<1> HIDE DEF v, k
<1>6. ASSUME NEW j \in 1..(Len(v) - 1) PROVE Precedes(k.node[v[j]], k.node[v[j + 1]])
  <2>1. j \in 1..Len(v) /\ j + 1 \in 1..Len(v)
    BY <1>5
  <2>2. v[j] \in Nodes(l) /\ v[j + 1] \in Nodes(l) /\ Precedes(l.node[v[j]], l.node[v[j + 1]])
    BY <1>3, <1>5, <2>1
  <2> QED
    BY <1>4, <2>2 DEF Precedes
<1>7. AllInOrder(k)
  BY <1>1, <1>5, <1>6 DEF AllInOrder
<1> QED
  BY <1>7 DEF k


-----------------------------------------------------------------------------
(***************************************************************************)
(* What the operations of a group do to its list.                          *)
(***************************************************************************)
\* A list that stays as it is keeps what it shows.
LEMMA SameKeeps ==
    ASSUME NEW l, ListOK(l), ListKept(l)
    PROVE  Keeps(l, l)
<1>1. l \in ListType /\ Shows(l, Walk(l))
  BY DEF ListOK, ListKept
<1>2. ASSUME NEW t, NEW u, TailAt(l, Walk(l), t), TailAt(l, Walk(l), u)
      PROVE  t = u
  BY <1>1, <1>2, ShowsParts DEF TailAt
<1>3. ASSUME NEW t, NEW u, TailAt(l, Walk(l), t), TailAt(l, Walk(l), u), NEW j \in 1..t
      PROVE  \E i \in 1..u : Walk(l)[i] = Walk(l)[j]
  BY <1>2, <1>3
<1> QED
  BY <1>3 DEF Keeps

LEMMA CreatedKeeps ==
    ASSUME NEW m, IsMessage(m)
    PROVE  Keeps(Created(m), EmptyList)
<1>1. ListKept(Created(m))
  BY CreatedKept
<1>2. ASSUME NEW t, TailAt(EmptyList, Walk(EmptyList), t) PROVE t = 0
  BY <1>2 DEF TailAt, EmptyList
<1>3. 1..0 = {}
  OBVIOUS
<1> QED
  BY <1>1, <1>2, <1>3 DEF Keeps

\* The four ways in which Insertion leaves the list.
LEMMA MsgInsertedList ==
    ASSUME NEW g, GroupOK(g), NEW m \in UpdateMsgType
    PROVE  LET k == MsgInserted(g, m).list
           IN  \/ k = g.list
               \/ k = Replaced(g.list, m)
               \/ k = Inserted(g.list, m) /\ Match(g.list, m) = {}
               \/ k = Created(m) /\ g.list = EmptyList
<1>1. /\ g \in GroupType /\ ListOK(g.list) /\ IsMessage(m)
      /\ m.lamport \in Nat /\ m.groupTimestamp \in Nat
  BY DEF GroupOK, GroupType, ListOK, UpdateMsgType, IsMessage
<1>2. CASE Redundant(g, m)
  BY <1>2 DEF MsgInserted
<1>3. CASE ~Redundant(g, m) /\ Exists(g, m)
  BY <1>1, <1>3 DEF MsgInserted, GroupType
<1>4. CASE g.made /\ ~Redundant(g, m) /\ ~Exists(g, m)
  <2> DEFINE list == Inserted(g.list, m)
             base == [g EXCEPT !.list = list, !.maxLamport = UpdateGroupLamport(g, m.lamport)]
  <2>1. MsgInserted(g, m) = Filed(base, m)
    BY <1>4 DEF MsgInserted
  <2>2. list \in ListType /\ UpdateGroupLamport(g, m.lamport) \in Nat
    BY <1>1, InsertedExtends DEF Extends, ListOK, UpdateGroupLamport, GroupType
  <2> HIDE DEF list
  <2>3. base \in GroupType /\ base.list = list
    BY <1>1, <2>2 DEF GroupType
  <2> HIDE DEF base
  <2>4. Filed(base, m).list = base.list
    BY <2>3 DEF Filed, GroupType
  <2> QED
    BY <1>4, <2>1, <2>3, <2>4 DEF list, Exists
<1>5. CASE ~g.made
  BY <1>5, NoGroupOK DEF GroupOK, MsgInserted, Redundant, Exists, Filed, CreateGroup
<1> QED
  BY <1>2, <1>3, <1>4, <1>5 DEF Redundant, Exists

\* Posting and Insertion keep a list well.
LEMMA MsgInsertedKeeps ==
    ASSUME NEW g, GroupOK(g), ListKept(g.list), NEW m \in UpdateMsgType
    PROVE  Keeps(MsgInserted(g, m).list, g.list)
<1>1. ListOK(g.list) /\ IsMessage(m)
  BY DEF GroupOK, GroupType, ListOK, UpdateMsgType, IsMessage
<1> QED
  BY <1>1, MsgInsertedList, SameKeeps, ReplacedKept, InsertedKeeps, CreatedKeeps

\* Of a list in order both leave a list in order, if the message that is
\* posted is later than all others.
LEMMA MsgInsertedInOrder ==
    ASSUME NEW g, GroupOK(g), ListKept(g.list), NEW m \in UpdateMsgType,
           AllInOrder(g.list),
           g.list.head # Nil => Walk(g.list)[Len(Walk(g.list))] = g.list.tail
    PROVE  AllInOrder(MsgInserted(g, m).list)
<1>1. ListOK(g.list) /\ IsMessage(m)
  BY DEF GroupOK, GroupType, ListOK, UpdateMsgType, IsMessage
<1> QED
  BY <1>1, MsgInsertedList, ReplacedInOrder, InsertedInOrder, CreatedInOrder

LEMMA PostedList ==
    ASSUME NEW g, GroupOK(g), NEW s \in Server, NEW content \in Nat
    PROVE  /\ Posted(g, s, content).list = Appended(g.list, NewMessage(g, s, content))
           /\ IsMessage(NewMessage(g, s, content))
<1>1. g \in GroupType
  BY DEF GroupOK
<1>2. IsMessage(NewMessage(g, s, content))
  BY <1>1, NewMessageIs
<1> QED
  BY <1>1, <1>2 DEF Posted, GroupType

-----------------------------------------------------------------------------
(***************************************************************************)
(* A server's own messages: all of them are before Tail, or are Tail.      *)
(***************************************************************************)
OwnKept(g, s) ==
    \A i \in 1..g.msgTimestamp[s] : \A t : TailAt(g.list, Walk(g.list), t) =>
        \E k \in 1..t : Walk(g.list)[k] = g.messageLamport[s][i]

\* A group of server s whose list is kept well and shows its own messages.
GroupKept(g, s) == ListKept(g.list) /\ OwnKept(g, s)

LEMMA NoGroupKept ==
    ASSUME NEW s \in Server
    PROVE  GroupKept(NoGroup, s)
<1>1. NoGroup.list = EmptyList /\ NoGroup.msgTimestamp[s] = 0
  BY DEF NoGroup, CreateGroup
<1>2. 1..0 = {}
  OBVIOUS
<1> QED
  BY <1>1, <1>2, EmptyKept DEF GroupKept, OwnKept

\* An operation that posts nothing at s.
LEMMA OwnStays ==
    ASSUME NEW g, NEW k, NEW s \in Server, GroupKept(g, s),
           Keeps(k.list, g.list), Settled(k, g),
           k.msgTimestamp[s] = g.msgTimestamp[s]
    PROVE  GroupKept(k, s)
<1>1. ListKept(k.list)
  BY DEF Keeps
<1>2. PICK t : TailAt(g.list, Walk(g.list), t)
  BY DEF GroupKept, ListKept
<1>3. ASSUME NEW i \in 1..k.msgTimestamp[s], NEW u, TailAt(k.list, Walk(k.list), u)
      PROVE  \E j \in 1..u : Walk(k.list)[j] = k.messageLamport[s][i]
  <2>1. i \in 1..g.msgTimestamp[s]
    OBVIOUS
  <2>2. PICK h \in 1..t : Walk(g.list)[h] = g.messageLamport[s][i]
    BY <1>2, <2>1 DEF GroupKept, OwnKept
  <2>3. PICK j \in 1..u : Walk(k.list)[j] = Walk(g.list)[h]
    BY <1>2, <1>3 DEF Keeps
  <2>4. k.messageLamport[s][i] = g.messageLamport[s][i]
    BY <2>1 DEF Settled
  <2> QED
    BY <2>2, <2>3, <2>4
<1> QED
  BY <1>1, <1>3 DEF GroupKept, OwnKept

\* The message that s posts becomes Tail.
LEMMA PostedKept ==
    ASSUME NEW g, GroupOK(g), g.made, NEW s \in Server, NEW content \in Nat,
           g.msgTimestamp[s] < MaxMsgs, GroupKept(g, s)
    PROVE  GroupKept(Posted(g, s, content), s)
<1> DEFINE k == Posted(g, s, content)
           m == NewMessage(g, s, content)
           N == Len(g.list.node)
           n == g.msgTimestamp[s]
<1>1. /\ g \in GroupType /\ ListOK(g.list) /\ ListKept(g.list) /\ n \in Nat
      /\ g.messageLamport \in [Server -> [Index -> Nat]]
      /\ MaxMsgs \in Nat
  BY MaxMsgsAssumption DEF GroupOK, GroupType, ListOK, GroupKept
<1>2. k.list = Appended(g.list, m) /\ IsMessage(m)
  BY PostedList
<1>3. /\ Keeps(k.list, g.list)
      /\ \E u : TailAt(k.list, Walk(k.list), u) /\ u # 0
  BY <1>1, <1>2, AppendedKeeps
<1>4. Settled(k, g) /\ k.msgTimestamp = [g.msgTimestamp EXCEPT ![s] = @ + 1]
  BY PostedSettles, PostedGroup
<1>5. k.msgTimestamp[s] = n + 1
  BY <1>1, <1>4 DEF GroupType
<1>6. k.messageLamport[s][n + 1] = N + 1
  <2>1. k.messageLamport = [g.messageLamport EXCEPT ![s][n + 1] = N + 1]
    BY <1>1 DEF Posted, GroupType
  <2>2. n + 1 \in Index
    BY <1>1 DEF Index
  <2> QED
    BY <1>1, <2>1, <2>2
<1>7. k.list.tail = N + 1 /\ k.list.head # Nil
  BY <1>1, <1>2, NodesShape DEF Appended, ListOK, Nil
<1> HIDE DEF k, n, N
<1>8. PICK t : TailAt(g.list, Walk(g.list), t)
  BY <1>1 DEF ListKept
<1>9. ASSUME NEW i \in 1..(n + 1), NEW u, TailAt(k.list, Walk(k.list), u)
      PROVE  \E j \in 1..u : Walk(k.list)[j] = k.messageLamport[s][i]
  <2>1. CASE i = n + 1
    <3>1. u \in 1..Len(Walk(k.list)) /\ Walk(k.list)[u] = N + 1
      BY <1>7, <1>9 DEF TailAt
    <3>2. u \in 1..u
      BY <3>1
    <3> QED
      BY <1>6, <2>1, <3>1, <3>2
  <2>2. CASE i # n + 1
    <3>1. i \in 1..n
      BY <1>1, <2>2
    <3>2. PICK h \in 1..t : Walk(g.list)[h] = g.messageLamport[s][i]
      BY <1>8, <3>1 DEF GroupKept, OwnKept, n
    <3>3. PICK j \in 1..u : Walk(k.list)[j] = Walk(g.list)[h]
      BY <1>3, <1>8, <1>9 DEF Keeps
    <3>4. k.messageLamport[s][i] = g.messageLamport[s][i]
      BY <1>4, <3>1 DEF Settled, n
    <3> QED
      BY <3>2, <3>3, <3>4
  <2> QED
    BY <2>1, <2>2
<1>10. ListKept(k.list)
  BY <1>3 DEF Keeps
<1>11. GroupKept(k, s)
  BY <1>5, <1>9, <1>10 DEF GroupKept, OwnKept
<1> QED
  BY <1>11 DEF k


-----------------------------------------------------------------------------
(***************************************************************************)
(* What a counter that moves has counted.                                  *)
(***************************************************************************)
LEMMA FiledFiles ==
    ASSUME NEW g \in GroupType, NEW m \in UpdateMsgType, m.index \in Index,
           Says(g.list.node[Len(g.list.node)]) = Says(m)
    PROVE  LET k == Filed(g, m)
           IN  /\ SameKey(k.list.node[k.messageLamport[m.from][m.index]], m)
               /\ k.msgTimestamp[m.from] # g.msgTimestamp[m.from] =>
                     m.index = g.msgTimestamp[m.from] + 1
<1> DEFINE k == Filed(g, m)
           N == Len(g.list.node)
<1>1. /\ g.messageLamport \in [Server -> [Index -> Nat]] /\ m.from \in Server
      /\ g.msgTimestamp \in [Server -> Nat]
  BY DEF GroupType, UpdateMsgType
<1>2. /\ k.messageLamport = [g.messageLamport EXCEPT ![m.from][m.index] = N]
      /\ k.list = g.list
      /\ k.msgTimestamp = [g.msgTimestamp EXCEPT ![m.from] =
                              IF m.index = @ + 1 THEN @ + 1 ELSE @]
  BY DEF Filed, GroupType
<1> HIDE DEF k
<1>3. k.messageLamport[m.from][m.index] = N
  BY <1>1, <1>2
<1>4. SameKey(k.list.node[N], m)
  BY <1>2 DEF Says, SameKey
<1>5. k.msgTimestamp[m.from] # g.msgTimestamp[m.from] => m.index = g.msgTimestamp[m.from] + 1
  BY <1>1, <1>2
<1> QED
  BY <1>3, <1>4, <1>5 DEF k

\* A counter that a request moves goes up by one, to the index of the request,
\* and under it the message of the request is filed.
LEMMA MsgInsertedFiles ==
    ASSUME NEW g, GroupOK(g), NEW m \in UpdateMsgType, m.index <= MaxMsgs,
           MsgInserted(g, m).msgTimestamp[m.from] # g.msgTimestamp[m.from]
    PROVE  LET k == MsgInserted(g, m)
           IN  /\ m.index = g.msgTimestamp[m.from] + 1
               /\ SameKey(k.list.node[k.messageLamport[m.from][m.index]], m)
<1>1. /\ g \in GroupType /\ LogHeld(g) /\ ListOK(g.list) /\ g.maxLamport \in Nat
      /\ IsMessage(m) /\ m.from \in Server
      /\ m.lamport \in Nat /\ m.groupTimestamp \in Nat
      /\ g.msgTimestamp[m.from] \in Nat
  BY DEF GroupOK, GroupType, ListOK, UpdateMsgType, IsMessage
<1>2. m.index \in Index
  <2>1. g.msgTimestamp[m.from] < m.index
    BY <1>1, MsgInsertedGroup DEF Counts
  <2>2. m.index \in Nat /\ MaxMsgs \in Nat
    BY MaxMsgsAssumption DEF UpdateMsgType
  <2> QED
    BY <1>1, <2>1, <2>2 DEF Index
<1>3. CASE Redundant(g, m)
  BY <1>3 DEF MsgInserted
<1>4. CASE ~Redundant(g, m) /\ Exists(g, m)
  BY <1>1, <1>4 DEF MsgInserted, GroupType
<1>5. CASE g.made /\ ~Redundant(g, m) /\ ~Exists(g, m)
  <2> DEFINE list == Inserted(g.list, m)
             base == [g EXCEPT !.list = list, !.maxLamport = UpdateGroupLamport(g, m.lamport)]
  <2>1. MsgInserted(g, m) = Filed(base, m)
    BY <1>5 DEF MsgInserted
  <2>2. list \in ListType /\ UpdateGroupLamport(g, m.lamport) \in Nat
        /\ Extends(list, g.list, m)
    BY <1>1, InsertedExtends DEF Extends, ListOK, UpdateGroupLamport, GroupType
  <2> HIDE DEF list
  <2>3. base \in GroupType /\ base.list = list /\ base.msgTimestamp = g.msgTimestamp
    BY <1>1, <2>2 DEF GroupType
  <2> HIDE DEF base
  <2>4. Says(base.list.node[Len(base.list.node)]) = Says(m)
    BY <2>2, <2>3 DEF Extends
  <2> QED
    BY <1>2, <2>1, <2>3, <2>4, FiledFiles
<1>6. CASE ~g.made
  <2> DEFINE list == Created(m)
             base == [CreateGroup(m.groupTimestamp) EXCEPT !.list = list]
  <2>1. g = NoGroup
    BY <1>6 DEF GroupOK
  <2>2. Extends(list, g.list, m) /\ ListOK(list)
    BY <1>1, <2>1, CreatedExtends, NoGroupOK DEF Extends
  <2>3. MsgInserted(g, m) = Filed(base, m)
    BY <1>6 DEF MsgInserted, Redundant, Exists
  <2> HIDE DEF list
  <2>4. /\ base \in GroupType
        /\ base.list = list
        /\ base.msgTimestamp = g.msgTimestamp
    BY <1>1, <2>1, <2>2, CreateGroupOK, NoGroupOK DEF GroupOK, GroupType, ListOK
  <2> HIDE DEF base
  <2>5. Says(base.list.node[Len(base.list.node)]) = Says(m)
    BY <2>2, <2>4 DEF Extends
  <2> QED
    BY <1>2, <2>3, <2>4, <2>5, FiledFiles
<1> QED
  BY <1>3, <1>4, <1>5, <1>6 DEF Redundant, Exists

\* A posted message is filed under its server's new counter.
LEMMA PostedFiles ==
    ASSUME NEW g, GroupOK(g), g.made, NEW s \in Server, NEW content \in Nat,
           g.msgTimestamp[s] < MaxMsgs
    PROVE  LET k == Posted(g, s, content)
           IN  /\ k.msgTimestamp[s] = g.msgTimestamp[s] + 1
               /\ SameKey(k.list.node[k.messageLamport[s][k.msgTimestamp[s]]],
                          NewMessage(g, s, content))
<1> DEFINE k == Posted(g, s, content)
           N == Len(g.list.node)
           n == g.msgTimestamp[s]
<1>1. /\ g \in GroupType /\ n \in Nat /\ MaxMsgs \in Nat
      /\ g.messageLamport \in [Server -> [Index -> Nat]]
      /\ g.msgTimestamp \in [Server -> Nat]
  BY MaxMsgsAssumption DEF GroupOK, GroupType
<1>2. /\ k.msgTimestamp = [g.msgTimestamp EXCEPT ![s] = @ + 1]
      /\ Extends(k.list, g.list, NewMessage(g, s, content))
  BY PostedGroup
<1>3. k.messageLamport = [g.messageLamport EXCEPT ![s][n + 1] = N + 1]
  BY <1>1 DEF Posted, GroupType
<1>4. k.msgTimestamp[s] = n + 1 /\ n + 1 \in Index
  BY <1>1, <1>2 DEF Index
<1>5. k.messageLamport[s][n + 1] = N + 1
  BY <1>1, <1>3, <1>4
<1>6. SameKey(k.list.node[N + 1], NewMessage(g, s, content))
  BY <1>2 DEF Extends, Says, SameKey
<1> QED
  BY <1>4, <1>5, <1>6
=============================================================================
