------------------------------- MODULE Group -------------------------------
(***************************************************************************)
(* What one chat server keeps about one group (type Group and, per origin  *)
(* server, type Information in chat/data.go), and what the operations      *)
(* AppendMessage, Join, Insertion and CheckForMerge make of it.  Each of   *)
(* them runs under the server's mutex, so each is one operator from the    *)
(* group before to the group after.                                        *)
(*                                                                         *)
(* A group that is not in GroupMap is a record with made = FALSE.  A       *)
(* MessageLamport map is a total function with Nil for a missing key,      *)
(* which is what reading a missing key of the Go map returns.              *)
(***************************************************************************)
EXTENDS MessageList

CONSTANTS Server,       \* the numbers of the replicas, 1..5 in the code
          MaxMsgs       \* bound: how many messages are ever posted

ASSUME ServerAssumption == Server \subseteq Nat
ASSUME MaxMsgsAssumption == MaxMsgs \in Nat

Index == 1..MaxMsgs     \* keys of MessageLamport

\* Mutant of CreateGroup: the loop over the replicas stops one short.
CreateGroupShort(timestamp) ==
    LET others == {o \in Server : \E p \in Server : o < p}
    IN  [made           |-> TRUE,
         maxLamport     |-> timestamp,
         list           |-> EmptyList,
         msgTimestamp   |-> [o \in others |-> 0],
         messageLamport |-> [o \in others |-> [i \in Index |-> Nil]],
         nameTimestamp  |-> [o \in others |-> 0]]

CreateGroup(timestamp) ==
    [made           |-> TRUE,
     maxLamport     |-> timestamp,
     list           |-> EmptyList,
     msgTimestamp   |-> [o \in Server |-> 0],
     messageLamport |-> [o \in Server |-> [i \in Index |-> Nil]],
     nameTimestamp  |-> [o \in Server |-> 0]]

NoGroup == [CreateGroup(0) EXCEPT !.made = FALSE]

\* Join at server s, of a user name that is new there (AddUsername).
Joined(g, s) ==
    [(IF g.made THEN g ELSE CreateGroup(0)) EXCEPT !.nameTimestamp[s] = @ + 1]

\* The message AppendMessage builds at server s.
NewMessage(g, s, content) ==
    [lamport |-> g.maxLamport + 1, replica |-> s, content |-> content]

\* Mutant of Posted: the new Lamport number is not stored as the group's.
PostedClockKept(g, s, content) ==
    [g EXCEPT !.list = Appended(@, NewMessage(g, s, content)),
              !.msgTimestamp[s] = @ + 1,
              !.messageLamport[s][g.msgTimestamp[s] + 1] = Len(g.list.node) + 1]

Posted(g, s, content) ==
    [g EXCEPT !.maxLamport = @ + 1,
              !.list = Appended(@, NewMessage(g, s, content)),
              !.msgTimestamp[s] = @ + 1,
              !.messageLamport[s][g.msgTimestamp[s] + 1] = Len(g.list.node) + 1]

\* Mutant of Filed: the counter takes over the index of the message.
FiledAhead(g, m) ==
    [g EXCEPT !.messageLamport[m.from][m.index] = Len(g.list.node),
              !.msgTimestamp[m.from] = m.index]

\* The newest node is filed under the index the message came with; the
\* counter of its origin moves only when that index is the next one.
Filed(g, m) ==
    [g EXCEPT !.messageLamport[m.from][m.index] = Len(g.list.node),
              !.msgTimestamp[m.from] = IF m.index = @ + 1 THEN @ + 1 ELSE @]

-----------------------------------------------------------------------------
(***************************************************************************)
(* Insertion with flag 0: a message from another replica.                  *)
(***************************************************************************)
\* Mutant of Redundant: a message with the last counted index comes in again.
RedundantLate(g, m) == g.made /\ g.msgTimestamp[m.from] > m.index

Redundant(g, m) == g.made /\ g.msgTimestamp[m.from] >= m.index

Exists(g, m) == g.made /\ Match(g.list, m) # {}

\* Mutant of UpdateGroupLamport: messages of others do not move the clock.
ClockKept(g, lamport) == g.maxLamport

UpdateGroupLamport(g, lamport) ==
    IF lamport > g.maxLamport THEN lamport ELSE g.maxLamport

MsgInserted(g, m) ==
    IF Redundant(g, m) THEN g
    ELSE IF Exists(g, m) THEN [g EXCEPT !.list = Replaced(@, m)]
    ELSE IF g.made
    THEN Filed([g EXCEPT !.list = Inserted(@, m),
                         !.maxLamport = UpdateGroupLamport(g, m.lamport)], m)
    ELSE Filed([CreateGroup(m.groupTimestamp) EXCEPT !.list = Created(m)], m)

InsertionPanics(g, m) ==
    g.made /\ ~Redundant(g, m) /\ ~Exists(g, m) /\ ScreenLost(g.list)

(***************************************************************************)
(* Insertion with flag 2: the user list of another replica.                *)
(***************************************************************************)
NamesInserted(g, m) ==
    LET base == IF g.made THEN g ELSE CreateGroup(m.groupTimestamp)
    IN  IF ~g.made \/ m.timestamp > g.nameTimestamp[m.from]
        THEN [base EXCEPT !.nameTimestamp[m.from] = m.timestamp]
        ELSE g

-----------------------------------------------------------------------------
(***************************************************************************)
(* The requests replicas send each other about the group.                  *)
(***************************************************************************)
UpdateMsg(origin, index, m, groupTimestamp) ==
    [kind |-> "UpdateMsg", from |-> origin, index |-> index,
     lamport |-> m.lamport, replica |-> m.replica, content |-> m.content,
     groupTimestamp |-> groupTimestamp]

SendGroupInfo(origin, g) ==
    [kind |-> "SendGroupInfo", from |-> origin,
     timestamp |-> g.nameTimestamp[origin], groupTimestamp |-> g.maxLamport]

\* Mutant of CheckForMerge: a server tells only what it got of itself.
CheckOwn(s, g) ==
    [kind |-> "CheckForMerge", replica |-> s, msgs |-> g.msgTimestamp,
     names |-> g.nameTimestamp, todo |-> {s}]

\* SendMySaving sends one CheckForMerge for each origin; here they travel as
\* one request whose origins are handled one at a time ("todo").
CheckForMerge(s, g) ==
    [kind |-> "CheckForMerge", replica |-> s, msgs |-> g.msgTimestamp,
     names |-> g.nameTimestamp, todo |-> Server]

NodeFiled(g, origin, i) == g.list.node[g.messageLamport[origin][i]]

\* Mutant of Resent: MapIndex is the counter before it is incremented.
ResentShifted(g, origin, i) == UpdateMsg(origin, i - 1, NodeFiled(g, origin, i), 0)

Resent(g, origin, i) == UpdateMsg(origin, i, NodeFiled(g, origin, i), 0)

\* What CheckForMerge sends back about one origin: the user list, if newer,
\* and all messages after the requester's counter, in order.
Missing(g, m, origin) ==
    LET known == m.msgs[origin]
        here == g.msgTimestamp[origin]
        count == IF here > known THEN here - known ELSE 0
    IN  (IF m.names[origin] < g.nameTimestamp[origin]
         THEN <<SendGroupInfo(origin, g)>> ELSE <<>>)
        \o [k \in 1..count |-> Resent(g, origin, known + k)]

-----------------------------------------------------------------------------
(***************************************************************************)
(* The shapes of these values.                                             *)
(***************************************************************************)
NodeType == [lamport : Nat, replica : Server, content : Nat, id : Nat, next : Nat]

ListType == [node : Seq(NodeType), head : Nat, tail : Nat, tenStart : Nat, count : Nat]

GroupType == [made           : BOOLEAN,
              maxLamport     : Nat,
              list           : ListType,
              msgTimestamp   : [Server -> Nat],
              messageLamport : [Server -> [Index -> Nat]],
              nameTimestamp  : [Server -> Nat]]

UpdateMsgType == [kind : {"UpdateMsg"}, from : Server, index : Nat, lamport : Nat,
                  replica : Server, content : Nat, groupTimestamp : Nat]

SendGroupInfoType == [kind : {"SendGroupInfo"}, from : Server, timestamp : Nat,
                      groupTimestamp : Nat]

CheckForMergeType == [kind : {"CheckForMerge"}, replica : Server,
                      msgs : [Server -> Nat], names : [Server -> Nat],
                      todo : SUBSET Server]

RequestType == UpdateMsgType \cup SendGroupInfoType \cup CheckForMergeType

ListOK(l) == l \in ListType /\ PointersHold(l)

\* Every index up to the counter of its origin is a key, and is filed.
LogHeld(g) == \A o \in Server : \A i \in 1..g.msgTimestamp[o] :
                 i \in Index /\ g.messageLamport[o][i] \in Nodes(g.list)

\* A server that does not have the group keeps nothing of it.
GroupOK(g) == /\ g \in GroupType
              /\ PointersHold(g.list)
              /\ LogHeld(g)
              /\ g.made \/ g = NoGroup
=============================================================================
