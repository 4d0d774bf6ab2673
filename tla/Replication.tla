---------------------------- MODULE Replication ----------------------------
(***************************************************************************)
(* The replicated group chat: the servers of chat/chatserver.go and        *)
(* chat/replica.go that keep one group, the clients that join it and post  *)
(* to it, and the gRPC streams between the servers.                        *)
(*                                                                         *)
(* A server has one stream to every other server (StreamSet).  The other   *)
(* end handles the requests of a stream in order, one at a time.  The      *)
(* handler of a client's request holds the mutex only inside the           *)
(* operations it calls: between AppendMessage and ReplicaBroadcast other   *)
(* handlers run, and "pc" says how far the client's handler has come.      *)
(***************************************************************************)
EXTENDS Group

CONSTANTS Client,       \* the clients
          Home,         \* the server each client is connected to
          MaxInFlight,  \* bound: Entropy waits while a stream holds this many
          MaxBreaks     \* bound: how many times a stream breaks

ASSUME HomeAssumption == Home \in [Client -> Server]

VARIABLES
    up,        \* the servers that have not panicked
    group,     \* per server, the group as it keeps it
    link,      \* StreamSet[t].Stream at s: see Link
    net,       \* requests sent by s and not yet handled by t, in order
    pc,        \* per client, how far the handler of its last request is
    out,       \* per client, the request its handler will broadcast
    posted,    \* number of messages posted so far: the next one's Content
    breaks     \* number of broken streams so far

vars == <<up, group, link, net, pc, out, posted, breaks>>

(***************************************************************************)
(* The stream from s to t is not yet set up, works, is cut off (what is    *)
(* sent is lost), or is broken while t can be reached again, in which case *)
(* the next Send fails and SendingBetweenReplica opens a new stream.       *)
(***************************************************************************)
Link == {"none", "ok", "down", "broken"}

NoRequest == [kind |-> "none"]

Init ==
    /\ up = Server
    /\ group = [s \in Server |-> NoGroup]
    /\ link = [s \in Server |-> [t \in Server |-> "none"]]
    /\ net = [s \in Server |-> [t \in Server |-> <<>>]]
    /\ pc = [c \in Client |-> "out"]
    /\ out = [c \in Client |-> NoRequest]
    /\ posted = 0
    /\ breaks = 0

-----------------------------------------------------------------------------
(***************************************************************************)
(* SendingBetweenReplica: server s sends the requests reqs[t] to each t,   *)
(* on the streams as they are in "queued".                                 *)
(***************************************************************************)
Send(s, reqs, queued) ==
    /\ net' = [queued EXCEPT ![s] = [t \in Server |->
                  IF link[s][t] \in {"ok", "broken"} THEN queued[s][t] \o reqs[t]
                                                     ELSE queued[s][t]]]
    /\ link' = [link EXCEPT ![s] = [t \in Server |->
                  IF link[s][t] = "broken" /\ reqs[t] # <<>> THEN "ok"
                                                             ELSE link[s][t]]]

ReplicaBroadcast(s, req) == Send(s, [t \in Server |-> <<req>>], net)

\* A panic ends the process: its streams, both ways, and what is on them.
Panic(s) ==
    /\ up' = up \ {s}
    /\ net' = [t \in Server |-> [u \in Server |->
                  IF s \in {t, u} THEN <<>> ELSE net[t][u]]]
    /\ link' = [t \in Server |-> [u \in Server |->
                  IF s \in {t, u} /\ link[t][u] # "none" THEN "down" ELSE link[t][u]]]
    /\ UNCHANGED <<group, pc, out, posted, breaks>>

-----------------------------------------------------------------------------
(***************************************************************************)
(* Start-up, and the network under the streams.                            *)
(***************************************************************************)
ReplicaSetUp(s, t) ==
    /\ s # t
    /\ {s, t} \subseteq up
    /\ link[s][t] = "none"
    /\ link' = [link EXCEPT ![s][t] = "ok"]
    /\ UNCHANGED <<up, group, net, pc, out, posted, breaks>>

Break(s, t) ==
    /\ breaks < MaxBreaks
    /\ link[s][t] = "ok"
    /\ link' = [link EXCEPT ![s][t] = "down"]
    /\ net' = [net EXCEPT ![s][t] = <<>>]
    /\ breaks' = breaks + 1
    /\ UNCHANGED <<up, group, pc, out, posted>>

Heal(s, t) ==
    /\ {s, t} \subseteq up
    /\ link[s][t] = "down"
    /\ link' = [link EXCEPT ![s][t] = "broken"]
    /\ UNCHANGED <<up, group, net, pc, out, posted, breaks>>

-----------------------------------------------------------------------------
(***************************************************************************)
(* The handler of a client's requests.                                     *)
(***************************************************************************)
Join(c) ==
    LET s == Home[c]
    IN  /\ s \in up
        /\ pc[c] = "out"
        /\ group' = [group EXCEPT ![s] = Joined(@, s)]
        /\ pc' = [pc EXCEPT ![c] = "joined"]
        /\ UNCHANGED <<up, link, net, out, posted, breaks>>

AppendMessage(c) ==
    LET s == Home[c]
    IN  /\ s \in up
        /\ pc[c] = "ready"
        /\ posted < MaxMsgs
        /\ \/ /\ ScreenLost(group[s].list)
              /\ Panic(s)
           \/ /\ ~ScreenLost(group[s].list)
              /\ group' = [group EXCEPT ![s] = Posted(@, s, posted + 1)]
              /\ out' = [out EXCEPT ![c] =
                    UpdateMsg(s, 0, NewMessage(group[s], s, posted + 1), 0)]
              /\ pc' = [pc EXCEPT ![c] = "posted"]
              /\ posted' = posted + 1
              /\ UNCHANGED <<up, link, net, breaks>>

\* Mutant of BuildUpdateMsg: MapIndex is one too high.
BuildUpdateMsgHigh(c) ==
    LET s == Home[c]
    IN  /\ s \in up
        /\ pc[c] = "posted"
        /\ out' = [out EXCEPT ![c].index = group[s].msgTimestamp[s] + 1,
                              ![c].groupTimestamp = group[s].maxLamport]
        /\ pc' = [pc EXCEPT ![c] = "sending"]
        /\ UNCHANGED <<up, group, link, net, posted, breaks>>

\* The request is built without the mutex: MsgTimestamp, the user list and
\* MaxLamport are those of this moment, not those the operation left.
BuildUpdateMsg(c) ==
    LET s == Home[c]
    IN  /\ s \in up
        /\ pc[c] = "posted"
        /\ out' = [out EXCEPT ![c].index = group[s].msgTimestamp[s],
                              ![c].groupTimestamp = group[s].maxLamport]
        /\ pc' = [pc EXCEPT ![c] = "sending"]
        /\ UNCHANGED <<up, group, link, net, posted, breaks>>

BuildGroupInfo(c) ==
    LET s == Home[c]
    IN  /\ s \in up
        /\ pc[c] = "joined"
        /\ out' = [out EXCEPT ![c] = SendGroupInfo(s, group[s])]
        /\ pc' = [pc EXCEPT ![c] = "sending"]
        /\ UNCHANGED <<up, group, link, net, posted, breaks>>

Broadcast(c) ==
    LET s == Home[c]
    IN  /\ s \in up
        /\ pc[c] = "sending"
        /\ ReplicaBroadcast(s, out[c])
        /\ out' = [out EXCEPT ![c] = NoRequest]
        /\ pc' = [pc EXCEPT ![c] = "ready"]
        /\ UNCHANGED <<up, group, posted, breaks>>

-----------------------------------------------------------------------------
(***************************************************************************)
(* Anti-entropy and the handler of another server's requests.              *)
(***************************************************************************)
Entropy(s) ==
    /\ s \in up
    /\ group[s].made
    /\ \A t \in Server : Len(net[s][t]) < MaxInFlight /\ Len(net[t][s]) < MaxInFlight
    /\ ReplicaBroadcast(s, CheckForMerge(s, group[s]))
    /\ UNCHANGED <<up, group, pc, out, posted, breaks>>

\* t takes the next request of the stream from s.
Takes(s, t, kind) ==
    /\ t \in up
    /\ net[s][t] # <<>>
    /\ Head(net[s][t]).kind = kind

Handled(s, t) == [net EXCEPT ![s][t] = Tail(@)]

ReceiveUpdateMsg(s, t) ==
    LET m == Head(net[s][t])
    IN  /\ Takes(s, t, "UpdateMsg")
        /\ \/ /\ InsertionPanics(group[t], m)
              /\ Panic(t)
           \/ /\ ~InsertionPanics(group[t], m)
              /\ group' = [group EXCEPT ![t] = MsgInserted(@, m)]
              /\ net' = Handled(s, t)
              /\ UNCHANGED <<up, link, pc, out, posted, breaks>>

ReceiveSendGroupInfo(s, t) ==
    /\ Takes(s, t, "SendGroupInfo")
    /\ group' = [group EXCEPT ![t] = NamesInserted(@, Head(net[s][t]))]
    /\ net' = Handled(s, t)
    /\ UNCHANGED <<up, link, pc, out, posted, breaks>>

\* The answer goes back on t's own stream to the requester, which StreamSet
\* must hold: a request from a server t is not connected to is a nil pointer.
ReceiveCheckForMerge(s, t) ==
    LET m == Head(net[s][t])
        rest(o) == IF m.todo = {o} THEN Handled(s, t)
                   ELSE [net EXCEPT ![s][t][1].todo = @ \ {o}]
    IN  /\ Takes(s, t, "CheckForMerge")
        /\ \E o \in m.todo :
              \/ /\ ~group[t].made
                 /\ net' = rest(o)
                 /\ UNCHANGED <<up, link>>
              \/ /\ group[t].made
                 /\ link[t][m.replica] # "none"
                 /\ Send(t, [u \in Server |-> IF u = m.replica
                                              THEN Missing(group[t], m, o) ELSE <<>>],
                         rest(o))
                 /\ up' = up
        /\ UNCHANGED <<group, pc, out, posted, breaks>>

CheckForMergePanics(s, t) ==
    /\ Takes(s, t, "CheckForMerge")
    /\ group[t].made
    /\ link[t][Head(net[s][t]).replica] = "none"
    /\ Panic(t)

-----------------------------------------------------------------------------
ClientStep(c) == \/ Join(c) \/ AppendMessage(c) \/ BuildUpdateMsg(c)
                 \/ BuildGroupInfo(c) \/ Broadcast(c)

Receive(s, t) == \/ ReceiveUpdateMsg(s, t) \/ ReceiveSendGroupInfo(s, t)
                 \/ ReceiveCheckForMerge(s, t) \/ CheckForMergePanics(s, t)

Next == \/ \E c \in Client : ClientStep(c)
        \/ \E s \in Server : Entropy(s)
        \/ \E s, t \in Server : \/ ReplicaSetUp(s, t) \/ Break(s, t)
                                \/ Heal(s, t) \/ Receive(s, t)

Spec == Init /\ [][Next]_vars

(***************************************************************************)
(* A handler that has begun goes on, the partition heals, set-up is        *)
(* retried for ever, and what arrived on a stream is taken.  The last is   *)
(* weak fairness of Receive(s, t) with its ENABLED spelled out: a request  *)
(* that is on a stream can be handled.  The timer of Entropy fires every   *)
(* 500 ms whatever the streams hold: only the bound MaxInFlight disables   *)
(* it now and then, hence strong fairness.                                 *)
(***************************************************************************)
HandlerFairness(c) == WF_vars(BuildUpdateMsg(c) \/ BuildGroupInfo(c) \/ Broadcast(c))

ReceiveFairness(s, t) == []<>(net[s][t] = <<>>) \/ []<><<Receive(s, t)>>_vars

LinkFairness(s, t) == WF_vars(ReplicaSetUp(s, t) \/ Heal(s, t))

Fairness ==
    /\ \A c \in Client : HandlerFairness(c)
    /\ \A s \in Server : SF_vars(Entropy(s))
    /\ \A s \in Server : \A t \in Server \ {s} :
          LinkFairness(s, t) /\ ReceiveFairness(s, t)

FairSpec == Spec /\ Fairness

-----------------------------------------------------------------------------
(***************************************************************************)
(* Properties.                                                             *)
(***************************************************************************)
Requests(s, t) == {net[s][t][k] : k \in DOMAIN net[s][t]}

\* The i-th message posted at server o, as o itself keeps it.
Own(o, i) == group[o].list.node[group[o].messageLamport[o][i]]

\* Every variable keeps its shape; every pointer of a list is nil or a node.
TypeOK ==
    /\ up \subseteq Server
    /\ group \in [Server -> GroupType]
    /\ link \in [Server -> [Server -> Link]]
    /\ net \in [Server -> [Server -> Seq(RequestType)]]
    /\ pc \in [Client -> {"out", "joined", "posted", "sending", "ready"}]
    /\ out \in [Client -> RequestType \cup {NoRequest}]
    /\ posted \in 0..MaxMsgs
    /\ breaks \in Nat
    /\ \A s \in Server : PointersHold(group[s].list)

\* CheckForMerge walks MessageLamport up to MsgTimestamp and dereferences each
\* entry: all of them are filed, whatever order the messages came in.
LogPrefix ==
    \A s, o \in Server : \A i \in 1..group[s].msgTimestamp[o] :
        group[s].messageLamport[o][i] \in Nodes(group[s].list)

\* No server counts more messages of an origin than the origin has posted: the
\* larger counter of a comparison in CheckForMerge always has the messages.
AckNotAhead ==
    \A s, o \in Server : group[s].msgTimestamp[o] <= group[o].msgTimestamp[o]

\* Lamport and Replica together tell every message from every other, on
\* whatever servers they are kept: LamportPlace takes equal pairs for the same
\* message and overwrites it.
Identity ==
    \A s, t \in Server : \A m \in Nodes(group[s].list), n \in Nodes(group[t].list) :
        SameKey(group[s].list.node[m], group[t].list.node[n]) =>
            group[s].list.node[m].content = group[t].list.node[n].content

\* A message that the server's own clients posted is shown by the list for
\* good: what insertions from other servers do to Tail never cuts it off.
OwnMessagesKept ==
    \A s \in Server : \A i \in 1..group[s].msgTimestamp[s] :
        \E k \in DOMAIN Walk(group[s].list) :
            Walk(group[s].list)[k] = group[s].messageLamport[s][i]

\* The list of every server ends: no operation links a node twice, Tail is
\* one of the nodes shown, and their MsgIds grow from top to bottom, so that
\* the number a client likes names one message.
ListWellFormed ==
    \A s \in Server :
        LET l == group[s].list
            walk == Walk(l)
        IN  /\ \A j, k \in DOMAIN walk : j < k =>
                  /\ walk[j] # walk[k]
                  /\ l.node[walk[j]].id < l.node[walk[k]].id
            /\ l.head # Nil => \E k \in DOMAIN walk : walk[k] = l.tail

\* A message is posted with a Lamport above everything its server keeps, and
\* so sorts after whatever its author may have read.
Causality ==
    [][\A s \in Server :
        group'[s].msgTimestamp[s] > group[s].msgTimestamp[s] =>
            \A n \in Nodes(group[s].list) :
                group[s].list.node[n].lamport
                    < group'[s].list.node[Len(group'[s].list.node)].lamport]_vars

\* What an index below the counter means is settled: no late, repeated or
\* relayed request changes the message filed under it.
FiledForGood ==
    [][\A s, o \in Server : \A i \in 1..group[s].msgTimestamp[o] :
        /\ group'[s].msgTimestamp[o] >= i
        /\ group'[s].messageLamport[o][i] = group[s].messageLamport[o][i]
        /\ SameKey(group'[s].list.node[group[s].messageLamport[o][i]],
                   group[s].list.node[group[s].messageLamport[o][i]])]_vars

\* The list shows every message the server was given, in Lamport order, and
\* Tail is its end.
InOrder(l) ==
    LET walk == Walk(l)
    IN  /\ Len(walk) = Len(l.node)
        /\ \A k \in 1..(Len(walk) - 1) : Precedes(l.node[walk[k]], l.node[walk[k + 1]])
        /\ l.head # Nil => walk[Len(walk)] = l.tail

\* Every operation on a list that is in order leaves all its messages in it, in
\* Lamport order; what it may leave wrong is Tail.
OrderKept ==
    [][\A s \in Server : InOrder(group[s].list) =>
        LET l == group'[s].list
            walk == Walk(l)
        IN  /\ Len(walk) = Len(l.node)
            /\ \A k \in 1..(Len(walk) - 1) :
                  Precedes(l.node[walk[k]], l.node[walk[k + 1]])]_vars

\* What a server keeps and its clock, as the abstract specification sees them.
Known(s) == Messages(group[s].list)

Gossip == INSTANCE LamportGossip WITH
              Content <- 1..MaxMsgs,
              known <- [s \in Server |-> Known(s)],
              clock <- [s \in Server |-> group[s].maxLamport]

\* Whatever streams break, servers panic and requests are repeated, each step
\* publishes one message, learns one its author has published, or neither.
ImplementsGossip == Gossip!Spec

\* An index means the same message on every server that has counted it.
LogAgreement ==
    \A s, o \in Server : \A i \in 1..group[s].msgTimestamp[o] :
        SameKey(group[s].list.node[group[s].messageLamport[o][i]], Own(o, i))

\* A counted message is one of the messages the server shows.
CountedIsShown ==
    \A s, o \in Server : \A i \in 1..group[s].msgTimestamp[o] :
        \E k \in DOMAIN Walk(group[s].list) :
            Walk(group[s].list)[k] = group[s].messageLamport[o][i]

\* All servers have counted all the messages of every origin.
Converged ==
    \A s, o \in Server : group[s].msgTimestamp[o] = group[o].msgTimestamp[o]

\* No server holds a message from beyond the next index of its origin.
NoGap ==
    \A s, o \in Server : \A i \in Index :
        group[s].messageLamport[o][i] # Nil => i <= group[s].msgTimestamp[o]

\* Once every server has the group, all of them get every message, across
\* every broken stream and slow start, as long as no server panics and no
\* message is stored before an earlier one of its origin.
EventuallyConverged ==
    ([](NoGap /\ up = Server) /\ <>(\A s \in Server : group[s].made)) => <>[]Converged

-----------------------------------------------------------------------------
(***************************************************************************)
(* Why the messages and counters agree: an inductive invariant.            *)
(***************************************************************************)
\* Some server's clock has reached the Lamport n.
Reached(n) == \E u \in Server : n <= group[u].maxLamport

\* A message under an index its origin has posted, which its author keeps.
SoundMsg(m) ==
    /\ m \in UpdateMsgType
    /\ m.index <= group[m.from].msgTimestamp[m.from]
    /\ Says(m) \in Known(m.replica)
    /\ Reached(m.groupTimestamp)

SoundNames(m) == m \in SendGroupInfoType /\ Reached(m.groupTimestamp)

\* The requests that may be on their way to t.  Only a broadcast reaches a
\* server without the group, and it carries the clock of its author.
Sound(t) ==
    {m \in RequestType :
        \/ SoundMsg(m) /\ (group[t].made \/ m.lamport <= m.groupTimestamp)
        \/ SoundNames(m)
        \/ m \in CheckForMergeType /\ group[m.replica].made}

\* What a handler is about to broadcast is a message of its own server, or
\* that server's user list.
HandlerSound(c) ==
    LET s == Home[c]
        m == out[c]
    IN  /\ pc[c] # "out" => group[s].made
        /\ pc[c] = "posted" => /\ m \in UpdateMsgType
                               /\ m.from = s
                               /\ m.replica = s
                               /\ Says(m) \in Known(s)
        /\ pc[c] = "sending" => \/ SoundMsg(m) /\ m.lamport <= m.groupTimestamp
                                \/ SoundNames(m)

\* Everything a server keeps its author keeps too, at or below its clock, and
\* no author keeps two messages of its own with one Lamport.
Authentic ==
    \A s \in Server :
        /\ \A m \in Known(s) : /\ m \in Known(m.replica)
                               /\ m.lamport <= group[s].maxLamport
                               /\ m.content \in 1..posted
        /\ \A m, n \in Known(s) : SameKey(m, n) /\ m.replica = s => m = n

GroupsSound ==
    /\ \A s \in Server : GroupOK(group[s])
    /\ AckNotAhead
    /\ \A s \in Server : group[s].msgTimestamp[s] <= posted
    /\ Authentic

\* What server s counts, what it keeps and what is sent about it are backed by
\* the servers the messages come from, at every moment of every operation.
Inv ==
    /\ TypeOK
    /\ GroupsSound
    /\ \A s, t \in Server : net[s][t] \in Seq(Sound(t))
    /\ \A c \in Client : HandlerSound(c)
=============================================================================
