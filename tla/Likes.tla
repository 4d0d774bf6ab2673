------------------------------- MODULE Likes -------------------------------
(***************************************************************************)
(* The likes of one message on several chat servers: the operations that   *)
(* give and take back a like at the server of the user (LikeMessage,       *)
(* UnlikeMessage, PerformingLike), what other servers make of them         *)
(* (Insertion with flag 1, chat/replica.go), and the anti-entropy that     *)
(* sends them again.                                                       *)
(*                                                                         *)
(* The group has one message, posted by Author.  Its place in the list of  *)
(* messages is the matter of MessageList; what counts here is that a like  *)
(* can reach a server before its message, which then gets a placeholder    *)
(* in the name of the liker.                                               *)
(***************************************************************************)
EXTENDS ActivityList, FiniteSets

CONSTANTS Server,       \* the servers
          Home,         \* the server each user is connected to
          Author,       \* the user who posts the message
          Nobody,       \* the creator of a message that is not there
          MaxLikes,     \* bound: how many like events each server performs
          MaxSeconds,   \* bound: how far the clock of a server runs
          MaxInFlight,  \* bound: Entropy waits while a stream holds this many
          MaxBreaks     \* bound: how many times a stream breaks

ASSUME HomeAssumption == Home \in [User -> Server]
ASSUME AuthorAssumption == Author \in User
ASSUME NobodyAssumption == Nobody \notin User
ASSUME MaxLikesAssumption == MaxLikes \in [Server -> Nat]
ASSUME MaxSecondsAssumption == MaxSeconds \in Nat

Index == UNION {1..MaxLikes[s] : s \in Server}    \* keys of LikeEventLamport

VARIABLES
    up,        \* the servers that have not panicked
    group,     \* per server, the group with its message, as it keeps them
    linked,    \* the servers to which a server has set up its stream
    net,       \* requests sent by s and not yet handled by t, in order
    out,       \* per user, the request the handler will broadcast
    clock,     \* per server, the second of its last event
    breaks     \* number of broken streams so far

vars == <<up, group, linked, net, out, clock, breaks>>

-----------------------------------------------------------------------------
(***************************************************************************)
(* The group at one server, without (creator = Nobody) and with a message. *)
(* A message with MsgId 0 is not numbered: no client can name it.          *)
(***************************************************************************)
NoGroup == [made           |-> FALSE,
            creator        |-> Nobody,
            numbered       |-> FALSE,
            total          |-> 0,
            vote           |-> NoVotes.vote,
            list           |-> NoEvents,
            msgTimestamp   |-> [o \in Server |-> 0],
            likeTimestamp  |-> [o \in Server |-> 0],
            likeEvent      |-> [o \in Server |-> [i \in Index |-> Nil]]]

CreateGroup == [NoGroup EXCEPT !.made = TRUE]

HasMessage(g) == g.creator # Nobody

WithMessage(g, creator, numbered, total) ==
    [g EXCEPT !.creator = creator, !.numbered = numbered, !.total = total]

\* The counter of an origin moves only when the index is the next one.
Acknowledged(counter, index) == IF index = counter + 1 THEN counter + 1 ELSE counter

-----------------------------------------------------------------------------
(***************************************************************************)
(* The operations of the user's own server.                                *)
(***************************************************************************)
\* Mutant of MayLike: the vote is not looked at.
MayLikeTwice(g, user) == HasMessage(g) /\ g.numbered /\ g.creator # user

\* LikeMessage and UnlikeMessage deny the request otherwise.
MayLike(g, user) ==
    HasMessage(g) /\ g.numbered /\ g.creator # user /\ g.vote[user] # 1

MayUnlike(g, user) ==
    HasMessage(g) /\ g.numbered /\ g.creator # user /\ g.vote[user] = 1

PerformingLike(g, s, like, user, second) ==
    [g EXCEPT !.total = @ + like,
              !.vote[user] = like,
              !.list = Appended(@, Event(user, like, LocalTime(second))),
              !.likeTimestamp[s] = @ + 1,
              !.likeEvent[s][g.likeTimestamp[s] + 1] = Len(g.list.node) + 1]

-----------------------------------------------------------------------------
(***************************************************************************)
(* Insertion: a message (flag 0) or a like (flag 1) of another server.     *)
(***************************************************************************)
\* A message that is already there gets the total of the request and is not
\* counted; a group that did not exist gets one without a number.
MsgInserted(g, m) ==
    IF g.made /\ g.msgTimestamp[m.from] >= m.index THEN g
    ELSE IF HasMessage(g) THEN [g EXCEPT !.creator = m.user, !.total = m.like]
    ELSE [WithMessage([g EXCEPT !.made = TRUE], m.user, g.made,
                      IF g.made THEN m.like ELSE 0)
             EXCEPT !.msgTimestamp[m.from] = Acknowledged(@, m.index)]

RedundantLike(g, m) == g.made /\ g.likeTimestamp[m.from] >= m.index

\* The message the like is for.  A server without the group files it under
\* the index of the like, as if it were a message of that server.
MsgToLike(g, m) ==
    IF HasMessage(g) THEN g
    ELSE IF g.made THEN WithMessage(g, m.user, TRUE, m.like)
    ELSE [WithMessage(CreateGroup, m.user, FALSE, 0)
             EXCEPT !.msgTimestamp[m.from] = Acknowledged(@, m.index)]

\* Mutant of Liked: the counter takes over the index of the like.
LikedAhead(g, m) ==
    LET list == Sorted(g.list, Event(m.user, m.like, m.time))
        votes == CalculateLike(list)
    IN  [g EXCEPT !.list = list, !.total = votes.total, !.vote = votes.vote,
                  !.likeEvent[m.from][m.index] = Len(list.node),
                  !.likeTimestamp[m.from] = m.index]

\* InsertLike, the filing under the index it came with, CalculateLike.
Liked(g, m) ==
    LET list == Sorted(g.list, Event(m.user, m.like, m.time))
        votes == CalculateLike(list)
    IN  [g EXCEPT !.list = list, !.total = votes.total, !.vote = votes.vote,
                  !.likeEvent[m.from][m.index] = Len(list.node),
                  !.likeTimestamp[m.from] = Acknowledged(@, m.index)]

LikeInserted(g, m) == IF RedundantLike(g, m) THEN g ELSE Liked(MsgToLike(g, m), m)

\* InsertLike returns nil and its caller dereferences it.
LikePanics(g, m) == ~RedundantLike(g, m) /\ NoPlace(g.list, m.time)

-----------------------------------------------------------------------------
(***************************************************************************)
(* The requests between servers.                                           *)
(***************************************************************************)
NoRequest == [kind |-> "none"]

UpdateMsg(origin, creator, total) ==
    [kind |-> "UpdateMsg", from |-> origin, index |-> 1, user |-> creator,
     like |-> total]

UpdateLike(origin, index, event) ==
    [kind |-> "UpdateLike", from |-> origin, index |-> index, user |-> event.user,
     like |-> event.like, time |-> event.time]

\* Mutant of CheckForMerge: a server tells only what it got of itself.
CheckOwn(s, g) ==
    [kind |-> "CheckForMerge", replica |-> s, msgs |-> g.msgTimestamp,
     likes |-> g.likeTimestamp, todo |-> {s}]

\* One request for all origins, which are handled one at a time ("todo").
CheckForMerge(s, g) ==
    [kind |-> "CheckForMerge", replica |-> s, msgs |-> g.msgTimestamp,
     likes |-> g.likeTimestamp, todo |-> Server]

LikeFiled(g, origin, i) == Says(g.list.node[g.likeEvent[origin][i]])

\* Mutant of Missing: the first like sent again is the last one counted.
MissingLate(g, m, origin) ==
    LET known == m.likes[origin]
        here == g.likeTimestamp[origin]
    IN  (IF m.msgs[origin] < g.msgTimestamp[origin]
         THEN <<UpdateMsg(origin, g.creator, g.total)>> ELSE <<>>)
        \o [k \in 1..(IF here > known THEN here - known ELSE 0) |->
               UpdateLike(origin, known + k, LikeFiled(g, origin, here))]

\* CheckForMerge sends the message, if not counted, then the later likes.
Missing(g, m, origin) ==
    LET known == m.likes[origin]
        here == g.likeTimestamp[origin]
    IN  (IF m.msgs[origin] < g.msgTimestamp[origin]
         THEN <<UpdateMsg(origin, g.creator, g.total)>> ELSE <<>>)
        \o [k \in 1..(IF here > known THEN here - known ELSE 0) |->
               UpdateLike(origin, known + k, LikeFiled(g, origin, known + k))]

-----------------------------------------------------------------------------
Init ==
    /\ up = Server
    /\ group = [s \in Server |-> NoGroup]
    /\ linked = [s \in Server |-> {}]
    /\ net = [s \in Server |-> [t \in Server |-> <<>>]]
    /\ out = [c \in User |-> NoRequest]
    /\ clock = [s \in Server |-> 0]
    /\ breaks = 0

\* Server s sends reqs[t] to each t it has a stream to.
Send(s, reqs, queued) ==
    net' = [queued EXCEPT ![s] = [t \in Server |->
               IF t \in linked[s] /\ t \in up THEN queued[s][t] \o reqs[t]
                                              ELSE queued[s][t]]]

ReplicaBroadcast(s, req) == Send(s, [t \in Server |-> <<req>>], net)

\* A panic ends the process and what is on its streams.
Panic(s) ==
    /\ up' = up \ {s}
    /\ net' = [t \in Server |-> [u \in Server |->
                  IF s \in {t, u} THEN <<>> ELSE net[t][u]]]
    /\ UNCHANGED <<group, linked, out, clock, breaks>>

ReplicaSetUp(s, t) ==
    /\ s # t
    /\ {s, t} \subseteq up
    /\ t \notin linked[s]
    /\ linked' = [linked EXCEPT ![s] = @ \cup {t}]
    /\ UNCHANGED <<up, group, net, out, clock, breaks>>

\* A stream breaks, what is on it is lost, and the next Send opens a new one.
Break(s, t) ==
    /\ breaks < MaxBreaks
    /\ net[s][t] # <<>>
    /\ net' = [net EXCEPT ![s][t] = <<>>]
    /\ breaks' = breaks + 1
    /\ UNCHANGED <<up, group, linked, out, clock>>

\* A client joins the group at s, or the user list of another server arrives.
GroupMade(s) ==
    /\ s \in up
    /\ ~group[s].made
    /\ group' = [group EXCEPT ![s] = CreateGroup]
    /\ UNCHANGED <<up, linked, net, out, clock, breaks>>

\* A handler that is not between its operation and its broadcast.
Serves(c) == Home[c] \in up /\ group[Home[c]].made /\ out[c] = NoRequest

\* AppendMessage, by Author, once.
Post ==
    LET s == Home[Author]
    IN  /\ Serves(Author)
        /\ ~HasMessage(group[s])
        /\ group' = [group EXCEPT ![s] =
              [WithMessage(@, Author, TRUE, 0) EXCEPT !.msgTimestamp[s] = 1]]
        /\ out' = [out EXCEPT ![Author] = UpdateMsg(s, Author, 0)]
        /\ UNCHANGED <<up, linked, net, clock, breaks>>

\* Some time has passed since the last event on this server; the clocks of two
\* servers need not agree.  The index is taken under the mutex, with the event.
Perform(c, like) ==
    LET s == Home[c]
        g == group[s]
    IN  /\ Serves(c)
        /\ g.likeTimestamp[s] < MaxLikes[s]
        /\ \E second \in clock[s]..MaxSeconds :
              /\ clock' = [clock EXCEPT ![s] = second]
              /\ group' = [group EXCEPT ![s] = PerformingLike(@, s, like, c, second)]
              /\ out' = [out EXCEPT ![c] = UpdateLike(s, g.likeTimestamp[s] + 1,
                            Event(c, like, WireTime(LocalTime(second))))]
        /\ UNCHANGED <<up, linked, net, breaks>>

Like(c) == MayLike(group[Home[c]], c) /\ Perform(c, 1)

Unlike(c) == MayUnlike(group[Home[c]], c) /\ Perform(c, -1)

Broadcast(c) ==
    /\ Home[c] \in up
    /\ out[c] # NoRequest
    /\ ReplicaBroadcast(Home[c], out[c])
    /\ out' = [out EXCEPT ![c] = NoRequest]
    /\ UNCHANGED <<up, group, linked, clock, breaks>>

Entropy(s) ==
    /\ s \in up
    /\ group[s].made
    /\ \A t \in Server : Len(net[s][t]) < MaxInFlight /\ Len(net[t][s]) < MaxInFlight
    /\ ReplicaBroadcast(s, CheckForMerge(s, group[s]))
    /\ UNCHANGED <<up, group, linked, out, clock, breaks>>

\* t takes the next request of the stream from s.
Takes(s, t, kind) ==
    /\ t \in up
    /\ net[s][t] # <<>>
    /\ Head(net[s][t]).kind = kind

Handled(s, t) == [net EXCEPT ![s][t] = Tail(@)]

ReceiveUpdateMsg(s, t) ==
    /\ Takes(s, t, "UpdateMsg")
    /\ group' = [group EXCEPT ![t] = MsgInserted(@, Head(net[s][t]))]
    /\ net' = Handled(s, t)
    /\ UNCHANGED <<up, linked, out, clock, breaks>>

ReceiveUpdateLike(s, t) ==
    LET m == Head(net[s][t])
    IN  /\ Takes(s, t, "UpdateLike")
        /\ ~LikePanics(group[t], m)
        /\ group' = [group EXCEPT ![t] = LikeInserted(@, m)]
        /\ net' = Handled(s, t)
        /\ UNCHANGED <<up, linked, out, clock, breaks>>

UpdateLikePanics(s, t) ==
    /\ Takes(s, t, "UpdateLike")
    /\ LikePanics(group[t], Head(net[s][t]))
    /\ Panic(t)

\* The answer goes back on t's own stream to the requester.
ReceiveCheckForMerge(s, t) ==
    LET m == Head(net[s][t])
        rest(o) == IF m.todo = {o} THEN Handled(s, t)
                   ELSE [net EXCEPT ![s][t][1].todo = @ \ {o}]
    IN  /\ Takes(s, t, "CheckForMerge")
        /\ group[t].made => m.replica \in linked[t]
        /\ \E o \in m.todo :
              IF group[t].made
              THEN Send(t, [u \in Server |-> IF u = m.replica
                               THEN Missing(group[t], m, o) ELSE <<>>], rest(o))
              ELSE net' = rest(o)
        /\ UNCHANGED <<up, group, linked, out, clock, breaks>>

CheckForMergePanics(s, t) ==
    /\ Takes(s, t, "CheckForMerge")
    /\ group[t].made
    /\ Head(net[s][t]).replica \notin linked[t]
    /\ Panic(t)

-----------------------------------------------------------------------------
UserStep(c) == Like(c) \/ Unlike(c) \/ Broadcast(c)

Receive(s, t) == \/ ReceiveUpdateMsg(s, t) \/ ReceiveUpdateLike(s, t)
                 \/ UpdateLikePanics(s, t) \/ ReceiveCheckForMerge(s, t)
                 \/ CheckForMergePanics(s, t)

Next == \/ Post
        \/ \E c \in User : UserStep(c)
        \/ \E s \in Server : GroupMade(s) \/ Entropy(s)
        \/ \E s, t \in Server : ReplicaSetUp(s, t) \/ Break(s, t) \/ Receive(s, t)

Spec == Init /\ [][Next]_vars

(***************************************************************************)
(* As in Replication: handlers go on, set-up is retried, what arrived on a *)
(* stream is taken (weak fairness with its ENABLED spelled out), and the   *)
(* timer of Entropy fires whatever the bound on the streams says.          *)
(***************************************************************************)
ReceiveFairness(s, t) == []<>(net[s][t] = <<>>) \/ []<><<Receive(s, t)>>_vars

Fairness ==
    /\ \A c \in User : WF_vars(Broadcast(c))
    /\ \A s \in Server : SF_vars(Entropy(s))
    /\ \A s \in Server : \A t \in Server \ {s} :
          WF_vars(ReplicaSetUp(s, t)) /\ ReceiveFairness(s, t)

FairSpec == Spec /\ Fairness

-----------------------------------------------------------------------------
(***************************************************************************)
(* Properties.                                                             *)
(***************************************************************************)
NodeType == [user : User, like : {1, -1}, time : Nat, next : Nat]

GroupType == [made          : BOOLEAN,
              creator       : User \cup {Nobody},
              numbered      : BOOLEAN,
              total         : Int,
              vote          : [User -> {1, 0, -1}],
              list          : [node : Seq(NodeType), head : Nat, tail : Nat],
              msgTimestamp  : [Server -> Nat],
              likeTimestamp : [Server -> Nat],
              likeEvent     : [Server -> [Index -> Nat]]]

UpdateMsgType == [kind : {"UpdateMsg"}, from : Server, index : {1},
                  user : User, like : Int]

UpdateLikeType == [kind : {"UpdateLike"}, from : Server, index : Nat, user : User,
                   like : {1, -1}, time : Nat]

CheckForMergeType == [kind : {"CheckForMerge"}, replica : Server,
                      msgs : [Server -> Nat], likes : [Server -> Nat],
                      todo : SUBSET Server]

RequestType == UpdateMsgType \cup UpdateLikeType \cup CheckForMergeType

\* Every variable keeps its shape, and every counted like is filed under its
\* index: CheckForMerge dereferences what it finds there.
TypeOK ==
    /\ up \subseteq Server
    /\ group \in [Server -> GroupType]
    /\ linked \in [Server -> SUBSET Server]
    /\ net \in [Server -> [Server -> Seq(RequestType)]]
    /\ out \in [User -> UpdateMsgType \cup UpdateLikeType \cup {NoRequest}]
    /\ clock \in [Server -> Nat]
    /\ breaks \in Nat
    /\ \A s, o \in Server : \A i \in 1..group[s].likeTimestamp[o] :
          i \in Index /\ group[s].likeEvent[o][i] \in Nodes(group[s].list)

\* An index means the same like, by the same user and at the same time, on
\* every server that has counted it: CheckForMerge may send on the likes of
\* any origin from any server.
LikeLogAgreement ==
    \A s, o \in Server : \A i \in 1..group[s].likeTimestamp[o] :
        /\ i <= group[o].likeTimestamp[o]
        /\ LikeFiled(group[s], o, i) = LikeFiled(group[o], o, i)

\* The events from Head on are in the order of their times, whatever the clock
\* of another server says, and whatever Append has cut off: InsertLike looks
\* for its place in a list that it takes to be sorted.
InTimeOrder ==
    \A s \in Server :
        LET events == Events(group[s].list)
        IN  \A j, k \in DOMAIN events : j < k => events[j].time <= events[k].time

\* As long as the users of one server only have voted, a server that has counted
\* all their votes finds in its list the votes that server keeps.
OneServerAgrees ==
    \A s, o \in Server :
        /\ \A p \in Server \ {o} : group[p].likeTimestamp[p] = 0
        /\ group[s].likeTimestamp[o] = group[o].likeTimestamp[o]
        => group[s].vote = group[o].vote

Likers(g) == {u \in User : g.vote[u] = 1}

\* An event that joins the list leaves the number beside the message at the
\* number of users whose vote is a like, if that is what it was.
TotalFollowsVotes ==
    [][\A s \in Server :
        /\ group'[s].list # group[s].list
        /\ group[s].total = Cardinality(Likers(group[s]))
        => group'[s].total = Cardinality(Likers(group'[s]))]_vars

\* No server holds a like from beyond the next index of its origin.
NoGap == \A s, o \in Server : \A i \in Index :
            group[s].likeEvent[o][i] # Nil => i <= group[s].likeTimestamp[o]

\* Once every server has the group all likes are counted everywhere, across
\* broken streams and slow start, as long as no server panics and no like is
\* stored before an earlier one of its origin.
EventuallyLikesCounted ==
    ([](up = Server /\ NoGap) /\ <>(\A s \in Server : group[s].made)) =>
        <>[](\A s, o \in Server :
                group[s].likeTimestamp[o] = group[o].likeTimestamp[o])

\* The like activities other servers send find their place in the list of the
\* message, whenever they were given.
LikesFindPlace ==
    \A s, t \in Server :
        Takes(s, t, "UpdateLike") => ~LikePanics(group[t], Head(net[s][t]))
=============================================================================
