# Verification of Selected_Course_Projects

The repository holds three course projects. This directory holds TLA+ models of
their code, TLC configurations that check the models on small instances, and
theorems with TLAPS proofs. Every definition is translated from the source;
`PROJECT.json` ("map") names the lines each definition stands for.

To check: `tlc -config posting.cfg MCReplication` (and so on for each run of
`PROJECT.json`), `tlapm ReplicationProofs.tla`, `tlapm LikesProofs.tla`,
`tlapm TransferProofs.tla`, `tlapm MembershipProofs.tla`,
`tlapm ChatClientProofs.tla`, and, for the lemmas these rest on, `tlapm` on
`WalkProofs.tla`, `GroupProofs.tla` and `SenderProofs.tla`.

## 1. Inventory of the repository

### 1.1 Robust group chat (`Robust_Group_Chat_System/chat_system`, Go, gRPC)

Up to five servers hold the same chat groups, clients connect to one server
each, and every pair of servers keeps a stream in both directions.

| Component | State | Operations | Shared with / called by |
|---|---|---|---|
| **Message list** (`data.go` `List`, `Node`, `Message`; `LamportPlace`, `ShowHistory` in `HelperFunction.go`) | `Head`, `Tail`, `TenStart`, `Count`, nodes with `Lamport`, `Replica`, `MsgId`, `Next` | `Append`, insertion before/after a node, `IndexReorder`, `UpdateTenStart`, `ShowHistory`; `Delete`, `Display` are never called | one per group; the same type is the activity list of each origin's likes |
| **Group record** (`data.go` `Group`, `Information`) | `MaxLamport`, `MessageList`, and per origin server `MsgTimestamp`, `MessageLamport` (index → node), `UserList`, name and like timestamps | `CreateGroup`, `Join`, `AppendMessage`, `Insertion`, `CheckForMerge` | all under the server's one mutex |
| **Replication** (`replica.go`, `chatserver.go`, `server.go`) | `StreamSet`, `GroupMap`, the requests on the streams, the handlers' local variables | `ReplicaSetUp`, `SendingBetweenReplica`, `ReplicaBroadcast`, `BidirectionalStream` (one handler per stream), `Entropy`, `SendMySaving` | handlers of clients and of peers run concurrently and meet in the mutex |
| **Likes** (`LikeMessage`, `UnlikeMessage`, `InsertLike`, `CalculateLike`, `PerformingLike`) | activity lists, `UserLike`, `TotalLike`, the log of likes of every origin, placeholder messages | like, unlike, insertion with flag 1, recount of the votes | share the log and the message list with messages |
| **Membership** (`UserList`, `sameUserNameCount`, `Switch`, `ChangeIdentity`, `NameMerge`, the disconnect path) | user lists of every origin, name counts | join, switch, change, quit, disconnect, flag 2 insertion | the disconnect path outside the mutex, reports built outside it |
| **Heartbeat and group list** (`Entropy`'s `AllGroup`, `CheckGroup`, `isOnline`) | online flags, the unread answers on client streams | send every 500 ms, answer, time out | uses the same gRPC streams as messages, hence their flow control |
| **Chat client** (`client.go`) | user id, `state`, `likeMap`, current group | input loop, receiving goroutine | the two goroutines share all of it without a lock |

Hard behaviours: handlers of one server interleave between operations of the
mutex (a request is built after the mutex is released); messages of several
origins arrive in any order and again and again through anti-entropy; streams
break and are reopened by the next send; servers start, panic and are relaunched
at any time; insertion patches three pointers (`Head`, `Tail`, `TenStart`) of a
list that appends use too. What makes it correct: a message is identified by
(`Lamport`, `Replica`); what is filed under an index never changes and is the
same on every server; nothing below a counter is missing; every message reaches
every server, over any path; the list shows every message it has, in one order;
a like is counted once on every server, under one index; a name is listed as long
as a client bears it; and the server knows a client as the client does, so that
the number typed in a command means the message the user sees.

### 1.2 Reliable file transfer (`Reliable_P2P_File_Transfer`, C, UDP and TCP)

| Component | State | Operations |
|---|---|---|
| **Sender** `ncp.c` | `sender_window`, `left`, `seq`, `cu_ack_seq`, the one-shot flags `flag_first/second/third`, `wait`, `first_one`, `is_bootstrap`, `wait_exit` | one loop: take an acknowledgement, resend what it names as lost, send the name / fill the window / send one more packet / resend on timeout |
| **Receiver** `rcv.c` | the receive `window` (status and packet per slot), `cu_ack`, `cu_already`, `is_last`, `serve_first`, `wait`, `current_sbuf`, `client_queue` | one loop: close and start the next client, take a packet, drain the buffered packets, ask a waiting client again |
| **Queue of waiting clients** `queue.c` | linked list with `head`, `tail`, `count` | `queue_enqueue`, `queue_dequeue`, `queue_length`, `is_in_queue` (in `rcv.c`) |
| **Lossy send** `sendto_dbg.c` | the loss rate | drops packets at random |
| **TCP copy** `t_ncp.c`, `t_rcv.c` | the file name buffer and the number of bytes still missing | read a chunk, write it all / read what there is, write it |

Hard behaviours: packets and acknowledgements are lost, duplicated (by
retransmission) and reordered; the window wraps around; a receiver serves one
client and blocks the others, and both sides must agree on when a blocked one
starts; the acknowledgement that ends a transfer can be lost. What makes it
correct: the file written is a prefix of the file read, in order and without
gaps; a sender that ends has had everything delivered; every client is served
in the order of its arrival; nobody waits for ever.

### 1.3 Simulated annealing (`Simulated_Annealing_Algorithm`, Python)

`TSP.py` keeps a tour and its distance matrix and offers the neighbourhood
operators (swap, reverse, insert); `SA.py` and `mySA.py` are two annealing loops.
Sequential, random and in floating point. What can be checked is that an
operator turns a tour into a tour.

### 1.4 Left aside

Generated protobuf code, `TestCase.go` (hand-run messages), the docker scripts
`test_p2.py` (their *kill*, *relaunch* and *partition* are the events of
`ReplicationCrash` and `Replication`), IDE settings, PDFs.

## 2. Modules

```
MessageList          one group's linked list, at pointer level       (operators)
  Group              one server's record of one group                (operators)
    Replication      servers, clients, streams, handlers             (state machine)
      ReplicationCrash   + kill and relaunch                         (state machine)
      MCReplication, MCReplicationCrash   instances for TLC
  ActivityList       the like events of one message, and its votes   (operators)
    Likes            users who like, servers that merge their likes  (state machine)
      MCLikes        instance for TLC
      LikesProofs    the invariants of logs, lists, types and votes, and the theorems (uses WalkProofs)
LamportGossip        what the replicated chat promises               (abstract state machine)
WalkProofs           what a walk over a linked list finds, before and after a link is set
  GroupProofs        what every operation on a list or group preserves
    ReplicationProofs  the inductive invariants and the theorems

Membership           names and users of the groups of one server     (state machine)
  MembershipProofs   the inductive invariant and the theorems

ChatClient           client.go against the handlers of two servers   (state machine)
  MCChatClient       instance for TLC
  ChatClientProofs   the inductive invariant and the theorems

Sender               ncp.c: its variables and the parts of its loop  (operators)
ClientQueue          queue.c, at the level of its nodes              (operators)
  Receiver           rcv.c: its variables and the parts of its loop  (operators)
    Transfer         clients, receiver and a lossy network           (state machine)
      MCTransfer     instances for TLC
      SenderProofs   slots, and what the parts of the sender's loop keep
        TransferProofs the inductive invariant of the transfers, the theorems, the refinement
FileCopy             what a file transfer promises                   (abstract state machine)
```

### 2.1 How the model corresponds to the code

* **MessageList.** A node is its number in order of allocation, `0` is Go's
  `nil`. `Walk` is the loop `for n := Head; n != nil; n = n.Next`; what a list
  shows is what `Walk` finds, and a node that was cut off is still in
  `Nodes(l)` because `MessageLamport` keeps a pointer to it. `Match` and `Place`
  are the two results of `LamportPlace`, with its shortcut for messages later
  than both ends; `Appended`, `Inserted`, `Created`, `Replaced` are the four ways
  a message gets into the list, each with the trailing work the code does
  (`IndexReorder`, `UpdateTenStart`, `Count`).
* **Group.** One operator per operation under the mutex: `Joined`, `Posted`
  (`AppendMessage`), `MsgInserted` and `NamesInserted` (`Insertion` with flag 0
  and 2, with its early returns as named guards `Redundant` and `Exists`) and
  `Missing` (what one `CheckForMerge` makes a server send back).
* **Replication.** `up` is the set of living processes, `group[s]` the entry of
  `GroupMap`, `link[s][t]` the entry for `t` in the `StreamSet` of `s`,
  `net[s][t]` what has been sent on that stream and not been handled. A client's
  handler holds the mutex only inside the operations it calls, so a post is
  three steps, `AppendMessage` / `BuildUpdateMsg` / `Broadcast`, and a join is
  `Join` / `BuildGroupInfo` / `Broadcast`; `pc[c]` and `out[c]` are the handler's
  program counter and the request it is building. `ReceiveUpdateMsg`,
  `ReceiveSendGroupInfo`, `ReceiveCheckForMerge` are the cases of the peer
  handler, `Entropy` the ticker, `ReplicaSetUp` the start-up loop. A nil
  dereference is a step of its own (`CheckForMergePanics`, and the first
  disjunct of `AppendMessage` and `ReceiveUpdateMsg`) and ends the process.
* **ReplicationCrash** adds `Kill` and `Relaunch`. A relaunched server has no
  group: `main` reads group names from disk and discards what `CreateGroup`
  returns.
* **LamportGossip** is the promise: each server knows a set of messages and has
  a clock; a step publishes one message above the clock, or learns one that its
  author has published (moving the clock at least to it), or moves the clock up
  to somebody's. `Replication` implements it with `known[s]` = everything the
  nodes of its list say and `clock[s]` = `MaxLamport` (`ImplementsGossip`).

* **ActivityList** is the same list type with like events in it. `Appended` is
  `List.Append` with its odd case (a list with a `Head` and no `Tail` does not get
  the node), `Sorted` is `InsertLike`, which leaves `Tail` alone, `NoPlace` the case
  in which it returns nil. `Votes` is `CalculateLike`'s loop over what the walk finds:
  `after[k]` is the map and the sum after `k` events.
* **Likes.** One record per server holds the group with its message: creator,
  number, total, votes, list of events, counters of messages and likes per origin
  and the log of likes (`likeEvent`). `Perform` is `LikeMessage` or
  `UnlikeMessage` (`MayLike`, `MayUnlike` are their denials) with `PerformingLike`,
  which takes the index under the mutex; `Broadcast` comes later. `MsgInserted`
  and `LikeInserted` are `Insertion` with flag 0 and 1, `MsgToLike` the three ways
  the liked message is found or made up. Streams, set-up, breaks, anti-entropy and
  panics are those of `Replication`.
* **Membership.** One record per group holds `UserList`, `sameUserNameCount`, and
  the server's own list of names with its timestamp. `Join`, `Switch`,
  `ChangeIdentity` and `Quit` are the operations under the mutex, after which the
  handler shows the group (`Show`), reads list and timestamp in either order
  (`ReadNames`, `ReadStamp`: Go does not fix the order) and reports (`Tell`).
  `Leave`, `Uncount`, `CopyNames`, `Unlist`, `Stamp` are the disconnect path, one
  step for each access to shared memory. `peer` is the copy another server keeps
  (`Insertion` with flag 2). `raced` is a history variable: the groups in which a
  handler changed something while another was on that path.
* **ChatClient.** One client with its loop and its receiving goroutine
  (`user_id`, `current_state`, `currentgroup`, `likeMap` are shared by both), its
  streams in the order they were opened, and two servers with a bystander each.
  The commands `c`, `u`, `j`, `a`, `l`, `p`, `q` are actions, with `Connect` and
  `End` for what `c` and `q` do after waiting; the cases of the server's handler are `UserLogin`,
  `ChangeIdentity`, `Join`, `Switch`, `AppendMessage`, `LikeMessage`, `History`,
  `QuitSession`, and `UserUnknown` is their nil dereference. `shown` (what stands
  on the screen) and `patient` (no login or connection while a login is
  unanswered) are history variables.

* **Sender.** One record holds the variables of `ncp.c`'s `main` that survive an
  iteration. `Heeded` and `Resent` are what it does with an acknowledgement,
  `Rounds` is the rest of the iteration: send the name (`Named`), nothing while
  blocked, fill the window after acknowledgement 1 (`Filled`), send one more
  packet when the oldest slot is free (`Slid`), or send the oldest packet again
  if its time has run out (`TimedOut`). `read` is the position in the file and
  `ReadAll` is `wait_exit`; after the end of the file `Slid` still puts
  `send_pkt`, the packet sent last, into the free slot, as the code does.
* **ClientQueue.** A node is its place in memory, `free` is what the allocator
  hands out again, last freed first. `queue_enqueue` sets no `nextnode` and
  `queue_dequeue` leaves `tail` alone: so do the operators.
* **Receiver.** One record holds the variables of `rcv.c`'s `main`. `is_last`,
  `nack_start` and `nack_end` are set and sent within one iteration and are
  arguments of `Ack`. `Drained` is the loop over buffered packets, `Run` how far
  it gets, `Closed` the reset for the next client.
* **Transfer.** A step is one iteration of one process: `Proceed` (nothing
  received) and `Hear` of a client; `Receive` and `CallAgain` of the receiver,
  where `Adopt`, `Remind`, `Block` and `Serve` are the cases of whom a packet is
  from and what is being done. `to_close` ends the iteration in which the last
  packet is written and its work is done at the head of the next one, before
  anything is received: it is part of the step. `packets[c]` and `acks[c]` are
  what the network holds; each step keeps any part of it (`Carried`), so that
  everything may be lost, come late, come again and overtake.
  `again` is a history variable, which the code does not have: the clients whose
  complete file did not keep the receiver from queueing or adopting them as new,
  and those that were called after their name had been acknowledged (`CalledLate`):
  `flag_third` stays set in a client that was never blocked (ncp.c:184), and the
  name it then sends goes into slot 1, whatever is in it (ncp.c:306).
* **FileCopy** is the promise: each copy is a beginning of its file and only
  grows, and a client ends when its copy is complete. `CopiesFiles` maps the
  chunks written to it.

### 2.2 Abstractions

* `Replication` has one group; user names are distinct and a client joins once.
  User lists are represented by their timestamps, which is all `Insertion` and
  `CheckForMerge` decide by. Likes, names and screens have models of their own.
* `Content` is the number of the post: no two messages say the same, so that a
  property can tell when one replaces another.
* `isOnline` and `ReplicaName` are left out: nothing modelled reads them. The
  heartbeat `AllGroup` is left out of `Replication` because its answer goes to a
  stream no replica reads (`ReplicaSetUp` only sends) and so changes nothing here.
* `SendMySaving` sends one `CheckForMerge` per origin. They travel as one request
  whose origins (`todo`) are handled one at a time, in any order: the code ranges
  over a Go map, whose order is not defined.
* `Entropy` is the 500 ms ticker with its time left out: it may fire at any
  moment.
* A stream that breaks loses everything in flight on it. `down` means that sends
  fail silently, `broken` that the peer can be reached again and the next send
  reopens the stream, as `SendingBetweenReplica` does.
* Timestamps are naturals; the code's `int32` would wrap after 2^31 messages.
* The bounds are `MaxMsgs` (posts), `MaxBreaks` (broken streams),
  `MaxRelaunches`, and `MaxInFlight`: the ticker does not fire while a stream
  from or to its server holds that many requests. Only the ticker is bounded by
  it; broadcasts and answers are sent whatever is on the streams.
* `Latest`, the size of a screen, is 10 in the code and 2 in the instances, so
  that three messages already outgrow it.

* `Likes` has one message, which is liked under one Lamport number. Times count
  half seconds: a server keeps its own events with their fraction (odd), others
  get the second (even). Clocks of two servers need not agree. What waits in
  gRPC is lost when a stream breaks, as in `Replication`.
* In `Membership` the other server handles a report as it is sent: the stream keeps
  the order and nobody waits for it. Names are a set, in the code a string with
  separators; `sameUserNameCount` is total with 0 for a missing name. That Go aborts
  when a map is iterated and written at once is left out: what is checked is what
  the interleavings do when it does not. `Switch` shows its two groups in one step.
* In `ChatClient` `FirstId` is the number of clients that have logged in on
  each server before; the three assignments of a reconnect are one step, as are
  the answers that make a screen. A stream gets a screen once, also when two
  entries of a group point to it. `TenStart` is taken to be right (the list is in
  `Replication`). Others post in the groups of `Busy` until the client ends. The
  test commands `data` and `222`, `v` and `r` are left out.

* A packet carries the number of a chunk; two clients have different files with
  different names. `Binary` is the set of chunks with a NUL byte, of which only
  the beginning is written (`strlen`, rcv.c:254); the instances have none.
* Clients are told apart as the code does it, by port; the model takes ports to
  have the same number of digits, so that the unterminated copy of the name
  (rcv.c:210) is not seen.
* Timeouts may fire in any iteration. `CallAgain` is possible whenever a called
  client has not answered, though in the code it takes an iteration longer than
  `wait_time` (0.75 ms or 40.9 ms).
* The first window is zeroed memory and later ones are the block freed before,
  as left: what `malloc` does with one block of one size.
* `Window` is 3000 or 40 in the code and 2 or 3 in the instances; files of two to
  five packets fill it and go round it. With `Drops` the network may forget what
  it carries, and `MaxInFlight` bounds what it holds in each direction for one
  client. Without, it holds all that was ever sent and delivers any of it at any
  time: what is never delivered is as good as lost, so that for safety nothing is
  left out, and no bound is needed.

### 2.3 Fairness

`Fairness` is what the Go scheduler, the ticker and TCP give: a handler that has
begun goes on (weak fairness of its next step); set-up is retried until it
succeeds and a partition heals (weak fairness of `ReplicaSetUp` / `Heal`;
`split` drops it for the pair it keeps apart); a request that is on a stream is
taken (`ReceiveFairness`, weak fairness with its `ENABLED` spelled out, which is
the same thing because a non-empty stream to a living server can always be
handled and a dead one's streams are empty); the ticker fires for ever (strong
fairness of `Entropy`, because the bound `MaxInFlight`, which the code does not
have, disables it now and then). Clients need not join or post, streams need not
break: these have no fairness. `Likes` has the same fairness; in `Membership` a
handler that has begun goes on and anti-entropy asks again and again; in
`ChatClient` what was sent is handled, what was answered is received, and the
loop goes on with a `q` it has begun, while the user need not type.

For `Transfer`, every client goes on with its loop (weak fairness of `Proceed`),
and a loss rate below 100% means that what is sent again and again arrives again
and again: strong fairness of `Sent` (the packet sent last gets into the
network), `Arrives` (it gets out of it and its answer gets in, when it has an
effect or says something new) and `Tells` (such an answer gets to the client).
The receiver's `CallAgain` has none, for nothing makes an iteration last long.

## 3. Runs

| Run | Instance | What it checks |
|---|---|---|
| `startup` | 2 servers, a client each, 2 messages, 1 break, from `Init` | `TypeOK`, `LogPrefix`, `LogAgreement`; every step is one of `LamportGossip` (`ImplementsGossip`); `EventuallyConverged` |
| `posting` | 2 servers, 1 + 2 clients, 3 messages, all streams work | `AckNotAhead`, `Identity`, `OwnMessagesKept`, `ListWellFormed`; the action properties `Causality`, `FiledForGood`, `OrderKept` |
| `split` | 3 servers, 2 messages, streams 1-3 down for good | `PathPropagation`: servers get messages through a third one |
| `relaunch` | 2 servers, 2 messages, 1 relaunch | `FiledUntilRelaunch` |
| `lost_message` | 2 servers, 3 messages | **violates** `CountedIsShown` |
| `likes` | 2 servers, 2 + 1 users, 2 + 1 likes, clocks 0 and 1 s, 1 break, fair | `TypeOK`, `LikeLogAgreement` (an index is the same like everywhere), `InTimeOrder` (what `InsertLike` takes for granted), `OneServerAgrees` (votes), `TotalFollowsVotes`; `EventuallyLikesCounted` |
| `likes_crash` | the same | **violates** `LikesFindPlace` |
| `members` | 2 clients, 2 names, 2 groups, 3 requests or lost reports, fair | `TypeOK`, `HandlersKnow`, `CountsUsers`, `UpUnlessRaced`; `ListsReachPeer` |
| `stale_names` | the same | **violates** `SameStampSameList` |
| `client` | 1 client, 2 servers with a bystander each, 2 streams, 4 commands, 2 messages, screen of 1, fair | `TypeOK`, `InStep` (the server knows the client as it knows itself), `OthersStay`, `ServersUp`, `ScreenTrue` (the number on the screen is the message beside it); `QuitEnds` |
| `transfer` | 1 client, 5 packets, window 3, 2 in flight each way, fair | `TypeOK`, `SlotsHold` (what may be sent again is in its slot), `BufferSound` (what is buffered is where and what it should be), `AcksTrue`; `FileCopy` is implemented (`CopiesFiles`); the transfer ends (`AllServed`) |
| `turns` | 2 clients, 4 and 2 packets, window 2, everything stays in flight, until both have had their first turn (`FirstTurns`) | `FirstTurnSound`, `FirstTurnCopies`: the same for each client until it is taken in again or called late; `WaitersKnown`: who was told to wait is queued, served or done |

Why these bounds are enough to be interesting: two servers already give a message
of another origin to insert before, after and between one's own; two clients of
one server give the race between `AppendMessage` and `BuildUpdateMsg`; with
`Latest = 2` the third message moves the screen; one request of anti-entropy in
flight already duplicates and overtakes broadcasts; one break loses a broadcast
whose successor then arrives beyond the next index; three servers are the fewest
with a path that is not direct. A window of three and five packets make slots be
used again, gaps of two packets and a last packet that is buffered; two in flight
are enough to overtake and to repeat. In `turns` the network forgets nothing, so a call may
overtake the block before it, and a client may be finished, blocked, called and finished again while
the other one still waits; a window of two and four packets make slots be used again while the
other client's packets come in between. The constraint of the run stops where nobody's first turn is
left to look at. What needs a third client (the queue's reused nodes) is outside of it. Two users of one server and one of the other give likes whose
broadcasts race, whose times tie or disagree, and that overtake the message or
each other after a break. Two clients are the fewest that race on the disconnect
path, and three requests let one of them join, switch and leave while the other
joins; a lost report counts as one. In `client` two streams to the same or to two
servers make every answer of the old one late, ids 1 and 2 of the bystanders
collide with the client's, four commands are a login, a join, and two of switch,
post, like and quit, and the second message is the first that an insertion
renumbers on a screen of one. The runs `posting` and `split` start in
`Ready`, a state `Init` leads to in which all set-up is done and every client has
joined; `startup` and `relaunch` start from `Init`. Deadlock is checked in every
run of `Replication`: the system can always take a ticker step while a server with a
group lives. It is not in the runs of `Transfer` and `ChatClient`, where everything stops once
all clients have ended, nor in those of `Likes` and `Membership`, which stop when a
server has panicked and the bounds are reached.

Some of the properties deserve a word. `LogAgreement` (an index means the same
message everywhere) holds of single-client servers. With two clients on one
server the broadcast's `MapIndex`, read after the mutex was released
(chatserver.go:116), can be that of the next post, and with a message lost from
the list another server files one message in the other's place: it is a theorem
for single-client servers only (section 5). `LikeLogAgreement` has no such exception, for
`PerformingLike` takes the index under the mutex, and is proved without. `OrderKept` says
that any operation on a list that is in order, with `Tail` at its end, leaves all
its messages reachable and in order; it may leave `Tail` behind, and then the
next operation may lose a message (`lost_message`): in order is not inductive.
`EventuallyConverged` assumes that no server
panics and that no message is stored before an earlier one of its origin. The
second assumption is needed: a message beyond the next index is inserted but not
counted, and when anti-entropy sends it in turn, `LamportPlace` says that it exists
and `Insertion` returns before counting (replica.go:363).
`EventuallyLikesCounted` needs both for likes as well, where the second
insertion even panics. `OneServerAgrees` speaks of likes from one server only:
`InsertLike` does not move `Tail`, a later local like cuts off what was sorted in
after it, and then servers do not agree. `CountsUsers` and `UpUnlessRaced` speak of
groups that no two handlers changed at once while one was on the disconnect path:
that is exactly what the missing mutex costs, and all other interleavings are in.
The client's properties are those of a patient user, who does not log in or
connect while a login is unanswered: otherwise an answer of the old stream
overwrites the id, and `Join` puts it into the entry of another user or `Switch`
dereferences nil. The first turn in
`FirstTurnSound` and `FirstTurnCopies` is the longest time for which a transfer
keeps its promise: a client that has not heard that it is done and whose last
packet arrives again is queued (rcv.c:224) or adopted (rcv.c:208) as a new one;
when it is called it sends its name, and its complete file is opened for writing. A client
that was called late sends its name again and puts it into a slot that may hold a later packet. After
that even `WaitersKnown` fails: a finished client is blocked and called as a new one,
an old packet of it opens its file, and its old last packet, which lies beyond the window, goes
into the slot of the next one and closes the file; nobody knows any more of the client
that was told to wait.
`AllServed` is for one client. With two, the call to the one that waits is never
repeated unless one iteration takes longer than `wait_time`, for `start_wait` is set
again in every iteration (rcv.c:364): a lost call leaves both sides waiting.

## 4. Findings

Three claims of the project's report are refuted by what the code does; each has
a run whose trace shows it.

1. **A counted message vanishes from the list** (`lost_message`). When
   `LamportPlace` walks to the end of the list it returns the last node, but only
   its shortcut makes `Insertion` move `Tail`. The server's next own message is
   linked after the old `Tail` and cuts the inserted one off. Three posts, no failure.
2. **A like that finds no place** (`likes_crash`). `InsertLike` inserts before a
   later or after an earlier event. Times are sent in whole seconds, and a like
   of the same second as another event gets nil, which `Insertion` dereferences.
   One user who likes a message and takes it back at once stops every other server.
3. **An old list under a new timestamp** (`stale_names`). A handler reads the list
   of names, another client joins, the handler reads the timestamp: the other
   server keeps the old list, and no later report of the same timestamp corrects it.

## 5. Proofs

`ReplicationProofs` proves, for every set of servers and clients, every number of
messages and every bound, of `Spec` (start-up, panics, broken streams, repeated
and reordered requests included; relaunches where `CrashSpec` is named):

| Theorem | States |
|---|---|
| `Invariance` | `Spec => []Inv` |
| `TypeCorrect` | `Spec => []TypeOK` |
| `LogIsPrefix` | `Spec => []LogPrefix`: `CheckForMerge` never dereferences a missing entry |
| `NeverAhead` | `Spec => []AckNotAhead` |
| `KeysIdentify` | `Spec => []Identity`: (Lamport, Replica) identifies a message |
| `PostedLast` | `Spec => Causality` |
| `IndexesSettled` | `Spec => FiledForGood` |
| `Refinement` | `Spec => ImplementsGossip` |
| `ListsEnd` | `Spec => []ListWellFormed` |
| `OwnMessagesStay` | `Spec => []OwnMessagesKept`: an append never cuts off a message of the server's own |
| `OrderStays` | `Spec => OrderKept` |
| `LogsAgree` | `Spec => []LogAgreement`, if no two clients share a server |
| `FiledTill` | `CrashSpec => FiledUntilRelaunch`, with any number of kills and relaunches |

**Assumptions.** Only those the modules name: `LatestAssumption`,
`ServerAssumption` (servers are numbers), `MaxMsgsAssumption`, `HomeAssumption`.

**The argument.** `Identity` is not inductive: that two nodes with one key say
the same needs to know where the nodes came from. `Inv` adds it. `Authentic`: a
server keeps nothing its author does not keep, at or below its clock, and an
author has no two messages with one Lamport. As long as authors only append
above their clock, a copy is determined by its key. What is on its way has to be
as good as what is stored: `Sound(t)` describes the requests that may be on a
stream to `t`, and `HandlerSound(c)` what a handler is about to send. The delicate
part is a server that does not have the group yet. The first message it gets
creates the group with the clock of the *request* and not of the message; `Sound`
therefore says that only a broadcast, which carries its author's clock, reaches
such a server, which in turn holds because answers are only sent to a server
that asked, and a server asks only about a group it has
(`m \in CheckForMergeType /\ group[m.replica].made`).

`GroupProofs` establishes what each operation preserves: lists only grow and
their pointers stay inside (`Extends`, `Linked`, `AppendedExtends`,
`InsertedExtends`, `ReplacedKeeps`), the group stays well formed and its counters
move as they should (`PostedGroup`, `MsgInsertedGroup`, `NamesInsertedGroup`, ...),
indexes are settled (`MsgInsertedSettles`, ...). `ReplicationProofs` reduces every
action to one of two effects, no group changes or one server takes a
`GroupStep`, shows once what a `GroupStep` does to every part of `Inv`
(`GroupStepCounts`, `GroupStepAuthentic`, `GroupStepSound`), and then needs only
the streams and handlers of each action (`JoinKeeps` ... `CheckForMergePanicsKeeps`).
Nothing in `Inv` looks at the walk: `Place`, `Match` and `NodeAt` are
subsets of `Nodes(l)` by definition, and what they contain matters only for
what a list shows.

*What a list shows.* `Walk` is a recursive function and its length the number of
places where it is not nil. `WalkProofs` keeps the sequence of nodes instead:
`Chain(N, head, next, v)` says that `v` leads from `head` to nil, each node once,
and `ChainIsWalk` that the walk is then `v`. A node linked after the last one kept
makes it `Cut` (`ChainCut`: `Append`, which may leave nodes behind), a node linked
in between makes it `Put` (`ChainPut`: the insertions). Where induction is needed it is
over sets of numbers, which have a least element (`Least`, from the
well-foundedness of `<`; `Induct`), and not over an operator. `ListWellFormed` is not
inductive: that `Append` gives a `MsgId` above those shown needs `count` to bound
them, and that the ids still grow after an insertion needs `IndexReorder` to number
the whole walk. `ListKept` adds both, with a place for Tail (`TailAt`), up to which
`Keeps` says every operation still shows what was shown. `OwnKept`
puts a server's own messages there, and an append, which cuts only behind Tail,
leaves them. `OrderKept` asks that all messages be shown up to Tail before a step.
It needs that a new Lamport is above all Lamports of the list, or that
`LamportPlace` stops at the first later key; that key exists or the walk ends at Tail.

*One index, one message.* `LogAgreement` needs `Agreed`: every request on its way
that carries a message names it by the index under which its author has filed it,
and a handler that has posted and not yet read the counter still finds that index
there (`HandlerTells`). The second is why the theorem asks that no two
clients share a server. Where two do, both may post before either reads
`MsgTimestamp`; then the first is broadcast under the index of the second, and
`LogAgreement` is false. Run `startup`, which checks it, has one client on each server;
`FiledForGood`, `AckNotAhead` and `Identity`, which run `posting` checks with two clients
on one server, need no such hypothesis.

*Relaunches.* Of `Inv` little survives a relaunch: a process that starts from nothing
posts with numbers already used. `CrashInv` is what does: every group is well
formed, whichever process built it (`Shaped`), and no counter, no request on its way and no
handler has an index above the number of messages ever posted. With that every
operation of a running server settles its indexes, as without relaunches.

`MembershipProofs` proves, for every finite set of clients, every set of names
and groups and every number of requests, of `Membership!Spec`:

| Theorem | States |
|---|---|
| `MembershipInvariance` | `Spec => []Inv` |
| `MembershipTypes` | `Spec => []TypeOK`, raced or not |
| `ClientsKnown` | `Spec => []HandlersKnow` |
| `NamesCounted` | `Spec => []CountsUsers` |
| `PanicsOnlyRaced` | `Spec => []UpUnlessRaced` |

`CountsUsers` says nothing of a group while a handler is on the disconnect path,
so it is not inductive. `Tidy` adds how far that handler has brought the group
(`Stage`): its user is gone and its name is counted once too often, then the count
is right and the name is listed too long, then it holds a copy of the list it is
about to write back, then only the timestamp is missing. In a group that is not
`raced` at most one handler is there, and nobody else changes the group before it
is through. What a request under the mutex does to a sound record is shown once
for `AddUsername` and `DeleteUsername` with cardinalities of sets of bearers.

`LikesProofs` proves, for every set of servers and users, any number of likes, any
clocks and any breaks and panics, of `Likes!Spec`:

| Theorem | States |
|---|---|
| `LikesInvariance` | `Spec => []Inv` |
| `LikesAgree` | `Spec => []LikeLogAgreement`: an index means the same like on every server |
| `LikesTypeCorrect` | `Spec => []TypeOK`: votes are 1, 0 or -1, and a counted message has a creator |
| `LikesInOrder` | `Spec => []InTimeOrder` |
| `TotalStays` | `Spec => TotalFollowsVotes` |
| `OneServersVotes` | `Spec => []OneServerAgrees` |

Its assumptions are those `Likes` names for its constants. `LikeLogAgreement`
speaks of what is counted; a server also files likes from beyond its
counter, which count later, without a second look. `Inv` therefore says of all
that is filed (`Filed`) and of all likes on a stream or about to be broadcast
(`Backed`) that they were `Given`: their origin has performed them under that
index. `Complete` adds that an index up to the counter has an entry, so that
what `Missing` sends again is filed too. Two facts carry the steps: the log of
an origin only grows (`Grows`), so what was given stays given; and a list only
gets longer, wherever `Appended` and `Sorted` link the new node (`Extends`), so an
entry keeps what it says. A request that comes back to its own origin is
redundant there, for it was counted when it was given. Totals and votes do not
matter for this: in `Inv` they are members of some set (`\E V : Shape(V)`), which
the argument never looks into. What they are is shown on top of it, in three
steps.

*Lists* (`ListKept`). That the times along the walk do not go back is not inductive,
because `Append` links the new event after Tail, wherever that is. Tail is shown,
and it is not later than the clock of its own server: only local events become Tail,
and the clock does not go back. So what `Append` leaves in front of the new event is not
later. `Sorted` finds its place between an earlier and a later event.

*Votes* (`Typed`, `Counted`). `Votes` is a recursive function over the events; that
it exists and satisfies its equation is shown with `Induct`, and from it that the
total `CalculateLike` returns is the number of users whose vote is 1
(`VotesCounted`). One vote given, changed or taken back moves that number by one
(`Revoted`). A local like updates the map and the sum in place
after `MayLike` or `MayUnlike`, and that is why a right total stays right.
`Typed` also has that a counted message has a creator.

*Agreement* (`OneVotes`). While no server but `o` has performed a like, `o` keeps what
`Votes` makes of its log in the order of the indexes, and the times of its log do not go back
(`Own`). Every other server has exactly what it has filed of `o` in its list,
with times that strictly rise (`Following`): two likes of one second find no place,
and the server has panicked. So its list is sorted by the index too. When both have counted as many, nothing is filed
beyond, for what is filed was given, and the two sequences are the same. TLC checked `OneVotes` on the instance of
run `likes` (259 503 states) before it was proved.

`TransferProofs` proves, for every length of the files, every window of two packets or
more (the code's are 40 and 3000), every `MaxInFlight`, forgetful or not, of
`Transfer!Spec`, in which the network loses, repeats, delays and reorders: for a
receiver with at most two clients (`TwoClients`)

| Theorem | States |
|---|---|
| `Invariance` | `Spec => []Inv` |
| `TransferTypes` | `Spec => []TypeOK` |
| `FirstTurnsSound` | `Spec => []FirstTurnSound` |
| `WaitersStayKnown` | `Spec => []WaitersKnown` |
| `FirstTurnsCopy` | `Spec => FirstTurnCopies` |

and for a receiver with one client (`Client = {c}`), whose first turn never ends,

| Theorem | States |
|---|---|
| `OneClientInvariance` | `Spec => [](Inv /\ again = {})` |
| `SlotsKept` | `Spec => []SlotsHold` |
| `BufferedRight` | `Spec => []BufferSound` |
| `AcksTold` | `Spec => []AcksTrue` |
| `FileCopied` | `Spec => CopiesFiles`, if `Binary = {}`: no chunk has a NUL byte |

The number of clients and, for `FileCopied`, that no chunk has a NUL byte are
hypotheses of the theorems; the rest are the assumptions the modules name. Without
them they do not hold: `fwrite` is given `strlen` of a chunk (`Chunk`), a client of
two may be taken in again as a new one, and with three the queue (`queue.c`)
leaves its `head` on a node that is not in it. Two clients are as many as its memory bears: one
of them is being served, so there is never more than one node, and the dangling
`tail` it leaves is not looked at (`Freed`, `Holds`).

The argument has four parts. *Slots*: numbers less than a window apart
have slots of their own (`SlotsDiffer`), a fact about remainders that is proved
from division (`Rounded`, `SlotShift`). *The sender* (`Ready`): some packet `b`, not
above the next unacknowledged one, is the oldest in the window, `send_left` points to its
slot, and all packets from `b` to the last one read are in theirs
(`Base`); as long as there is something to read the window is full (`Slides`). This
is what `SlotsHold` lacks to be inductive: it says nothing of the slot that is
used next. After the end of the file the code goes on moving `send_left` and puts
the packet sent last there, whichever it was; it does so only over an
acknowledged packet, and once all are acknowledged `Slides` asks for nothing.
*The receiver and the client it serves* (`Serves`, `Turn`): the file is a
beginning of the client's (`Begins`); what is buffered is a packet of that file, in its
slot, at most one window ahead, because the sender is never further ahead of the
acknowledgements it has heard (`ReadAhead`), which the receiver has surpassed. Every
packet on its way is `Genuine` and every acknowledgement `Honest`, and both stay so,
however late they come. That the run of buffered packets found at the end of an
iteration exists and cannot be longer (`RunFacts`) is the one place that needs a
greatest number (`Greatest`, from the well-foundedness of `<`). *The other client*:
a client is called, taken in again, or served after it was, only when the other one
is done or has had its turn (`OthersDone`), for whoever is called is the only one
that waits, and the one served before it has just been finished. So what the end of a
first turn leaves behind, a name in the slot of another packet or a window full of packets of
a second transfer, disturbs nobody's first turn: the other one needs no more than to hear that it is done.
A client adopted or called for its first turn finds a window with nothing buffered, for the last
packet of a file is also the last one in the window (`Buffers`). What is known of a client in its
first turn is not touched by the other's steps (`Undisturbed`, `OthersKeep`).

`ChatClientProofs` proves, for every finite set of servers and groups, every set of
names, every screen size and every number of streams, commands and messages, of
`ChatClient!Spec`:

| Theorem | States |
|---|---|
| `ChatClientInvariance` | `Spec => []Inv` |
| `ChatClientTypes` | `Spec => []TypeOK`, whether the user is patient or not |
| `ServersStayUp` | `Spec => []ServersUp` |
| `OthersKeepTheirPlace` | `Spec => []OthersStay` |
| `ClientInStep` | `Spec => []InStep` |
| `ScreenStaysTrue` | `Spec => []ScreenTrue` |

Its assumptions are those `ChatClient` names for its constants. Without a patient
user only the types hold: who logs in again, or opens another stream, before a login is
answered may go on with an id that the stream's server never gave this client. `InStep` and `ScreenTrue` speak of moments at which nothing
is on its way and are far from inductive. `Calm(id, at, as)` says what they
rest on while something is: for each stream `k` there is an id `id[k]` that its server has given
it, and a group `at[k]` and a name `as[k]` under which the server has it, once and
nowhere else (`Placed`). The requests on the stream lead from there, one after
the other, to the group and name the client believes in (`Leads`, `Chained`): each names
the group and name the one before it leaves the client with, so that no handler
finds a nil entry (`ServersUp`). All carry `id[k]`, and
a login is the only request on its stream (`IdsRight`); an id given is above the id
of the other client (`IdsGiven`), which is why a join never takes that client's
entry. The two goroutines that share variables make the rest necessary. A stream
that was left has no login behind (`LeftQuiet`), whose late answer would overwrite
`user_id`; and as long as the goroutine is still on the old stream, the new one has
nothing but a login and its server has nothing of it (`TurnedOver`), so that no
screen is overlooked. The answers on their way leave a true screen (`LeavesTrue`): after the
last page among them, or after what is shown if there is none, come the lines
of that page, and each number stands for its message in the list
the server has now. An insertion changes numbers, but leaves the group `dirty` until the
screen is sent again; an append changes none, which is why `LeavesTrue` survives it.

The types rest on a count of their own (`Counts`): that ids stay within
`MaxCommands + 2` needs the logins still on their way, as a cardinality of the set of pending
requests, and that messages stay within `MaxMsgs` needs those asked for.
Before it was proved, TLC checked `Inv`, trying all ids, groups and names for `id`, `at` and `as`, on
the instance of run `client` (1 414 232 states) and on one with three streams,
two names and one message (503 087 states).

**Only model-checked.** Liveness (`EventuallyConverged`, `PathPropagation`,
`EventuallyLikesCounted`, `ListsReachPeer`, `QuitEnds`, `AllServed`): the prover
handles neither fairness nor `ENABLED`. Every invariant and every action property
of a run that passes is a theorem. Some have a hypothesis, which is named with the theorem: `LogAgreement` (no two
clients share a server), the properties of run `turns` (at most two clients) and those
of run `transfer` (one client).

## 6. Not modelled

* **Heartbeat and group list.** `AllGroup` answers every heartbeat with the groups
  a server has, on a stream that its receiver never reads; `CheckGroup` is never
  reached and no state depends on it. That the unread answers fill a
  flow-control window, and that two servers which send under their mutex can wait
  for each other, is a matter of the buffers of gRPC, which are not in this
  repository: a model would check a number of its own. `isOnline` is written
  and not read.
* **Composition of messages, likes and names.** `Replication`, `Likes` and
  `Membership` model the same streams, each for its kind of request. Together they
  are beyond TLC at the sizes at which each is interesting. Where one matters for
  another it is there: the placeholder a like makes for its message is in `Likes`,
  with one message and without its place in the list; the group that a report of
  names creates is `GroupMade` there.
* **`r`, `v`, `data`, `222`** of the client, and the test helpers of the server
  (`TestCase.go`, `PrintData`, `InspectMap`, the manual `AntiEntropy`,
  `SendGroupInfo`, `SendMessageList`, `SendLikeList`): `r` is `l` with another word;
  the others print or repeat what `Entropy` does.
* **Go's own checks.** The abort on a map that is iterated and written at once,
  which the unlocked paths risk, is not a state of the program to go on from.
* **File transfer over TCP, simulated annealing, generated code**: see section 1.
  The first has one reader and one writer on a reliable stream, the second
  is random and in floating point, the third is not the project's own.
* **Neither checked nor proved.** `Transfer` with three clients or more: the queue
  of the receiver then reads memory whose contents the code does not define.

`PROJECT.json` ("hazards") lists what is hard to test in this code, at its line,
with the properties that cover it or the reason why none does.
