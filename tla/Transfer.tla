------------------------------ MODULE Transfer ------------------------------
(***************************************************************************)
(* File transfer over UDP: the clients (ncp.c), the receiver that serves   *)
(* them one after the other (rcv.c), and a network that loses, delays,     *)
(* repeats and reorders what they send.                                    *)
(*                                                                         *)
(* One step is one iteration of a process's loop.  The receiver's closing  *)
(* of a file, with which the next iteration would begin, is the end of the *)
(* iteration that delivers the last packet: nothing happens in between.    *)
(***************************************************************************)
EXTENDS Receiver, FiniteSets

CONSTANTS Full,          \* per client, the number of full chunks of its file
          Binary,        \* the numbers of the chunks that contain a NUL byte
          Drops,         \* whether the network forgets what it does not deliver
          MaxInFlight    \* bound: what it then holds for one receiver

ASSUME FullAssumption == Full \in [Client -> Nat]
ASSUME DropsAssumption == Drops \in BOOLEAN /\ MaxInFlight \in Nat \ {0}

VARIABLES
    snd,        \* per client, its process
    rcv,        \* the receiving process
    packets,    \* per client, its packets in the network
    acks,       \* per client, the acknowledgements on their way to it
    written,    \* per client, the chunks in the file its name stands for
    again       \* what the code does not keep: the clients that were taken
                \* for new ones after their file was complete, or were called
                \* to begin after they had begun

vars == <<snd, rcv, packets, acks, written, again>>

Init ==
    /\ snd = [c \in Client |-> SenderInit]
    /\ rcv = ReceiverInit
    /\ packets = [c \in Client |-> {}]
    /\ acks = [c \in Client |-> {}]
    /\ written = [c \in Client |-> <<>>]
    /\ again = {}

\* sendto_dbg and the network drop what they like; what has been received may
\* come again, for it may have been sent twice.  What never arrives is as good as
\* dropped: only what must come at last can tell whether the network forgets.
Carried(old, new) ==
    IF Drops THEN {n \in SUBSET (old \cup new) : Cardinality(n) <= MaxInFlight}
             ELSE {old \cup new}

\* fwrite writes strlen(payload) bytes: a chunk up to its first NUL byte.
Chunk(p) == [chunk |-> p.chunk, whole |-> p.chunk \notin Binary]

Complete(c) == Len(written[c]) = Full[c] + 1

-----------------------------------------------------------------------------
(***************************************************************************)
(* A client.                                                               *)
(***************************************************************************)
\* c ends its iteration as s, whose packets go to the network.
Becomes(c, s) ==
    /\ snd' = [snd EXCEPT ![c] = [s EXCEPT !.sending = {}]]
    /\ \E n \in Carried(packets[c], s.sending) : packets' = [packets EXCEPT ![c] = n]
    /\ UNCHANGED <<rcv, written>>

\* An iteration in which no acknowledgement has arrived, unless it does nothing.
Proceed(c) ==
    /\ snd[c].running
    /\ \E s \in Rounds(snd[c], Full[c]) : s # snd[c] /\ Becomes(c, s)
    /\ UNCHANGED <<acks, again>>

\* The name was acknowledged already: it goes into the slot of a later packet.
CalledLate(s, r) == Called(s, r) /\ ~s.flagFirst

Hears(c, r) ==
    /\ snd[c].running
    /\ r \in acks[c]
    /\ \E n \in Carried(acks[c], {}) : acks' = [acks EXCEPT ![c] = n]
    /\ again' = again \cup {d \in {c} : CalledLate(snd[d], r)}

\* The server is busy: c waits for its call and sends nothing.
HearBlock(c, r) ==
    /\ Blocked(snd[c], r)
    /\ Becomes(c, [snd[c] EXCEPT !.wait = TRUE, !.flagSecond = FALSE])

HearEnd(c, r) ==
    /\ r.isLast = 1
    /\ Becomes(c, [Heeded(snd[c], r) EXCEPT !.running = FALSE])

HearOther(c, r) ==
    /\ ~Blocked(snd[c], r)
    /\ r.isLast # 1
    /\ \E s \in Rounds(Resent(Heeded(snd[c], r), r), Full[c]) : Becomes(c, s)

Hear(c, r) == Hears(c, r) /\ (HearBlock(c, r) \/ HearEnd(c, r) \/ HearOther(c, r))

-----------------------------------------------------------------------------
(***************************************************************************)
(* The receiver.                                                           *)
(***************************************************************************)
Takes(c, p) ==
    /\ p \in packets[c]
    /\ \E n \in Carried(packets[c], {}) : packets' = [packets EXCEPT ![c] = n]
    /\ UNCHANGED snd

Answer(c, replies) ==
    \E n \in Carried(acks[c], replies) : acks' = [acks EXCEPT ![c] = n]

Serving(c) == ~rcv.serveFirst /\ rcv.current = c

Adopt(c) ==
    /\ rcv.serveFirst
    /\ rcv.current # c
    /\ rcv' = Adopted(rcv, c)
    /\ UNCHANGED <<acks, written>>

\* Mutant of Remind: any client is told that its transfer is over.
RemindAnyone(c) == rcv.serveFirst /\ Answer(c, {EndAck}) /\ UNCHANGED <<rcv, written>>

\* The client served last has not heard that its transfer is over.
Remind(c) ==
    /\ rcv.serveFirst
    /\ rcv.current = c
    /\ Answer(c, {EndAck})
    /\ UNCHANGED <<rcv, written>>

Block(c, p) ==
    /\ ~rcv.serveFirst
    /\ rcv.current # c
    /\ rcv' = Enqueued(rcv, c)
    /\ Answer(c, {IF p.last THEN EndAck ELSE BlockAck})
    /\ UNCHANGED written

\* The last packet of c's file has been written; r is what that leaves.
Close(c, r, replies) ==
    LET next == IF r.queue.count = 0 THEN c ELSE First(r.queue)
    IN  /\ rcv' = Closed(r)
        /\ \E own \in Carried(acks[c], replies) :
              IF next = c THEN acks' = [acks EXCEPT ![c] = own]
              ELSE \E called \in Carried(acks[next], {CallAck}) :
                       acks' = [acks EXCEPT ![c] = own, ![next] = called]

\* What was buffered and is next is written, and the iteration ends.
Finish(c, r, file, replies) ==
    LET n == IF r.ifStart THEN Run(r) ELSE 0
        s == CaughtUp(Drained(r, n))
        over == n > 0 /\ Ahead(r, n).packet.last
        more == IF n = 0 THEN {} ELSE {Ack(s.cuAck, 0, 0, IF over THEN 1 ELSE 0)}
    IN  /\ written' = [written EXCEPT ![c] =
                          file \o [k \in 1..n |-> Chunk(Ahead(r, k).packet)]]
        /\ IF over THEN Close(c, s, replies \cup more)
           ELSE rcv' = s /\ Answer(c, replies \cup more)

Open(c, p) ==
    /\ InTurn(rcv, p)
    /\ p.seq = 1
    /\ Finish(c, Opened(rcv), <<>>, {Ack(1, 0, 0, 0)})

Deliver(c, p) ==
    /\ InTurn(rcv, p)
    /\ p.seq # 1
    /\ LET r == Delivered(rcv, p)
           file == Append(written[c], Chunk(p))
       IN  IF p.last
           THEN /\ written' = [written EXCEPT ![c] = file]
                /\ Close(c, CaughtUp(r), {Ack(r.cuAck, 0, 0, 1)})
           ELSE Finish(c, r, file, {Ack(r.cuAck, 0, 0, 0)})

Buffer(c, p) ==
    /\ Early(rcv, p)
    /\ Finish(c, Buffered(rcv, p), written[c], {BufferAck(rcv, p)})

\* A packet that has been written already.
Repeat(c, p) ==
    /\ p.seq <= rcv.cuAck
    /\ Answer(c, {Ack(rcv.cuAck, 0, 0, 0)})
    /\ UNCHANGED <<rcv, written>>

Serve(c, p) == Serving(c) /\ (Open(c, p) \/ Deliver(c, p) \/ Buffer(c, p) \/ Repeat(c, p))

\* The receiver knows clients by their ports only: a client whose file is
\* complete is queued by what it sent before it heard so, or adopted by it if
\* another client was served in between.
Remember ==
    LET taken(d) == \/ is_in_queue(rcv'.queue, d)
                    \/ rcv.current # d /\ rcv'.current = d
    IN  again' = again \cup {d \in Client : Complete(d) /\ taken(d)}

Receive(c, p) ==
    /\ Takes(c, p)
    /\ Adopt(c) \/ Remind(c) \/ Block(c, p) \/ Serve(c, p)
    /\ Remember

\* The call is repeated when one iteration takes longer than wait_time: the
\* time is taken anew in every iteration.
CallAgain(c) ==
    /\ Serving(c)
    /\ rcv.wait
    /\ ~rcv.ifStart
    /\ Answer(c, {CallAck})
    /\ UNCHANGED <<snd, rcv, packets, written, again>>

-----------------------------------------------------------------------------
ClientNext(c) == Proceed(c) \/ \E r \in acks[c] : Hear(c, r)

ReceiverNext(c) == CallAgain(c) \/ \E p \in packets[c] : Receive(c, p)

Next == \E c \in Client : ClientNext(c) \/ ReceiverNext(c)

Spec == Init /\ [][Next]_vars

(***************************************************************************)
(* Every process goes on with its loop, and what is sent again and again   *)
(* arrives again and again: the packet a client sent last gets into the    *)
(* network and out of it, the answer to it gets into the network, and an   *)
(* acknowledgement that tells a client something new gets out of it.       *)
(***************************************************************************)
News(c, r) == \/ r.cuAck > snd[c].cuAck
              \/ r.isLast = 1
              \/ Called(snd[c], r) \/ Blocked(snd[c], r)

Sent(c) == Proceed(c) /\ snd'[c].packet \in packets'[c]

Arrives(c) ==
    /\ \E p \in packets[c] : p = snd[c].packet /\ Receive(c, p)
    /\ rcv' # rcv \/ \E r \in acks'[c] : News(c, r)

Tells(c) == \E r \in acks[c] : News(c, r) /\ Hear(c, r)

Fairness ==
    \A c \in Client : /\ WF_vars(Proceed(c)) /\ SF_vars(Sent(c))
                      /\ SF_vars(Arrives(c)) /\ SF_vars(Tells(c))

FairSpec == Spec /\ Fairness

-----------------------------------------------------------------------------
(***************************************************************************)
(* Properties.                                                             *)
(***************************************************************************)
PacketType == [seq : Nat, chunk : Nat, last : BOOLEAN]

AckType == [cuAck : Nat, nackStart : Nat, nackEnd : Nat, isLast : 0..3]

\* Every variable keeps its shape.
TypeOK ==
    /\ \A c \in Client :
          /\ snd[c].window \in [Slot -> PacketType]
          /\ snd[c].left \in Slot
          /\ snd[c].packet \in PacketType
          /\ snd[c].read \in 0..(Full[c] + 1)
          /\ packets[c] \subseteq PacketType
          /\ acks[c] \subseteq AckType
          /\ written[c] \in Seq([chunk : Nat, whole : BOOLEAN])
    /\ rcv.current \in Client \cup {Nobody}
    /\ rcv.window \in [Slot -> [status : {"e", "b"}, packet : PacketType]]
    /\ rcv.cuAck \in Nat

\* The packets c has sent at least once and does not know to be delivered.
Outstanding(c) ==
    {n \in (snd[c].cuAck + 1)..(snd[c].read + 1) : n > 1 \/ ~snd[c].firstOne}

KeepsSlots(c) == \A n \in Outstanding(c) : snd[c].window[SlotOf(n)].seq = n

\* Every packet that may have to be sent again is in its slot, whatever was
\* put into slots that the acknowledgements had freed.
SlotsHold == \A c \in Client : KeepsSlots(c)

\* What is buffered is in the slot of its number, within one window of what
\* has been delivered, and is not the next packet; a window that is not in use
\* has nothing buffered in it, so that the next client finds it empty.
BufferSound ==
    \A i \in Slot : rcv.window[i].status = "b" =>
        /\ rcv.ifStart
        /\ SlotOf(rcv.window[i].packet.seq) = i
        /\ rcv.window[i].packet.seq \in (rcv.cuAck + 2)..(rcv.cuAck + Window)

HearsTruth(c) ==
    \A r \in acks[c] : /\ r.cuAck <= Len(written[c]) + 1
                       /\ r.isLast = 1 => Complete(c)

\* An acknowledgement on its way speaks only of packets that were written.
AcksTrue == \A c \in Client : HearsTruth(c)

Copy == INSTANCE FileCopy WITH
            Total <- [c \in Client |-> Full[c] + 1],
            copied <- [c \in Client |-> [k \in DOMAIN written[c] |->
                          IF written[c][k].whole THEN written[c][k].chunk ELSE 0]],
            ended <- {c \in Client : ~snd[c].running}

\* The receiver writes each file from its beginning without gaps, and no
\* client ends before all of its file is written.
CopiesFiles == Copy!Spec

\* Every client's transfer comes to its end.
AllServed == \A c \in Client : <>~snd[c].running

-----------------------------------------------------------------------------
(***************************************************************************)
(* Properties of several clients: a client's first turn ends when it is    *)
(* taken in again, or called when it has begun.                            *)
(***************************************************************************)
\* In its first turn, whoever else is served, queued or taken in again, a
\* client keeps what it may have to send again, is told nothing untrue, and
\* has only what it may still need in the receiver's window.
FirstTurnSound ==
    /\ \A c \in Client \ again : KeepsSlots(c) /\ HearsTruth(c)
    /\ rcv.current \notin again => BufferSound

\* In its first turn, a client's file only grows, from its beginning, and the
\* client ends only when its file is complete.
FirstTurnCopies ==
    [][\A c \in Client \ again' :
          /\ \A k \in DOMAIN written'[c] : written'[c][k].chunk = k
          /\ Len(written'[c]) >= Len(written[c])
          /\ snd'[c].running \/ Complete(c)]_vars

\* Nobody is forgotten in its first turn: a client that was told to wait is in
\* the queue, or it is its turn, or its file is complete.
WaitersKnown ==
    \A c \in Client \ again : snd[c].wait =>
        is_in_queue(rcv.queue, c) \/ Serving(c) \/ Complete(c)
=============================================================================
