------------------------------ MODULE Receiver ------------------------------
(***************************************************************************)
(* The process that receives files over UDP (rcv.c), one client at a time: *)
(* its variables, and what the parts of its loop make of them.             *)
(*                                                                         *)
(* A client is known by its port (current_sbuf); the address the answers   *)
(* go to (current_addr) is that client's.  The window is one block of      *)
(* memory: what malloc hands out for the next client is the block freed    *)
(* for the last one, with its contents; the first block is zero.           *)
(***************************************************************************)
EXTENDS Sender, ClientQueue

Ack(cuAck, nackStart, nackEnd, isLast) ==
    [cuAck |-> cuAck, nackStart |-> nackStart, nackEnd |-> nackEnd, isLast |-> isLast]

BlockAck == Ack(0, 0, 0, 2)     \* wait
CallAck == Ack(0, 0, 0, 3)      \* go on, it is your turn
EndAck == Ack(0, 0, 0, 1)       \* everything has arrived

ReceiverInit ==
    [serveFirst |-> TRUE,       \* nobody is being served
     current    |-> Nobody,     \* the client being served, or served last
     cuAck      |-> 0,
     cuAlready  |-> 0,          \* packets up to here came or were asked for
     window     |-> [i \in Slot |-> [status |-> "e", packet |-> NoPacket]],
     ifStart    |-> FALSE,      \* the name has come
     wait       |-> FALSE,      \* a client from the queue has been called
     queue      |-> queue_create]

-----------------------------------------------------------------------------
(***************************************************************************)
(* A packet from a client that is not being served.                        *)
(***************************************************************************)
\* The window is allocated, and the packet itself is dropped.
Adopted(r, c) == [r EXCEPT !.serveFirst = FALSE, !.current = c]

\* Mutant of Enqueued: a client that is not in the queue is not put there.
EnqueuedNever(r, c) == r

Enqueued(r, c) ==
    IF is_in_queue(r.queue, c) THEN r ELSE [r EXCEPT !.queue = queue_enqueue(@, c)]

-----------------------------------------------------------------------------
(***************************************************************************)
(* A packet p from the client being served.                                *)
(***************************************************************************)
Accepts(r, p) == p.seq > r.cuAck /\ r.window[SlotOf(p.seq)].status # "b"

\* Mutant of InTurn: packets are written as they come.
InTurnAny(r, p) == Accepts(r, p)

InTurn(r, p) == Accepts(r, p) /\ p.seq = r.cuAck + 1

Early(r, p) == Accepts(r, p) /\ p.seq # r.cuAck + 1

Opened(r) == [r EXCEPT !.cuAck = 1, !.ifStart = TRUE, !.wait = FALSE]

Delivered(r, p) ==
    [r EXCEPT !.cuAck = @ + 1, !.window[SlotOf(p.seq)].status = "e"]

\* A gap is asked for once: from what came or was asked for last to before p.
Gap(r, p) == p.seq > r.cuAlready + 1

Buffered(r, p) ==
    [r EXCEPT !.window[SlotOf(p.seq)] = [status |-> "b", packet |-> p],
              !.cuAlready = IF Gap(r, p) THEN p.seq ELSE @]

\* Mutant of BufferAck: what arrived early is acknowledged.
BufferAckEarly(r, p) == Ack(p.seq, 0, 0, 0)

BufferAck(r, p) ==
    IF Gap(r, p) THEN Ack(r.cuAck, r.cuAlready + 1, p.seq - 1, 0)
                 ELSE Ack(r.cuAck, 0, 0, 0)

-----------------------------------------------------------------------------
(***************************************************************************)
(* The end of an iteration: buffered packets whose turn it is, and the     *)
(* next client.                                                            *)
(***************************************************************************)
\* The k-th packet after the last one delivered, as the window has it.
Ahead(r, k) == r.window[SlotOf(r.cuAck + k)]

\* How many buffered packets follow, up to the last packet of the file.
Run(r) ==
    CHOOSE n \in 0..Window :
        /\ \A k \in 1..n : Ahead(r, k).status = "b"
        /\ \A k \in 1..(n - 1) : ~Ahead(r, k).packet.last
        /\ \/ n = Window \/ Ahead(r, n + 1).status # "b"
           \/ n > 0 /\ Ahead(r, n).packet.last

\* Mutant of Drained: the slots stay marked as buffered.
DrainedMarked(r, n) == [r EXCEPT !.cuAck = @ + n]

Drained(r, n) ==
    [r EXCEPT !.cuAck = @ + n,
              !.window = [i \in Slot |->
                  IF \E k \in 1..n : SlotOf(r.cuAck + k) = i
                  THEN [@[i] EXCEPT !.status = "e"] ELSE @[i]]]

CaughtUp(r) == [r EXCEPT !.cuAlready = IF @ < r.cuAck THEN r.cuAck ELSE @]

\* Mutant of Closed: the next client's numbers go on from the last one's.
ClosedStale(r) ==
    IF r.queue.count = 0 THEN [r EXCEPT !.ifStart = FALSE, !.serveFirst = TRUE]
    ELSE [r EXCEPT !.ifStart = FALSE, !.current = First(r.queue), !.wait = TRUE,
                   !.queue = queue_dequeue(@)]

\* The file is closed; the first client of the queue is called.
Closed(r) ==
    LET reset == [r EXCEPT !.cuAck = 0, !.cuAlready = 0, !.ifStart = FALSE, !.wait = FALSE]
    IN  IF r.queue.count = 0 THEN [reset EXCEPT !.serveFirst = TRUE]
        ELSE [reset EXCEPT !.current = First(r.queue), !.wait = TRUE,
                           !.queue = queue_dequeue(@)]
=============================================================================
