------------------------------- MODULE Sender -------------------------------
(***************************************************************************)
(* The process that sends a file over UDP (ncp.c): its variables, and what *)
(* the parts of its loop make of them.                                     *)
(*                                                                         *)
(* Packet 1 carries the name of the file, packet k + 1 the k-th chunk of   *)
(* it.  A file has "full" chunks of BUF_SIZE bytes and then a last one,    *)
(* possibly empty.  "sending" collects the packets an iteration sends.     *)
(***************************************************************************)
EXTENDS Naturals

CONSTANT Window    \* window_size: 3000 or 40 in the code

ASSUME WindowAssumption == Window \in Nat \ {0, 1}

Slot == 0..(Window - 1)

\* Mutant of SlotOf: slots counted from one.
SlotOfFromOne(seq) == (seq % Window) + 1

SlotOf(seq) == seq % Window

Packet(seq, chunk, last) == [seq |-> seq, chunk |-> chunk, last |-> last]

NoPacket == Packet(0, 0, FALSE)      \* what a slot nobody wrote to holds

NamePacket == Packet(1, 0, FALSE)

SenderInit ==
    [running   |-> TRUE,
     seq       |-> 2,          \* the next packet
     read      |-> 0,          \* chunks read from the file
     left      |-> 1,          \* slot of the oldest packet
     cuAck     |-> 0,          \* cu_ack_seq
     window    |-> [i \in Slot |-> NoPacket],
     packet    |-> NoPacket,   \* send_pkt: the packet built or resent last
     sending   |-> {},
     firstOne  |-> TRUE,       \* the name has to be sent
     bootstrap |-> FALSE,      \* the window has to be filled
     wait      |-> FALSE,      \* blocked by the receiver
     flagFirst |-> TRUE, flagSecond |-> TRUE, flagThird |-> TRUE]

\* wait_exit: the last chunk has been read and sent.
ReadAll(s, full) == s.read > full

Sends(s, p) == [s EXCEPT !.packet = p, !.sending = @ \cup {p}]

-----------------------------------------------------------------------------
(***************************************************************************)
(* What the loop does with an acknowledgement r.                           *)
(***************************************************************************)
Called(s, r) == r.isLast = 3 /\ s.flagThird

Blocked(s, r) == r.isLast = 2 /\ s.flagSecond

Started(s, r) == ~Called(s, r) /\ r.cuAck = 1 /\ s.flagFirst

Heeded(s, r) ==
    [s EXCEPT !.firstOne = @ \/ Called(s, r),
              !.flagThird = @ /\ ~Called(s, r),
              !.wait = @ /\ ~Called(s, r),
              !.bootstrap = @ \/ Started(s, r),
              !.flagFirst = @ /\ ~Started(s, r),
              !.cuAck = IF @ < r.cuAck THEN r.cuAck ELSE @]

\* The packets from nackStart to nackEnd are sent again, as the slots hold them.
Resent(s, r) ==
    IF r.nackStart = 0 THEN s
    ELSE [s EXCEPT !.packet = s.window[SlotOf(r.nackEnd)],
                   !.sending = @ \cup {s.window[SlotOf(n)] : n \in r.nackStart..r.nackEnd}]

-----------------------------------------------------------------------------
(***************************************************************************)
(* The rest of an iteration: the packets it sends of its own accord.       *)
(***************************************************************************)
Named(s) ==
    [Sends(s, NamePacket) EXCEPT !.firstOne = FALSE, !.window[SlotOf(1)] = NamePacket]

\* The next chunk of a file, in a packet.
NextPacket(s, full) == Packet(s.seq, s.read + 1, s.read = full)

\* The bootstrap loop fills the window, or sends the whole file if that is less.
Filled(s, full) ==
    LET count == IF full + 1 - s.read < Window - 1 THEN full + 1 - s.read ELSE Window - 1
        ahead(k) == Packet(s.seq + k - 1, s.read + k, s.read + k = full + 1)
        into(i) == {k \in 1..count : SlotOf(s.seq + k - 1) = i}
    IN  [s EXCEPT !.seq = @ + count,
                  !.read = @ + count,
                  !.packet = ahead(count),
                  !.sending = @ \cup {ahead(k) : k \in 1..count},
                  !.bootstrap = FALSE,
                  !.window = [i \in Slot |-> IF into(i) = {} THEN @[i]
                                             ELSE ahead(CHOOSE k \in into(i) : TRUE)]]

\* Mutant of LeftFree: a slot counts as free one packet too early.
LeftFreeEarly(s) == s.window[s.left].seq <= s.cuAck + 1

LeftFree(s) == s.window[s.left].seq <= s.cuAck

\* A new packet goes into the slot of the oldest one; after the end of the
\* file, the packet sent last goes there, whichever it was.
Slid(s, full) ==
    LET t == IF ReadAll(s, full) THEN s ELSE
             [Sends(s, NextPacket(s, full)) EXCEPT
                 !.read = @ + 1,
                 !.seq = IF s.read = full THEN @ ELSE @ + 1]
    IN  [t EXCEPT !.window[s.left] = t.packet, !.left = SlotOf(s.left + 1)]

\* Mutant of TimedOut: the packet sent last is sent again.
TimedOutLast(s) == Sends(s, s.packet)

\* The oldest packet's time has run out.
TimedOut(s) == Sends(s, s.window[s.left])

\* What an iteration may end with.
Rounds(s, full) ==
    LET filled == IF s.bootstrap THEN Filled(s, full) ELSE s
    IN  IF s.firstOne THEN {Named(s)}
        ELSE IF s.wait THEN {s}
        ELSE IF LeftFree(filled) THEN {Slid(filled, full)}
        ELSE {filled, TimedOut(filled)}
=============================================================================
