--------------------------- MODULE TransferProofs ---------------------------
(***************************************************************************)
(* The receiver and its clients, over a network that loses, repeats,       *)
(* delays and reorders: the sliding window of ncp.c and rcv.c copies the   *)
(* file of one client, and those of two clients until one of them is taken *)
(* in again or called late, for every length of the files, every window    *)
(* and any number of packets and acknowledgements on their way.            *)
(***************************************************************************)
EXTENDS SenderProofs, SequenceTheorems, WellFoundedInduction

-----------------------------------------------------------------------------
(***************************************************************************)
(* The inductive invariant.                                                *)
(***************************************************************************)
TwoClients == \A x, y, z \in Client : x = y \/ x = z \/ y = z

\* Two clients make a queue of one node, which is allocated again and again.
Freed == [cell |-> <<[client |-> Nobody, next |-> Nil]>>, free |-> <<1>>,
          head |-> Nil, tail |-> Nil, count |-> 0]

Holds(d) == [cell |-> <<[client |-> d, next |-> Nil]>>, free |-> <<>>,
             head |-> 1, tail |-> Nil, count |-> 1]

EmptyQueues == {queue_create, Freed}

ReceiverType ==
    [serveFirst : BOOLEAN, current : Client \cup {Nobody}, cuAck : Nat, cuAlready : Nat,
     window : [Slot -> [status : {"e", "b"}, packet : PacketType]],
     ifStart : BOOLEAN, wait : BOOLEAN, queue : EmptyQueues \cup {Holds(d) : d \in Client}]

Written == [chunk : Nat, whole : BOOLEAN]

Types ==
    /\ snd \in [Client -> SenderType]
    /\ \A c \in Client : Shaped(snd[c], Full[c])
    /\ rcv \in ReceiverType
    /\ packets \in [Client -> SUBSET PacketType]
    /\ acks \in [Client -> SUBSET AckType]
    /\ written \in [Client -> Seq(Written)]

\* The clients in their first turn.
Fresh == Client \ again

\* There is somebody else, and no other client is still to be served.
OthersDone(c) == Client # {c} /\ \A d \in Fresh \ {c} : Complete(d)

Known(c) == is_in_queue(rcv.queue, c) \/ Serving(c) \/ Complete(c)

Top(c) == snd[c].read + 1

\* The last of c's packets that the receiver has taken.
GotOf(c) == IF Complete(c) THEN Full[c] + 2 ELSE IF Serving(c) THEN rcv.cuAck ELSE 0

\* What an acknowledgement can say when got packets were taken.
Honest(got, full) ==
    {a \in AckType :
        /\ a.cuAck <= got
        /\ a.isLast = 1 => got = full + 2 /\ a.cuAck # 1
        /\ a.isLast = 3 => a.cuAck = 0}

\* The file w is a beginning.
Begins(w) ==
    /\ w \in Seq(Written)
    /\ \A k \in 1..Len(w) : w[k] = [chunk |-> k, whole |-> k \notin Binary]

\* A client in its first turn, and what is on its way from and to it.
Turn(c) ==
    /\ Ready(snd[c], Full[c]) /\ snd[c].sending = {}
    /\ packets[c] \subseteq Genuine(Full[c], Top(c))
    /\ acks[c] \subseteq Honest(GotOf(c), Full[c])
    /\ snd[c].firstOne => packets[c] = {} /\ ~Known(c)
    /\ snd[c].cuAck <= GotOf(c) /\ GotOf(c) <= Top(c)
    /\ snd[c].running \/ Complete(c)
    /\ snd[c].wait \/ (\E a \in acks[c] : a.isLast = 2) => Known(c)
    /\ (\E a \in acks[c] : a.isLast = 3) => OthersDone(c)
    /\ Begins(written[c])
    /\ Serving(c) \/ Complete(c) \/ written[c] = <<>>

\* What is buffered is in its slot, at most one window ahead.
Buffers(r, full, top, from) ==
    \A i \in Slot : r.window[i].status = "b" =>
        LET p == r.window[i].packet
        IN  /\ r.ifStart
            /\ p \in Genuine(full, top)
            /\ SlotOf(p.seq) = i
            /\ p.seq \in (r.cuAck + from)..(r.cuAck + Window)

\* The receiver serves c in its first turn, or has just done so.
Serves(c) ==
    /\ Buffers(rcv, Full[c], Top(c), 2)
    /\ rcv.wait => OthersDone(c)
    /\ IF rcv.serveFirst THEN Complete(c)
       ELSE /\ ~Complete(c) /\ rcv.cuAck < Full[c] + 2
            /\ IF rcv.ifStart THEN rcv.cuAck = Len(written[c]) + 1
                              ELSE rcv.cuAck = 0 /\ written[c] = <<>>

Idle == rcv.cuAck = 0 /\ ~rcv.ifStart /\ ~rcv.wait /\ rcv.queue \in EmptyQueues

Untouched ==
    /\ rcv.serveFirst /\ again = {}
    /\ \A c \in Client : ~Complete(c)
    /\ \A i \in Slot : rcv.window[i].status # "b"

\* The receiver.  It takes a client in again only when nobody else is to be served.
Receives ==
    /\ rcv.serveFirst => Idle
    /\ rcv.current = Nobody => Untouched
    /\ rcv.current \in Fresh => Serves(rcv.current)
    /\ rcv.current \in again => OthersDone(rcv.current)
    /\ \A d \in Client : rcv.queue = Holds(d) =>
           rcv.current # d /\ (Complete(d) => d \in again)

Inv == Types /\ (\A c \in Fresh : Turn(c)) /\ Receives

-----------------------------------------------------------------------------
(***************************************************************************)
(* The queue.                                                              *)
(***************************************************************************)
LEMMA QueueChanges ==
    ASSUME NEW c0, NEW f0, NEW h0, NEW t0, NEW n0, NEW c1, NEW f1, NEW h1, NEW n1
    PROVE  [[cell |-> c0, free |-> f0, head |-> h0, tail |-> t0, count |-> n0]
                EXCEPT !.cell = c1, !.free = f1, !.head = h1, !.count = n1]
             = [cell |-> c1, free |-> f1, head |-> h1, tail |-> t0, count |-> n1]
<1> DEFINE q == [[cell |-> c0, free |-> f0, head |-> h0, tail |-> t0, count |-> n0]
                    EXCEPT !.cell = c1, !.free = f1, !.head = h1, !.count = n1]
           r == [cell |-> c1, free |-> f1, head |-> h1, tail |-> t0, count |-> n1]
           names == {"cell", "free", "head", "tail", "count"}
<1>1. q.cell = r.cell /\ q.free = r.free /\ q.head = r.head /\ q.tail = r.tail
      /\ q.count = r.count
  OBVIOUS
<1>2. q = [n \in names |-> q[n]] /\ r = [n \in names |-> r[n]]
  OBVIOUS
<1> HIDE DEF q, r
<1>3. \A n \in names : q[n] = r[n]
  BY <1>1
<1>4. [n \in names |-> q[n]] = [n \in names |-> r[n]]
  BY <1>3
<1>5. q = r
  BY <1>2, <1>4
<1> QED
  BY <1>5 DEF q, r

LEMMA NoneWaits ==
    ASSUME NEW q \in EmptyQueues, NEW d
    PROVE  q.count = 0 /\ ~is_in_queue(q, d) /\ queue_enqueue(q, d) = Holds(d)
<1>1. q.count = 0
  BY DEF EmptyQueues, queue_create, Freed
<1>2. ~is_in_queue(q, d)
  BY <1>1 DEF is_in_queue
<1>3. CASE q = queue_create
  <2>1. Allocated(q) = 1
    BY <1>3 DEF Allocated, queue_create
  <2>2. Append(<<>>, [client |-> d, next |-> Nil]) = <<[client |-> d, next |-> Nil]>>
    OBVIOUS
  <2>3. /\ q.free = <<>> /\ q.cell = <<>> /\ q.head = Nil /\ q.count = 0 /\ q.tail = Nil
        /\ DOMAIN q = {"cell", "free", "head", "tail", "count"}
    BY <1>3 DEF queue_create
  <2>4. 0 + 1 = 1
    OBVIOUS
  <2>6. queue_enqueue(q, d) = [q EXCEPT !.cell = <<[client |-> d, next |-> Nil]>>, !.free = <<>>,
                                        !.head = 1, !.count = 0 + 1]
    BY <2>1, <2>2, <2>3 DEF queue_enqueue
  <2>5. queue_enqueue(q, d) = Holds(d)
    BY <1>3, <2>4, <2>6, QueueChanges, Zenon DEF queue_create, Holds
  <2> QED
    BY <1>1, <1>2, <2>5
<1>4. CASE q = Freed
  <2>1. Allocated(q) = 1 /\ q.free # <<>> /\ Tail(q.free) = <<>>
    BY <1>4 DEF Allocated, Freed
  <2>2. [<<[client |-> Nobody, next |-> Nil]>> EXCEPT ![1].client = d]
           = <<[client |-> d, next |-> Nil]>>
    OBVIOUS
  <2>3. q.cell = <<[client |-> Nobody, next |-> Nil]>> /\ q.head = Nil /\ q.count = 0
    BY <1>4 DEF Freed
  <2>4. 0 + 1 = 1
    OBVIOUS
  <2>6. queue_enqueue(q, d) = [q EXCEPT !.cell = <<[client |-> d, next |-> Nil]>>, !.free = <<>>,
                                        !.head = 1, !.count = 0 + 1]
    BY <2>1, <2>2, <2>3 DEF queue_enqueue
  <2>5. queue_enqueue(q, d) = Holds(d)
    BY <1>4, <2>4, <2>6, QueueChanges, Zenon DEF Freed, Holds
  <2> QED
    BY <1>1, <1>2, <2>5
<1> QED
  BY <1>3, <1>4 DEF EmptyQueues

LEMMA OneWaits ==
    ASSUME NEW d
    PROVE  /\ Holds(d).count = 1 /\ First(Holds(d)) = d /\ queue_dequeue(Holds(d)) = Freed
           /\ \A e : is_in_queue(Holds(d), e) <=> e = d
           /\ \A e : Holds(d) = Holds(e) => d = e
           /\ Holds(d) \notin EmptyQueues
<1> DEFINE q == Holds(d)
           one == <<[client |-> d, next |-> Nil]>>
<1>1. q.count = 1 /\ q.cell = one /\ q.head = 1 /\ q.free = <<>> /\ one[1].client = d
      /\ one[1].next = Nil
  BY DEF Holds
<1>2. First(q) = d
  BY <1>1 DEF First
<1>3. queue_dequeue(q) = Freed
  <2>1. [one EXCEPT ![1].client = Nobody] = <<[client |-> Nobody, next |-> Nil]>>
    OBVIOUS
  <2>2. Reclaimed(q, 1) = <<1>>
    BY <1>1 DEF Reclaimed
  <2>3. queue_dequeue(q) = [q EXCEPT !.cell = <<[client |-> Nobody, next |-> Nil]>>,
                                     !.free = <<1>>, !.head = Nil, !.count = 1 - 1]
    BY <1>1, <2>1, <2>2 DEF queue_dequeue
  <2> QED
    <3>1. 1 - 1 = 0
      OBVIOUS
    <3> QED
      BY <2>3, <3>1, QueueChanges, Zenon DEF Holds, Freed
<1>4. Waiting(q)[1] = d
  <2> DEFINE next(n) == IF n = Nil THEN Nil ELSE q.cell[n].next
             at[k \in 1..q.count] == IF k = 1 THEN q.head ELSE next(at[k - 1])
  <2>1. at = [k \in 1..q.count |-> IF k = 1 THEN q.head ELSE next(at[k - 1])]
    <3> DEFINE f == [k \in {1} |-> q.head]
    <3>1. 1..q.count = {1}
      BY <1>1
    <3>2. f = [k \in 1..q.count |-> IF k = 1 THEN q.head ELSE next(f[k - 1])]
      BY <3>1
    <3> HIDE DEF f, next
    <3> QED
      BY <3>2
  <2>2. at[1] = 1
    BY <1>1, <2>1
  <2>3. Waiting(q) = [k \in 1..q.count |-> IF at[k] = Nil THEN Nobody ELSE q.cell[at[k]].client]
    BY DEF Waiting
  <2> HIDE DEF at
  <2> QED
    BY <1>1, <2>2, <2>3 DEF Nil
<1>5. \A e : is_in_queue(q, e) <=> e = d
  BY <1>1, <1>4 DEF is_in_queue
<1>6. ASSUME NEW e, Holds(d) = Holds(e) PROVE d = e
  BY <1>2, <1>6 DEF First, Holds
<1>7. q \notin EmptyQueues
  BY <1>1 DEF EmptyQueues, queue_create, Freed
<1> QED
  BY <1>1, <1>2, <1>3, <1>5, <1>6, <1>7

-----------------------------------------------------------------------------
(***************************************************************************)
(* What the invariant says of one client.                                  *)
(***************************************************************************)
LEMMA ClientFacts ==
    ASSUME Inv, NEW c \in Client
    PROVE  /\ Full[c] \in Nat /\ Shaped(snd[c], Full[c])
           /\ snd[c].read \in Nat /\ snd[c].cuAck \in Nat
           /\ Top(c) \in Nat /\ Top(c) >= 1 /\ Top(c) <= Full[c] + 2
           /\ rcv \in ReceiverType /\ rcv.cuAck \in Nat /\ GotOf(c) \in Nat
           /\ written[c] \in Seq(Written) /\ Len(written[c]) \in Nat
           /\ packets[c] \subseteq PacketType /\ acks[c] \subseteq AckType
<1>1. Full[c] \in Nat
  BY FullAssumption
<1>2. Shaped(snd[c], Full[c])
  BY DEF Inv, Types
<1>3. snd[c].read \in 0..(Full[c] + 1) /\ snd[c].cuAck \in Nat
  BY <1>1, <1>2, ShapedFacts
<1>4. rcv \in ReceiverType
  BY DEF Inv, Types
<1>5. rcv.cuAck \in Nat
  BY <1>4 DEF ReceiverType
<1>6. written[c] \in Seq(Written) /\ packets[c] \subseteq PacketType /\ acks[c] \subseteq AckType
  BY DEF Inv, Types
<1>7. Len(written[c]) \in Nat
  BY <1>6
<1> QED
  BY <1>1, <1>2, <1>3, <1>4, <1>5, <1>6, <1>7 DEF Top, GotOf

LEMMA TurnFacts ==
    ASSUME Inv, NEW c \in Fresh
    PROVE  /\ c \in Client /\ c \notin again /\ Turn(c)
           /\ GotOf(c) <= Top(c) /\ GotOf(c) <= Full[c] + 2 /\ snd[c].cuAck <= GotOf(c)
           /\ Complete(c) => Top(c) = Full[c] + 2 /\ ~snd[c].firstOne
<1>1. c \in Client /\ c \notin again /\ Turn(c)
  BY DEF Inv, Fresh
<1>2. GotOf(c) <= Top(c) /\ snd[c].cuAck <= GotOf(c)
  BY <1>1 DEF Turn
<1>3. Top(c) \in Nat /\ Top(c) <= Full[c] + 2 /\ GotOf(c) \in Nat /\ Full[c] \in Nat
  BY <1>1, ClientFacts
<1>4. ASSUME Complete(c) PROVE Top(c) = Full[c] + 2 /\ ~snd[c].firstOne
  <2>1. GotOf(c) = Full[c] + 2 /\ Known(c)
    BY <1>4 DEF GotOf, Known
  <2> QED
    BY <1>1, <1>2, <1>3, <2>1 DEF Turn
<1> QED
  BY <1>1, <1>2, <1>3, <1>4

\* What c can hear in its first turn.
LEMMA AckFacts ==
    ASSUME Inv, NEW c \in Fresh, NEW r \in acks[c]
    PROVE  /\ r \in AckType /\ r.cuAck \in Nat /\ r.cuAck <= GotOf(c)
           /\ r.cuAck <= snd[c].read + 1
           /\ r.isLast = 1 => Complete(c) /\ Known(c)
           /\ r.isLast = 2 => Known(c)
           /\ r.isLast = 3 => r.cuAck = 0 /\ OthersDone(c)
           /\ snd[c].firstOne => r.cuAck = 0 /\ ~Known(c)
<1>1. c \in Client /\ Turn(c) /\ GotOf(c) <= Top(c)
  BY TurnFacts
<1>2. /\ Full[c] \in Nat /\ GotOf(c) \in Nat /\ snd[c].read \in Nat /\ rcv.cuAck \in Nat
      /\ Top(c) = snd[c].read + 1
  BY <1>1, ClientFacts DEF Top
<1>3. r \in Honest(GotOf(c), Full[c])
  BY <1>1 DEF Turn
<1>4. /\ r \in AckType /\ r.cuAck <= GotOf(c)
      /\ r.isLast = 1 => GotOf(c) = Full[c] + 2
      /\ r.isLast = 3 => r.cuAck = 0
  BY <1>3 DEF Honest
<1>5. r.cuAck \in Nat
  BY <1>4 DEF AckType
<1>6. ASSUME GotOf(c) = Full[c] + 2 PROVE Complete(c)
  <2> SUFFICES ASSUME ~Complete(c) PROVE FALSE
    OBVIOUS
  <2>1. Serving(c) /\ rcv.cuAck = Full[c] + 2
    BY <1>2, <1>6 DEF GotOf
  <2>2. rcv.current = c /\ ~rcv.serveFirst
    BY <2>1 DEF Serving
  <2>3. Serves(c)
    BY <2>2 DEF Inv, Receives
  <2> QED
    BY <1>2, <2>1, <2>2, <2>3 DEF Serves
<1>7. snd[c].firstOne => ~Known(c)
  BY <1>1 DEF Turn
<1>8. ~Known(c) => GotOf(c) = 0
  BY DEF Known, GotOf
<1> QED
  BY <1>1, <1>2, <1>4, <1>5, <1>6, <1>7, <1>8 DEF Known, Turn

\* A client nothing happens to keeps its turn, whatever the others do.
LEMMA Undisturbed ==
    ASSUME Inv, NEW c \in Fresh,
           snd'[c] = snd[c], packets'[c] \subseteq packets[c], acks'[c] \subseteq acks[c],
           written'[c] = written[c],
           GotOf(c)' = GotOf(c), Known(c)' <=> Known(c), OthersDone(c) => OthersDone(c)',
           Serving(c) => Serving(c)'
    PROVE  Turn(c)'
<1>1. Turn(c)
  BY TurnFacts
<1>2. Complete(c)' = Complete(c) /\ Top(c)' = Top(c)
  BY DEF Complete, Top
<1>3. acks'[c] \subseteq Honest(GotOf(c)', Full[c])
  BY <1>1 DEF Turn
<1>4. snd'[c].cuAck <= GotOf(c)' /\ GotOf(c)' <= Top(c)'
  BY <1>1, <1>2 DEF Turn
<1>5. packets'[c] \subseteq Genuine(Full[c], Top(c)')
  BY <1>1, <1>2 DEF Turn
<1>6. Ready(snd'[c], Full[c]) /\ snd'[c].sending = {} /\ (snd'[c].running \/ Complete(c)')
      /\ (snd'[c].firstOne => packets'[c] = {} /\ ~Known(c)')
  BY <1>1, <1>2 DEF Turn
<1>7. /\ snd'[c].wait \/ (\E a \in acks'[c] : a.isLast = 2) => Known(c)'
      /\ (\E a \in acks'[c] : a.isLast = 3) => OthersDone(c)'
      /\ Begins(written'[c])
      /\ Serving(c)' \/ Complete(c)' \/ written'[c] = <<>>
  BY <1>1, <1>2 DEF Turn
<1> QED
  BY <1>3, <1>4, <1>5, <1>6, <1>7 DEF Turn

-----------------------------------------------------------------------------
(***************************************************************************)
(* The steps of a client.                                                  *)
(***************************************************************************)
\* The client goes on as t, and some acknowledgements have left the network.
LEMMA SenderMoves ==
    ASSUME Inv, NEW c \in Client, NEW t, Becomes(c, t), Shaped(t, Full[c]),
           NEW own, own \subseteq acks[c], acks' = [acks EXCEPT ![c] = own],
           again \subseteq again', again' \subseteq again \cup {c},
           c \in again' => c \in again \/ OthersDone(c),
           c \in Fresh' => /\ Ready(t, Full[c]) /\ ~t.firstOne /\ t.read >= snd[c].read
                           /\ t.cuAck <= GotOf(c)
                           /\ t.running \/ Complete(c)
                           /\ t.wait => Known(c)
    PROVE  Inv'
<1> DEFINE full == Full[c]
           s == Quiet(t)
<1>1. /\ full \in Nat /\ snd[c].read \in Nat /\ Top(c) \in Nat /\ Top(c) >= 1
      /\ GotOf(c) \in Nat /\ packets[c] \subseteq PacketType /\ acks[c] \subseteq AckType
  BY ClientFacts
<1>2. /\ Shaped(s, full) /\ s.sending = {} /\ s.read = t.read /\ s.running = t.running
      /\ s.cuAck = t.cuAck /\ s.wait = t.wait /\ s.firstOne = t.firstOne
      /\ Ready(t, full) => Ready(s, full)
  BY <1>1, QuietReady DEF Kept
<1>3. t.read \in Nat /\ t.sending \subseteq PacketType /\ t.read + 1 <= full + 2
  BY <1>1, ShapedFacts
<1>4. PICK n : n \subseteq packets[c] \cup t.sending /\ packets' = [packets EXCEPT ![c] = n]
  BY DEF Becomes, Carried
<1>5. snd' = [snd EXCEPT ![c] = s] /\ rcv' = rcv /\ written' = written
  BY DEF Becomes, Quiet
<1> HIDE DEF s
<1>6. /\ snd'[c] = s /\ packets'[c] = n /\ acks'[c] = own
      /\ \A d \in Client \ {c} : /\ snd'[d] = snd[d] /\ packets'[d] = packets[d]
                                 /\ acks'[d] = acks[d]
  BY <1>4, <1>5 DEF Inv, Types
<1>7. Types'
  <2>1. snd' \in [Client -> SenderType] /\ packets' \in [Client -> SUBSET PacketType]
        /\ acks' \in [Client -> SUBSET AckType]
    BY <1>1, <1>2, <1>3, <1>4, <1>5 DEF Inv, Types, Shaped
  <2>2. \A d \in Client : Shaped(snd'[d], Full[d])
    BY <1>2, <1>6 DEF Inv, Types
  <2> QED
    BY <1>5, <2>1, <2>2 DEF Inv, Types
<1>8. /\ \A d : Complete(d)' = Complete(d) /\ Serving(d)' = Serving(d) /\ Known(d)' = Known(d)
      /\ \A d : GotOf(d)' = GotOf(d)
      /\ Fresh' \subseteq Fresh
  BY <1>5 DEF Complete, Serving, Known, GotOf, Fresh
<1>9. \A d : OthersDone(d) => OthersDone(d)'
  BY <1>8 DEF OthersDone
<1>10. ASSUME c \in Fresh' PROVE Turn(c)'
  <2>1. Turn(c) /\ c \in Fresh
    BY <1>8, <1>10, TurnFacts
  <2>2. /\ Ready(s, full) /\ ~s.firstOne /\ s.read >= snd[c].read /\ s.cuAck <= GotOf(c)
        /\ s.running \/ Complete(c)
        /\ s.wait => Known(c)
    BY <1>2, <1>10
  <2>3. Top(c)' = s.read + 1 /\ Top(c)' >= Top(c) /\ Top(c)' \in Nat
    BY <1>1, <1>2, <1>3, <1>6, <2>2 DEF Top
  <2>4. packets'[c] \subseteq Genuine(full, Top(c)')
    <3>1. packets[c] \subseteq Genuine(full, Top(c))
      BY <2>1 DEF Turn
    <3>2. Genuine(full, Top(c)) \subseteq Genuine(full, Top(c)')
      BY <1>1, <2>3, GenuineGrows
    <3>3. t.sending \subseteq Genuine(full, Top(c)')
      BY <1>2, <1>10, <2>3 DEF Ready
    <3> QED
      BY <1>4, <1>6, <3>1, <3>2, <3>3
  <2>5. acks'[c] \subseteq Honest(GotOf(c)', full)
    BY <1>6, <1>8, <2>1 DEF Turn
  <2>6. snd'[c].cuAck <= GotOf(c)' /\ GotOf(c)' <= Top(c)'
    BY <1>1, <1>6, <1>8, <2>1, <2>2, <2>3 DEF Turn
  <2>7. /\ snd'[c].wait \/ (\E a \in acks'[c] : a.isLast = 2) => Known(c)'
        /\ (\E a \in acks'[c] : a.isLast = 3) => OthersDone(c)'
    BY <1>6, <1>8, <1>9, <2>1, <2>2 DEF Turn
  <2>8. Begins(written'[c]) /\ (Serving(c)' \/ Complete(c)' \/ written'[c] = <<>>)
    BY <1>5, <1>8, <2>1 DEF Turn
  <2>9. /\ Ready(snd'[c], full) /\ snd'[c].sending = {} /\ ~snd'[c].firstOne
        /\ snd'[c].running \/ Complete(c)'
    BY <1>2, <1>6, <1>8, <2>2
  <2> QED
    BY <2>4, <2>5, <2>6, <2>7, <2>8, <2>9 DEF Turn
<1>11. ASSUME NEW d \in Fresh', d # c PROVE Turn(d)'
  <2>1. d \in Client /\ d \in Fresh
    BY <1>8, <1>11 DEF Fresh
  <2> QED
    BY <1>5, <1>6, <1>8, <1>9, <1>11, <2>1, Undisturbed
<1>12. Receives'
  <2>1. (rcv.serveFirst => Idle)'
    BY <1>5 DEF Inv, Receives, Idle
  <2>2. (rcv.current = Nobody => Untouched)'
    <3> SUFFICES ASSUME rcv.current = Nobody PROVE Untouched'
      BY <1>5
    <3>1. Untouched
      BY DEF Inv, Receives
    <3>2. ~OthersDone(c)
      BY <3>1 DEF Untouched, OthersDone, Fresh
    <3>3. again' = {}
      BY <3>1, <3>2 DEF Untouched
    <3> QED
      BY <1>5, <1>8, <3>1, <3>3 DEF Untouched
  <2>3. (rcv.current \in Fresh => Serves(rcv.current))'
    <3> SUFFICES ASSUME rcv.current \in Fresh' PROVE Serves(rcv.current)'
      BY <1>5
    <3>1. PICK e : e = rcv.current
      OBVIOUS
    <3>2. e = rcv'.current /\ e \in Client /\ e \in Fresh
      BY <1>5, <1>8, <3>1 DEF Fresh
    <3>3. Serves(e) /\ Turn(e)
      BY <3>1, <3>2, TurnFacts DEF Inv, Receives
    <3>4. Top(e) \in Nat /\ Top(e)' \in Nat /\ Top(e) <= Top(e)'
      <4>1. Top(e) \in Nat
        BY <3>2, ClientFacts
      <4>2. CASE e = c
        <5>1. s.read >= snd[c].read
          BY <1>2, <1>5, <3>1, <4>2
        <5> QED
          BY <1>1, <1>2, <1>3, <1>6, <4>2, <5>1 DEF Top
      <4>3. CASE e # c
        BY <1>6, <3>2, <4>1, <4>3 DEF Top
      <4> QED
        BY <4>2, <4>3
    <3>5. Genuine(Full[e], Top(e)) \subseteq Genuine(Full[e], Top(e)')
      BY <3>4, GenuineGrows
    <3>6. Buffers(rcv', Full[e], Top(e)', 2)
      BY <1>5, <3>3, <3>5 DEF Serves, Buffers
    <3>7. Serves(e)'
      BY <1>5, <1>8, <1>9, <3>3, <3>6 DEF Serves
    <3> QED
      BY <3>2, <3>7
  <2>4. (rcv.current \in again => OthersDone(rcv.current))'
    <3> SUFFICES ASSUME rcv.current \in again' PROVE OthersDone(rcv.current)'
      BY <1>5
    <3>1. PICK e : e = rcv.current
      OBVIOUS
    <3>2. e = rcv'.current /\ e \in again'
      BY <1>5, <3>1
    <3>3. OthersDone(e)
      BY <3>1, <3>2 DEF Inv, Receives
    <3>4. OthersDone(e)'
      BY <1>9, <3>3
    <3> QED
      BY <3>2, <3>4
  <2>5. (\A d \in Client : rcv.queue = Holds(d) =>
             rcv.current # d /\ (Complete(d) => d \in again))'
    BY <1>5, <1>8 DEF Inv, Receives
  <2> QED
    BY <2>1, <2>2, <2>3, <2>4, <2>5 DEF Receives
<1> QED
  BY <1>7, <1>10, <1>11, <1>12 DEF Inv


LEMMA ProceedKeeps ==
    ASSUME Inv, NEW c \in Client, Proceed(c)
    PROVE  Inv'
<1>1. Full[c] \in Nat /\ Shaped(snd[c], Full[c]) /\ snd[c].read \in Nat
  BY ClientFacts
<1>2. PICK t \in Rounds(snd[c], Full[c]) : Becomes(c, t)
  BY DEF Proceed
<1>3. /\ Shaped(t, Full[c]) /\ Kept(snd[c], t) /\ t.read >= snd[c].read /\ ~t.firstOne
      /\ Ready(snd[c], Full[c]) => Ready(t, Full[c])
  BY <1>1, <1>2, RoundsReady
<1>4. acks' = acks /\ again' = again /\ snd[c].running
  BY DEF Proceed
<1>5. acks' = [acks EXCEPT ![c] = acks[c]]
  BY <1>4 DEF Inv, Types
<1>6. ASSUME c \in Fresh'
      PROVE  /\ Ready(t, Full[c]) /\ ~t.firstOne /\ t.read >= snd[c].read
             /\ t.cuAck <= GotOf(c)
             /\ t.running \/ Complete(c)
             /\ t.wait => Known(c)
  <2>1. c \in Fresh
    BY <1>4, <1>6 DEF Fresh
  <2>2. Turn(c) /\ snd[c].cuAck <= GotOf(c)
    BY <2>1, TurnFacts
  <2> QED
    BY <1>3, <1>4, <2>2 DEF Turn, Kept
<1> QED
  BY <1>2, <1>3, <1>4, <1>5, <1>6, SenderMoves

LEMMA HearKeeps ==
    ASSUME Inv, NEW c \in Client, NEW r \in acks[c], Hear(c, r)
    PROVE  Inv'
<1> DEFINE full == Full[c]
           s == snd[c]
           h == Heeded(s, r)
           Fine(t) == /\ Ready(t, full) /\ ~t.firstOne /\ t.read >= s.read
                      /\ t.cuAck <= GotOf(c)
                      /\ t.running \/ Complete(c)
                      /\ t.wait => Known(c)
<1>1. /\ full \in Nat /\ Shaped(s, full) /\ s.read \in Nat /\ s.cuAck \in Nat
      /\ r \in AckType /\ GotOf(c) \in Nat
  BY ClientFacts
<1>2. PICK own \in Carried(acks[c], {}) : acks' = [acks EXCEPT ![c] = own]
  BY DEF Hear, Hears
<1>3. own \subseteq acks[c]
  BY <1>2 DEF Carried
<1>4. again' = again \cup {d \in {c} : CalledLate(snd[d], r)} /\ s.running
  BY DEF Hear, Hears
<1>5. again \subseteq again' /\ again' \subseteq again \cup {c} /\ Fresh' \subseteq Fresh
  BY <1>4 DEF Fresh
<1>6. ASSUME c \in again' PROVE c \in again \/ OthersDone(c)
  <2> SUFFICES ASSUME c \notin again PROVE OthersDone(c)
    OBVIOUS
  <2>1. c \in Fresh /\ CalledLate(s, r)
    BY <1>4, <1>6 DEF Fresh
  <2> QED
    BY <2>1, AckFacts DEF CalledLate, Called
<1>7. ASSUME c \in Fresh'
      PROVE  /\ c \in Fresh /\ Turn(c) /\ Ready(s, full) /\ ~CalledLate(s, r)
             /\ s.cuAck <= GotOf(c) /\ r.cuAck <= GotOf(c) /\ r.cuAck \in Nat
             /\ Ready(h, full)
  <2>1. c \in Fresh /\ ~CalledLate(s, r)
    BY <1>4, <1>5, <1>7 DEF Fresh
  <2>2. Turn(c) /\ s.cuAck <= GotOf(c)
    BY <2>1, TurnFacts
  <2>3. /\ r.cuAck <= GotOf(c) /\ r.cuAck \in Nat /\ r.cuAck <= s.read + 1
        /\ r.isLast = 3 => r.cuAck = 0
        /\ s.firstOne => r.cuAck = 0
    BY <2>1, AckFacts
  <2>4. Ready(s, full)
    BY <2>2 DEF Turn
  <2>5. Ready(h, full)
    BY <1>1, <2>1, <2>3, <2>4, HeededReady
  <2> QED
    BY <2>1, <2>2, <2>3, <2>4, <2>5
<1>8. /\ Shaped(h, full) /\ h.read = s.read /\ h.running = s.running
      /\ h.cuAck = IF s.cuAck < r.cuAck THEN r.cuAck ELSE s.cuAck
      /\ h.firstOne <=> s.firstOne \/ Called(s, r)
      /\ h.wait <=> s.wait /\ ~Called(s, r)
  BY <1>1, HeededShaped
<1> HIDE DEF h
<1>9. CASE HearBlock(c, r)
  <2>1. Becomes(c, Halted(s)) /\ r.isLast = 2
    BY <1>9 DEF HearBlock, Halted, Blocked
  <2>2. /\ Shaped(Halted(s), full) /\ Halted(s).running = s.running
        /\ Halted(s).read = s.read /\ Halted(s).cuAck = s.cuAck
        /\ Halted(s).firstOne = s.firstOne
        /\ Ready(s, full) => Ready(Halted(s), full)
    BY <1>1, HaltedReady
  <2>3. ASSUME c \in Fresh' PROVE Fine(Halted(s))
    <3>1. Known(c) /\ ~s.firstOne
      BY <1>7, <2>1, <2>3, AckFacts
    <3> QED
      BY <1>1, <1>4, <1>7, <2>2, <2>3, <3>1
  <2> QED
    BY <1>2, <1>3, <1>5, <1>6, <2>1, <2>2, <2>3, SenderMoves
<1>10. CASE HearEnd(c, r)
  <2> DEFINE t == [h EXCEPT !.running = FALSE]
  <2>1. Becomes(c, t) /\ r.isLast = 1
    BY <1>10 DEF HearEnd, h
  <2>2. /\ Shaped(t, full) /\ t.read = h.read /\ t.cuAck = h.cuAck /\ t.wait = h.wait
        /\ t.firstOne = h.firstOne
        /\ Ready(h, full) => Ready(t, full)
    BY <1>1, <1>8, StoppedReady
  <2> HIDE DEF t
  <2>3. ~Called(s, r)
    BY <2>1 DEF Called
  <2>4. ASSUME c \in Fresh' PROVE Fine(t)
    <3>1. Complete(c) /\ Known(c) /\ ~s.firstOne
      BY <1>7, <2>1, <2>4, AckFacts
    <3>2. t.cuAck <= GotOf(c)
      BY <1>1, <1>7, <1>8, <2>2, <2>4
    <3>3. t.read >= s.read /\ ~t.firstOne
      BY <1>1, <1>8, <2>2, <2>3, <3>1
    <3> QED
      BY <1>7, <2>2, <2>4, <3>1, <3>2, <3>3
  <2> QED
    BY <1>2, <1>3, <1>5, <1>6, <2>1, <2>2, <2>4, SenderMoves
<1>11. CASE HearOther(c, r)
  <2> DEFINE q == Resent(h, r)
  <2>1. PICK t \in Rounds(q, full) : Becomes(c, t)
    BY <1>11 DEF HearOther, h
  <2>2. Shaped(q, full) /\ Kept(h, q) /\ q.read = h.read /\ (Ready(h, full) => Ready(q, full))
    BY <1>1, <1>8, ResentReady
  <2> HIDE DEF q
  <2>3. /\ Shaped(t, full) /\ Kept(q, t) /\ t.read >= q.read /\ ~t.firstOne
        /\ Ready(q, full) => Ready(t, full)
    BY <1>1, <2>1, <2>2, RoundsReady
  <2>4. t.cuAck = h.cuAck /\ t.running = s.running /\ t.wait = h.wait /\ t.read >= s.read
    BY <1>8, <2>2, <2>3 DEF Kept
  <2>5. ASSUME c \in Fresh' PROVE Fine(t)
    <3>1. t.cuAck <= GotOf(c)
      BY <1>1, <1>7, <1>8, <2>4, <2>5
    <3>2. t.wait => Known(c)
      BY <1>7, <1>8, <2>4, <2>5 DEF Turn
    <3> QED
      BY <1>4, <1>7, <2>2, <2>3, <2>4, <2>5, <3>1, <3>2
  <2> QED
    BY <1>2, <1>3, <1>5, <1>6, <2>1, <2>3, <2>5, SenderMoves
<1> QED
  BY <1>9, <1>10, <1>11 DEF Hear


-----------------------------------------------------------------------------
(***************************************************************************)
(* What the receiver takes and answers.                                    *)
(***************************************************************************)
LEMMA HonestGrows ==
    ASSUME NEW full \in Nat, NEW m \in Nat, NEW n \in Nat, m <= n, n <= full + 2
    PROVE  Honest(m, full) \subseteq Honest(n, full)
<1> SUFFICES ASSUME NEW a \in Honest(m, full) PROVE a \in Honest(n, full)
  OBVIOUS
<1>1. a \in AckType /\ a.cuAck \in Nat
  BY DEF Honest, AckType
<1> QED
  BY <1>1 DEF Honest

\* What the receiver answers to the client it serves.
Answers(got, full) == {a \in Honest(got, full) : a.isLast \in {0, 1}}

\* An answer that asks for nothing or for a gap.
LEMMA AnswerHonest ==
    ASSUME NEW full \in Nat, NEW got \in Nat, NEW n \in Nat, n <= got,
           NEW i \in Nat, NEW j \in Nat
    PROVE  /\ Ack(n, i, j, 0) \in Answers(got, full)
           /\ got = full + 2 /\ n \in {0, full + 2} => Ack(n, i, j, 1) \in Answers(got, full)
<1>1. Ack(n, i, j, 0) \in AckType /\ Ack(n, i, j, 1) \in AckType
  BY DEF Ack, AckType
<1>2. /\ Ack(n, i, j, 0).cuAck = n /\ Ack(n, i, j, 0).isLast = 0
      /\ Ack(n, i, j, 1).cuAck = n /\ Ack(n, i, j, 1).isLast = 1
  BY DEF Ack
<1> QED
  BY <1>1, <1>2 DEF Honest, Answers

LEMMA Greatest ==
    ASSUME NEW N \in Nat, NEW S, S \subseteq 0..N, S # {}
    PROVE  \E n \in S : \A m \in S : m <= n
<1> DEFINE T == {x \in 0..N : N - x \in S}
           R == OpToRel(<, Nat)
<1>1. IsWellFoundedOn(R, Nat)
  BY NatLessThanWellFounded
<1>2. T \subseteq Nat /\ T # {}
  <2>1. PICK n \in S : TRUE
    OBVIOUS
  <2>2. N - n \in 0..N /\ N - (N - n) = n
    OBVIOUS
  <2> QED
    BY <2>1, <2>2
<1>3. PICK x \in T : \A y \in T : ~(<<y, x>> \in R)
  <2> HIDE DEF R, T
  <2> QED
    BY <1>1, <1>2, WFMin
<1>4. ASSUME NEW y \in T PROVE ~(y < x)
  <2>1. <<y, x>> \in Nat \X Nat /\ <<y, x>>[1] = y /\ <<y, x>>[2] = x
    BY <1>2
  <2>2. <<y, x>> \notin R
    BY <1>3
  <2> HIDE DEF T
  <2> QED
    BY <2>1, <2>2 DEF OpToRel
<1>5. ASSUME NEW m \in S PROVE m <= N - x
  <2>1. m \in 0..N
    OBVIOUS
  <2>2. N - m \in 0..N /\ N - (N - m) = m
    BY <2>1
  <2>3. N - m \in T
    BY <2>2
  <2>4. ~(N - m < x)
    BY <1>4, <2>3
  <2> QED
    BY <2>4, <1>2
<1> QED
  BY <1>5

\* The run of buffered packets goes as far as it can, or up to the last one.
LEMMA RunFacts ==
    ASSUME NEW r
    PROVE  /\ Run(r) \in 0..Window
           /\ \A k \in 1..Run(r) : Ahead(r, k).status = "b"
           /\ \/ Run(r) = Window \/ Ahead(r, Run(r) + 1).status # "b"
              \/ Run(r) > 0 /\ Ahead(r, Run(r)).packet.last
<1> DEFINE S == {m \in 0..Window : /\ \A k \in 1..m : Ahead(r, k).status = "b"
                                   /\ \A k \in 1..(m - 1) : ~Ahead(r, k).packet.last}
           P(n) == /\ \A k \in 1..n : Ahead(r, k).status = "b"
                   /\ \A k \in 1..(n - 1) : ~Ahead(r, k).packet.last
                   /\ \/ n = Window \/ Ahead(r, n + 1).status # "b"
                      \/ n > 0 /\ Ahead(r, n).packet.last
<1>1. Window \in Nat
  BY WindowFacts
<1>2. 0 \in S
  BY <1>1
<1>3. PICK n \in S : \A m \in S : m <= n
  <2>1. S \subseteq 0..Window /\ S # {}
    BY <1>2
  <2> HIDE DEF S
  <2> QED
    BY <1>1, <2>1, Greatest
<1>4. n \in 0..Window /\ n + 1 \notin S
  BY <1>1, <1>3
<1>5. P(n)
  <2>1. CASE n = Window
    BY <2>1
  <2>2. CASE n # Window
    <3>1. n + 1 \in 0..Window /\ n \in Nat
      BY <1>1, <1>4, <2>2
    <3>2. \/ \E k \in 1..(n + 1) : Ahead(r, k).status # "b"
          \/ \E k \in 1..(n + 1 - 1) : Ahead(r, k).packet.last
      BY <1>4, <3>1
    <3>3. CASE \E k \in 1..(n + 1) : Ahead(r, k).status # "b"
      <4>1. PICK k \in 1..(n + 1) : Ahead(r, k).status # "b"
        BY <3>3
      <4>2. k \notin 1..n
        BY <4>1
      <4>3. k = n + 1
        BY <3>1, <4>2
      <4> QED
        BY <4>1, <4>3
    <3>4. CASE \E k \in 1..(n + 1 - 1) : Ahead(r, k).packet.last
      <4>1. PICK k \in 1..n : Ahead(r, k).packet.last
        BY <3>1, <3>4
      <4>2. k \notin 1..(n - 1)
        BY <4>1
      <4>3. k = n /\ n > 0
        BY <3>1, <4>2
      <4> QED
        BY <4>1, <4>3
    <3> QED
      BY <3>2, <3>3, <3>4
  <2> QED
    BY <2>1, <2>2
<1>6. Run(r) = CHOOSE m \in 0..Window : P(m)
  BY DEF Run
<1> HIDE DEF P, S
<1>7. Run(r) \in 0..Window /\ P(Run(r))
  BY <1>4, <1>5, <1>6
<1> QED
  BY <1>7 DEF P

\* A buffered packet in the window is the one its slot is for.
LEMMA AheadFacts ==
    ASSUME NEW full \in Nat, NEW top \in Nat, NEW r, r.cuAck \in Nat,
           Buffers(r, full, top, 1), NEW k \in 1..Window, Ahead(r, k).status = "b"
    PROVE  /\ Ahead(r, k).packet.seq = r.cuAck + k /\ Ahead(r, k).packet.chunk = r.cuAck + k - 1
           /\ Ahead(r, k).packet.last <=> r.cuAck + k = full + 2
           /\ r.cuAck + k <= top
<1> DEFINE i == SlotOf(r.cuAck + k)
           p == Ahead(r, k).packet
<1>1. Window \in Nat /\ r.cuAck + k \in Nat
  BY WindowFacts
<1>2. i \in Slot /\ p = r.window[i].packet /\ r.window[i].status = "b"
  BY <1>1, SlotType DEF Ahead
<1>3. p \in Genuine(full, top) /\ SlotOf(p.seq) = i /\ p.seq \in (r.cuAck + 1)..(r.cuAck + Window)
  BY <1>2 DEF Buffers
<1> HIDE DEF i, p
<1>4. p.seq = r.cuAck + k
  <2>1. p.seq \in Nat
    BY <1>1, <1>3
  <2>2. CASE p.seq < r.cuAck + k
    BY <1>1, <1>3, <2>1, <2>2, SlotsDiffer DEF i
  <2>3. CASE r.cuAck + k < p.seq
    BY <1>1, <1>3, <2>1, <2>3, SlotsDiffer DEF i
  <2> QED
    BY <1>1, <2>1, <2>2, <2>3
<1>5. p # NoPacket
  BY <1>4 DEF NoPacket, Packet
<1>6. /\ p \in PacketType /\ p.seq \in 1..top /\ p.chunk = p.seq - 1
      /\ p.last <=> p.seq = full + 2
  BY <1>3, <1>5 DEF Genuine
<1> QED
  BY <1>1, <1>4, <1>6 DEF p

LEMMA ChunkIs ==
    ASSUME NEW p, NEW k \in Nat, p.chunk = k
    PROVE  Chunk(p) = [chunk |-> k, whole |-> k \notin Binary] /\ Chunk(p) \in Written
<1> DEFINE b == k \notin Binary
<1>1. Chunk(p) = [chunk |-> k, whole |-> b] /\ b \in BOOLEAN
  BY DEF Chunk
<1> HIDE DEF b
<1>2. Chunk(p) \in Written
  BY <1>1 DEF Written
<1> QED
  BY <1>1, <1>2 DEF b

LEMMA MappedSeq ==
    ASSUME NEW n \in Nat, NEW S, NEW g \in [1..n -> S]
    PROVE  g \in Seq(S) /\ Len(g) = n
  OBVIOUS

\* A beginning with the n chunks that follow is one.
LEMMA BeginsOn ==
    ASSUME NEW file, Begins(file), NEW n \in Nat, NEW g \in [1..n -> Written],
           \A k \in 1..n : g[k] = [chunk |-> Len(file) + k, whole |-> Len(file) + k \notin Binary]
    PROVE  Begins(file \o g) /\ Len(file \o g) = Len(file) + n
<1> DEFINE w == file \o g
<1>1. g \in Seq(Written) /\ Len(g) = n
  BY MappedSeq
<1>2. file \in Seq(Written) /\ Len(file) \in Nat
  BY DEF Begins, Written
<1>3. /\ Len(w) = Len(file) + Len(g)
      /\ \A k \in 1..(Len(file) + Len(g)) :
              w[k] = IF k <= Len(file) THEN file[k] ELSE g[k - Len(file)]
      /\ w \in Seq(Written)
  BY <1>1, <1>2, ConcatProperties
<1> HIDE DEF w
<1>4. ASSUME NEW k \in 1..Len(w) PROVE w[k] = [chunk |-> k, whole |-> k \notin Binary]
  <2>1. CASE k <= Len(file)
    <3>1. w[k] = file[k] /\ k \in 1..Len(file)
      BY <1>1, <1>2, <1>3, <2>1
    <3> QED
      BY <3>1 DEF Begins
  <2>2. CASE k > Len(file)
    <3>1. k - Len(file) \in 1..n /\ Len(file) + (k - Len(file)) = k
      BY <1>1, <1>2, <1>3, <2>2
    <3>2. w[k] = g[k - Len(file)]
      BY <1>1, <1>2, <1>3, <2>2
    <3> QED
      BY <3>1, <3>2
  <2> QED
    BY <1>1, <1>2, <1>3, <2>1, <2>2
<1>5. Begins(w) /\ Len(w) = Len(file) + n
  BY <1>1, <1>3, <1>4 DEF Begins, Written
<1> QED
  BY <1>5 DEF w

\* Who is in the queue: nobody, or one client that is not being served.
LEMMA QueueFacts ==
    ASSUME Inv
    PROVE  /\ \A d \in Client : is_in_queue(rcv.queue, d) <=> rcv.queue = Holds(d)
           /\ \/ rcv.queue \in EmptyQueues
              \/ \E d \in Client : rcv.queue = Holds(d) /\ rcv.current # d
                                /\ (Complete(d) => d \in again)
<1>1. rcv.queue \in EmptyQueues \cup {Holds(d) : d \in Client}
  BY DEF Inv, Types, ReceiverType
<1>2. CASE rcv.queue \in EmptyQueues
  <2>1. \A d \in Client : ~is_in_queue(rcv.queue, d) /\ rcv.queue # Holds(d)
    BY <1>2, NoneWaits, OneWaits
  <2> QED
    BY <1>2, <2>1
<1>3. CASE \E d \in Client : rcv.queue = Holds(d)
  <2>1. PICK d \in Client : rcv.queue = Holds(d)
    BY <1>3
  <2>2. \A e \in Client : (is_in_queue(rcv.queue, e) <=> e = d) /\ (rcv.queue = Holds(e) <=> e = d)
    BY <2>1, OneWaits
  <2>3. rcv.current # d /\ (Complete(d) => d \in again)
    BY <2>1 DEF Inv, Receives
  <2> QED
    BY <2>1, <2>2, <2>3
<1> QED
  BY <1>1, <1>2, <1>3

\* Nobody is taken in again unless the queue or the client served changes.
LEMMA RememberFacts ==
    ASSUME Inv, Remember
    PROVE  /\ again \subseteq again' /\ Fresh' \subseteq Fresh
           /\ rcv'.queue = rcv.queue /\ rcv'.current = rcv.current => again' = again
<1>1. again \subseteq again'
  BY DEF Remember
<1>2. ASSUME rcv'.queue = rcv.queue, rcv'.current = rcv.current PROVE again' = again
  <2> SUFFICES ASSUME NEW d \in Client, Complete(d), is_in_queue(rcv.queue, d) PROVE d \in again
    BY <1>2 DEF Remember
  <2>1. rcv.queue = Holds(d)
    BY QueueFacts
  <2> QED
    BY <2>1 DEF Inv, Receives
<1> QED
  BY <1>1, <1>2 DEF Fresh

\* What no step of the receiver does: send for a client, or put packets into the network.
Moves(c) ==
    /\ snd' = snd
    /\ \E n \in SUBSET packets[c] : packets' = [packets EXCEPT ![c] = n]

LEMMA TakesFacts ==
    ASSUME Inv, NEW c \in Client, NEW p, Takes(c, p)
    PROVE  /\ Moves(c) /\ p \in packets[c] /\ p \in PacketType
           /\ c \in Fresh => /\ p \in Genuine(Full[c], Top(c)) /\ ~snd[c].firstOne
                             /\ Ready(snd[c], Full[c])
                             /\ Top(c) <= snd[c].cuAck + Window
                             /\ p # NoPacket => /\ p.seq \in 1..Top(c) /\ p.chunk = p.seq - 1
                                                /\ p.last <=> p.seq = Full[c] + 2
<1>1. PICK n \in Carried(packets[c], {}) : packets' = [packets EXCEPT ![c] = n]
  BY DEF Takes
<1>2. n \in SUBSET packets[c]
  BY DEF Carried
<1>3. snd' = snd /\ p \in packets[c]
  BY DEF Takes
<1>4. p \in PacketType /\ Full[c] \in Nat
  BY <1>3, ClientFacts
<1>5. ASSUME c \in Fresh
      PROVE  /\ p \in Genuine(Full[c], Top(c)) /\ ~snd[c].firstOne
             /\ Ready(snd[c], Full[c])
             /\ Top(c) <= snd[c].cuAck + Window
             /\ p # NoPacket => /\ p.seq \in 1..Top(c) /\ p.chunk = p.seq - 1
                                /\ p.last <=> p.seq = Full[c] + 2
  <2>1. Turn(c)
    BY <1>5, TurnFacts
  <2>2. p \in Genuine(Full[c], Top(c)) /\ ~snd[c].firstOne /\ Ready(snd[c], Full[c])
    BY <1>3, <2>1 DEF Turn
  <2>3. Top(c) <= snd[c].cuAck + Window
    BY <1>4, <2>2, ReadAhead DEF Top
  <2> QED
    BY <2>2, <2>3 DEF Genuine
<1> QED
  BY <1>1, <1>2, <1>3, <1>4, <1>5 DEF Moves

LEMMA ServingFacts ==
    ASSUME Inv, NEW c \in Fresh, Serving(c)
    PROVE  /\ GotOf(c) = rcv.cuAck /\ ~Complete(c) /\ Serves(c)
           /\ rcv.cuAck \in Nat /\ rcv.cuAck < Full[c] + 2
           /\ IF rcv.ifStart THEN rcv.cuAck = Len(written[c]) + 1
                             ELSE rcv.cuAck = 0 /\ written[c] = <<>>
<1>1. rcv.current = c /\ ~rcv.serveFirst
  BY DEF Serving
<1>2. Serves(c)
  BY <1>1 DEF Inv, Receives
<1>3. rcv.cuAck \in Nat
  BY ClientFacts, TurnFacts
<1> QED
  BY <1>1, <1>2, <1>3 DEF Serves, GotOf


-----------------------------------------------------------------------------
(***************************************************************************)
(* The kinds of steps of the receiver.                                     *)
(***************************************************************************)
LEMMA DoneKeeps ==
    ASSUME Fresh' \subseteq Fresh, \A d \in Fresh' : Complete(d) => Complete(d)', NEW e
    PROVE  OthersDone(e) => OthersDone(e)'
  BY DEF OthersDone

\* Who is neither served nor blocked by the step keeps its turn.
LEMMA OthersKeep ==
    ASSUME Inv, NEW c \in Client, Moves(c), Fresh' \subseteq Fresh,
           \A d \in Fresh' : Complete(d) => Complete(d)',
           NEW e \in Fresh', e # c, acks'[e] \subseteq acks[e], written'[e] = written[e],
           is_in_queue(rcv'.queue, e) <=> is_in_queue(rcv.queue, e),
           Serving(e)' <=> Serving(e), Serving(e) => rcv'.cuAck = rcv.cuAck
    PROVE  Turn(e)'
<1>1. e \in Fresh /\ e \in Client
  BY DEF Fresh
<1>2. snd'[e] = snd[e] /\ packets'[e] \subseteq packets[e]
  BY <1>1 DEF Moves, Inv, Types
<1>3. Complete(e)' <=> Complete(e)
  BY DEF Complete
<1>4. GotOf(e)' = GotOf(e)
  BY <1>3 DEF GotOf
<1>5. Known(e)' <=> Known(e)
  BY <1>3 DEF Known
<1>6. OthersDone(e) => OthersDone(e)'
  BY DoneKeeps
<1> QED
  BY <1>1, <1>2, <1>4, <1>5, <1>6, Undisturbed

\* The receiver only answers.
LEMMA AnswersKeep ==
    ASSUME Inv, NEW c \in Client, Moves(c), rcv' = rcv, written' = written, again' = again,
           NEW replies \in SUBSET AckType, Answer(c, replies),
           c \in Fresh => /\ replies \subseteq Honest(GotOf(c), Full[c])
                          /\ \A a \in replies : /\ a.isLast = 2 => Known(c)
                                                /\ a.isLast = 3 => OthersDone(c)
    PROVE  Inv'
<1>1. PICK n : n \subseteq acks[c] \cup replies /\ acks' = [acks EXCEPT ![c] = n]
  BY DEF Answer, Carried
<1>2. acks[c] \subseteq AckType
  BY ClientFacts
<1>3. PICK m \in SUBSET packets[c] : packets' = [packets EXCEPT ![c] = m]
  BY DEF Moves
<1>4. snd' = snd /\ packets[c] \subseteq PacketType
  BY ClientFacts DEF Moves
<1>5. Types'
  BY <1>1, <1>2, <1>3, <1>4 DEF Inv, Types
<1>6. /\ \A d : Complete(d)' = Complete(d) /\ Serving(d)' = Serving(d) /\ Known(d)' = Known(d)
      /\ \A d : GotOf(d)' = GotOf(d) /\ Top(d)' = Top(d)
      /\ Fresh' = Fresh
  BY <1>4 DEF Complete, Serving, Known, GotOf, Fresh, Top
<1>7. \A d : OthersDone(d) <=> OthersDone(d)'
  BY <1>6 DEF OthersDone
<1>8. ASSUME c \in Fresh PROVE Turn(c)'
  <2>1. Turn(c)
    BY <1>8, TurnFacts
  <2>2. acks'[c] = n /\ packets'[c] = m /\ snd'[c] = snd[c]
    BY <1>1, <1>3, <1>4 DEF Inv, Types
  <2>3. acks'[c] \subseteq Honest(GotOf(c)', Full[c])
    BY <1>1, <1>6, <1>8, <2>1, <2>2 DEF Turn
  <2>4. packets'[c] \subseteq Genuine(Full[c], Top(c)')
    BY <1>6, <2>1, <2>2 DEF Turn
  <2>5. snd'[c].firstOne => packets'[c] = {} /\ ~Known(c)'
    BY <1>6, <2>1, <2>2 DEF Turn
  <2>6. /\ snd'[c].wait \/ (\E a \in acks'[c] : a.isLast = 2) => Known(c)'
        /\ (\E a \in acks'[c] : a.isLast = 3) => OthersDone(c)'
    BY <1>1, <1>6, <1>7, <1>8, <2>1, <2>2 DEF Turn
  <2> QED
    BY <1>6, <2>1, <2>2, <2>3, <2>4, <2>5, <2>6 DEF Turn
<1>9. ASSUME NEW e \in Fresh', e # c PROVE Turn(e)'
  <2>1. e \in Client /\ e \in Fresh
    BY <1>6 DEF Fresh
  <2>2. acks'[e] \subseteq acks[e] /\ written'[e] = written[e]
    BY <1>1, <1>9, <2>1 DEF Inv, Types
  <2> QED
    BY <1>6, <1>9, <2>1, <2>2, OthersKeep
<1>10. Receives'
  <2>1. (rcv.serveFirst => Idle)' /\ (rcv.current = Nobody => Untouched)'
    BY <1>6 DEF Inv, Receives, Idle, Untouched
  <2>2. PICK e : e = rcv.current
    OBVIOUS
  <2>3. e = rcv'.current
    BY <2>2
  <2>4. Serves(e) => Serves(e)'
    BY <1>6, <1>7 DEF Serves
  <2>5. (rcv'.current \in Fresh' => Serves(e)') /\ (rcv'.current \in again' => OthersDone(e)')
    BY <1>6, <1>7, <2>2, <2>3, <2>4 DEF Inv, Receives
  <2>6. (\A d \in Client : rcv.queue = Holds(d) =>
             rcv.current # d /\ (Complete(d) => d \in again))'
    BY <1>6 DEF Inv, Receives
  <2> QED
    BY <2>1, <2>3, <2>5, <2>6 DEF Receives
<1> QED
  BY <1>5, <1>6, <1>8, <1>9, <1>10 DEF Inv

\* The receiver goes on with the file w of the client it serves.
LEMMA AdvancesKeep ==
    ASSUME Inv, NEW c \in Client, Moves(c), Serving(c), again' = again,
           NEW w \in Seq(Written), written' = [written EXCEPT ![c] = w],
           NEW replies \in SUBSET AckType, Answer(c, replies),
           rcv' \in ReceiverType, ~rcv'.serveFirst, rcv'.current = c, rcv'.queue = rcv.queue,
           c \in Fresh =>
               /\ Begins(w) /\ Buffers(rcv', Full[c], Top(c), 2)
               /\ rcv'.ifStart /\ (rcv'.wait => OthersDone(c)) /\ rcv'.cuAck = Len(w) + 1
               /\ rcv'.cuAck < Full[c] + 2 /\ GotOf(c) <= rcv'.cuAck /\ rcv'.cuAck <= Top(c)
               /\ replies \subseteq Answers(rcv'.cuAck, Full[c])
    PROVE  Inv'
<1>1. PICK n : n \subseteq acks[c] \cup replies /\ acks' = [acks EXCEPT ![c] = n]
  BY DEF Answer, Carried
<1>2. /\ acks[c] \subseteq AckType /\ packets[c] \subseteq PacketType /\ Full[c] \in Nat
      /\ GotOf(c) \in Nat /\ Top(c) \in Nat /\ Top(c) <= Full[c] + 2
  BY ClientFacts
<1>3. PICK m \in SUBSET packets[c] : packets' = [packets EXCEPT ![c] = m]
  BY DEF Moves
<1>4. snd' = snd
  BY DEF Moves
<1>5. Types'
  BY <1>1, <1>2, <1>3, <1>4 DEF Inv, Types
<1>6. /\ acks'[c] = n /\ packets'[c] = m /\ written'[c] = w
      /\ \A d \in Client \ {c} : acks'[d] = acks[d] /\ written'[d] = written[d]
  BY <1>1, <1>3 DEF Inv, Types
<1>7. /\ Fresh' = Fresh /\ rcv.current = c /\ ~rcv.serveFirst
      /\ \A d : Serving(d) <=> d = c
      /\ \A d : Serving(d)' <=> d = c
      /\ \A d \in Client \ {c} : Complete(d)' <=> Complete(d)
      /\ \A d : Top(d)' = Top(d)
  BY <1>4, <1>6 DEF Fresh, Serving, Complete, Top
<1>8. c \in Fresh => ~Complete(c) /\ ~Complete(c)'
  <2> SUFFICES ASSUME c \in Fresh PROVE ~Complete(c) /\ ~Complete(c)'
    OBVIOUS
  <2>1. Len(w) \in Nat /\ Len(w) + 1 < Full[c] + 2
    OBVIOUS
  <2> QED
    BY <1>2, <1>6, <2>1, ServingFacts DEF Complete
<1>9. \A d \in Fresh' : Complete(d) => Complete(d)'
  BY <1>7, <1>8 DEF Fresh
<1>10. \A d : OthersDone(d) => OthersDone(d)'
  BY <1>7, <1>9 DEF OthersDone
<1>11. ASSUME c \in Fresh PROVE Turn(c)'
  <2>1. Turn(c) /\ ~snd[c].firstOne
    BY <1>7, <1>11, TurnFacts DEF Turn, Known
  <2>2. GotOf(c)' = rcv'.cuAck
    BY <1>7, <1>8, <1>11 DEF GotOf
  <2>3. /\ rcv'.cuAck \in Nat /\ GotOf(c) <= rcv'.cuAck /\ rcv'.cuAck <= Full[c] + 2
        /\ rcv'.cuAck <= Top(c)
    BY <1>2, <1>11 DEF ReceiverType
  <2>4. acks'[c] \subseteq Honest(GotOf(c)', Full[c])
    <3>1. acks[c] \subseteq Honest(rcv'.cuAck, Full[c])
      BY <1>2, <2>1, <2>3, HonestGrows DEF Turn
    <3>2. replies \subseteq Honest(rcv'.cuAck, Full[c])
      BY <1>11 DEF Answers
    <3> QED
      BY <1>1, <1>6, <2>2, <3>1, <3>2
  <2>5. packets'[c] \subseteq Genuine(Full[c], Top(c)')
    BY <1>6, <1>7, <2>1 DEF Turn
  <2>6. Known(c)' /\ Serving(c)' /\ Begins(written'[c])
    BY <1>6, <1>7, <1>11 DEF Known
  <2>7. (\E a \in acks'[c] : a.isLast = 3) => OthersDone(c)'
    BY <1>1, <1>6, <1>10, <1>11, <2>1 DEF Turn, Answers
  <2>8. snd'[c].cuAck <= GotOf(c)' /\ GotOf(c)' <= Top(c)'
    <3>1. snd[c].cuAck <= GotOf(c) /\ snd[c].cuAck \in Nat
      BY <2>1, ClientFacts DEF Turn
    <3> QED
      BY <1>2, <1>4, <1>7, <2>2, <2>3, <3>1
  <2>9. snd'[c].running
    BY <1>4, <1>8, <1>11, <2>1 DEF Turn
  <2>10. Ready(snd'[c], Full[c]) /\ snd'[c].sending = {} /\ ~snd'[c].firstOne
    BY <1>4, <2>1 DEF Turn
  <2> QED
    BY <2>4, <2>5, <2>6, <2>7, <2>8, <2>9, <2>10 DEF Turn
<1>12. ASSUME NEW e \in Fresh', e # c PROVE Turn(e)'
  <2>1. e \in Client /\ e \in Fresh
    BY <1>7 DEF Fresh
  <2>2. acks'[e] \subseteq acks[e] /\ written'[e] = written[e]
    BY <1>6, <1>12, <2>1
  <2> QED
    BY <1>7, <1>9, <1>12, <2>1, <2>2, OthersKeep
<1>13. Receives'
  <2>1. c # Nobody
    BY NobodyAssumption
  <2>2. (rcv.serveFirst => Idle)' /\ (rcv.current = Nobody => Untouched)'
    BY <2>1
  <2>3. ASSUME c \in Fresh PROVE Serves(c)'
    <3>1. Buffers(rcv', Full[c], Top(c)', 2)
      BY <1>7, <2>3
    <3>2. rcv'.wait => OthersDone(c)'
      BY <1>10, <2>3
    <3> QED
      BY <1>6, <1>8, <2>3, <3>1, <3>2 DEF Serves
  <2>4. c \in again => OthersDone(c)'
    BY <1>7, <1>10 DEF Inv, Receives
  <2>5. ASSUME NEW d \in Client, rcv'.queue = Holds(d)
        PROVE  rcv'.current # d /\ (Complete(d)' => d \in again')
    <3>1. d # c /\ (Complete(d) => d \in again)
      BY <1>7, <2>5 DEF Inv, Receives
    <3> QED
      BY <1>7, <3>1
  <2> QED
    BY <1>7, <2>2, <2>3, <2>4, <2>5 DEF Receives
<1> QED
  BY <1>5, <1>7, <1>11, <1>12, <1>13 DEF Inv


\* What is left when a file is closed.
LEMMA ClosedFacts ==
    ASSUME NEW r \in ReceiverType
    PROVE  /\ Closed(r).cuAck = 0 /\ ~Closed(r).ifStart /\ Closed(r).window = r.window
           /\ r.queue.count = 0 =>
                  /\ Closed(r) \in ReceiverType /\ Closed(r).serveFirst /\ ~Closed(r).wait
                  /\ Closed(r).current = r.current /\ Closed(r).queue = r.queue
           /\ \A d \in Client : r.queue = Holds(d) =>
                  /\ Closed(r) \in ReceiverType /\ Closed(r).serveFirst = r.serveFirst
                  /\ Closed(r).current = d /\ Closed(r).queue = Freed
<1> DEFINE z == [r EXCEPT !.cuAck = 0, !.cuAlready = 0, !.ifStart = FALSE, !.wait = FALSE]
<1>1. z \in ReceiverType
  BY Zenon DEF ReceiverType
<1>2. /\ z.serveFirst = r.serveFirst /\ z.current = r.current /\ z.cuAck = 0
      /\ z.window = r.window /\ z.ifStart = FALSE /\ z.wait = FALSE /\ z.queue = r.queue
  BY DEF ReceiverType
<1>3. Closed(r) = IF r.queue.count = 0 THEN [z EXCEPT !.serveFirst = TRUE]
                  ELSE [z EXCEPT !.current = First(r.queue), !.wait = TRUE,
                                 !.queue = queue_dequeue(z.queue)]
  BY <1>1 DEF Closed, ReceiverType
<1> HIDE DEF z
<1>4. CASE r.queue.count = 0
  <2> DEFINE t == [z EXCEPT !.serveFirst = TRUE]
  <2>1. t \in ReceiverType
    BY <1>1, Zenon DEF ReceiverType
  <2>2. /\ t.serveFirst = TRUE /\ t.current = r.current /\ t.cuAck = 0 /\ t.window = r.window
        /\ t.ifStart = FALSE /\ t.wait = FALSE /\ t.queue = r.queue
    BY <1>1, <1>2 DEF ReceiverType
  <2>3. Closed(r) = t
    BY <1>3, <1>4
  <2>4. \A d : r.queue # Holds(d)
    BY <1>4, OneWaits
  <2> HIDE DEF t
  <2> QED
    BY <1>4, <2>1, <2>2, <2>3, <2>4
<1>5. CASE r.queue.count # 0
  <2> DEFINE first == First(r.queue)
             rest == queue_dequeue(r.queue)
             t == [z EXCEPT !.current = first, !.wait = TRUE, !.queue = rest]
  <2>1. Closed(r) = t
    BY <1>2, <1>3, <1>5
  <2> HIDE DEF first, rest
  <2>2. /\ t.serveFirst = r.serveFirst /\ t.current = first /\ t.cuAck = 0
        /\ t.window = r.window /\ t.ifStart = FALSE /\ t.queue = rest
    BY <1>1, <1>2 DEF ReceiverType
  <2>3. ASSUME NEW d \in Client, r.queue = Holds(d)
        PROVE  first = d /\ rest = Freed /\ t \in ReceiverType
    <3>1. first = d /\ rest = Freed
      BY <2>3, OneWaits DEF first, rest
    <3>2. first \in Client \cup {Nobody} /\ rest \in EmptyQueues \cup {Holds(e) : e \in Client}
      BY <3>1 DEF EmptyQueues
    <3>3. t \in ReceiverType
      BY <1>1, <3>2, Zenon DEF ReceiverType
    <3> QED
      BY <3>1, <3>3
  <2> HIDE DEF t
  <2> QED
    BY <1>5, <2>1, <2>2, <2>3
<1> QED
  BY <1>4, <1>5

\* The file of c is closed, and the other client is called if it waits.
LEMMA CloseKeeps ==
    ASSUME TwoClients, Inv, NEW c \in Client, Moves(c), Serving(c), Remember,
           NEW r \in ReceiverType, r.current = c, ~r.serveFirst, r.queue = rcv.queue,
           NEW w \in Seq(Written), written' = [written EXCEPT ![c] = w],
           NEW replies \in SUBSET AckType, Close(c, r, replies),
           c \in Fresh =>
               /\ \A i \in Slot : r.window[i].status # "b"
               /\ Begins(w) /\ Len(w) = Full[c] + 1 /\ Top(c) = Full[c] + 2
               /\ replies \subseteq Answers(Full[c] + 2, Full[c])
    PROVE  Inv'
<1> DEFINE next == IF r.queue.count = 0 THEN c ELSE First(r.queue)
           Alone == /\ rcv'.serveFirst /\ rcv'.current = c /\ ~rcv'.wait /\ next = c
                    /\ rcv.queue \in EmptyQueues /\ rcv'.queue = rcv.queue
           Calls == /\ ~rcv'.serveFirst /\ rcv'.current \in Client \ {c} /\ next = rcv'.current
                    /\ rcv.queue = Holds(rcv'.current) /\ rcv'.queue = Freed
<1>1. /\ rcv' = Closed(r) /\ rcv'.cuAck = 0 /\ ~rcv'.ifStart /\ rcv'.window = r.window
      /\ rcv.current = c /\ ~rcv.serveFirst
  BY ClosedFacts DEF Close, Serving
<1>2. rcv' \in ReceiverType /\ (Alone \/ Calls)
  <2>1. CASE rcv.queue \in EmptyQueues
    <3>1. r.queue.count = 0
      BY <2>1, NoneWaits
    <3> QED
      BY <1>1, <2>1, <3>1, ClosedFacts
  <2>2. CASE \E d \in Client : rcv.queue = Holds(d) /\ rcv.current # d
    <3>1. PICK d \in Client : rcv.queue = Holds(d) /\ rcv.current # d
      BY <2>2
    <3>2. r.queue.count = 1 /\ First(r.queue) = d
      BY <3>1, OneWaits
    <3>3. rcv' \in ReceiverType /\ rcv'.current = d /\ rcv'.queue = Freed /\ ~rcv'.serveFirst
      BY <1>1, <3>1, ClosedFacts
    <3> QED
      BY <1>1, <3>1, <3>2, <3>3
  <2> QED
    BY <2>1, <2>2, QueueFacts
<1>3. PICK own \in Carried(acks[c], replies) :
          IF next = c THEN acks' = [acks EXCEPT ![c] = own]
          ELSE \E called \in Carried(acks[next], {CallAck}) :
                   acks' = [acks EXCEPT ![c] = own, ![next] = called]
  BY DEF Close
<1>4. /\ acks' \in [Client -> SUBSET AckType]
      /\ acks'[c] \subseteq acks[c] \cup replies
      /\ \A e \in Client \ {c} : e # next => acks'[e] = acks[e]
      /\ next # c => acks'[next] \subseteq acks[next] \cup {CallAck}
  <2>1. own \subseteq acks[c] \cup replies /\ own \in SUBSET AckType
    BY <1>3, ClientFacts DEF Carried
  <2>2. CASE next = c
    BY <1>3, <2>1, <2>2 DEF Inv, Types
  <2>3. CASE next # c
    <3>1. PICK called \in Carried(acks[next], {CallAck}) :
              acks' = [acks EXCEPT ![c] = own, ![next] = called]
      BY <1>3, <2>3
    <3>2. next \in Client
      BY <1>2, <2>3
    <3>3. CallAck \in AckType
      BY DEF CallAck, Ack, AckType
    <3>4. called \subseteq acks[next] \cup {CallAck} /\ called \in SUBSET AckType
      BY <3>1, <3>2, <3>3, ClientFacts DEF Carried
    <3> HIDE DEF next
    <3> QED
      BY <2>1, <2>3, <3>1, <3>2, <3>4 DEF Inv, Types
  <2> QED
    BY <2>2, <2>3
<1> HIDE DEF next
<1>5. \A e \in Client : ~is_in_queue(rcv'.queue, e) /\ rcv'.queue # Holds(e)
  <2>1. rcv'.queue \in EmptyQueues
    BY <1>2 DEF EmptyQueues
  <2> QED
    BY <2>1, NoneWaits, OneWaits
<1>6. Calls => (Complete(rcv'.current) => rcv'.current \in again)
  BY DEF Inv, Receives
<1>7. again' = again /\ Fresh' = Fresh
  <2>1. ASSUME NEW d \in Client, Complete(d), rcv.current # d, rcv'.current = d PROVE d \in again
    BY <1>1, <1>2, <1>6, <2>1
  <2>2. again' = again
    BY <1>5, <2>1 DEF Remember
  <2> QED
    BY <2>2 DEF Fresh
<1>8. /\ Full[c] \in Nat /\ acks[c] \subseteq AckType /\ GotOf(c) \in Nat
      /\ packets[c] \subseteq PacketType
  BY ClientFacts
<1>9. /\ written'[c] = w
      /\ \A e \in Client \ {c} : written'[e] = written[e] /\ (Complete(e)' <=> Complete(e))
      /\ c \in Fresh => Complete(c)'
  BY DEF Inv, Types, Complete
<1>10. PICK m \in SUBSET packets[c] : packets' = [packets EXCEPT ![c] = m]
  BY DEF Moves
<1>11. snd' = snd /\ \A e \in Client : packets'[e] \subseteq packets[e] /\ Top(e)' = Top(e)
  BY <1>10 DEF Moves, Inv, Types, Top
<1>12. Types'
  BY <1>2, <1>4, <1>8, <1>10, <1>11 DEF Inv, Types
<1>13. \A d \in Fresh' : Complete(d) => Complete(d)'
  BY <1>7, <1>9 DEF Fresh
<1>14. \A d : OthersDone(d) => OthersDone(d)'
  BY <1>7, <1>13, DoneKeeps
<1>15. ASSUME c \in Fresh PROVE Turn(c)'
  <2>1. Turn(c) /\ ~snd[c].firstOne /\ ~Complete(c)
    BY <1>15, TurnFacts, ServingFacts DEF Turn, Known
  <2>2. GotOf(c)' = Full[c] + 2 /\ Known(c)' /\ Complete(c)'
    BY <1>9, <1>15 DEF GotOf, Known
  <2>3. acks'[c] \subseteq Honest(GotOf(c)', Full[c])
    <3>1. GotOf(c) <= Full[c] + 2 /\ Full[c] + 2 \in Nat /\ Full[c] + 2 <= Full[c] + 2
      BY <1>8, <1>15, TurnFacts
    <3>2. acks[c] \subseteq Honest(Full[c] + 2, Full[c])
      BY <1>8, <2>1, <3>1, HonestGrows DEF Turn
    <3>3. replies \subseteq Honest(Full[c] + 2, Full[c])
      BY <1>15 DEF Answers
    <3> QED
      BY <1>4, <2>2, <3>2, <3>3
  <2>4. (\E a \in acks'[c] : a.isLast = 3) => OthersDone(c)'
    BY <1>4, <1>14, <1>15, <2>1 DEF Turn, Answers
  <2>5. snd'[c].cuAck <= GotOf(c)' /\ GotOf(c)' <= Top(c)'
    <3>1. snd[c].cuAck <= GotOf(c) /\ snd[c].cuAck \in Nat /\ GotOf(c) <= Full[c] + 2
      BY <1>15, TurnFacts, ClientFacts
    <3> QED
      BY <1>8, <1>11, <1>15, <2>2, <3>1
  <2>6. packets'[c] \subseteq Genuine(Full[c], Top(c)')
    BY <1>11, <2>1 DEF Turn
  <2>7. Begins(written'[c])
    BY <1>9, <1>15
  <2>8. Ready(snd'[c], Full[c]) /\ snd'[c].sending = {} /\ ~snd'[c].firstOne
    BY <1>11, <2>1 DEF Turn
  <2> QED
    BY <2>2, <2>3, <2>4, <2>5, <2>6, <2>7, <2>8 DEF Turn
\* The client that is called has not been served before.
<1>16. ASSUME Calls, rcv'.current \in Fresh
       PROVE  c \in Fresh /\ ~Complete(rcv'.current) /\ GotOf(rcv'.current) = 0
  <2> DEFINE e == rcv'.current
  <2>1. ~Complete(e) /\ e \in Client /\ e # c
    BY <1>6, <1>16 DEF Fresh
  <2>2. c \in again => OthersDone(c)
    BY <1>1 DEF Inv, Receives
  <2>3. c \in Fresh
    BY <1>16, <2>1, <2>2 DEF OthersDone, Fresh
  <2>4. GotOf(e) = 0
    BY <1>1, <2>1 DEF GotOf, Serving
  <2> QED
    BY <2>1, <2>3, <2>4
<1>17. ASSUME Calls, NEW e, e = rcv'.current PROVE OthersDone(e)'
  <2>1. e \in Client /\ e # c
    BY <1>17
  <2>2. ASSUME NEW d \in Fresh', d # e PROVE Complete(d)'
    <3>1. d = c
      BY <2>1, <2>2 DEF Fresh, TwoClients
    <3> QED
      BY <1>7, <1>9, <2>2, <3>1
  <2> QED
    BY <2>1, <2>2 DEF OthersDone
<1>18. ASSUME NEW e \in Fresh', e # c PROVE Turn(e)'
  <2>1. e \in Client /\ e \in Fresh /\ Turn(e)
    BY <1>7, TurnFacts DEF Fresh
  <2>2. CASE Calls /\ e = rcv'.current
    <3>1. ~Complete(e) /\ ~Complete(e)' /\ GotOf(e) = 0 /\ Serving(e)' /\ GotOf(e)' = 0 /\ Known(e)'
      BY <1>1, <1>9, <1>16, <1>18, <2>1, <2>2 DEF Serving, GotOf, Known
    <3>2. Known(e)
      BY <2>1, <2>2, QueueFacts DEF Known
    <3>3. acks'[e] \subseteq acks[e] \cup {CallAck}
      BY <1>4, <1>18, <2>1, <2>2
    <3>4. acks'[e] \subseteq Honest(GotOf(e)', Full[e])
      <4>1. CallAck \in Honest(0, Full[e])
        BY DEF CallAck, Ack, AckType, Honest
      <4> QED
        BY <2>1, <3>1, <3>3, <4>1 DEF Turn
    <3>5. packets'[e] \subseteq Genuine(Full[e], Top(e)') /\ written'[e] = written[e]
      BY <1>9, <1>11, <1>18, <2>1 DEF Turn
    <3>6. OthersDone(e)'
      BY <1>17, <2>2
    <3>7. snd'[e].cuAck <= GotOf(e)' /\ GotOf(e)' <= Top(e)'
      BY <1>11, <2>1, <3>1 DEF Turn
    <3> QED
      BY <1>11, <2>1, <3>1, <3>2, <3>4, <3>5, <3>6, <3>7 DEF Turn
  <2>3. CASE ~(Calls /\ e = rcv'.current)
    <3>1. ~Serving(e) /\ ~Serving(e)'
      BY <1>1, <1>2, <1>18, <2>3 DEF Serving
    <3>2. ~is_in_queue(rcv.queue, e)
      BY <1>2, <2>1, <2>3, QueueFacts, NoneWaits, OneWaits
    <3>3. e # next
      BY <1>2, <1>18, <2>3
    <3>4. acks'[e] = acks[e]
      BY <1>4, <1>18, <2>1, <3>3
    <3> QED
      BY <1>5, <1>7, <1>9, <1>13, <1>18, <2>1, <3>1, <3>2, <3>4, OthersKeep
  <2> QED
    BY <2>2, <2>3
<1>19. Receives'
  <2>1. (rcv.serveFirst => Idle)'
    BY <1>1, <1>2 DEF Idle
  <2>2. rcv'.current # Nobody
    BY <1>2, NobodyAssumption
  <2>3. PICK e : e = rcv'.current
    OBVIOUS
  <2>4. ASSUME e \in Fresh' PROVE Serves(e)'
    <3>1. c \in Fresh /\ \A i \in Slot : rcv'.window[i].status # "b"
      BY <1>1, <1>2, <1>7, <1>16, <2>3, <2>4
    <3>2. Buffers(rcv', Full[e], Top(e)', 2)
      BY <3>1 DEF Buffers
    <3>3. CASE Alone
      BY <1>9, <2>3, <3>1, <3>2, <3>3 DEF Serves
    <3>4. CASE Calls
      <4>1. ~Complete(e) /\ e \in Client /\ e # c /\ e \in Fresh
        BY <1>7, <1>16, <2>3, <2>4, <3>4
      <4>2. Turn(e) /\ ~Serving(e)
        BY <1>1, <4>1, TurnFacts DEF Serving
      <4>3. written'[e] = <<>> /\ ~Complete(e)'
        BY <1>9, <4>1, <4>2 DEF Turn
      <4>4. OthersDone(e)' /\ Full[e] \in Nat
        BY <1>17, <2>3, <3>4, <4>1, ClientFacts
      <4> QED
        BY <1>1, <2>3, <3>2, <3>4, <4>3, <4>4 DEF Serves
    <3> QED
      BY <1>2, <3>3, <3>4
  <2>5. ASSUME e \in again' PROVE OthersDone(e)'
    <3>1. CASE Alone
      BY <1>1, <1>7, <1>14, <2>3, <2>5, <3>1 DEF Inv, Receives
    <3>2. CASE Calls
      BY <1>17, <2>3, <3>2
    <3> QED
      BY <1>2, <3>1, <3>2
  <2> QED
    BY <1>5, <2>1, <2>2, <2>3, <2>4, <2>5 DEF Receives
<1> QED
  BY <1>7, <1>12, <1>15, <1>18, <1>19 DEF Inv


-----------------------------------------------------------------------------
(***************************************************************************)
(* The steps of the receiver that write nothing.                           *)
(***************************************************************************)
LEMMA RemindKeeps ==
    ASSUME Inv, NEW c \in Client, NEW p, Takes(c, p), Remember, Remind(c)
    PROVE  Inv'
<1>1. rcv' = rcv /\ written' = written /\ Answer(c, {EndAck}) /\ rcv.serveFirst /\ rcv.current = c
  BY DEF Remind
<1>2. Moves(c) /\ again' = again
  BY <1>1, TakesFacts, RememberFacts
<1>3. EndAck \in AckType /\ EndAck.isLast = 1 /\ EndAck.cuAck = 0
  BY DEF EndAck, Ack, AckType
<1>4. ASSUME c \in Fresh PROVE EndAck \in Honest(GotOf(c), Full[c])
  <2>1. Complete(c)
    BY <1>1, <1>4 DEF Inv, Receives, Serves
  <2>2. GotOf(c) = Full[c] + 2 /\ Full[c] \in Nat
    BY <2>1, ClientFacts DEF GotOf
  <2> QED
    BY <1>3, <2>2 DEF Honest
<1> QED
  BY <1>1, <1>2, <1>3, <1>4, AnswersKeep

LEMMA RepeatKeeps ==
    ASSUME Inv, NEW c \in Client, NEW p, Takes(c, p), Remember, Serving(c), Repeat(c, p)
    PROVE  Inv'
<1> DEFINE a == Ack(rcv.cuAck, 0, 0, 0)
<1>1. rcv' = rcv /\ written' = written /\ Answer(c, {a})
  BY DEF Repeat
<1>2. Moves(c) /\ again' = again
  BY <1>1, TakesFacts, RememberFacts
<1>3. Full[c] \in Nat /\ rcv.cuAck \in Nat
  BY ClientFacts
<1>4. a \in AckType /\ a.isLast = 0
  BY <1>3 DEF Ack, AckType
<1>5. ASSUME c \in Fresh PROVE a \in Honest(GotOf(c), Full[c])
  <2>1. GotOf(c) = rcv.cuAck
    BY <1>5, ServingFacts
  <2> QED
    BY <1>3, <2>1, AnswerHonest DEF Answers
<1> HIDE DEF a
<1> QED
  BY <1>1, <1>2, <1>4, <1>5, AnswersKeep

LEMMA CallAgainKeeps ==
    ASSUME Inv, NEW c \in Client, CallAgain(c)
    PROVE  Inv'
<1>1. /\ rcv' = rcv /\ written' = written /\ again' = again /\ Answer(c, {CallAck})
      /\ snd' = snd /\ packets' = packets /\ Serving(c) /\ rcv.wait
  BY DEF CallAgain
<1>2. packets' = [packets EXCEPT ![c] = packets[c]]
  BY <1>1 DEF Inv, Types
<1>3. Moves(c)
  BY <1>1, <1>2 DEF Moves
<1>4. CallAck \in AckType /\ CallAck.isLast = 3 /\ CallAck.cuAck = 0
  BY DEF CallAck, Ack, AckType
<1>5. ASSUME c \in Fresh PROVE OthersDone(c) /\ CallAck \in Honest(GotOf(c), Full[c])
  <2>1. OthersDone(c) /\ GotOf(c) \in Nat
    BY <1>1, <1>5, ServingFacts, ClientFacts DEF Serves
  <2> QED
    BY <1>4, <2>1 DEF Honest
<1> QED
  BY <1>1, <1>3, <1>4, <1>5, AnswersKeep

LEMMA AdoptKeeps ==
    ASSUME TwoClients, Inv, NEW c \in Client, NEW p, Takes(c, p), Remember, Adopt(c)
    PROVE  Inv'
<1> DEFINE r == Adopted(rcv, c)
<1>1. rcv' = r /\ acks' = acks /\ written' = written /\ rcv.serveFirst /\ rcv.current # c
  BY DEF Adopt
<1>2. Idle /\ rcv \in ReceiverType
  BY <1>1 DEF Inv, Receives, Types
<1>3. r \in ReceiverType
  BY <1>2, Zenon DEF Adopted, ReceiverType
<1>4. /\ ~r.serveFirst /\ r.current = c /\ r.cuAck = 0 /\ ~r.ifStart /\ ~r.wait
      /\ r.window = rcv.window /\ r.queue = rcv.queue
  BY <1>2 DEF Adopted, ReceiverType, Idle
<1> HIDE DEF r
<1>5. Moves(c) /\ p \in packets[c] /\ (c \in Fresh => ~snd[c].firstOne)
  BY TakesFacts
<1>6. \A d \in Client : ~is_in_queue(rcv.queue, d) /\ rcv.queue # Holds(d)
  BY <1>2, NoneWaits, OneWaits DEF Idle
<1>7. again \subseteq again' /\ again' \subseteq again \cup {c} /\ (Complete(c) => c \in again')
  BY <1>1, <1>4, <1>6 DEF Remember
<1>8. Fresh' \subseteq Fresh
  BY <1>7 DEF Fresh
<1>9. PICK m \in SUBSET packets[c] : packets' = [packets EXCEPT ![c] = m]
  BY <1>5 DEF Moves
<1>10. snd' = snd /\ packets'[c] = m /\ packets[c] \subseteq PacketType
  BY <1>5, <1>9, ClientFacts DEF Moves, Inv, Types
<1>11. Types'
  BY <1>1, <1>3, <1>9, <1>10 DEF Inv, Types
<1>12. /\ \A d : (Complete(d)' <=> Complete(d)) /\ Top(d)' = Top(d)
       /\ \A d : ~Serving(d)
       /\ \A d : Serving(d)' <=> d = c
  BY <1>1, <1>4, <1>10 DEF Complete, Top, Serving
<1>13. \A d : OthersDone(d) => OthersDone(d)'
  BY <1>8, <1>12, DoneKeeps
\* Nobody is taken in again while another client is to be served.
<1>14. c \in again' => OthersDone(c)'
  <2> SUFFICES ASSUME c \in again', NEW d \in Fresh', d # c PROVE Client # {c} /\ Complete(d)'
    <3>1. CASE rcv.current \in Client
      BY <1>1, <3>1 DEF OthersDone
    <3>2. CASE rcv.current = Nobody
      <4>1. Untouched
        BY <3>2 DEF Inv, Receives
      <4> QED
        BY <1>1, <1>4, <1>6, <4>1 DEF Untouched, Remember
    <3> QED
      BY <1>2, <3>1, <3>2 DEF ReceiverType
  <2>1. CASE rcv.current = Nobody
    <3>1. Untouched
      BY <2>1 DEF Inv, Receives
    <3> QED
      BY <1>1, <1>4, <1>6, <3>1 DEF Untouched, Remember
  <2>2. CASE rcv.current \in Client
    <3>1. d = rcv.current
      BY <1>1, <2>2 DEF TwoClients, Fresh
    <3>2. Complete(d)
      BY <1>1, <1>8, <3>1 DEF Inv, Receives, Serves
    <3> QED
      BY <1>1, <1>12, <2>2, <3>1, <3>2
  <2> QED
    BY <1>2, <2>1, <2>2 DEF ReceiverType
<1>15. ASSUME c \in Fresh'
       PROVE  ~Complete(c) /\ ~Complete(c)' /\ \A i \in Slot : rcv.window[i].status # "b"
  <2>1. ~Complete(c) /\ c \in Fresh
    BY <1>7, <1>8, <1>15 DEF Fresh
  <2>2. CASE rcv.current = Nobody
    BY <1>12, <2>1, <2>2 DEF Inv, Receives, Untouched
  <2>3. CASE rcv.current \in Fresh
    BY <1>2, <1>12, <2>1, <2>3 DEF Inv, Receives, Serves, Buffers, Idle
  <2>4. CASE rcv.current \in again
    BY <1>1, <2>1, <2>4 DEF Inv, Receives, OthersDone
  <2> QED
    BY <1>2, <2>2, <2>3, <2>4 DEF ReceiverType, Fresh
<1>16. ASSUME c \in Fresh' PROVE Turn(c)'
  <2>1. Turn(c) /\ ~snd[c].firstOne /\ c \in Fresh
    BY <1>5, <1>8, <1>16, TurnFacts
  <2>2. GotOf(c) = 0 /\ GotOf(c)' = 0 /\ Known(c)' /\ Serving(c)'
    BY <1>1, <1>4, <1>12, <1>15, <1>16 DEF GotOf, Known
  <2>3. packets'[c] \subseteq Genuine(Full[c], Top(c)') /\ acks'[c] \subseteq Honest(GotOf(c)', Full[c])
    BY <1>1, <1>10, <1>12, <2>1, <2>2 DEF Turn
  <2>4. snd'[c].cuAck <= GotOf(c)' /\ GotOf(c)' <= Top(c)'
    BY <1>10, <1>12, <2>1, <2>2 DEF Turn
  <2>5. (\E a \in acks'[c] : a.isLast = 3) => OthersDone(c)'
    BY <1>1, <1>13, <2>1 DEF Turn
  <2>6. /\ Ready(snd'[c], Full[c]) /\ snd'[c].sending = {} /\ ~snd'[c].firstOne
        /\ snd'[c].running \/ Complete(c)'
        /\ Begins(written'[c])
    BY <1>1, <1>10, <1>12, <2>1 DEF Turn
  <2> QED
    BY <2>2, <2>3, <2>4, <2>5, <2>6 DEF Turn
<1>17. ASSUME NEW e \in Fresh', e # c PROVE Turn(e)'
  BY <1>1, <1>4, <1>5, <1>8, <1>12, <1>17, OthersKeep
<1>18. Receives'
  <2>1. c \in Fresh' => Serves(c)'
    <3> SUFFICES ASSUME c \in Fresh' PROVE Serves(c)'
      OBVIOUS
    <3>1. Turn(c) /\ ~Serving(c) /\ Full[c] \in Nat
      BY <1>8, <1>12, TurnFacts, ClientFacts
    <3>2. written'[c] = <<>> /\ ~Complete(c)'
      BY <1>1, <1>15, <3>1 DEF Turn
    <3>3. Buffers(rcv', Full[c], Top(c)', 2)
      BY <1>1, <1>4, <1>15 DEF Buffers
    <3> QED
      BY <1>1, <1>4, <3>1, <3>2, <3>3 DEF Serves
  <2>2. c # Nobody
    BY NobodyAssumption
  <2> QED
    BY <1>1, <1>4, <1>6, <1>14, <2>1, <2>2 DEF Receives
<1> QED
  BY <1>11, <1>16, <1>17, <1>18 DEF Inv

\* A client that is not being served, and the queue holds nobody else.
LEMMA EnqueuedFacts ==
    ASSUME TwoClients, Inv, NEW c \in Client, ~rcv.serveFirst, rcv.current # c
    PROVE  /\ rcv.current \in Client /\ Enqueued(rcv, c) \in ReceiverType
           /\ Enqueued(rcv, c) = [rcv EXCEPT !.queue = Holds(c)]
           /\ rcv.queue \in EmptyQueues \cup {Holds(c)}
<1>1. rcv \in ReceiverType
  BY DEF Inv, Types
<1>2. rcv.current \in Client
  BY <1>1 DEF ReceiverType, Inv, Receives, Untouched
<1>3. Holds(c) \in EmptyQueues \cup {Holds(d) : d \in Client}
  OBVIOUS
<1>4. [rcv EXCEPT !.queue = Holds(c)] \in ReceiverType
  BY <1>1, <1>3, Zenon DEF ReceiverType
<1>5. CASE rcv.queue \in EmptyQueues
  <2>1. ~is_in_queue(rcv.queue, c) /\ queue_enqueue(rcv.queue, c) = Holds(c)
    BY <1>5, NoneWaits
  <2> QED
    BY <1>2, <1>4, <1>5, <2>1 DEF Enqueued
<1>6. CASE \E d \in Client : rcv.queue = Holds(d) /\ rcv.current # d
  <2>1. PICK d \in Client : rcv.queue = Holds(d) /\ rcv.current # d
    BY <1>6
  <2>2. d = c
    BY <1>2, <2>1 DEF TwoClients
  <2>3. is_in_queue(rcv.queue, c) /\ rcv.queue = Holds(c)
    BY <2>1, <2>2, OneWaits
  <2>4. [rcv EXCEPT !.queue = Holds(c)] = rcv
    BY <1>1, <2>3 DEF ReceiverType
  <2> QED
    BY <1>1, <1>2, <2>3, <2>4 DEF Enqueued
<1> QED
  BY <1>5, <1>6, QueueFacts

LEMMA BlockKeeps ==
    ASSUME TwoClients, Inv, NEW c \in Client, NEW p, Takes(c, p), Remember, Block(c, p)
    PROVE  Inv'
<1> DEFINE reply == IF p.last THEN EndAck ELSE BlockAck
<1>1. /\ rcv' = Enqueued(rcv, c) /\ written' = written /\ ~rcv.serveFirst /\ rcv.current # c
      /\ Answer(c, {reply})
  BY DEF Block
<1>2. /\ rcv.current \in Client /\ rcv' \in ReceiverType /\ rcv' = [rcv EXCEPT !.queue = Holds(c)]
      /\ rcv.queue \in EmptyQueues \cup {Holds(c)} /\ rcv \in ReceiverType
  BY <1>1, EnqueuedFacts DEF Inv, Types
<1>3. /\ ~rcv'.serveFirst /\ rcv'.current = rcv.current /\ rcv'.cuAck = rcv.cuAck
      /\ rcv'.ifStart = rcv.ifStart /\ rcv'.wait = rcv.wait /\ rcv'.window = rcv.window
      /\ rcv'.queue = Holds(c)
  BY <1>1, <1>2 DEF ReceiverType
<1>4. /\ Moves(c) /\ p \in packets[c]
      /\ c \in Fresh => /\ ~snd[c].firstOne /\ Ready(snd[c], Full[c])
                        /\ p \in Genuine(Full[c], Top(c))
  BY TakesFacts
<1>5. /\ \A d \in Client : is_in_queue(rcv'.queue, d) <=> d = c
      /\ \A d \in Client : is_in_queue(rcv.queue, d) => d = c
      /\ \A d \in Client : rcv'.queue = Holds(d) => d = c
  BY <1>2, <1>3, OneWaits, NoneWaits
<1>6. again \subseteq again' /\ again' \subseteq again \cup {c} /\ (Complete(c) => c \in again')
  BY <1>3, <1>5 DEF Remember
<1>7. Fresh' \subseteq Fresh
  BY <1>6 DEF Fresh
<1>8. PICK m \in SUBSET packets[c] : packets' = [packets EXCEPT ![c] = m]
  BY <1>4 DEF Moves
<1>9. PICK n : n \subseteq acks[c] \cup {reply} /\ acks' = [acks EXCEPT ![c] = n]
  BY <1>1 DEF Answer, Carried
<1>10. /\ EndAck \in AckType /\ BlockAck \in AckType /\ BlockAck.isLast = 2 /\ BlockAck.cuAck = 0
  BY DEF EndAck, BlockAck, Ack, AckType
<1>11. snd' = snd /\ packets[c] \subseteq PacketType /\ acks[c] \subseteq AckType
  BY <1>4, ClientFacts DEF Moves
<1>12. Types'
  BY <1>1, <1>2, <1>8, <1>9, <1>10, <1>11 DEF Inv, Types
<1>13. /\ packets'[c] = m /\ acks'[c] = n
       /\ \A d \in Client \ {c} : acks'[d] = acks[d]
  BY <1>8, <1>9 DEF Inv, Types
<1>14. /\ \A d : (Complete(d)' <=> Complete(d)) /\ Top(d)' = Top(d)
       /\ \A d : (Serving(d)' <=> Serving(d)) /\ GotOf(d)' = GotOf(d)
       /\ ~Serving(c)
  BY <1>1, <1>3, <1>11 DEF Complete, Top, Serving, GotOf
<1>15. \A d : OthersDone(d) => OthersDone(d)'
  BY <1>7, <1>14, DoneKeeps
<1>16. ASSUME c \in Fresh' PROVE Turn(c)'
  <2>1. Turn(c) /\ c \in Fresh /\ ~snd[c].firstOne /\ ~Complete(c)
    BY <1>4, <1>6, <1>7, <1>16, TurnFacts DEF Fresh
  <2>2. GotOf(c) = 0 /\ Full[c] \in Nat /\ snd[c].cuAck \in Nat /\ Top(c) \in Nat
        /\ snd[c].read \in Nat
    BY <1>14, <2>1, ClientFacts DEF GotOf
\* Nothing was acknowledged, so that c has sent its name only.
  <2>3. Top(c) = 1
    <3>1. snd[c].cuAck = 0
      BY <2>1, <2>2 DEF Turn
    <3>2. snd[c].read = 0
      BY <1>4, <2>1, <2>2, <3>1 DEF Ready
    <3> QED
      BY <3>2 DEF Top
  <2>4. reply = BlockAck
    <3>1. p \in Genuine(Full[c], 1)
      BY <1>4, <2>1, <2>3
    <3>2. p = NoPacket \/ (p.seq = 1 /\ (p.last <=> p.seq = Full[c] + 2))
      BY <3>1 DEF Genuine
    <3>3. ~p.last
      BY <2>2, <3>2 DEF NoPacket, Packet
    <3> QED
      BY <3>3
  <2>5. acks'[c] \subseteq Honest(GotOf(c)', Full[c])
    <3>1. BlockAck \in Honest(0, Full[c])
      BY <1>10 DEF Honest
    <3> QED
      BY <1>9, <1>13, <1>14, <2>1, <2>2, <2>4, <3>1 DEF Turn
  <2>6. Known(c)' /\ packets'[c] \subseteq Genuine(Full[c], Top(c)')
    BY <1>5, <1>13, <1>14, <2>1 DEF Turn, Known
  <2>7. (\E a \in acks'[c] : a.isLast = 3) => OthersDone(c)'
    BY <1>9, <1>10, <1>13, <1>15, <2>1, <2>4 DEF Turn
  <2>8. /\ Ready(snd'[c], Full[c]) /\ snd'[c].sending = {} /\ ~snd'[c].firstOne
        /\ snd'[c].running \/ Complete(c)'
        /\ Begins(written'[c])
        /\ Serving(c)' \/ Complete(c)' \/ written'[c] = <<>>
        /\ snd'[c].cuAck <= GotOf(c)' /\ GotOf(c)' <= Top(c)'
    BY <1>1, <1>11, <1>14, <2>1 DEF Turn
  <2> QED
    BY <2>5, <2>6, <2>7, <2>8 DEF Turn
<1>17. ASSUME NEW e \in Fresh', e # c PROVE Turn(e)'
  <2>1. e \in Client
    BY DEF Fresh
  <2> QED
    BY <1>1, <1>3, <1>4, <1>5, <1>7, <1>13, <1>14, <1>17, <2>1, OthersKeep
<1>18. Receives'
  <2>1. PICK x : x = rcv.current
    OBVIOUS
  <2>2. x = rcv'.current /\ x \in Client /\ x # c /\ x # Nobody
    BY <1>1, <1>2, <1>3, <2>1, NobodyAssumption
  <2>3. x \in Fresh' => Serves(x)'
    <3> SUFFICES ASSUME x \in Fresh' PROVE Serves(x)'
      OBVIOUS
    <3>1. Serves(x)
      BY <1>7, <2>1 DEF Inv, Receives
    <3>2. Buffers(rcv', Full[x], Top(x)', 2)
      BY <1>3, <1>14, <3>1 DEF Serves, Buffers
    <3> QED
      BY <1>1, <1>3, <1>14, <1>15, <3>1, <3>2 DEF Serves
  <2>4. x \in again' => OthersDone(x)'
    BY <1>6, <1>15, <2>1, <2>2 DEF Inv, Receives
  <2> QED
    BY <1>3, <1>5, <1>6, <1>14, <2>2, <2>3, <2>4 DEF Receives
<1> QED
  BY <1>12, <1>16, <1>17, <1>18 DEF Inv


-----------------------------------------------------------------------------
(***************************************************************************)
(* The steps of the receiver that write.                                   *)
(***************************************************************************)
\* What is known of c's file, in its first turn, when an iteration ends: the
\* window r may hold the next packet, and the chunks w have been written.
Fits(c, r, w, replies) ==
    /\ r.ifStart /\ (r.wait => OthersDone(c))
    /\ Begins(w) /\ r.cuAck = Len(w) + 1 /\ r.cuAck < Full[c] + 2
    /\ GotOf(c) <= r.cuAck /\ r.cuAck <= Top(c)
    /\ Buffers(r, Full[c], Top(c), 1)
    /\ replies \subseteq Answers(r.cuAck, Full[c])

LEMMA CaughtUpFacts ==
    ASSUME NEW r \in ReceiverType
    PROVE  /\ CaughtUp(r) \in ReceiverType
           /\ CaughtUp(r).serveFirst = r.serveFirst /\ CaughtUp(r).current = r.current
           /\ CaughtUp(r).cuAck = r.cuAck /\ CaughtUp(r).ifStart = r.ifStart
           /\ CaughtUp(r).wait = r.wait /\ CaughtUp(r).window = r.window
           /\ CaughtUp(r).queue = r.queue
<1> DEFINE m == IF r.cuAlready < r.cuAck THEN r.cuAck ELSE r.cuAlready
           s == [r EXCEPT !.cuAlready = m]
<1>1. m \in Nat
  BY DEF ReceiverType
<1>2. CaughtUp(r) = s
  BY DEF CaughtUp, ReceiverType
<1> HIDE DEF m
<1>3. s \in ReceiverType
  BY <1>1, Zenon DEF ReceiverType
<1>4. /\ s.serveFirst = r.serveFirst /\ s.current = r.current /\ s.cuAck = r.cuAck
      /\ s.ifStart = r.ifStart /\ s.wait = r.wait /\ s.window = r.window
      /\ s.queue = r.queue
  BY DEF ReceiverType
<1> QED
  BY <1>2, <1>3, <1>4

LEMMA DrainedFacts ==
    ASSUME NEW r \in ReceiverType, NEW n \in Nat
    PROVE  /\ Drained(r, n) \in ReceiverType
           /\ Drained(r, n).serveFirst = r.serveFirst /\ Drained(r, n).current = r.current
           /\ Drained(r, n).cuAck = r.cuAck + n /\ Drained(r, n).ifStart = r.ifStart
           /\ Drained(r, n).wait = r.wait /\ Drained(r, n).queue = r.queue
           /\ \A i \in Slot : /\ Drained(r, n).window[i].packet = r.window[i].packet
                              /\ Drained(r, n).window[i].status = "b" =>
                                     /\ r.window[i].status = "b"
                                     /\ \A k \in 1..n : SlotOf(r.cuAck + k) # i
<1> DEFINE v == [i \in Slot |-> IF \E k \in 1..n : SlotOf(r.cuAck + k) = i
                                THEN [r.window[i] EXCEPT !.status = "e"] ELSE r.window[i]]
           m == r.cuAck + n
           s == [r EXCEPT !.cuAck = m, !.window = v]
<1>1. r.window \in [Slot -> [status : {"e", "b"}, packet : PacketType]] /\ r.cuAck \in Nat
  BY DEF ReceiverType
<1>2. v \in [Slot -> [status : {"e", "b"}, packet : PacketType]] /\ m \in Nat
  BY <1>1
<1>3. \A i \in Slot : /\ v[i].packet = r.window[i].packet
                      /\ v[i].status = "b" => /\ r.window[i].status = "b"
                                              /\ \A k \in 1..n : SlotOf(r.cuAck + k) # i
  BY <1>1
<1>4. Drained(r, n) = s
  BY DEF Drained, ReceiverType
<1> HIDE DEF v, m
<1>5. s \in ReceiverType
  BY <1>2, Zenon DEF ReceiverType
<1>6. /\ s.serveFirst = r.serveFirst /\ s.current = r.current /\ s.cuAck = m
      /\ s.ifStart = r.ifStart /\ s.wait = r.wait /\ s.window = v
      /\ s.queue = r.queue
  BY DEF ReceiverType
<1> QED
  BY <1>3, <1>4, <1>5, <1>6 DEF m

LEMMA FinishKeeps ==
    ASSUME TwoClients, Inv, NEW c \in Client, Moves(c), Serving(c), Remember,
           NEW r \in ReceiverType, r.current = c, ~r.serveFirst, r.queue = rcv.queue,
           NEW file \in Seq(Written), NEW replies \in SUBSET AckType, Finish(c, r, file, replies),
           c \in Fresh => Fits(c, r, file, replies)
    PROVE  Inv' /\ (c \in Fresh => Len(file) <= Len(written'[c]))
<1> DEFINE full == Full[c]
           n == IF r.ifStart THEN Run(r) ELSE 0
           d == Drained(r, n)
           s == CaughtUp(d)
           a(k) == Ahead(r, k).packet
           over == n > 0 /\ a(n).last
           more == IF n = 0 THEN {} ELSE {Ack(s.cuAck, 0, 0, IF over THEN 1 ELSE 0)}
           g == [k \in 1..n |-> Chunk(a(k))]
           w == file \o g
<1>1. /\ full \in Nat /\ GotOf(c) \in Nat /\ Top(c) \in Nat /\ Top(c) <= full + 2
      /\ rcv.current = c
  BY ClientFacts DEF Serving
<1>2. /\ r.cuAck \in Nat /\ Window \in Nat
      /\ r.window \in [Slot -> [status : {"e", "b"}, packet : PacketType]]
  BY WindowFacts DEF ReceiverType
<1>3. /\ n \in 0..Window /\ (\A k \in 1..n : Ahead(r, k).status = "b")
      /\ r.ifStart => \/ n = Window \/ Ahead(r, n + 1).status # "b" \/ (n > 0 /\ a(n).last)
  BY <1>2, RunFacts
<1>4. /\ written' = [written EXCEPT ![c] = w]
      /\ IF over THEN Close(c, s, replies \cup more) ELSE rcv' = s /\ Answer(c, replies \cup more)
  BY DEF Finish
<1>5. n \in Nat
  BY <1>2, <1>3
<1> HIDE DEF n
<1>6. \A k \in 1..n : a(k) \in PacketType
  <2> SUFFICES ASSUME NEW k \in 1..n PROVE a(k) \in PacketType
    OBVIOUS
  <2>1. SlotOf(r.cuAck + k) \in Slot
    BY <1>2, <1>5, SlotType
  <2> QED
    BY <1>2, <2>1 DEF Ahead
<1> HIDE DEF a
<1>7. g \in [1..n -> Written] /\ w \in Seq(Written)
  <2>1. ASSUME NEW k \in 1..n PROVE Chunk(a(k)) \in Written
    <3>1. a(k).chunk \in Nat
      BY <1>6 DEF PacketType
    <3> QED
      BY <3>1, ChunkIs
  <2>2. g \in [1..n -> Written]
    BY <2>1
  <2> HIDE DEF g
  <2>3. g \in Seq(Written)
    BY <1>5, <2>2, MappedSeq
  <2> QED
    BY <2>2, <2>3, ConcatProperties
<1>8. /\ d \in ReceiverType
      /\ d.serveFirst = r.serveFirst /\ d.current = r.current /\ d.cuAck = r.cuAck + n
      /\ d.ifStart = r.ifStart /\ d.wait = r.wait /\ d.queue = r.queue
      /\ \A i \in Slot : /\ d.window[i].packet = r.window[i].packet
                         /\ d.window[i].status = "b" => /\ r.window[i].status = "b"
                                                        /\ \A k \in 1..n : SlotOf(r.cuAck + k) # i
  BY <1>5, DrainedFacts
<1> HIDE DEF d
<1>9. /\ s \in ReceiverType
      /\ s.serveFirst = r.serveFirst /\ s.current = r.current /\ s.cuAck = r.cuAck + n
      /\ s.ifStart = r.ifStart /\ s.wait = r.wait /\ s.window = d.window /\ s.queue = r.queue
  BY <1>8, CaughtUpFacts
<1> HIDE DEF s
<1>10. more \in SUBSET AckType /\ (replies \cup more) \in SUBSET AckType
  BY <1>2, <1>5, <1>9 DEF Ack, AckType
<1>11. ASSUME c \in Fresh
       PROVE  /\ Begins(w) /\ Len(w) = Len(file) + n /\ Len(file) \in Nat
              /\ r.cuAck + n <= Top(c) /\ (over <=> r.cuAck + n = full + 2)
              /\ GotOf(c) <= r.cuAck + n /\ r.cuAck = Len(file) + 1
              /\ replies \cup more \subseteq Answers(r.cuAck + n, full)
  <2>1. /\ Begins(file) /\ r.cuAck = Len(file) + 1 /\ r.cuAck < full + 2
        /\ GotOf(c) <= r.cuAck /\ r.cuAck <= Top(c)
        /\ Buffers(r, full, Top(c), 1) /\ replies \subseteq Answers(r.cuAck, full)
    BY <1>11 DEF Fits
  <2>2. ASSUME NEW k \in 1..n
        PROVE  /\ a(k).chunk = r.cuAck + k - 1 /\ (a(k).last <=> r.cuAck + k = full + 2)
               /\ r.cuAck + k <= Top(c)
    <3>1. k \in 1..Window /\ Ahead(r, k).status = "b"
      BY <1>2, <1>3
    <3>2. full \in Nat /\ Top(c) \in Nat /\ r.cuAck \in Nat /\ Buffers(r, full, Top(c), 1)
      BY <1>1, <1>2, <2>1
    <3> HIDE DEF full
    <3>3. /\ Ahead(r, k).packet.chunk = r.cuAck + k - 1
          /\ Ahead(r, k).packet.last <=> r.cuAck + k = full + 2
          /\ r.cuAck + k <= Top(c)
      BY ONLY <3>1, <3>2, AheadFacts
    <3> QED
      BY <3>3 DEF a
  <2>3. r.cuAck + n <= Top(c) /\ (over <=> r.cuAck + n = full + 2)
    <3>1. CASE n = 0
      BY <1>1, <1>2, <2>1, <3>1
    <3>2. CASE n > 0
      <4>1. n \in 1..n
        BY <1>5, <3>2
      <4>2. (a(n).last <=> r.cuAck + n = full + 2) /\ r.cuAck + n <= Top(c)
        BY <2>2, <4>1
      <4> QED
        BY <3>2, <4>2
    <3> QED
      BY <1>5, <3>1, <3>2
  <2>4. Len(file) \in Nat
    BY <2>1 DEF Begins
  <2>5. ASSUME NEW k \in 1..n
        PROVE  g[k] = [chunk |-> Len(file) + k, whole |-> Len(file) + k \notin Binary]
    <3>1. k \in Nat /\ a(k).chunk = r.cuAck + k - 1 /\ r.cuAck = Len(file) + 1
      BY <1>5, <2>1, <2>2
    <3>2. a(k).chunk = Len(file) + k /\ Len(file) + k \in Nat
      BY ONLY <2>4, <3>1, SMT
    <3> QED
      BY <3>2, ChunkIs
  <2> HIDE DEF g
  <2>6. Begins(w) /\ Len(w) = Len(file) + n
    BY <1>5, <1>7, <2>1, <2>5, BeginsOn
  <2>7. replies \subseteq Answers(r.cuAck + n, full)
    <3>1. Honest(r.cuAck, full) \subseteq Honest(r.cuAck + n, full)
      BY <1>1, <1>2, <1>5, <2>3, HonestGrows
    <3> QED
      BY <2>1, <3>1 DEF Answers
  <2>8. more \subseteq Answers(r.cuAck + n, full)
    <3> SUFFICES ASSUME NEW x \in more PROVE x \in Answers(r.cuAck + n, full)
      OBVIOUS
    <3>1. x = Ack(r.cuAck + n, 0, 0, IF over THEN 1 ELSE 0)
      BY <1>9
    <3> QED
      BY <1>1, <1>2, <1>5, <2>3, <3>1, AnswerHonest, SMTT(30)
  <2>9. GotOf(c) <= r.cuAck + n
    BY <1>1, <1>2, <1>5, <2>1
  <2> QED
    BY <2>1, <2>3, <2>4, <2>6, <2>7, <2>8, <2>9
<1> HIDE DEF w, g, more
\* What is still buffered was not taken, and is not the next one.
<1>12. ASSUME c \in Fresh, NEW i \in Slot, s.window[i].status = "b"
       PROVE  /\ ~over
              /\ s.window[i].packet \in Genuine(full, Top(c))
              /\ SlotOf(s.window[i].packet.seq) = i
              /\ s.window[i].packet.seq \in (s.cuAck + 2)..(s.cuAck + Window)
  <2> DEFINE q == r.window[i].packet
  <2>1. /\ s.window[i].packet = q /\ r.window[i].status = "b"
        /\ \A k \in 1..n : SlotOf(r.cuAck + k) # i
    <3>1. d.window[i].status = "b" /\ s.window[i] = d.window[i]
      BY <1>9, <1>12
    <3>2. /\ d.window[i].packet = r.window[i].packet /\ r.window[i].status = "b"
          /\ \A k \in 1..n : SlotOf(r.cuAck + k) # i
      BY <1>8, <3>1
    <3> QED
      BY <3>1, <3>2
  <2>2. Buffers(r, full, Top(c), 1) /\ r.ifStart
    BY <1>12 DEF Fits
  <2>3. q \in Genuine(full, Top(c)) /\ SlotOf(q.seq) = i /\ q.seq \in (r.cuAck + 1)..(r.cuAck + Window)
    BY <2>1, <2>2 DEF Buffers
  <2> HIDE DEF q
  <2>4. PICK k \in 1..Window : q.seq = r.cuAck + k
    <3>1. q.seq - r.cuAck \in 1..Window /\ q.seq = r.cuAck + (q.seq - r.cuAck)
      BY <1>2, <2>3
    <3> QED
      BY <3>1
  <2>5. k \notin 1..n
    BY <2>1, <2>3, <2>4
  <2>6. Ahead(r, k).status = "b"
    BY <2>1, <2>3, <2>4 DEF Ahead
  <2>7. q.seq <= Top(c)
    <3>1. full \in Nat /\ Top(c) \in Nat /\ r.cuAck \in Nat
      BY <1>1, <1>2
    <3> HIDE DEF full
    <3>2. r.cuAck + k <= Top(c)
      BY ONLY <2>2, <2>4, <2>6, <3>1, AheadFacts
    <3> QED
      BY <2>4, <3>2
  <2>8. n + 1 <= k /\ n # Window
    BY <1>2, <1>5, <2>5
  <2>9. ~over
    BY <1>1, <1>2, <1>5, <1>11, <1>12, <2>4, <2>7, <2>8
  <2>10. k # n + 1
    BY <1>3, <2>2, <2>6, <2>8, <2>9
  <2>11. q.seq \in (s.cuAck + 2)..(s.cuAck + Window)
    BY <1>2, <1>5, <1>9, <2>4, <2>8, <2>10
  <2> QED
    BY <2>1, <2>3, <2>9, <2>11
<1>13. written'[c] = w
  BY <1>4 DEF Inv, Types
<1>14. CASE over
  <2>1. Close(c, s, replies \cup more) /\ s.current = c /\ ~s.serveFirst /\ s.queue = rcv.queue
    BY <1>4, <1>9, <1>14
  <2>2. ASSUME c \in Fresh
        PROVE  /\ \A i \in Slot : s.window[i].status # "b"
               /\ Begins(w) /\ Len(w) = full + 1 /\ Top(c) = full + 2
               /\ replies \cup more \subseteq Answers(full + 2, full)
    <3>1. r.cuAck + n = full + 2 /\ Begins(w) /\ Len(w) = Len(file) + n /\ Len(file) \in Nat
          /\ r.cuAck = Len(file) + 1 /\ r.cuAck + n <= Top(c)
          /\ replies \cup more \subseteq Answers(full + 2, full)
      BY <1>11, <1>14, <2>2
    <3>2. Len(w) = full + 1 /\ Top(c) = full + 2
      BY ONLY <1>1, <1>2, <1>5, <3>1, SMT
    <3> QED
      BY <1>12, <1>14, <2>2, <3>1, <3>2
  <2> HIDE DEF over
  <2>3. Inv'
    BY <1>4, <1>7, <1>9, <1>10, <2>1, <2>2, CloseKeeps
  <2> QED
    BY <1>5, <1>11, <1>13, <2>3
<1>15. CASE ~over
  <2>1. rcv' = s /\ Answer(c, replies \cup more)
    BY <1>4, <1>15
  <2>2. again' = again
    BY <1>1, <1>9, <2>1, RememberFacts
  <2>3. ASSUME c \in Fresh
        PROVE  /\ Begins(w) /\ Buffers(rcv', Full[c], Top(c), 2)
               /\ rcv'.ifStart /\ (rcv'.wait => OthersDone(c)) /\ rcv'.cuAck = Len(w) + 1
               /\ rcv'.cuAck < Full[c] + 2 /\ GotOf(c) <= rcv'.cuAck /\ rcv'.cuAck <= Top(c)
               /\ replies \cup more \subseteq Answers(rcv'.cuAck, Full[c])
    <3>1. s.ifStart /\ (s.wait => OthersDone(c))
      BY <1>9, <2>3 DEF Fits
    <3>2. /\ Begins(w) /\ s.cuAck = Len(w) + 1
          /\ s.cuAck < full + 2 /\ GotOf(c) <= s.cuAck /\ s.cuAck <= Top(c)
          /\ replies \cup more \subseteq Answers(s.cuAck, full)
      <4>1. /\ Begins(w) /\ Len(w) = Len(file) + n /\ Len(file) \in Nat /\ r.cuAck + n <= Top(c)
            /\ GotOf(c) <= r.cuAck + n /\ r.cuAck = Len(file) + 1 /\ r.cuAck + n # full + 2
            /\ replies \cup more \subseteq Answers(r.cuAck + n, full)
        BY <1>11, <1>15, <2>3
      <4>2. s.cuAck = r.cuAck + n
        BY <1>9
      <4>3. s.cuAck = Len(w) + 1 /\ s.cuAck < full + 2
        <5>1. full \in Nat /\ Top(c) \in Nat /\ Top(c) <= full + 2 /\ r.cuAck \in Nat /\ n \in Nat
          BY <1>1, <1>2, <1>5
        <5>2. Len(w) = Len(file) + n /\ Len(file) \in Nat /\ r.cuAck + n <= Top(c)
              /\ r.cuAck = Len(file) + 1 /\ r.cuAck + n # full + 2
          BY <4>1
        <5> QED
          BY ONLY <4>2, <5>1, <5>2, SMT
      <4> QED
        BY ONLY <4>1, <4>2, <4>3, Zenon
    <3>3. Buffers(s, full, Top(c), 2)
      BY <1>12, <2>3, <3>1 DEF Buffers
    <3> QED
      BY <2>1, <3>1, <3>2, <3>3
  <2>4. rcv' \in ReceiverType /\ ~rcv'.serveFirst /\ rcv'.current = c /\ rcv'.queue = rcv.queue
    BY <1>9, <2>1
  <2> HIDE DEF over
  <2>5. Inv'
    BY <1>4, <1>7, <1>10, <2>1, <2>2, <2>3, <2>4, AdvancesKeep
  <2> QED
    BY <1>5, <1>11, <1>13, <2>5
<1> QED
  BY <1>14, <1>15


LEMMA OpenKeeps ==
    ASSUME TwoClients, Inv, NEW c \in Client, NEW p, Takes(c, p), Remember, Serving(c), Open(c, p)
    PROVE  Inv' /\ (c \in Fresh => Len(written[c]) <= Len(written'[c]))
<1> DEFINE r == Opened(rcv)
           replies == {Ack(1, 0, 0, 0)}
<1>1. Moves(c) /\ rcv.current = c /\ ~rcv.serveFirst /\ rcv \in ReceiverType /\ rcv.cuAck \in Nat
  BY TakesFacts, ClientFacts DEF Serving
<1>2. r \in ReceiverType
  BY <1>1, Zenon DEF Opened, ReceiverType
<1>3. /\ ~r.serveFirst /\ r.current = c /\ ~r.wait /\ r.ifStart /\ r.cuAck = 1
      /\ r.window = rcv.window /\ r.queue = rcv.queue
  BY <1>1 DEF Opened, ReceiverType
<1>4. Finish(c, r, <<>>, replies) /\ p.seq = 1 /\ p.seq = rcv.cuAck + 1
  BY DEF Open, InTurn
<1> HIDE DEF r
<1>5. /\ Full[c] \in Nat /\ GotOf(c) \in Nat /\ Top(c) \in Nat /\ Top(c) >= 1
      /\ written[c] \in Seq(Written)
  BY ClientFacts
<1>6. Begins(<<>>) /\ Len(<<>>) = 0 /\ <<>> \in Seq(Written)
  BY DEF Begins
<1>7. replies \in SUBSET AckType
  BY DEF Ack, AckType
<1>8. ASSUME c \in Fresh PROVE Fits(c, r, <<>>, replies) /\ written[c] = <<>>
  <2>1. rcv.cuAck = 0 /\ GotOf(c) = 0
    BY <1>1, <1>4, <1>8, ServingFacts
  <2>2. ~rcv.ifStart /\ written[c] = <<>>
    BY <1>5, <1>8, <2>1, ServingFacts
  <2>3. Buffers(rcv, Full[c], Top(c), 2)
    BY <1>8, ServingFacts DEF Serves
  <2>4. Buffers(r, Full[c], Top(c), 1)
    BY <1>3, <2>2, <2>3 DEF Buffers
  <2>5. replies \subseteq Answers(r.cuAck, Full[c])
    BY <1>3, <1>5, AnswerHonest
  <2>6. r.cuAck < Full[c] + 2 /\ GotOf(c) <= r.cuAck /\ r.cuAck <= Top(c) /\ r.cuAck = Len(<<>>) + 1
    BY <1>3, <1>5, <1>6, <2>1
  <2> QED
    BY <1>3, <1>6, <2>2, <2>4, <2>5, <2>6 DEF Fits
<1> HIDE DEF replies
<1>9. Inv' /\ (c \in Fresh => Len(<<>>) <= Len(written'[c]))
  BY <1>1, <1>2, <1>3, <1>4, <1>6, <1>7, <1>8, FinishKeeps
<1> QED
  BY <1>8, <1>9

\* A packet that is taken in turn, with its chunk.
LEMMA DeliveredFacts ==
    ASSUME NEW r \in ReceiverType, NEW p, p.seq \in Nat
    PROVE  /\ Delivered(r, p) \in ReceiverType
           /\ Delivered(r, p).serveFirst = r.serveFirst /\ Delivered(r, p).current = r.current
           /\ Delivered(r, p).cuAck = r.cuAck + 1 /\ Delivered(r, p).ifStart = r.ifStart
           /\ Delivered(r, p).wait = r.wait /\ Delivered(r, p).queue = r.queue
           /\ \A i \in Slot : Delivered(r, p).window[i].status = "b" =>
                  Delivered(r, p).window[i] = r.window[i]
<1> DEFINE v == [r.window EXCEPT ![SlotOf(p.seq)].status = "e"]
           m == r.cuAck + 1
           s == [r EXCEPT !.cuAck = m, !.window = v]
<1>1. r.window \in [Slot -> [status : {"e", "b"}, packet : PacketType]] /\ m \in Nat
  BY DEF ReceiverType
<1>2. SlotOf(p.seq) \in Slot
  BY SlotType
<1>3. v \in [Slot -> [status : {"e", "b"}, packet : PacketType]]
  BY <1>1, <1>2
<1>4. \A i \in Slot : v[i].status = "b" => v[i] = r.window[i]
  BY <1>1, <1>2
<1>5. Delivered(r, p) = s
  BY DEF Delivered, ReceiverType
<1> HIDE DEF v, m
<1>6. s \in ReceiverType
  BY <1>1, <1>3, Zenon DEF ReceiverType
<1>7. /\ s.serveFirst = r.serveFirst /\ s.current = r.current /\ s.cuAck = m
      /\ s.ifStart = r.ifStart /\ s.wait = r.wait /\ s.window = v
      /\ s.queue = r.queue
  BY DEF ReceiverType
<1> QED
  BY <1>4, <1>5, <1>6, <1>7 DEF m

LEMMA DeliverKeeps ==
    ASSUME TwoClients, Inv, NEW c \in Client, NEW p, Takes(c, p), Remember, Serving(c), Deliver(c, p)
    PROVE  Inv' /\ (c \in Fresh => Len(written[c]) <= Len(written'[c]))
<1> DEFINE r == Delivered(rcv, p)
           x == Chunk(p)
           w == written[c]
           file == Append(w, x)
           full == Full[c]
<1>1. /\ Moves(c) /\ rcv.current = c /\ ~rcv.serveFirst /\ rcv \in ReceiverType
      /\ rcv.cuAck \in Nat /\ p \in PacketType /\ p.seq \in Nat /\ p.chunk \in Nat
  BY TakesFacts, ClientFacts DEF Serving, PacketType
<1>2. /\ full \in Nat /\ GotOf(c) \in Nat /\ Top(c) \in Nat /\ Top(c) <= full + 2
      /\ w \in Seq(Written) /\ Len(w) \in Nat
  BY ClientFacts
<1>3. p.seq = rcv.cuAck + 1 /\ p.seq # 1
  BY DEF Deliver, InTurn
<1>4. /\ r \in ReceiverType /\ r.serveFirst = rcv.serveFirst /\ r.current = rcv.current
      /\ r.cuAck = rcv.cuAck + 1 /\ r.ifStart = rcv.ifStart /\ r.wait = rcv.wait
      /\ r.queue = rcv.queue
      /\ \A i \in Slot : r.window[i].status = "b" => r.window[i] = rcv.window[i]
  BY <1>1, DeliveredFacts
<1>5. x \in Written
  BY <1>1, ChunkIs
<1>6. /\ file \in Seq(Written) /\ Len(file) = Len(w) + 1 /\ file[Len(w) + 1] = x
      /\ \A k \in 1..Len(w) : file[k] = w[k]
  <2> HIDE DEF x, w
  <2> QED
    BY <1>2, <1>5, AppendProperties
<1>7. ASSUME c \in Fresh
      PROVE  /\ rcv.ifStart /\ rcv.cuAck = Len(w) + 1 /\ rcv.cuAck < full + 2
             /\ GotOf(c) = rcv.cuAck /\ rcv.cuAck + 1 <= Top(c)
             /\ p.last <=> rcv.cuAck + 1 = full + 2
             /\ Begins(file) /\ (rcv.wait => OthersDone(c))
             /\ Buffers(rcv, full, Top(c), 2)
  <2>1. /\ GotOf(c) = rcv.cuAck /\ rcv.cuAck < full + 2 /\ Serves(c)
        /\ rcv.ifStart /\ rcv.cuAck = Len(w) + 1
    BY <1>1, <1>3, <1>7, ServingFacts
  <2>2. p # NoPacket
    BY <1>1, <1>3 DEF NoPacket, Packet
  <2>3. /\ p.seq \in 1..Top(c) /\ p.chunk = p.seq - 1
        /\ p.last <=> p.seq = full + 2
    BY <1>7, <2>2, TakesFacts
  <2>4. rcv.cuAck + 1 <= Top(c) /\ (p.last <=> rcv.cuAck + 1 = full + 2) /\ p.chunk = Len(w) + 1
    BY <1>1, <1>2, <1>3, <2>1, <2>3
  <2>5. x = [chunk |-> Len(w) + 1, whole |-> Len(w) + 1 \notin Binary]
    <3>1. Len(w) + 1 \in Nat
      BY <1>2
    <3> QED
      BY <2>4, <3>1, ChunkIs
  <2>6. Begins(w)
    BY <1>7, TurnFacts DEF Turn
  <2> HIDE DEF x, file, w
  <2>7. ASSUME NEW k \in 1..Len(file) PROVE file[k] = [chunk |-> k, whole |-> k \notin Binary]
    <3>1. CASE k = Len(w) + 1
      BY <1>6, <2>5, <3>1
    <3>2. CASE k # Len(w) + 1
      <4>1. k \in 1..Len(w)
        BY <1>2, <1>6, <3>2
      <4> QED
        BY <1>6, <2>6, <4>1 DEF Begins
    <3> QED
      BY <3>1, <3>2
  <2>8. Begins(file)
    BY <1>6, <2>7 DEF Begins
  <2> QED
    BY <2>1, <2>4, <2>8 DEF Serves
<1> HIDE DEF r, file, x, w
<1>8. CASE p.last
  <2> DEFINE s == CaughtUp(r)
             replies == {Ack(r.cuAck, 0, 0, 1)}
  <2>1. written' = [written EXCEPT ![c] = file] /\ Close(c, s, replies)
    BY <1>8 DEF Deliver, r, file, x, w
  <2>2. /\ s \in ReceiverType /\ s.current = c /\ ~s.serveFirst /\ s.queue = rcv.queue
        /\ s.window = r.window
    BY <1>1, <1>4, CaughtUpFacts
  <2>3. replies \in SUBSET AckType
    BY <1>1, <1>4 DEF Ack, AckType
  <2> HIDE DEF s
  <2>4. ASSUME c \in Fresh
        PROVE  /\ \A i \in Slot : s.window[i].status # "b"
               /\ Begins(file) /\ Len(file) = full + 1 /\ Top(c) = full + 2
               /\ replies \subseteq Answers(full + 2, full)
    <3>1. r.cuAck = full + 2 /\ Top(c) = full + 2 /\ Len(file) = full + 1
      BY <1>1, <1>2, <1>4, <1>6, <1>7, <1>8, <2>4
    <3>2. ASSUME NEW i \in Slot, s.window[i].status = "b" PROVE FALSE
      <4>1. rcv.window[i].status = "b"
        BY <1>4, <2>2, <3>2
      <4> DEFINE q == rcv.window[i].packet
      <4>2. q \in Genuine(full, Top(c)) /\ q.seq \in (rcv.cuAck + 2)..(rcv.cuAck + Window)
        BY <1>7, <2>4, <4>1 DEF Buffers
      <4>3. q # NoPacket
        BY <1>1, <4>2 DEF NoPacket, Packet
      <4>4. q.seq \in 1..Top(c)
        BY <4>2, <4>3 DEF Genuine
      <4> HIDE DEF q
      <4> QED
        BY <1>1, <1>2, <1>4, <3>1, <4>2, <4>4
    <3>3. replies \subseteq Answers(full + 2, full)
      BY <1>2, <3>1, AnswerHonest
    <3> QED
      BY <1>7, <2>4, <3>1, <3>2, <3>3
  <2> HIDE DEF replies
  <2>5. Inv'
    BY <1>1, <1>6, <2>1, <2>2, <2>3, <2>4, CloseKeeps
  <2>6. written'[c] = file
    BY <2>1 DEF Inv, Types
  <2> QED
    BY <1>2, <1>6, <2>5, <2>6 DEF w
<1>9. CASE ~p.last
  <2> DEFINE replies == {Ack(r.cuAck, 0, 0, 0)}
  <2>1. Finish(c, r, file, replies)
    BY <1>9 DEF Deliver, r, file, x, w
  <2>2. replies \in SUBSET AckType
    BY <1>1, <1>4 DEF Ack, AckType
  <2>3. ASSUME c \in Fresh PROVE Fits(c, r, file, replies)
    <3>1. /\ r.ifStart /\ (r.wait => OthersDone(c)) /\ Begins(file)
          /\ r.cuAck = Len(file) + 1 /\ r.cuAck < full + 2 /\ GotOf(c) <= r.cuAck
          /\ r.cuAck <= Top(c)
      BY <1>1, <1>2, <1>4, <1>6, <1>7, <1>9, <2>3
    <3>2. replies \subseteq Answers(r.cuAck, full)
      <4>1. full \in Nat /\ r.cuAck \in Nat
        BY <1>1, <1>2, <1>4
      <4> QED
        BY ONLY <4>1, AnswerHonest DEF replies
    <3>3. ASSUME NEW i \in Slot, r.window[i].status = "b"
          PROVE  /\ r.window[i].packet \in Genuine(full, Top(c))
                 /\ SlotOf(r.window[i].packet.seq) = i
                 /\ r.window[i].packet.seq \in (r.cuAck + 1)..(r.cuAck + Window)
      <4>1. r.window[i] = rcv.window[i]
        BY <1>4, <3>3
      <4>2. /\ r.window[i].packet \in Genuine(full, Top(c))
            /\ SlotOf(r.window[i].packet.seq) = i
            /\ r.window[i].packet.seq \in (rcv.cuAck + 2)..(rcv.cuAck + Window)
        BY <1>7, <2>3, <3>3, <4>1 DEF Buffers
      <4> QED
        BY <1>1, <1>4, <4>2, WindowFacts
    <3>4. Buffers(r, full, Top(c), 1)
      BY <3>1, <3>3 DEF Buffers
    <3> HIDE DEF replies
    <3> QED
      BY <3>1, <3>2, <3>4 DEF Fits
  <2> HIDE DEF replies
  <2>4. Inv' /\ (c \in Fresh => Len(file) <= Len(written'[c]))
    BY <1>1, <1>4, <1>6, <2>1, <2>2, <2>3, FinishKeeps
  <2>5. Len(written'[c]) \in Nat
    BY <2>4, ClientFacts DEF Inv, Types
  <2> QED
    BY <1>2, <1>6, <2>4, <2>5 DEF w
<1> QED
  BY <1>8, <1>9


LEMMA BufferedFacts ==
    ASSUME NEW r \in ReceiverType, NEW p \in PacketType
    PROVE  /\ Buffered(r, p) \in ReceiverType
           /\ Buffered(r, p).serveFirst = r.serveFirst /\ Buffered(r, p).current = r.current
           /\ Buffered(r, p).cuAck = r.cuAck /\ Buffered(r, p).ifStart = r.ifStart
           /\ Buffered(r, p).wait = r.wait /\ Buffered(r, p).queue = r.queue
           /\ \A i \in Slot : Buffered(r, p).window[i] =
                  IF i = SlotOf(p.seq) THEN [status |-> "b", packet |-> p] ELSE r.window[i]
<1> DEFINE v == [r.window EXCEPT ![SlotOf(p.seq)] = [status |-> "b", packet |-> p]]
           m == IF Gap(r, p) THEN p.seq ELSE r.cuAlready
           s == [r EXCEPT !.window = v, !.cuAlready = m]
<1>1. r.window \in [Slot -> [status : {"e", "b"}, packet : PacketType]]
  BY DEF ReceiverType
<1>2. m \in Nat
  BY DEF ReceiverType, PacketType
<1>3. v \in [Slot -> [status : {"e", "b"}, packet : PacketType]]
  BY <1>1
<1>4. \A i \in Slot : v[i] = IF i = SlotOf(p.seq) THEN [status |-> "b", packet |-> p]
                                                 ELSE r.window[i]
  BY <1>1
<1>5. Buffered(r, p) = s
  BY DEF Buffered, ReceiverType
<1> HIDE DEF v, m
<1>6. s \in ReceiverType
  BY <1>2, <1>3, Zenon DEF ReceiverType
<1>7. /\ s.serveFirst = r.serveFirst /\ s.current = r.current /\ s.cuAck = r.cuAck
      /\ s.ifStart = r.ifStart /\ s.wait = r.wait /\ s.window = v
      /\ s.queue = r.queue
  BY DEF ReceiverType
<1> QED
  BY <1>4, <1>5, <1>6, <1>7

LEMMA BufferKeeps ==
    ASSUME TwoClients, Inv, NEW c \in Client, NEW p, Takes(c, p), Remember, Serving(c), Buffer(c, p)
    PROVE  Inv' /\ (c \in Fresh => Len(written[c]) <= Len(written'[c]))
<1> DEFINE r == Buffered(rcv, p)
           w == written[c]
           full == Full[c]
           replies == {BufferAck(rcv, p)}
<1>1. /\ Moves(c) /\ rcv.current = c /\ ~rcv.serveFirst /\ rcv \in ReceiverType
      /\ rcv.cuAck \in Nat /\ rcv.cuAlready \in Nat /\ p \in PacketType /\ p.seq \in Nat
  BY TakesFacts, ClientFacts DEF Serving, PacketType, ReceiverType
<1>2. /\ full \in Nat /\ GotOf(c) \in Nat /\ Top(c) \in Nat /\ Top(c) = snd[c].read + 1
      /\ w \in Seq(Written) /\ snd[c].cuAck \in Nat /\ snd[c].read \in Nat
  BY ClientFacts DEF Top
<1>3. p.seq > rcv.cuAck /\ p.seq # rcv.cuAck + 1 /\ Finish(c, r, w, replies)
  BY DEF Buffer, Early, Accepts
<1>4. /\ r \in ReceiverType /\ r.serveFirst = rcv.serveFirst /\ r.current = rcv.current
      /\ r.cuAck = rcv.cuAck /\ r.ifStart = rcv.ifStart /\ r.wait = rcv.wait
      /\ r.queue = rcv.queue
      /\ \A i \in Slot : r.window[i] =
             IF i = SlotOf(p.seq) THEN [status |-> "b", packet |-> p] ELSE rcv.window[i]
  BY <1>1, BufferedFacts
<1>5. /\ \A got \in Nat : rcv.cuAck <= got => replies \subseteq Answers(got, full)
      /\ replies \in SUBSET AckType
  <2>1. BufferAck(rcv, p) = Ack(rcv.cuAck, 0, 0, 0)
        \/ (BufferAck(rcv, p) = Ack(rcv.cuAck, rcv.cuAlready + 1, p.seq - 1, 0)
            /\ rcv.cuAlready + 1 \in Nat /\ p.seq - 1 \in Nat)
    BY <1>1 DEF BufferAck, Gap
  <2>2. ASSUME NEW got \in Nat, rcv.cuAck <= got PROVE BufferAck(rcv, p) \in Answers(got, full)
    <3>1. Ack(rcv.cuAck, 0, 0, 0) \in Answers(got, full)
      BY <1>1, <1>2, <2>2, AnswerHonest
    <3>2. ASSUME rcv.cuAlready + 1 \in Nat, p.seq - 1 \in Nat
          PROVE  Ack(rcv.cuAck, rcv.cuAlready + 1, p.seq - 1, 0) \in Answers(got, full)
      BY <1>1, <1>2, <2>2, <3>2, AnswerHonest
    <3> QED
      BY <2>1, <3>1, <3>2
  <2>3. BufferAck(rcv, p) \in Answers(rcv.cuAck, full)
    BY <1>1, <2>2
  <2> QED
    BY <2>2, <2>3 DEF Answers, Honest
<1> HIDE DEF r, replies
<1>6. ASSUME c \in Fresh PROVE Fits(c, r, w, replies)
  <2>1. /\ GotOf(c) = rcv.cuAck /\ rcv.cuAck < full + 2 /\ Serves(c)
        /\ Ready(snd[c], full) /\ Top(c) <= snd[c].cuAck + Window /\ snd[c].cuAck <= GotOf(c)
        /\ GotOf(c) <= Top(c)
        /\ p \in Genuine(full, Top(c)) /\ Begins(w)
    BY <1>6, ServingFacts, TakesFacts, TurnFacts DEF Turn
  <2>2. p # NoPacket
    BY <1>1, <1>3 DEF NoPacket, Packet
  <2>3. p.seq <= Top(c)
    BY <1>2, <2>1, <2>2 DEF Genuine
  <2>4. p.seq \in (rcv.cuAck + 2)..(rcv.cuAck + Window)
    <3>1. p.seq >= rcv.cuAck + 2
      BY <1>1, <1>3
    <3>2. p.seq <= rcv.cuAck + Window
      <4>1. snd[c].cuAck <= rcv.cuAck /\ Top(c) <= snd[c].cuAck + Window /\ Window \in Nat
            /\ snd[c].cuAck \in Nat
        BY <2>1, WindowFacts, ClientFacts
      <4>2. p.seq \in Nat /\ Top(c) \in Nat /\ rcv.cuAck \in Nat
        BY <1>1, <1>2
      <4> QED
        BY ONLY <2>3, <4>1, <4>2, SMT
    <3> QED
      BY <1>1, <3>1, <3>2, WindowFacts
\* A packet other than the first one is sent only after the first was taken.
  <2>5. rcv.ifStart /\ rcv.cuAck = Len(w) + 1
    <3>1. snd[c].read # 0
      BY <1>1, <1>2, <1>3, <2>3
    <3>2. snd[c].cuAck >= 1
      BY <2>1, <3>1 DEF Ready
    <3> QED
      BY <1>1, <1>2, <1>6, <2>1, <3>2, ServingFacts
  <2>6. Buffers(rcv, full, Top(c), 2) /\ (rcv.wait => OthersDone(c))
    BY <2>1 DEF Serves
  <2>7. ASSUME NEW i \in Slot, r.window[i].status = "b"
        PROVE  /\ r.window[i].packet \in Genuine(full, Top(c))
               /\ SlotOf(r.window[i].packet.seq) = i
               /\ r.window[i].packet.seq \in (r.cuAck + 1)..(r.cuAck + Window)
    <3>1. CASE i = SlotOf(p.seq)
      <4>1. r.window[i].packet = p
        BY <1>4, <3>1
      <4> QED
        BY <1>1, <1>4, <2>1, <2>4, <3>1, <4>1, WindowFacts
    <3>2. CASE i # SlotOf(p.seq)
      <4>1. r.window[i] = rcv.window[i]
        BY <1>4, <3>2
      <4>2. /\ r.window[i].packet \in Genuine(full, Top(c))
            /\ SlotOf(r.window[i].packet.seq) = i
            /\ r.window[i].packet.seq \in (rcv.cuAck + 2)..(rcv.cuAck + Window)
        BY <2>6, <2>7, <4>1 DEF Buffers
      <4> QED
        BY <1>1, <1>4, <4>2, WindowFacts
    <3> QED
      BY <3>1, <3>2
  <2>8. Buffers(r, full, Top(c), 1)
    BY <1>4, <2>5, <2>7 DEF Buffers
  <2>9. replies \subseteq Answers(r.cuAck, full)
    BY <1>1, <1>4, <1>5
  <2> QED
    BY <1>4, <2>1, <2>5, <2>6, <2>8, <2>9 DEF Fits
<1> QED
  BY <1>1, <1>2, <1>3, <1>4, <1>5, <1>6, FinishKeeps

\* A step of the receiver: whatever it does, a file in its first turn only grows.
LEMMA ReceiveKeeps ==
    ASSUME TwoClients, Inv, NEW c \in Client, NEW p, Receive(c, p)
    PROVE  /\ Inv' /\ snd' = snd
           /\ \A d \in Fresh : Len(written[d]) <= Len(written'[d])
<1>1. Takes(c, p) /\ Remember /\ snd' = snd
  BY DEF Receive, Takes
<1>2. \A d \in Client : Len(written[d]) \in Nat
  BY ClientFacts
<1>3. CASE Adopt(c) \/ Remind(c) \/ Block(c, p)
  <2>1. written' = written
    BY <1>3 DEF Adopt, Remind, Block
  <2>2. Inv'
    BY <1>1, <1>3, AdoptKeeps, RemindKeeps, BlockKeeps
  <2> QED
    BY <1>1, <1>2, <2>1, <2>2 DEF Fresh
<1>4. CASE Serve(c, p)
  <2>1. Serving(c)
    BY <1>4 DEF Serve
  <2>2. Inv' /\ (c \in Fresh => Len(written[c]) <= Len(written'[c]))
    <3>1. CASE Open(c, p)
      BY <1>1, <2>1, <3>1, OpenKeeps
    <3>2. CASE Deliver(c, p)
      BY <1>1, <2>1, <3>2, DeliverKeeps
    <3>3. CASE Buffer(c, p)
      BY <1>1, <2>1, <3>3, BufferKeeps
    <3>4. CASE Repeat(c, p)
      <4>1. written' = written
        BY <3>4 DEF Repeat
      <4> QED
        BY <1>1, <1>2, <2>1, <3>4, <4>1, RepeatKeeps
    <3> QED
      BY <1>4, <3>1, <3>2, <3>3, <3>4 DEF Serve
  <2>3. ASSUME NEW d \in Client, d # c PROVE written'[d] = written[d]
    BY <1>4, <2>3 DEF Serve, Open, Deliver, Buffer, Repeat, Finish, Inv, Types
  <2> QED
    BY <1>1, <1>2, <2>2, <2>3 DEF Fresh
<1> QED
  BY <1>1, <1>3, <1>4 DEF Receive

-----------------------------------------------------------------------------
(***************************************************************************)
(* The invariant holds.                                                    *)
(***************************************************************************)
LEMMA InitInv == Init => Inv
<1> SUFFICES ASSUME Init PROVE Inv
  OBVIOUS
<1>1. /\ snd = [d \in Client |-> SenderInit] /\ rcv = ReceiverInit
      /\ packets = [d \in Client |-> {}] /\ acks = [d \in Client |-> {}]
      /\ written = [d \in Client |-> <<>>] /\ again = {}
  BY DEF Init
<1>2. \A c \in Client : Full[c] \in Nat
  BY FullAssumption
<1>3. \A c \in Client :
          /\ Ready(SenderInit, Full[c]) /\ SenderInit.sending = {} /\ SenderInit.read = 0
          /\ SenderInit.cuAck = 0 /\ SenderInit.running /\ ~SenderInit.wait
  BY <1>2, StartReady
<1>4. rcv \in ReceiverType
  <2>1. NoPacket \in PacketType
    BY DEF NoPacket, Packet, PacketType
  <2> QED
    BY <1>1, <2>1 DEF ReceiverInit, ReceiverType, EmptyQueues
<1>5. /\ rcv.serveFirst /\ rcv.current = Nobody /\ rcv.cuAck = 0 /\ ~rcv.ifStart /\ ~rcv.wait
      /\ rcv.queue \in EmptyQueues
      /\ \A i \in Slot : rcv.window[i].status # "b"
  BY <1>1 DEF ReceiverInit, EmptyQueues
<1>6. \A c \in Client : ~is_in_queue(rcv.queue, c) /\ rcv.queue # Holds(c)
  BY <1>5, NoneWaits, OneWaits
<1>7. Types
  <2>1. \A c \in Client : Shaped(SenderInit, Full[c])
    BY <1>3 DEF Ready
  <2>2. Client # {} => SenderInit \in SenderType
    BY <2>1 DEF Shaped
  <2>3. snd \in [Client -> SenderType]
    BY <1>1, <2>2
  <2> QED
    BY <1>1, <1>4, <2>1, <2>3 DEF Types
<1>8. \A c \in Client : Len(written[c]) = 0 /\ ~Complete(c)
  BY <1>1, <1>2 DEF Complete
<1>9. Receives
  <2>1. Nobody \notin Client
    BY NobodyAssumption
  <2> QED
    BY <1>1, <1>5, <1>6, <1>8, <2>1 DEF Receives, Idle, Untouched, Fresh
<1>10. ASSUME NEW c \in Fresh PROVE Turn(c)
  <2>1. c \in Client /\ snd[c] = SenderInit /\ packets[c] = {} /\ acks[c] = {} /\ written[c] = <<>>
    BY <1>1 DEF Fresh
  <2>2. GotOf(c) = 0 /\ Top(c) = 1 /\ ~Known(c)
    BY <1>3, <1>5, <1>6, <1>8, <2>1 DEF GotOf, Top, Known, Serving
  <2>3. Begins(written[c])
    BY <2>1 DEF Begins
  <2> QED
    BY <1>3, <2>1, <2>2, <2>3 DEF Turn
<1> QED
  BY <1>7, <1>9, <1>10 DEF Inv

LEMMA StepKeeps ==
    ASSUME TwoClients, Inv, [Next]_vars
    PROVE  Inv'
<1>1. CASE UNCHANGED vars
  <2>1. snd' = snd /\ rcv' = rcv /\ packets' = packets /\ acks' = acks /\ written' = written
        /\ again' = again
    BY <1>1 DEF vars
  <2>2. Fresh' = Fresh /\ \A e : Complete(e)' = Complete(e) /\ Serving(e)' = Serving(e)
    BY <2>1 DEF Fresh, Complete, Serving
  <2>3. \A e : OthersDone(e)' = OthersDone(e) /\ Known(e)' = Known(e) /\ GotOf(e)' = GotOf(e)
               /\ Top(e)' = Top(e)
    BY <2>1, <2>2 DEF OthersDone, Known, GotOf, Top
  <2>4. Types'
    BY <2>1 DEF Inv, Types
  <2>5. ASSUME NEW e \in Fresh PROVE Turn(e)'
    BY <2>1, <2>2, <2>3 DEF Inv, Turn
  <2>6. \A e : Serves(e)' = Serves(e)
    BY <2>1, <2>2, <2>3 DEF Serves
  <2>7. Receives'
    BY <2>1, <2>2, <2>3, <2>6 DEF Inv, Receives, Idle, Untouched
  <2> QED
    BY <2>2, <2>4, <2>5, <2>7 DEF Inv
<1>2. CASE Next
  <2>1. PICK c \in Client : ClientNext(c) \/ ReceiverNext(c)
    BY <1>2 DEF Next
  <2>2. CASE ClientNext(c)
    BY <2>2, ProceedKeeps, HearKeeps DEF ClientNext
  <2>3. CASE ReceiverNext(c)
    BY <2>3, CallAgainKeeps, ReceiveKeeps DEF ReceiverNext
  <2> QED
    BY <2>1, <2>2, <2>3
<1> QED
  BY <1>1, <1>2

-----------------------------------------------------------------------------
(***************************************************************************)
(* What follows for two clients.                                           *)
(***************************************************************************)
\* What the loops of ncp.c and rcv.c and the network between them keep, for
\* every length of the files, every window and every MaxInFlight.
THEOREM Invariance ==
    ASSUME TwoClients
    PROVE  Spec => []Inv
<1>1. Inv /\ [Next]_vars => Inv'
  BY StepKeeps
<1> QED
  BY <1>1, InitInv, PTL DEF Spec

\* Every variable of the processes keeps its shape, whoever is taken in again;
\* no sender reads past the end of its file.
THEOREM TransferTypes ==
    ASSUME TwoClients
    PROVE  Spec => []TypeOK
<1>1. Inv => TypeOK
  <2> SUFFICES ASSUME Inv PROVE TypeOK
    OBVIOUS
  <2>1. ASSUME NEW c \in Client
        PROVE  /\ snd[c].window \in [Slot -> PacketType] /\ snd[c].left \in Slot
               /\ snd[c].packet \in PacketType /\ snd[c].read \in 0..(Full[c] + 1)
               /\ packets[c] \subseteq PacketType /\ acks[c] \subseteq AckType
               /\ written[c] \in Seq([chunk : Nat, whole : BOOLEAN])
    BY ClientFacts, ShapedFacts DEF Written
  <2>2. rcv \in ReceiverType
    BY DEF Inv, Types
  <2>3. /\ rcv.current \in Client \cup {Nobody} /\ rcv.cuAck \in Nat
        /\ rcv.window \in [Slot -> [status : {"e", "b"}, packet : PacketType]]
    BY <2>2 DEF ReceiverType
  <2> QED
    BY <2>1, <2>3 DEF TypeOK
<1> QED
  BY <1>1, Invariance, PTL

\* What c is told is true, and what it may have to send again is in its slot.
LEMMA ClientSound ==
    ASSUME Inv, NEW c \in Fresh
    PROVE  KeepsSlots(c) /\ HearsTruth(c)
<1>1. c \in Client /\ Turn(c)
  BY TurnFacts
<1>2. /\ Full[c] \in Nat /\ GotOf(c) \in Nat /\ Len(written[c]) \in Nat /\ rcv.cuAck \in Nat
  BY <1>1, ClientFacts
<1>3. Ready(snd[c], Full[c])
  BY <1>1 DEF Turn
<1>4. KeepsSlots(c)
  <2> SUFFICES ASSUME NEW n \in Outstanding(c) PROVE snd[c].window[SlotOf(n)].seq = n
    BY DEF KeepsSlots
  <2>1. n \in (snd[c].cuAck + 1)..(snd[c].read + 1) /\ (n > 1 \/ ~snd[c].firstOne)
    BY DEF Outstanding
  <2> QED
    BY <1>2, <1>3, <2>1, SlotsKeep
<1>5. GotOf(c) <= Len(written[c]) + 1
  <2>1. CASE Complete(c)
    BY <1>2, <2>1 DEF GotOf, Complete
  <2>2. CASE ~Complete(c) /\ Serving(c)
    <3>1. GotOf(c) = rcv.cuAck
      BY <2>2 DEF GotOf
    <3>2. rcv.cuAck = 0 \/ rcv.cuAck = Len(written[c]) + 1
      BY <2>2, ServingFacts
    <3> QED
      BY <1>2, <3>1, <3>2
  <2>3. CASE ~Complete(c) /\ ~Serving(c)
    BY <1>2, <2>3 DEF GotOf
  <2> QED
    BY <2>1, <2>2, <2>3
<1>6. ASSUME NEW r \in acks[c]
      PROVE  r.cuAck <= Len(written[c]) + 1 /\ (r.isLast = 1 => Complete(c))
  <2>1. r.cuAck \in Nat /\ r.cuAck <= GotOf(c) /\ (r.isLast = 1 => Complete(c))
    BY AckFacts
  <2> QED
    BY <1>2, <1>5, <2>1
<1> QED
  BY <1>4, <1>6 DEF HearsTruth

\* In its first turn, a client is told nothing untrue and has in its slot what
\* it may have to send again, and rcv.c has in its window only what it may still
\* need of it: whatever is lost, late or repeated, and whoever is blocked, called,
\* reminded or taken in again meanwhile.
THEOREM FirstTurnsSound ==
    ASSUME TwoClients
    PROVE  Spec => []FirstTurnSound
<1>1. Inv => FirstTurnSound
  <2> SUFFICES ASSUME Inv PROVE FirstTurnSound
    OBVIOUS
  <2>1. ASSUME rcv.current \notin again PROVE BufferSound
    <3>1. rcv.current \in Client \cup {Nobody}
      BY DEF Inv, Types, ReceiverType
    <3>2. CASE rcv.current = Nobody
      BY <3>2 DEF Inv, Receives, Untouched, BufferSound
    <3>3. CASE rcv.current \in Client
      <4>1. Serves(rcv.current)
        BY <2>1, <3>3 DEF Inv, Receives, Fresh
      <4> QED
        BY <4>1 DEF Serves, Buffers, BufferSound
    <3> QED
      BY <3>1, <3>2, <3>3
  <2> QED
    BY <2>1, ClientSound DEF FirstTurnSound, Fresh
<1> QED
  BY <1>1, Invariance, PTL

\* Nobody rcv.c told to wait is forgotten in its first turn, although every node
\* of its queue is used again and again.
THEOREM WaitersStayKnown ==
    ASSUME TwoClients
    PROVE  Spec => []WaitersKnown
<1>1. Inv => WaitersKnown
  BY DEF WaitersKnown, Fresh, Inv, Turn, Known
<1> QED
  BY <1>1, Invariance, PTL

LEMMA StepCopies ==
    ASSUME TwoClients, Inv, Inv', [Next]_vars, NEW c \in Fresh'
    PROVE  /\ \A k \in DOMAIN written'[c] : written'[c][k].chunk = k
           /\ Len(written'[c]) >= Len(written[c])
           /\ snd'[c].running \/ Complete(c)
<1>2. (\E d \in Client : ClientNext(d) \/ ReceiverNext(d)) \/ UNCHANGED vars
  BY DEF Next
<1>3. c \in Client /\ Turn(c)'
  BY DEF Inv, Fresh
<1>4. \A k \in DOMAIN written'[c] : written'[c][k].chunk = k
  <2>1. Begins(written'[c])
    BY <1>3 DEF Turn
  <2>2. \A k \in DOMAIN written'[c] : written'[c][k] = [chunk |-> k, whole |-> k \notin Binary]
    BY <2>1 DEF Begins
  <2>3. ASSUME NEW k \in DOMAIN written'[c] PROVE written'[c][k].chunk = k
    <3>1. PICK b : written'[c][k] = [chunk |-> k, whole |-> b]
      BY <2>2, Zenon
    <3> QED
      BY ONLY <3>1
  <2> QED
    BY <2>3
<1>5. Len(written[c]) \in Nat
  BY <1>3, ClientFacts
<1>6. CASE written' = written
  <2>1. Complete(c)' <=> Complete(c)
    BY <1>6 DEF Complete
  <2> QED
    BY <1>3, <1>4, <1>5, <1>6, <2>1 DEF Turn
<1>7. ASSUME NEW d \in Client, NEW p, Receive(d, p)
      PROVE  Len(written'[c]) >= Len(written[c]) /\ (snd'[c].running \/ Complete(c))
  <2>1. snd' = snd /\ (\A e \in Fresh : Len(written[e]) <= Len(written'[e]))
    BY <1>7, ReceiveKeeps
  <2>2. again \subseteq again'
    BY <1>7 DEF Receive, Remember
  <2>3. c \in Fresh
    BY <2>2 DEF Fresh
  <2>4. snd[c].running \/ Complete(c)
    BY <2>3, TurnFacts DEF Turn
  <2>5. Len(written'[c]) \in Nat
    <3>1. written'[c] \in Seq(Written)
      BY <1>3 DEF Inv, Types
    <3> QED
      BY <3>1
  <2> QED
    BY <1>5, <2>1, <2>3, <2>4, <2>5
<1>8. CASE \E d \in Client : \E p : Receive(d, p)
  BY <1>4, <1>7, <1>8
<1>9. written' = written \/ \E d \in Client : \E p : Receive(d, p)
  BY <1>2 DEF ClientNext, Proceed, Hear, HearBlock, HearEnd, HearOther, Becomes, ReceiverNext,
              CallAgain, vars
<1> QED
  BY <1>6, <1>8, <1>9

\* In its first turn a client's file only grows, chunk after chunk from its
\* beginning, and ncp.c ends only when all of it is written, whatever the
\* receiver makes of the other client.
THEOREM FirstTurnsCopy ==
    ASSUME TwoClients
    PROVE  Spec => FirstTurnCopies
<1> DEFINE Grows ==
        \A c \in Client \ again' :
            /\ \A k \in DOMAIN written'[c] : written'[c][k].chunk = k
            /\ Len(written'[c]) >= Len(written[c])
            /\ snd'[c].running \/ Complete(c)
<1>1. Inv /\ Inv' /\ [Next]_vars => [Grows]_vars
  BY StepCopies DEF Fresh
<1>2. Spec => [][Grows]_vars
  BY <1>1, Invariance, PTL DEF Spec
<1> QED
  BY <1>2 DEF FirstTurnCopies

-----------------------------------------------------------------------------
(***************************************************************************)
(* What follows for a single client: its first turn never ends.            *)
(***************************************************************************)
LEMMA NeverAgain ==
    ASSUME NEW c, Client = {c}, Inv, again = {}, [Next]_vars
    PROVE  again' = {}
<1>1. Fresh = {c} /\ c \in Client /\ ~OthersDone(c)
  BY DEF Fresh, OthersDone
<1>2. CASE UNCHANGED vars
  BY <1>2 DEF vars
<1>3. CASE Proceed(c) \/ CallAgain(c)
  BY <1>3 DEF Proceed, CallAgain
<1>4. ASSUME NEW r \in acks[c], Hear(c, r) PROVE again' = {}
  <2>1. again' = again \cup {d \in {c} : CalledLate(snd[d], r)}
    BY <1>4 DEF Hear, Hears
  <2>2. r.isLast # 3
    BY <1>1, AckFacts
  <2> QED
    BY <2>1, <2>2 DEF CalledLate, Called
<1>5. ASSUME NEW p, Receive(c, p) PROVE again' = {}
  <2>1. Remember /\ (Adopt(c) \/ Remind(c) \/ Block(c, p) \/ Serve(c, p))
    BY <1>5 DEF Receive
  <2>2. Complete(c) => again' = {}
    <3> SUFFICES ASSUME Complete(c) PROVE again' = {}
      OBVIOUS
    <3>1. rcv.current = c
      <4>1. rcv.current \in Client \cup {Nobody}
        BY DEF Inv, Types, ReceiverType
      <4>2. rcv.current # Nobody
        BY <1>1 DEF Inv, Receives, Untouched
      <4> QED
        BY <4>1, <4>2
    <3>2. ~Serving(c)
      BY <1>1, ServingFacts
    <3>3. Remind(c)
      BY <2>1, <3>1, <3>2 DEF Adopt, Block, Serve
    <3> QED
      BY <2>1, <3>3, RememberFacts DEF Remind
  <2> QED
    BY <2>1, <2>2 DEF Remember
<1> QED
  BY <1>2, <1>3, <1>4, <1>5 DEF Next, ClientNext, ReceiverNext

\* rcv.c never takes its only client in again, and never calls it late.
THEOREM OneClientInvariance ==
    ASSUME NEW c, Client = {c}
    PROVE  Spec => [](Inv /\ again = {})
<1>1. TwoClients
  BY DEF TwoClients
<1>2. Spec => []Inv
  BY <1>1, Invariance
<1>3. Init => again = {}
  BY DEF Init
<1>4. Inv /\ again = {} /\ [Next]_vars => (again = {})'
  BY NeverAgain
<1> QED
  BY <1>2, <1>3, <1>4, PTL DEF Spec

\* Whatever order the acknowledgements come in, a packet ncp.c may still have
\* to send again is in the slot of send_window it would take it from.
THEOREM SlotsKept ==
    ASSUME NEW c, Client = {c}
    PROVE  Spec => []SlotsHold
<1>1. Inv /\ again = {} => SlotsHold
  BY ClientSound DEF SlotsHold, Fresh
<1> QED
  BY <1>1, OneClientInvariance, PTL

\* What rcv.c buffers is in the slot of its number and within one window of
\* what it has delivered, however late or often the network brings a packet.
THEOREM BufferedRight ==
    ASSUME NEW c, Client = {c}
    PROVE  Spec => []BufferSound
<1>1. FirstTurnSound /\ again = {} => BufferSound
  BY DEF FirstTurnSound
<1>2. Spec => []FirstTurnSound
  BY FirstTurnsSound DEF TwoClients
<1> QED
  BY <1>1, <1>2, OneClientInvariance, PTL

\* No acknowledgement of rcv.c, however old, claims a packet that was not
\* written, and none says that the transfer is over before it is.
THEOREM AcksTold ==
    ASSUME NEW c, Client = {c}
    PROVE  Spec => []AcksTrue
<1>1. Inv /\ again = {} => AcksTrue
  BY ClientSound DEF AcksTrue, Fresh
<1> QED
  BY <1>1, OneClientInvariance, PTL

-----------------------------------------------------------------------------
(***************************************************************************)
(* The refinement of FileCopy.                                             *)
(***************************************************************************)
Copied == [d \in Client |-> [k \in DOMAIN written[d] |->
              IF written[d][k].whole THEN written[d][k].chunk ELSE 0]]

Ended == {d \in Client : ~snd[d].running}

Total == [d \in Client |-> Full[d] + 1]

\* What is written is a beginning of the file.
Beginnings(c) ==
    /\ Copied = [d \in Client |-> [k \in 1..Len(written[c]) |-> k]]
    /\ Len(written[c]) \in 0..Total[c] /\ Total[c] \in Nat
    /\ Ended \subseteq {c} /\ (Ended # {} => Len(written[c]) = Total[c])

LEMMA CopiedIs ==
    ASSUME NEW c, Client = {c}, Binary = {}, Inv, again = {}
    PROVE  Beginnings(c)
<1> DEFINE w == written[c]
           n == Len(w)
<1>1. c \in Client /\ c \in Fresh /\ Full[c] \in Nat /\ rcv.cuAck \in Nat
  BY ClientFacts DEF Fresh
<1>2. Turn(c) /\ Begins(w) /\ n \in Nat /\ DOMAIN w = 1..n
  <2>1. Turn(c) /\ Begins(w)
    BY <1>1, TurnFacts DEF Turn
  <2> QED
    BY <2>1 DEF Begins
<1>3. \A k \in 1..n : w[k] = [chunk |-> k, whole |-> TRUE]
  <2>1. \A k \in 1..n : w[k] = [chunk |-> k, whole |-> k \notin Binary]
    BY <1>2 DEF Begins
  <2>2. \A k : (k \notin Binary) = TRUE
    OBVIOUS
  <2> HIDE DEF w, n
  <2> QED
    BY <2>1, <2>2, Zenon
<1>4. [k \in DOMAIN w |-> IF w[k].whole THEN w[k].chunk ELSE 0] = [k \in 1..n |-> k]
  <2> HIDE DEF w, n
  <2> QED
    BY <1>2, <1>3
<1>5. Copied = [d \in Client |-> [k \in 1..n |-> k]]
  <2>1. \A d \in Client : d = c
    OBVIOUS
  <2>2. Copied = [d \in Client |-> [k \in DOMAIN w |-> IF w[k].whole THEN w[k].chunk ELSE 0]]
    BY <2>1, Zenon DEF Copied
  <2> HIDE DEF w, n
  <2> QED
    BY <1>4, <2>2
<1>6. n <= Full[c] + 1
  <2>1. Serving(c) => rcv.cuAck < Full[c] + 2 /\ (rcv.cuAck = n + 1 \/ w = <<>>)
    BY <1>1, ServingFacts
  <2>2. Serving(c) \/ n = Full[c] + 1 \/ w = <<>>
    BY <1>2 DEF Turn, Complete
  <2>3. w = <<>> => n = 0
    OBVIOUS
  <2> HIDE DEF n, w
  <2> QED
    BY <1>1, <1>2, <2>1, <2>2, <2>3
<1>7. Total[c] = Full[c] + 1
  BY <1>1 DEF Total
<1>8. Ended \subseteq {c} /\ (Ended # {} => n = Full[c] + 1)
  BY <1>2 DEF Ended, Turn, Complete
<1> HIDE DEF n
<1> QED
  BY <1>1, <1>2, <1>5, <1>6, <1>7, <1>8 DEF n, Beginnings

LEMMA CopyStep ==
    ASSUME NEW c, Client = {c}, Inv, again = {}, Beginnings(c), Beginnings(c)', [Next]_vars
    PROVE  \/ UNCHANGED <<Copied, Ended>>
           \/ \E d \in Client : Copy!Copy(d) \/ Copy!End(d)
<1> DEFINE n == Len(written[c])
           m == Len(written'[c])
           beginning(k) == [d \in Client |-> [j \in 1..k |-> j]]
<1>1. /\ c \in Client /\ Total[c] \in Nat
      /\ Copied = beginning(n) /\ n \in 0..Total[c]
      /\ Ended \subseteq {c} /\ (Ended # {} => n = Total[c])
  BY DEF Beginnings
<1>2. /\ Copied' = beginning(m) /\ m \in 0..Total[c]
      /\ Ended' \subseteq {c} /\ (Ended' # {} => m = Total[c])
  BY DEF Beginnings, Total
<1>3. /\ Copy!Copy(c) <=> /\ \E k \in (Len(Copied[c]) + 1)..Total[c] :
                               Copied' = [Copied EXCEPT ![c] = [j \in 1..k |-> j]]
                          /\ Ended' = Ended
      /\ Copy!End(c) <=> /\ Copied[c] = [j \in 1..Total[c] |-> j]
                         /\ Ended' = Ended \cup {c}
                         /\ Copied' = Copied
  BY DEF Copy!Copy, Copy!End, Copy!Beginning, Copied, Ended, Total
<1>4. Copied[c] = [j \in 1..n |-> j] /\ Len(Copied[c]) = n
  <2>1. Copied[c] = [j \in 1..n |-> j]
    BY <1>1
  <2>2. n \in Nat
    BY <1>1
  <2> HIDE DEF n
  <2>3. [j \in 1..n |-> j] \in Seq(Nat) /\ Len([j \in 1..n |-> j]) = n
    BY <2>2, MappedSeq
  <2> QED
    BY <2>1, <2>3
<1> HIDE DEF n, m, beginning
\* The client: nothing is written, but it may end.
<1>5. ASSUME written' = written
      PROVE  UNCHANGED <<Copied, Ended>> \/ Copy!End(c)
  <2>1. m = n
    BY <1>5 DEF m, n
  <2>2. Copied' = Copied
    BY <1>1, <1>2, <2>1
  <2>3. CASE Ended' = Ended
    BY <2>2, <2>3
  <2>4. CASE Ended' # Ended /\ c \in Ended'
    <3>1. n = Total[c] /\ Ended' = Ended \cup {c}
      BY <1>1, <1>2, <2>1, <2>4
    <3> QED
      BY <1>3, <1>4, <2>2, <3>1
  <2>5. CASE c \notin Ended' /\ Ended' # Ended
    <3>1. Ended' = {} /\ c \in Ended
      BY <1>1, <1>2, <2>5
    <3>2. snd[c].running = FALSE \/ ~snd[c].running
      BY <3>1 DEF Ended
    <3>3. ClientNext(c) \/ ReceiverNext(c) \/ UNCHANGED vars
      BY DEF Next
    <3>4. snd' = snd
      BY <3>2, <3>3, ReceiveKeeps
         DEF TwoClients, ClientNext, Proceed, Hear, Hears, ReceiverNext, CallAgain, vars
    <3>5. Ended' = Ended
      BY <3>4 DEF Ended
    <3> QED
      BY <2>5, <3>5
  <2> QED
    BY <2>3, <2>4, <2>5
\* The receiver: what is written only grows.
<1>6. ASSUME snd' = snd, n <= m
      PROVE  UNCHANGED <<Copied, Ended>> \/ Copy!Copy(c)
  <2>1. Ended' = Ended
    BY <1>6 DEF Ended
  <2>2. CASE n = m
    BY <1>1, <1>2, <2>1, <2>2
  <2>3. CASE n # m
    <3>1. m \in (Len(Copied[c]) + 1)..Total[c]
      BY <1>1, <1>2, <1>4, <1>6, <2>3
    <3>2. Copied' = [Copied EXCEPT ![c] = [j \in 1..m |-> j]]
      BY <1>1, <1>2 DEF beginning
    <3> QED
      BY <1>3, <2>1, <3>1, <3>2
  <2> QED
    BY <2>2, <2>3
<1>7. written' = written \/ (snd' = snd /\ n <= m)
  <2>1. ClientNext(c) \/ ReceiverNext(c) \/ UNCHANGED vars
    BY DEF Next
  <2>2. CASE ClientNext(c)
    BY <2>2 DEF ClientNext, Proceed, Hear, HearBlock, HearEnd, HearOther, Becomes
  <2>3. CASE ReceiverNext(c)
    <3>1. CASE CallAgain(c)
      BY <3>1 DEF CallAgain
    <3>2. CASE \E p : Receive(c, p)
      BY <3>2, ReceiveKeeps DEF TwoClients, Fresh, n, m
    <3> QED
      BY <2>3, <3>1, <3>2 DEF ReceiverNext
  <2>4. CASE UNCHANGED vars
    BY <2>4 DEF vars
  <2> QED
    BY <2>1, <2>2, <2>3, <2>4
<1> QED
  BY <1>1, <1>5, <1>6, <1>7

\* rcv.c writes the file from its beginning without gaps, whatever the network
\* loses, repeats and reorders, and ncp.c ends only when all of it is written:
\* the transfer implements the copying of a file, if no chunk has a NUL byte.
THEOREM FileCopied ==
    ASSUME NEW d, Client = {d}, Binary = {}
    PROVE  Spec => CopiesFiles
<1>1. Init => Copy!Init
  <2> SUFFICES ASSUME Init PROVE Copy!Init
    OBVIOUS
  <2>1. /\ \A c \in Client : snd[c].running /\ written[c] = <<>>
    BY FullAssumption, StartReady DEF Init
  <2>2. \A c \in Client : [k \in DOMAIN written[c] |->
                              IF written[c][k].whole THEN written[c][k].chunk ELSE 0] = <<>>
    BY <2>1
  <2> QED
    BY <2>1, <2>2 DEF Copy!Init
<1>2. Inv /\ again = {} /\ Beginnings(d) /\ Beginnings(d)' /\ [Next]_vars => [Copy!Next]_<<Copied, Ended>>
  BY CopyStep DEF Copy!Next
<1>3. [Copy!Next]_<<Copied, Ended>> =>
          [Copy!Next]_<<[c \in Client |-> [k \in DOMAIN written[c] |->
                           IF written[c][k].whole THEN written[c][k].chunk ELSE 0]],
                        {c \in Client : ~snd[c].running}>>
  BY DEF Copied, Ended
<1>4. Inv /\ again = {} => Beginnings(d)
  BY CopiedIs
<1>5. Spec => [](Inv /\ again = {})
  BY OneClientInvariance
<1>6. Spec => [](Inv /\ again = {} /\ Beginnings(d))
  BY <1>4, <1>5, PTL
<1>7. Spec => [][Copy!Next]_<<Copied, Ended>>
  BY <1>2, <1>6, PTL DEF Spec
<1>8. Spec => [][Copy!Next]_<<[c \in Client |-> [k \in DOMAIN written[c] |->
                           IF written[c][k].whole THEN written[c][k].chunk ELSE 0]],
                        {c \in Client : ~snd[c].running}>>
  BY <1>3, <1>7, PTL
<1>9. Spec => Copy!Init
  BY <1>1, PTL DEF Spec
<1> QED
  BY <1>8, <1>9, PTL DEF CopiesFiles, Copy!Spec
=============================================================================
