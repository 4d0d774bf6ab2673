---------------------------- MODULE SenderProofs ----------------------------
(***************************************************************************)
(* The sliding window of ncp.c: slots, and what every part of the sender's *)
(* loop keeps, for every length of the file and every window.              *)
(***************************************************************************)
EXTENDS Transfer, TLAPS

(***************************************************************************)
(* Slots: the remainder by the size of the window.                         *)
(***************************************************************************)
LEMMA Division ==
    ASSUME NEW n \in Nat, NEW W \in Nat, W > 0
    PROVE  n \div W \in Nat /\ n = W * (n \div W) + (n % W)
<1>1. n \div W \in Nat
  OBVIOUS
<1>2. n = W * (n \div W) + (n % W)
  OBVIOUS
<1> QED
  BY <1>1, <1>2

LEMMA Rounded ==
    ASSUME NEW n \in Nat
    PROVE  \E q \in Nat : n = Window * q + SlotOf(n)
<1>1. Window \in Nat /\ Window > 0
  BY WindowAssumption
<1>2. n \div Window \in Nat /\ n = Window * (n \div Window) + (n % Window)
  BY <1>1, Division
<1>3. n = Window * (n \div Window) + SlotOf(n)
  BY <1>2 DEF SlotOf
<1> QED
  BY ONLY <1>2, <1>3, Zenon

LEMMA SlotOfSum ==
    ASSUME NEW q \in Nat, NEW r \in Slot
    PROVE  SlotOf(Window * q + r) = r
  BY WindowAssumption DEF SlotOf, Slot

LEMMA SlotType ==
    ASSUME NEW n \in Nat
    PROVE  SlotOf(n) \in Slot
  BY WindowAssumption DEF SlotOf, Slot

LEMMA SlotOfSmall ==
    ASSUME NEW n \in Nat, n < Window
    PROVE  SlotOf(n) = n
  BY WindowAssumption DEF SlotOf

LEMMA SlotShift ==
    ASSUME NEW n \in Nat, NEW d \in 0..Window
    PROVE  SlotOf(n + d) = IF SlotOf(n) + d < Window THEN SlotOf(n) + d
                                                     ELSE SlotOf(n) + d - Window
<1>1. PICK q \in Nat : n = Window * q + SlotOf(n)
  BY Rounded
<1>2. SlotOf(n) \in 0..(Window - 1) /\ Window \in Nat
  BY SlotType, WindowAssumption DEF Slot
<1> DEFINE r == SlotOf(n)
<1>3. r \in Nat /\ r < Window /\ Window * q \in Nat /\ n = Window * q + r
  BY <1>1, <1>2
<1> HIDE DEF r
<1>4. CASE r + d < Window
  <2>1. r + d \in Slot
    BY <1>2, <1>3, <1>4 DEF Slot
  <2>2. n + d = Window * q + (r + d)
    BY <1>2, <1>3
  <2> QED
    BY <1>4, <2>1, <2>2, SlotOfSum DEF r
<1>5. CASE ~(r + d < Window)
  <2>1. r + d - Window \in Slot
    BY <1>2, <1>3, <1>5 DEF Slot
  <2>2. n + d = Window * (q + 1) + (r + d - Window)
    BY <1>2, <1>3
  <2> QED
    BY <1>5, <2>1, <2>2, SlotOfSum DEF r
<1> QED
  BY <1>4, <1>5

\* Numbers less than a window apart have slots of their own.
LEMMA SlotsDiffer ==
    ASSUME NEW m \in Nat, NEW n \in Nat, m < n, n < m + Window
    PROVE  SlotOf(m) # SlotOf(n)
<1>1. PICK d \in 1..(Window - 1) : n = m + d
  BY WindowAssumption
<1>2. d \in 0..Window /\ Window \in Nat /\ SlotOf(m) \in Slot
  BY WindowAssumption, SlotType
<1>3. SlotOf(m + d) = IF SlotOf(m) + d < Window THEN SlotOf(m) + d ELSE SlotOf(m) + d - Window
  BY <1>2, SlotShift
<1>4. ASSUME NEW r \in Slot
      PROVE  r # (IF r + d < Window THEN r + d ELSE r + d - Window)
  BY <1>2 DEF Slot
<1> QED
  BY <1>1, <1>2, <1>3, <1>4

LEMMA SlotsTurn ==
    ASSUME NEW n \in Nat
    PROVE  SlotOf(n + Window) = SlotOf(n) /\ SlotOf(SlotOf(n) + 1) = SlotOf(n + 1)
<1>1. /\ Window \in Nat /\ SlotOf(n) \in Slot /\ Slot = 0..(Window - 1)
      /\ 1 \in 0..Window /\ Window \in 0..Window /\ 0 < Window
  BY WindowAssumption, SlotType DEF Slot
<1>2. SlotOf(n + 1) = IF SlotOf(n) + 1 < Window THEN SlotOf(n) + 1 ELSE SlotOf(n) + 1 - Window
  BY <1>1, SlotShift
<1>3. SlotOf(n + Window) = SlotOf(n)
  <2>1. SlotOf(n + Window) = IF SlotOf(n) + Window < Window THEN SlotOf(n) + Window
                                                            ELSE SlotOf(n) + Window - Window
    BY <1>1, SlotShift
  <2> QED
    BY <1>1, <2>1
<1>4. SlotOf(SlotOf(n) + 1) = SlotOf(n + 1)
  <2>1. CASE SlotOf(n) + 1 < Window
    <3>1. SlotOf(n) + 1 \in Nat
      BY <1>1
    <3> QED
      BY <1>2, <2>1, <3>1, SlotOfSmall
  <2>2. CASE ~(SlotOf(n) + 1 < Window)
    <3>1. SlotOf(n) + 1 = Window
      BY <1>1, <2>2
    <3>2. SlotOf(Window) = 0
      BY <1>1 DEF SlotOf
    <3> QED
      BY <1>1, <1>2, <3>1, <3>2
  <2> QED
    BY <2>1, <2>2
<1> QED
  BY <1>3, <1>4

-----------------------------------------------------------------------------
(***************************************************************************)
(* What the loop keeps.  "full" is the number of full chunks of the file,  *)
(* so full + 2 the number of its last packet.                              *)
(***************************************************************************)
SenderType ==
    [running : BOOLEAN, seq : Nat, read : Nat, left : Slot, cuAck : Nat,
     window : [Slot -> PacketType], packet : PacketType, sending : SUBSET PacketType,
     firstOne : BOOLEAN, bootstrap : BOOLEAN, wait : BOOLEAN,
     flagFirst : BOOLEAN, flagSecond : BOOLEAN, flagThird : BOOLEAN]

\* What every sender keeps, whatever it hears: it never reads past the end.
Shaped(s, full) == s \in SenderType /\ s.read <= full + 1 /\ s.seq >= 1

\* The packets of the file numbered up to n, and what an unused slot holds.
Genuine(full, n) ==
    {p \in PacketType : p # NoPacket =>
        /\ p.seq \in 1..n
        /\ p.chunk = p.seq - 1
        /\ p.last <=> p.seq = full + 2}

\* Packet b is the oldest in the window, and the later ones are in their slots.
Base(s, b) ==
    /\ b \in 1..(s.cuAck + 1)
    /\ s.left = SlotOf(b)
    /\ s.read + 1 < b + Window
    /\ \A n \in b..(s.read + 1) : s.window[SlotOf(n)].seq = n

\* The window is full as long as there is something to read; once all is
\* acknowledged it does not matter what the slots hold.
Slides(s, full) ==
    \/ s.cuAck = full + 2
    \/ \E b \in Nat : Base(s, b) /\ (s.read \in 1..full => s.read + 2 = b + Window)

\* A sender in its first turn: before it sends its name (firstOne), which it does
\* again when it is called, before the answer to it (flagFirst), between the
\* answer and the first chunk (bootstrap), and after that.
Ready(s, full) ==
    /\ Shaped(s, full)
    /\ s.window \in [Slot -> Genuine(full, s.read + 1)]
    /\ s.packet \in Genuine(full, s.read + 1)
    /\ s.sending \subseteq Genuine(full, s.read + 1)
    /\ s.cuAck <= s.read + 1
    /\ s.read <= full => s.seq = s.read + 2
    /\ s.firstOne => s.flagFirst /\ s.left = SlotOf(1)
    /\ s.flagFirst => ~s.bootstrap /\ s.read = 0 /\ s.cuAck = 0
    /\ ~s.flagFirst => (s.bootstrap <=> s.read = 0) /\ s.cuAck >= 1
    /\ ~s.firstOne => Slides(s, full) /\ (s.read = 0 => Base(s, 1))

LEMMA GenuineGrows ==
    ASSUME NEW full, NEW m \in Nat, NEW n \in Nat, m <= n
    PROVE  Genuine(full, m) \subseteq Genuine(full, n)
  BY DEF Genuine

LEMMA PacketTypes ==
    ASSUME NEW full \in Nat, NEW n \in Nat
    PROVE  /\ NoPacket \in Genuine(full, n)
           /\ n >= 1 => NamePacket \in Genuine(full, n)
           /\ Genuine(full, n) \subseteq PacketType
           /\ NoPacket \in PacketType /\ NamePacket \in PacketType
  BY DEF Genuine, NoPacket, NamePacket, Packet, PacketType

LEMMA WindowFacts == Window \in Nat /\ Window > 1 /\ Slot = 0..(Window - 1) /\ 1 \in Slot /\ 0 \in Slot
  BY WindowAssumption DEF Slot

LEMMA ShapedFacts ==
    ASSUME NEW full \in Nat, NEW s, Shaped(s, full)
    PROVE  /\ s \in SenderType /\ s.read \in 0..(full + 1) /\ s.seq \in Nat /\ s.cuAck \in Nat
           /\ s.left \in Slot /\ s.window \in [Slot -> PacketType] /\ s.packet \in PacketType
           /\ s.sending \in SUBSET PacketType
<1>1. s \in SenderType
  BY DEF Shaped
<1>2. /\ s.read \in Nat /\ s.seq \in Nat /\ s.cuAck \in Nat
      /\ s.left \in Slot /\ s.window \in [Slot -> PacketType] /\ s.packet \in PacketType
      /\ s.sending \in SUBSET PacketType
  BY <1>1 DEF SenderType
<1> QED
  BY <1>1, <1>2 DEF Shaped

\* The outstanding packets never span more than a window.
LEMMA ReadAhead ==
    ASSUME NEW full \in Nat, NEW s, Ready(s, full)
    PROVE  s.cuAck \in Nat /\ s.read \in Nat /\ s.read + 1 <= s.cuAck + Window
           /\ s.read + 1 <= full + 2
<1>1. s.cuAck \in Nat /\ s.read \in 0..(full + 1)
  BY ShapedFacts DEF Ready
<1>2. CASE s.cuAck = full + 2 \/ s.firstOne
  BY <1>1, <1>2, WindowFacts DEF Ready
<1>3. CASE s.cuAck # full + 2 /\ ~s.firstOne
  <2>1. PICK b \in Nat : Base(s, b)
    BY <1>3 DEF Ready, Slides
  <2> QED
    BY <1>1, <2>1, WindowFacts DEF Base
<1> QED
  BY <1>1, <1>2, <1>3

\* What may have to be sent again is in its slot.
LEMMA SlotsKeep ==
    ASSUME NEW full \in Nat, NEW s, Ready(s, full), NEW n \in (s.cuAck + 1)..(s.read + 1),
           n > 1 \/ ~s.firstOne
    PROVE  s.window[SlotOf(n)].seq = n
<1>1. s.cuAck \in Nat /\ s.read \in 0..(full + 1)
  BY ShapedFacts DEF Ready
<1>2. s.cuAck # full + 2
  BY <1>1
<1>3. ~s.firstOne
  BY <1>1 DEF Ready
<1>4. PICK b \in Nat : Base(s, b)
  BY <1>2, <1>3 DEF Ready, Slides
<1>5. n \in b..(s.read + 1)
  BY <1>1, <1>4 DEF Base
<1> QED
  BY <1>4, <1>5 DEF Base

LEMMA StartReady ==
    ASSUME NEW full \in Nat
    PROVE  /\ Ready(SenderInit, full)
           /\ SenderInit.sending = {} /\ SenderInit.read = 0 /\ SenderInit.cuAck = 0
           /\ SenderInit.running /\ ~SenderInit.wait /\ SenderInit.packet = NoPacket
<1>1. NoPacket \in PacketType /\ NoPacket \in Genuine(full, 1) /\ SlotOf(1) = 1
  BY PacketTypes, SlotOfSmall, WindowFacts
<1>2. Shaped(SenderInit, full)
  BY <1>1, WindowFacts DEF SenderInit, SenderType, Shaped
<1> QED
  BY <1>1, <1>2 DEF SenderInit, Ready

\* A step that leaves read, cuAck, left and the window keeps what is in it.
LEMMA SameWindow ==
    ASSUME NEW full, NEW s, NEW t, t.read = s.read, t.cuAck = s.cuAck, t.left = s.left,
           t.window = s.window
    PROVE  /\ \A b : Base(s, b) => Base(t, b)
           /\ Slides(s, full) => Slides(t, full)
  BY DEF Base, Slides

-----------------------------------------------------------------------------
(***************************************************************************)
(* The parts of the loop, one after the other.                             *)
(***************************************************************************)
\* What the rest of an iteration leaves alone.
Kept(s, t) ==
    /\ t.running = s.running /\ t.cuAck = s.cuAck
    /\ t.wait = s.wait /\ t.flagFirst = s.flagFirst

LEMMA NamedShaped ==
    ASSUME NEW full \in Nat, NEW s, Shaped(s, full)
    PROVE  /\ Shaped(Named(s), full) /\ Kept(s, Named(s))
           /\ Named(s).read = s.read /\ Named(s).seq = s.seq /\ Named(s).left = s.left
           /\ Named(s).bootstrap = s.bootstrap /\ ~Named(s).firstOne
           /\ Named(s).window = [s.window EXCEPT ![SlotOf(1)] = NamePacket]
           /\ Named(s).packet = NamePacket
           /\ Named(s).sending = s.sending \cup {NamePacket}
<1> DEFINE w == [s.window EXCEPT ![SlotOf(1)] = NamePacket]
           q == s.sending \cup {NamePacket}
           t == [s EXCEPT !.packet = NamePacket, !.sending = q, !.firstOne = FALSE, !.window = w]
<1>1. s \in SenderType /\ NamePacket \in PacketType
  BY ShapedFacts, PacketTypes
<1>2. Named(s) = t
  BY <1>1 DEF Named, Sends, SenderType
<1>3. w \in [Slot -> PacketType] /\ q \in SUBSET PacketType /\ FALSE \in BOOLEAN
  BY <1>1, ShapedFacts
<1> HIDE DEF w, q
<1>4. t \in SenderType
  BY <1>1, <1>3, Zenon DEF SenderType
<1>5. /\ t.read = s.read /\ t.seq = s.seq /\ t.left = s.left /\ t.bootstrap = s.bootstrap
      /\ ~t.firstOne /\ t.window = w /\ t.packet = NamePacket /\ t.sending = q
      /\ t.running = s.running /\ t.cuAck = s.cuAck /\ t.wait = s.wait
      /\ t.flagFirst = s.flagFirst
  BY <1>1 DEF SenderType
<1> HIDE DEF t
<1>6. Shaped(t, full) /\ Kept(s, t)
  BY <1>4, <1>5 DEF Shaped, Kept
<1> QED
  BY <1>2, <1>5, <1>6 DEF w, q

LEMMA NamedReady ==
    ASSUME NEW full \in Nat, NEW s, Ready(s, full), s.firstOne
    PROVE  Ready(Named(s), full)
<1> DEFINE t == Named(s)
<1>1. Shaped(s, full) /\ s.read = 0 /\ s.cuAck = 0 /\ s.flagFirst /\ ~s.bootstrap
      /\ s.left = SlotOf(1)
  BY DEF Ready
<1>2. /\ Shaped(t, full) /\ t.read = 0 /\ t.seq = s.seq /\ t.left = s.left /\ ~t.bootstrap
      /\ ~t.firstOne /\ t.window = [s.window EXCEPT ![SlotOf(1)] = NamePacket]
      /\ t.packet = NamePacket /\ t.sending = s.sending \cup {NamePacket}
      /\ t.cuAck = 0 /\ t.flagFirst
  BY <1>1, NamedShaped DEF Kept
<1> HIDE DEF t
<1>3. NamePacket \in Genuine(full, 1) /\ NamePacket.seq = 1 /\ SlotOf(1) \in Slot
  BY PacketTypes, SlotType DEF NamePacket, Packet
<1>4. /\ s.window \in [Slot -> Genuine(full, 1)] /\ s.sending \subseteq Genuine(full, 1)
      /\ 0 <= full => s.seq = 2
  BY <1>1 DEF Ready
<1>5. Base(t, 1)
  <2>1. t.window[SlotOf(1)].seq = 1
    BY <1>2, <1>3, <1>4
  <2> QED
    BY <1>1, <1>2, <2>1, WindowFacts DEF Base
<1>6. Slides(t, full)
  BY <1>2, <1>5 DEF Slides
<1>7. t.window \in [Slot -> Genuine(full, 1)] /\ t.sending \subseteq Genuine(full, 1)
  BY <1>2, <1>3, <1>4
<1>8. Ready(t, full)
  BY <1>2, <1>3, <1>4, <1>5, <1>6, <1>7 DEF Ready
<1> QED
  BY <1>8 DEF t

LEMMA HeededShaped ==
    ASSUME NEW full \in Nat, NEW s, Shaped(s, full), NEW r \in AckType
    PROVE  /\ Shaped(Heeded(s, r), full)
           /\ Heeded(s, r).read = s.read /\ Heeded(s, r).seq = s.seq
           /\ Heeded(s, r).left = s.left /\ Heeded(s, r).window = s.window
           /\ Heeded(s, r).packet = s.packet /\ Heeded(s, r).sending = s.sending
           /\ Heeded(s, r).running = s.running
           /\ Heeded(s, r).cuAck = IF s.cuAck < r.cuAck THEN r.cuAck ELSE s.cuAck
           /\ Heeded(s, r).firstOne <=> s.firstOne \/ Called(s, r)
           /\ Heeded(s, r).wait <=> s.wait /\ ~Called(s, r)
           /\ Heeded(s, r).bootstrap <=> s.bootstrap \/ Started(s, r)
           /\ Heeded(s, r).flagFirst <=> s.flagFirst /\ ~Started(s, r)
<1> DEFINE ack == IF s.cuAck < r.cuAck THEN r.cuAck ELSE s.cuAck
<1>1. s \in SenderType /\ s.cuAck \in Nat /\ r.cuAck \in Nat
  BY ShapedFacts DEF AckType
<1>2. PICK b1 \in BOOLEAN, b2 \in BOOLEAN, b3 \in BOOLEAN, b4 \in BOOLEAN, b5 \in BOOLEAN :
         /\ b1 = (s.firstOne \/ Called(s, r)) /\ b2 = (s.flagThird /\ ~Called(s, r))
         /\ b3 = (s.wait /\ ~Called(s, r)) /\ b4 = (s.bootstrap \/ Started(s, r))
         /\ b5 = (s.flagFirst /\ ~Started(s, r))
  OBVIOUS
<1> DEFINE t == [s EXCEPT !.firstOne = b1, !.flagThird = b2, !.wait = b3, !.bootstrap = b4,
                          !.flagFirst = b5, !.cuAck = ack]
<1>3. Heeded(s, r) = t
  BY <1>1, <1>2 DEF Heeded, SenderType
<1>4. ack \in Nat
  BY <1>1
<1> HIDE DEF ack
<1>5. t \in SenderType
  BY <1>1, <1>4, Zenon DEF SenderType
<1>6. /\ t.read = s.read /\ t.seq = s.seq /\ t.left = s.left /\ t.window = s.window
      /\ t.packet = s.packet /\ t.sending = s.sending /\ t.running = s.running
      /\ t.cuAck = ack /\ t.firstOne = b1 /\ t.wait = b3 /\ t.bootstrap = b4 /\ t.flagFirst = b5
  BY <1>1 DEF SenderType
<1> HIDE DEF t
<1>7. Shaped(t, full)
  BY <1>5, <1>6 DEF Shaped
<1> QED
  BY <1>2, <1>3, <1>6, <1>7 DEF ack

\* A call is heeded before the name is acknowledged, or the first turn is over.
LEMMA HeededReady ==
    ASSUME NEW full \in Nat, NEW s, Ready(s, full),
           NEW r \in AckType, r.cuAck <= s.read + 1, r.isLast = 3 => r.cuAck = 0,
           s.firstOne => r.cuAck = 0, ~CalledLate(s, r)
    PROVE  Ready(Heeded(s, r), full)
<1> DEFINE t == Heeded(s, r)
           called == Called(s, r)
           started == Started(s, r)
<1>1. Shaped(s, full) /\ r.cuAck \in Nat /\ s.cuAck \in Nat /\ s.read \in 0..(full + 1)
  BY ShapedFacts DEF AckType, Ready
<1>2. /\ Shaped(t, full) /\ t.read = s.read /\ t.seq = s.seq /\ t.left = s.left
      /\ t.window = s.window /\ t.packet = s.packet /\ t.sending = s.sending
      /\ t.cuAck = IF s.cuAck < r.cuAck THEN r.cuAck ELSE s.cuAck
      /\ t.firstOne <=> s.firstOne \/ called
      /\ t.bootstrap <=> s.bootstrap \/ started
      /\ t.flagFirst <=> s.flagFirst /\ ~started
  BY <1>1, HeededShaped
<1> HIDE DEF t
<1>3. /\ s.cuAck <= s.read + 1 /\ (s.read <= full => s.seq = s.read + 2)
      /\ s.firstOne => s.flagFirst /\ s.left = SlotOf(1)
      /\ s.flagFirst => ~s.bootstrap /\ s.read = 0 /\ s.cuAck = 0
      /\ ~s.flagFirst => (s.bootstrap <=> s.read = 0) /\ s.cuAck >= 1
      /\ ~s.firstOne => Slides(s, full) /\ (s.read = 0 => Base(s, 1))
  BY DEF Ready
<1>4. /\ started => ~called /\ r.cuAck = 1 /\ s.flagFirst
      /\ ~called /\ r.cuAck = 1 /\ s.flagFirst => started
      /\ called => s.flagFirst /\ r.cuAck = 0
  BY DEF Called, Started, CalledLate
<1> HIDE DEF called, started
<1>5. t.cuAck \in Nat /\ t.cuAck >= s.cuAck /\ t.cuAck <= t.read + 1
  BY <1>1, <1>2, <1>3
<1>6. \A b \in Nat : Base(s, b) => Base(t, b)
  BY <1>1, <1>2, <1>5 DEF Base
<1>7. /\ t.window \in [Slot -> Genuine(full, t.read + 1)]
      /\ t.packet \in Genuine(full, t.read + 1) /\ t.sending \subseteq Genuine(full, t.read + 1)
      /\ (t.read <= full => t.seq = t.read + 2)
  BY <1>2 DEF Ready
<1>8. t.firstOne => t.flagFirst /\ t.left = SlotOf(1)
  <2>1. CASE s.firstOne
    BY <1>2, <1>3, <1>4, <2>1
  <2>2. CASE ~s.firstOne /\ called
    <3>1. Base(s, 1)
      BY <1>3, <1>4, <2>2
    <3> QED
      BY <1>2, <1>3, <1>4, <2>2, <3>1 DEF Base
  <2> QED
    BY <1>2, <2>1, <2>2
<1>9. /\ t.flagFirst => ~t.bootstrap /\ t.read = 0 /\ t.cuAck = 0
      /\ ~t.flagFirst => (t.bootstrap <=> t.read = 0) /\ t.cuAck >= 1
  BY <1>1, <1>2, <1>3, <1>4
<1>10. ASSUME ~t.firstOne PROVE Slides(t, full) /\ (t.read = 0 => Base(t, 1))
  <2>1. ~s.firstOne
    BY <1>2, <1>10
  <2>2. CASE s.cuAck = full + 2
    BY <1>1, <1>2, <1>3, <1>5, <1>6, <2>1, <2>2 DEF Slides
  <2>3. CASE s.cuAck # full + 2
    <3>1. PICK b \in Nat : Base(s, b) /\ (s.read \in 1..full => s.read + 2 = b + Window)
      BY <1>3, <2>1, <2>3 DEF Slides
    <3> QED
      BY <1>2, <1>3, <1>6, <2>1, <3>1 DEF Slides
  <2> QED
    BY <2>2, <2>3
<1>11. Ready(t, full)
  BY <1>2, <1>5, <1>7, <1>8, <1>9, <1>10 DEF Ready
<1> QED
  BY <1>11 DEF t

LEMMA StoppedReady ==
    ASSUME NEW full \in Nat, NEW s, Shaped(s, full)
    PROVE  /\ Shaped([s EXCEPT !.running = FALSE], full)
           /\ ~[s EXCEPT !.running = FALSE].running
           /\ [s EXCEPT !.running = FALSE].read = s.read
           /\ [s EXCEPT !.running = FALSE].cuAck = s.cuAck
           /\ [s EXCEPT !.running = FALSE].wait = s.wait
           /\ [s EXCEPT !.running = FALSE].firstOne = s.firstOne
           /\ Ready(s, full) => Ready([s EXCEPT !.running = FALSE], full)
<1> DEFINE t == [s EXCEPT !.running = FALSE]
<1>1. s \in SenderType
  BY ShapedFacts
<1>2. t \in SenderType
  BY <1>1, Zenon DEF SenderType
<1>3. /\ ~t.running /\ t.seq = s.seq /\ t.read = s.read /\ t.left = s.left
      /\ t.window = s.window /\ t.packet = s.packet /\ t.sending = s.sending
      /\ t.cuAck = s.cuAck /\ t.wait = s.wait /\ t.firstOne = s.firstOne
      /\ t.bootstrap = s.bootstrap /\ t.flagFirst = s.flagFirst
  BY <1>1 DEF SenderType
<1> HIDE DEF t
<1>4. (Base(s, 1) => Base(t, 1)) /\ (Slides(s, full) => Slides(t, full))
  BY <1>3, SameWindow
<1>5. Shaped(t, full)
  BY <1>2, <1>3 DEF Shaped
<1>6. Ready(s, full) => Ready(t, full)
  BY <1>3, <1>4, <1>5 DEF Ready
<1> QED
  BY <1>3, <1>5, <1>6 DEF t

\* c is told to wait.
Halted(s) == [s EXCEPT !.wait = TRUE, !.flagSecond = FALSE]

LEMMA HaltedReady ==
    ASSUME NEW full \in Nat, NEW s, Shaped(s, full)
    PROVE  /\ Shaped(Halted(s), full)
           /\ Halted(s).running = s.running /\ Halted(s).read = s.read
           /\ Halted(s).cuAck = s.cuAck /\ Halted(s).sending = s.sending
           /\ Halted(s).firstOne = s.firstOne
           /\ Ready(s, full) => Ready(Halted(s), full)
<1> DEFINE t == Halted(s)
<1>1. s \in SenderType
  BY ShapedFacts
<1>2. t \in SenderType
  BY <1>1, Zenon DEF SenderType, Halted
<1>3. /\ t.running = s.running /\ t.seq = s.seq /\ t.read = s.read /\ t.left = s.left
      /\ t.window = s.window /\ t.packet = s.packet /\ t.sending = s.sending
      /\ t.cuAck = s.cuAck /\ t.firstOne = s.firstOne
      /\ t.bootstrap = s.bootstrap /\ t.flagFirst = s.flagFirst
  BY <1>1 DEF SenderType, Halted
<1> HIDE DEF t
<1>4. (Base(s, 1) => Base(t, 1)) /\ (Slides(s, full) => Slides(t, full))
  BY <1>3, SameWindow
<1>5. Shaped(t, full)
  BY <1>2, <1>3 DEF Shaped
<1>6. Ready(s, full) => Ready(t, full)
  BY <1>3, <1>4, <1>5 DEF Ready
<1> QED
  BY <1>3, <1>5, <1>6 DEF t

\* The iteration ends: what it sends is in the network.
Quiet(s) == [s EXCEPT !.sending = {}]

LEMMA QuietReady ==
    ASSUME NEW full \in Nat, NEW s, Shaped(s, full)
    PROVE  /\ Shaped(Quiet(s), full) /\ Kept(s, Quiet(s))
           /\ Quiet(s).read = s.read /\ Quiet(s).sending = {}
           /\ Quiet(s).firstOne = s.firstOne
           /\ Ready(s, full) => Ready(Quiet(s), full)
<1> DEFINE t == Quiet(s)
<1>1. s \in SenderType
  BY ShapedFacts
<1>2. t \in SenderType
  BY <1>1, Zenon DEF SenderType, Quiet
<1>3. /\ t.running = s.running /\ t.seq = s.seq /\ t.read = s.read /\ t.left = s.left
      /\ t.window = s.window /\ t.packet = s.packet /\ t.sending = {}
      /\ t.cuAck = s.cuAck /\ t.wait = s.wait /\ t.firstOne = s.firstOne
      /\ t.bootstrap = s.bootstrap /\ t.flagFirst = s.flagFirst
  BY <1>1 DEF SenderType, Quiet
<1> HIDE DEF t
<1>4. (Base(s, 1) => Base(t, 1)) /\ (Slides(s, full) => Slides(t, full))
  BY <1>3, SameWindow
<1>5. Shaped(t, full) /\ Kept(s, t)
  BY <1>2, <1>3 DEF Shaped, Kept
<1>6. Ready(s, full) => Ready(t, full)
  BY <1>3, <1>4, <1>5 DEF Ready
<1> QED
  BY <1>3, <1>5, <1>6 DEF t

LEMMA ResentReady ==
    ASSUME NEW full \in Nat, NEW s, Shaped(s, full), NEW r \in AckType
    PROVE  /\ Shaped(Resent(s, r), full) /\ Kept(s, Resent(s, r))
           /\ Resent(s, r).read = s.read /\ Resent(s, r).firstOne = s.firstOne
           /\ r.nackStart = 0 => Resent(s, r) = s
           /\ Ready(s, full) => Ready(Resent(s, r), full)
<1>1. CASE r.nackStart = 0
  BY <1>1 DEF Resent, Kept
<1>2. CASE r.nackStart # 0
  <2> DEFINE last == s.window[SlotOf(r.nackEnd)]
             asked == {s.window[SlotOf(n)] : n \in r.nackStart..r.nackEnd}
             t == [s EXCEPT !.packet = last, !.sending = s.sending \cup asked]
  <2>1. Resent(s, r) = t
    BY <1>2 DEF Resent
  <2>2. r.nackStart \in Nat /\ r.nackEnd \in Nat
    BY DEF AckType
  <2>3. s \in SenderType /\ s.window \in [Slot -> PacketType] /\ s.sending \in SUBSET PacketType
    BY ShapedFacts
  <2>4. \A S : s.window \in [Slot -> S] => last \in S /\ asked \subseteq S
    <3>1. SlotOf(r.nackEnd) \in Slot /\ \A n \in r.nackStart..r.nackEnd : SlotOf(n) \in Slot
      BY <2>2, SlotType
    <3> QED
      BY <3>1
  <2> HIDE DEF last, asked
  <2>5. t \in SenderType
    <3>1. last \in PacketType /\ s.sending \cup asked \in SUBSET PacketType
      BY <2>3, <2>4
    <3> QED
      BY <2>3, <3>1, Zenon DEF SenderType
  <2>6. /\ t.running = s.running /\ t.seq = s.seq /\ t.read = s.read /\ t.left = s.left
        /\ t.window = s.window /\ t.packet = last /\ t.sending = s.sending \cup asked
        /\ t.cuAck = s.cuAck /\ t.wait = s.wait /\ t.firstOne = s.firstOne
        /\ t.bootstrap = s.bootstrap /\ t.flagFirst = s.flagFirst
    BY <2>3 DEF SenderType
  <2> HIDE DEF t
  <2>7. (Base(s, 1) => Base(t, 1)) /\ (Slides(s, full) => Slides(t, full))
    BY <2>6, SameWindow
  <2>8. Shaped(t, full) /\ Kept(s, t)
    BY <2>5, <2>6 DEF Shaped, Kept
  <2>9. ASSUME Ready(s, full) PROVE Ready(t, full)
    <3>1. t.packet \in Genuine(full, t.read + 1) /\ t.sending \subseteq Genuine(full, t.read + 1)
      BY <2>4, <2>6, <2>9 DEF Ready
    <3> QED
      BY <2>6, <2>7, <2>8, <2>9, <3>1 DEF Ready
  <2> QED
    BY <1>2, <2>1, <2>6, <2>8, <2>9
<1> QED
  BY <1>1, <1>2

LEMMA TimedOutReady ==
    ASSUME NEW full \in Nat, NEW s, Shaped(s, full)
    PROVE  /\ Shaped(TimedOut(s), full) /\ Kept(s, TimedOut(s))
           /\ TimedOut(s).read = s.read /\ TimedOut(s).firstOne = s.firstOne
           /\ Ready(s, full) => Ready(TimedOut(s), full)
<1> DEFINE oldest == s.window[s.left]
           t == [s EXCEPT !.packet = oldest, !.sending = s.sending \cup {oldest}]
<1>1. TimedOut(s) = t
  BY DEF TimedOut, Sends
<1>2. s \in SenderType /\ s.window \in [Slot -> PacketType] /\ s.sending \in SUBSET PacketType
      /\ s.left \in Slot
  BY ShapedFacts
<1>3. \A S : s.window \in [Slot -> S] => oldest \in S
  BY <1>2
<1> HIDE DEF oldest
<1>4. t \in SenderType
  <2>1. oldest \in PacketType /\ s.sending \cup {oldest} \in SUBSET PacketType
    BY <1>2, <1>3
  <2> QED
    BY <1>2, <2>1, Zenon DEF SenderType
<1>5. /\ t.running = s.running /\ t.seq = s.seq /\ t.read = s.read /\ t.left = s.left
      /\ t.window = s.window /\ t.packet = oldest /\ t.sending = s.sending \cup {oldest}
      /\ t.cuAck = s.cuAck /\ t.wait = s.wait /\ t.firstOne = s.firstOne
      /\ t.bootstrap = s.bootstrap /\ t.flagFirst = s.flagFirst
  BY <1>2 DEF SenderType
<1> HIDE DEF t
<1>6. (Base(s, 1) => Base(t, 1)) /\ (Slides(s, full) => Slides(t, full))
  BY <1>5, SameWindow
<1>7. Shaped(t, full) /\ Kept(s, t)
  BY <1>4, <1>5 DEF Shaped, Kept
<1>8. ASSUME Ready(s, full) PROVE Ready(t, full)
  <2>1. t.packet \in Genuine(full, t.read + 1) /\ t.sending \subseteq Genuine(full, t.read + 1)
    BY <1>3, <1>5, <1>8 DEF Ready
  <2> QED
    BY <1>5, <1>6, <1>7, <1>8, <2>1 DEF Ready
<1> QED
  BY <1>1, <1>5, <1>7, <1>8

\* The k-th chunk is in packet k + 1.
LEMMA ChunkPacket ==
    ASSUME NEW full \in Nat, NEW k \in 1..(full + 1), NEW n \in Nat, k + 1 <= n
    PROVE  Packet(k + 1, k, k = full + 1) \in Genuine(full, n)
           /\ Packet(k + 1, k, k = full + 1).seq = k + 1
<1> DEFINE p == Packet(k + 1, k, k = full + 1)
<1>1. p.seq = k + 1 /\ p.chunk = k /\ (p.last <=> k = full + 1)
  BY DEF Packet
<1>2. p \in PacketType
  BY DEF Packet, PacketType
<1> HIDE DEF p
<1>3. p \in Genuine(full, n)
  BY <1>1, <1>2 DEF Genuine
<1> QED
  BY <1>1, <1>3 DEF p

\* The bootstrap loop in general.
LEMMA FilledShaped ==
    ASSUME NEW full \in Nat, NEW s, Shaped(s, full)
    PROVE  /\ Shaped(Filled(s, full), full) /\ Kept(s, Filled(s, full))
           /\ Filled(s, full).read >= s.read /\ ~Filled(s, full).bootstrap
           /\ Filled(s, full).firstOne = s.firstOne /\ Filled(s, full).left = s.left
<1> DEFINE count == IF full + 1 - s.read < Window - 1 THEN full + 1 - s.read ELSE Window - 1
           ahead(k) == Packet(s.seq + k - 1, s.read + k, s.read + k = full + 1)
           into(i) == {k \in 1..count : SlotOf(s.seq + k - 1) = i}
           new(i) == IF into(i) = {} THEN s.window[i] ELSE ahead(CHOOSE k \in into(i) : TRUE)
           window == [i \in Slot |-> new(i)]
           sending == s.sending \cup {ahead(k) : k \in 1..count}
           t == [s EXCEPT !.seq = s.seq + count, !.read = s.read + count, !.packet = ahead(count),
                          !.sending = sending, !.bootstrap = FALSE, !.window = window]
<1>1. /\ s \in SenderType /\ s.read \in 0..(full + 1) /\ s.seq \in Nat /\ s.seq >= 1
      /\ s.window \in [Slot -> PacketType] /\ s.sending \in SUBSET PacketType
  BY ShapedFacts DEF Shaped
<1>2. count \in Nat /\ s.read + count <= full + 1
  BY <1>1, WindowFacts
<1>3. Filled(s, full) = t
  BY <1>1 DEF Filled, SenderType
<1> HIDE DEF count
<1>4. ASSUME NEW k \in 0..count PROVE ahead(k) \in PacketType
  <2>1. s.seq + k - 1 \in Nat /\ s.read + k \in Nat
    BY <1>1, <1>2
  <2> DEFINE b == s.read + k = full + 1
             m == s.seq + k - 1
             n == s.read + k
  <2>2. b \in BOOLEAN /\ ahead(k) = [seq |-> m, chunk |-> n, last |-> b] /\ m \in Nat /\ n \in Nat
    BY <2>1 DEF Packet
  <2> HIDE DEF b, m, n, ahead
  <2> QED
    BY <2>2 DEF PacketType
<1> HIDE DEF ahead
<1>5. window \in [Slot -> PacketType]
  <2>1. ASSUME NEW i \in Slot PROVE new(i) \in PacketType
    <3>1. CASE into(i) = {}
      BY <1>1, <3>1
    <3>2. CASE into(i) # {}
      <4>1. (CHOOSE k \in into(i) : TRUE) \in into(i)
        BY <3>2
      <4>2. (CHOOSE k \in into(i) : TRUE) \in 0..count
        BY <4>1
      <4> HIDE DEF into
      <4> QED
        BY <1>4, <3>2, <4>2
    <3> QED
      BY <3>1, <3>2
  <2> QED
    BY <2>1
<1>6. sending \in SUBSET PacketType /\ ahead(count) \in PacketType
  BY <1>1, <1>2, <1>4
<1> HIDE DEF window, sending
<1>7. s.seq + count \in Nat /\ s.read + count \in Nat /\ FALSE \in BOOLEAN /\ s.seq + count >= 1
      /\ s.read + count >= s.read
  BY <1>1, <1>2
<1>8. t \in SenderType
  BY <1>1, <1>5, <1>6, <1>7, Zenon DEF SenderType
<1>9. /\ t.running = s.running /\ t.seq = s.seq + count /\ t.read = s.read + count
      /\ t.cuAck = s.cuAck /\ t.wait = s.wait /\ t.firstOne = s.firstOne /\ t.left = s.left
      /\ ~t.bootstrap /\ t.flagFirst = s.flagFirst
  BY <1>1 DEF SenderType
<1> HIDE DEF t
<1>10. Shaped(t, full) /\ Kept(s, t)
  BY <1>2, <1>7, <1>8, <1>9 DEF Shaped, Kept
<1> QED
  BY <1>3, <1>7, <1>9, <1>10

\* The bootstrap loop, which runs once, when only the name has been sent.
LEMMA FilledReady ==
    ASSUME NEW full \in Nat, NEW s, Ready(s, full), s.bootstrap
    PROVE  Ready(Filled(s, full), full)
<1> DEFINE count == IF full + 1 - s.read < Window - 1 THEN full + 1 - s.read ELSE Window - 1
           ahead(k) == Packet(s.seq + k - 1, s.read + k, s.read + k = full + 1)
           into(i) == {k \in 1..count : SlotOf(s.seq + k - 1) = i}
           new(i) == IF into(i) = {} THEN s.window[i] ELSE ahead(CHOOSE k \in into(i) : TRUE)
           window == [i \in Slot |-> new(i)]
           sending == s.sending \cup {ahead(k) : k \in 1..count}
           t == Filled(s, full)
           G == Genuine(full, count + 1)
<1>1. ~s.flagFirst /\ s.read = 0 /\ s.seq = 2 /\ s \in SenderType /\ s.cuAck >= 1 /\ s.cuAck \in Nat
      /\ s.cuAck <= 1 /\ ~s.firstOne /\ Shaped(s, full)
  BY ShapedFacts DEF Ready
<1>2. count \in Nat /\ count >= 1 /\ count <= full + 1 /\ count <= Window - 1
      /\ (count <= full => count = Window - 1)
  BY <1>1, WindowFacts
<1>3. ASSUME NEW k \in 1..count PROVE ahead(k) \in G /\ ahead(k).seq = k + 1
  <2>1. k \in 1..(full + 1) /\ k + 1 <= count + 1 /\ count + 1 \in Nat
    BY <1>2
  <2>2. ahead(k) = Packet(k + 1, k, k = full + 1)
    BY <1>1
  <2> HIDE DEF ahead, count
  <2> QED
    BY <2>1, <2>2, ChunkPacket
<1>4. \A k \in 1..count : SlotOf(s.seq + k - 1) = SlotOf(k + 1)
  BY <1>1
<1>5. ASSUME NEW k \in 1..count PROVE into(SlotOf(k + 1)) = {k}
  <2>1. ASSUME NEW j \in 1..count, j # k PROVE SlotOf(j + 1) # SlotOf(k + 1)
    <3>1. j + 1 \in Nat /\ k + 1 \in Nat /\ j + 1 < k + 1 + Window /\ k + 1 < j + 1 + Window
          /\ (j + 1 < k + 1 \/ k + 1 < j + 1)
      BY <1>2, <2>1, WindowFacts
    <3> QED
      BY <3>1, SlotsDiffer
  <2> QED
    BY <1>4, <2>1
<1>6. into(SlotOf(1)) = {}
  <2>1. ASSUME NEW j \in 1..count PROVE SlotOf(1) # SlotOf(j + 1)
    <3>1. j + 1 \in Nat /\ 1 < j + 1 /\ j + 1 < 1 + Window
      BY <1>2, WindowFacts
    <3> QED
      BY <3>1, SlotsDiffer
  <2> QED
    BY <1>4, <2>1
<1>7. G \subseteq PacketType /\ Genuine(full, s.read + 1) \subseteq G
  BY <1>1, <1>2, GenuineGrows, PacketTypes
<1>8. s.window \in [Slot -> G] /\ s.sending \subseteq G
  BY <1>7 DEF Ready
<1>9. window \in [Slot -> G]
  <2>1. ASSUME NEW i \in Slot PROVE new(i) \in G
    <3>1. CASE into(i) = {}
      BY <1>8, <3>1
    <3>2. CASE into(i) # {}
      <4>1. (CHOOSE k \in into(i) : TRUE) \in 1..count
        BY <3>2
      <4> HIDE DEF ahead, G, count
      <4> QED
        BY <1>3, <3>2, <4>1
    <3> QED
      BY <3>1, <3>2
  <2> QED
    BY <2>1
<1>10. sending \subseteq G /\ ahead(count) \in G /\ count \in 1..count
  BY <1>2, <1>3, <1>8
<1>11. t = [s EXCEPT !.seq = s.seq + count, !.read = s.read + count, !.packet = ahead(count),
                     !.sending = sending, !.bootstrap = FALSE, !.window = window]
  BY <1>1 DEF Filled, SenderType
<1>12. /\ t.running = s.running /\ t.seq = 2 + count /\ t.read = count /\ t.left = s.left
       /\ t.window = window /\ t.packet = ahead(count) /\ t.sending = sending
       /\ t.cuAck = s.cuAck /\ t.wait = s.wait /\ t.firstOne = s.firstOne
       /\ t.bootstrap = FALSE /\ t.flagFirst = s.flagFirst
  <2> HIDE DEF window, sending, ahead, count, t
  <2> QED
    BY <1>1, <1>2, <1>11 DEF SenderType
<1>13. Shaped(t, full)
  BY <1>1, FilledShaped
<1>14. window[SlotOf(1)].seq = 1 /\ \A n \in 2..(count + 1) : window[SlotOf(n)].seq = n
  <2>1. window[SlotOf(1)].seq = 1
    <3>1. window[SlotOf(1)] = s.window[SlotOf(1)]
      BY <1>6, SlotType
    <3>2. s.window[SlotOf(1)].seq = 1
      <4>1. Base(s, 1)
        BY <1>1 DEF Ready
      <4>2. 1 \in 1..(s.read + 1)
        BY <1>1
      <4> QED
        BY <4>1, <4>2 DEF Base
    <3> QED
      BY <3>1, <3>2
  <2>2. ASSUME NEW n \in 2..(count + 1) PROVE window[SlotOf(n)].seq = n
    <3>1. PICK k \in 1..count : n = k + 1
      BY <1>2
    <3>2. SlotOf(k + 1) \in Slot
      BY SlotType
    <3>3. (CHOOSE j \in into(SlotOf(k + 1)) : TRUE) = k
      <4>1. into(SlotOf(k + 1)) = {k}
        BY <1>5
      <4> HIDE DEF into
      <4> QED
        BY <4>1
    <3>4. window[SlotOf(k + 1)] = ahead(k)
      <4>1. into(SlotOf(k + 1)) # {}
        BY <1>5
      <4> HIDE DEF into, ahead
      <4> QED
        BY <3>2, <3>3, <4>1
    <3> HIDE DEF window, ahead, into
    <3> QED
      BY <1>3, <3>1, <3>4
  <2> QED
    BY <2>1, <2>2
<1>15. s.left = SlotOf(1)
  BY <1>1 DEF Ready, Base
<1> HIDE DEF window, sending, ahead, into, count, t, G
<1>16. Base(t, 1)
  <2>1. \A n \in 1..(t.read + 1) : t.window[SlotOf(n)].seq = n
    BY <1>2, <1>12, <1>14
  <2> QED
    BY <1>1, <1>2, <1>12, <1>15, <2>1, WindowFacts DEF Base
<1>17. Slides(t, full)
  <2>1. t.read \in 1..full => t.read + 2 = 1 + Window
    BY <1>2, <1>12, WindowFacts
  <2> QED
    BY <1>16, <2>1 DEF Slides
<1>18. t.window \in [Slot -> Genuine(full, t.read + 1)] /\ t.packet \in Genuine(full, t.read + 1)
       /\ t.sending \subseteq Genuine(full, t.read + 1)
  BY <1>9, <1>10, <1>12 DEF G
<1>19. ~t.firstOne
  BY <1>1, <1>12
<1>20. Ready(t, full)
  BY <1>1, <1>2, <1>12, <1>13, <1>16, <1>17, <1>18, <1>19 DEF Ready
<1> QED
  BY <1>20 DEF t

\* The window moves on, in general.
LEMMA SlidShaped ==
    ASSUME NEW full \in Nat, NEW s, Shaped(s, full)
    PROVE  /\ Shaped(Slid(s, full), full) /\ Kept(s, Slid(s, full))
           /\ Slid(s, full).read >= s.read /\ Slid(s, full).bootstrap = s.bootstrap
           /\ Slid(s, full).firstOne = s.firstOne
<1> DEFINE p == NextPacket(s, full)
           next == SlotOf(s.left + 1)
           seq == IF s.read = full THEN s.seq ELSE s.seq + 1
           last == IF ReadAll(s, full) THEN s.packet ELSE p
           window == [s.window EXCEPT ![s.left] = last]
           read == IF ReadAll(s, full) THEN s.read ELSE s.read + 1
           number == IF ReadAll(s, full) THEN s.seq ELSE seq
           sending == IF ReadAll(s, full) THEN s.sending ELSE s.sending \cup {p}
           t == [s EXCEPT !.packet = last, !.sending = sending, !.read = read, !.seq = number,
                          !.window = window, !.left = next]
<1>1. /\ s \in SenderType /\ s.read \in 0..(full + 1) /\ s.seq \in Nat /\ s.seq >= 1
      /\ s.left \in Slot /\ s.window \in [Slot -> PacketType] /\ s.packet \in PacketType
      /\ s.sending \in SUBSET PacketType
  BY ShapedFacts DEF Shaped
<1>2. next \in Slot
  <2>1. s.left + 1 \in Nat
    BY <1>1, WindowFacts
  <2> QED
    BY <2>1, SlotType
<1>3. p \in PacketType
  <2> DEFINE b == s.read = full
             m == s.seq
             n == s.read + 1
  <2>1. b \in BOOLEAN /\ m \in Nat /\ n \in Nat /\ p = [seq |-> m, chunk |-> n, last |-> b]
    BY <1>1 DEF NextPacket, Packet
  <2> HIDE DEF b, m, n, p
  <2> QED
    BY <2>1 DEF PacketType
<1> HIDE DEF p
<1>4. Slid(s, full) = t
  BY <1>1 DEF Slid, Sends, SenderType, p
<1>5. /\ last \in PacketType /\ window \in [Slot -> PacketType] /\ sending \in SUBSET PacketType
      /\ read \in Nat /\ read >= s.read /\ read <= full + 1 /\ number \in Nat /\ number >= 1
  BY <1>1, <1>3 DEF ReadAll
<1> HIDE DEF next, last, window, read, number, sending
<1>6. t \in SenderType
  BY <1>1, <1>2, <1>5, Zenon DEF SenderType
<1>7. /\ t.running = s.running /\ t.seq = number /\ t.read = read /\ t.cuAck = s.cuAck
      /\ t.wait = s.wait /\ t.firstOne = s.firstOne /\ t.bootstrap = s.bootstrap
      /\ t.flagFirst = s.flagFirst
  BY <1>1 DEF SenderType
<1> HIDE DEF t
<1>8. Shaped(t, full) /\ Kept(s, t)
  BY <1>5, <1>6, <1>7 DEF Shaped, Kept
<1> QED
  BY <1>4, <1>5, <1>7, <1>8

\* A slot is used again: the window moves on.
LEMMA SlidReady ==
    ASSUME NEW full \in Nat, NEW s, Ready(s, full), ~s.bootstrap, ~s.firstOne, LeftFree(s)
    PROVE  Ready(Slid(s, full), full)
<1> DEFINE p == NextPacket(s, full)
           next == SlotOf(s.left + 1)
           u == Slid(s, full)
<1>1. s \in SenderType /\ s.cuAck \in Nat /\ s.read \in 0..(full + 1) /\ s.left \in Slot /\ s.seq \in Nat
      /\ s.cuAck <= s.read + 1 /\ Shaped(u, full)
  BY ShapedFacts, SlidShaped DEF Ready
<1>2. next \in Slot /\ (\A b \in Nat : s.left = SlotOf(b) => next = SlotOf(b + 1))
  <2>1. s.left + 1 \in Nat
    BY <1>1, WindowFacts
  <2> QED
    BY <2>1, SlotType, SlotsTurn
<1>3. s.window \in [Slot -> Genuine(full, s.read + 1)] /\ s.packet \in Genuine(full, s.read + 1)
      /\ s.sending \subseteq Genuine(full, s.read + 1)
      /\ ~s.firstOne
  BY DEF Ready
\* The oldest packet is acknowledged, unless all of them are.
<1>4. CASE s.cuAck # full + 2
  <2>1. PICK b \in Nat : Base(s, b) /\ (s.read \in 1..full => s.read + 2 = b + Window)
    BY <1>4 DEF Ready, Slides
  <2>2. b \in 1..(s.cuAck + 1) /\ s.left = SlotOf(b) /\ s.read + 1 < b + Window
        /\ \A n \in b..(s.read + 1) : s.window[SlotOf(n)].seq = n
    BY <2>1 DEF Base
  <2>3. b <= s.read + 1
    <3>1. CASE s.read = 0
      <4>1. s.flagFirst /\ s.cuAck = 0
        BY <3>1 DEF Ready
      <4> QED
        BY <2>2, <3>1, <4>1
    <3>2. CASE s.read \in 1..full
      BY <1>1, <2>1, <2>2, <3>2, WindowFacts
    <3>3. CASE s.read = full + 1
      BY <1>1, <1>4, <2>2, <3>3
    <3> QED
      BY <1>1, <3>1, <3>2, <3>3
  <2>4. b <= s.cuAck
    <3>1. s.window[s.left].seq = b
      BY <1>1, <2>2, <2>3
    <3> QED
      BY <3>1 DEF LeftFree
  <2>5. s.read >= 1
    <3>1. s.read # 0
      <4> SUFFICES ASSUME s.read = 0 PROVE FALSE
        OBVIOUS
      <4>1. s.flagFirst /\ s.cuAck = 0
        BY DEF Ready
      <4> QED
        BY <2>2, <2>4, <4>1
    <3> QED
      BY <1>1, <3>1
  <2>6. ~s.flagFirst /\ s.cuAck >= 1
    BY <2>5 DEF Ready
  <2>7. CASE ~ReadAll(s, full)
    <3> DEFINE seq == IF s.read = full THEN s.seq ELSE s.seq + 1
               window == [s.window EXCEPT ![s.left] = p]
               G == Genuine(full, s.read + 2)
    <3>1. s.read \in 1..full /\ s.seq = s.read + 2 /\ s.seq = b + Window
      BY <1>1, <2>1, <2>5, <2>7 DEF ReadAll, Ready
    <3>2. p \in G /\ p.seq = s.read + 2
      <4>1. p = Packet(s.read + 1 + 1, s.read + 1, s.read + 1 = full + 1)
        BY <3>1 DEF NextPacket
      <4>2. s.read + 1 \in 1..(full + 1) /\ s.read + 2 \in Nat /\ s.read + 1 + 1 = s.read + 2
        BY <3>1
      <4> QED
        BY <4>1, <4>2, ChunkPacket
    <3>3. Genuine(full, s.read + 1) \subseteq G /\ G \subseteq PacketType
      BY <1>1, GenuineGrows, PacketTypes
    <3>4. u = [s EXCEPT !.packet = p, !.sending = s.sending \cup {p}, !.read = s.read + 1,
                        !.seq = seq, !.window = window, !.left = next]
      BY <1>1, <2>7 DEF Slid, Sends, SenderType
    <3> HIDE DEF p, G
    <3>5. window \in [Slot -> G] /\ s.sending \cup {p} \subseteq G
      BY <1>3, <3>2, <3>3
    <3>6. seq \in Nat /\ (s.read + 1 <= full => seq = s.read + 3)
      BY <1>1, <3>1
    <3>7. \A n \in (b + 1)..(s.read + 2) : window[SlotOf(n)].seq = n
      <4> SUFFICES ASSUME NEW n \in (b + 1)..(s.read + 2) PROVE window[SlotOf(n)].seq = n
        OBVIOUS
      <4>1. n \in Nat /\ SlotOf(n) \in Slot
        BY <1>1, <2>2, SlotType
      <4>2. CASE n = s.read + 2
        <5>1. SlotOf(n) = s.left
          BY <2>2, <3>1, <4>2, SlotsTurn
        <5> QED
          BY <1>1, <1>3, <3>2, <4>2, <5>1
      <4>3. CASE n # s.read + 2
        <5>1. n \in b..(s.read + 1) /\ b < n /\ n < b + Window
          BY <1>1, <2>2, <3>1, <4>3, WindowFacts
        <5>2. SlotOf(n) # s.left
          BY <2>2, <4>1, <5>1, SlotsDiffer
        <5> QED
          BY <1>3, <2>2, <4>1, <5>1, <5>2
      <4> QED
        BY <4>2, <4>3
    <3> HIDE DEF seq, window, u, next
    <3>8. /\ u.running = s.running /\ u.seq = seq /\ u.read = s.read + 1 /\ u.left = next
          /\ u.window = window /\ u.packet = p /\ u.sending = s.sending \cup {p}
          /\ u.cuAck = s.cuAck /\ u.wait = s.wait /\ u.firstOne = s.firstOne
          /\ u.bootstrap = s.bootstrap /\ u.flagFirst = s.flagFirst
      BY <1>1, <3>4 DEF SenderType
    <3>10. Base(u, b + 1) /\ b + 1 \in Nat
      <4>1. /\ b + 1 \in 1..(u.cuAck + 1) /\ u.read + 1 < b + 1 + Window /\ b + 1 \in Nat
            /\ u.read + 1 = s.read + 2
        <5>1. s.read \in Nat /\ s.cuAck \in Nat /\ Window \in Nat /\ b \in Nat /\ 1 <= b
              /\ s.read + 1 < b + Window
          BY <1>1, <2>2, WindowFacts
        <5>2. u.read = s.read + 1 /\ u.cuAck = s.cuAck
          BY <3>8
        <5> QED
          BY ONLY <2>4, <5>1, <5>2, SMT
      <4>2. u.left = SlotOf(b + 1)
        BY <1>2, <2>2, <3>8
      <4>3. \A n \in (b + 1)..(u.read + 1) : u.window[SlotOf(n)].seq = n
        BY <3>7, <3>8, <4>1
      <4> QED
        BY <4>1, <4>2, <4>3 DEF Base
    <3>11. Slides(u, full)
      <4>1. u.read + 2 = b + 1 + Window
        <5>1. s.read + 2 = b + Window
          BY <3>1
        <5>2. u.read = s.read + 1
          BY <3>8
        <5> QED
          BY <1>1, <5>1, <5>2, WindowFacts
      <4> QED
        BY <3>10, <4>1 DEF Slides
    <3>12. u.window \in [Slot -> Genuine(full, u.read + 1)] /\ u.packet \in Genuine(full, u.read + 1)
           /\ u.sending \subseteq Genuine(full, u.read + 1)
      <4>1. u.read + 1 = s.read + 2
        BY <1>1, <3>8
      <4> QED
        BY <3>2, <3>5, <3>8, <4>1 DEF G
    <3>13. u.read \in 0..(full + 1) /\ u.cuAck <= u.read + 1 /\ (u.read <= full => u.seq = u.read + 2)
           /\ u.read # 0
      BY <1>1, <3>1, <3>6, <3>8
    <3>14. Ready(u, full)
      BY <1>1, <1>3, <2>6, <3>8, <3>11, <3>12, <3>13 DEF Ready
    <3> QED
      BY <3>14 DEF u
  <2>8. CASE ReadAll(s, full)
    <3>1. s.read = full + 1
      BY <1>1, <2>8 DEF ReadAll
    <3> DEFINE window == [s.window EXCEPT ![s.left] = s.packet]
    <3>2. u = [s EXCEPT !.window = window, !.left = next]
      BY <1>1, <2>8 DEF Slid
    <3>3. window \in [Slot -> Genuine(full, s.read + 1)]
      BY <1>3
    <3>4. \A n \in (b + 1)..(s.read + 1) : window[SlotOf(n)].seq = n
      <4> SUFFICES ASSUME NEW n \in (b + 1)..(s.read + 1) PROVE window[SlotOf(n)].seq = n
        OBVIOUS
      <4>1. n \in Nat /\ SlotOf(n) \in Slot /\ n \in b..(s.read + 1) /\ b < n /\ n < b + Window
        <5>1. s.read \in Nat /\ Window \in Nat /\ b \in Nat /\ s.read + 1 < b + Window
          BY <1>1, <2>2, WindowFacts
        <5>2. n \in Nat /\ n \in b..(s.read + 1) /\ b < n /\ n < b + Window
          BY ONLY <5>1, n \in (b + 1)..(s.read + 1), SMT
        <5> QED
          BY <5>2, SlotType
      <4>2. SlotOf(n) # s.left
        BY <2>2, <4>1, SlotsDiffer
      <4> QED
        BY <1>3, <2>2, <4>1, <4>2
    <3> HIDE DEF window, u, next
    <3>5. /\ u.running = s.running /\ u.seq = s.seq /\ u.read = s.read /\ u.left = next
          /\ u.window = window /\ u.packet = s.packet /\ u.sending = s.sending
          /\ u.cuAck = s.cuAck /\ u.wait = s.wait /\ u.firstOne = s.firstOne
          /\ u.bootstrap = s.bootstrap /\ u.flagFirst = s.flagFirst
      BY <1>1, <3>2 DEF SenderType
    <3>7. Base(u, b + 1) /\ b + 1 \in Nat
      <4>1. b + 1 \in 1..(u.cuAck + 1) /\ u.read + 1 < b + 1 + Window /\ b + 1 \in Nat
        BY <1>1, <2>2, <2>4, <3>5, WindowFacts
      <4>2. u.left = SlotOf(b + 1)
        BY <1>2, <2>2, <3>5
      <4>3. \A n \in (b + 1)..(u.read + 1) : u.window[SlotOf(n)].seq = n
        BY <3>4, <3>5
      <4> QED
        BY <4>1, <4>2, <4>3 DEF Base
    <3>8. Slides(u, full)
      BY <3>1, <3>5, <3>7 DEF Slides
    <3>9. Ready(u, full)
      BY <1>1, <1>3, <2>5, <2>6, <3>1, <3>3, <3>5, <3>8 DEF Ready
    <3> QED
      BY <3>9 DEF u
  <2> QED
    BY <2>7, <2>8
<1>5. CASE s.cuAck = full + 2
  <2>1. s.read = full + 1 /\ ReadAll(s, full) /\ s.read # 0 /\ ~s.flagFirst /\ s.cuAck >= 1
    BY <1>1, <1>5 DEF ReadAll, Ready
  <2> DEFINE window == [s.window EXCEPT ![s.left] = s.packet]
  <2>2. u = [s EXCEPT !.window = window, !.left = next]
    BY <1>1, <2>1 DEF Slid
  <2>3. window \in [Slot -> Genuine(full, s.read + 1)]
    BY <1>3
  <2> HIDE DEF window, u, next
  <2>4. /\ u.running = s.running /\ u.seq = s.seq /\ u.read = s.read /\ u.left = next
        /\ u.window = window /\ u.packet = s.packet /\ u.sending = s.sending
        /\ u.cuAck = s.cuAck /\ u.wait = s.wait /\ u.firstOne = s.firstOne
        /\ u.bootstrap = s.bootstrap /\ u.flagFirst = s.flagFirst
    BY <1>1, <2>2 DEF SenderType
  <2>6. Slides(u, full)
    BY <1>5, <2>4 DEF Slides
  <2>7. Ready(u, full)
    BY <1>1, <1>3, <2>1, <2>3, <2>4, <2>6 DEF Ready
  <2> QED
    BY <2>7 DEF u
<1> QED
  BY <1>4, <1>5

\* The rest of an iteration, after the acknowledgement, if there was one.
LEMMA RoundsReady ==
    ASSUME NEW full \in Nat, NEW s, Shaped(s, full), NEW t \in Rounds(s, full)
    PROVE  /\ Shaped(t, full) /\ Kept(s, t) /\ t.read >= s.read /\ ~t.firstOne
           /\ Ready(s, full) => Ready(t, full)
<1> DEFINE f == IF s.bootstrap THEN Filled(s, full) ELSE s
<1>1. s.read \in Nat
  BY ShapedFacts
<1>2. /\ Shaped(f, full) /\ Kept(s, f) /\ f.read >= s.read /\ f.read \in Nat
      /\ f.firstOne = s.firstOne /\ ~f.bootstrap
      /\ Ready(s, full) => Ready(f, full)
  <2>1. CASE s.bootstrap
    <3>1. /\ Shaped(Filled(s, full), full) /\ Kept(s, Filled(s, full))
          /\ Filled(s, full).read >= s.read /\ ~Filled(s, full).bootstrap
          /\ Filled(s, full).firstOne = s.firstOne
      BY FilledShaped
    <3>2. Filled(s, full).read \in Nat
      BY <3>1, ShapedFacts
    <3>3. Ready(s, full) => Ready(Filled(s, full), full)
      BY <2>1, FilledReady
    <3> QED
      BY <2>1, <3>1, <3>2, <3>3
  <2>2. CASE ~s.bootstrap
    BY <1>1, <2>2 DEF Kept
  <2> QED
    BY <2>1, <2>2
<1>3. CASE s.firstOne
  <2>1. t = Named(s)
    BY <1>3 DEF Rounds
  <2>2. Shaped(t, full) /\ Kept(s, t) /\ t.read = s.read /\ ~t.firstOne
    BY <2>1, NamedShaped
  <2>3. Ready(s, full) => Ready(t, full)
    BY <1>3, <2>1, NamedReady
  <2> QED
    BY <1>1, <2>2, <2>3
<1>4. CASE ~s.firstOne /\ s.wait
  <2>1. t = s
    BY <1>4 DEF Rounds
  <2>2. Kept(s, t) /\ t.read >= s.read
    BY <1>1, <2>1 DEF Kept
  <2> QED
    BY ONLY <1>4, <2>1, <2>2, Shaped(s, full)
<1>5. CASE ~s.firstOne /\ ~s.wait
  <2>1. t \in IF LeftFree(f) THEN {Slid(f, full)} ELSE {f, TimedOut(f)}
    BY <1>5 DEF Rounds
  <2> HIDE DEF f
  <2>2. CASE LeftFree(f)
    <3>1. t = Slid(f, full)
      BY <2>1, <2>2
    <3>2. Shaped(t, full) /\ Kept(f, t) /\ t.read >= f.read /\ t.firstOne = f.firstOne
      BY <1>2, <3>1, SlidShaped
    <3>3. t.read \in Nat
      BY <3>2, ShapedFacts
    <3>4. Ready(f, full) => Ready(t, full)
      BY <1>2, <1>5, <2>2, <3>1, SlidReady
    <3> QED
      BY <1>1, <1>2, <1>5, <3>2, <3>3, <3>4 DEF Kept
  <2>3. CASE t = f
    BY <1>2, <1>5, <2>3
  <2>4. CASE t = TimedOut(f)
    <3>1. /\ Shaped(t, full) /\ Kept(f, t) /\ t.read = f.read /\ t.firstOne = f.firstOne
          /\ Ready(f, full) => Ready(t, full)
      BY <1>2, <2>4, TimedOutReady
    <3> QED
      BY <1>1, <1>2, <1>5, <3>1 DEF Kept
  <2> QED
    BY <2>1, <2>2, <2>3, <2>4
<1> QED
  BY <1>3, <1>4, <1>5
=============================================================================
