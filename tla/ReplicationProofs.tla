------------------------- MODULE ReplicationProofs -------------------------
(***************************************************************************)
(* Theorems about Replication, for any servers, clients and bounds.  The   *)
(* steps of every action are reduced to what they do to the group of one   *)
(* server: it keeps what it kept, hears a message, or posts one.           *)
(***************************************************************************)
EXTENDS ReplicationCrash, GroupProofs

\* The group k that server s has after a step keeps the messages it had.
Quiet(s, k) ==
    /\ Messages(k.list) = Known(s)
    /\ Reached(k.maxLamport)

\* It has also the message x, which the author of x has.
Heard(s, k, x) ==
    /\ Messages(k.list) = Known(s) \cup {x}
    /\ x.replica \in Server
    /\ x \in Known(x.replica)
    /\ x.lamport <= k.maxLamport
    /\ Reached(k.maxLamport)

\* It has also a new message of its own.
Said(s, k) ==
    /\ Messages(k.list) = Known(s) \cup {NewMessage(group[s], s, posted + 1)}
    /\ Says(k.list.node[Len(k.list.node)]) = NewMessage(group[s], s, posted + 1)
    /\ k.maxLamport = group[s].maxLamport + 1
    /\ posted < MaxMsgs

\* The group of one server changes; its counters stay behind those of the
\* origins, and its own moves with "posted".
GroupStep(s, k) ==
    /\ group' = [group EXCEPT ![s] = k]
    /\ GroupOK(k)
    /\ k.made
    /\ Settled(k, group[s])
    /\ group[s].maxLamport <= k.maxLamport
    /\ \A o \in Server \ {s} :
          /\ group[s].msgTimestamp[o] <= k.msgTimestamp[o]
          /\ k.msgTimestamp[o] <= group[o].msgTimestamp[o]
    /\ \/ /\ Quiet(s, k) \/ \E x : Heard(s, k, x)
          /\ k.msgTimestamp[s] = group[s].msgTimestamp[s]
          /\ posted' = posted
       \/ /\ Said(s, k)
          /\ k.msgTimestamp[s] = group[s].msgTimestamp[s] + 1
          /\ posted' = posted + 1

\* Nothing a request relies on is lost in a step.
Grows ==
    \A s \in Server :
        /\ Known(s) \subseteq Known(s)'
        /\ group[s].maxLamport <= group'[s].maxLamport
        /\ group[s].msgTimestamp[s] <= group'[s].msgTimestamp[s]
        /\ group[s].made => group'[s].made

-----------------------------------------------------------------------------
\* The parts of a group that is well-formed.
LEMMA GroupParts ==
    ASSUME NEW g, GroupOK(g)
    PROVE  /\ g \in GroupType
           /\ g.list \in ListType
           /\ ListOK(g.list)
           /\ g.maxLamport \in Nat
           /\ g.msgTimestamp \in [Server -> Nat]
           /\ \A x \in Messages(g.list) :
                 x.lamport \in Nat /\ x.replica \in Server /\ x.content \in Nat
                 /\ x = Says(x)
<1>1. g \in GroupType /\ g.list \in ListType /\ ListOK(g.list)
  BY DEF GroupOK, GroupType, ListOK
<1>2. \A n \in Nodes(g.list) : g.list.node[n] \in NodeType
  BY <1>1, NodesShape
<1> QED
  BY <1>1, <1>2 DEF GroupType, Messages, NodeType, Says

LEMMA GroupStepGrows ==
    ASSUME GroupsSound, NEW s \in Server, NEW k, GroupStep(s, k),
           group \in [Server -> GroupType]
    PROVE  Grows
<1>1. \A t \in Server : group'[t] = IF t = s THEN k ELSE group[t]
  BY DEF GroupStep
<1>2. Known(s) \subseteq Messages(k.list)
  BY DEF GroupStep, Quiet, Heard, Said
<1>3. \A t \in Server : group[t].maxLamport \in Nat /\ group[t].msgTimestamp[t] \in Nat
  BY GroupParts DEF GroupsSound
<1> QED
  BY <1>1, <1>2, <1>3 DEF Grows, GroupStep, Known

LEMMA GroupStepCounts ==
    ASSUME GroupsSound, NEW s \in Server, NEW k, GroupStep(s, k),
           group \in [Server -> GroupType], posted \in Nat
    PROVE  AckNotAhead' /\ \A t \in Server : group'[t].msgTimestamp[t] <= posted'
<1>1. \A t \in Server : group'[t] = IF t = s THEN k ELSE group[t]
  BY DEF GroupStep
<1>2. \A t, o \in Server : /\ group[t].msgTimestamp[o] \in Nat
                           /\ k.msgTimestamp[o] \in Nat
  BY GroupParts DEF GroupsSound, GroupStep
<1>3. \A t \in Server : group'[t].msgTimestamp[t] <= posted'
  BY <1>1, <1>2 DEF GroupsSound, GroupStep
<1>4. ASSUME NEW t \in Server, NEW o \in Server
      PROVE  group'[t].msgTimestamp[o] <= group'[o].msgTimestamp[o]
  <2>1. group[t].msgTimestamp[o] <= group[o].msgTimestamp[o]
    BY DEF GroupsSound, AckNotAhead
  <2>2. CASE o = s
    <3>1. group[s].msgTimestamp[s] <= k.msgTimestamp[s]
      BY <1>2 DEF GroupStep
    <3> QED
      BY <1>1, <1>2, <2>1, <2>2, <3>1
  <2>3. CASE o # s
    BY <1>1, <2>1, <2>3 DEF GroupStep
  <2> QED
    BY <2>2, <2>3
<1> QED
  BY <1>3, <1>4 DEF AckNotAhead

LEMMA GroupStepAuthentic ==
    ASSUME GroupsSound, NEW s \in Server, NEW k, GroupStep(s, k),
           group \in [Server -> GroupType], posted \in Nat
    PROVE  Authentic'
<1>1. \A t \in Server : /\ group'[t] = IF t = s THEN k ELSE group[t]
                        /\ Known(t)' = IF t = s THEN Messages(k.list) ELSE Known(t)
  BY DEF GroupStep, Known
<1>2. /\ \A t \in Server : group[t].maxLamport \in Nat
      /\ k.maxLamport \in Nat
      /\ \A t \in Server : \A x \in Known(t) :
            x.lamport \in Nat /\ x.replica \in Server /\ x.content \in Nat
  BY GroupParts DEF GroupsSound, GroupStep, Known
<1>3. Grows
  BY GroupStepGrows
<1>4. Authentic
  BY DEF GroupsSound
<1>5. ASSUME NEW t \in Server, NEW m \in Known(t)
      PROVE  /\ m \in Known(m.replica)'
             /\ m.lamport <= group'[t].maxLamport
             /\ m.content \in 1..posted'
  <2>1. m \in Known(m.replica) /\ m.lamport <= group[t].maxLamport /\ m.content \in 1..posted
    BY <1>4 DEF Authentic
  <2>2. group[t].maxLamport <= group'[t].maxLamport /\ group'[t].maxLamport \in Nat
    BY <1>1, <1>2, <1>3 DEF Grows
  <2>3. posted' = posted \/ posted' = posted + 1
    BY DEF GroupStep
  <2> QED
    BY <1>2, <1>3, <2>1, <2>2, <2>3 DEF Grows
<1>6. CASE Quiet(s, k) /\ posted' = posted
  <2>1. \A t \in Server : Known(t)' = Known(t)
    BY <1>1, <1>6 DEF Quiet
  <2>2. ASSUME NEW t \in Server, NEW m \in Known(t)', NEW n \in Known(t)',
               SameKey(m, n), m.replica = t
        PROVE  m = n
    BY <1>4, <2>1, <2>2 DEF Authentic
  <2> QED
    BY <1>5, <2>1, <2>2 DEF Authentic
<1>7. ASSUME NEW x, Heard(s, k, x), posted' = posted
      PROVE  Authentic'
  <2>1. \A t \in Server : Known(t)' = IF t = s THEN Known(s) \cup {x} ELSE Known(t)
    BY <1>1, <1>7 DEF Heard
  <2>2. x \in Known(x.replica)' /\ x.content \in 1..posted' /\ x.lamport <= group'[s].maxLamport
    BY <1>1, <1>3, <1>4, <1>7 DEF Heard, Authentic, Grows
  <2>3. ASSUME NEW t \in Server, NEW m \in Known(t)'
        PROVE  /\ m \in Known(m.replica)'
               /\ m.lamport <= group'[t].maxLamport
               /\ m.content \in 1..posted'
    <3>1. CASE m \in Known(t)
      BY <1>5, <3>1
    <3>2. CASE t = s /\ m = x
      BY <2>2, <3>2
    <3> QED
      BY <2>1, <3>1, <3>2
  <2>4. ASSUME NEW t \in Server, NEW m \in Known(t)', NEW n \in Known(t)',
               SameKey(m, n), m.replica = t
        PROVE  m = n
    <3>1. m \in Known(t) /\ n \in Known(t)
      BY <1>7, <2>1, <2>4 DEF Heard, SameKey
    <3> QED
      BY <1>4, <2>4, <3>1 DEF Authentic
  <2> QED
    BY <2>3, <2>4 DEF Authentic
<1>8. CASE Said(s, k) /\ posted' = posted + 1
  <2> DEFINE x == NewMessage(group[s], s, posted + 1)
  <2>1. \A t \in Server : Known(t)' = IF t = s THEN Known(s) \cup {x} ELSE Known(t)
    BY <1>1, <1>8 DEF Said
  <2>2. /\ x.lamport = group[s].maxLamport + 1
        /\ x.replica = s
        /\ x.content = posted + 1
    BY DEF NewMessage
  <2>3. group'[s].maxLamport = group[s].maxLamport + 1
    BY <1>1, <1>8 DEF Said
  <2> HIDE DEF x
  <2>4. ASSUME NEW t \in Server, NEW m \in Known(t)'
        PROVE  /\ m \in Known(m.replica)'
               /\ m.lamport <= group'[t].maxLamport
               /\ m.content \in 1..posted'
    <3>1. CASE m \in Known(t)
      BY <1>5, <3>1
    <3>2. CASE t = s /\ m = x
      BY <1>2, <1>8, <2>1, <2>2, <2>3, <3>2
    <3> QED
      BY <2>1, <3>1, <3>2
  <2>5. ASSUME NEW t \in Server, NEW m \in Known(t)', NEW n \in Known(t)',
               SameKey(m, n), m.replica = t
        PROVE  m = n
    <3>1. CASE m \in Known(t) /\ n \in Known(t)
      BY <1>4, <2>5, <3>1 DEF Authentic
    <3>2. CASE t = s /\ (m = x \/ n = x)
      <4>1. \A y \in Known(s) : y.lamport < x.lamport
        BY <1>2, <1>4, <2>2 DEF Authentic
      <4> QED
        BY <1>2, <2>1, <2>2, <2>5, <3>2, <4>1 DEF SameKey
    <3> QED
      BY <2>1, <3>1, <3>2
  <2> QED
    BY <2>4, <2>5 DEF Authentic
<1> QED
  BY <1>6, <1>7, <1>8 DEF GroupStep

\* A step of one server's group keeps the servers' groups sound.
LEMMA GroupStepSound ==
    ASSUME GroupsSound, NEW s \in Server, NEW k, GroupStep(s, k),
           group \in [Server -> GroupType], posted \in Nat
    PROVE  GroupsSound'
<1>1. \A t \in Server : GroupOK(group'[t])
  BY DEF GroupsSound, GroupStep
<1>2. AckNotAhead' /\ \A t \in Server : group'[t].msgTimestamp[t] <= posted'
  BY GroupStepCounts
<1>3. Authentic'
  BY GroupStepAuthentic
<1> QED
  BY <1>1, <1>2, <1>3 DEF GroupsSound

-----------------------------------------------------------------------------
(***************************************************************************)
(* What a growing step leaves sound.                                       *)
(***************************************************************************)
\* The groups change as GroupStep says, or not at all.
GroupEffect ==
    \/ \E s \in Server : \E k : GroupStep(s, k)
    \/ UNCHANGED <<group, posted>>

LEMMA SoundGrows ==
    ASSUME TypeOK, GroupsSound, GroupsSound', Grows
    PROVE  /\ \A m : SoundMsg(m) => SoundMsg(m)'
           /\ \A m : SoundNames(m) => SoundNames(m)'
           /\ \A t \in Server : Sound(t) \subseteq Sound(t)'
<1>1. \A s \in Server :
        /\ group[s].maxLamport \in Nat /\ group'[s].maxLamport \in Nat
        /\ group[s].msgTimestamp[s] \in Nat /\ group'[s].msgTimestamp[s] \in Nat
  BY GroupParts DEF GroupsSound
<1>2. ASSUME NEW n \in Nat, Reached(n) PROVE Reached(n)'
  <2>1. PICK u \in Server : n <= group[u].maxLamport
    BY <1>2 DEF Reached
  <2>2. n <= group'[u].maxLamport
    BY <1>1, <2>1 DEF Grows
  <2> QED
    BY <2>2 DEF Reached
<1>3. ASSUME NEW m, SoundMsg(m) PROVE SoundMsg(m)'
  <2>1. /\ m.index \in Nat /\ m.from \in Server /\ m.replica \in Server
        /\ m.groupTimestamp \in Nat
    BY <1>3 DEF SoundMsg, UpdateMsgType
  <2>2. m.index <= group'[m.from].msgTimestamp[m.from]
    BY <1>1, <1>3, <2>1 DEF SoundMsg, Grows
  <2>3. Says(m) \in Known(m.replica)' /\ Reached(m.groupTimestamp)'
    BY <1>2, <1>3, <2>1 DEF SoundMsg, Grows
  <2> QED
    BY <1>3, <2>2, <2>3 DEF SoundMsg
<1>4. ASSUME NEW m, SoundNames(m) PROVE SoundNames(m)'
  BY <1>2, <1>4 DEF SoundNames, SendGroupInfoType
<1>5. ASSUME NEW t \in Server, NEW m \in Sound(t) PROVE m \in Sound(t)'
  <2>1. m \in CheckForMergeType => m.replica \in Server
    BY DEF CheckForMergeType
  <2> QED
    BY <1>3, <1>4, <1>5, <2>1 DEF Sound, Grows
<1> QED
  BY <1>3, <1>4, <1>5

\* After every step whose effect on the groups is one of these, the groups are
\* sound and what is on its way still is.
LEMMA EffectSound ==
    ASSUME Inv, GroupEffect
    PROVE  /\ GroupsSound'
           /\ Grows
           /\ group' \in [Server -> GroupType]
           /\ \A s \in Server : PointersHold(group'[s].list)
           /\ posted' \in 0..MaxMsgs
           /\ \A t \in Server : Sound(t) \subseteq Sound(t)'
           /\ \A s, t \in Server : net[s][t] \in Seq(Sound(t)')
           /\ \A c \in Client : pc'[c] = pc[c] /\ out'[c] = out[c] => HandlerSound(c)'
<1>1. TypeOK /\ GroupsSound
  BY DEF Inv
<1>2. group \in [Server -> GroupType] /\ posted \in Nat /\ posted <= MaxMsgs
  BY <1>1, MaxMsgsAssumption DEF TypeOK
<1>3. GroupsSound' /\ Grows /\ group' \in [Server -> GroupType] /\ posted' \in 0..MaxMsgs
  <2>1. CASE UNCHANGED <<group, posted>>
    <3>1. GroupsSound'
      BY <1>1, <2>1 DEF GroupsSound, AckNotAhead, Authentic, Known
    <3>2. Grows
      BY <1>1, <2>1, GroupParts DEF Grows, Known, GroupsSound
    <3> QED
      BY <1>1, <2>1, <3>1, <3>2 DEF TypeOK
  <2>2. ASSUME NEW s \in Server, NEW k, GroupStep(s, k)
        PROVE  /\ GroupsSound' /\ Grows
               /\ group' \in [Server -> GroupType]
               /\ posted' \in 0..MaxMsgs
    <3>1. GroupsSound' /\ Grows
      BY <1>1, <1>2, <2>2, GroupStepSound, GroupStepGrows
    <3>2. group' \in [Server -> GroupType]
      BY <1>2, <2>2 DEF GroupStep, GroupOK
    <3>3. posted' \in 0..MaxMsgs
      BY <1>2, <2>2, MaxMsgsAssumption DEF GroupStep, Said
    <3> QED
      BY <3>1, <3>2, <3>3
  <2> QED
    BY <2>1, <2>2 DEF GroupEffect
<1>4. /\ \A m : SoundMsg(m) => SoundMsg(m)'
      /\ \A m : SoundNames(m) => SoundNames(m)'
      /\ \A t \in Server : Sound(t) \subseteq Sound(t)'
  BY <1>1, <1>3, SoundGrows
<1>5. ASSUME NEW s \in Server, NEW t \in Server
      PROVE  net[s][t] \in Seq(Sound(t)')
  <2>1. net[s][t] \in Seq(Sound(t)) /\ Sound(t) \subseteq Sound(t)'
    BY <1>4 DEF Inv
  <2> QED
    BY <2>1, SeqMonotonic
<1>6. \A s \in Server : PointersHold(group'[s].list)
  BY <1>3 DEF GroupsSound, GroupOK
<1>7. ASSUME NEW c \in Client, pc'[c] = pc[c], out'[c] = out[c]
      PROVE  HandlerSound(c)'
  <2>1. HandlerSound(c) /\ Home[c] \in Server
    BY HomeAssumption DEF Inv
  <2> QED
    BY <1>3, <1>4, <1>7, <2>1 DEF HandlerSound, Grows
<1> QED
  BY <1>3, <1>4, <1>5, <1>6, <1>7

\* What Send puts on streams that carry sound requests is sound.
LEMMA SendSound ==
    ASSUME link \in [Server -> [Server -> Link]],
           NEW s \in Server, NEW reqs, NEW queued, Send(s, reqs, queued),
           queued \in [Server -> [Server -> Seq(RequestType)]],
           \A t \in Server : reqs[t] \in Seq(Sound(t)'),
           \A u, t \in Server : queued[u][t] \in Seq(Sound(t)')
    PROVE  /\ link' \in [Server -> [Server -> Link]]
           /\ net' \in [Server -> [Server -> Seq(RequestType)]]
           /\ \A u, t \in Server : net'[u][t] \in Seq(Sound(t)')
<1>1. \A t \in Server : Sound(t)' \subseteq RequestType
  BY DEF Sound
<1>2. ASSUME NEW t \in Server
      PROVE  queued[s][t] \o reqs[t] \in Seq(Sound(t)')
  BY ConcatProperties
<1>3. ASSUME NEW u \in Server, NEW t \in Server
      PROVE  net'[u][t] \in Seq(Sound(t)')
  BY <1>2 DEF Send
<1>4. net' \in [Server -> [Server -> Seq(RequestType)]]
  <2>1. \A u, t \in Server : net'[u][t] \in Seq(RequestType)
    BY <1>1, <1>3, SeqMonotonic
  <2>2. net' = [u \in Server |-> [t \in Server |-> net'[u][t]]]
    BY DEF Send
  <2> QED
    BY <2>1, <2>2
<1>5. link' \in [Server -> [Server -> Link]]
  BY DEF Send, Link
<1> QED
  BY <1>3, <1>4, <1>5

-----------------------------------------------------------------------------
(***************************************************************************)
(* The effect of each operation on the groups.                             *)
(***************************************************************************)
LEMMA JoinEffect ==
    ASSUME Inv, NEW s \in Server, group' = [group EXCEPT ![s] = Joined(@, s)],
           posted' = posted
    PROVE  GroupEffect /\ group'[s].made
<1> DEFINE k == Joined(group[s], s)
<1>1. GroupsSound /\ GroupOK(group[s]) /\ group \in [Server -> GroupType]
  BY DEF Inv, GroupsSound, TypeOK
<1>2. /\ GroupOK(k) /\ k.made
      /\ k.maxLamport = group[s].maxLamport
      /\ k.list = group[s].list
      /\ k.msgTimestamp = group[s].msgTimestamp
      /\ Settled(k, group[s])
  BY <1>1, JoinedGroup, JoinedSettles
<1>3. group' = [group EXCEPT ![s] = k] /\ group'[s] = k
  BY <1>1
<1> HIDE DEF k
<1>4. Quiet(s, k)
  BY <1>1, <1>2, GroupParts DEF Quiet, Reached, Known
<1>5. \A o \in Server : /\ group[s].msgTimestamp[o] \in Nat
                        /\ group[s].msgTimestamp[o] <= group[o].msgTimestamp[o]
  BY <1>1, GroupParts DEF GroupsSound, AckNotAhead
<1>6. GroupStep(s, k)
  BY <1>1, <1>2, <1>3, <1>4, <1>5, GroupParts DEF GroupStep
<1> QED
  BY <1>2, <1>3, <1>6 DEF GroupEffect

LEMMA NamesEffect ==
    ASSUME Inv, NEW s \in Server, NEW m \in Sound(s), m.kind = "SendGroupInfo",
           group' = [group EXCEPT ![s] = NamesInserted(@, m)], posted' = posted
    PROVE  GroupEffect
<1> DEFINE k == NamesInserted(group[s], m)
<1>1. GroupsSound /\ GroupOK(group[s]) /\ group \in [Server -> GroupType]
  BY DEF Inv, GroupsSound, TypeOK
<1>2. SoundNames(m) /\ m \in SendGroupInfoType
  BY DEF Sound, SoundMsg, SoundNames, UpdateMsgType, CheckForMergeType
<1>3. /\ GroupOK(k) /\ k.made
      /\ k.maxLamport = IF group[s].made THEN group[s].maxLamport ELSE m.groupTimestamp
      /\ k.list = group[s].list
      /\ k.msgTimestamp = group[s].msgTimestamp
      /\ Settled(k, group[s])
  BY <1>1, <1>2, NamesInsertedGroup, NamesInsertedSettles
<1>4. group' = [group EXCEPT ![s] = k]
  BY <1>1
<1> HIDE DEF k
<1>5. ~group[s].made => group[s].maxLamport = 0
  BY <1>1, NoGroupOK DEF GroupOK
<1>6. Quiet(s, k) /\ group[s].maxLamport <= k.maxLamport
  BY <1>1, <1>2, <1>3, <1>5, GroupParts
     DEF Quiet, Reached, Known, SoundNames, SendGroupInfoType
<1>7. \A o \in Server : /\ group[s].msgTimestamp[o] \in Nat
                        /\ group[s].msgTimestamp[o] <= group[o].msgTimestamp[o]
  BY <1>1, GroupParts DEF GroupsSound, AckNotAhead
<1>8. GroupStep(s, k)
  BY <1>1, <1>3, <1>4, <1>6, <1>7, GroupParts DEF GroupStep
<1> QED
  BY <1>8 DEF GroupEffect

LEMMA PostEffect ==
    ASSUME Inv, NEW s \in Server, group[s].made, posted < MaxMsgs,
           group' = [group EXCEPT ![s] = Posted(@, s, posted + 1)],
           posted' = posted + 1
    PROVE  /\ GroupEffect
           /\ NewMessage(group[s], s, posted + 1) \in Known(s)'
           /\ IsMessage(NewMessage(group[s], s, posted + 1))
           /\ group'[s].made
<1> DEFINE x == NewMessage(group[s], s, posted + 1)
           k == Posted(group[s], s, posted + 1)
<1>1. /\ GroupsSound /\ GroupOK(group[s]) /\ group \in [Server -> GroupType]
      /\ posted \in Nat
  BY DEF Inv, GroupsSound, TypeOK
<1>2. group[s].msgTimestamp[s] < MaxMsgs
  BY <1>1, GroupParts, MaxMsgsAssumption DEF GroupsSound
<1>3. /\ GroupOK(k) /\ k.made
      /\ k.maxLamport = group[s].maxLamport + 1
      /\ Extends(k.list, group[s].list, x)
      /\ k.msgTimestamp = [group[s].msgTimestamp EXCEPT ![s] = @ + 1]
      /\ Settled(k, group[s])
  BY <1>1, <1>2, PostedGroup, PostedSettles
<1>4. group' = [group EXCEPT ![s] = k] /\ group'[s] = k
  BY <1>1
<1>5. Says(x) = x /\ IsMessage(x)
  BY <1>1, GroupParts, NewMessageIs DEF Says, NewMessage
<1> HIDE DEF k, x
<1>6. Messages(k.list) = Known(s) \cup {x}
  BY <1>1, <1>3, <1>5, ExtendsMessages, GroupParts DEF Known
<1>7. Said(s, k)
  BY <1>3, <1>5, <1>6 DEF Said, Extends, x
<1>8. /\ group[s].msgTimestamp \in [Server -> Nat] /\ group[s].maxLamport \in Nat
      /\ \A o \in Server : group[s].msgTimestamp[o] <= group[o].msgTimestamp[o]
  BY <1>1, GroupParts DEF GroupsSound, AckNotAhead
<1>9. GroupStep(s, k)
  <2>1. /\ \A o \in Server \ {s} : k.msgTimestamp[o] = group[s].msgTimestamp[o]
        /\ k.msgTimestamp[s] = group[s].msgTimestamp[s] + 1
        /\ group[s].maxLamport <= k.maxLamport
        /\ \A o \in Server : group[s].msgTimestamp[o] \in Nat
    BY <1>3, <1>8
  <2>2. \A o \in Server \ {s} : /\ group[s].msgTimestamp[o] <= k.msgTimestamp[o]
                                /\ k.msgTimestamp[o] <= group[o].msgTimestamp[o]
    BY <1>8, <2>1
  <2> QED
    BY <1>3, <1>4, <1>7, <2>1, <2>2 DEF GroupStep
<1>10. x \in Known(s)'
  BY <1>4, <1>6 DEF Known
<1> QED
  BY <1>3, <1>4, <1>5, <1>9, <1>10 DEF GroupEffect, x

LEMMA InsertEffect ==
    ASSUME Inv, NEW s \in Server, NEW m \in Sound(s), m.kind = "UpdateMsg",
           group' = [group EXCEPT ![s] = MsgInserted(@, m)], posted' = posted
    PROVE  GroupEffect
<1> DEFINE g == group[s]
           k == MsgInserted(g, m)
<1>1. /\ GroupsSound /\ GroupOK(g) /\ group \in [Server -> GroupType]
      /\ posted \in Nat /\ posted <= MaxMsgs /\ Authentic
  BY MaxMsgsAssumption DEF Inv, GroupsSound, TypeOK
<1>2. /\ SoundMsg(m) /\ m \in UpdateMsgType
      /\ g.made \/ m.lamport <= m.groupTimestamp
  BY DEF Sound, SoundMsg, SoundNames, SendGroupInfoType, CheckForMergeType
<1>3. /\ m.from \in Server /\ m.replica \in Server /\ m.index \in Nat
      /\ m.lamport \in Nat /\ m.groupTimestamp \in Nat /\ IsMessage(m)
  BY <1>2 DEF UpdateMsgType, IsMessage
<1>4. \A t, o \in Server : /\ group[t].msgTimestamp[o] \in Nat
                           /\ group[t].maxLamport \in Nat
                           /\ group[t].msgTimestamp[o] <= group[o].msgTimestamp[o]
  BY <1>1, GroupParts DEF GroupsSound, AckNotAhead
<1>5. m.index <= MaxMsgs
  <2>1. m.index <= group[m.from].msgTimestamp[m.from]
    BY <1>2 DEF SoundMsg
  <2>2. group[m.from].msgTimestamp[m.from] <= posted
    BY <1>1, <1>3 DEF GroupsSound
  <2> QED
    BY <1>1, <1>3, <1>4, <2>1, <2>2, MaxMsgsAssumption
<1>6. /\ GroupOK(k) /\ k.made /\ Counts(k, g, m) /\ Settled(k, g)
      /\ k = g \/ Overwrites(k, g, m) \/ Learns(k, g, m)
  BY <1>1, <1>2, <1>5, MsgInsertedGroup, MsgInsertedSettles
<1>7. group' = [group EXCEPT ![s] = k]
  BY <1>1
<1>8. ListOK(g.list) /\ Messages(g.list) = Known(s)
  BY <1>1, GroupParts DEF Known
<1> HIDE DEF g, k
<1>9. k.msgTimestamp[s] = g.msgTimestamp[s]
  BY <1>2, <1>3, <1>4, <1>6 DEF Counts, SoundMsg, g
<1>10. ASSUME NEW o \in Server \ {s}
       PROVE  /\ g.msgTimestamp[o] <= k.msgTimestamp[o]
              /\ k.msgTimestamp[o] <= group[o].msgTimestamp[o]
  BY <1>2, <1>3, <1>4, <1>6 DEF Counts, SoundMsg, g
<1>11. /\ Quiet(s, k) \/ \E x : Heard(s, k, x)
       /\ g.maxLamport <= k.maxLamport
  <2>1. CASE k = g
    BY <1>4, <1>8, <2>1 DEF Quiet, Reached, g
  <2>2. CASE Overwrites(k, g, m)
    <3>1. ASSUME NEW x \in Known(s), SameKey(x, m) PROVE x = Says(m)
      <4>1. /\ x \in Known(m.replica) /\ Says(m) \in Known(m.replica)
            /\ SameKey(x, Says(m)) /\ x.replica = m.replica
        BY <1>1, <1>2, <3>1 DEF Authentic, SoundMsg, SameKey, Says
      <4> QED
        BY <1>1, <1>3, <4>1 DEF Authentic
    <3>2. Messages(k.list) = Known(s)
      BY <1>3, <1>8, <2>2, <3>1, ReplacedMessages DEF Overwrites
    <3>3. k.maxLamport = g.maxLamport
      BY <2>2 DEF Overwrites
    <3> QED
      BY <1>4, <3>2, <3>3 DEF Quiet, Reached, g
  <2>3. CASE Learns(k, g, m)
    <3>1. Messages(k.list) = Known(s) \cup {Says(m)}
      BY <1>8, <2>3, ExtendsMessages DEF Learns
    <3>2. /\ Says(m) \in Known(m.replica) /\ Reached(m.groupTimestamp)
          /\ m.lamport <= group[m.replica].maxLamport
      BY <1>1, <1>2, <1>3 DEF SoundMsg, Authentic, Says
    <3>3. CASE g.made
      <4>1. k.maxLamport = UpdateGroupLamport(g, m.lamport)
        BY <2>3, <3>3 DEF Learns
      <4>2. /\ g.maxLamport <= k.maxLamport /\ m.lamport <= k.maxLamport
            /\ k.maxLamport \in {g.maxLamport, m.lamport}
        BY <1>3, <1>4, <4>1 DEF UpdateGroupLamport, g
      <4>3. Reached(k.maxLamport)
        BY <1>3, <1>4, <3>2, <4>2 DEF Reached, g
      <4>4. Heard(s, k, Says(m))
        BY <1>3, <3>1, <3>2, <4>2, <4>3 DEF Heard, Says
      <4> QED
        BY <4>2, <4>4
    <3>4. CASE ~g.made
      <4>1. k.maxLamport = m.groupTimestamp /\ m.lamport <= k.maxLamport
        BY <1>2, <2>3, <3>4 DEF Learns
      <4>2. g.maxLamport = 0
        BY <1>1, <3>4, NoGroupOK DEF GroupOK, g
      <4>3. Heard(s, k, Says(m))
        BY <1>3, <3>1, <3>2, <4>1 DEF Heard, Says
      <4> QED
        BY <1>3, <4>1, <4>2, <4>3
    <3> QED
      BY <3>3, <3>4
  <2> QED
    BY <1>6, <2>1, <2>2, <2>3
<1>12. GroupStep(s, k)
  BY <1>6, <1>7, <1>9, <1>10, <1>11 DEF GroupStep, g
<1> QED
  BY <1>12 DEF GroupEffect

-----------------------------------------------------------------------------
(***************************************************************************)
(* Every action keeps the invariant, by its effect on the groups.          *)
(***************************************************************************)
\* What is left to show of an action when its effect on the groups is known.
LEMMA Assemble ==
    ASSUME Inv, GroupEffect,
           up' \subseteq Server,
           link' \in [Server -> [Server -> Link]],
           net' \in [Server -> [Server -> Seq(RequestType)]],
           \A s, t \in Server : net'[s][t] \in Seq(Sound(t)'),
           pc' \in [Client -> {"out", "joined", "posted", "sending", "ready"}],
           out' \in [Client -> RequestType \cup {NoRequest}],
           breaks' \in Nat,
           \A c \in Client : pc'[c] # pc[c] \/ out'[c] # out[c] => HandlerSound(c)'
    PROVE  Inv'
<1>1. /\ GroupsSound'
      /\ group' \in [Server -> GroupType]
      /\ \A s \in Server : PointersHold(group'[s].list)
      /\ posted' \in 0..MaxMsgs
      /\ \A c \in Client : pc'[c] = pc[c] /\ out'[c] = out[c] => HandlerSound(c)'
  BY EffectSound
<1>2. TypeOK'
  BY <1>1 DEF TypeOK
<1> QED
  BY <1>1, <1>2 DEF Inv

\* The streams after a step that sends nothing.
LEMMA NetKept ==
    ASSUME Inv, GroupEffect, NEW s \in Server, NEW t \in Server,
           \/ net'[s][t] = net[s][t]
           \/ net'[s][t] = <<>>
           \/ net[s][t] # <<>> /\ net'[s][t] = Tail(net[s][t])
    PROVE  net'[s][t] \in Seq(Sound(t)')
<1>1. net[s][t] \in Seq(Sound(t)')
  BY EffectSound
<1> QED
  BY <1>1, HeadTailProperties, EmptySeq

LEMMA PanicKeeps ==
    ASSUME Inv, NEW s \in Server, Panic(s)
    PROVE  GroupEffect /\ Inv'
<1>1. TypeOK
  BY DEF Inv
<1>2. GroupEffect
  BY DEF Panic, GroupEffect
<1>3. /\ net' \in [Server -> [Server -> Seq(RequestType)]]
      /\ \A t, u \in Server : net'[t][u] = net[t][u] \/ net'[t][u] = <<>>
  BY <1>1 DEF Panic, TypeOK
<1>4. link' \in [Server -> [Server -> Link]]
  BY <1>1 DEF Panic, TypeOK, Link
<1>5. \A t, u \in Server : net'[t][u] \in Seq(Sound(u)')
  BY <1>2, <1>3, NetKept
<1> QED
  BY <1>1, <1>2, <1>3, <1>4, <1>5, Assemble DEF Panic, TypeOK

LEMMA StreamKeeps ==
    ASSUME Inv, NEW s \in Server, NEW t \in Server,
           ReplicaSetUp(s, t) \/ Break(s, t) \/ Heal(s, t)
    PROVE  GroupEffect /\ Inv'
<1>1. TypeOK
  BY DEF Inv
<1>2. GroupEffect
  BY DEF ReplicaSetUp, Break, Heal, GroupEffect
<1>3. /\ net' \in [Server -> [Server -> Seq(RequestType)]]
      /\ \A u, v \in Server : net'[u][v] = net[u][v] \/ net'[u][v] = <<>>
  <2>1. CASE net' = net
    BY <1>1, <2>1 DEF TypeOK
  <2>2. CASE net' = [net EXCEPT ![s][t] = <<>>]
    <3>1. \A u, v \in Server : net'[u][v] = IF u = s /\ v = t THEN <<>> ELSE net[u][v]
      BY <1>1, <2>2 DEF TypeOK
    <3>2. net' \in [Server -> [Server -> Seq(RequestType)]]
      BY <1>1, <2>2 DEF TypeOK
    <3> QED
      BY <3>1, <3>2
  <2> QED
    BY <2>1, <2>2 DEF ReplicaSetUp, Break, Heal
<1>4. link' \in [Server -> [Server -> Link]] /\ breaks' \in Nat
  <2>1. breaks' \in Nat
    BY <1>1 DEF ReplicaSetUp, Break, Heal, TypeOK
  <2>2. \E x \in Link : link' = [link EXCEPT ![s][t] = x]
    BY DEF ReplicaSetUp, Break, Heal, Link
  <2>3. PICK x \in Link : link' = [link EXCEPT ![s][t] = x]
    BY <2>2
  <2>4. link' \in [Server -> [Server -> Link]]
    BY <1>1, <2>3 DEF TypeOK
  <2> QED
    BY <2>1, <2>4
<1>5. \A u, v \in Server : net'[u][v] \in Seq(Sound(v)')
  BY <1>2, <1>3, NetKept
<1>6. UNCHANGED <<up, pc, out>>
  BY DEF ReplicaSetUp, Break, Heal
<1> QED
  BY <1>1, <1>2, <1>3, <1>4, <1>5, <1>6, Assemble DEF TypeOK

LEMMA JoinKeeps ==
    ASSUME Inv, NEW c \in Client, Join(c)
    PROVE  GroupEffect /\ Inv'
<1> DEFINE s == Home[c]
<1>1. TypeOK /\ s \in Server
  BY HomeAssumption DEF Inv
<1>2. GroupEffect /\ group'[s].made
  BY <1>1, JoinEffect DEF Join
<1>3. /\ UNCHANGED <<up, link, net, out, posted, breaks>>
      /\ pc' = [pc EXCEPT ![c] = "joined"]
  BY DEF Join
<1>4. /\ pc' \in [Client -> {"out", "joined", "posted", "sending", "ready"}]
      /\ \A d \in Client : pc'[d] = IF d = c THEN "joined" ELSE pc[d]
  BY <1>1, <1>3 DEF TypeOK
<1>5. HandlerSound(c)'
  BY <1>2, <1>4 DEF HandlerSound
<1>6. \A u, v \in Server : net'[u][v] \in Seq(Sound(v)')
  BY <1>2, <1>3, EffectSound
<1> QED
  BY <1>1, <1>2, <1>3, <1>4, <1>5, <1>6, Assemble DEF TypeOK

LEMMA AppendMessageKeeps ==
    ASSUME Inv, NEW c \in Client, AppendMessage(c)
    PROVE  GroupEffect /\ Inv'
<1> DEFINE s == Home[c]
           x == NewMessage(group[s], s, posted + 1)
           req == UpdateMsg(s, 0, x, 0)
<1>1. TypeOK /\ s \in Server /\ HandlerSound(c)
  BY HomeAssumption DEF Inv
<1>2. CASE Panic(s)
  BY <1>1, <1>2, PanicKeeps
<1>3. CASE /\ group' = [group EXCEPT ![s] = Posted(@, s, posted + 1)]
           /\ out' = [out EXCEPT ![c] = req]
           /\ pc' = [pc EXCEPT ![c] = "posted"]
           /\ posted' = posted + 1
           /\ UNCHANGED <<up, link, net, breaks>>
  <2>1. group[s].made /\ posted < MaxMsgs
    BY <1>1 DEF AppendMessage, HandlerSound
  <2>2. GroupEffect /\ x \in Known(s)' /\ IsMessage(x) /\ group'[s].made
    BY <1>1, <1>3, <2>1, PostEffect
  <2>3. /\ req \in UpdateMsgType /\ req.from = s /\ req.replica = s
        /\ Says(req) = x
    BY <1>1, <2>2 DEF UpdateMsg, UpdateMsgType, Says, NewMessage, IsMessage
  <2> HIDE DEF req, x
  <2>4. /\ \A d \in Client : /\ pc'[d] = IF d = c THEN "posted" ELSE pc[d]
                             /\ out'[d] = IF d = c THEN req ELSE out[d]
        /\ pc' \in [Client -> {"out", "joined", "posted", "sending", "ready"}]
        /\ out' \in [Client -> RequestType \cup {NoRequest}]
    BY <1>1, <1>3, <2>3 DEF TypeOK, RequestType
  <2>5. HandlerSound(c)'
    BY <2>2, <2>3, <2>4 DEF HandlerSound
  <2>6. \A u, v \in Server : net'[u][v] \in Seq(Sound(v)')
    BY <1>3, <2>2, EffectSound
  <2> QED
    BY <1>1, <1>3, <2>2, <2>4, <2>5, <2>6, Assemble DEF TypeOK
<1> QED
  BY <1>2, <1>3 DEF AppendMessage

LEMMA BuildKeeps ==
    ASSUME Inv, NEW c \in Client, BuildUpdateMsg(c) \/ BuildGroupInfo(c)
    PROVE  GroupEffect /\ Inv'
<1> DEFINE s == Home[c]
<1>1. TypeOK /\ GroupsSound /\ s \in Server /\ HandlerSound(c) /\ out[c] \in RequestType \cup {NoRequest}
  BY HomeAssumption DEF Inv, TypeOK
<1>2. /\ group[s].msgTimestamp[s] \in Nat /\ group[s].maxLamport \in Nat
      /\ group[s].nameTimestamp[s] \in Nat
  BY <1>1 DEF TypeOK, GroupType
<1>3. /\ UNCHANGED <<up, group, link, net, posted, breaks>>
      /\ pc' = [pc EXCEPT ![c] = "sending"]
  BY DEF BuildUpdateMsg, BuildGroupInfo
<1>4. GroupEffect /\ GroupsSound'
  <2>1. GroupEffect
    BY <1>3 DEF GroupEffect
  <2> QED
    BY <2>1, EffectSound
<1>5. group[s].made /\ Known(s)' = Known(s)
  BY <1>1, <1>3 DEF HandlerSound, Known, BuildUpdateMsg, BuildGroupInfo
<1>6. ASSUME NEW req, req \in RequestType, out' = [out EXCEPT ![c] = req],
             (SoundMsg(req)' /\ req.lamport <= req.groupTimestamp) \/ SoundNames(req)'
      PROVE  Inv'
  <2>1. /\ \A d \in Client : /\ pc'[d] = IF d = c THEN "sending" ELSE pc[d]
                             /\ out'[d] = IF d = c THEN req ELSE out[d]
        /\ pc' \in [Client -> {"out", "joined", "posted", "sending", "ready"}]
        /\ out' \in [Client -> RequestType \cup {NoRequest}]
    BY <1>1, <1>3, <1>6 DEF TypeOK
  <2>2. HandlerSound(c)'
    BY <1>3, <1>5, <1>6, <2>1 DEF HandlerSound
  <2>3. \A u, v \in Server : net'[u][v] \in Seq(Sound(v)')
    BY <1>3, <1>4, EffectSound
  <2> QED
    BY <1>1, <1>3, <1>4, <2>1, <2>2, <2>3, Assemble DEF TypeOK
<1>7. CASE BuildUpdateMsg(c)
  <2> DEFINE m == out[c]
  <2>1. /\ m \in UpdateMsgType /\ m.from = s /\ m.replica = s /\ Says(m) \in Known(s)
    BY <1>1, <1>7 DEF BuildUpdateMsg, HandlerSound
  <2>2. PICK req : req = [m EXCEPT !.index = group[s].msgTimestamp[s],
                                   !.groupTimestamp = group[s].maxLamport]
    OBVIOUS
  <2>3. /\ req \in UpdateMsgType /\ req.from = s /\ req.replica = s
        /\ Says(req) = Says(m) /\ req.lamport = m.lamport
        /\ req.index = group[s].msgTimestamp[s]
        /\ req.groupTimestamp = group[s].maxLamport
    BY <1>2, <2>1, <2>2 DEF UpdateMsgType, Says
  <2>4. m.lamport <= group[s].maxLamport
    BY <1>1, <2>1 DEF GroupsSound, Authentic, Says
  <2>5. out' = [out EXCEPT ![c] = req]
    BY <1>1, <1>7, <2>2 DEF BuildUpdateMsg, TypeOK
  <2> HIDE DEF m
  <2>6. Reached(req.groupTimestamp)'
    BY <1>1, <1>2, <1>3, <2>3 DEF Reached
  <2>7. SoundMsg(req)' /\ req.lamport <= req.groupTimestamp
    BY <1>1, <1>2, <1>3, <1>5, <2>1, <2>3, <2>4, <2>6 DEF SoundMsg
  <2>8. req \in RequestType
    BY <2>3 DEF RequestType
  <2> QED
    BY <1>4, <1>6, <2>5, <2>7, <2>8
<1>8. CASE BuildGroupInfo(c)
  <2>1. PICK req : req = SendGroupInfo(s, group[s])
    OBVIOUS
  <2>2. req \in SendGroupInfoType /\ req.groupTimestamp = group[s].maxLamport
    BY <1>1, <1>2, <2>1 DEF SendGroupInfo, SendGroupInfoType
  <2>3. out' = [out EXCEPT ![c] = req]
    BY <1>8, <2>1 DEF BuildGroupInfo
  <2>4. Reached(req.groupTimestamp)'
    BY <1>1, <1>2, <1>3, <2>2 DEF Reached
  <2>5. SoundNames(req)' /\ req \in RequestType
    BY <2>2, <2>4 DEF SoundNames, RequestType
  <2> QED
    BY <1>4, <1>6, <2>3, <2>5
<1> QED
  BY <1>7, <1>8

LEMMA BroadcastKeeps ==
    ASSUME Inv, NEW c \in Client, Broadcast(c)
    PROVE  GroupEffect /\ Inv'
<1> DEFINE s == Home[c]
           req == out[c]
           reqs == [t \in Server |-> <<req>>]
<1>1. TypeOK /\ s \in Server /\ HandlerSound(c)
  BY HomeAssumption DEF Inv
<1>2. /\ UNCHANGED <<up, group, posted, breaks>>
      /\ pc[c] = "sending"
      /\ pc' = [pc EXCEPT ![c] = "ready"]
      /\ out' = [out EXCEPT ![c] = NoRequest]
      /\ Send(s, reqs, net)
  BY DEF Broadcast, ReplicaBroadcast
<1>3. GroupEffect
  BY <1>2 DEF GroupEffect
<1>4. ASSUME NEW t \in Server PROVE req \in Sound(t)'
  <2>1. req \in Sound(t)
    BY <1>1, <1>2 DEF HandlerSound, Sound, SoundMsg, SoundNames, RequestType
  <2> QED
    BY <1>3, <2>1, EffectSound
<1>5. ASSUME NEW t \in Server PROVE reqs[t] \in Seq(Sound(t)')
  <2>1. reqs[t] = <<req>>
    OBVIOUS
  <2> HIDE DEF req, reqs
  <2> QED
    BY <1>4, <2>1
<1>6. \A u, v \in Server : net[u][v] \in Seq(Sound(v)')
  BY <1>3, EffectSound
<1> HIDE DEF req, reqs, s
<1>7. /\ link' \in [Server -> [Server -> Link]]
      /\ net' \in [Server -> [Server -> Seq(RequestType)]]
      /\ \A u, v \in Server : net'[u][v] \in Seq(Sound(v)')
  BY <1>1, <1>2, <1>5, <1>6, SendSound DEF TypeOK
<1>8. /\ \A d \in Client : /\ pc'[d] = IF d = c THEN "ready" ELSE pc[d]
                           /\ out'[d] = IF d = c THEN NoRequest ELSE out[d]
      /\ pc' \in [Client -> {"out", "joined", "posted", "sending", "ready"}]
      /\ out' \in [Client -> RequestType \cup {NoRequest}]
  BY <1>1, <1>2 DEF TypeOK
<1>9. HandlerSound(c)'
  BY <1>1, <1>2, <1>8 DEF HandlerSound, s
<1> QED
  BY <1>1, <1>2, <1>3, <1>7, <1>8, <1>9, Assemble DEF TypeOK

LEMMA EntropyKeeps ==
    ASSUME Inv, NEW s \in Server, Entropy(s)
    PROVE  GroupEffect /\ Inv'
<1> DEFINE req == CheckForMerge(s, group[s])
           reqs == [t \in Server |-> <<req>>]
<1>1. TypeOK
  BY DEF Inv
<1>2. /\ UNCHANGED <<up, group, pc, out, posted, breaks>>
      /\ group[s].made
      /\ Send(s, reqs, net)
  BY DEF Entropy, ReplicaBroadcast
<1>3. GroupEffect
  BY <1>2 DEF GroupEffect
<1>4. req \in CheckForMergeType /\ req.replica = s
  BY <1>1 DEF TypeOK, GroupType, CheckForMerge, CheckForMergeType
<1> HIDE DEF req
<1>5. ASSUME NEW t \in Server PROVE reqs[t] \in Seq(Sound(t)')
  <2>1. req \in Sound(t)
    BY <1>2, <1>4 DEF Sound, RequestType
  <2>2. req \in Sound(t)'
    BY <1>3, <2>1, EffectSound
  <2> QED
    BY <2>2
<1> HIDE DEF reqs
<1>6. /\ link' \in [Server -> [Server -> Link]]
      /\ net' \in [Server -> [Server -> Seq(RequestType)]]
      /\ \A u, v \in Server : net'[u][v] \in Seq(Sound(v)')
  <2>1. \A u, v \in Server : net[u][v] \in Seq(Sound(v)')
    BY <1>3, EffectSound
  <2> QED
    BY <1>1, <1>2, <1>5, <2>1, SendSound DEF TypeOK
<1> QED
  BY <1>1, <1>2, <1>3, <1>6, Assemble DEF TypeOK

\* The request at the head of a stream, and the streams when it is taken off.
LEMMA TakenSound ==
    ASSUME Inv, NEW s \in Server, NEW t \in Server, net[s][t] # <<>>
    PROVE  /\ Head(net[s][t]) \in Sound(t)
           /\ Handled(s, t) \in [Server -> [Server -> Seq(RequestType)]]
           /\ \A u, v \in Server : Handled(s, t)[u][v] \in Seq(Sound(v))
<1>1. TypeOK /\ \A u, v \in Server : net[u][v] \in Seq(Sound(v))
  BY DEF Inv
<1>2. Head(net[s][t]) \in Sound(t) /\ Tail(net[s][t]) \in Seq(Sound(t))
  BY <1>1, HeadTailProperties
<1>3. Tail(net[s][t]) \in Seq(RequestType)
  <2>1. Sound(t) \subseteq RequestType
    BY DEF Sound
  <2> QED
    BY <1>2, <2>1, SeqMonotonic
<1>4. Handled(s, t) = [net EXCEPT ![s][t] = Tail(net[s][t])]
  BY <1>1 DEF Handled, TypeOK
<1>5. Handled(s, t) \in [Server -> [Server -> Seq(RequestType)]]
  BY <1>1, <1>3, <1>4 DEF TypeOK
<1>6. \A u, v \in Server : Handled(s, t)[u][v] =
            IF u = s /\ v = t THEN Tail(net[s][t]) ELSE net[u][v]
  BY <1>1, <1>4 DEF TypeOK
<1> QED
  BY <1>1, <1>2, <1>5, <1>6

LEMMA ReceiveUpdateMsgKeeps ==
    ASSUME Inv, NEW s \in Server, NEW t \in Server, ReceiveUpdateMsg(s, t)
    PROVE  GroupEffect /\ Inv'
<1> DEFINE m == Head(net[s][t])
<1>1. TypeOK /\ m \in Sound(t) /\ m.kind = "UpdateMsg"
  BY TakenSound DEF Inv, ReceiveUpdateMsg, Takes
<1>2. CASE Panic(t)
  BY <1>2, PanicKeeps
<1>3. CASE /\ group' = [group EXCEPT ![t] = MsgInserted(@, m)]
           /\ net' = Handled(s, t)
           /\ UNCHANGED <<up, link, pc, out, posted, breaks>>
  <2>1. GroupEffect
    BY <1>1, <1>3, InsertEffect
  <2>2. /\ net' \in [Server -> [Server -> Seq(RequestType)]]
        /\ \A u, v \in Server : net'[u][v] \in Seq(Sound(v))
    BY <1>3, TakenSound DEF ReceiveUpdateMsg, Takes
  <2>3. \A u, v \in Server : net'[u][v] \in Seq(Sound(v)')
    BY <2>1, <2>2, EffectSound, SeqMonotonic
  <2> QED
    BY <1>1, <1>3, <2>1, <2>2, <2>3, Assemble DEF TypeOK
<1> QED
  BY <1>2, <1>3 DEF ReceiveUpdateMsg

LEMMA ReceiveSendGroupInfoKeeps ==
    ASSUME Inv, NEW s \in Server, NEW t \in Server, ReceiveSendGroupInfo(s, t)
    PROVE  GroupEffect /\ Inv'
<1> DEFINE m == Head(net[s][t])
<1>1. TypeOK /\ m \in Sound(t) /\ m.kind = "SendGroupInfo"
  BY TakenSound DEF Inv, ReceiveSendGroupInfo, Takes
<1>2. /\ group' = [group EXCEPT ![t] = NamesInserted(@, m)]
      /\ net' = Handled(s, t)
      /\ UNCHANGED <<up, link, pc, out, posted, breaks>>
  BY DEF ReceiveSendGroupInfo
<1>3. GroupEffect
  BY <1>1, <1>2, NamesEffect
<1>4. /\ net' \in [Server -> [Server -> Seq(RequestType)]]
      /\ \A u, v \in Server : net'[u][v] \in Seq(Sound(v))
  BY <1>2, TakenSound DEF ReceiveSendGroupInfo, Takes
<1>5. \A u, v \in Server : net'[u][v] \in Seq(Sound(v)')
  BY <1>3, <1>4, EffectSound, SeqMonotonic
<1> QED
  BY <1>1, <1>2, <1>3, <1>4, <1>5, Assemble DEF TypeOK

\* All a server sends back to a requester is sound there.
LEMMA AnswersSound ==
    ASSUME Inv, NEW t \in Server, NEW o \in Server,
           NEW u \in Server, group[u].made
    PROVE  Answers(group[t], o) \subseteq Sound(u)
<1>1. /\ GroupsSound /\ Authentic
      /\ \A v, w \in Server : /\ group[v].maxLamport \in Nat
                              /\ group[v].msgTimestamp[w] \in Nat
                              /\ group[v].msgTimestamp[w] <= group[w].msgTimestamp[w]
  BY GroupParts DEF Inv, GroupsSound, AckNotAhead
<1>2. ASSUME NEW r \in SendGroupInfoType, r.groupTimestamp = group[t].maxLamport
      PROVE  r \in Sound(u)
  BY <1>1, <1>2 DEF Sound, SoundNames, Reached, RequestType
<1>3. ASSUME NEW r \in UpdateMsgType,
             r.from = o, r.index \in 1..group[t].msgTimestamp[o], r.groupTimestamp = 0,
             Says(r) = Says(NodeFiled(group[t], o, r.index))
      PROVE  r \in Sound(u)
  <2>1. r.index \in Nat /\ r.replica \in Server
    BY DEF UpdateMsgType
  <2>2. r.index <= group[o].msgTimestamp[o]
    BY <1>1, <1>3, <2>1
  <2>3. Says(r) \in Known(t)
    BY <1>1, <1>3 DEF GroupOK, LogHeld, NodeFiled, Known, Messages, GroupsSound
  <2>4. Says(r) \in Known(r.replica)
    BY <1>1, <2>3 DEF Authentic, Says
  <2>5. Reached(r.groupTimestamp)
    BY <1>1, <1>3 DEF Reached
  <2> QED
    BY <1>3, <2>2, <2>4, <2>5 DEF Sound, SoundMsg, RequestType
<1> QED
  BY <1>2, <1>3 DEF Answers

\* The streams while the request at the head of one of them is handled: one of
\* its origins is done, or the whole request.
LEMMA RestSound ==
    ASSUME Inv, NEW s \in Server, NEW t \in Server, NEW o,
           net[s][t] # <<>>, Head(net[s][t]) \in CheckForMergeType,
           NEW q, q = Handled(s, t) \/ q = [net EXCEPT ![s][t][1].todo = @ \ {o}]
    PROVE  /\ q \in [Server -> [Server -> Seq(RequestType)]]
           /\ \A u, v \in Server : q[u][v] \in Seq(Sound(v))
<1>1. CASE q = Handled(s, t)
  BY <1>1, TakenSound
<1>2. CASE q = [net EXCEPT ![s][t][1].todo = @ \ {o}]
  <2> DEFINE m == Head(net[s][t])
             r == [m EXCEPT !.todo = @ \ {o}]
             stream == [net[s][t] EXCEPT ![1] = r]
  <2>1. TypeOK /\ \A u, v \in Server : net[u][v] \in Seq(Sound(v))
    BY DEF Inv
  <2>2. m \in Sound(t) /\ m = net[s][t][1] /\ 1 \in 1..Len(net[s][t])
    <3>1. net[s][t] \in Seq(Sound(t))
      BY <2>1
    <3> QED
      BY <3>1, TakenSound, EmptySeq
  <2>3. group[m.replica].made
    BY <2>2 DEF Sound, SoundMsg, SoundNames, UpdateMsgType, SendGroupInfoType,
                CheckForMergeType
  <2>4. r \in CheckForMergeType /\ r.replica = m.replica
    BY DEF CheckForMergeType
  <2>5. r \in Sound(t)
    BY <2>3, <2>4 DEF Sound, RequestType
  <2>6. q = [net EXCEPT ![s][t] = stream]
    BY <1>2, <2>1, <2>2 DEF TypeOK
  <2> HIDE DEF r
  <2>7. stream \in Seq(Sound(t))
    BY <2>1, <2>2, <2>5, ExceptSeq
  <2> HIDE DEF stream
  <2>8. stream \in Seq(RequestType)
    <3>1. Sound(t) \subseteq RequestType
      BY DEF Sound
    <3> QED
      BY <2>7, <3>1, SeqMonotonic
  <2>9. /\ q \in [Server -> [Server -> Seq(RequestType)]]
        /\ \A u, v \in Server : q[u][v] = IF u = s /\ v = t THEN stream ELSE net[u][v]
    BY <2>1, <2>6, <2>8 DEF TypeOK
  <2> QED
    BY <2>1, <2>7, <2>9
<1> QED
  BY <1>1, <1>2

LEMMA ReceiveCheckForMergeKeeps ==
    ASSUME Inv, NEW s \in Server, NEW t \in Server, ReceiveCheckForMerge(s, t)
    PROVE  GroupEffect /\ Inv'
<1> DEFINE m == Head(net[s][t])
           rest(o) == IF m.todo = {o} THEN Handled(s, t)
                      ELSE [net EXCEPT ![s][t][1].todo = @ \ {o}]
           reqs(o) == [u \in Server |-> IF u = m.replica THEN Missing(group[t], m, o)
                                        ELSE <<>>]
<1>1. /\ TypeOK /\ GroupsSound
      /\ net[s][t] # <<>> /\ m \in Sound(t) /\ m.kind = "CheckForMerge"
  BY TakenSound DEF Inv, ReceiveCheckForMerge, Takes
<1>2. m \in CheckForMergeType /\ group[m.replica].made /\ m.replica \in Server
  BY <1>1 DEF Sound, SoundMsg, SoundNames, UpdateMsgType, SendGroupInfoType,
              CheckForMergeType
<1>3. UNCHANGED <<up, group, pc, out, posted, breaks>>
  BY DEF ReceiveCheckForMerge
<1>4. GroupEffect
  BY <1>3 DEF GroupEffect
<1>5. PICK o \in m.todo :
        \/ /\ net' = rest(o)
           /\ UNCHANGED <<up, link>>
        \/ Send(t, reqs(o), rest(o))
  BY DEF ReceiveCheckForMerge
<1>6. o \in Server
  BY <1>2, <1>5 DEF CheckForMergeType
<1>7. /\ rest(o) \in [Server -> [Server -> Seq(RequestType)]]
      /\ \A u, v \in Server : rest(o)[u][v] \in Seq(Sound(v))
  BY <1>1, <1>2, RestSound
<1>8. \A u, v \in Server : rest(o)[u][v] \in Seq(Sound(v)')
  <2> HIDE DEF rest
  <2> QED
    BY <1>4, <1>7, EffectSound, SeqMonotonic
<1>9. ASSUME NEW u \in Server PROVE reqs(o)[u] \in Seq(Sound(u)')
  <2>1. CASE u = m.replica
    <3>1. Missing(group[t], m, o) \in Seq(Answers(group[t], o))
      BY <1>1, <1>2, <1>6, MissingAnswers DEF GroupsSound
    <3>2. Answers(group[t], o) \subseteq Sound(u)'
      BY <1>2, <1>4, <1>6, <2>1, AnswersSound, EffectSound
    <3>3. Missing(group[t], m, o) \in Seq(Sound(u)')
      BY <3>1, <3>2, SeqMonotonic
    <3> QED
      BY <2>1, <3>3
  <2>2. CASE u # m.replica
    BY <2>2, EmptySeq
  <2> QED
    BY <2>1, <2>2
<1>10. /\ link' \in [Server -> [Server -> Link]]
       /\ net' \in [Server -> [Server -> Seq(RequestType)]]
       /\ \A u, v \in Server : net'[u][v] \in Seq(Sound(v)')
  <2>1. CASE net' = rest(o) /\ UNCHANGED <<up, link>>
    <3> HIDE DEF rest
    <3> QED
      BY <1>1, <1>7, <1>8, <2>1 DEF TypeOK
  <2>2. CASE Send(t, reqs(o), rest(o))
    <3>1. link \in [Server -> [Server -> Link]]
      BY <1>1 DEF TypeOK
    <3> HIDE DEF rest, reqs
    <3> QED
      BY <1>7, <1>8, <1>9, <2>2, <3>1, SendSound
  <2> QED
    BY <1>5, <2>1, <2>2
<1> QED
  BY <1>1, <1>3, <1>4, <1>10, Assemble DEF TypeOK

LEMMA CheckForMergePanicsKeeps ==
    ASSUME Inv, NEW s \in Server, NEW t \in Server, CheckForMergePanics(s, t)
    PROVE  GroupEffect /\ Inv'
  BY PanicKeeps DEF CheckForMergePanics

\* No action changes the groups otherwise, and every action keeps Inv.
LEMMA NextKeeps ==
    ASSUME Inv, [Next]_vars
    PROVE  GroupEffect /\ Inv'
<1>1. CASE UNCHANGED vars
  <2>1. GroupEffect
    BY <1>1 DEF vars, GroupEffect
  <2>2. \A s, t \in Server : net'[s][t] \in Seq(Sound(t)')
    BY <1>1, <2>1, EffectSound DEF vars
  <2> QED
    BY <1>1, <2>1, <2>2, Assemble DEF vars, Inv, TypeOK
<1>2. ASSUME NEW c \in Client, ClientStep(c)
      PROVE  GroupEffect /\ Inv'
  BY <1>2, JoinKeeps, AppendMessageKeeps, BuildKeeps, BroadcastKeeps DEF ClientStep
<1>3. ASSUME NEW s \in Server, Entropy(s)
      PROVE  GroupEffect /\ Inv'
  BY <1>3, EntropyKeeps
<1>4. ASSUME NEW s \in Server, NEW t \in Server,
             ReplicaSetUp(s, t) \/ Break(s, t) \/ Heal(s, t)
      PROVE  GroupEffect /\ Inv'
  BY <1>4, StreamKeeps
<1>5. ASSUME NEW s \in Server, NEW t \in Server, Receive(s, t)
      PROVE  GroupEffect /\ Inv'
  BY <1>5, ReceiveUpdateMsgKeeps, ReceiveSendGroupInfoKeeps,
     ReceiveCheckForMergeKeeps, CheckForMergePanicsKeeps DEF Receive
<1> QED
  BY <1>1, <1>2, <1>3, <1>4, <1>5 DEF Next

LEMMA InitInv == Init => Inv
<1> SUFFICES ASSUME Init PROVE Inv
  OBVIOUS
<1>1. /\ \A s \in Server : group[s] = NoGroup
      /\ group \in [Server -> GroupType]
      /\ posted = 0 /\ posted \in 0..MaxMsgs
  BY NoGroupOK, MaxMsgsAssumption DEF Init, GroupOK
<1>2. \A s \in Server : /\ Known(s) = {}
                        /\ \A o \in Server : group[s].msgTimestamp[o] = 0
                        /\ PointersHold(group[s].list)
  BY <1>1, NoGroupOK, EmptyMessages DEF Known, GroupOK
<1>3. GroupsSound
  BY <1>1, <1>2, NoGroupOK DEF GroupsSound, AckNotAhead, Authentic
<1>4. /\ \A s, t \in Server : net[s][t] = <<>>
      /\ net \in [Server -> [Server -> Seq(RequestType)]]
      /\ link \in [Server -> [Server -> Link]]
  BY EmptySeq DEF Init, Link
<1>5. TypeOK
  BY <1>1, <1>2, <1>4 DEF Init, TypeOK
<1>6. \A s, t \in Server : net[s][t] \in Seq(Sound(t))
  BY <1>4, EmptySeq
<1>7. \A c \in Client : HandlerSound(c)
  BY DEF Init, HandlerSound
<1> QED
  BY <1>3, <1>5, <1>6, <1>7 DEF Inv

-----------------------------------------------------------------------------
(***************************************************************************)
(* Theorems.                                                               *)
(***************************************************************************)
\* The invariant holds in every state of every behaviour, for any number of
\* servers and clients, any bounds and any size of the screen: whatever streams
\* break, servers panic and requests interleave.
THEOREM Invariance == Spec => []Inv
<1>1. Inv /\ [Next]_vars => Inv'
  BY NextKeeps
<1> QED
  BY <1>1, InitInv, PTL DEF Spec

\* Every variable keeps its shape, and every pointer of a list is nil or a node.
THEOREM TypeCorrect == Spec => []TypeOK
<1>1. Inv => TypeOK
  BY DEF Inv
<1> QED
  BY <1>1, Invariance, PTL

\* CheckForMerge never finds a missing entry among the messages it sends back.
THEOREM LogIsPrefix == Spec => []LogPrefix
<1>1. Inv => LogPrefix
  BY DEF Inv, GroupsSound, GroupOK, LogHeld, LogPrefix
<1> QED
  BY <1>1, Invariance, PTL

\* No server ever counts a message its origin has not posted.
THEOREM NeverAhead == Spec => []AckNotAhead
<1>1. Inv => AckNotAhead
  BY DEF Inv, GroupsSound
<1> QED
  BY <1>1, Invariance, PTL

\* Lamport and Replica identify a message on all servers together, in spite of
\* handlers that read the counters after they have released the mutex.
THEOREM KeysIdentify == Spec => []Identity
<1>1. Inv => Identity
  <2> SUFFICES ASSUME Inv, NEW s \in Server, NEW t \in Server,
                      NEW m \in Nodes(group[s].list), NEW n \in Nodes(group[t].list),
                      SameKey(group[s].list.node[m], group[t].list.node[n])
               PROVE  group[s].list.node[m].content = group[t].list.node[n].content
    BY DEF Identity
  <2> DEFINE x == Says(group[s].list.node[m])
             y == Says(group[t].list.node[n])
  <2>1. x \in Known(s) /\ y \in Known(t) /\ SameKey(x, y)
    BY DEF Known, Messages, SameKey, Says
  <2>2. GroupsSound /\ Authentic
    BY DEF Inv, GroupsSound
  <2>3. x.replica \in Server
    BY <2>1, <2>2, GroupParts DEF GroupsSound, Known
  <2>4. x \in Known(x.replica) /\ y \in Known(x.replica)
    BY <2>1, <2>2 DEF Authentic, SameKey
  <2>5. x = y
    BY <2>1, <2>2, <2>3, <2>4 DEF Authentic
  <2> QED
    BY <2>5 DEF Says
<1> QED
  BY <1>1, Invariance, PTL

\* A message is posted above everything its server keeps, and so sorts after all
\* that its author may have read.
THEOREM PostedLast == Spec => Causality
<1> DEFINE Above(s) ==
        group'[s].msgTimestamp[s] > group[s].msgTimestamp[s] =>
            \A n \in Nodes(group[s].list) :
                group[s].list.node[n].lamport
                    < group'[s].list.node[Len(group'[s].list.node)].lamport
<1>1. ASSUME Inv, [Next]_vars, NEW s \in Server
      PROVE  Above(s)
  <2>1. /\ GroupEffect /\ GroupsSound /\ Authentic
        /\ group \in [Server -> GroupType]
        /\ group[s].msgTimestamp[s] \in Nat /\ group[s].maxLamport \in Nat
    BY <1>1, NextKeeps, GroupParts DEF Inv, GroupsSound, TypeOK
  <2>2. CASE group'[s] = group[s]
    BY <2>1, <2>2
  <2>3. ASSUME NEW k, GroupStep(s, k)
        PROVE  Above(s)
    <3>1. group'[s] = k
      BY <2>1, <2>3 DEF GroupStep
    <3>2. CASE k.msgTimestamp[s] = group[s].msgTimestamp[s]
      BY <2>1, <3>1, <3>2
    <3>3. CASE Said(s, k)
      <4>1. ASSUME NEW n \in Nodes(group[s].list)
            PROVE  /\ group[s].list.node[n].lamport \in Nat
                   /\ group[s].list.node[n].lamport <= group[s].maxLamport
        <5>1. Says(group[s].list.node[n]) \in Known(s)
          BY DEF Known, Messages
        <5> QED
          BY <2>1, <5>1, GroupParts DEF Authentic, GroupsSound, Known, Says
      <4>2. k.list.node[Len(k.list.node)].lamport = group[s].maxLamport + 1
        BY <3>3 DEF Said, Says, NewMessage
      <4> QED
        BY <2>1, <3>1, <4>1, <4>2
    <3> QED
      BY <2>3, <3>2, <3>3 DEF GroupStep
  <2>4. CASE \E t \in Server \ {s} : \E k : GroupStep(t, k)
    BY <2>1, <2>2, <2>4 DEF GroupStep
  <2> QED
    BY <2>1, <2>2, <2>3, <2>4 DEF GroupEffect
<1>2. Inv /\ [Next]_vars => [\A s \in Server : Above(s)]_vars
  BY <1>1
<1> QED
  BY <1>2, Invariance, PTL DEF Spec, Causality

\* What server s has counted stays counted, and filed where it is.
IndexesKept(s) ==
    \A o \in Server : \A i \in 1..group[s].msgTimestamp[o] :
        /\ group'[s].msgTimestamp[o] >= i
        /\ group'[s].messageLamport[o][i] = group[s].messageLamport[o][i]
        /\ SameKey(group'[s].list.node[group[s].messageLamport[o][i]],
                   group[s].list.node[group[s].messageLamport[o][i]])

LEMMA IndexesStay ==
    ASSUME Inv, [Next]_vars, NEW s \in Server
    PROVE  IndexesKept(s)
<1>1. /\ GroupEffect /\ GroupOK(group[s]) /\ LogHeld(group[s])
      /\ group \in [Server -> GroupType]
      /\ \A o \in Server : group[s].msgTimestamp[o] \in Nat
  BY NextKeeps, GroupParts DEF Inv, GroupsSound, TypeOK, GroupOK
<1>2. ASSUME group'[s] = group[s] PROVE IndexesKept(s)
  BY <1>1, <1>2 DEF SameKey, IndexesKept
<1>3. ASSUME NEW k, GroupStep(s, k)
      PROVE  IndexesKept(s)
  <2>1. group'[s] = k /\ Settled(k, group[s])
    BY <1>1, <1>3 DEF GroupStep
  <2>2. \A o \in Server : /\ k.msgTimestamp[o] \in Nat
                          /\ group[s].msgTimestamp[o] <= k.msgTimestamp[o]
    BY <1>1, <1>3, GroupParts DEF GroupStep
  <2> SUFFICES ASSUME NEW o \in Server, NEW i \in 1..group[s].msgTimestamp[o]
               PROVE  /\ k.msgTimestamp[o] >= i
                      /\ k.messageLamport[o][i] = group[s].messageLamport[o][i]
                      /\ SameKey(k.list.node[group[s].messageLamport[o][i]],
                                 group[s].list.node[group[s].messageLamport[o][i]])
    BY <2>1 DEF IndexesKept
  <2>3. group[s].messageLamport[o][i] \in Nodes(group[s].list)
    BY <1>1 DEF LogHeld
  <2> QED
    BY <1>1, <2>1, <2>2, <2>3 DEF Settled
<1>4. ASSUME \E t \in Server \ {s} : \E k : GroupStep(t, k)
      PROVE  IndexesKept(s)
  BY <1>1, <1>2, <1>4 DEF GroupStep
<1> QED
  BY <1>1, <1>2, <1>3, <1>4 DEF GroupEffect

\* An index below the counter of its origin names the same message for good.
THEOREM IndexesSettled == Spec => FiledForGood
<1>1. Inv /\ [Next]_vars =>
        [\A s, o \in Server : \A i \in 1..group[s].msgTimestamp[o] :
            /\ group'[s].msgTimestamp[o] >= i
            /\ group'[s].messageLamport[o][i] = group[s].messageLamport[o][i]
            /\ SameKey(group'[s].list.node[group[s].messageLamport[o][i]],
                       group[s].list.node[group[s].messageLamport[o][i]])]_vars
  BY IndexesStay DEF IndexesKept
<1> QED
  BY <1>1, Invariance, PTL DEF Spec, FiledForGood

-----------------------------------------------------------------------------
(***************************************************************************)
(* The refinement of LamportGossip.                                        *)
(***************************************************************************)
KnownBy == [s \in Server |-> Known(s)]
ClockOf == [s \in Server |-> group[s].maxLamport]

\* What a step of one server's group is in the abstract specification.
LEMMA GroupStepGossips ==
    ASSUME Inv, NEW s \in Server, NEW k, GroupStep(s, k)
    PROVE  Gossip!Next
<1>1. /\ GroupsSound /\ Authentic
      /\ group \in [Server -> GroupType]
      /\ posted \in Nat
  BY DEF Inv, GroupsSound, TypeOK
<1>2. /\ KnownBy' = [KnownBy EXCEPT ![s] = Messages(k.list)]
      /\ ClockOf' = [ClockOf EXCEPT ![s] = k.maxLamport]
      /\ KnownBy[s] = Known(s) /\ ClockOf[s] = group[s].maxLamport
  <2>1. \A t \in Server : group'[t] = IF t = s THEN k ELSE group[t]
    BY <1>1 DEF GroupStep
  <2>2. \A t \in Server : Known(t)' = IF t = s THEN Messages(k.list) ELSE Known(t)
    BY <2>1 DEF Known
  <2> QED
    BY <2>1, <2>2 DEF KnownBy, ClockOf
<1>3. \A t \in Server : group[t].maxLamport \in Nat /\ k.maxLamport \in Nat
  BY <1>1, GroupParts DEF GroupsSound, GroupStep
<1>4. ASSUME Reached(k.maxLamport)
      PROVE  /\ Gossip!Advances(s)
             /\ ClockOf'[s] = k.maxLamport
  <2>1. PICK t \in Server : k.maxLamport <= group[t].maxLamport
    BY <1>4 DEF Reached
  <2>2. ClockOf'[s] = k.maxLamport
    BY <1>2 DEF ClockOf
  <2>3. /\ ClockOf[s] <= ClockOf'[s]
        /\ ClockOf'[s] <= ClockOf[t]
        /\ ClockOf' = [ClockOf EXCEPT ![s] = ClockOf'[s]]
    BY <1>2, <2>1, <2>2 DEF GroupStep, ClockOf
  <2> QED
    BY <2>2, <2>3 DEF Gossip!Advances, ClockOf
<1>5. ASSUME Messages(k.list) = Known(s), Reached(k.maxLamport)
      PROVE  Gossip!CatchUp(s)
  <2>1. KnownBy' = KnownBy
    BY <1>2, <1>5 DEF KnownBy
  <2> QED
    BY <1>4, <1>5, <2>1 DEF Gossip!CatchUp, KnownBy
<1>6. CASE Quiet(s, k)
  BY <1>5, <1>6 DEF Quiet, Gossip!Next
<1>7. ASSUME NEW x, Heard(s, k, x)
      PROVE  Gossip!CatchUp(s) \/ Gossip!Learn(s)
  <2>1. CASE x \in Known(s)
    BY <1>5, <1>7, <2>1 DEF Heard
  <2>2. CASE x \notin Known(s)
    <3>1. /\ x \in KnownBy[x.replica]
          /\ x \notin KnownBy[s]
          /\ KnownBy' = [KnownBy EXCEPT ![s] = @ \cup {x}]
      BY <1>2, <1>7, <2>2 DEF Heard, KnownBy
    <3>2. Gossip!Advances(s) /\ ClockOf'[s] >= x.lamport
      <4>1. x.lamport \in Nat
        BY <1>1, <1>7, GroupParts DEF Heard, GroupsSound, Known
      <4> QED
        BY <1>3, <1>4, <1>7, <4>1 DEF Heard
    <3> QED
      BY <1>7, <3>1, <3>2 DEF Gossip!Learn, Heard, KnownBy, ClockOf
  <2> QED
    BY <2>1, <2>2
<1>8. CASE Said(s, k)
  <2> DEFINE x == NewMessage(group[s], s, posted + 1)
  <2>1. posted + 1 \in 1..MaxMsgs
    BY <1>1, <1>8, MaxMsgsAssumption DEF Said
  <2>2. \A t \in Server : \A n \in KnownBy[t] : n.content # posted + 1
    BY <1>1 DEF Authentic, KnownBy
  <2>3. x = [lamport |-> ClockOf[s] + 1, replica |-> s, content |-> posted + 1]
    BY <1>2 DEF NewMessage
  <2>4. /\ KnownBy' = [KnownBy EXCEPT ![s] = @ \cup {x}]
        /\ ClockOf' = [ClockOf EXCEPT ![s] = x.lamport]
    BY <1>2, <1>8 DEF Said, NewMessage
  <2> HIDE DEF x
  <2> QED
    BY <2>1, <2>2, <2>3, <2>4 DEF Gossip!Next, Gossip!Publish, KnownBy, ClockOf
<1> QED
  BY <1>6, <1>7, <1>8 DEF GroupStep, Gossip!Next

\* Servers that break off, panic, repeat and reorder requests still only publish
\* messages above their clocks and learn what their authors have published.
THEOREM Refinement == Spec => ImplementsGossip
<1>1. Init => Gossip!Init
  <2> SUFFICES ASSUME Init PROVE Gossip!Init
    OBVIOUS
  <2>1. \A s \in Server : Known(s) = {} /\ group[s].maxLamport = 0
    BY NoGroupOK, EmptyMessages DEF Init, Known
  <2> QED
    BY <2>1 DEF Gossip!Init
<1>2. Inv /\ [Next]_vars => [Gossip!Next]_<<KnownBy, ClockOf>>
  <2> SUFFICES ASSUME Inv, [Next]_vars
               PROVE  Gossip!Next \/ UNCHANGED <<KnownBy, ClockOf>>
    OBVIOUS
  <2>1. GroupEffect
    BY NextKeeps
  <2>2. CASE UNCHANGED <<group, posted>>
    BY <2>2 DEF KnownBy, ClockOf, Known
  <2>3. CASE \E s \in Server : \E k : GroupStep(s, k)
    BY <2>3, GroupStepGossips
  <2> QED
    BY <2>1, <2>2, <2>3 DEF GroupEffect
<1>3. Inv /\ [Next]_vars => [Gossip!Next]_<<[s \in Server |-> Known(s)],
                                          [s \in Server |-> group[s].maxLamport]>>
  BY <1>2 DEF KnownBy, ClockOf
<1> QED
  BY <1>1, <1>3, Invariance, PTL DEF Spec, ImplementsGossip, Gossip!Spec

-----------------------------------------------------------------------------
(***************************************************************************)
(* What the lists show.                                                    *)
(***************************************************************************)
\* Server s has the group k after an operation on the group g it had.
Operated(s, g, k) ==
    \/ k = Joined(g, s)
    \/ \E m \in SendGroupInfoType : k = NamesInserted(g, m)
    \/ \E m \in UpdateMsgType : /\ k = MsgInserted(g, m)
                                /\ \E u \in Server : net[u][s] # <<>> /\ m = Head(net[u][s])
    \/ g.made /\ posted < MaxMsgs /\ k = Posted(g, s, posted + 1) /\ posted' = posted + 1

\* What the steps need to be operations at all, whether servers are relaunched
\* or not.
Shaped ==
    /\ group \in [Server -> GroupType]
    /\ \A s \in Server : GroupOK(group[s])
    /\ net \in [Server -> [Server -> Seq(RequestType)]]
    /\ DOMAIN pc = Client /\ DOMAIN out = Client
    /\ \A c \in Client : pc[c] # "out" => group[Home[c]].made

LEMMA InvShaped == Inv => Shaped
  BY DEF Inv, TypeOK, GroupsSound, HandlerSound, Shaped

\* A request at the head of a stream is of the type its kind names.
LEMMA HeadType ==
    ASSUME Shaped, NEW s \in Server, NEW t \in Server, net[s][t] # <<>>
    PROVE  LET m == Head(net[s][t])
           IN  /\ m \in RequestType
               /\ m.kind = "UpdateMsg" => m \in UpdateMsgType
               /\ m.kind = "SendGroupInfo" => m \in SendGroupInfoType
               /\ m.kind = "CheckForMerge" => m \in CheckForMergeType
<1>1. net[s][t] \in Seq(RequestType)
  BY DEF Shaped
<1>2. Head(net[s][t]) \in RequestType
  BY <1>1, HeadTailProperties
<1> QED
  BY <1>2 DEF RequestType, UpdateMsgType, SendGroupInfoType, CheckForMergeType

\* A step does one operation on the group of one server, or none.
LEMMA GroupChanges ==
    ASSUME Shaped, [Next]_vars
    PROVE  \/ group' = group
           \/ \E s \in Server : \E k : /\ group' = [group EXCEPT ![s] = k]
                                       /\ Operated(s, group[s], k)
<1> DEFINE Goal == \/ group' = group
                   \/ \E s \in Server : \E k : /\ group' = [group EXCEPT ![s] = k]
                                               /\ Operated(s, group[s], k)
<1>1. /\ group \in [Server -> GroupType]
      /\ \A c \in Client : Home[c] \in Server /\ (pc[c] # "out" => group[Home[c]].made)
  BY HomeAssumption DEF Shaped
<1>2. ASSUME NEW s \in Server, NEW k, Operated(s, group[s], k),
             group' = [group EXCEPT ![s] = k]
      PROVE  Goal
  BY <1>2
<1>3. ASSUME NEW s \in Server, Panic(s) PROVE Goal
  BY <1>3 DEF Panic
<1>4. ASSUME NEW c \in Client, Join(c) PROVE Goal
  <2>1. group' = [group EXCEPT ![Home[c]] = Joined(group[Home[c]], Home[c])]
    BY <1>1, <1>4 DEF Join
  <2> QED
    BY <1>1, <1>2, <2>1 DEF Operated
<1>5. ASSUME NEW c \in Client, AppendMessage(c) PROVE Goal
  <2> DEFINE s == Home[c]
  <2>1. CASE Panic(s)
    BY <1>1, <1>3, <2>1
  <2>2. CASE /\ group' = [group EXCEPT ![s] = Posted(@, s, posted + 1)]
             /\ posted' = posted + 1
    <3>1. group' = [group EXCEPT ![s] = Posted(group[s], s, posted + 1)]
      BY <1>1, <2>2
    <3>2. group[s].made /\ posted < MaxMsgs
      BY <1>1, <1>5 DEF AppendMessage
    <3> QED
      BY <1>1, <1>2, <2>2, <3>1, <3>2 DEF Operated
  <2> QED
    BY <1>5, <2>1, <2>2 DEF AppendMessage
<1>6. ASSUME NEW s \in Server, NEW t \in Server, ReceiveUpdateMsg(s, t) PROVE Goal
  <2> DEFINE m == Head(net[s][t])
  <2>1. CASE Panic(t)
    BY <1>3, <2>1
  <2>2. CASE group' = [group EXCEPT ![t] = MsgInserted(@, m)]
    <3>1. group' = [group EXCEPT ![t] = MsgInserted(group[t], m)]
      BY <1>1, <2>2
    <3>2. m \in UpdateMsgType /\ net[s][t] # <<>>
      BY <1>6, HeadType DEF ReceiveUpdateMsg, Takes
    <3> QED
      BY <1>2, <3>1, <3>2 DEF Operated
  <2> QED
    BY <1>6, <2>1, <2>2 DEF ReceiveUpdateMsg
<1>7. ASSUME NEW s \in Server, NEW t \in Server, ReceiveSendGroupInfo(s, t) PROVE Goal
  <2> DEFINE m == Head(net[s][t])
  <2>1. group' = [group EXCEPT ![t] = NamesInserted(group[t], m)]
    BY <1>1, <1>7 DEF ReceiveSendGroupInfo
  <2>2. m \in SendGroupInfoType
    BY <1>7, HeadType DEF ReceiveSendGroupInfo, Takes
  <2> QED
    BY <1>2, <2>1, <2>2 DEF Operated
<1>8. ASSUME NEW s \in Server, NEW t \in Server,
             CheckForMergePanics(s, t) \/ ReceiveCheckForMerge(s, t)
      PROVE  Goal
  BY <1>3, <1>8 DEF CheckForMergePanics, ReceiveCheckForMerge
<1>9. ASSUME NEW c \in Client, BuildUpdateMsg(c) \/ BuildGroupInfo(c) \/ Broadcast(c)
      PROVE  Goal
  BY <1>9 DEF BuildUpdateMsg, BuildGroupInfo, Broadcast
<1>10. ASSUME NEW s \in Server, NEW t \in Server,
              ReplicaSetUp(s, t) \/ Break(s, t) \/ Heal(s, t)
       PROVE  Goal
  BY <1>10 DEF ReplicaSetUp, Break, Heal
<1>11. ASSUME UNCHANGED vars PROVE Goal
  BY <1>11 DEF vars
<1> HIDE DEF Goal
<1>12. ASSUME NEW c \in Client, ClientStep(c) PROVE Goal
  BY <1>4, <1>5, <1>9, <1>12 DEF ClientStep
<1>13. ASSUME NEW s \in Server, NEW t \in Server, Receive(s, t) PROVE Goal
  BY <1>6, <1>7, <1>8, <1>13 DEF Receive
<1>14. ASSUME NEW s \in Server, Entropy(s) PROVE Goal
  BY <1>14 DEF Entropy, Goal
<1>15. Goal
  BY <1>10, <1>11, <1>12, <1>13, <1>14 DEF Next
<1> QED
  BY <1>15 DEF Goal

\* An index a sound request comes with is one its receiver's handler takes.
LEMMA SoundIndex ==
    ASSUME Inv, NEW m \in UpdateMsgType, NEW s \in Server,
           \E u \in Server : net[u][s] # <<>> /\ m = Head(net[u][s])
    PROVE  /\ m.index <= MaxMsgs /\ m.index \in Nat /\ m.from \in Server
           /\ m.index <= group[m.from].msgTimestamp[m.from]
<1>0. SoundMsg(m)
  <2>1. m \in Sound(s)
    BY TakenSound
  <2> QED
    BY <2>1 DEF Sound, SoundNames, UpdateMsgType, SendGroupInfoType, CheckForMergeType
<1>1. m.index \in Nat /\ m.from \in Server /\ posted \in 0..MaxMsgs /\ MaxMsgs \in Nat
  BY MaxMsgsAssumption DEF Inv, TypeOK, UpdateMsgType
<1>2. /\ group[m.from].msgTimestamp[m.from] <= posted
      /\ group[m.from].msgTimestamp[m.from] \in Nat
      /\ m.index <= group[m.from].msgTimestamp[m.from]
  BY <1>0, <1>1, GroupParts DEF Inv, GroupsSound, SoundMsg
<1> QED
  BY <1>1, <1>2

\* The list of every server is kept well and shows the server's own messages.
ListsKept == \A s \in Server : GroupKept(group[s], s)

LEMMA OperationKeeps ==
    ASSUME Inv, ListsKept, NEW s \in Server, NEW k, Operated(s, group[s], k)
    PROVE  GroupKept(k, s)
<1> DEFINE g == group[s]
<1>1. /\ GroupOK(g) /\ GroupKept(g, s) /\ ListOK(g.list) /\ ListKept(g.list)
      /\ g.msgTimestamp \in [Server -> Nat]
      /\ g.msgTimestamp[s] <= posted /\ posted \in Nat
  BY GroupParts DEF Inv, GroupsSound, ListsKept, GroupKept, TypeOK
<1>2. CASE k = Joined(g, s)
  BY <1>1, <1>2, JoinedGroup, JoinedSettles, SameKeeps, OwnStays
<1>3. ASSUME NEW m \in SendGroupInfoType, k = NamesInserted(g, m)
      PROVE  GroupKept(k, s)
  BY <1>1, <1>3, NamesInsertedGroup, NamesInsertedSettles, SameKeeps, OwnStays
<1>4. ASSUME NEW m \in UpdateMsgType, k = MsgInserted(g, m),
             \E u \in Server : net[u][s] # <<>> /\ m = Head(net[u][s])
      PROVE  GroupKept(k, s)
  <2>1. /\ m.index <= MaxMsgs /\ m.index \in Nat /\ m.from \in Server
        /\ m.index <= group[m.from].msgTimestamp[m.from]
    BY <1>4, SoundIndex
  <2>2. Keeps(k.list, g.list) /\ Settled(k, g) /\ Counts(k, g, m)
    BY <1>1, <1>4, <2>1, MsgInsertedKeeps, MsgInsertedSettles, MsgInsertedGroup
  <2>3. k.msgTimestamp[s] = g.msgTimestamp[s]
    BY <1>1, <2>1, <2>2 DEF Counts
  <2> QED
    BY <1>1, <2>2, <2>3, OwnStays
<1>5. CASE g.made /\ posted < MaxMsgs /\ k = Posted(g, s, posted + 1)
  <2>1. g.msgTimestamp[s] < MaxMsgs /\ posted + 1 \in Nat
    BY <1>1, <1>5, MaxMsgsAssumption
  <2> QED
    BY <1>1, <1>5, <2>1, PostedKept
<1> QED
  BY <1>2, <1>3, <1>4, <1>5 DEF Operated

\* Whatever arrives in whatever order, no list loses its form.
LEMMA ListsStayKept == Spec => []ListsKept
<1>1. Init => ListsKept
  BY NoGroupKept DEF Init, ListsKept
<1>2. Inv /\ ListsKept /\ [Next]_vars => ListsKept'
  <2> SUFFICES ASSUME Inv, ListsKept, [Next]_vars, NEW t \in Server
               PROVE  GroupKept(group'[t], t)
    BY DEF ListsKept
  <2>1. group \in [Server -> GroupType] /\ GroupKept(group[t], t)
    BY DEF Inv, TypeOK, ListsKept
  <2>2. CASE group' = group
    BY <2>1, <2>2
  <2>3. ASSUME NEW s \in Server, NEW k, group' = [group EXCEPT ![s] = k],
               Operated(s, group[s], k)
        PROVE  GroupKept(group'[t], t)
    <3>1. GroupKept(k, s)
      BY <2>3, OperationKeeps
    <3>2. group'[t] = IF t = s THEN k ELSE group[t]
      BY <2>1, <2>3
    <3> QED
      BY <2>1, <3>1, <3>2
  <2> QED
    BY <2>2, <2>3, GroupChanges, InvShaped
<1> QED
  BY <1>1, <1>2, Invariance, PTL DEF Spec

\* Every list ends, links no node twice and has Tail among the nodes it shows,
\* and their MsgIds grow: a liked number names one message.
THEOREM ListsEnd == Spec => []ListWellFormed
<1>1. Inv /\ ListsKept => ListWellFormed
  <2> SUFFICES ASSUME Inv, ListsKept, NEW s \in Server
               PROVE  LET l == group[s].list
                          walk == Walk(l)
                      IN  /\ \A j, k \in DOMAIN walk : j < k =>
                                /\ walk[j] # walk[k]
                                /\ l.node[walk[j]].id < l.node[walk[k]].id
                          /\ l.head # Nil => \E k \in DOMAIN walk : walk[k] = l.tail
    BY DEF ListWellFormed
  <2> DEFINE l == group[s].list
             walk == Walk(l)
  <2>1. l \in ListType
    BY GroupParts DEF Inv, GroupsSound
  <2>2. /\ Shows(l, walk)
        /\ \A j, k \in 1..Len(walk) : j < k => l.node[walk[j]].id < l.node[walk[k]].id
        /\ \E t : TailAt(l, walk, t)
    BY DEF ListsKept, GroupKept, ListKept
  <2>3. /\ DOMAIN walk = 1..Len(walk) /\ Len(walk) \in Nat
        /\ \A i, j \in 1..Len(walk) : walk[i] = walk[j] => i = j
    BY <2>1, <2>2, ShowsParts
  <2> HIDE DEF walk
  <2>4. \A j, k \in 1..Len(walk) : j < k => walk[j] # walk[k]
    BY <2>3
  <2>5. l.head # Nil => \E k \in 1..Len(walk) : walk[k] = l.tail
    BY <2>2 DEF TailAt
  <2>6. \A j, k \in DOMAIN walk : j < k =>
            walk[j] # walk[k] /\ l.node[walk[j]].id < l.node[walk[k]].id
    BY <2>2, <2>3, <2>4
  <2> QED
    BY <2>3, <2>5, <2>6 DEF walk
<1> QED
  BY <1>1, ListsStayKept, Invariance, PTL

\* A message that the server's own clients posted is never cut off: all of them
\* stay at or before Tail, where Append does not reach.
THEOREM OwnMessagesStay == Spec => []OwnMessagesKept
<1>1. Inv /\ ListsKept => OwnMessagesKept
  <2> SUFFICES ASSUME Inv, ListsKept, NEW s \in Server,
                      NEW i \in 1..group[s].msgTimestamp[s]
               PROVE  \E k \in DOMAIN Walk(group[s].list) :
                          Walk(group[s].list)[k] = group[s].messageLamport[s][i]
    BY DEF OwnMessagesKept
  <2> DEFINE l == group[s].list
             walk == Walk(l)
  <2>1. l \in ListType
    BY GroupParts DEF Inv, GroupsSound
  <2>2. GroupKept(group[s], s)
    BY DEF ListsKept
  <2>3. PICK t : TailAt(l, walk, t)
    BY <2>2 DEF GroupKept, ListKept
  <2>4. DOMAIN walk = 1..Len(walk) /\ Len(walk) \in Nat
    BY <2>1, <2>2, ShowsParts DEF GroupKept, ListKept
  <2>5. PICK k \in 1..t : walk[k] = group[s].messageLamport[s][i]
    BY <2>2, <2>3 DEF GroupKept, OwnKept
  <2> HIDE DEF walk
  <2>6. t = 0 \/ t \in 1..Len(walk)
    BY <2>3 DEF TailAt
  <2>7. k \in 1..Len(walk)
    BY <2>4, <2>5, <2>6
  <2> QED
    BY <2>4, <2>5, <2>7 DEF walk
<1> QED
  BY <1>1, ListsStayKept, Invariance, PTL

\* Every operation on a list whose messages are all shown, in Lamport order and
\* up to Tail, leaves them all shown in Lamport order: what a message from
\* another server may leave wrong is Tail.
THEOREM OrderStays == Spec => OrderKept
<1>1. ASSUME Inv, ListsKept, NEW s \in Server, NEW k, Operated(s, group[s], k),
             InOrder(group[s].list)
      PROVE  AllInOrder(k.list)
  <2> DEFINE g == group[s]
  <2>1. /\ GroupOK(g) /\ ListOK(g.list) /\ ListKept(g.list) /\ g.maxLamport \in Nat
        /\ posted + 1 \in Nat
    <3>1. GroupOK(g) /\ ListKept(g.list) /\ posted + 1 \in Nat
      BY <1>1 DEF Inv, GroupsSound, ListsKept, GroupKept, TypeOK
    <3> QED
      BY <3>1, GroupParts
  <2>2. /\ AllInOrder(g.list)
        /\ g.list.head # Nil => Walk(g.list)[Len(Walk(g.list))] = g.list.tail
    BY <1>1 DEF InOrder, AllInOrder
  <2>3. CASE k = Joined(g, s)
    BY <2>1, <2>2, <2>3, JoinedGroup
  <2>4. CASE \E m \in SendGroupInfoType : k = NamesInserted(g, m)
    BY <2>1, <2>2, <2>4, NamesInsertedGroup
  <2>5. CASE \E m \in UpdateMsgType : k = MsgInserted(g, m)
    BY <2>1, <2>2, <2>5, MsgInsertedInOrder
  <2>6. CASE k = Posted(g, s, posted + 1)
    <3> DEFINE m == NewMessage(g, s, posted + 1)
    <3>1. k.list = Appended(g.list, m) /\ IsMessage(m) /\ m.lamport = g.maxLamport + 1
      BY <2>1, <2>6, PostedList DEF NewMessage
    <3> HIDE DEF m
    <3>2. ASSUME NEW n \in Nodes(g.list) PROVE Precedes(g.list.node[n], m)
      <4>1. Says(g.list.node[n]) \in Known(s)
        BY DEF Known, Messages
      <4>2. Says(g.list.node[n]).lamport <= g.maxLamport /\ Says(g.list.node[n]).lamport \in Nat
        BY <1>1, <2>1, <4>1, GroupParts DEF Inv, GroupsSound, Authentic, Known
      <4> QED
        BY <2>1, <3>1, <4>2 DEF Precedes, Says
    <3> QED
      BY <2>1, <2>2, <3>1, <3>2, AppendedInOrder
  <2> QED
    BY <1>1, <2>3, <2>4, <2>5, <2>6 DEF Operated
<1>2. ASSUME Inv, ListsKept, [Next]_vars, NEW s \in Server, InOrder(group[s].list)
      PROVE  AllInOrder(group'[s].list)
  <2>1. group \in [Server -> GroupType]
    BY <1>2 DEF Inv, TypeOK
  <2>2. AllInOrder(group[s].list)
    BY <1>2 DEF InOrder, AllInOrder
  <2>3. ASSUME NEW t \in Server, NEW k, group' = [group EXCEPT ![t] = k],
               Operated(t, group[t], k)
        PROVE  AllInOrder(group'[s].list)
    <3>1. group'[s] = IF s = t THEN k ELSE group[s]
      BY <2>1, <2>3
    <3> QED
      BY <1>1, <1>2, <2>2, <2>3, <3>1
  <2> QED
    BY <1>2, <2>2, <2>3, GroupChanges, InvShaped
<1>3. Inv /\ ListsKept /\ [Next]_vars =>
        [\A s \in Server : InOrder(group[s].list) =>
            LET l == group'[s].list
                walk == Walk(l)
            IN  /\ Len(walk) = Len(l.node)
                /\ \A k \in 1..(Len(walk) - 1) :
                      Precedes(l.node[walk[k]], l.node[walk[k + 1]])]_vars
  BY <1>2 DEF AllInOrder
<1> QED
  BY <1>3, Invariance, ListsStayKept, PTL DEF Spec, OrderKept

-----------------------------------------------------------------------------
(***************************************************************************)
(* One client to a server: what an index means.                            *)
(***************************************************************************)
\* A request names a message by the index its author filed it under.
Tells(m) == /\ m.index \in 1..group[m.from].msgTimestamp[m.from]
            /\ SameKey(m, Own(m.from, m.index))

Telling == {m \in RequestType : m.kind = "UpdateMsg" => Tells(m)}

\* Between posting and building the request no one else posts at the server:
\* its counter is still the index of the message.
HandlerTells(c) ==
    LET s == Home[c]
        n == group[s].msgTimestamp[s]
    IN  /\ pc[c] = "posted" => n > 0 /\ SameKey(out[c], Own(s, n))
        /\ pc[c] = "sending" => out[c] \in Telling

Agreed ==
    /\ LogAgreement
    /\ net \in [Server -> [Server -> Seq(Telling)]]
    /\ \A c \in Client : HandlerTells(c)

\* A stream carries what it carried, what handlers broadcast, and answers.
LEMMA SendCarries ==
    ASSUME NEW S, NEW s \in Server, NEW reqs, NEW queued, Send(s, reqs, queued),
           queued \in [Server -> [Server -> Seq(S)]],
           \A t \in Server : reqs[t] \in Seq(S)
    PROVE  net' \in [Server -> [Server -> Seq(S)]]
<1>1. ASSUME NEW t \in Server
      PROVE  queued[s][t] \o reqs[t] \in Seq(S)
  BY ConcatProperties
<1>2. [t \in Server |-> IF link[s][t] \in {"ok", "broken"} THEN queued[s][t] \o reqs[t]
                                                         ELSE queued[s][t]]
        \in [Server -> Seq(S)]
  BY <1>1
<1> QED
  BY <1>2 DEF Send

LEMMA StreamsCarry ==
    ASSUME Shaped, [Next]_vars, NEW S, S \subseteq RequestType,
           net \in [Server -> [Server -> Seq(S)]],
           CheckForMergeType \subseteq S,
           \A c \in Client : pc[c] = "sending" => out[c] \in S,
           \A t, o \in Server : Answers(group[t], o) \subseteq S
    PROVE  net' \in [Server -> [Server -> Seq(S)]]
<1> DEFINE Goal == net' \in [Server -> [Server -> Seq(S)]]
<1>1. /\ group \in [Server -> GroupType]
      /\ \A c \in Client : Home[c] \in Server
  BY HomeAssumption DEF Shaped
<1>2. ASSUME NEW s \in Server, Panic(s) PROVE Goal
  BY <1>2, EmptySeq DEF Panic
<1>3. ASSUME NEW s \in Server, NEW t \in Server,
             net' = net \/ net' = [net EXCEPT ![s][t] = <<>>]
      PROVE  Goal
  <2>1. <<>> \in Seq(S)
    BY EmptySeq
  <2>2. [net EXCEPT ![s][t] = <<>>] \in [Server -> [Server -> Seq(S)]]
    BY <2>1
  <2> QED
    BY <1>3, <2>2
<1>4. ASSUME NEW s \in Server, NEW t \in Server, net[s][t] # <<>>
      PROVE  /\ Handled(s, t) \in [Server -> [Server -> Seq(S)]]
             /\ Head(net[s][t]) \in S
  <2>1. net[s][t] \in Seq(S)
    OBVIOUS
  <2>2. Tail(net[s][t]) \in Seq(S) /\ Head(net[s][t]) \in S
    BY <1>4, <2>1, HeadTailProperties
  <2>3. Handled(s, t) = [net EXCEPT ![s][t] = Tail(net[s][t])]
    BY DEF Handled
  <2> QED
    BY <2>2, <2>3
<1>5. ASSUME NEW c \in Client, Broadcast(c) PROVE Goal
  <2> DEFINE reqs == [t \in Server |-> <<out[c]>>]
  <2>1. out[c] \in S /\ Send(Home[c], reqs, net)
    BY <1>5 DEF Broadcast, ReplicaBroadcast
  <2>2. \A t \in Server : reqs[t] \in Seq(S)
    BY <2>1
  <2> HIDE DEF reqs
  <2> QED
    BY <1>1, <2>1, <2>2, SendCarries
<1>6. ASSUME NEW s \in Server, Entropy(s) PROVE Goal
  <2> DEFINE req == CheckForMerge(s, group[s])
             reqs == [t \in Server |-> <<req>>]
  <2>1. req \in S
    BY <1>1 DEF GroupType, CheckForMerge, CheckForMergeType
  <2>2. Send(s, reqs, net)
    BY <1>6 DEF Entropy, ReplicaBroadcast
  <2> HIDE DEF req
  <2>3. \A t \in Server : reqs[t] \in Seq(S)
    BY <2>1
  <2> HIDE DEF reqs
  <2> QED
    BY <2>2, <2>3, SendCarries
<1>7. ASSUME NEW s \in Server, NEW t \in Server, ReceiveCheckForMerge(s, t) PROVE Goal
  <2> DEFINE m == Head(net[s][t])
             rest(o) == IF m.todo = {o} THEN Handled(s, t)
                        ELSE [net EXCEPT ![s][t][1].todo = @ \ {o}]
             reqs(o) == [u \in Server |-> IF u = m.replica THEN Missing(group[t], m, o)
                                          ELSE <<>>]
  <2>1. net[s][t] # <<>> /\ m.kind = "CheckForMerge"
    BY <1>7 DEF ReceiveCheckForMerge, Takes
  <2>2. m \in CheckForMergeType
    BY <2>1, HeadType
  <2>3. PICK o \in m.todo : net' = rest(o) \/ Send(t, reqs(o), rest(o))
    BY <1>7 DEF ReceiveCheckForMerge
  <2>4. o \in Server
    BY <2>2, <2>3 DEF CheckForMergeType
  <2>5. rest(o) \in [Server -> [Server -> Seq(S)]]
    <3> DEFINE r == [m EXCEPT !.todo = @ \ {o}]
               stream == [net[s][t] EXCEPT ![1] = r]
    <3>1. r \in CheckForMergeType
      BY <2>2 DEF CheckForMergeType
    <3>2. net[s][t] \in Seq(S) /\ 1 \in 1..Len(net[s][t]) /\ m = net[s][t][1]
      BY <2>1, EmptySeq
    <3>3. [net EXCEPT ![s][t][1].todo = @ \ {o}] = [net EXCEPT ![s][t] = stream]
      BY <3>2
    <3> HIDE DEF r
    <3>4. stream \in Seq(S)
      BY <3>1, <3>2, ExceptSeq
    <3> HIDE DEF stream
    <3>5. [net EXCEPT ![s][t] = stream] \in [Server -> [Server -> Seq(S)]]
      BY <3>4
    <3> QED
      BY <1>4, <2>1, <3>3, <3>5
  <2>6. \A u \in Server : reqs(o)[u] \in Seq(S)
    <3>1. Missing(group[t], m, o) \in Seq(Answers(group[t], o))
      BY <2>2, <2>4, MissingAnswers DEF Shaped
    <3>2. Missing(group[t], m, o) \in Seq(S)
      BY <2>4, <3>1, SeqMonotonic
    <3> QED
      BY <3>2, EmptySeq
  <2> HIDE DEF rest, reqs
  <2> QED
    BY <2>3, <2>5, <2>6, SendCarries
<1>8. ASSUME NEW s \in Server, NEW t \in Server,
             ReceiveUpdateMsg(s, t) \/ ReceiveSendGroupInfo(s, t) \/ CheckForMergePanics(s, t)
      PROVE  Goal
  BY <1>2, <1>4, <1>8 DEF ReceiveUpdateMsg, ReceiveSendGroupInfo, CheckForMergePanics, Takes
<1>9. ASSUME NEW s \in Server, NEW t \in Server,
             ReplicaSetUp(s, t) \/ Break(s, t) \/ Heal(s, t)
      PROVE  Goal
  BY <1>3, <1>9 DEF ReplicaSetUp, Break, Heal
<1>10. ASSUME NEW c \in Client, Join(c) \/ AppendMessage(c) \/ BuildUpdateMsg(c) \/ BuildGroupInfo(c)
       PROVE  Goal
  BY <1>1, <1>2, <1>10 DEF Join, AppendMessage, BuildUpdateMsg, BuildGroupInfo
<1>11. ASSUME UNCHANGED vars PROVE Goal
  BY <1>11 DEF vars
<1> HIDE DEF Goal
<1>12. ASSUME NEW c \in Client, ClientStep(c) PROVE Goal
  BY <1>5, <1>10, <1>12 DEF ClientStep
<1>13. ASSUME NEW s \in Server, NEW t \in Server, Receive(s, t) PROVE Goal
  BY <1>7, <1>8, <1>13 DEF Receive
<1>14. Goal
  BY <1>6, <1>9, <1>11, <1>12, <1>13 DEF Next
<1> QED
  BY <1>14 DEF Goal

\* A counter of a server's own messages moves only when one is posted there.
LEMMA OwnCounter ==
    ASSUME Inv, [Next]_vars, NEW s \in Server, posted' = posted
    PROVE  group'[s].msgTimestamp[s] = group[s].msgTimestamp[s]
<1>1. /\ GroupEffect /\ group \in [Server -> GroupType] /\ posted \in Nat
  BY NextKeeps DEF Inv, TypeOK
<1>2. ASSUME NEW t \in Server, NEW k, GroupStep(t, k)
      PROVE  group'[s].msgTimestamp[s] = group[s].msgTimestamp[s]
  <2>1. group'[s] = IF s = t THEN k ELSE group[s]
    BY <1>1, <1>2 DEF GroupStep
  <2>2. k.msgTimestamp[t] = group[t].msgTimestamp[t]
    BY <1>1, <1>2 DEF GroupStep
  <2> QED
    BY <2>1, <2>2
<1> QED
  BY <1>1, <1>2 DEF GroupEffect

\* How far a handler comes in a step, when it is not AppendMessage's.
LEMMA HandlerMoves ==
    ASSUME Shaped, [Next]_vars, NEW c \in Client
    PROVE  \/ pc'[c] = pc[c] /\ out'[c] = out[c]
           \/ pc'[c] \in {"joined", "ready"}
           \/ BuildUpdateMsg(c)
           \/ BuildGroupInfo(c)
           \/ AppendMessage(c) /\ posted' = posted + 1
<1> DEFINE Goal == \/ pc'[c] = pc[c] /\ out'[c] = out[c]
                   \/ pc'[c] \in {"joined", "ready"}
                   \/ BuildUpdateMsg(c)
                   \/ BuildGroupInfo(c)
                   \/ AppendMessage(c) /\ posted' = posted + 1
<1>1. DOMAIN pc = Client /\ DOMAIN out = Client
  BY DEF Shaped
<1>2. ASSUME NEW d \in Client, ClientStep(d) PROVE Goal
  <2>1. CASE Join(d) \/ Broadcast(d)
    BY <1>1, <2>1 DEF Join, Broadcast
  <2>2. CASE BuildUpdateMsg(d)
    BY <1>1, <2>2 DEF BuildUpdateMsg
  <2>3. CASE BuildGroupInfo(d)
    BY <1>1, <2>3 DEF BuildGroupInfo
  <2>4. CASE AppendMessage(d)
    BY <1>1, <2>4 DEF AppendMessage, Panic
  <2> QED
    BY <1>2, <2>1, <2>2, <2>3, <2>4 DEF ClientStep
<1>3. ASSUME UNCHANGED <<pc, out>> PROVE Goal
  BY <1>3
<1>4. ASSUME NEW s \in Server, NEW t \in Server,
             ReplicaSetUp(s, t) \/ Break(s, t) \/ Heal(s, t) \/ Receive(s, t)
      PROVE  UNCHANGED <<pc, out>>
  BY <1>4 DEF ReplicaSetUp, Break, Heal, Receive, ReceiveUpdateMsg,
              ReceiveSendGroupInfo, ReceiveCheckForMerge, CheckForMergePanics, Panic
<1>5. ASSUME NEW s \in Server, Entropy(s) PROVE UNCHANGED <<pc, out>>
  BY <1>5 DEF Entropy
<1>6. ASSUME UNCHANGED vars PROVE UNCHANGED <<pc, out>>
  BY <1>6 DEF vars
<1> HIDE DEF Goal
<1>7. Goal
  BY <1>2, <1>3, <1>4, <1>5, <1>6 DEF Next
<1> QED
  BY <1>7 DEF Goal

\* The handlers of other clients leave their own servers' groups alone.
LEMMA PostedBy ==
    ASSUME Shaped, [Next]_vars, posted' # posted
    PROVE  \E d \in Client :
              LET s == Home[d]
              IN  /\ s \in Server
                  /\ group[s].made /\ posted < MaxMsgs /\ posted' = posted + 1
                  /\ group' = [group EXCEPT ![s] = Posted(@, s, posted + 1)]
                  /\ pc' = [pc EXCEPT ![d] = "posted"]
                  /\ out' = [out EXCEPT ![d] =
                        UpdateMsg(s, 0, NewMessage(group[s], s, posted + 1), 0)]
<1> DEFINE Goal == \E d \in Client :
              LET s == Home[d]
              IN  /\ s \in Server
                  /\ group[s].made /\ posted < MaxMsgs /\ posted' = posted + 1
                  /\ group' = [group EXCEPT ![s] = Posted(@, s, posted + 1)]
                  /\ pc' = [pc EXCEPT ![d] = "posted"]
                  /\ out' = [out EXCEPT ![d] =
                        UpdateMsg(s, 0, NewMessage(group[s], s, posted + 1), 0)]
<1>1. \A c \in Client : Home[c] \in Server /\ (pc[c] # "out" => group[Home[c]].made)
  BY HomeAssumption DEF Shaped
<1>2. ASSUME NEW d \in Client, AppendMessage(d) PROVE Goal
  BY <1>1, <1>2 DEF AppendMessage, Panic
<1>3. ASSUME NEW c \in Client, Join(c) \/ BuildUpdateMsg(c) \/ BuildGroupInfo(c) \/ Broadcast(c)
      PROVE  FALSE
  BY <1>3 DEF Join, BuildUpdateMsg, BuildGroupInfo, Broadcast
<1>4. ASSUME NEW s \in Server, NEW t \in Server,
             ReplicaSetUp(s, t) \/ Break(s, t) \/ Heal(s, t) \/ Receive(s, t)
      PROVE  FALSE
  BY <1>4 DEF ReplicaSetUp, Break, Heal, Receive, ReceiveUpdateMsg,
              ReceiveSendGroupInfo, ReceiveCheckForMerge, CheckForMergePanics, Panic
<1>5. ASSUME NEW s \in Server, Entropy(s) PROVE FALSE
  BY <1>5 DEF Entropy
<1>6. ASSUME UNCHANGED vars PROVE FALSE
  BY <1>6 DEF vars
<1> HIDE DEF Goal
<1>7. ASSUME NEW c \in Client, ClientStep(c) PROVE Goal
  BY <1>2, <1>3, <1>7 DEF ClientStep
<1>8. Goal
  BY <1>4, <1>5, <1>6, <1>7 DEF Next
<1> QED
  BY <1>8 DEF Goal

\* What a request tells stays true.
LEMMA TellsStay ==
    ASSUME Inv, [Next]_vars
    PROVE  /\ \A o \in Server : \A i \in 1..group[o].msgTimestamp[o] :
                 /\ i <= group'[o].msgTimestamp[o]
                 /\ SameKey(Own(o, i)', Own(o, i))
           /\ Telling \subseteq Telling'
<1>1. ASSUME NEW o \in Server, NEW i \in 1..group[o].msgTimestamp[o]
      PROVE  /\ i <= group'[o].msgTimestamp[o]
             /\ SameKey(Own(o, i)', Own(o, i))
  <2>1. /\ group'[o].msgTimestamp[o] >= i
        /\ group'[o].messageLamport[o][i] = group[o].messageLamport[o][i]
        /\ SameKey(group'[o].list.node[group[o].messageLamport[o][i]],
                   group[o].list.node[group[o].messageLamport[o][i]])
    BY IndexesStay DEF IndexesKept
  <2>2. group'[o].msgTimestamp[o] \in Nat
    BY NextKeeps, GroupParts DEF Inv, GroupsSound
  <2>3. i <= group'[o].msgTimestamp[o]
    BY ONLY <2>1, <2>2, i \in Int
  <2> QED
    BY <2>1, <2>3 DEF Own
<1>2. \A o \in Server : group'[o].msgTimestamp[o] \in Nat
  BY NextKeeps, GroupParts DEF Inv, GroupsSound
<1>3. ASSUME NEW m \in RequestType, m.kind = "UpdateMsg", Tells(m)
      PROVE  Tells(m)'
  <2>1. m.from \in Server
    BY <1>3 DEF RequestType, UpdateMsgType, SendGroupInfoType, CheckForMergeType
  <2> QED
    BY <1>1, <1>2, <1>3, <2>1 DEF Tells, SameKey
<1> QED
  BY <1>1, <1>3 DEF Telling

\* The log of every server goes on agreeing with those of the authors.
LEMMA LogStaysAgreed ==
    ASSUME Inv, Agreed, [Next]_vars
    PROVE  LogAgreement'
<1> SUFFICES ASSUME NEW s \in Server, NEW o \in Server,
                    NEW i \in 1..group'[s].msgTimestamp[o]
             PROVE  SameKey(group'[s].list.node[group'[s].messageLamport[o][i]], Own(o, i)')
  BY DEF LogAgreement
<1>1. /\ group \in [Server -> GroupType] /\ GroupsSound
      /\ \A t, u \in Server : /\ group[t].msgTimestamp[u] \in Nat
                              /\ group'[t].msgTimestamp[u] \in Nat
                              /\ group[t].msgTimestamp[u] <= group[u].msgTimestamp[u]
  BY NextKeeps, GroupParts DEF Inv, TypeOK, GroupsSound, AckNotAhead
<1>2. CASE i <= group[s].msgTimestamp[o]
  <2>1. i \in 1..group[s].msgTimestamp[o] /\ i \in 1..group[o].msgTimestamp[o]
    BY <1>1, <1>2
  <2>2. SameKey(Own(o, i)', Own(o, i))
    BY <2>1, TellsStay
  <2>3. SameKey(group[s].list.node[group[s].messageLamport[o][i]], Own(o, i))
    BY <2>1 DEF Agreed, LogAgreement
  <2>4. /\ group'[s].messageLamport[o][i] = group[s].messageLamport[o][i]
        /\ SameKey(group'[s].list.node[group[s].messageLamport[o][i]],
                   group[s].list.node[group[s].messageLamport[o][i]])
    BY <2>1, IndexesStay DEF IndexesKept
  <2> QED
    BY ONLY <2>2, <2>3, <2>4 DEF SameKey
<1>3. CASE s = o
  BY <1>3 DEF Own, SameKey
<1>4. CASE s # o /\ i > group[s].msgTimestamp[o]
  <2>1. group'[s].msgTimestamp[o] # group[s].msgTimestamp[o]
    BY <1>1, <1>4
  <2>1a. PICK t \in Server :
              \E k : group' = [group EXCEPT ![t] = k] /\ Operated(t, group[t], k)
    BY <2>1, GroupChanges, InvShaped
  <2>2. PICK k : group' = [group EXCEPT ![t] = k] /\ Operated(t, group[t], k)
    BY <2>1a
  <2>3. t = s /\ group'[s] = k
    BY <1>1, <2>1, <2>2
  <2> DEFINE g == group[s]
  <2>4. GroupOK(g) /\ k.msgTimestamp[o] # g.msgTimestamp[o] /\ posted \in Nat /\ MaxMsgs \in Nat
        /\ g.msgTimestamp[s] <= posted
    BY <1>1, <2>1, <2>3, MaxMsgsAssumption DEF Inv, TypeOK, GroupsSound
  <2>5. PICK m \in UpdateMsgType : /\ k = MsgInserted(g, m)
                                  /\ \E u \in Server : net[u][s] # <<>> /\ m = Head(net[u][s])
    <3>1. CASE k = Joined(g, s)
      BY <2>4, <3>1, JoinedGroup
    <3>2. CASE \E m \in SendGroupInfoType : k = NamesInserted(g, m)
      BY <2>4, <3>2, NamesInsertedGroup
    <3>3. CASE g.made /\ posted < MaxMsgs /\ k = Posted(g, s, posted + 1)
      <4>1. g.msgTimestamp[s] < MaxMsgs /\ posted + 1 \in Nat
        BY <1>1, <2>4, <3>3
      <4>2. k.msgTimestamp = [g.msgTimestamp EXCEPT ![s] = @ + 1]
        BY <2>4, <3>3, <4>1, PostedGroup
      <4>3. g.msgTimestamp \in [Server -> Nat]
        BY <1>1, GroupParts DEF GroupsSound
      <4> QED
        BY <1>4, <2>4, <4>2, <4>3
    <3> QED
      BY <2>2, <2>3, <3>1, <3>2, <3>3 DEF Operated
  <2>6. m.index <= MaxMsgs /\ m.index \in Nat /\ m.from \in Server
    BY <2>5, SoundIndex
  <2>7. o = m.from /\ k.msgTimestamp[o] = m.index
    BY <2>4, <2>5, <2>6, MsgInsertedGroup DEF Counts
  <2>8. /\ m.index = g.msgTimestamp[o] + 1
        /\ SameKey(k.list.node[k.messageLamport[o][m.index]], m)
    BY <2>4, <2>5, <2>6, <2>7, MsgInsertedFiles
  <2>9. i = m.index
    <3>1. i \in 1..m.index /\ g.msgTimestamp[o] \in Nat
      BY <1>1, <2>3, <2>7
    <3>2. i > g.msgTimestamp[o] /\ m.index = g.msgTimestamp[o] + 1
      BY <1>4, <2>8
    <3> HIDE DEF g
    <3> QED
      BY ONLY <3>1, <3>2
  <2>10. Tells(m)
    <3>1. PICK u \in Server : net[u][s] # <<>> /\ m = Head(net[u][s])
      BY <2>5
    <3>2. net[u][s] \in Seq(Telling)
      BY DEF Agreed
    <3>3. m \in Telling
      BY <3>1, <3>2, HeadTailProperties
    <3> QED
      BY <3>3 DEF Telling, UpdateMsgType
  <2>11. SameKey(m, Own(o, i)) /\ i \in 1..group[o].msgTimestamp[o]
    BY <2>7, <2>9, <2>10 DEF Tells
  <2>12. SameKey(Own(o, i)', Own(o, i))
    BY <2>11, TellsStay
  <2> QED
    BY <2>3, <2>8, <2>9, <2>11, <2>12 DEF SameKey
<1> QED
  BY <1>1, <1>2, <1>3, <1>4

LEMMA StreamsStayAgreed ==
    ASSUME Inv, Agreed, [Next]_vars
    PROVE  net' \in [Server -> [Server -> Seq(Telling')]]
<1>1. CheckForMergeType \subseteq Telling
  BY DEF Telling, CheckForMergeType, RequestType
<1>2. \A c \in Client : pc[c] = "sending" => out[c] \in Telling
  BY DEF Agreed, HandlerTells
<1>3. ASSUME NEW t \in Server, NEW o \in Server, NEW r \in Answers(group[t], o)
      PROVE  r \in Telling
  <2>1. CASE r \in SendGroupInfoType
    BY <2>1 DEF Telling, SendGroupInfoType, RequestType
  <2>2. CASE /\ r \in UpdateMsgType /\ r.from = o
             /\ r.index \in 1..group[t].msgTimestamp[o]
             /\ Says(r) = Says(NodeFiled(group[t], o, r.index))
    <3>1. SameKey(NodeFiled(group[t], o, r.index), Own(o, r.index))
      BY <2>2 DEF Agreed, LogAgreement, NodeFiled
    <3>2. SameKey(r, Own(o, r.index))
      BY <2>2, <3>1 DEF Says, SameKey
    <3>3. /\ group[t].msgTimestamp[o] \in Nat /\ group[o].msgTimestamp[o] \in Nat
          /\ group[t].msgTimestamp[o] <= group[o].msgTimestamp[o]
      BY GroupParts DEF Inv, GroupsSound, AckNotAhead
    <3> QED
      BY <2>2, <3>2, <3>3 DEF Telling, Tells, RequestType
  <2> QED
    BY <2>1, <2>2 DEF Answers
<1>4. \A t, o \in Server : Answers(group[t], o) \subseteq Telling
  BY <1>3
<1>5. net' \in [Server -> [Server -> Seq(Telling)]]
  BY <1>1, <1>2, <1>4, StreamsCarry, InvShaped DEF Agreed, Telling
<1>6. Seq(Telling) \subseteq Seq(Telling')
  BY TellsStay, SeqMonotonic
<1> QED
  BY <1>5, <1>6

LEMMA HandlersStayAgreed ==
    ASSUME Inv, Agreed, [Next]_vars, NEW c \in Client,
           \A a, b \in Client : Home[a] = Home[b] => a = b
    PROVE  HandlerTells(c)'
<1> DEFINE s == Home[c]
           n == group[s].msgTimestamp[s]
<1>1. /\ s \in Server /\ group \in [Server -> GroupType] /\ posted \in Nat
      /\ pc \in [Client -> {"out", "joined", "posted", "sending", "ready"}]
      /\ out \in [Client -> RequestType \cup {NoRequest}]
      /\ out' \in [Client -> RequestType \cup {NoRequest}]
      /\ HandlerTells(c) /\ HandlerSound(c)
      /\ n \in Nat /\ GroupOK(group[s]) /\ n <= posted /\ MaxMsgs \in Nat
  BY NextKeeps, GroupParts, HomeAssumption, MaxMsgsAssumption
     DEF Inv, TypeOK, GroupsSound, Agreed
<1>2. /\ \A i \in 1..n : SameKey(Own(s, i)', Own(s, i))
      /\ Telling \subseteq Telling'
  BY <1>1, TellsStay
<1>3. ASSUME group'[s].msgTimestamp[s] = n, pc'[c] = pc[c], out'[c] = out[c]
      PROVE  HandlerTells(c)'
  <2>1. PICK N \in Nat : N = n
    BY <1>1
  <2>2. pc[c] = "posted" => N > 0 /\ SameKey(out[c], Own(s, N))
    BY <1>1, <2>1 DEF HandlerTells
  <2>3. pc[c] = "posted" => SameKey(out[c], Own(s, N)')
    <3>1. N > 0 => SameKey(Own(s, N)', Own(s, N))
      BY <1>2, <2>1
    <3> QED
      BY ONLY <2>2, <3>1 DEF SameKey
  <2>4. pc[c] = "sending" => out[c] \in Telling'
    BY <1>1, <1>2 DEF HandlerTells
  <2>5. group'[s].msgTimestamp[s] = N
    BY <1>3, <2>1
  <2> QED
    BY ONLY <1>3, <2>2, <2>3, <2>4, <2>5 DEF HandlerTells, Own
<1>4. CASE posted' = posted
  <2>1. group'[s].msgTimestamp[s] = n
    BY <1>1, <1>4, OwnCounter
  <2>2. CASE pc'[c] \in {"joined", "ready"}
    BY <2>2 DEF HandlerTells
  <2>3. CASE BuildUpdateMsg(c)
    <3> DEFINE req == [out[c] EXCEPT !.index = n, !.groupTimestamp = group[s].maxLamport]
    <3>1. /\ pc[c] = "posted" /\ pc'[c] = "sending" /\ out'[c] = req
      BY <1>1, <2>3 DEF BuildUpdateMsg
    <3>2. /\ out[c] \in UpdateMsgType /\ out[c].from = s
          /\ n > 0 /\ SameKey(out[c], Own(s, n))
      BY <1>1, <3>1 DEF HandlerSound, HandlerTells
    <3>3. /\ req \in UpdateMsgType /\ req.from = s /\ req.index = n
          /\ SameKey(req, Own(s, n))
      <4>1. group[s].maxLamport \in Nat
        BY <1>1, GroupParts
      <4> QED
        BY <1>1, <3>2, <4>1 DEF UpdateMsgType, SameKey
    <3> HIDE DEF req
    <3>4. req \in Telling
      BY <1>1, <3>2, <3>3 DEF Telling, Tells, RequestType
    <3> QED
      BY <1>2, <3>1, <3>4 DEF HandlerTells
  <2>4. CASE BuildGroupInfo(c)
    <3>1. pc'[c] = "sending" /\ out'[c] = SendGroupInfo(s, group[s])
      BY <1>1, <2>4 DEF BuildGroupInfo
    <3>2. out'[c] \in RequestType /\ out'[c].kind = "SendGroupInfo"
      BY <1>1, <3>1 DEF SendGroupInfo, NoRequest
    <3>3. out'[c] \in Telling'
      BY <3>2 DEF Telling
    <3> QED
      BY <3>1, <3>3 DEF HandlerTells
  <2> QED
    BY <1>1, <1>3, <1>4, <2>1, <2>2, <2>3, <2>4, HandlerMoves, InvShaped
<1>5. CASE posted' # posted
  <2>1. PICK d \in Client :
              LET t == Home[d]
              IN  /\ t \in Server
                  /\ group[t].made /\ posted < MaxMsgs /\ posted' = posted + 1
                  /\ group' = [group EXCEPT ![t] = Posted(@, t, posted + 1)]
                  /\ pc' = [pc EXCEPT ![d] = "posted"]
                  /\ out' = [out EXCEPT ![d] =
                        UpdateMsg(t, 0, NewMessage(group[t], t, posted + 1), 0)]
    BY <1>5, PostedBy, InvShaped
  <2>2. CASE d # c
    <3>1. Home[d] # s
      BY <2>2
    <3>2. group'[s] = group[s] /\ pc'[c] = pc[c] /\ out'[c] = out[c]
      BY <1>1, <2>1, <2>2, <3>1
    <3> QED
      BY <1>3, <3>2
  <2>3. CASE d = c
    <3> DEFINE x == NewMessage(group[s], s, posted + 1)
               k == Posted(group[s], s, posted + 1)
    <3>1. /\ group'[s] = k
          /\ pc'[c] = "posted" /\ out'[c] = UpdateMsg(s, 0, x, 0)
          /\ group[s].made /\ posted < MaxMsgs
      BY <1>1, <2>1, <2>3
    <3>2. n < MaxMsgs /\ posted + 1 \in Nat
      BY <1>1, <3>1
    <3>3. /\ k.msgTimestamp[s] = n + 1
          /\ SameKey(k.list.node[k.messageLamport[s][k.msgTimestamp[s]]], x)
      BY <1>1, <3>1, <3>2, PostedFiles
    <3> HIDE DEF k, x, n
    <3>4. SameKey(out'[c], x)
      BY <3>1 DEF UpdateMsg, SameKey
    <3>5. SameKey(out'[c], group'[s].list.node[group'[s].messageLamport[s][group'[s].msgTimestamp[s]]])
      BY <3>1, <3>3, <3>4 DEF SameKey
    <3>6. group'[s].msgTimestamp[s] > 0
      BY <1>1, <3>1, <3>3
    <3> QED
      BY ONLY <3>1, <3>5, <3>6 DEF HandlerTells, Own
  <2> QED
    BY <2>2, <2>3
<1> QED
  BY <1>4, <1>5

\* Where no two clients share a server, an index means the same message on every
\* server that has counted it.  Where two do, the second may post before the
\* first has read its index, and the property fails.
THEOREM LogsAgree ==
    ASSUME \A c, d \in Client : Home[c] = Home[d] => c = d
    PROVE  Spec => []LogAgreement
<1>1. Init /\ Inv => Agreed
  <2> SUFFICES ASSUME Init, Inv PROVE Agreed
    OBVIOUS
  <2>1. /\ \A s, o \in Server : group[s].msgTimestamp[o] = 0
        /\ \A c \in Client : pc[c] = "out"
    BY NoGroupOK DEF Init
  <2>2. net \in [Server -> [Server -> Seq(Telling)]]
    BY EmptySeq DEF Init
  <2>3. 1..0 = {}
    OBVIOUS
  <2> QED
    BY <2>1, <2>2, <2>3 DEF Agreed, LogAgreement, HandlerTells
<1>2. Inv /\ Agreed /\ [Next]_vars => Agreed'
  BY LogStaysAgreed, StreamsStayAgreed, HandlersStayAgreed DEF Agreed
<1>3. Agreed => LogAgreement
  BY DEF Agreed
<1> QED
  BY <1>1, <1>2, <1>3, Invariance, InitInv, PTL DEF Spec

-----------------------------------------------------------------------------
(***************************************************************************)
(* Servers that are started again.  Then an origin may have posted less    *)
(* than others have of it, and its old messages are no longer its own:     *)
(* what is left of the invariant is that no index exceeds the number of    *)
(* messages ever posted.                                                   *)
(***************************************************************************)
Counted == {m \in RequestType : m.kind = "UpdateMsg" => m.index <= posted}

HandlerCounted(c) == /\ pc[c] = "posted" => out[c] \in UpdateMsgType
                     /\ pc[c] = "sending" => out[c] \in Counted

CrashInv ==
    /\ Shaped
    /\ posted \in 0..MaxMsgs
    /\ \A s, o \in Server : group[s].msgTimestamp[o] <= posted
    /\ net \in [Server -> [Server -> Seq(Counted)]]
    /\ \A c \in Client : HandlerCounted(c)

\* What any operation does to a group of such servers.
LEMMA OperatedCounts ==
    ASSUME CrashInv, NEW s \in Server, NEW k, Operated(s, group[s], k)
    PROVE  /\ GroupOK(k) /\ k.made
           /\ Settled(k, group[s])
           /\ \A o \in Server : group[s].msgTimestamp[o] <= k.msgTimestamp[o]
           /\ \/ \A o \in Server : k.msgTimestamp[o] <= posted
              \/ /\ posted' = posted + 1
                 /\ \A o \in Server : k.msgTimestamp[o] <= posted + 1
<1> DEFINE g == group[s]
<1>1. /\ GroupOK(g) /\ g.msgTimestamp \in [Server -> Nat]
      /\ \A o \in Server : g.msgTimestamp[o] <= posted /\ g.msgTimestamp[o] \in Nat
      /\ posted \in Nat /\ posted <= MaxMsgs /\ MaxMsgs \in Nat
  BY GroupParts, MaxMsgsAssumption DEF CrashInv, Shaped
<1>2. CASE k = Joined(g, s)
  BY <1>1, <1>2, JoinedGroup, JoinedSettles
<1>3. ASSUME NEW m \in SendGroupInfoType, k = NamesInserted(g, m)
      PROVE  /\ GroupOK(k) /\ k.made /\ Settled(k, g)
             /\ k.msgTimestamp = g.msgTimestamp
  BY <1>1, <1>3, NamesInsertedGroup, NamesInsertedSettles
<1>4. ASSUME NEW m \in UpdateMsgType, k = MsgInserted(g, m),
             \E u \in Server : net[u][s] # <<>> /\ m = Head(net[u][s])
      PROVE  /\ GroupOK(k) /\ k.made /\ Settled(k, g)
             /\ \A o \in Server : /\ g.msgTimestamp[o] <= k.msgTimestamp[o]
                                  /\ k.msgTimestamp[o] <= posted
  <2>1. m \in Counted
    <3>1. PICK u \in Server : net[u][s] # <<>> /\ m = Head(net[u][s])
      BY <1>4
    <3>2. net[u][s] \in Seq(Counted)
      BY DEF CrashInv
    <3> QED
      BY <3>1, <3>2, HeadTailProperties
  <2>2. m.index <= posted /\ m.index \in Nat /\ m.index <= MaxMsgs
    <3>1. m.index <= posted /\ m.index \in Nat
      BY <2>1 DEF Counted, UpdateMsgType
    <3> QED
      BY ONLY <1>1, <3>1
  <2>3. GroupOK(k) /\ k.made /\ Counts(k, g, m) /\ Settled(k, g)
    BY <1>1, <1>4, <2>2, MsgInsertedGroup, MsgInsertedSettles
  <2> HIDE DEF g
  <2>4. ASSUME NEW o \in Server
        PROVE  g.msgTimestamp[o] <= k.msgTimestamp[o] /\ k.msgTimestamp[o] <= posted
    BY <1>1, <2>2, <2>3 DEF Counts
  <2> QED
    BY <2>3, <2>4
<1>5. CASE g.made /\ posted < MaxMsgs /\ k = Posted(g, s, posted + 1) /\ posted' = posted + 1
  <2>1. g.msgTimestamp[s] < MaxMsgs /\ posted + 1 \in Nat
    BY <1>1, <1>5
  <2>2. /\ GroupOK(k) /\ k.made /\ Settled(k, g)
        /\ k.msgTimestamp = [g.msgTimestamp EXCEPT ![s] = @ + 1]
    BY <1>1, <1>5, <2>1, PostedGroup, PostedSettles
  <2> HIDE DEF g
  <2>3. ASSUME NEW o \in Server
        PROVE  g.msgTimestamp[o] <= k.msgTimestamp[o] /\ k.msgTimestamp[o] <= posted + 1
    BY <1>1, <2>2
  <2> QED
    BY <1>5, <2>2, <2>3 DEF g
<1> QED
  BY <1>1, <1>2, <1>3, <1>4, <1>5 DEF Operated

\* The steps of Replication keep what the groups are.
LEMMA NextCountsGroups ==
    ASSUME CrashInv, [Next]_vars
    PROVE  /\ group' \in [Server -> GroupType]
           /\ posted' \in 0..MaxMsgs /\ posted <= posted' /\ posted' \in Nat
           /\ \A s \in Server : /\ GroupOK(group'[s])
                                /\ group[s].made => group'[s].made
                                /\ \A o \in Server : group'[s].msgTimestamp[o] <= posted'
<1>1. /\ Shaped /\ posted \in Nat /\ MaxMsgs \in Nat /\ posted <= MaxMsgs
      /\ group \in [Server -> GroupType]
  BY MaxMsgsAssumption DEF CrashInv, Shaped
<1>2. posted' \in 0..MaxMsgs /\ posted <= posted' /\ posted' \in Nat
  BY <1>1, PostedBy
<1>3. ASSUME NEW s \in Server
      PROVE  /\ GroupOK(group[s])
             /\ \A o \in Server : /\ group[s].msgTimestamp[o] <= posted
                                  /\ group[s].msgTimestamp[o] \in Nat
                                  /\ group[s].msgTimestamp[o] <= posted'
  <2>1. GroupOK(group[s])
    BY <1>1 DEF Shaped
  <2>2. \A o \in Server : group[s].msgTimestamp[o] <= posted
    BY DEF CrashInv
  <2>3. \A o \in Server : group[s].msgTimestamp[o] \in Nat
    BY <2>1, GroupParts
  <2> QED
    BY <1>1, <1>2, <2>1, <2>2, <2>3
<1>4. CASE group' = group
  BY <1>1, <1>2, <1>3, <1>4
<1>5. ASSUME NEW t \in Server, NEW k, group' = [group EXCEPT ![t] = k],
             Operated(t, group[t], k)
      PROVE  /\ group' \in [Server -> GroupType]
             /\ \A s \in Server : /\ GroupOK(group'[s])
                                  /\ group[s].made => group'[s].made
                                  /\ \A o \in Server : group'[s].msgTimestamp[o] <= posted'
  <2>1. /\ GroupOK(k) /\ k.made
        /\ \/ \A o \in Server : k.msgTimestamp[o] <= posted
           \/ /\ posted' = posted + 1
              /\ \A o \in Server : k.msgTimestamp[o] <= posted + 1
    BY <1>5, OperatedCounts
  <2>2. k \in GroupType /\ \A o \in Server : k.msgTimestamp[o] \in Nat
    BY <2>1, GroupParts DEF GroupOK
  <2>3. \A o \in Server : k.msgTimestamp[o] <= posted'
    BY <1>1, <1>2, <2>1, <2>2
  <2>4. \A s \in Server : group'[s] = IF s = t THEN k ELSE group[s]
    BY <1>1, <1>5
  <2>5. group' \in [Server -> GroupType]
    BY <1>1, <1>5, <2>2
  <2> QED
    BY <1>3, <2>1, <2>3, <2>4, <2>5
<1> QED
  BY <1>1, <1>2, <1>4, <1>5, GroupChanges

\* A handler goes on only at a server that has the group.
LEMMA HandlersJoin ==
    ASSUME CrashInv, [Next]_vars
    PROVE  /\ DOMAIN pc' = Client /\ DOMAIN out' = Client
           /\ \A c \in Client : pc'[c] # "out" => group'[Home[c]].made
<1> DEFINE Goal == /\ DOMAIN pc' = Client /\ DOMAIN out' = Client
                   /\ \A c \in Client : pc'[c] # "out" => pc[c] # "out" \/ Join(c)
<1>1. Shaped /\ DOMAIN pc = Client /\ DOMAIN out = Client
  BY DEF CrashInv, Shaped
<1>2. ASSUME NEW d \in Client, ClientStep(d) PROVE Goal
  <2>1. CASE Join(d)
    BY <1>1, <2>1 DEF Join
  <2>2. CASE BuildUpdateMsg(d) \/ BuildGroupInfo(d) \/ Broadcast(d)
    BY <1>1, <2>2 DEF BuildUpdateMsg, BuildGroupInfo, Broadcast
  <2>3. CASE AppendMessage(d)
    BY <1>1, <2>3 DEF AppendMessage, Panic
  <2> QED
    BY <1>2, <2>1, <2>2, <2>3 DEF ClientStep
<1>3. ASSUME UNCHANGED <<pc, out>> PROVE Goal
  BY <1>1, <1>3
<1>4. ASSUME NEW s \in Server, NEW t \in Server,
             ReplicaSetUp(s, t) \/ Break(s, t) \/ Heal(s, t) \/ Receive(s, t)
      PROVE  UNCHANGED <<pc, out>>
  BY <1>4 DEF ReplicaSetUp, Break, Heal, Receive, ReceiveUpdateMsg,
              ReceiveSendGroupInfo, ReceiveCheckForMerge, CheckForMergePanics, Panic
<1>5. ASSUME NEW s \in Server, Entropy(s) PROVE UNCHANGED <<pc, out>>
  BY <1>5 DEF Entropy
<1>6. ASSUME UNCHANGED vars PROVE UNCHANGED <<pc, out>>
  BY <1>6 DEF vars
<1> HIDE DEF Goal
<1>7. Goal
  BY <1>2, <1>3, <1>4, <1>5, <1>6 DEF Next
<1>8. ASSUME NEW c \in Client, pc'[c] # "out" PROVE group'[Home[c]].made
  <2> DEFINE s == Home[c]
  <2>1. s \in Server /\ group \in [Server -> GroupType] /\ GroupOK(group[s])
    BY <1>1, HomeAssumption DEF Shaped
  <2>2. CASE Join(c)
    <3>1. group'[s] = Joined(group[s], s)
      BY <2>1, <2>2 DEF Join
    <3> QED
      BY <2>1, <3>1, JoinedGroup
  <2>3. CASE pc[c] # "out"
    <3>1. group[s].made
      BY <1>1, <2>3 DEF Shaped
    <3>2. group[s].made => group'[s].made
      BY <2>1, NextCountsGroups
    <3> QED
      BY <3>1, <3>2
  <2> QED
    BY <1>7, <1>8, <2>2, <2>3 DEF Goal
<1> QED
  BY <1>7, <1>8 DEF Goal

LEMMA NextCounts ==
    ASSUME CrashInv, [Next]_vars
    PROVE  CrashInv'
<1>1. /\ Shaped /\ posted \in Nat
      /\ group \in [Server -> GroupType]
      /\ net \in [Server -> [Server -> Seq(Counted)]]
  BY MaxMsgsAssumption DEF CrashInv, Shaped
<1>2. /\ posted' \in 0..MaxMsgs /\ posted <= posted' /\ posted' \in Nat
      /\ group' \in [Server -> GroupType]
      /\ \A s \in Server : /\ GroupOK(group'[s])
                           /\ \A o \in Server : group'[s].msgTimestamp[o] <= posted'
  BY ONLY CrashInv, [Next]_vars, NextCountsGroups
<1>3. Counted \subseteq Counted' /\ Counted \subseteq RequestType /\ Counted' \subseteq RequestType
  <2>1. ASSUME NEW m \in RequestType, m.kind = "UpdateMsg" PROVE m.index \in Nat
    BY <2>1 DEF RequestType, UpdateMsgType, SendGroupInfoType, CheckForMergeType
  <2>2. ASSUME NEW i \in Nat, i <= posted PROVE i <= posted'
    BY <1>1, <1>2, <2>2
  <2> QED
    BY <2>1, <2>2 DEF Counted
<1>4. net' \in [Server -> [Server -> Seq(Counted)]]
  <2>1. CheckForMergeType \subseteq Counted
    BY DEF Counted, CheckForMergeType, RequestType
  <2>2. \A c \in Client : pc[c] = "sending" => out[c] \in Counted
    BY DEF CrashInv, HandlerCounted
  <2>3. ASSUME NEW t \in Server, NEW o \in Server, NEW r \in Answers(group[t], o)
        PROVE  r \in Counted
    <3>1. CASE r \in SendGroupInfoType
      BY <3>1 DEF Counted, SendGroupInfoType, RequestType
    <3>2. CASE r \in UpdateMsgType /\ r.index \in 1..group[t].msgTimestamp[o]
      <4>1. group[t].msgTimestamp[o] \in Nat /\ group[t].msgTimestamp[o] <= posted
        BY <1>1, GroupParts DEF CrashInv, Shaped
      <4>2. r.index <= posted
        BY <1>1, <3>2, <4>1
      <4> QED
        BY <3>2, <4>2 DEF Counted, RequestType
    <3> QED
      BY <3>1, <3>2 DEF Answers
  <2>4. \A t, o \in Server : Answers(group[t], o) \subseteq Counted
    BY <2>3
  <2> QED
    BY <1>1, <1>3, <2>1, <2>2, <2>4, StreamsCarry
<1>5. net' \in [Server -> [Server -> Seq(Counted')]]
  <2>1. Seq(Counted) \subseteq Seq(Counted')
    BY <1>3, SeqMonotonic
  <2> QED
    BY <1>4, <2>1
<1>6. net' \in [Server -> [Server -> Seq(RequestType)]]
  <2>1. Seq(Counted) \subseteq Seq(RequestType)
    BY <1>3, SeqMonotonic
  <2> QED
    BY <1>4, <2>1
<1>7. ASSUME NEW c \in Client PROVE HandlerCounted(c)'
  <2> DEFINE s == Home[c]
  <2>1. /\ s \in Server /\ HandlerCounted(c) /\ DOMAIN pc = Client /\ DOMAIN out = Client
        /\ GroupOK(group[s]) /\ group[s].msgTimestamp[s] \in Nat
        /\ group[s].maxLamport \in Nat /\ group[s].msgTimestamp[s] <= posted
    BY <1>1, HomeAssumption, GroupParts DEF CrashInv, Shaped
  <2>2. CASE pc'[c] = pc[c] /\ out'[c] = out[c]
    BY <1>3, <2>1, <2>2 DEF HandlerCounted
  <2>3. CASE pc'[c] \in {"joined", "ready"}
    BY <2>3 DEF HandlerCounted
  <2>4. CASE BuildUpdateMsg(c)
    <3> DEFINE i == group[s].msgTimestamp[s]
               req == [out[c] EXCEPT !.index = i, !.groupTimestamp = group[s].maxLamport]
    <3>1. pc[c] = "posted" /\ pc'[c] = "sending" /\ out'[c] = req
      BY <2>1, <2>4 DEF BuildUpdateMsg
    <3>2. out[c] \in UpdateMsgType
      BY <2>1, <3>1 DEF HandlerCounted
    <3>3. req \in UpdateMsgType /\ req.index = i
      BY <2>1, <3>2 DEF UpdateMsgType
    <3> HIDE DEF req
    <3>4. req \in Counted
      BY <2>1, <3>3 DEF Counted, RequestType
    <3> QED
      BY <1>3, <3>1, <3>4 DEF HandlerCounted
  <2>5. CASE BuildGroupInfo(c)
    <3>1. pc'[c] = "sending" /\ out'[c] = SendGroupInfo(s, group[s])
      BY <2>1, <2>5 DEF BuildGroupInfo
    <3>2. SendGroupInfo(s, group[s]) \in SendGroupInfoType
      BY <2>1, <1>1 DEF SendGroupInfo, SendGroupInfoType, GroupType
    <3>3. SendGroupInfo(s, group[s]) \in Counted
      BY <3>2 DEF Counted, SendGroupInfoType, RequestType
    <3> QED
      BY <1>3, <3>1, <3>3 DEF HandlerCounted
  <2>6. CASE AppendMessage(c) /\ posted' = posted + 1
    <3>1. posted' # posted
      BY <1>1, <2>6
    <3>2. pc'[c] = "posted"
          /\ out'[c] = UpdateMsg(s, 0, NewMessage(group[s], s, posted + 1), 0)
      BY <2>1, <2>6, <3>1 DEF AppendMessage, Panic
    <3>3. out'[c] \in UpdateMsgType
      BY <1>1, <2>1, <3>2 DEF UpdateMsg, NewMessage, UpdateMsgType
    <3> QED
      BY <3>2, <3>3 DEF HandlerCounted
  <2> QED
    BY <1>1, <2>2, <2>3, <2>4, <2>5, <2>6, HandlerMoves
<1>8. Shaped'
  BY <1>2, <1>6, HandlersJoin DEF Shaped
<1> QED
  BY <1>2, <1>5, <1>7, <1>8 DEF CrashInv

\* So do the end of a server and a new start of it.
LEMMA RelaunchCounts ==
    ASSUME CrashInv, NEW s \in Server, Kill(s) \/ Relaunch(s)
    PROVE  CrashInv'
<1>1. /\ Shaped /\ posted \in Nat /\ group \in [Server -> GroupType]
      /\ net \in [Server -> [Server -> Seq(Counted)]]
      /\ \A t \in Server : GroupOK(group[t])
      /\ posted' = posted
      /\ DOMAIN pc = Client /\ DOMAIN out = Client
  BY MaxMsgsAssumption DEF CrashInv, Shaped, Kill, Panic, Relaunch
<1>2. Counted' = Counted /\ Counted \subseteq RequestType
  BY <1>1 DEF Counted
<1>3. net' \in [Server -> [Server -> Seq(Counted)]]
  <2>1. net' = net \/ net' = [t \in Server |-> [u \in Server |->
                                  IF s \in {t, u} THEN <<>> ELSE net[t][u]]]
    BY DEF Kill, Panic, Relaunch
  <2>2. <<>> \in Seq(Counted)
    BY EmptySeq
  <2> DEFINE S == Seq(Counted)
  <2> HIDE DEF S
  <2>3. net \in [Server -> [Server -> S]] /\ <<>> \in S
    BY <1>1, <2>2 DEF S
  <2>4. net' \in [Server -> [Server -> S]]
    BY ONLY <2>1, <2>3
  <2> QED
    BY <2>4 DEF S
<1>4. net' \in [Server -> [Server -> Seq(RequestType)]]
  <2>1. Seq(Counted) \subseteq Seq(RequestType)
    BY <1>2, SeqMonotonic
  <2> QED
    BY <1>3, <2>1
<1>5. CASE Kill(s)
  <2>1. group' = group /\ pc' = pc /\ out' = out
    BY <1>5 DEF Kill, Panic
  <2>2. Shaped'
    BY <1>1, <1>4, <2>1 DEF Shaped
  <2>3. \A c \in Client : HandlerCounted(c)'
    BY <1>2, <2>1 DEF CrashInv, HandlerCounted
  <2> QED
    BY <1>1, <1>2, <1>3, <2>1, <2>2, <2>3 DEF CrashInv
<1>6. CASE Relaunch(s)
  <2>1. GroupOK(NoGroup) /\ NoGroup \in GroupType
        /\ \A o \in Server : NoGroup.msgTimestamp[o] = 0
    BY NoGroupOK DEF GroupOK
  <2>2. /\ group' = [group EXCEPT ![s] = NoGroup]
        /\ pc' = [c \in Client |-> IF Home[c] = s THEN "out" ELSE pc[c]]
        /\ out' = [c \in Client |-> IF Home[c] = s THEN NoRequest ELSE out[c]]
    BY <1>6 DEF Relaunch
  <2>3. \A t \in Server : group'[t] = IF t = s THEN NoGroup ELSE group[t]
    BY <1>1, <2>2
  <2>4. group' \in [Server -> GroupType] /\ \A t \in Server : GroupOK(group'[t])
    BY <1>1, <2>1, <2>2, <2>3
  <2>5. ASSUME NEW t \in Server, NEW o \in Server PROVE group'[t].msgTimestamp[o] <= posted
    <3>1. group[t].msgTimestamp[o] <= posted
      BY DEF CrashInv
    <3>2. 0 <= posted
      BY ONLY <1>1
    <3> QED
      BY ONLY <2>1, <2>3, <3>1, <3>2
  <2>6. ASSUME NEW c \in Client
        PROVE  /\ pc'[c] # "out" => group'[Home[c]].made
               /\ HandlerCounted(c)'
    <3>1. CASE Home[c] = s
      BY <2>2, <3>1 DEF HandlerCounted
    <3>2. CASE Home[c] # s
      <4>1. Home[c] \in Server /\ pc'[c] = pc[c] /\ out'[c] = out[c]
        BY <2>2, <3>2, HomeAssumption
      <4>2. group'[Home[c]] = group[Home[c]]
        BY <2>3, <3>2, <4>1
      <4> QED
        BY <1>1, <1>2, <4>1, <4>2 DEF CrashInv, Shaped, HandlerCounted
    <3> QED
      BY <3>1, <3>2
  <2>7. Shaped'
    BY <1>4, <2>2, <2>4, <2>6 DEF Shaped
  <2> QED
    BY <1>1, <1>2, <1>3, <2>5, <2>6, <2>7 DEF CrashInv
<1> QED
  BY <1>5, <1>6

\* What a running server has counted under an index is the same message after
\* any step, whatever servers are started again.
THEOREM FiledTill == CrashSpec => FiledUntilRelaunch
<1> DEFINE Stay(s, o) ==
        \A i \in 1..group[s].msgTimestamp[o] :
            s \in up =>
                /\ group'[s].msgTimestamp[o] >= i
                /\ SameKey(group'[s].list.node[group'[s].messageLamport[o][i]],
                           group[s].list.node[group[s].messageLamport[o][i]])
<1>1. CrashInit => CrashInv
  <2> SUFFICES ASSUME CrashInit PROVE CrashInv
    OBVIOUS
  <2>1. /\ GroupOK(NoGroup) /\ NoGroup \in GroupType
        /\ \A o \in Server : NoGroup.msgTimestamp[o] = 0
    BY NoGroupOK DEF GroupOK
  <2>2. /\ group = [t \in Server |-> NoGroup] /\ posted = 0
        /\ pc = [c \in Client |-> "out"] /\ out = [c \in Client |-> NoRequest]
    BY DEF CrashInit, Init
  <2>3. /\ net \in [Server -> [Server -> Seq(Counted)]]
        /\ net \in [Server -> [Server -> Seq(RequestType)]]
    BY EmptySeq DEF CrashInit, Init
  <2>4. Shaped
    BY <2>1, <2>2, <2>3 DEF Shaped
  <2> QED
    BY <2>1, <2>2, <2>3, <2>4, MaxMsgsAssumption DEF CrashInv, HandlerCounted
<1>2. CrashInv /\ [CrashNext]_crashVars => CrashInv'
  <2> SUFFICES ASSUME CrashInv, [CrashNext]_crashVars PROVE CrashInv'
    OBVIOUS
  <2>1. CASE [Next]_vars
    BY <2>1, NextCounts
  <2> QED
    BY <2>1, RelaunchCounts DEF CrashNext, crashVars
<1>3. ASSUME CrashInv, [CrashNext]_crashVars, NEW s \in Server, NEW o \in Server
      PROVE  Stay(s, o)
  <2>1. /\ group \in [Server -> GroupType]
        /\ LogHeld(group[s]) /\ group[s].msgTimestamp[o] \in Nat
    BY <1>3, GroupParts DEF CrashInv, Shaped, GroupOK
  <2>2. CASE group'[s] = group[s]
    BY <2>1, <2>2 DEF SameKey
  <2>3. CASE [Next]_vars
    <3>1. ASSUME NEW k, group' = [group EXCEPT ![s] = k], Operated(s, group[s], k)
          PROVE  Stay(s, o)
      <4>1. /\ group'[s] = k /\ Settled(k, group[s])
            /\ group[s].msgTimestamp[o] <= k.msgTimestamp[o] /\ k.msgTimestamp[o] \in Nat
        BY <1>3, <2>1, <3>1, OperatedCounts, GroupParts
      <4> SUFFICES ASSUME NEW i \in 1..group[s].msgTimestamp[o]
                   PROVE  /\ k.msgTimestamp[o] >= i
                          /\ SameKey(k.list.node[k.messageLamport[o][i]],
                                     group[s].list.node[group[s].messageLamport[o][i]])
        BY <4>1
      <4>2. group[s].messageLamport[o][i] \in Nodes(group[s].list)
        BY <2>1 DEF LogHeld
      <4> QED
        BY <2>1, <4>1, <4>2 DEF Settled
    <3>2. PICK t \in Server : \/ group' = group
                              \/ \E k : /\ group' = [group EXCEPT ![t] = k]
                                        /\ Operated(t, group[t], k)
      BY <1>3, <2>3, GroupChanges DEF CrashInv
    <3>3. t # s => group'[s] = group[s]
      BY <2>1, <3>2
    <3> QED
      BY <2>2, <3>1, <3>2, <3>3
  <2>4. ASSUME NEW t \in Server, Kill(t) PROVE Stay(s, o)
    BY <2>2, <2>4 DEF Kill, Panic
  <2>5. ASSUME NEW t \in Server, Relaunch(t) PROVE Stay(s, o)
    <3>1. CASE t = s
      BY <2>5, <3>1 DEF Relaunch
    <3>2. CASE t # s
      BY <2>1, <2>2, <2>5, <3>2 DEF Relaunch
    <3> QED
      BY <3>1, <3>2
  <2> HIDE DEF Stay
  <2> QED
    BY <1>3, <2>3, <2>4, <2>5 DEF CrashNext, crashVars
<1>4. CrashInv /\ [CrashNext]_crashVars =>
        [\A s, o \in Server : \A i \in 1..group[s].msgTimestamp[o] :
            s \in up =>
                /\ group'[s].msgTimestamp[o] >= i
                /\ SameKey(group'[s].list.node[group'[s].messageLamport[o][i]],
                           group[s].list.node[group[s].messageLamport[o][i]])]_crashVars
  BY <1>3
<1> QED
  BY <1>1, <1>2, <1>4, PTL DEF CrashSpec, FiledUntilRelaunch
=============================================================================
