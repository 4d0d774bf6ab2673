----------------------------- MODULE WalkProofs -----------------------------
(***************************************************************************)
(* Walking a linked list whose nodes are the numbers 1..N: what the walk   *)
(* finds, and what it finds after one more node has been linked.  The      *)
(* lists of messages (MessageList) and of likes (ActivityList) are both    *)
(* such lists.                                                             *)
(*                                                                         *)
(* The walk is a recursive function, and its length the number of places   *)
(* where it is not nil.  Instead of reasoning about that, the proofs keep  *)
(* the sequence of nodes itself (Chain), which ChainIsWalk shows to be     *)
(* what the walk returns.                                                  *)
(***************************************************************************)
EXTENDS Integers, Sequences, FiniteSetTheorems, SequenceTheorems,
        WellFoundedInduction, TLAPS

\* Walk of MessageList, with the list taken apart; 0 is nil.
From(nodes, head, next) ==
    LET at[k \in nodes] == IF k = 1 THEN head ELSE next[at[k - 1]]
        met == {k \in nodes : at[k] # 0}
    IN  [k \in 1..Cardinality(met) |-> at[k]]

\* v holds the nodes from "head" to nil along "next", each of them once.
Chain(N, head, next, v) ==
    /\ v \in Seq(1..N)
    /\ \A j, k \in 1..Len(v) : v[j] = v[k] => j = k
    /\ head = IF Len(v) = 0 THEN 0 ELSE v[1]
    /\ \A k \in 1..Len(v) : next[v[k]] = IF k = Len(v) THEN 0 ELSE v[k + 1]

-----------------------------------------------------------------------------
\* Every set of numbers that is not empty has a least one.
LEMMA Least ==
    ASSUME NEW S, S \subseteq Nat, S # {}
    PROVE  \E n \in S : \A m \in S : n <= m
<1> DEFINE R == OpToRel(<, Nat)
<1>1. IsWellFoundedOn(R, Nat)
  BY NatLessThanWellFounded
<1>2. PICK n \in S : \A m \in S : ~(<<m, n>> \in R)
  <2> HIDE DEF R
  <2> QED
    BY <1>1, WFMin
<1>3. ASSUME NEW m \in S PROVE ~(m < n)
  <2>1. <<m, n>> \in Nat \X Nat /\ <<m, n>>[1] = m /\ <<m, n>>[2] = n
    OBVIOUS
  <2>2. <<m, n>> \notin R
    BY <1>2
  <2> QED
    BY <2>1, <2>2 DEF OpToRel
<1> QED
  BY <1>3

\* What holds of 0 and of each next number holds of all.
LEMMA Induct ==
    ASSUME NEW S, 0 \in S, \A n \in Nat : n \in S => n + 1 \in S
    PROVE  Nat \subseteq S
<1> SUFFICES ASSUME NEW x \in Nat, x \notin S PROVE FALSE
  OBVIOUS
<1> DEFINE T == {n \in Nat : n \notin S}
<1>1. PICK n \in T : \A m \in T : n <= m
  <2>1. T \subseteq Nat /\ T # {}
    OBVIOUS
  <2> HIDE DEF T
  <2> QED
    BY <2>1, Least
<1>2. n \in Nat /\ n # 0
  OBVIOUS
<1>3. n - 1 \in Nat /\ ~(n <= n - 1)
  BY <1>2
<1>4. n - 1 \in S
  BY <1>1, <1>3
<1> QED
  BY <1>2, <1>3, <1>4

\* A sequence without repetitions is not longer than there are nodes.
LEMMA ChainLength ==
    ASSUME NEW N \in Nat, NEW head, NEW next, NEW v, Chain(N, head, next, v)
    PROVE  /\ Len(v) \in 0..N
           /\ v \in [1..Len(v) -> 1..N]
           /\ \A k \in 1..Len(v) : v[k] \in 1..N
<1>1. v \in Seq(1..N) /\ Len(v) \in Nat /\ v \in [1..Len(v) -> 1..N]
  BY LenProperties DEF Chain
<1>2. IsFiniteSet(1..Len(v)) /\ Cardinality(1..Len(v)) = Len(v)
      /\ IsFiniteSet(1..N) /\ Cardinality(1..N) = N
  <2>1. \A b \in Nat : IsFiniteSet(1..b) /\ Cardinality(1..b) = IF 1 > b THEN 0 ELSE b - 1 + 1
    BY FS_Interval
  <2>2. \A b \in Nat : (IF 1 > b THEN 0 ELSE b - 1 + 1) = b
    OBVIOUS
  <2> QED
    BY <1>1, <2>1, <2>2
<1>3. ~(N < Len(v))
  <2> SUFFICES ASSUME N < Len(v) PROVE FALSE
    OBVIOUS
  <2>1. \E x, y \in 1..Len(v) : x # y /\ v[x] = v[y]
    BY <1>1, <1>2, FS_PigeonHole
  <2> QED
    BY <2>1 DEF Chain
<1> QED
  BY <1>1, <1>3

\* The walk is the chain.
LEMMA ChainIsWalk ==
    ASSUME NEW N \in Nat, NEW nodes, nodes = 1..N, NEW head, NEW next, next[0] = 0,
           NEW v, Chain(N, head, next, v)
    PROVE  From(nodes, head, next) = v
<1> DEFINE at[k \in nodes] == IF k = 1 THEN head ELSE next[at[k - 1]]
           met == {k \in nodes : at[k] # 0}
           L == Len(v)
           along(f) == [k \in nodes |-> IF k = 1 THEN head ELSE next[f[k - 1]]]
           place(k) == IF k <= L THEN v[k] ELSE 0
           f0 == [k \in nodes |-> place(k)]
<1>0. /\ head = IF L = 0 THEN 0 ELSE v[1]
      /\ \A k \in 1..L : next[v[k]] = IF k = L THEN 0 ELSE v[k + 1]
  BY DEF Chain
<1>1. L \in 0..N /\ v \in [1..L -> 1..N] /\ \A k \in 1..L : v[k] \in 1..N
  BY ChainLength
<1> HIDE DEF L
<1>2. head = place(1)
  BY <1>0, <1>1
<1>3. \A k \in 1..N : k # 1 => k - 1 \in 1..N /\ next[place(k - 1)] = place(k)
  <2> SUFFICES ASSUME NEW k \in 1..N, k # 1 PROVE k - 1 \in 1..N /\ next[place(k - 1)] = place(k)
    OBVIOUS
  <2>1. CASE k - 1 <= L
    <3>1. k - 1 \in 1..L /\ next[v[k - 1]] = IF k - 1 = L THEN 0 ELSE v[(k - 1) + 1]
      BY <1>0, <1>1, <2>1
    <3> QED
      BY <1>1, <2>1, <3>1
  <2>2. CASE ~(k - 1 <= L)
    BY <1>1, <2>2
  <2> QED
    BY <2>1, <2>2
<1>4. f0 = along(f0)
  <2> SUFFICES ASSUME NEW k \in nodes PROVE f0[k] = IF k = 1 THEN head ELSE next[f0[k - 1]]
    OBVIOUS
  <2> HIDE DEF place
  <2> QED
    BY <1>2, <1>3
<1>5. at = along(at)
  <2>1. \E f : f = along(f)
    BY <1>4
  <2>2. at = CHOOSE f : f = along(f)
    BY DEF at
  <2> HIDE DEF at, along
  <2> QED
    BY <2>1, <2>2
<1> HIDE DEF at
<1>6. \A k \in nodes : at[k] = IF k = 1 THEN head ELSE next[at[k - 1]]
  BY <1>5
<1>7. \A k \in 1..N : at[k] = place(k)
  <2> DEFINE T == {k \in 1..N : at[k] # place(k)}
  <2> SUFFICES ASSUME T # {} PROVE FALSE
    OBVIOUS
  <2>1. PICK n \in T : \A m \in T : n <= m
    <3>1. T \subseteq Nat
      OBVIOUS
    <3> HIDE DEF T
    <3> QED
      BY <3>1, Least
  <2>2. n \in 1..N /\ at[n] # place(n)
    OBVIOUS
  <2> HIDE DEF place
  <2>3. n # 1
    BY <1>2, <1>6, <2>2
  <2>4. n - 1 \in 1..N /\ next[place(n - 1)] = place(n)
    BY <1>3, <2>2, <2>3
  <2>5. at[n - 1] = place(n - 1)
    BY <2>1, <2>4
  <2> QED
    BY <1>6, <2>2, <2>3, <2>4, <2>5
<1>8. met = 1..L
  BY <1>1, <1>7
<1>9. Cardinality(met) = L
  <2>1. Cardinality(1..L) = IF 1 > L THEN 0 ELSE L - 1 + 1
    BY <1>1, FS_Interval
  <2>2. (IF 1 > L THEN 0 ELSE L - 1 + 1) = L
    BY <1>1
  <2> HIDE DEF met
  <2> QED
    BY <1>8, <2>1, <2>2
<1>10. From(nodes, head, next) = [k \in 1..Cardinality(met) |-> at[k]]
  BY DEF From, at
<1>11. [k \in 1..L |-> at[k]] = v
  <2>1. \A k \in 1..L : at[k] = v[k]
    BY <1>1, <1>7
  <2> QED
    BY <1>1, <2>1
<1> QED
  BY <1>9, <1>10, <1>11

-----------------------------------------------------------------------------
(***************************************************************************)
(* One more node, N + 1.                                                   *)
(***************************************************************************)
\* The chain up to its p-th node, and then the new one.
Cut(v, p, new) == [k \in 1..(p + 1) |-> IF k <= p THEN v[k] ELSE new]

\* The chain with the new node between its p-th and what follows.
Put(v, p, new) == [k \in 1..(Len(v) + 1) |-> IF k <= p THEN v[k]
                                            ELSE IF k = p + 1 THEN new ELSE v[k - 1]]

\* The parts of a chain.
LEMMA ChainParts ==
    ASSUME NEW N \in Nat, NEW head, NEW next, NEW v, Chain(N, head, next, v)
    PROVE  /\ Len(v) \in Nat
           /\ v \in [1..Len(v) -> 1..N]
           /\ \A k \in 1..Len(v) : v[k] \in Nat /\ 1 <= v[k] /\ v[k] <= N
           /\ \A j, k \in 1..Len(v) : v[j] = v[k] => j = k
           /\ head = IF Len(v) = 0 THEN 0 ELSE v[1]
           /\ \A k \in 1..Len(v) : next[v[k]] = IF k = Len(v) THEN 0 ELSE v[k + 1]
<1>1. v \in [1..Len(v) -> 1..N] /\ Len(v) \in 0..N
  BY ChainLength
<1>2. \A k \in 1..Len(v) : v[k] \in 1..N
  BY <1>1
<1>3. /\ \A j, k \in 1..Len(v) : v[j] = v[k] => j = k
      /\ head = IF Len(v) = 0 THEN 0 ELSE v[1]
      /\ \A k \in 1..Len(v) : next[v[k]] = IF k = Len(v) THEN 0 ELSE v[k + 1]
  BY DEF Chain
<1>4. Len(v) \in Nat /\ \A k \in 1..Len(v) : v[k] \in Nat /\ 1 <= v[k] /\ v[k] <= N
  BY <1>1, <1>2
<1> QED
  BY <1>1, <1>3, <1>4

\* A function on an interval from 1 is a sequence.
LEMMA SequenceIs ==
    ASSUME NEW S, NEW L \in Nat, NEW v \in [1..L -> S]
    PROVE  v \in Seq(S) /\ Len(v) = L
  BY SeqDef

\* Linked after the p-th node, in front of nothing: what followed is cut off.
LEMMA ChainCut ==
    ASSUME NEW N \in Nat, NEW head, NEW next, NEW v, Chain(N, head, next, v),
           NEW p \in 0..Len(v), p = 0 => Len(v) = 0,
           NEW head2, head2 = IF Len(v) = 0 THEN N + 1 ELSE head,
           NEW next2, next2[N + 1] = 0,
           p > 0 => next2[v[p]] = N + 1,
           \A k \in 1..Len(v) : k # p => next2[v[k]] = next[v[k]]
    PROVE  Chain(N + 1, head2, next2, Cut(v, p, N + 1)) /\ Len(Cut(v, p, N + 1)) = p + 1
<1> DEFINE w == Cut(v, p, N + 1)
           L == Len(v)
<1>1. /\ L \in Nat
      /\ \A k \in 1..L : v[k] \in Nat /\ 1 <= v[k] /\ v[k] <= N
      /\ \A j, k \in 1..L : v[j] = v[k] => j = k
      /\ head = IF L = 0 THEN 0 ELSE v[1]
      /\ \A k \in 1..L : next[v[k]] = IF k = L THEN 0 ELSE v[k + 1]
  BY ChainParts
<1>2. p \in 0..L /\ p \in Nat /\ p <= L
  BY <1>1
<1> HIDE DEF L
<1>3. \A k \in 1..(p + 1) : w[k] = IF k <= p THEN v[k] ELSE N + 1
  BY DEF Cut
<1>4. w \in [1..(p + 1) -> 1..(N + 1)]
  BY <1>1, <1>2 DEF Cut
<1>5. \A j, k \in 1..(p + 1) : w[j] = w[k] => j = k
  <2> SUFFICES ASSUME NEW j \in 1..(p + 1), NEW k \in 1..(p + 1), w[j] = w[k] PROVE j = k
    OBVIOUS
  <2>1. \A i \in 1..(p + 1) : i \in 1..L \/ i = p + 1
    BY <1>1, <1>2
  <2>2. \A i \in 1..L : v[i] # N + 1
    BY <1>1
  <2> HIDE DEF w
  <2> QED
    BY <1>1, <1>2, <1>3, <2>1, <2>2
<1>6. head2 = w[1]
  BY <1>1, <1>2, <1>3 DEF L
<1>7. \A k \in 1..(p + 1) : next2[w[k]] = IF k = p + 1 THEN 0 ELSE w[k + 1]
  <2> SUFFICES ASSUME NEW k \in 1..(p + 1) PROVE next2[w[k]] = IF k = p + 1 THEN 0 ELSE w[k + 1]
    OBVIOUS
  <2> HIDE DEF w
  <2>1. CASE k = p + 1
    BY <1>2, <1>3, <2>1
  <2>2. CASE k = p
    BY <1>2, <1>3, <2>2
  <2>3. CASE k < p
    <3>1. k \in 1..L /\ k # L /\ k # p /\ k + 1 \in 1..(p + 1) /\ k + 1 <= p /\ k <= p
      BY <1>1, <1>2, <2>3
    <3>2. next2[v[k]] = v[k + 1]
      BY <1>1, <3>1 DEF L
    <3> QED
      BY <1>3, <3>1, <3>2
  <2> QED
    BY <1>2, <2>1, <2>2, <2>3
<1> HIDE DEF w
<1>8. PICK M, NN : M = p + 1 /\ NN = N + 1
  OBVIOUS
<1>9. M \in Nat /\ NN \in Nat /\ head2 = IF M = 0 THEN 0 ELSE w[1]
  BY <1>1, <1>2, <1>6, <1>8
<1>10. /\ w \in [1..M -> 1..NN]
       /\ \A j, k \in 1..M : w[j] = w[k] => j = k
       /\ \A k \in 1..M : next2[w[k]] = IF k = M THEN 0 ELSE w[k + 1]
  BY <1>4, <1>5, <1>7, <1>8
<1>11. w \in Seq(1..NN) /\ Len(w) = M
  BY <1>9, <1>10, SequenceIs
<1>12. Chain(NN, head2, next2, w)
  BY ONLY <1>9, <1>10, <1>11 DEF Chain
<1> QED
  BY <1>8, <1>11, <1>12 DEF w

\* Linked after the p-th node, in front of the next; after no node, as head.
LEMMA ChainPut ==
    ASSUME NEW N \in Nat, NEW head, NEW next, NEW v, Chain(N, head, next, v),
           NEW p \in 0..Len(v),
           NEW head2, head2 = IF p = 0 THEN N + 1 ELSE head,
           NEW next2, next2[N + 1] = IF p = Len(v) THEN 0 ELSE v[p + 1],
           p > 0 => next2[v[p]] = N + 1,
           \A k \in 1..Len(v) : k # p => next2[v[k]] = next[v[k]]
    PROVE  Chain(N + 1, head2, next2, Put(v, p, N + 1)) /\ Len(Put(v, p, N + 1)) = Len(v) + 1
<1> DEFINE w == Put(v, p, N + 1)
           L == Len(v)
<1>1. /\ L \in Nat
      /\ \A k \in 1..L : v[k] \in Nat /\ 1 <= v[k] /\ v[k] <= N
      /\ \A j, k \in 1..L : v[j] = v[k] => j = k
      /\ head = IF L = 0 THEN 0 ELSE v[1]
      /\ \A k \in 1..L : next[v[k]] = IF k = L THEN 0 ELSE v[k + 1]
  BY ChainParts
<1>2. p \in 0..L /\ p \in Nat /\ p <= L
  BY <1>1
<1>3. \A k \in 1..(L + 1) : w[k] = IF k <= p THEN v[k] ELSE IF k = p + 1 THEN N + 1 ELSE v[k - 1]
  BY DEF Put
<1>4. w \in [1..(L + 1) -> 1..(N + 1)]
  <2>1. \A k \in 1..(L + 1) : (IF k <= p THEN v[k] ELSE IF k = p + 1 THEN N + 1 ELSE v[k - 1]) \in 1..(N + 1)
    <3> SUFFICES ASSUME NEW k \in 1..(L + 1)
                 PROVE (IF k <= p THEN v[k] ELSE IF k = p + 1 THEN N + 1 ELSE v[k - 1]) \in 1..(N + 1)
      OBVIOUS
    <3>1. k <= p => k \in 1..L
      BY <1>1, <1>2
    <3>2. ~(k <= p) /\ k # p + 1 => k - 1 \in 1..L
      BY <1>1, <1>2
    <3>3. \A i \in 1..L : v[i] \in 1..(N + 1)
      BY <1>1
    <3> QED
      BY <3>1, <3>2, <3>3
  <2> QED
    BY <1>1, <1>2, <1>3, <2>1 DEF Put, L
<1> HIDE DEF L
<1>5. \A j, k \in 1..(L + 1) : w[j] = w[k] => j = k
  <2> SUFFICES ASSUME NEW j \in 1..(L + 1), NEW k \in 1..(L + 1), w[j] = w[k] PROVE j = k
    OBVIOUS
  <2> HIDE DEF w
  <2>1. \A i \in 1..(L + 1) :
           \/ i <= p /\ i \in 1..L /\ w[i] = v[i]
           \/ i = p + 1 /\ w[i] = N + 1
           \/ i > p + 1 /\ i - 1 \in 1..L /\ w[i] = v[i - 1]
    BY <1>1, <1>2, <1>3
  <2>2. \A i \in 1..L : v[i] # N + 1
    BY <1>1
  <2>3. \A a, b \in 1..L : v[a] = v[b] => a = b
    BY <1>1
  <2> QED
    BY <1>2, <2>1, <2>2, <2>3
<1>6. head2 = w[1]
  <2> HIDE DEF w
  <2> QED
    BY <1>1, <1>2, <1>3
<1>7. \A k \in 1..(L + 1) : next2[w[k]] = IF k = L + 1 THEN 0 ELSE w[k + 1]
  <2> SUFFICES ASSUME NEW k \in 1..(L + 1) PROVE next2[w[k]] = IF k = L + 1 THEN 0 ELSE w[k + 1]
    OBVIOUS
  <2> HIDE DEF w
  <2>1. CASE k = p + 1
    <3>1. next2[N + 1] = IF p = L THEN 0 ELSE v[p + 1]
      BY DEF L
    <3> QED
      BY <1>1, <1>2, <1>3, <2>1, <3>1
  <2>2. CASE k = p
    BY <1>1, <1>2, <1>3, <2>2
  <2>3. CASE k < p
    <3>1. k \in 1..L /\ k # L /\ k # p /\ k + 1 \in 1..(L + 1) /\ k + 1 <= p /\ k <= p
      BY <1>1, <1>2, <2>3
    <3>2. next2[v[k]] = v[k + 1]
      BY <1>1, <3>1 DEF L
    <3> QED
      BY <1>3, <3>1, <3>2
  <2>4. CASE k > p + 1
    <3>1. k - 1 \in 1..L /\ k - 1 # p /\ ~(k <= p) /\ k # p + 1
      BY <1>1, <1>2, <2>4
    <3>2. next2[v[k - 1]] = IF k - 1 = L THEN 0 ELSE v[(k - 1) + 1]
      BY <1>1, <3>1 DEF L
    <3>3. k # L + 1 => k + 1 \in 1..(L + 1) /\ ~(k + 1 <= p) /\ k + 1 # p + 1 /\ (k + 1) - 1 = (k - 1) + 1
      BY <1>1, <1>2, <2>4
    <3> QED
      BY <1>1, <1>3, <3>1, <3>2, <3>3
  <2> QED
    BY <1>2, <2>1, <2>2, <2>3, <2>4
<1> HIDE DEF w
<1>8. PICK M, NN : M = L + 1 /\ NN = N + 1
  OBVIOUS
<1>9. M \in Nat /\ NN \in Nat /\ head2 = IF M = 0 THEN 0 ELSE w[1]
  BY <1>1, <1>2, <1>6, <1>8
<1>10. /\ w \in [1..M -> 1..NN]
       /\ \A j, k \in 1..M : w[j] = w[k] => j = k
       /\ \A k \in 1..M : next2[w[k]] = IF k = M THEN 0 ELSE w[k + 1]
  BY <1>4, <1>5, <1>7, <1>8
<1>11. w \in Seq(1..NN) /\ Len(w) = M
  BY <1>9, <1>10, SequenceIs
<1>12. Chain(NN, head2, next2, w)
  BY ONLY <1>9, <1>10, <1>11 DEF Chain
<1> QED
  BY <1>8, <1>11, <1>12 DEF w, L

\* Linked nowhere, or pointers moved elsewhere only.
LEMMA ChainSame ==
    ASSUME NEW N \in Nat, NEW head, NEW next, NEW v, Chain(N, head, next, v),
           NEW M \in Nat, N <= M, NEW next2,
           \A k \in 1..Len(v) : next2[v[k]] = next[v[k]]
    PROVE  Chain(M, head, next2, v)
<1>1. Len(v) \in Nat /\ v \in [1..Len(v) -> 1..M]
  BY ChainParts
<1>2. /\ \A j, k \in 1..Len(v) : v[j] = v[k] => j = k
      /\ head = IF Len(v) = 0 THEN 0 ELSE v[1]
      /\ \A k \in 1..Len(v) : next2[v[k]] = IF k = Len(v) THEN 0 ELSE v[k + 1]
  BY ChainParts
<1>3. v \in Seq(1..M)
  BY <1>1, SequenceIs
<1> QED
  BY <1>2, <1>3 DEF Chain

LEMMA ChainEmpty ==
    ASSUME NEW N \in Nat, NEW next
    PROVE  Chain(N, 0, next, <<>>)
  BY DEF Chain
=============================================================================
