---------------------------- MODULE ClientQueue ----------------------------
(***************************************************************************)
(* The queue of clients that wait for the receiver (queue.c), at the level *)
(* of its nodes: queue_dequeue frees a node and queue_enqueue allocates    *)
(* one without setting its nextnode, so a node that is used again still    *)
(* points to where it did before.                                          *)
(*                                                                         *)
(* A node is a number, its place in "cell"; "free" holds the freed nodes,  *)
(* the last one first, which is the order in which malloc hands them out   *)
(* again.  Memory that was never used is zero.  A node's sbuf and          *)
(* from_addr are the client they belong to.                                *)
(***************************************************************************)
EXTENDS Naturals, Sequences

CONSTANTS Client,     \* the processes that send a file
          Nobody      \* no client's name

ASSUME NobodyAssumption == Nobody \notin Client

Nil == 0              \* C's NULL: no node has this number

queue_create == [cell |-> <<>>, free |-> <<>>, head |-> Nil, tail |-> Nil, count |-> 0]

\* The chunk freed last, as it was left, or else a fresh one.
Allocated(q) == IF q.free = <<>> THEN Len(q.cell) + 1 ELSE Head(q.free)

\* free: the name in a freed node is overwritten by the allocator's own data.
Reclaimed(q, n) == <<n>> \o q.free

queue_enqueue(q, c) ==
    LET new == Allocated(q)
        nodes == IF q.free = <<>>
                 THEN Append(q.cell, [client |-> c, next |-> Nil])
                 ELSE [q.cell EXCEPT ![new].client = c]
        before == IF q.tail = Nil THEN q.head ELSE q.tail
    IN  IF q.head = Nil
        THEN [q EXCEPT !.cell = nodes, !.head = new, !.count = @ + 1,
                       !.free = IF @ = <<>> THEN @ ELSE Tail(@)]
        ELSE [q EXCEPT !.cell = [nodes EXCEPT ![before].next = new],
                       !.tail = new, !.count = @ + 1,
                       !.free = IF @ = <<>> THEN @ ELSE Tail(@)]

\* The client queue_dequeue hands out.
First(q) == q.cell[q.head].client

queue_dequeue(q) ==
    [q EXCEPT !.cell[q.head].client = Nobody,
              !.free = Reclaimed(q, q.head),
              !.head = q.cell[q.head].next,
              !.count = @ - 1]

\* The clients is_in_queue goes through: count nodes from head.
Waiting(q) ==
    LET next(n) == IF n = Nil THEN Nil ELSE q.cell[n].next
        at[k \in 1..q.count] == IF k = 1 THEN q.head ELSE next(at[k - 1])
    IN  [k \in 1..q.count |-> IF at[k] = Nil THEN Nobody ELSE q.cell[at[k]].client]

is_in_queue(q, c) == \E k \in 1..q.count : Waiting(q)[k] = c
=============================================================================
