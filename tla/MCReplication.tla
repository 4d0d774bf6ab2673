--------------------------- MODULE MCReplication ---------------------------
(***************************************************************************)
(* Small instances of Replication for TLC.                                 *)
(***************************************************************************)
EXTENDS Replication, TLC

CONSTANTS c1, c2, c3

\* One client on each of two servers, two clients on the second of them, and a
\* single client.
OneEach == c1 :> 1 @@ c2 :> 2
OneAndTwo == c1 :> 1 @@ c2 :> 2 @@ c3 :> 2
OnlyOne == c1 :> 1

(***************************************************************************)
(* The servers when every ReplicaSetUp is done, every client has joined    *)
(* and every user list has arrived: a state Init leads to, in which runs   *)
(* that are not about start-up begin.  The streams are those of "cut"      *)
(* down, all others work.                                                  *)
(***************************************************************************)
Ready(cut) ==
    LET clients(s) == Cardinality({c \in Client : Home[c] = s})
        stream(s, t) == IF s = t THEN "none" ELSE IF <<s, t>> \in cut THEN "down" ELSE "ok"
    IN  /\ up = Server
        /\ group = [s \in Server |-> [CreateGroup(0) EXCEPT
                        !.nameTimestamp = [o \in Server |-> clients(o)]]]
        /\ link = [s \in Server |-> [t \in Server |-> stream(s, t)]]
        /\ net = [s \in Server |-> [t \in Server |-> <<>>]]
        /\ pc = [c \in Client |-> "ready"]
        /\ out = [c \in Client |-> NoRequest]
        /\ posted = 0
        /\ breaks = 0

ReadySpec == Ready({}) /\ [][Next]_vars

-----------------------------------------------------------------------------
(***************************************************************************)
(* A partition between servers 1 and 3 that never heals; both reach 2.     *)
(***************************************************************************)
Apart == /\ link[1][3] = "down"
         /\ link[3][1] = "down"

SplitSpec ==
    /\ Ready({<<1, 3>>, <<3, 1>>})
    /\ [][Next /\ Apart']_vars
    /\ \A c \in Client : HandlerFairness(c)
    /\ \A s \in Server : SF_vars(Entropy(s))
    /\ \A s \in Server : \A t \in Server \ {s} : ReceiveFairness(s, t)

\* Path propagation: what a server has counted of itself, every server counts
\* in the end, those included to which it never has a stream that works.
PathPropagation ==
    [](NoGap /\ up = Server) =>
        \A s, o \in Server : \A i \in Index :
            group[o].msgTimestamp[o] >= i ~> group[s].msgTimestamp[o] >= i
=============================================================================
