--------------------------- MODULE LamportGossip ---------------------------
(***************************************************************************)
(* What the replicated chat promises about messages, without indexes,      *)
(* lists, streams or requests: each server knows a set of messages and has *)
(* a Lamport clock; it publishes messages of its own above its clock and   *)
(* learns messages their publishers know.  Published messages are never    *)
(* changed and never forgotten.                                            *)
(***************************************************************************)
EXTENDS Naturals

CONSTANTS Server,
          Content     \* what messages say; no two messages say the same

VARIABLES known,      \* per server, the messages it keeps
          clock       \* per server, its Lamport clock

Message == [lamport : Nat, replica : Server, content : Content]

Init == /\ known = [s \in Server |-> {}]
        /\ clock = [s \in Server |-> 0]

Publish(s) ==
    \E c \in Content :
        LET m == [lamport |-> clock[s] + 1, replica |-> s, content |-> c]
        IN  /\ \A t \in Server : \A n \in known[t] : n.content # c
            /\ known' = [known EXCEPT ![s] = @ \cup {m}]
            /\ clock' = [clock EXCEPT ![s] = m.lamport]

\* s moves its clock up to at most a clock of some server.
Advances(s) ==
    \E t \in Server : /\ clock[s] <= clock'[s]
                      /\ clock'[s] <= clock[t]
                      /\ clock' = [clock EXCEPT ![s] = clock'[s]]

Learn(s) ==
    \E t \in Server : \E m \in known[t] :
        /\ m.replica = t
        /\ m \notin known[s]
        /\ known' = [known EXCEPT ![s] = @ \cup {m}]
        /\ Advances(s)
        /\ clock'[s] >= m.lamport

CatchUp(s) == Advances(s) /\ UNCHANGED known

Next == \E s \in Server : Publish(s) \/ Learn(s) \/ CatchUp(s)

Spec == Init /\ [][Next]_<<known, clock>>
=============================================================================
