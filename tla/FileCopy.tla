------------------------------ MODULE FileCopy ------------------------------
(***************************************************************************)
(* What a file transfer promises: every file is copied from its beginning, *)
(* without gaps, and a sender ends only when all of its file is there.     *)
(***************************************************************************)
EXTENDS Naturals, Sequences

CONSTANTS Client,
          Total       \* per client, the number of chunks of its file

VARIABLES copied,     \* per client, the chunks that have been written
          ended       \* the clients that have ended

Beginning(n) == [k \in 1..n |-> k]

Init == /\ copied = [c \in Client |-> <<>>]
        /\ ended = {}

Copy(c) ==
    \E n \in (Len(copied[c]) + 1)..Total[c] :
        /\ copied' = [copied EXCEPT ![c] = Beginning(n)]
        /\ UNCHANGED ended

End(c) ==
    /\ copied[c] = Beginning(Total[c])
    /\ ended' = ended \cup {c}
    /\ UNCHANGED copied

Next == \E c \in Client : Copy(c) \/ End(c)

Spec == Init /\ [][Next]_<<copied, ended>>
=============================================================================
