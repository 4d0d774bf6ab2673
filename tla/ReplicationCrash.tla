-------------------------- MODULE ReplicationCrash --------------------------
(***************************************************************************)
(* Replication with servers that stop and are started again, as the        *)
(* repository's test_p2.py does with "kill" and "relaunch".  A server      *)
(* keeps nothing on disk but the names of groups, and main discards what   *)
(* CreateGroup makes of them: a relaunched server has no group.            *)
(***************************************************************************)
EXTENDS Replication

CONSTANT MaxRelaunches    \* bound: how many times a server is started again

VARIABLE relaunches

crashVars == <<vars, relaunches>>

CrashInit == Init /\ relaunches = 0

Kill(s) == s \in up /\ relaunches < MaxRelaunches /\ Panic(s) /\ UNCHANGED relaunches

\* main starts the process; the clients of the old one have to join again.
Relaunch(s) ==
    /\ s \notin up
    /\ relaunches < MaxRelaunches
    /\ up' = up \cup {s}
    /\ group' = [group EXCEPT ![s] = NoGroup]
    /\ link' = [link EXCEPT ![s] = [t \in Server |-> "none"]]
    /\ pc' = [c \in Client |-> IF Home[c] = s THEN "out" ELSE pc[c]]
    /\ out' = [c \in Client |-> IF Home[c] = s THEN NoRequest ELSE out[c]]
    /\ relaunches' = relaunches + 1
    /\ UNCHANGED <<net, posted, breaks>>

CrashNext == \/ Next /\ UNCHANGED relaunches
             \/ \E s \in Server : Kill(s) \/ Relaunch(s)

CrashSpec == CrashInit /\ [][CrashNext]_crashVars

-----------------------------------------------------------------------------
\* A relaunched server files messages it gets back and messages it is sent
\* anew; between any two relaunches what an index means does not change.
FiledUntilRelaunch ==
    [][\A s, o \in Server : \A i \in 1..group[s].msgTimestamp[o] :
        s \in up =>
            /\ group'[s].msgTimestamp[o] >= i
            /\ SameKey(group'[s].list.node[group'[s].messageLamport[o][i]],
                       group[s].list.node[group[s].messageLamport[o][i]])]_crashVars
=============================================================================
