----------------------------- MODULE Membership -----------------------------
(***************************************************************************)
(* The members of the groups of one chat server: who is in which group     *)
(* (UserList), how many clients bear each name (sameUserNameCount), the    *)
(* list of names with its timestamp (Information.UserList and              *)
(* GroupNameTimestamp of the server itself), and the copy of that list at  *)
(* another server.                                                         *)
(*                                                                         *)
(* Join, Switch, ChangeIdentity and QuitSession run under the mutex; the   *)
(* handlers that call them then show the group to its members and report   *)
(* list and timestamp, which they read without it.  A handler whose client *)
(* is gone changes the group without the mutex, step by step.              *)
(***************************************************************************)
EXTENDS Integers, Sequences, FiniteSets

CONSTANTS Client,       \* the clients, as their user ids
          Name,         \* user names
          NoName,       \* the name of a client that is not in a UserList
          Group,        \* groups
          NoGroup,      \* the group of a client that has not joined one
          MaxOps        \* bound: requests of clients and lost reports

ASSUME ClientAssumption == IsFiniteSet(Client)
ASSUME NoNameAssumption == NoName \notin Name
ASSUME NoGroupAssumption == NoGroup \notin Group
ASSUME MaxOpsAssumption == MaxOps \in Nat

VARIABLES
    up,      \* the server has not panicked
    group,   \* per group, what the server keeps of it
    name,    \* ThisName of each client's handler
    mine,    \* thisClientGroup of each client's handler
    pc,      \* per client, how far its handler is
    todo,    \* per client, the groups the handler has still to show or report
    draft,   \* per client, what the handler has read for its report
    peer,    \* per group, the list as the other server keeps it
    ops,     \* number of requests and lost reports so far
    raced    \* history: groups changed by somebody while a handler without the
             \* mutex was changing them

vars == <<up, group, name, mine, pc, todo, draft, peer, ops, raced>>

-----------------------------------------------------------------------------
(***************************************************************************)
(* One group.  sameUserNameCount is total, with 0 for a missing name; the  *)
(* list of names, a string in the code, is the set of the names in it.     *)
(***************************************************************************)
EmptyGroup == [user |-> [c \in Client |-> NoName], count |-> [n \in Name |-> 0],
               names |-> {}, stamp |-> 0]

AddUsername(g, n) ==
    IF g.count[n] = 0
    THEN [g EXCEPT !.count[n] = 1, !.names = @ \cup {n}, !.stamp = @ + 1]
    ELSE [g EXCEPT !.count[n] = @ + 1]

\* Mutant of DeleteUsername: the name leaves the list with its first bearer.
DeleteUsernameAlways(g, n) ==
    [g EXCEPT !.count[n] = @ - 1, !.names = @ \ {n}, !.stamp = @ + 1]

DeleteUsername(g, n) ==
    IF g.count[n] = 1
    THEN [g EXCEPT !.count[n] = 0, !.names = @ \ {n}, !.stamp = @ + 1]
    ELSE [g EXCEPT !.count[n] = @ - 1]

Joined(g, c, n) == AddUsername([g EXCEPT !.user[c] = n], n)

Left(g, c) == [DeleteUsername(g, g.user[c]) EXCEPT !.user[c] = NoName]

Renamed(g, c, n) == AddUsername(DeleteUsername([g EXCEPT !.user[c] = n], g.user[c]), n)

\* NameMerge cuts off the ends of an empty string when no name is known.
NameMergePanics(g) == (\E c \in Client : g.user[c] # NoName) /\ g.names = {}

-----------------------------------------------------------------------------
NoDraft == [names |-> {}, stamp |-> 0, read |-> {}]

Init ==
    /\ up = TRUE
    /\ group = [g \in Group |-> EmptyGroup]
    /\ name \in [Client -> Name]
    /\ mine = [c \in Client |-> NoGroup]
    /\ pc = [c \in Client |-> "ready"]
    /\ todo = [c \in Client |-> <<>>]
    /\ draft = [c \in Client |-> NoDraft]
    /\ peer = [g \in Group |-> [names |-> {}, stamp |-> 0]]
    /\ ops = 0
    /\ raced = {}

\* A handler is in the middle of changing group g without the mutex.
Leaving(c, g) == pc[c] \in {"left", "counted", "copied", "listed"} /\ mine[c] = g

\* The groups in "changed" are changed by the handler of c.
Races(c, changed) ==
    raced' = raced \cup {g \in changed : \E d \in Client \ {c} : Leaving(d, g)}

\* A request under the mutex, after which the groups in "show" are shown.
Request(c, show) ==
    /\ up
    /\ pc[c] = "ready"
    /\ ops < MaxOps
    /\ ops' = ops + 1
    /\ pc' = [pc EXCEPT ![c] = "showing"]
    /\ todo' = [todo EXCEPT ![c] = show]
    /\ UNCHANGED <<up, draft, peer>>

Join(c, g) ==
    /\ mine[c] = NoGroup
    /\ Request(c, <<g>>)
    /\ group' = [group EXCEPT ![g] = Joined(@, c, name[c])]
    /\ mine' = [mine EXCEPT ![c] = g]
    /\ Races(c, {g})
    /\ UNCHANGED name

\* Mutant of Switch: the handler does not note the new group.
SwitchUnnoted(c, g) ==
    /\ mine[c] # NoGroup
    /\ Request(c, <<g, mine[c]>>)
    /\ LET after == [group EXCEPT ![mine[c]] = Left(@, c)]
       IN  group' = [after EXCEPT ![g] = Joined(@, c, name[c])]
    /\ Races(c, {mine[c], g})
    /\ UNCHANGED <<mine, name>>

Switch(c, g) ==
    /\ mine[c] # NoGroup
    /\ Request(c, <<g, mine[c]>>)
    /\ LET after == [group EXCEPT ![mine[c]] = Left(@, c)]
       IN  group' = [after EXCEPT ![g] = Joined(@, c, name[c])]
    /\ mine' = [mine EXCEPT ![c] = g]
    /\ Races(c, {mine[c], g})
    /\ UNCHANGED name

\* Without a group there is nothing to change but the name.
ChangeIdentity(c, n) ==
    /\ mine[c] # NoGroup
    /\ Request(c, <<mine[c]>>)
    /\ group' = [group EXCEPT ![mine[c]] = Renamed(@, c, n)]
    /\ name' = [name EXCEPT ![c] = n]
    /\ Races(c, {mine[c]})
    /\ UNCHANGED mine

\* QuitSession changes nothing: the client leaves when its stream ends.
Quit(c) ==
    /\ mine[c] # NoGroup
    /\ Request(c, <<mine[c]>>)
    /\ UNCHANGED <<group, mine, name, raced>>

-----------------------------------------------------------------------------
(***************************************************************************)
(* ClientBroadcast, under the mutex, and the report, built without it.     *)
(* Switch shows the new group first and reports the old one first.         *)
(***************************************************************************)
Reversed(s) == [k \in DOMAIN s |-> s[Len(s) + 1 - k]]

Show(c) ==
    /\ up
    /\ pc[c] = "showing"
    /\ up' = ~ \E k \in DOMAIN todo[c] : NameMergePanics(group[todo[c][k]])
    /\ pc' = [pc EXCEPT ![c] = "telling"]
    /\ todo' = [todo EXCEPT ![c] = Reversed(@)]
    /\ UNCHANGED <<group, name, mine, draft, peer, ops, raced>>

ReadNames(c) ==
    /\ up
    /\ pc[c] = "telling"
    /\ "names" \notin draft[c].read
    /\ draft' = [draft EXCEPT ![c].names = group[Head(todo[c])].names,
                              ![c].read = @ \cup {"names"}]
    /\ UNCHANGED <<up, group, name, mine, pc, todo, peer, ops, raced>>

ReadStamp(c) ==
    /\ up
    /\ pc[c] = "telling"
    /\ "stamp" \notin draft[c].read
    /\ draft' = [draft EXCEPT ![c].stamp = group[Head(todo[c])].stamp,
                              ![c].read = @ \cup {"stamp"}]
    /\ UNCHANGED <<up, group, name, mine, pc, todo, peer, ops, raced>>

\* The other server takes a list with a higher stamp (Insertion with flag 2).
\* The stream keeps reports in order, and nobody waits for an answer to one: it
\* is handled as it is sent.
Insertion(g, names, stamp) ==
    peer' = [peer EXCEPT ![g] = IF stamp > @.stamp THEN [names |-> names, stamp |-> stamp]
                                                   ELSE @]

\* The report goes out, or is lost with the stream.  After its last one the
\* handler takes the next request, if its client is still there.
Tell(c) ==
    /\ up
    /\ pc[c] = "telling"
    /\ draft[c].read = {"names", "stamp"}
    /\ \/ /\ Insertion(Head(todo[c]), draft[c].names, draft[c].stamp)
          /\ ops' = ops
       \/ /\ ops < MaxOps
          /\ ops' = ops + 1
          /\ peer' = peer
    /\ todo' = [todo EXCEPT ![c] = Tail(@)]
    /\ draft' = [draft EXCEPT ![c] = NoDraft]
    /\ pc' = [pc EXCEPT ![c] = IF Len(todo[c]) > 1 THEN "telling"
                               ELSE IF mine[c] = NoGroup THEN "gone" ELSE "ready"]
    /\ UNCHANGED <<up, group, name, mine, raced>>

\* Mutant of CheckForMerge: only a server without any list is sent one.
CheckForMergeFirst(g) ==
    /\ up
    /\ peer[g].stamp = 0 /\ group[g].stamp > 0
    /\ Insertion(g, group[g].names, group[g].stamp)
    /\ UNCHANGED <<up, group, name, mine, pc, todo, draft, ops, raced>>

\* Anti-entropy: the other server asks with its stamp and gets the newer list,
\* read under the mutex.
CheckForMerge(g) ==
    /\ up
    /\ peer[g].stamp < group[g].stamp
    /\ Insertion(g, group[g].names, group[g].stamp)
    /\ UNCHANGED <<up, group, name, mine, pc, todo, draft, ops, raced>>

-----------------------------------------------------------------------------
(***************************************************************************)
(* The stream of a client ends: DeleteUsername without the mutex.          *)
(***************************************************************************)
Leave(c) ==
    /\ up
    /\ pc[c] = "ready"
    /\ mine[c] # NoGroup
    /\ group' = [group EXCEPT ![mine[c]].user[c] = NoName]
    /\ draft' = [draft EXCEPT ![c].stamp = group[mine[c]].count[name[c]]]
    /\ pc' = [pc EXCEPT ![c] = "left"]
    /\ Races(c, {mine[c]})
    /\ UNCHANGED <<up, name, mine, todo, peer, ops>>

\* The count as the handler read it, less one.
Uncount(c) ==
    /\ up
    /\ pc[c] = "left"
    /\ group' = [group EXCEPT ![mine[c]].count[name[c]] = draft[c].stamp - 1]
    /\ draft' = [draft EXCEPT ![c] = NoDraft]
    /\ pc' = [pc EXCEPT ![c] = "counted"]
    /\ Races(c, {mine[c]})
    /\ UNCHANGED <<up, name, mine, todo, peer, ops>>

\* Mutant of Departs: nobody is told.
DepartsSilently(c) ==
    /\ mine' = [mine EXCEPT ![c] = NoGroup]
    /\ draft' = [draft EXCEPT ![c] = NoDraft]
    /\ pc' = [pc EXCEPT ![c] = "showing"]
    /\ todo' = todo

\* The group is shown and reported as after a request, for the last time.
Departs(c) ==
    /\ mine' = [mine EXCEPT ![c] = NoGroup]
    /\ todo' = [todo EXCEPT ![c] = <<mine[c]>>]
    /\ draft' = [draft EXCEPT ![c] = NoDraft]
    /\ pc' = [pc EXCEPT ![c] = "showing"]

\* The list is read if the count, read again, is 0.
CopyNames(c) ==
    LET g == group[mine[c]]
    IN  /\ up
        /\ pc[c] = "counted"
        /\ \/ /\ g.count[name[c]] = 0
              /\ draft' = [draft EXCEPT ![c].names = g.names]
              /\ pc' = [pc EXCEPT ![c] = "copied"]
              /\ UNCHANGED <<mine, todo>>
           \/ /\ g.count[name[c]] # 0
              /\ Departs(c)
        /\ UNCHANGED <<up, group, name, peer, ops, raced>>

Unlist(c) ==
    /\ up
    /\ pc[c] = "copied"
    /\ group' = [group EXCEPT ![mine[c]].names = draft[c].names \ {name[c]}]
    /\ pc' = [pc EXCEPT ![c] = "listed"]
    /\ Races(c, {mine[c]})
    /\ UNCHANGED <<up, name, mine, todo, draft, peer, ops>>

Stamp(c) ==
    /\ up
    /\ pc[c] = "listed"
    /\ group' = [group EXCEPT ![mine[c]].stamp = @ + 1]
    /\ Departs(c)
    /\ Races(c, {mine[c]})
    /\ UNCHANGED <<up, name, peer, ops>>

-----------------------------------------------------------------------------
Ask(c) == \/ \E g \in Group : Join(c, g) \/ Switch(c, g)
          \/ \E n \in Name : ChangeIdentity(c, n)
          \/ Quit(c)

Handle(c) == \/ Show(c) \/ ReadNames(c) \/ ReadStamp(c) \/ Tell(c)
             \/ Uncount(c) \/ CopyNames(c) \/ Unlist(c) \/ Stamp(c)

Next == \/ \E c \in Client : Ask(c) \/ Leave(c) \/ Handle(c)
        \/ \E g \in Group : CheckForMerge(g)

Spec == Init /\ [][Next]_vars

(***************************************************************************)
(* A handler that has begun goes on, and the anti-entropy asks every       *)
(* 500 ms.                                                                 *)
(***************************************************************************)
Fairness == /\ \A c \in Client : WF_vars(Handle(c))
            /\ \A g \in Group : WF_vars(CheckForMerge(g))

FairSpec == Spec /\ Fairness

-----------------------------------------------------------------------------
(***************************************************************************)
(* Properties.                                                             *)
(***************************************************************************)
GroupType == [user : [Client -> Name \cup {NoName}], count : [Name -> Int],
              names : SUBSET Name, stamp : Nat]

\* Every variable keeps its shape, and a handler that is to show or report
\* something knows which group.
TypeOK ==
    /\ up \in BOOLEAN
    /\ group \in [Group -> GroupType]
    /\ name \in [Client -> Name]
    /\ mine \in [Client -> Group \cup {NoGroup}]
    /\ pc \in [Client -> {"ready", "showing", "telling", "left", "counted", "copied",
                         "listed", "gone"}]
    /\ todo \in [Client -> Seq(Group)]
    /\ draft \in [Client -> [names : SUBSET Name, stamp : Int,
                            read : SUBSET {"names", "stamp"}]]
    /\ peer \in [Group -> [names : SUBSET Name, stamp : Nat]]
    /\ ops \in 0..MaxOps
    /\ raced \subseteq Group
    /\ \A c \in Client : pc[c] \in {"showing", "telling"} <=> todo[c] # <<>>

\* No handler is in the middle of changing g without the mutex.
Settled(g) == \A c \in Client : ~Leaving(c, g)

\* A handler knows where its client is: until it is gone the client is in the
\* UserList of thisClientGroup, under ThisName, and in no other.
HandlersKnow ==
    \A c \in Client : \A g \in Group :
        group[g].user[c] = IF mine[c] = g /\ ~Leaving(c, g) THEN name[c] ELSE NoName

Bearers(g, n) == {c \in Client : group[g].user[c] = n}

\* Names are counted once for each client that bears them, and the list names
\* those with a bearer, whatever joins, switches, changes of name and ends of
\* streams there were, unless a handler changed a group while another was
\* changing it without the mutex.
CountsUsers ==
    \A g \in Group \ raced : Settled(g) =>
        /\ \A n \in Name : group[g].count[n] = Cardinality(Bearers(g, n))
        /\ group[g].names = {n \in Name : Bearers(g, n) # {}}

\* NameMerge always has a name to show, unless such handlers met: then the
\* list can lose the names of clients that are there, and the server panics.
UpUnlessRaced == raced = {} => up

\* A report that carries the present stamp of its group carries the present
\* list.
ReportsTrue == \A c \in Client :
    LET g == Head(todo[c])
    IN  /\ pc[c] = "telling"
        /\ draft[c].read = {"names", "stamp"}
        /\ Settled(g)
        /\ draft[c].stamp = group[g].stamp
        => draft[c].names = group[g].names

\* As long as that holds, the other server has the right list of every group in
\* the end: nobody who is gone is listed there for good.
ListsReachPeer ==
    [](up /\ ReportsTrue) =>
        <>[](\A g \in Group : peer[g] = [names |-> group[g].names, stamp |-> group[g].stamp])

\* A list with the same timestamp as the server's own is the server's own.
SameStampSameList ==
    \A g \in Group : Settled(g) /\ peer[g].stamp = group[g].stamp =>
        peer[g].names = group[g].names
=============================================================================
