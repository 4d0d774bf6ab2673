----------------------------- MODULE ChatClient -----------------------------
(***************************************************************************)
(* The chat client (client.go): the loop that reads commands, the          *)
(* goroutine "receiving" that reads the answers, and the variables they    *)
(* share without a lock; with the servers as one client sees them.         *)
(*                                                                         *)
(* A second "c" opens another stream and leaves the first one open; the    *)
(* goroutine, blocked on the stream it took last, changes over only after  *)
(* one more answer has come there.                                         *)
(***************************************************************************)
EXTENDS Naturals, Sequences, FiniteSets, SequencesExt

CONSTANTS Server,     \* the servers
          Name,       \* user names
          NoName,     \* the name in an entry of UserList that is not there
          Bystander,  \* the name of the other client of each server
          FirstId,    \* per server, the id of that client
          Group,      \* groups
          NoGroup,    \* the empty currentgroup
          NoServer,   \* the server of a stream that is not open
          Screen,     \* how many messages a screen shows; 10 in the code
          Busy,       \* bound: the servers and groups where others post
          MaxConns,   \* bound: streams the client opens
          MaxCommands,\* bound: commands after the first "c"
          MaxMsgs     \* bound: messages

ASSUME NamesAssumption == {NoName, Bystander} \cap Name = {}
ASSUME FirstIdAssumption == FirstId \in [Server -> 1..2]
ASSUME NoGroupAssumption == NoGroup \notin Group
ASSUME ScreenAssumption == Screen \in Nat \ {0}
ASSUME FiniteAssumption == IsFiniteSet(Server) /\ IsFiniteSet(Group)
ASSUME BusyAssumption == Busy \subseteq Server \X Group
ASSUME BoundsAssumption == /\ MaxConns \in Nat \ {0}
                           /\ MaxCommands \in Nat /\ MaxMsgs \in Nat

Conn == 1..MaxConns
Id == 1..(MaxCommands + 2)     \* user ids
NoId == 0                      \* user_id = -1

VARIABLES
    user_id, username, currentgroup, current_state, likeMap,  \* of the client
    shown,     \* the messages of the screen the user sees, from the top
    stream,    \* the number of the stream commands go to; 0: none yet
    reading,   \* the stream the goroutine receives on; 0: it is about to choose
    main,      \* what the loop is doing
    server,    \* per stream, the server at its other end
    req, resp, \* per stream, requests and answers on their way, in order
    up,        \* the servers that have not panicked
    userCount, \* per server, the last user id given
    users,     \* per server, group and user id, the entry of UserList
    msgs,      \* per server and group, the messages: the k-th has MsgId k
    dirty,     \* per server and group, the screens a handler has still to send
    commands,  \* number of commands so far
    patient    \* history: no command was given before a login was answered

clientVars == <<user_id, username, currentgroup, current_state, likeMap, shown>>
serverVars == <<up, userCount, users, msgs, dirty>>
vars == <<clientVars, stream, reading, main, server, req, resp, serverVars,
          commands, patient>>

NoUser == [conn |-> 0, name |-> NoName]

Init ==
    /\ user_id = NoId
    /\ username = NoName
    /\ currentgroup = NoGroup
    /\ current_state = 0
    /\ likeMap = [k \in 1..MaxMsgs |-> 0]
    /\ shown = <<>>
    /\ stream = 0
    /\ reading = 0
    /\ main = "ready"
    /\ server = [k \in Conn |-> NoServer]
    /\ req = [k \in Conn |-> <<>>]
    /\ resp = [k \in Conn |-> <<>>]
    /\ up = Server
    /\ userCount = FirstId
    /\ users = [s \in Server |-> [g \in Group |-> [i \in Id |->
                  IF i = userCount[s] THEN [conn |-> 0, name |-> Bystander] ELSE NoUser]]]
    /\ msgs = [s \in Server |-> [g \in Group |-> <<>>]]
    /\ dirty = [s \in Server |-> [g \in Group |-> {}]]
    /\ commands = 0
    /\ patient = TRUE

-----------------------------------------------------------------------------
(***************************************************************************)
(* Commands.                                                               *)
(***************************************************************************)
IsLogin(m) == m.kind \in {"u", "change", "login"}

\* A login that was sent and whose answer the goroutine has not handled.
LoginPending == \E k \in Conn : \/ \E j \in DOMAIN req[k] : IsLogin(req[k][j])
                                \/ \E j \in DOMAIN resp[k] : IsLogin(resp[k][j])

Request(kind, name, group, new, number) ==
    [kind |-> kind, name |-> name, group |-> group, new |-> new, id |-> user_id,
     number |-> number]

\* A command of a connected client that sends one request.
Command(r) ==
    /\ main = "ready"
    /\ stream # 0
    /\ commands < MaxCommands
    /\ commands' = commands + 1
    /\ req' = [req EXCEPT ![stream] = Append(@, r)]
    /\ UNCHANGED <<shown, stream, reading, server, resp, serverVars>>

ResetTo(id) ==
    /\ main = "ready"
    /\ stream \in 1..(MaxConns - 1)
    /\ user_id' = id
    /\ currentgroup' = NoGroup
    /\ current_state' = 0
    /\ main' = "connecting"
    /\ patient' = (patient /\ ~LoginPending)
    /\ UNCHANGED <<username, likeMap, shown, stream, reading, server, req, resp,
                   serverVars, commands>>

\* Mutant of Reset: the id of the old stream stays.
ResetKeepsId == ResetTo(user_id)

\* "c" on a client that is connected: what it knew of itself is cleared first.
Reset == ResetTo(NoId)

\* The rest of "c", with StreamLock held.
Connect(s) ==
    /\ s \in up
    /\ main = IF stream = 0 THEN "ready" ELSE "connecting"
    /\ stream' = stream + 1
    /\ server' = [server EXCEPT ![stream + 1] = s]
    /\ main' = "ready"
    /\ UNCHANGED <<clientVars, reading, req, resp, serverVars, commands, patient>>

U(n) ==
    /\ Command(Request(IF user_id = NoId THEN "u" ELSE "change", n, currentgroup,
                       NoGroup, 0))
    /\ username' = n
    /\ patient' = (patient /\ ~LoginPending)
    /\ UNCHANGED <<user_id, currentgroup, current_state, likeMap, main>>

\* Mutant of J: currentgroup changes before the request is made of it.
JSwapped(g) ==
    /\ current_state >= 1
    /\ Command(IF currentgroup = NoGroup
               THEN Request("j", username, g, NoGroup, 0)
               ELSE Request("s", username, g, g, 0))
    /\ currentgroup' = g
    /\ current_state' = 2
    /\ UNCHANGED <<user_id, username, likeMap, main, patient>>

\* Mutant of J: the group the client was in is not remembered.
JForgets(g) ==
    /\ current_state >= 1
    /\ Command(Request("j", username, g, NoGroup, 0))
    /\ currentgroup' = g
    /\ current_state' = 2
    /\ UNCHANGED <<user_id, username, likeMap, main, patient>>

J(g) ==
    /\ current_state >= 1
    /\ Command(IF currentgroup = NoGroup
               THEN Request("j", username, g, NoGroup, 0)
               ELSE Request("s", username, currentgroup, g, 0))
    /\ currentgroup' = g
    /\ current_state' = 2
    /\ UNCHANGED <<user_id, username, likeMap, main, patient>>

\* The messages there are, and those that requests on their way will make.
Posted == {p \in Server \X Group \X (1..MaxMsgs) : p[3] \in DOMAIN msgs[p[1]][p[2]]}

Asked == {p \in Conn \X (1..MaxCommands) :
             p[2] \in DOMAIN req[p[1]] /\ req[p[1]][p[2]].kind = "a"}

MsgCount == Cardinality(Posted) + Cardinality(Asked)

\* Append, show the history, like or take back a like.
Act(r) ==
    /\ current_state >= 2
    /\ Command(r)
    /\ UNCHANGED <<user_id, username, currentgroup, current_state, likeMap, main, patient>>

A == MsgCount < MaxMsgs /\ Act(Request("a", username, currentgroup, NoGroup, 0))

P == Act(Request("p", username, currentgroup, NoGroup, 0))

L(k) == likeMap[k] # 0 /\ Act(Request("l", username, currentgroup, NoGroup, likeMap[k]))

\* Without a login the client ends at once, otherwise it waits for "bye".
Q ==
    \/ /\ main = "ready"
       /\ stream # 0
       /\ current_state = 0
       /\ main' = "ended"
       /\ UNCHANGED <<clientVars, stream, reading, server, req, resp, serverVars,
                      commands, patient>>
    \/ /\ current_state # 0
       /\ Command(Request("q", username, currentgroup, NoGroup, 0))
       /\ main' = "waiting"
       /\ UNCHANGED <<user_id, username, currentgroup, current_state, likeMap, patient>>

-----------------------------------------------------------------------------
(***************************************************************************)
(* The goroutine.                                                          *)
(***************************************************************************)
\* StreamLock is free: "stream" is read, and Recv called on it.
Choose ==
    /\ reading = 0
    /\ stream # 0
    /\ main \notin {"ended", "left"}
    /\ reading' = stream
    /\ UNCHANGED <<clientVars, stream, main, server, req, resp, serverVars, commands, patient>>

\* Mutant of AfterLogin: every login counts.
EachLogin == current_state + 1

AfterLogin == IF current_state = 0 THEN 1 ELSE current_state

Receive ==
    /\ reading \in Conn
    /\ resp[reading] # <<>>
    /\ main # "ended"
    /\ LET m == Head(resp[reading])
       IN  /\ user_id' = IF m.kind = "login" THEN m.id ELSE user_id
           /\ current_state' = IF m.kind = "login" THEN AfterLogin ELSE current_state
           /\ likeMap' = IF m.kind = "store" THEN [likeMap EXCEPT ![m.place] = m.id]
                         ELSE likeMap
           /\ shown' = IF m.kind = "store" THEN Append(shown, m.msg)
                       ELSE IF m.kind = "print" THEN <<>> ELSE shown
           /\ main' = IF m.kind = "bye" THEN "left" ELSE main
           /\ reading' = 0
    /\ resp' = [resp EXCEPT ![reading] = Tail(@)]
    /\ UNCHANGED <<username, currentgroup, stream, server, req, serverVars, commands, patient>>

\* Recv of a stream whose server has panicked: the client ends.
CannotReceive ==
    /\ reading \in Conn
    /\ server[reading] \notin up
    /\ main # "ended"
    /\ main' = "ended"
    /\ UNCHANGED <<clientVars, stream, reading, server, req, resp, serverVars,
                   commands, patient>>

\* wg.Wait returns after "bye".
End ==
    /\ main = "left"
    /\ main' = "ended"
    /\ UNCHANGED <<clientVars, stream, reading, server, req, resp, serverVars,
                   commands, patient>>

-----------------------------------------------------------------------------
(***************************************************************************)
(* The servers.                                                            *)
(***************************************************************************)
\* Title, members, and the messages of "list" from "first" on.
Page(list, first) ==
    <<[kind |-> "print"]>>
        \o [k \in 1..(Len(list) - first + 1) |->
               [kind |-> "store", place |-> k, id |-> first + k - 1,
                msg |-> list[first + k - 1]]]

ShowHistory(list) == Page(list, 1)

\* TenStart is where the latest messages begin.
Latest(list) == Page(list, IF Len(list) > Screen THEN Len(list) - Screen + 1 ELSE 1)

\* A message no group of the server has.
NewMsg(s) == CHOOSE m \in 1..MaxMsgs : \A g \in Group : ~Contains(msgs[s][g], m)

\* What a page sent to the members of a group, given their entries, adds to
\* the answers "to" (ClientBroadcast, FlushScreen).
ToMembers(members, page, to) ==
    [k \in Conn |-> IF \E i \in Id : members[i].conn = k THEN to[k] \o page ELSE to[k]]

\* The server of stream k takes its next request.
Takes(k, kinds) ==
    /\ req[k] # <<>>
    /\ server[k] \in up
    /\ Head(req[k]).kind \in kinds
    /\ req' = [req EXCEPT ![k] = Tail(@)]
    /\ UNCHANGED <<clientVars, stream, reading, main, server, commands, patient>>

Login(id) == [kind |-> "login", id |-> id]

UserLogin(k) ==
    LET s == server[k]
    IN  /\ Takes(k, {"u"})
        /\ userCount' = [userCount EXCEPT ![s] = @ + 1]
        /\ resp' = [resp EXCEPT ![k] = Append(@, Login(userCount[s] + 1))]
        /\ UNCHANGED <<up, users, msgs, dirty>>

\* A nil pointer: ChangeIdentity and Switch take the user's entry for granted.
Panics(s, m) == m.group # NoGroup /\ users[s][m.group][m.id] = NoUser

ChangeIdentity(k) ==
    LET s == server[k]
        m == Head(req[k])
        g == m.group
    IN  /\ Takes(k, {"change"})
        /\ IF g = NoGroup
           THEN /\ resp' = [resp EXCEPT ![k] = Append(@, Login(m.id))]
                /\ users' = users
           ELSE /\ ~Panics(s, m)
                /\ users' = [users EXCEPT ![s][g][m.id].name = m.name]
                /\ resp' = ToMembers(users'[s][g], Latest(msgs[s][g]),
                                     [resp EXCEPT ![k] = Append(@, Login(m.id))])
        /\ UNCHANGED <<up, userCount, msgs, dirty>>

Join(k) ==
    LET s == server[k]
        m == Head(req[k])
        g == m.group
    IN  /\ Takes(k, {"j"})
        /\ users' = [users EXCEPT ![s][g][m.id] = [conn |-> k, name |-> m.name]]
        /\ resp' = ToMembers(users'[s][g], Latest(msgs[s][g]), resp)
        /\ UNCHANGED <<up, userCount, msgs, dirty>>

\* The entry moves as it is; the new group is shown, then the old one.
Switch(k) ==
    LET s == server[k]
        m == Head(req[k])
        moved == [users[s] EXCEPT ![m.group][m.id] = NoUser]
    IN  /\ Takes(k, {"s"})
        /\ ~Panics(s, m)
        /\ users' = [users EXCEPT ![s] =
                        [moved EXCEPT ![m.new][m.id] = users[s][m.group][m.id]]]
        /\ resp' = ToMembers(users'[s][m.group], Latest(msgs[s][m.group]),
                       ToMembers(users'[s][m.new], Latest(msgs[s][m.new]), resp))
        /\ UNCHANGED <<up, userCount, msgs, dirty>>

UserUnknown(k) ==
    /\ Takes(k, {"change", "s"})
    /\ Panics(server[k], Head(req[k]))
    /\ up' = up \ {server[k]}
    /\ UNCHANGED <<resp, userCount, users, msgs, dirty>>

AppendMessage(k) ==
    LET s == server[k]
        g == Head(req[k]).group
    IN  /\ Takes(k, {"a"})
        /\ msgs' = [msgs EXCEPT ![s][g] = Append(@, NewMsg(s))]
        /\ resp' = ToMembers(users[s][g], Latest(msgs'[s][g]), resp)
        /\ UNCHANGED <<up, userCount, users, dirty>>

\* A like is shown to the members, or denied.
LikeMessage(k) ==
    LET s == server[k]
        m == Head(req[k])
    IN  /\ Takes(k, {"l"})
        /\ \/ /\ m.number <= Len(msgs[s][m.group])
              /\ resp' = ToMembers(users[s][m.group], Latest(msgs[s][m.group]), resp)
           \/ resp' = [resp EXCEPT ![k] = Append(@, [kind |-> "Denial"])]
        /\ UNCHANGED serverVars

History(k) ==
    LET s == server[k]
    IN  /\ Takes(k, {"p"})
        /\ resp' = [resp EXCEPT ![k] = @ \o ShowHistory(msgs[s][Head(req[k]).group])]
        /\ UNCHANGED serverVars

\* Mutant of QuitSession: "bye" only to a client that is in a group.
QuitSilently(k) ==
    LET s == server[k]
        g == Head(req[k]).group
    IN  /\ Takes(k, {"q"})
        /\ resp' = IF g = NoGroup THEN resp
                   ELSE [ToMembers(users[s][g], Latest(msgs[s][g]), resp)
                           EXCEPT ![k] = Append(@, [kind |-> "bye"])]
        /\ UNCHANGED serverVars

QuitSession(k) ==
    LET s == server[k]
        g == Head(req[k]).group
        shows == IF g = NoGroup THEN resp
                 ELSE ToMembers(users[s][g], Latest(msgs[s][g]), resp)
    IN  /\ Takes(k, {"q"})
        /\ resp' = [shows EXCEPT ![k] = Append(@, [kind |-> "bye"])]
        /\ UNCHANGED serverVars

(***************************************************************************)
(* Handlers of others change a group under the mutex: a client of the      *)
(* server appends a message, another server inserts one, which renumbers   *)
(* those after it.  The screens are sent later, with the list of then.     *)
(* What they do once the client has ended is left out.                     *)
(***************************************************************************)
OthersChange(s, g) ==
    /\ s \in up
    /\ main # "ended"
    /\ MsgCount < MaxMsgs
    /\ \/ /\ msgs' = [msgs EXCEPT ![s][g] = Append(@, NewMsg(s))]
          /\ dirty' = [dirty EXCEPT ![s][g] = @ \cup {"latest"}]
       \/ /\ \E p \in 1..Len(msgs[s][g]) :
                msgs' = [msgs EXCEPT ![s][g] = InsertAt(@, p, NewMsg(s))]
          /\ dirty' = [dirty EXCEPT ![s][g] = @ \cup {"history"}]
    /\ UNCHANGED <<clientVars, stream, reading, main, server, req, resp, up, userCount,
                   users, commands, patient>>

\* Mutant of OthersShow: only messages at the end are shown.
OthersShowLatest(s, g) ==
    /\ s \in up
    /\ main # "ended"
    /\ dirty[s][g] # {}
    /\ dirty' = [dirty EXCEPT ![s][g] = {}]
    /\ resp' = IF "latest" \in dirty[s][g]
               THEN ToMembers(users[s][g], Latest(msgs[s][g]), resp) ELSE resp
    /\ UNCHANGED <<clientVars, stream, reading, main, server, req, up, userCount,
                   users, msgs, commands, patient>>

OthersShow(s, g) ==
    /\ s \in up
    /\ main # "ended"
    /\ \E d \in dirty[s][g] :
          /\ dirty' = [dirty EXCEPT ![s][g] = @ \ {d}]
          /\ resp' = ToMembers(users[s][g],
                         IF d = "latest" THEN Latest(msgs[s][g])
                                         ELSE ShowHistory(msgs[s][g]), resp)
    /\ UNCHANGED <<clientVars, stream, reading, main, server, req, up, userCount,
                   users, msgs, commands, patient>>

-----------------------------------------------------------------------------
Serve(k) ==
    \/ UserLogin(k) \/ ChangeIdentity(k) \/ Join(k) \/ Switch(k) \/ UserUnknown(k)
    \/ AppendMessage(k) \/ LikeMessage(k) \/ History(k) \/ QuitSession(k)

Next ==
    \/ Reset
    \/ \E s \in Server : Connect(s)
    \/ \E n \in Name : U(n)
    \/ \E g \in Group : J(g)
    \/ A
    \/ P
    \/ \E k \in 1..MaxMsgs : L(k)
    \/ Q
    \/ Choose
    \/ Receive
    \/ CannotReceive
    \/ End
    \/ \E k \in Conn : Serve(k)
    \/ \E b \in Busy : OthersChange(b[1], b[2]) \/ OthersShow(b[1], b[2])

Spec == Init /\ [][Next]_vars

(***************************************************************************)
(* gRPC delivers what was sent, a server's handler returns to Recv, and    *)
(* the goroutine and the rest of "q" go on.  A user need not type.         *)
(***************************************************************************)
Fairness ==
    /\ \A k \in Conn : WF_vars(Serve(k))
    /\ WF_vars(Choose)
    /\ WF_vars(Receive)
    /\ WF_vars(End)

FairSpec == Spec /\ Fairness

-----------------------------------------------------------------------------
\* Every variable of the client and of the servers has a value of its type.
TypeOK ==
    /\ user_id \in Id \cup {NoId}
    /\ username \in Name \cup {NoName}
    /\ currentgroup \in Group \cup {NoGroup}
    /\ current_state \in 0..2
    /\ stream \in 0..MaxConns /\ reading \in 0..stream
    /\ main \in {"ready", "connecting", "waiting", "left", "ended"}
    /\ \A k \in 1..MaxMsgs : likeMap[k] \in 0..MaxMsgs
    /\ \A s \in Server, g \in Group : users[s][g] \in [Id -> [conn : 0..MaxConns,
                                            name : Name \cup {NoName, Bystander}]]

\* No request on its way, and no answer that the user has not seen.
Settled ==
    /\ stream # 0 /\ reading = stream
    /\ main = "ready"
    /\ req[stream] = <<>> /\ resp[stream] = <<>>
    /\ server[stream] \in up

\* Once everything asked on the stream is answered, the server has the client
\* of a patient user in the group the client believes to be in, in no other,
\* and under its id and name: the goroutine and the loop, which share user_id
\* and current_state without a lock, never make the two differ.
InStep ==
    Settled /\ patient /\ currentgroup # NoGroup =>
        \A g \in Group, i \in Id :
            users[server[stream]][g][i].conn = stream <=>
                /\ g = currentgroup
                /\ i = user_id
                /\ users[server[stream]][g][i].name = username

\* A patient user never takes the place of another: the other client of each
\* server stays in its group, whatever ids the servers have given (Join writes
\* the entry of the id the client sends).
OthersStay ==
    patient => \A s \in Server, g \in Group :
                   \E i \in Id : users[s][g][i].name = Bystander

\* The commands of a patient user never make a server's handler follow a nil
\* entry of UserList (Switch and ChangeIdentity).
ServersUp == patient => up = Server

\* The number that a patient user reads beside a message on the screen stands
\* for that message when typed in "l": likeMap agrees with the server's MsgIds once
\* every screen on its way has come, though other clients append messages and
\* other servers insert them in between.
ScreenTrue ==
    Settled /\ patient /\ currentgroup # NoGroup /\ dirty[server[stream]][currentgroup] = {} =>
        \A k \in DOMAIN shown :
            LET list == msgs[server[stream]][currentgroup]
            IN  likeMap[k] \in DOMAIN list /\ list[likeMap[k]] = shown[k]

\* With one stream and a server that does not panic, "q" ends the client.
QuitEnds == [](stream <= 1 /\ up = Server) => (main = "waiting" ~> main = "ended")
=============================================================================
