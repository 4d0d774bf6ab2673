-------------------------- MODULE ChatClientProofs --------------------------
(***************************************************************************)
(* The chat client against the servers, for any servers, groups, names and *)
(* number of streams, commands and messages: the commands of a patient     *)
(* user never make a server's handler panic nor take the place of another  *)
(* client, and what the client believes and shows is what its server has,  *)
(* although the loop and the goroutine share variables without a lock.     *)
(***************************************************************************)
EXTENDS ChatClient, FiniteSetTheorems, TLAPS

-----------------------------------------------------------------------------
(***************************************************************************)
(* What is on its way.                                                     *)
(***************************************************************************)
Names == Name \cup {NoName}
Groups == Group \cup {NoGroup}
Kinds == {"u", "change", "j", "s", "a", "p", "l", "q"}

Requests == [kind : Kinds, name : Names, group : Groups, new : Groups,
             id : Id \cup {NoId}, number : 0..MaxMsgs]

\* Only a login carries no id, nor a group, and what is about a group names it.
Asks == {m \in Requests : /\ m.kind = "u" <=> m.id = NoId
                          /\ m.kind = "u" => m.group = NoGroup
                          /\ m.kind \in {"j", "s", "a", "p", "l"} => m.group # NoGroup
                          /\ m.kind = "s" => m.new # NoGroup}

Stores == [kind : {"store"}, place : 1..MaxMsgs, id : 1..MaxMsgs, msg : 1..MaxMsgs]
Answers == [kind : {"login"}, id : Id] \cup [kind : {"print", "bye", "Denial"}] \cup Stores

Entry == [conn : 0..MaxConns, name : Name \cup {NoName, Bystander}]

(***************************************************************************)
(* Types of all variables, in every behaviour.                             *)
(***************************************************************************)
ClientTypes ==
    /\ user_id \in Id \cup {NoId}
    /\ username \in Names
    /\ currentgroup \in Groups
    /\ current_state \in 0..2
    /\ current_state = 0 <=> user_id = NoId
    /\ current_state = 2 <=> currentgroup # NoGroup
    /\ likeMap \in [1..MaxMsgs -> 0..MaxMsgs]
    /\ shown \in Seq(1..MaxMsgs)
    /\ stream \in 0..MaxConns
    /\ reading \in 0..stream
    /\ main \in {"ready", "connecting", "waiting", "left", "ended"}
    /\ main = "connecting" => stream < MaxConns

LinkTypes ==
    /\ server \in [Conn -> Server \cup {NoServer}]
    /\ \A k \in 1..stream : server[k] \in Server
    /\ req \in [Conn -> Seq(Asks)]
    /\ resp \in [Conn -> Seq(Answers)]
    /\ \A k \in Conn : k > stream => req[k] = <<>>

ServerTypes ==
    /\ up \subseteq Server
    /\ userCount \in [Server -> Nat]
    /\ users \in [Server -> [Group -> [Id -> Entry]]]
    /\ msgs \in [Server -> [Group -> Seq(1..MaxMsgs)]]
    /\ dirty \in [Server -> [Group -> SUBSET {"latest", "history"}]]

Types == /\ ClientTypes
         /\ LinkTypes
         /\ ServerTypes
         /\ commands \in 0..MaxCommands
         /\ patient \in BOOLEAN

\* The requests on their way.
Pending == {p \in Conn \X (1..MaxCommands) : p[2] \in DOMAIN req[p[1]]}

Counts ==
    /\ \A k \in Conn : Len(req[k]) <= commands
    /\ \A s \in Server, g \in Group : Len(msgs[s][g]) <= MaxMsgs
    /\ \A s \in Server : /\ FirstId[s] <= userCount[s]
                         /\ userCount[s] + Cardinality(Pending) <= commands + 2
    /\ Cardinality(Posted) + Cardinality(Asked) <= MaxMsgs

(***************************************************************************)
(* The group and the name under which the requests q find the client, who  *)
(* is in group g under name n before them.                                 *)
(***************************************************************************)
GroupBefore(m) == IF m.kind = "j" THEN NoGroup ELSE m.group
GroupAfter(m) == IF m.kind = "s" THEN m.new ELSE m.group

GroupAt(q, g, j) == IF j = 0 THEN g ELSE GroupAfter(q[j])
NameAt(q, n, j) == IF j = 0 THEN n ELSE q[j].name

Chained(q, g, n) ==
    \A j \in DOMAIN q :
        /\ GroupBefore(q[j]) = GroupAt(q, g, j - 1)
        /\ q[j].kind \notin {"u", "change"} => q[j].name = NameAt(q, n, j - 1)

(***************************************************************************)
(* The answers q leave a true screen: after the last page among them, or   *)
(* after what is shown, come the numbers of messages of the list.          *)
(***************************************************************************)
ShownRight(sh, lm, list) ==
    \A k \in DOMAIN sh : /\ k <= MaxMsgs
                         /\ lm[k] \in DOMAIN list /\ list[lm[k]] = sh[k]

ScreenAfter(q, p, n, list, sh, lm) ==
    /\ p + n <= Len(q)
    /\ IF p = 0 THEN ShownRight(sh, lm, list) ELSE q[p].kind = "print"
    /\ \A j \in 1..n : /\ q[p + j].kind = "store"
                       /\ q[p + j].place = (IF p = 0 THEN Len(sh) ELSE 0) + j
                       /\ q[p + j].id \in DOMAIN list
                       /\ list[q[p + j].id] = q[p + j].msg
    /\ \A j \in DOMAIN q : j > p + n => q[j].kind \notin {"print", "store"}

LeavesTrue(q, list, sh, lm) ==
    \E p \in 0..Len(q) : \E n \in 0..Len(q) : ScreenAfter(q, p, n, list, sh, lm)

(***************************************************************************)
(* What holds while the user is patient.  id, at and as give, per stream,  *)
(* the id its server gave the client (NoId before the login is handled)    *)
(* and the group and the name under which the server has it.               *)
(***************************************************************************)
IdsRight(id) ==
    /\ id \in [Conn -> Id \cup {NoId}]
    /\ \A k \in Conn : \A j \in DOMAIN req[k] :
          /\ req[k][j].id = id[k]
          /\ req[k][j].kind = "u" => Len(req[k]) = 1
    /\ \A k \in Conn : \A j \in DOMAIN resp[k] :
          resp[k][j].kind = "login" => resp[k][j].id = id[k]

IdsGiven(id) ==
    /\ \A k \in Conn : id[k] # NoId => /\ k <= stream
                                       /\ FirstId[server[k]] < id[k]
                                       /\ id[k] <= userCount[server[k]]
    /\ \A k, l \in Conn : k # l /\ id[k] # NoId /\ id[k] = id[l] => server[k] # server[l]

\* The client knows its id once the answer has come.
IdKnown(id) ==
    /\ user_id # NoId => stream # 0 /\ user_id = id[stream]
    /\ stream # 0 /\ main = "ready" /\ ~LoginPending => user_id = id[stream]

\* The client is where "at" and "as" say, and nowhere else.
Placed(id, at, as) ==
    /\ at \in [Conn -> Groups]
    /\ as \in [Conn -> Names]
    /\ \A s \in Server, g \in Group, i \in Id, k \in Conn :
          users[s][g][i].conn = k <=> k <= stream /\ s = server[k] /\ g = at[k] /\ i = id[k]
    /\ \A k \in Conn, g \in Group, i \in Id :
          k <= stream /\ g = at[k] /\ i = id[k] => users[server[k]][g][i].name = as[k]

\* What is asked on a stream leads from there to what the client believes.
Leads(at, as) ==
    /\ \A k \in Conn : Chained(req[k], at[k], as[k])
    /\ stream # 0 /\ main = "ready" =>
          /\ currentgroup = GroupAt(req[stream], at[stream], Len(req[stream]))
          /\ username = NameAt(req[stream], as[stream], Len(req[stream]))

\* No login on a stream that was left, and no id or group between two streams.
NoLogin(k) == /\ \A j \in DOMAIN req[k] : ~IsLogin(req[k][j])
              /\ \A j \in DOMAIN resp[k] : ~IsLogin(resp[k][j])

LeftQuiet ==
    /\ \A k \in Conn : k # stream \/ main = "connecting" => NoLogin(k)
    /\ stream = 0 \/ main = "connecting" => user_id = NoId /\ currentgroup = NoGroup

\* The goroutine is on the stream, or about to, before a login there is answered.
TurnedOver ==
    stream # 0 /\ reading \notin {0, stream} =>
        /\ user_id = NoId
        /\ \A j \in DOMAIN req[stream] : req[stream][j].kind = "u"
        /\ \A s \in Server, g \in Group, i \in Id : users[s][g][i].conn # stream

BystandersStay ==
    \A s \in Server, g \in Group : users[s][g][FirstId[s]] = [conn |-> 0, name |-> Bystander]

ScreensTrue ==
    stream # 0 =>
        \A g \in Group, i \in Id :
            users[server[stream]][g][i].conn = stream /\ dirty[server[stream]][g] = {} =>
                LeavesTrue(resp[stream], msgs[server[stream]][g], shown, likeMap)

Calm(id, at, as) ==
    /\ up = Server
    /\ IdsRight(id) /\ IdsGiven(id) /\ IdKnown(id)
    /\ Placed(id, at, as)
    /\ Leads(at, as)
    /\ LeftQuiet
    /\ TurnedOver
    /\ BystandersStay
    /\ ScreensTrue

Inv ==
    /\ Types
    /\ Counts
    /\ patient => \E id, at, as : Calm(id, at, as)

-----------------------------------------------------------------------------
(***************************************************************************)
(* Constants and sequences.                                                *)
(***************************************************************************)
LEMMA Bounds ==
    /\ MaxConns \in Nat /\ MaxConns >= 1 /\ MaxCommands \in Nat /\ MaxMsgs \in Nat
    /\ Screen \in Nat /\ Screen >= 1
    /\ \A k : k \in Conn <=> k \in Nat /\ 1 <= k /\ k <= MaxConns
    /\ \A i : i \in Id <=> i \in Nat /\ 1 <= i /\ i <= MaxCommands + 2
    /\ NoId \notin Id /\ NoId = 0
    /\ FirstId \in [Server -> 1..2] /\ \A s \in Server : FirstId[s] \in Id
  BY BoundsAssumption, ScreenAssumption, FirstIdAssumption DEF Conn, Id, NoId

LEMMA ElementFacts ==
    ASSUME NEW S, NEW q \in Seq(S)
    PROVE  Len(q) \in Nat /\ DOMAIN q = 1..Len(q) /\ \A j \in 1..Len(q) : q[j] \in S
  OBVIOUS

LEMMA TailFacts ==
    ASSUME NEW S, NEW q \in Seq(S), q # <<>>
    PROVE  /\ Len(q) \in Nat /\ Len(q) >= 1 /\ 1 \in DOMAIN q
           /\ Head(q) = q[1] /\ Head(q) \in S
           /\ Tail(q) \in Seq(S) /\ Len(Tail(q)) = Len(q) - 1
           /\ DOMAIN Tail(q) = 1..(Len(q) - 1)
           /\ \A j \in 1..(Len(q) - 1) : Tail(q)[j] = q[j + 1] /\ j + 1 \in DOMAIN q
  <1>1. Len(q) \in Nat /\ Len(q) >= 1 /\ DOMAIN q = 1..Len(q)
    OBVIOUS
  <1>2. Head(q) = q[1] /\ q[1] \in S
    BY <1>1
  <1>3. Tail(q) \in Seq(S) /\ Len(Tail(q)) = Len(q) - 1
    BY <1>1
  <1>4. DOMAIN Tail(q) = 1..(Len(q) - 1)
    BY <1>3
  <1>5. \A j \in 1..(Len(q) - 1) : Tail(q)[j] = q[j + 1] /\ j + 1 \in DOMAIN q
    BY <1>1
  <1> QED
    BY <1>1, <1>2, <1>3, <1>4, <1>5

LEMMA AppendFacts ==
    ASSUME NEW S, NEW q \in Seq(S), NEW x \in S
    PROVE  /\ Len(q) \in Nat /\ DOMAIN q = 1..Len(q)
           /\ Append(q, x) \in Seq(S) /\ Len(Append(q, x)) = Len(q) + 1
           /\ DOMAIN Append(q, x) = 1..(Len(q) + 1)
           /\ Append(q, x)[Len(q) + 1] = x
           /\ \A j \in 1..Len(q) : Append(q, x)[j] = q[j]
  OBVIOUS

LEMMA ConcatFacts ==
    ASSUME NEW S, NEW p \in Seq(S), NEW q \in Seq(S)
    PROVE  /\ Len(p) \in Nat /\ DOMAIN p = 1..Len(p)
           /\ Len(q) \in Nat /\ DOMAIN q = 1..Len(q)
           /\ p \o q \in Seq(S) /\ Len(p \o q) = Len(p) + Len(q)
           /\ DOMAIN (p \o q) = 1..(Len(p) + Len(q))
           /\ \A j \in 1..Len(p) : (p \o q)[j] = p[j]
           /\ \A j \in 1..Len(q) : (p \o q)[Len(p) + j] = q[j]
  OBVIOUS

LEMMA ConcatAnswers ==
    \A p, q \in Seq(Answers) :
        /\ p \o q \in Seq(Answers) /\ Len(p \o q) = Len(p) + Len(q)
        /\ DOMAIN (p \o q) = 1..(Len(p) + Len(q))
        /\ \A j \in 1..Len(p) : (p \o q)[j] = p[j]
        /\ \A j \in 1..Len(q) : (p \o q)[Len(p) + j] = q[j]
  BY ConcatFacts

-----------------------------------------------------------------------------
(***************************************************************************)
(* Pages.                                                                  *)
(***************************************************************************)
LEMMA PageFacts ==
    ASSUME NEW list \in Seq(1..MaxMsgs), Len(list) <= MaxMsgs,
           NEW first \in 1..(Len(list) + 1)
    PROVE  /\ Page(list, first) \in Seq(Answers)
           /\ Len(Page(list, first)) = Len(list) - first + 2
           /\ Page(list, first)[1] = [kind |-> "print"]
           /\ \A j \in 1..(Len(list) - first + 1) :
                 Page(list, first)[j + 1] = [kind |-> "store", place |-> j,
                     id |-> first + j - 1, msg |-> list[first + j - 1]]
  <1> DEFINE n == Len(list) - first + 1
             part == [k \in 1..n |-> [kind |-> "store", place |-> k, id |-> first + k - 1,
                                      msg |-> list[first + k - 1]]]
             top == <<[kind |-> "print"]>>
  <1>1. Len(list) \in Nat /\ n \in Nat /\ n <= MaxMsgs /\ MaxMsgs \in Nat
    BY Bounds
  <1>2. \A k \in 1..n : part[k] \in Stores
    <2> SUFFICES ASSUME NEW k \in 1..n
                 PROVE  part[k] \in Stores
      OBVIOUS
    <2>1. k \in 1..MaxMsgs /\ first + k - 1 \in 1..Len(list) /\ first + k - 1 \in 1..MaxMsgs
      BY <1>1
    <2>2. \A i \in 1..Len(list) : list[i] \in 1..MaxMsgs
      BY ElementFacts
    <2>3. list[first + k - 1] \in 1..MaxMsgs
      BY <2>1, <2>2
    <2> QED
      BY <2>1, <2>3 DEF Stores
  <1>3. part \in Seq(Answers) /\ Len(part) = n
    <2>1. \A k \in 1..n : part[k] \in Answers
      BY <1>2 DEF Answers
    <2>2. part \in [1..n -> Answers]
      BY <2>1
    <2> HIDE DEF n
    <2> QED
      BY <2>2, <1>1
  <1>4. top \in Seq(Answers) /\ Len(top) = 1 /\ top[1] = [kind |-> "print"]
    <2>1. [kind |-> "print"] \in Answers
      BY DEF Answers
    <2> QED
      BY <2>1
  <1>5. Page(list, first) = top \o part
    BY DEF Page
  <1>6. \A j \in 1..n : part[j] = [kind |-> "store", place |-> j, id |-> first + j - 1,
                                   msg |-> list[first + j - 1]]
    OBVIOUS
  <1>7. n = Len(list) - first + 1 /\ first \in Nat
    BY <1>1
  <1> HIDE DEF part, top, n
  <1>8. /\ top \o part \in Seq(Answers) /\ Len(top \o part) = 1 + n
        /\ (top \o part)[1] = top[1]
        /\ \A j \in 1..n : (top \o part)[1 + j] = part[j]
    <2>2. /\ top \o part \in Seq(Answers) /\ Len(top \o part) = Len(top) + Len(part)
          /\ \A j \in 1..Len(top) : (top \o part)[j] = top[j]
          /\ \A j \in 1..Len(part) : (top \o part)[Len(top) + j] = part[j]
      BY <1>3, <1>4, ConcatAnswers, Zenon
    <2> QED
      BY ONLY <2>2, <1>3, <1>4, <1>1
  <1>9. \A j \in 1..n : Page(list, first)[j + 1] = part[j]
    <2>1. \A j \in 1..n : 1 + j = j + 1
      BY <1>1
    <2> QED
      BY <2>1, <1>8, <1>5
  <1>10. Len(Page(list, first)) = Len(list) - first + 2
    BY <1>5, <1>8, <1>7, <1>1
  <1> QED
    BY <1>4, <1>5, <1>6, <1>7, <1>8, <1>9, <1>10

Pages(list) == {Page(list, first) : first \in 1..(Len(list) + 1)}

LEMMA ShownPages ==
    ASSUME NEW list \in Seq(1..MaxMsgs)
    PROVE  Latest(list) \in Pages(list) /\ ShowHistory(list) \in Pages(list)
  <1>1. Len(list) \in Nat /\ Screen \in Nat /\ Screen >= 1
    BY Bounds
  <1>2. (IF Len(list) > Screen THEN Len(list) - Screen + 1 ELSE 1) \in 1..(Len(list) + 1)
    BY <1>1
  <1>3. 1 \in 1..(Len(list) + 1)
    BY <1>1
  <1> QED
    BY <1>2, <1>3, Zenon DEF Pages, Latest, ShowHistory

LEMMA PagesTypes ==
    ASSUME NEW list \in Seq(1..MaxMsgs), Len(list) <= MaxMsgs
    PROVE  Pages(list) \subseteq Seq(Answers)
  BY PageFacts, Zenon DEF Pages

LEMMA ToMembersFacts ==
    ASSUME NEW to \in [Conn -> Seq(Answers)], NEW page \in Seq(Answers), NEW members
    PROVE  /\ ToMembers(members, page, to) \in [Conn -> Seq(Answers)]
           /\ \A k \in Conn : ToMembers(members, page, to)[k]
                 = IF \E i \in Id : members[i].conn = k THEN to[k] \o page ELSE to[k]
  <1>1. \A k \in Conn : to[k] \o page \in Seq(Answers) /\ to[k] \in Seq(Answers)
    <2> TAKE k \in Conn
    <2>1. to[k] \in Seq(Answers)
      OBVIOUS
    <2> QED
      BY <2>1, ConcatFacts
  <1> QED
    BY <1>1, Zenon DEF ToMembers

-----------------------------------------------------------------------------
(***************************************************************************)
(* Types.                                                                  *)
(***************************************************************************)
LEMMA TypesGive == Types => TypeOK
  <1> SUFFICES ASSUME Types
               PROVE  TypeOK
    OBVIOUS
  <1>1. \A k \in 1..MaxMsgs : likeMap[k] \in 0..MaxMsgs
    BY DEF Types, ClientTypes
  <1>2. \A s \in Server, g \in Group : users[s][g] \in [Id -> [conn : 0..MaxConns,
                                          name : Name \cup {NoName, Bystander}]]
    BY DEF Types, ServerTypes, Entry
  <1> QED
    BY <1>1, <1>2 DEF Types, ClientTypes, TypeOK, Names, Groups

LEMMA AskTypes ==
    ASSUME NEW m \in Asks
    PROVE  /\ m \in Requests
           /\ m.kind \in Kinds /\ m.name \in Names /\ m.group \in Groups /\ m.new \in Groups
           /\ m.id \in Id \cup {NoId}
           /\ m.kind = "u" <=> m.id = NoId
           /\ m.kind = "u" => m.group = NoGroup
           /\ m.kind # "u" <=> m.id \in Id
           /\ m.kind \in {"j", "s", "a", "p", "l"} => m.group \in Group
           /\ m.kind = "s" => m.new \in Group
  BY Bounds, NoGroupAssumption DEF Asks, Requests, Groups

\* A request of the client as it is.
LEMMA RequestTypes ==
    ASSUME ClientTypes, NEW kind \in Kinds, NEW name \in Names, NEW group \in Groups,
           NEW new \in Groups, NEW number \in 0..MaxMsgs,
           kind = "u" <=> user_id = NoId, kind = "u" => group = NoGroup,
           kind \in {"j", "s", "a", "p", "l"} => group # NoGroup,
           kind = "s" => new # NoGroup
    PROVE  /\ Request(kind, name, group, new, number) \in Asks
           /\ Request(kind, name, group, new, number).kind = kind
           /\ Request(kind, name, group, new, number).name = name
           /\ Request(kind, name, group, new, number).group = group
           /\ Request(kind, name, group, new, number).new = new
           /\ Request(kind, name, group, new, number).id = user_id
  <1>1. user_id \in Id \cup {NoId}
    BY DEF ClientTypes
  <1>2. Request(kind, name, group, new, number) \in Requests
    BY <1>1 DEF Request, Requests
  <1>3. /\ Request(kind, name, group, new, number).kind = kind
        /\ Request(kind, name, group, new, number).name = name
        /\ Request(kind, name, group, new, number).group = group
        /\ Request(kind, name, group, new, number).new = new
        /\ Request(kind, name, group, new, number).id = user_id
    BY DEF Request
  <1> HIDE DEF Request
  <1> QED
    BY <1>2, <1>3 DEF Asks

LEMMA CommandTypes ==
    ASSUME ClientTypes, LinkTypes, ServerTypes, commands \in 0..MaxCommands,
           NEW r \in Asks, Command(r)
    PROVE  /\ LinkTypes' /\ ServerTypes' /\ commands' \in 0..MaxCommands
           /\ stream \in Conn
           /\ req' = [req EXCEPT ![stream] = Append(req[stream], r)]
           /\ req[stream] \in Seq(Asks)
  <1>1. stream \in Conn /\ stream \in 1..MaxConns
    <2>1. stream \in 0..MaxConns /\ stream # 0
      BY DEF ClientTypes, Command
    <2> QED
      BY ONLY <2>1, Bounds DEF Conn
  <1>2. req[stream] \in Seq(Asks) /\ req \in [Conn -> Seq(Asks)]
    BY <1>1 DEF LinkTypes
  <1>3. Append(req[stream], r) \in Seq(Asks)
    BY <1>2
  <1>4. req' = [req EXCEPT ![stream] = Append(req[stream], r)] /\ stream' = stream
    BY DEF Command
  <1>5. req' \in [Conn -> Seq(Asks)] /\ \A k \in Conn : k # stream => req'[k] = req[k]
    BY <1>1, <1>2, <1>3, <1>4, Zenon
  <1>6. \A k \in Conn : k > stream => req'[k] = <<>>
    <2>1. \A k \in Conn : k > stream => k # stream
      BY <1>1, Bounds
    <2> QED
      BY <2>1, <1>5 DEF LinkTypes
  <1>7. LinkTypes'
    BY <1>4, <1>5, <1>6 DEF LinkTypes, Command
  <1>8. ServerTypes'
    BY DEF ServerTypes, Command, serverVars
  <1>9. commands' \in 0..MaxCommands
    BY Bounds DEF Command
  <1> QED
    BY <1>1, <1>2, <1>4, <1>7, <1>8, <1>9

LEMMA UTypes ==
    ASSUME Types, NEW n \in Name, U(n)
    PROVE  /\ Types'
           /\ Request(IF user_id = NoId THEN "u" ELSE "change", n, currentgroup, NoGroup, 0)
                 \in Asks
  <1> USE DEF Types
  <1>1. Request(IF user_id = NoId THEN "u" ELSE "change", n, currentgroup, NoGroup, 0) \in Asks
    <2>1. n \in Names /\ currentgroup \in Groups /\ NoGroup \in Groups /\ 0 \in 0..MaxMsgs
      BY Bounds DEF ClientTypes, Names, Groups
    <2>2. CASE user_id = NoId
      <3>1. currentgroup = NoGroup
        BY <2>2 DEF ClientTypes
      <3> QED
        BY <2>1, <2>2, <3>1, RequestTypes DEF Kinds
    <2>3. CASE user_id # NoId
      BY <2>1, <2>3, RequestTypes DEF Kinds
    <2> QED
      BY <2>2, <2>3
  <1>2. LinkTypes' /\ ServerTypes' /\ commands' \in 0..MaxCommands
    BY <1>1, CommandTypes DEF U
  <1>3. ClientTypes'
    BY DEF U, Command, ClientTypes, Names
  <1>4. patient' \in BOOLEAN
    BY DEF U, LoginPending
  <1> QED
    BY <1>1, <1>2, <1>3, <1>4

LEMMA JTypes ==
    ASSUME Types, NEW g \in Group, J(g)
    PROVE  /\ Types'
           /\ Request("j", username, g, NoGroup, 0) \in Asks \/ currentgroup # NoGroup
           /\ Request("s", username, currentgroup, g, 0) \in Asks \/ currentgroup = NoGroup
  <1> USE DEF Types
  <1>1. user_id # NoId /\ username \in Names /\ currentgroup \in Groups /\ g \in Groups
        /\ NoGroup \in Groups /\ 0 \in 0..MaxMsgs /\ g # NoGroup
    BY Bounds, NoGroupAssumption DEF ClientTypes, Groups, J
  <1>2. CASE currentgroup = NoGroup
    <2>1. Request("j", username, g, NoGroup, 0) \in Asks
      BY <1>1, RequestTypes DEF Kinds
    <2>2. LinkTypes' /\ ServerTypes' /\ commands' \in 0..MaxCommands
      BY <2>1, <1>2, CommandTypes DEF J
    <2>3. ClientTypes'
      BY <1>1 DEF J, Command, ClientTypes
    <2> QED
      BY <1>2, <2>1, <2>2, <2>3 DEF J
  <1>3. CASE currentgroup # NoGroup
    <2>1. Request("s", username, currentgroup, g, 0) \in Asks
      BY <1>1, <1>3, RequestTypes DEF Kinds
    <2>2. LinkTypes' /\ ServerTypes' /\ commands' \in 0..MaxCommands
      BY <2>1, <1>3, CommandTypes DEF J
    <2>3. ClientTypes'
      BY <1>1 DEF J, Command, ClientTypes
    <2> QED
      BY <1>3, <2>1, <2>2, <2>3 DEF J
  <1> QED
    BY <1>2, <1>3

\* Append, history, like: the requests of a client in a group.
LEMMA ActTypes ==
    ASSUME Types, NEW kind \in {"a", "p", "l"}, NEW number \in 0..MaxMsgs,
           Act(Request(kind, username, currentgroup, NoGroup, number))
    PROVE  Types' /\ Request(kind, username, currentgroup, NoGroup, number) \in Asks
  <1> USE DEF Types
  <1>1. user_id # NoId /\ username \in Names /\ currentgroup \in Groups /\ NoGroup \in Groups
        /\ currentgroup # NoGroup /\ kind \in Kinds
    BY DEF ClientTypes, Groups, Act, Kinds
  <1>2. Request(kind, username, currentgroup, NoGroup, number) \in Asks
    BY <1>1, RequestTypes
  <1>3. LinkTypes' /\ ServerTypes' /\ commands' \in 0..MaxCommands
    BY <1>2, CommandTypes DEF Act
  <1>4. ClientTypes'
    BY DEF Act, Command, ClientTypes
  <1> QED
    BY <1>2, <1>3, <1>4 DEF Act

LEMMA QTypes ==
    ASSUME Types, Q
    PROVE  /\ Types'
           /\ current_state # 0 =>
                 Request("q", username, currentgroup, NoGroup, 0) \in Asks
  <1> USE DEF Types
  <1>1. CASE current_state = 0
    <2>1. UNCHANGED <<clientVars, stream, reading, server, req, resp, serverVars,
                      commands, patient>> /\ main' = "ended"
      BY <1>1 DEF Q
    <2> QED
      BY <1>1, <2>1 DEF ClientTypes, LinkTypes, ServerTypes, clientVars, serverVars
  <1>2. CASE current_state # 0
    <2>0. /\ Command(Request("q", username, currentgroup, NoGroup, 0))
          /\ main' = "waiting" /\ patient' = patient
          /\ UNCHANGED <<user_id, username, currentgroup, current_state, likeMap>>
      BY <1>2 DEF Q
    <2>1. user_id # NoId /\ username \in Names /\ currentgroup \in Groups
          /\ NoGroup \in Groups /\ 0 \in 0..MaxMsgs
      BY <1>2, Bounds DEF ClientTypes, Groups
    <2>2. Request("q", username, currentgroup, NoGroup, 0) \in Asks
      BY <2>1, RequestTypes DEF Kinds
    <2>3. LinkTypes' /\ ServerTypes' /\ commands' \in 0..MaxCommands
      BY <2>0, <2>2, CommandTypes
    <2>4. ClientTypes'
      BY <2>0 DEF Command, ClientTypes
    <2> QED
      BY <2>0, <2>2, <2>3, <2>4
  <1> QED
    BY <1>1, <1>2

LEMMA ResetTypes ==
    ASSUME Types, Reset
    PROVE  Types'
  <1> USE DEF Types
  <1>1. stream \in 1..(MaxConns - 1) /\ stream < MaxConns
    BY Bounds DEF Reset, ResetTo
  <1>2. ClientTypes'
    BY <1>1 DEF Reset, ResetTo, ClientTypes, Groups
  <1>3. LinkTypes' /\ ServerTypes' /\ commands' \in 0..MaxCommands
    BY DEF Reset, ResetTo, LinkTypes, ServerTypes, serverVars
  <1>4. patient' \in BOOLEAN
    BY DEF Reset, ResetTo, LoginPending
  <1> QED
    BY <1>2, <1>3, <1>4

LEMMA ConnectTypes ==
    ASSUME Types, NEW s \in Server, Connect(s)
    PROVE  Types' /\ stream + 1 \in Conn
  <1> USE DEF Types
  <1>1. stream \in Nat /\ stream < MaxConns /\ reading \in 0..stream
    BY Bounds DEF ClientTypes, Connect
  <1>2. /\ stream' = stream + 1 /\ reading' = reading /\ main' = "ready"
        /\ UNCHANGED <<user_id, username, currentgroup, current_state, likeMap, shown>>
        /\ UNCHANGED <<up, userCount, users, msgs, dirty, commands, patient, req, resp>>
        /\ server' = [server EXCEPT ![stream + 1] = s]
    BY DEF Connect, clientVars, serverVars
  <1>3. stream + 1 \in 0..MaxConns /\ reading \in 0..(stream + 1) /\ stream + 1 \in Conn
    BY <1>1, Bounds
  <1>4. ClientTypes'
    BY <1>2, <1>3 DEF ClientTypes
  <1>5. ServerTypes'
    BY <1>2 DEF ServerTypes
  <1>6. LinkTypes'
    <2>1. server \in [Conn -> Server \cup {NoServer}] /\ \A k \in 1..stream : server[k] \in Server
      BY DEF LinkTypes
    <2>2. server' \in [Conn -> Server \cup {NoServer}] /\ server'[stream + 1] = s
      BY <1>2, <1>3, <2>1
    <2>3. \A k \in 1..(stream + 1) : server'[k] \in Server
      <3> TAKE k \in 1..(stream + 1)
      <3>1. k \in Conn /\ (k = stream + 1 \/ k \in 1..stream)
        BY <1>1, Bounds
      <3> QED
        BY <3>1, <1>2, <2>1, <2>2
    <2>4. \A k \in Conn : k > stream + 1 => req[k] = <<>>
      BY <1>1, Bounds DEF LinkTypes
    <2> QED
      BY <1>2, <2>2, <2>3, <2>4 DEF LinkTypes
  <1> QED
    BY <1>2, <1>3, <1>4, <1>5, <1>6

LEMMA LoopTypes ==
    ASSUME Types, Choose \/ CannotReceive \/ End
    PROVE  Types'
  <1> USE DEF Types
  <1>1. UNCHANGED <<user_id, username, currentgroup, current_state, likeMap, shown, stream,
                    server, req, resp, up, userCount, users, msgs, dirty, commands, patient>>
    BY DEF Choose, CannotReceive, End, clientVars, serverVars
  <1>2. reading' \in 0..stream /\ main' \in {main, "ended"}
    BY DEF Choose, CannotReceive, End, ClientTypes
  <1>3. ClientTypes'
    BY <1>1, <1>2 DEF ClientTypes
  <1>4. LinkTypes' /\ ServerTypes'
    BY <1>1 DEF LinkTypes, ServerTypes
  <1> QED
    BY <1>1, <1>3, <1>4

LEMMA AnswerTypes ==
    ASSUME NEW m \in Answers
    PROVE  /\ m.kind \in {"login", "print", "bye", "Denial", "store"}
           /\ m.kind = "login" => m.id \in Id
           /\ m.kind = "store" => /\ m.place \in 1..MaxMsgs /\ m.id \in 1..MaxMsgs
                                  /\ m.msg \in 1..MaxMsgs
  BY DEF Answers, Stores

LEMMA ReceiveTypes ==
    ASSUME Types, Receive
    PROVE  /\ Types'
           /\ reading \in Conn /\ resp[reading] \in Seq(Answers)
           /\ Head(resp[reading]) \in Answers
           /\ resp' = [resp EXCEPT ![reading] = Tail(resp[reading])]
  <1> USE DEF Types
  <1> DEFINE m == Head(resp[reading])
  <1>1. reading \in Conn /\ resp[reading] # <<>> /\ resp[reading] \in Seq(Answers)
    BY DEF Receive, LinkTypes
  <1>2. m \in Answers /\ Tail(resp[reading]) \in Seq(Answers)
    BY <1>1, TailFacts
  <1>3. /\ user_id' = IF m.kind = "login" THEN m.id ELSE user_id
        /\ current_state' = IF m.kind = "login" THEN AfterLogin ELSE current_state
        /\ likeMap' = IF m.kind = "store" THEN [likeMap EXCEPT ![m.place] = m.id] ELSE likeMap
        /\ shown' = IF m.kind = "store" THEN Append(shown, m.msg)
                    ELSE IF m.kind = "print" THEN <<>> ELSE shown
        /\ main' = IF m.kind = "bye" THEN "left" ELSE main
        /\ reading' = 0
        /\ resp' = [resp EXCEPT ![reading] = Tail(resp[reading])]
        /\ UNCHANGED <<username, currentgroup, stream, server, req, up, userCount, users,
                       msgs, dirty, commands, patient>>
    BY Zenon DEF Receive, serverVars
  <1> HIDE DEF m
  <1>4. LinkTypes'
    <2>1. resp' \in [Conn -> Seq(Answers)]
      BY <1>1, <1>2, <1>3 DEF LinkTypes
    <2> QED
      BY <1>3, <2>1 DEF LinkTypes
  <1>5. ServerTypes'
    BY <1>3 DEF ServerTypes
  <1>6. likeMap' \in [1..MaxMsgs -> 0..MaxMsgs]
    <2>1. CASE m.kind = "store"
      <3>1. m.place \in 1..MaxMsgs /\ m.id \in 0..MaxMsgs
        BY <1>2, <2>1, AnswerTypes, Bounds
      <3> QED
        BY <1>3, <2>1, <3>1 DEF ClientTypes
    <2> QED
      BY <1>3, <2>1 DEF ClientTypes
  <1>7. shown' \in Seq(1..MaxMsgs)
    <2>1. CASE m.kind = "store"
      <3>1. m.msg \in 1..MaxMsgs /\ shown \in Seq(1..MaxMsgs)
        BY <1>2, <2>1, AnswerTypes DEF ClientTypes
      <3> QED
        BY <1>3, <2>1, <3>1
    <2>2. CASE m.kind # "store"
      <3>1. shown' \in {<<>>, shown}
        BY <1>3, <2>2
      <3>2. <<>> \in Seq(1..MaxMsgs)
        OBVIOUS
      <3> QED
        BY <3>1, <3>2 DEF ClientTypes
    <2> QED
      BY <2>1, <2>2
  <1>8. /\ user_id' \in Id \cup {NoId} /\ current_state' \in 0..2
        /\ (current_state' = 0 <=> user_id' = NoId)
        /\ (current_state' = 2 <=> currentgroup # NoGroup)
    <2>1. CASE m.kind = "login"
      <3>1. m.id \in Id /\ m.id # NoId
        BY <1>2, <2>1, AnswerTypes, Bounds
      <3>2. AfterLogin \in 1..2 /\ (AfterLogin = 2 <=> current_state = 2)
        BY DEF AfterLogin, ClientTypes
      <3> QED
        BY <1>3, <2>1, <3>1, <3>2 DEF ClientTypes
    <2>2. CASE m.kind # "login"
      <3>1. user_id' = user_id /\ current_state' = current_state
        BY <1>3, <2>2
      <3> QED
        BY <3>1 DEF ClientTypes
    <2> QED
      BY <2>1, <2>2
  <1>9. /\ main' \in {"ready", "connecting", "waiting", "left", "ended"}
        /\ main' = "connecting" => main = "connecting"
    BY <1>3 DEF ClientTypes
  <1>10. reading' \in 0..stream
    BY <1>3, Bounds DEF ClientTypes
  <1>11. ClientTypes'
    BY <1>3, <1>6, <1>7, <1>8, <1>9, <1>10 DEF ClientTypes
  <1> QED
    BY <1>1, <1>2, <1>3, <1>4, <1>5, <1>11 DEF m

-----------------------------------------------------------------------------
(***************************************************************************)
(* Counting: each request on its way is one command, and each message is   *)
(* one that was asked for.                                                 *)
(***************************************************************************)
LEMMA CountsFinite ==
    /\ IsFiniteSet(Pending) /\ Cardinality(Pending) \in Nat
    /\ IsFiniteSet(Asked) /\ Cardinality(Asked) \in Nat
    /\ IsFiniteSet(Posted) /\ Cardinality(Posted) \in Nat
  <1>1. IsFiniteSet(Conn) /\ IsFiniteSet(1..MaxCommands) /\ IsFiniteSet(1..MaxMsgs)
    BY Bounds, FS_Interval DEF Conn
  <1>2. IsFiniteSet(Conn \X (1..MaxCommands))
    BY <1>1, FS_Product
  <1>3. IsFiniteSet(Server \X Group)
    BY FiniteAssumption, FS_Product
  <1>4. IsFiniteSet((Server \X Group) \X (1..MaxMsgs))
    BY <1>1, <1>3, FS_Product
  <1>5. Pending \in SUBSET (Conn \X (1..MaxCommands)) /\ Asked \in SUBSET (Conn \X (1..MaxCommands))
    BY DEF Pending, Asked
  <1>6. IsFiniteSet(Posted)
    <2> DEFINE flat == [p \in Posted |-> <<<<p[1], p[2]>>, p[3]>>]
    <2>1. flat \in [Posted -> (Server \X Group) \X (1..MaxMsgs)]
      BY DEF Posted
    <2>2. \A p, q \in Posted : flat[p] = flat[q] => p = q
      BY DEF Posted
    <2>3. flat \in Injection(Posted, (Server \X Group) \X (1..MaxMsgs))
      BY <2>1, <2>2 DEF Injection, IsInjective
    <2> QED
      BY <1>4, <2>3, FS_Injection
  <1>7. IsFiniteSet(Pending) /\ IsFiniteSet(Asked)
    BY <1>2, <1>5, FS_Subset
  <1> QED
    BY <1>6, <1>7, FS_CardinalityType

\* A request that is sent.
LEMMA AppendCounts ==
    ASSUME req \in [Conn -> Seq(Asks)], NEW k \in Conn, NEW r \in Asks,
           Len(req[k]) < MaxCommands,
           req' = [req EXCEPT ![k] = Append(req[k], r)]
    PROVE  /\ Cardinality(Pending') = Cardinality(Pending) + 1
           /\ r.kind = "a" => Cardinality(Asked') = Cardinality(Asked) + 1
           /\ r.kind # "a" => Asked' = Asked
  <1> DEFINE new == <<k, Len(req[k]) + 1>>
  <1>1. req[k] \in Seq(Asks) /\ Len(req[k]) \in Nat
    OBVIOUS
  <1>2. /\ req'[k] = Append(req[k], r)
        /\ \A l \in Conn : l # k => req'[l] = req[l]
    OBVIOUS
  <1>3. /\ DOMAIN req[k] = 1..Len(req[k]) /\ DOMAIN req'[k] = 1..(Len(req[k]) + 1)
        /\ req'[k][Len(req[k]) + 1] = r
        /\ \A j \in 1..Len(req[k]) : req'[k][j] = req[k][j]
    BY <1>1, <1>2, AppendFacts
  <1>4. Len(req[k]) + 1 \in 1..MaxCommands
    BY <1>1, Bounds
  <1>5. Len(req[k]) + 1 \notin DOMAIN req[k]
    BY <1>1, <1>3
  <1>6. \A l \in Conn, j \in 1..MaxCommands :
           /\ j \in DOMAIN req'[l] <=> j \in DOMAIN req[l] \/ (l = k /\ j = Len(req[k]) + 1)
           /\ j \in DOMAIN req[l] => req'[l][j] = req[l][j]
    <2> TAKE l \in Conn, j \in 1..MaxCommands
    <2>1. CASE l = k
      BY <2>1, <1>1, <1>3
    <2>2. CASE l # k
      BY <2>2, <1>2
    <2> QED
      BY <2>1, <2>2
  <1>7. Pending' = Pending \cup {new} /\ new \notin Pending
    BY <1>4, <1>5, <1>6 DEF Pending
  <1>8. Cardinality(Pending') = Cardinality(Pending) + 1
    BY <1>7, CountsFinite, FS_AddElement, Zenon
  <1>9. ASSUME r.kind = "a"
        PROVE  Cardinality(Asked') = Cardinality(Asked) + 1
    <2>1. Asked' = Asked \cup {new} /\ new \notin Asked
      BY <1>3, <1>4, <1>5, <1>6, <1>9 DEF Asked
    <2> QED
      BY <2>1, CountsFinite, FS_AddElement, Zenon
  <1>10. ASSUME r.kind # "a"
         PROVE  Asked' = Asked
    BY <1>3, <1>4, <1>5, <1>6, <1>10 DEF Asked
  <1> QED
    BY <1>8, <1>9, <1>10

\* A request that is taken.
LEMMA TailCounts ==
    ASSUME req \in [Conn -> Seq(Asks)], NEW k \in Conn, req[k] # <<>>,
           Len(req[k]) <= MaxCommands,
           req' = [req EXCEPT ![k] = Tail(req[k])]
    PROVE  /\ Cardinality(Pending') = Cardinality(Pending) - 1
           /\ Cardinality(Asked') <= Cardinality(Asked)
           /\ Head(req[k]).kind = "a" => Cardinality(Asked') <= Cardinality(Asked) - 1
           /\ Cardinality(Pending') \in Nat /\ Cardinality(Asked') \in Nat
  <1>1. req[k] \in Seq(Asks) /\ Len(req[k]) \in Nat /\ Len(req[k]) >= 1
        /\ DOMAIN req[k] = 1..Len(req[k])
    OBVIOUS
  <1>2. /\ req'[k] = Tail(req[k])
        /\ \A l \in Conn : l # k => req'[l] = req[l]
    OBVIOUS
  <1>3. /\ Head(req[k]) = req[k][1]
        /\ DOMAIN req'[k] = 1..(Len(req[k]) - 1)
        /\ \A j \in 1..(Len(req[k]) - 1) : req'[k][j] = req[k][j + 1] /\ j + 1 \in DOMAIN req[k]
    BY <1>1, <1>2, TailFacts
  <1>4. Len(req[k]) \in 1..MaxCommands /\ MaxCommands \in Nat
    BY <1>1, Bounds
  <1>5. Cardinality(Pending') = Cardinality(Pending) - 1
    <2> DEFINE old == <<k, Len(req[k])>>
    <2>1. \A l \in Conn, j \in 1..MaxCommands :
             j \in DOMAIN req'[l] <=> j \in DOMAIN req[l] /\ ~(l = k /\ j = Len(req[k]))
      <3> TAKE l \in Conn, j \in 1..MaxCommands
      <3>1. CASE l = k
        <4>1. j \in DOMAIN req'[k] <=> j \in 1..(Len(req[k]) - 1)
          BY <1>3
        <4>2. j \in DOMAIN req[k] <=> j \in 1..Len(req[k])
          BY <1>1
        <4>3. Len(req[k]) \in Nat /\ j \in Nat
          BY <1>1, <1>4
        <4>4. j \in 1..(Len(req[k]) - 1) <=> j \in 1..Len(req[k]) /\ j # Len(req[k])
          BY ONLY <4>3
        <4> QED
          BY <3>1, <4>1, <4>2, <4>4
      <3>2. CASE l # k
        BY <3>2, <1>2
      <3> QED
        BY <3>1, <3>2
    <2>2. old \in Pending
      BY <1>1, <1>4 DEF Pending
    <2>3. Pending' = Pending \ {old}
      BY <2>1 DEF Pending
    <2> QED
      BY <2>2, <2>3, CountsFinite, FS_RemoveElement, Zenon
  <1>6. IsFiniteSet(Pending') /\ IsFiniteSet(Asked')
    <2>0. IsFiniteSet(Conn) /\ IsFiniteSet(1..MaxCommands)
      BY Bounds, FS_Interval DEF Conn
    <2>1. IsFiniteSet(Conn \X (1..MaxCommands))
      BY <2>0, FS_Product
    <2>2. Pending' \in SUBSET (Conn \X (1..MaxCommands)) /\ Asked' \in SUBSET (Conn \X (1..MaxCommands))
      BY DEF Pending, Asked
    <2> QED
      BY <2>1, <2>2, FS_Subset
  <1>7. Cardinality(Pending') \in Nat /\ Cardinality(Asked') \in Nat
    BY <1>6, FS_CardinalityType
  <1> DEFINE rest == Asked \ {<<k, 1>>}
             back == [p \in Asked' |-> IF p[1] = k THEN <<k, p[2] + 1>> ELSE p]
  <1>8. back \in Injection(Asked', rest)
    <2>1. \A p \in Asked' : /\ p = <<p[1], p[2]>> /\ p[1] \in Conn /\ p[2] \in 1..MaxCommands
                            /\ p[2] \in DOMAIN req'[p[1]] /\ req'[p[1]][p[2]].kind = "a"
      BY DEF Asked
    <2>2. \A p \in Asked' : back[p] \in rest
      <3> TAKE p \in Asked'
      <3>1. CASE p[1] = k
        <4>1. p[2] \in 1..(Len(req[k]) - 1) /\ req[k][p[2] + 1].kind = "a"
          BY <2>1, <3>1, <1>3
        <4>2. p[2] + 1 \in 1..MaxCommands /\ p[2] + 1 \in DOMAIN req[k] /\ p[2] + 1 # 1
          BY <4>1, <1>1, <1>4
        <4>3. <<k, p[2] + 1>> \in Asked
          BY <4>1, <4>2 DEF Asked
        <4> QED
          BY <3>1, <4>2, <4>3
      <3>2. CASE p[1] # k
        <4>1. p[2] \in DOMAIN req[p[1]] /\ req[p[1]][p[2]].kind = "a"
          BY <2>1, <3>2, <1>2
        <4>2. p \in Asked
          BY <4>1, <2>1 DEF Asked
        <4> QED
          BY <3>2, <4>2, <2>1
      <3> QED
        BY <3>1, <3>2
    <2>3. \A p, q \in Asked' : back[p] = back[q] => p = q
      <3> TAKE p, q \in Asked'
      <3>1. p = <<p[1], p[2]>> /\ q = <<q[1], q[2]>> /\ p[2] \in Nat /\ q[2] \in Nat
        BY <2>1, Bounds
      <3>2. /\ back[p] = IF p[1] = k THEN <<k, p[2] + 1>> ELSE p
            /\ back[q] = IF q[1] = k THEN <<k, q[2] + 1>> ELSE q
        OBVIOUS
      <3> HIDE DEF back
      <3>3. \A i, j \in Nat : i + 1 = j + 1 => i = j
        OBVIOUS
      <3>4. ASSUME back[p] = back[q]
            PROVE  p[1] = q[1] /\ p[2] = q[2]
        <4>1. /\ back[p][1] = p[1]
              /\ back[p][2] = IF p[1] = k THEN p[2] + 1 ELSE p[2]
          BY ONLY <3>1, <3>2
        <4>2. /\ back[q][1] = q[1]
              /\ back[q][2] = IF q[1] = k THEN q[2] + 1 ELSE q[2]
          BY ONLY <3>1, <3>2
        <4>3. p[1] = q[1]
          BY ONLY <3>4, <4>1, <4>2
        <4>4. CASE p[1] = k
          BY ONLY <4>1, <4>2, <4>3, <4>4, <3>1, <3>3, <3>4
        <4>5. CASE p[1] # k
          BY ONLY <4>1, <4>2, <4>3, <4>5, <3>4
        <4> QED
          BY ONLY <4>3, <4>4, <4>5
      <3> QED
        BY ONLY <3>1, <3>4
    <2> QED
      BY <2>2, <2>3 DEF Injection, IsInjective
  <1>9. Cardinality(Asked') <= Cardinality(rest) /\ IsFiniteSet(rest)
    <2>1. IsFiniteSet(rest)
      BY CountsFinite, FS_RemoveElement
    <2> HIDE DEF back, rest
    <2> QED
      BY <2>1, <1>8, FS_Injection
  <1>10. /\ Cardinality(rest) <= Cardinality(Asked)
         /\ Head(req[k]).kind = "a" => Cardinality(rest) = Cardinality(Asked) - 1
         /\ Cardinality(rest) \in Nat
    <2>1. Cardinality(rest) = IF <<k, 1>> \in Asked THEN Cardinality(Asked) - 1
                              ELSE Cardinality(Asked)
      BY CountsFinite, FS_RemoveElement, Zenon
    <2>2. Head(req[k]).kind = "a" => <<k, 1>> \in Asked
      BY <1>1, <1>3, <1>4 DEF Asked
    <2>3. Cardinality(rest) \in Nat
      BY <1>9, FS_CardinalityType
    <2> HIDE DEF rest
    <2> QED
      BY <2>1, <2>2, <2>3, CountsFinite
  <1> HIDE DEF rest, back
  <1> QED
    BY <1>5, <1>7, <1>9, <1>10, CountsFinite

LEMMA GroupExcept ==
    ASSUME NEW V, NEW f \in [Server -> [Group -> V]], NEW s \in Server, NEW g \in Group,
           NEW v \in V
    PROVE  /\ [f EXCEPT ![s][g] = v] \in [Server -> [Group -> V]]
           /\ [f EXCEPT ![s][g] = v][s][g] = v
           /\ \A t \in Server, h \in Group :
                 <<t, h>> # <<s, g>> => [f EXCEPT ![s][g] = v][t][h] = f[t][h]
  OBVIOUS

\* A message that is added.
LEMMA GrowCounts ==
    ASSUME msgs \in [Server -> [Group -> Seq(1..MaxMsgs)]], NEW s \in Server, NEW g \in Group,
           Len(msgs[s][g]) < MaxMsgs,
           NEW list \in Seq(1..MaxMsgs), Len(list) = Len(msgs[s][g]) + 1,
           msgs' = [msgs EXCEPT ![s][g] = list]
    PROVE  Cardinality(Posted') = Cardinality(Posted) + 1
  <1> DEFINE new == <<s, g, Len(list)>>
  <1>1. Len(msgs[s][g]) \in Nat /\ DOMAIN msgs[s][g] = 1..Len(msgs[s][g])
        /\ DOMAIN list = 1..Len(list)
    <2>1. msgs[s][g] \in Seq(1..MaxMsgs)
      OBVIOUS
    <2> QED
      BY <2>1, ElementFacts
  <1>2. /\ msgs'[s][g] = list
        /\ \A t \in Server, h \in Group : <<t, h>> # <<s, g>> => msgs'[t][h] = msgs[t][h]
    BY GroupExcept
  <1>3. Len(list) \in 1..MaxMsgs /\ Len(list) \notin DOMAIN msgs[s][g]
        /\ \A j \in 1..MaxMsgs : j \in DOMAIN list <=> j \in DOMAIN msgs[s][g] \/ j = Len(list)
    BY <1>1, Bounds
  <1>4. \A t \in Server, h \in Group, j \in 1..MaxMsgs :
           j \in DOMAIN msgs'[t][h] <=> j \in DOMAIN msgs[t][h] \/ <<t, h, j>> = new
    <2> TAKE t \in Server, h \in Group, j \in 1..MaxMsgs
    <2>1. CASE <<t, h>> = <<s, g>>
      BY <2>1, <1>2, <1>3
    <2>2. CASE <<t, h>> # <<s, g>>
      BY <2>2, <1>2
    <2> QED
      BY <2>1, <2>2
  <1>5. Posted' = Posted \cup {new} /\ new \notin Posted
    BY <1>3, <1>4 DEF Posted
  <1> QED
    BY <1>5, CountsFinite, FS_AddElement, Zenon

\* While less than MaxMsgs messages are there, no list has MaxMsgs.
LEMMA RoomLeft ==
    ASSUME msgs \in [Server -> [Group -> Seq(1..MaxMsgs)]], Cardinality(Posted) < MaxMsgs,
           NEW s \in Server, NEW g \in Group, Len(msgs[s][g]) <= MaxMsgs
    PROVE  Len(msgs[s][g]) < MaxMsgs
  <1>1. Len(msgs[s][g]) \in Nat /\ DOMAIN msgs[s][g] = 1..Len(msgs[s][g])
    <2>1. msgs[s][g] \in Seq(1..MaxMsgs)
      OBVIOUS
    <2> QED
      BY <2>1, ElementFacts
  <1> SUFFICES ASSUME Len(msgs[s][g]) = MaxMsgs
               PROVE  FALSE
    BY <1>1, Bounds
  <1> DEFINE here == [j \in 1..MaxMsgs |-> <<s, g, j>>]
  <1>2. here \in Injection(1..MaxMsgs, Posted)
    BY <1>1 DEF Injection, IsInjective, Posted
  <1>3. Cardinality(1..MaxMsgs) <= Cardinality(Posted)
    BY <1>2, CountsFinite, FS_Injection
  <1>4. Cardinality(1..MaxMsgs) = MaxMsgs
    BY Bounds, FS_Interval
  <1> QED
    BY <1>3, <1>4, CountsFinite, Bounds

\* There is a message that no group of the server has.
LEMMA NewMsgTypes ==
    ASSUME msgs \in [Server -> [Group -> Seq(1..MaxMsgs)]], Cardinality(Posted) < MaxMsgs,
           NEW s \in Server, \A g \in Group : Len(msgs[s][g]) <= MaxMsgs
    PROVE  NewMsg(s) \in 1..MaxMsgs
  <1>1. \E m \in 1..MaxMsgs : \A g \in Group : ~Contains(msgs[s][g], m)
    <2> SUFFICES ASSUME \A m \in 1..MaxMsgs : \E g \in Group : Contains(msgs[s][g], m)
                 PROVE  FALSE
      OBVIOUS
    <2> DEFINE mine == {p \in Posted : p[1] = s}
               value == [p \in mine |-> msgs[s][p[2]][p[3]]]
    <2>1. \A g \in Group : Len(msgs[s][g]) \in Nat /\ DOMAIN msgs[s][g] = 1..Len(msgs[s][g])
             /\ \A j \in 1..Len(msgs[s][g]) : msgs[s][g][j] \in 1..MaxMsgs
      <3> TAKE g \in Group
      <3>1. msgs[s][g] \in Seq(1..MaxMsgs)
        OBVIOUS
      <3> QED
        BY <3>1, ElementFacts
    <2>2. IsFiniteSet(mine) /\ Cardinality(mine) <= Cardinality(Posted)
          /\ Cardinality(mine) \in Nat
      BY CountsFinite, FS_Subset, FS_CardinalityType
    <2>3. value \in [mine -> 1..MaxMsgs]
      BY <2>1 DEF Posted
    <2>4. \A m \in 1..MaxMsgs : \E p \in mine : value[p] = m
      <3> TAKE m \in 1..MaxMsgs
      <3>1. PICK g \in Group : \E j \in 1..Len(msgs[s][g]) : msgs[s][g][j] = m
        BY DEF Contains
      <3>2. PICK j \in 1..Len(msgs[s][g]) : msgs[s][g][j] = m
        BY <3>1
      <3>3. j \in 1..MaxMsgs /\ j \in DOMAIN msgs[s][g]
        BY <2>1, Bounds
      <3>4. <<s, g, j>> \in mine
        BY <3>3 DEF Posted
      <3> QED
        BY <3>2, <3>4
    <2>5. value \in Surjection(mine, 1..MaxMsgs)
      BY <2>3, <2>4 DEF Surjection
    <2>6. Cardinality(1..MaxMsgs) <= Cardinality(mine)
      BY <2>2, <2>5, FS_Surjection
    <2>7. Cardinality(1..MaxMsgs) = MaxMsgs
      BY Bounds, FS_Interval
    <2> HIDE DEF mine
    <2> QED
      BY <2>2, <2>6, <2>7, CountsFinite, Bounds
  <1> QED
    BY <1>1, Zenon DEF NewMsg

-----------------------------------------------------------------------------
(***************************************************************************)
(* The counts stay within the bounds.                                      *)
(***************************************************************************)
LEMMA CommandCounts ==
    ASSUME Types, Counts, NEW r \in Asks, Command(r),
           r.kind = "a" => MsgCount < MaxMsgs
    PROVE  Counts'
  <1>1. /\ stream \in Conn /\ req' = [req EXCEPT ![stream] = Append(req[stream], r)]
        /\ req[stream] \in Seq(Asks) /\ req \in [Conn -> Seq(Asks)]
        /\ commands \in Nat /\ commands < MaxCommands /\ commands' = commands + 1
        /\ UNCHANGED <<userCount, msgs>>
    <2>1. /\ stream \in Conn /\ req' = [req EXCEPT ![stream] = Append(req[stream], r)]
          /\ req[stream] \in Seq(Asks)
      BY CommandTypes DEF Types
    <2>2. req \in [Conn -> Seq(Asks)]
      BY DEF Types, LinkTypes
    <2>3. commands \in Nat /\ commands < MaxCommands /\ commands' = commands + 1
      BY Bounds DEF Types, Command
    <2>4. UNCHANGED <<userCount, msgs>>
      BY DEF Command, serverVars
    <2> QED
      BY <2>1, <2>2, <2>3, <2>4
  <1>2. Len(req[stream]) <= commands /\ Len(req[stream]) \in Nat
    BY <1>1 DEF Counts
  <1>3. Len(req[stream]) < MaxCommands
    BY <1>1, <1>2, Bounds
  <1>4. /\ Cardinality(Pending') = Cardinality(Pending) + 1
        /\ r.kind = "a" => Cardinality(Asked') = Cardinality(Asked) + 1
        /\ r.kind # "a" => Asked' = Asked
    BY <1>1, <1>3, AppendCounts
  <1>5. Posted' = Posted
    BY <1>1 DEF Posted
  <1>6. \A k \in Conn : Len(req'[k]) <= commands'
    <2> TAKE k \in Conn
    <2>1. CASE k = stream
      <3>1. Len(req'[k]) = Len(req[stream]) + 1
        BY <2>1, <1>1, AppendFacts
      <3> QED
        BY <3>1, <1>1, <1>2
    <2>2. CASE k # stream
      <3>1. req'[k] = req[k] /\ Len(req[k]) \in Nat /\ Len(req[k]) <= commands
        BY <2>2, <1>1 DEF Counts
      <3> QED
        BY <3>1, <1>1
    <2> QED
      BY <2>1, <2>2
  <1>7. \A s \in Server : /\ FirstId[s] <= userCount'[s]
                          /\ userCount'[s] + Cardinality(Pending') <= commands' + 2
    <2> TAKE s \in Server
    <2>1. userCount[s] \in Nat /\ FirstId[s] <= userCount[s]
          /\ userCount[s] + Cardinality(Pending) <= commands + 2
      BY DEF Types, ServerTypes, Counts
    <2> QED
      BY <2>1, <1>1, <1>4, CountsFinite
  <1>8. Cardinality(Posted) + Cardinality(Asked') <= MaxMsgs
    BY <1>4, CountsFinite, Bounds DEF Counts, MsgCount
  <1> QED
    BY <1>1, <1>5, <1>6, <1>7, <1>8 DEF Counts

\* What leaves requests, ids and messages alone.
LEMMA FrameCounts ==
    ASSUME Counts, UNCHANGED <<req, userCount, msgs, commands>>
    PROVE  Counts'
  BY DEF Counts, Pending, Asked, Posted

-----------------------------------------------------------------------------
(***************************************************************************)
(* What a handler does, seen from outside.                                 *)
(***************************************************************************)
\* Answers that leave the client's id alone.
Quiet(t) == t \in Seq(Answers) /\ \A j \in DOMAIN t : t[j].kind # "login"

\* The answers "to" are those of "from", and more that leave the id alone.
Extends(to, from) == /\ to \in [Conn -> Seq(Answers)]
                     /\ \A l \in Conn : \E t : Quiet(t) /\ to[l] = from[l] \o t

LEMMA QuietEmpty == Quiet(<<>>)
  BY DEF Quiet

LEMMA QuietConcat ==
    ASSUME NEW t, NEW u, Quiet(t), Quiet(u)
    PROVE  Quiet(t \o u)
  <1>1. t \in Seq(Answers) /\ u \in Seq(Answers)
    BY DEF Quiet
  <1>2. /\ Len(t) \in Nat /\ DOMAIN t = 1..Len(t) /\ Len(u) \in Nat /\ DOMAIN u = 1..Len(u)
        /\ t \o u \in Seq(Answers) /\ DOMAIN (t \o u) = 1..(Len(t) + Len(u))
        /\ \A j \in 1..Len(t) : (t \o u)[j] = t[j]
        /\ \A j \in 1..Len(u) : (t \o u)[Len(t) + j] = u[j]
    BY <1>1, ConcatFacts
  <1>3. ASSUME NEW j \in 1..(Len(t) + Len(u))
        PROVE  (t \o u)[j].kind # "login"
    <2>1. CASE j \in 1..Len(t)
      BY <2>1, <1>2 DEF Quiet
    <2>2. CASE j \notin 1..Len(t)
      <3>1. j - Len(t) \in 1..Len(u) /\ Len(t) + (j - Len(t)) = j
        BY <2>2, <1>2
      <3>2. (t \o u)[j] = u[j - Len(t)]
        BY <3>1, <1>2
      <3> QED
        BY <3>1, <3>2, <1>2 DEF Quiet
    <2> QED
      BY <2>1, <2>2
  <1> QED
    BY <1>2, <1>3, Zenon DEF Quiet

LEMMA PageQuiet ==
    ASSUME NEW list \in Seq(1..MaxMsgs), Len(list) <= MaxMsgs, NEW page \in Pages(list)
    PROVE  Quiet(page)
  <1>1. PICK first \in 1..(Len(list) + 1) : page = Page(list, first)
    BY DEF Pages
  <1>2. Len(list) \in Nat /\ first \in Nat
    OBVIOUS
  <1>3. page \in Seq(Answers) /\ DOMAIN page = 1..(Len(list) - first + 2)
    BY <1>1, PageFacts, ElementFacts
  <1>4. ASSUME NEW j \in 1..(Len(list) - first + 2)
        PROVE  page[j].kind # "login"
    <2>1. CASE j = 1
      BY <2>1, <1>1, PageFacts
    <2>2. CASE j # 1
      <3>1. j - 1 \in 1..(Len(list) - first + 1) /\ (j - 1) + 1 = j
        BY <2>2, <1>2
      <3>2. \A i \in 1..(Len(list) - first + 1) : page[i + 1].kind = "store"
        <4> TAKE i \in 1..(Len(list) - first + 1)
        <4>1. Page(list, first)[i + 1] = [kind |-> "store", place |-> i, id |-> first + i - 1,
                                         msg |-> list[first + i - 1]]
          BY PageFacts
        <4> QED
          BY <4>1, <1>1
      <3> QED
        BY <3>1, <3>2
    <2> QED
      BY <2>1, <2>2
  <1> QED
    BY <1>3, <1>4, Zenon DEF Quiet

LEMMA ExtendsSelf ==
    ASSUME NEW to \in [Conn -> Seq(Answers)]
    PROVE  Extends(to, to)
  <1>1. \A l \in Conn : to[l] = to[l] \o <<>>
    <2> TAKE l \in Conn
    <2>1. to[l] \in Seq(Answers)
      OBVIOUS
    <2> QED
      BY <2>1
  <1> QED
    BY <1>1, QuietEmpty, Zenon DEF Extends

LEMMA ExtendsMore ==
    ASSUME NEW from \in [Conn -> Seq(Answers)], NEW mid, NEW to, Extends(mid, from),
           Extends(to, mid)
    PROVE  Extends(to, from)
  <1>1. to \in [Conn -> Seq(Answers)]
    BY DEF Extends
  <1>2. ASSUME NEW l \in Conn
        PROVE  \E t : Quiet(t) /\ to[l] = from[l] \o t
    <2>1. PICK t : Quiet(t) /\ mid[l] = from[l] \o t
      BY DEF Extends
    <2>2. PICK u : Quiet(u) /\ to[l] = mid[l] \o u
      BY DEF Extends
    <2>3. from[l] \in Seq(Answers) /\ t \in Seq(Answers) /\ u \in Seq(Answers)
      BY <2>1, <2>2 DEF Quiet
    <2>4. (from[l] \o t) \o u = from[l] \o (t \o u)
      BY <2>3
    <2>5. Quiet(t \o u)
      BY <2>1, <2>2, QuietConcat
    <2> QED
      BY <2>1, <2>2, <2>4, <2>5
  <1> QED
    BY <1>1, <1>2 DEF Extends

LEMMA ToMembersExtends ==
    ASSUME NEW to \in [Conn -> Seq(Answers)], NEW page, Quiet(page), NEW members
    PROVE  Extends(ToMembers(members, page, to), to)
  <1>1. page \in Seq(Answers)
    BY DEF Quiet
  <1>2. /\ ToMembers(members, page, to) \in [Conn -> Seq(Answers)]
        /\ \A k \in Conn : ToMembers(members, page, to)[k] \in {to[k] \o page, to[k]}
    <2>1. ToMembers(members, page, to) \in [Conn -> Seq(Answers)]
      BY <1>1, ToMembersFacts
    <2> QED
      BY <2>1, Zenon DEF ToMembers
  <1>3. \A l \in Conn : to[l] = to[l] \o <<>>
    <2> TAKE l \in Conn
    <2>1. to[l] \in Seq(Answers)
      OBVIOUS
    <2> QED
      BY <2>1
  <1> QED
    BY <1>2, <1>3, QuietEmpty, Zenon DEF Extends

\* One more answer at the end of a stream.
LEMMA AnswerExtends ==
    ASSUME NEW to \in [Conn -> Seq(Answers)], NEW k \in Conn, NEW m \in Answers
    PROVE  /\ [to EXCEPT ![k] = Append(to[k], m)] \in [Conn -> Seq(Answers)]
           /\ m.kind # "login" => Extends([to EXCEPT ![k] = Append(to[k], m)], to)
  <1> DEFINE ext == [to EXCEPT ![k] = Append(to[k], m)]
  <1>1. to[k] \in Seq(Answers) /\ \A l \in Conn : to[l] \in Seq(Answers)
    OBVIOUS
  <1>2. Append(to[k], m) \in Seq(Answers) /\ Append(to[k], m) = to[k] \o <<m>>
    BY <1>1
  <1>3. ext \in [Conn -> Seq(Answers)]
    BY <1>2
  <1>4. ASSUME m.kind # "login"
        PROVE  Extends(ext, to)
    <2>1. Quiet(<<m>>)
      BY <1>4 DEF Quiet
    <2>2. \A l \in Conn : ext[l] \in {to[l] \o <<m>>, to[l] \o <<>>}
      <3> TAKE l \in Conn
      <3>1. to[l] = to[l] \o <<>>
        BY <1>1
      <3> QED
        BY <3>1, <1>2
    <2> HIDE DEF ext
    <2> QED
      BY <1>3, <2>1, <2>2, QuietEmpty, Zenon DEF Extends
  <1> QED
    BY <1>3, <1>4

-----------------------------------------------------------------------------
(***************************************************************************)
(* The handlers: types, counts, and what else each of them changes.        *)
(***************************************************************************)
LEMMA TakesFacts ==
    ASSUME Types, Counts, NEW k \in Conn, NEW kinds, Takes(k, kinds)
    PROVE  /\ req \in [Conn -> Seq(Asks)] /\ req[k] \in Seq(Asks) /\ req[k] # <<>>
           /\ req' = [req EXCEPT ![k] = Tail(req[k])]
           /\ Head(req[k]) \in Asks /\ Head(req[k]).kind \in kinds
           /\ k \in 1..stream /\ server[k] \in Server /\ server[k] \in up
           /\ resp \in [Conn -> Seq(Answers)]
           /\ UNCHANGED <<user_id, username, currentgroup, current_state, likeMap, shown,
                          stream, reading, main, server, commands, patient>>
  <1>1. req \in [Conn -> Seq(Asks)] /\ resp \in [Conn -> Seq(Answers)]
    BY DEF Types, LinkTypes
  <1>2. req[k] \in Seq(Asks) /\ req[k] # <<>> /\ Head(req[k]) \in Asks
    BY <1>1, TailFacts DEF Takes
  <1>3. k \in 1..stream
    BY <1>2, Bounds DEF Types, LinkTypes, ClientTypes
  <1>4. server[k] \in Server
    BY <1>3 DEF Types, LinkTypes
  <1>5. UNCHANGED <<user_id, username, currentgroup, current_state, likeMap, shown,
                    stream, reading, main, server, commands, patient>>
    BY DEF Takes, clientVars
  <1>6. /\ server[k] \in up /\ Head(req[k]).kind \in kinds
        /\ req' = [req EXCEPT ![k] = Tail(req[k])]
    BY DEF Takes
  <1> QED
    BY <1>1, <1>2, <1>3, <1>4, <1>5, <1>6

LEMMA TakesTypes ==
    ASSUME Types, Counts, NEW k \in Conn, NEW kinds, Takes(k, kinds),
           resp' \in [Conn -> Seq(Answers)], ServerTypes'
    PROVE  Types'
  <1>1. /\ req \in [Conn -> Seq(Asks)] /\ req[k] \in Seq(Asks) /\ req[k] # <<>>
        /\ req' = [req EXCEPT ![k] = Tail(req[k])] /\ k \in 1..stream
        /\ UNCHANGED <<user_id, username, currentgroup, current_state, likeMap, shown,
                       stream, reading, main, server, commands, patient>>
    BY TakesFacts
  <1>2. ClientTypes' /\ commands' \in 0..MaxCommands /\ patient' \in BOOLEAN
    BY <1>1 DEF Types, ClientTypes
  <1>3. Tail(req[k]) \in Seq(Asks)
    BY <1>1, TailFacts
  <1>4. req' \in [Conn -> Seq(Asks)] /\ \A l \in Conn : l # k => req'[l] = req[l]
    BY <1>1, <1>3
  <1>5. \A l \in Conn : l > stream' => req'[l] = <<>>
    <2> TAKE l \in Conn
    <2>1. k \in 1..stream /\ stream \in Nat /\ l \in Nat
      BY <1>1, Bounds DEF Types, ClientTypes
    <2>2. l > stream => l # k
      BY ONLY <2>1
    <2> QED
      BY <2>2, <1>1, <1>4 DEF Types, LinkTypes
  <1>6. LinkTypes'
    BY <1>1, <1>4, <1>5 DEF Types, LinkTypes
  <1> QED
    BY <1>2, <1>6 DEF Types

LEMMA TakesCounts ==
    ASSUME Types, Counts, NEW k \in Conn, NEW kinds, Takes(k, kinds)
    PROVE  /\ \A l \in Conn : Len(req'[l]) <= commands'
           /\ Cardinality(Pending') \in Nat
           /\ Cardinality(Pending') = Cardinality(Pending) - 1
           /\ Cardinality(Asked') \in Nat
           /\ Cardinality(Asked') <= Cardinality(Asked)
           /\ Head(req[k]).kind = "a" => Cardinality(Asked') <= Cardinality(Asked) - 1
           /\ userCount' = userCount /\ msgs' = msgs => Counts'
  <1>1. /\ req \in [Conn -> Seq(Asks)] /\ req[k] \in Seq(Asks) /\ req[k] # <<>>
        /\ req' = [req EXCEPT ![k] = Tail(req[k])] /\ commands' = commands
    BY TakesFacts
  <1>2. \A l \in Conn : Len(req[l]) \in Nat /\ Len(req[l]) <= commands
    BY <1>1 DEF Counts
  <1>3. commands \in Nat /\ commands <= MaxCommands /\ Len(req[k]) <= MaxCommands
    <2>1. commands \in 0..MaxCommands
      BY DEF Types
    <2> QED
      BY <2>1, <1>2, Bounds
  <1>4. /\ Cardinality(Pending') = Cardinality(Pending) - 1
        /\ Cardinality(Asked') <= Cardinality(Asked)
        /\ Head(req[k]).kind = "a" => Cardinality(Asked') <= Cardinality(Asked) - 1
        /\ Cardinality(Pending') \in Nat /\ Cardinality(Asked') \in Nat
    BY <1>1, <1>3, TailCounts
  <1>5. \A l \in Conn : Len(req'[l]) <= commands'
    <2> TAKE l \in Conn
    <2>1. CASE l = k
      <3>1. Len(req'[l]) = Len(req[k]) - 1
        BY <2>1, <1>1, TailFacts
      <3> QED
        BY <3>1, <1>1, <1>2, <1>3
    <2>2. CASE l # k
      BY <2>2, <1>1, <1>2
    <2> QED
      BY <2>1, <2>2
  <1>6. ASSUME userCount' = userCount, msgs' = msgs
        PROVE  Counts'
    <2>1. Posted' = Posted
      BY <1>6 DEF Posted
    <2>2. \A s \in Server : /\ FirstId[s] <= userCount[s]
                            /\ userCount[s] + Cardinality(Pending') <= commands + 2
      <3> TAKE s \in Server
      <3>1. userCount[s] \in Nat /\ FirstId[s] <= userCount[s]
            /\ userCount[s] + Cardinality(Pending) <= commands + 2
        BY DEF Types, ServerTypes, Counts
      <3> QED
        BY <3>1, <1>3, <1>4, CountsFinite
    <2>3. Cardinality(Posted) + Cardinality(Asked') <= MaxMsgs
      BY <1>4, CountsFinite, Bounds DEF Counts
    <2> QED
      BY <1>1, <1>5, <1>6, <2>1, <2>2, <2>3 DEF Counts
  <1> QED
    BY <1>4, <1>5, <1>6

LEMMA ListFacts ==
    ASSUME Types, Counts, NEW s \in Server, NEW g \in Group
    PROVE  /\ msgs[s][g] \in Seq(1..MaxMsgs) /\ Len(msgs[s][g]) \in Nat
           /\ Len(msgs[s][g]) <= MaxMsgs
           /\ Latest(msgs[s][g]) \in Pages(msgs[s][g]) /\ Quiet(Latest(msgs[s][g]))
           /\ ShowHistory(msgs[s][g]) \in Pages(msgs[s][g])
           /\ Quiet(ShowHistory(msgs[s][g]))
  <1>1. msgs[s][g] \in Seq(1..MaxMsgs)
    BY DEF Types, ServerTypes
  <1>2. Len(msgs[s][g]) <= MaxMsgs /\ Len(msgs[s][g]) \in Nat
    BY <1>1 DEF Counts
  <1>3. Latest(msgs[s][g]) \in Pages(msgs[s][g]) /\ ShowHistory(msgs[s][g]) \in Pages(msgs[s][g])
    BY <1>1, ShownPages
  <1> QED
    BY <1>1, <1>2, <1>3, PageQuiet

LEMMA UserLoginTypes ==
    ASSUME Types, Counts, NEW k \in Conn, UserLogin(k)
    PROVE  /\ Types' /\ Counts'
           /\ userCount[server[k]] + 1 \in Id
           /\ userCount' = [userCount EXCEPT ![server[k]] = userCount[server[k]] + 1]
           /\ resp' = [resp EXCEPT ![k] = Append(resp[k], Login(userCount[server[k]] + 1))]
           /\ Login(userCount[server[k]] + 1) \in Answers
           /\ UNCHANGED <<up, users, msgs, dirty>>
  <1> DEFINE s == server[k]
  <1>1. /\ Takes(k, {"u"})
        /\ userCount' = [userCount EXCEPT ![s] = userCount[s] + 1]
        /\ resp' = [resp EXCEPT ![k] = Append(resp[k], Login(userCount[s] + 1))]
        /\ UNCHANGED <<up, users, msgs, dirty>>
    BY DEF UserLogin
  <1>2. /\ s \in Server /\ resp \in [Conn -> Seq(Answers)] /\ commands' = commands
    BY <1>1, TakesFacts
  <1> HIDE DEF s
  <1>3. userCount \in [Server -> Nat] /\ commands \in 0..MaxCommands
    BY DEF Types, ServerTypes
  <1>4. userCount' \in [Server -> Nat] /\ \A t \in Server :
           userCount'[t] = IF t = s THEN userCount[s] + 1 ELSE userCount[t]
    BY <1>1, <1>2, <1>3
  <1>5. /\ \A l \in Conn : Len(req'[l]) <= commands'
        /\ Cardinality(Pending') \in Nat
        /\ Cardinality(Pending') = Cardinality(Pending) - 1
        /\ Cardinality(Asked') \in Nat
        /\ Cardinality(Asked') <= Cardinality(Asked)
    BY <1>1, TakesCounts
  <1>6. \A t \in Server : /\ userCount[t] \in Nat /\ FirstId[t] \in Nat
                          /\ FirstId[t] <= userCount[t]
                          /\ userCount[t] + Cardinality(Pending) <= commands + 2
    BY <1>3, Bounds DEF Counts
  <1>7. userCount[s] + 1 \in Id
    <2>1. /\ userCount[s] \in Nat /\ userCount[s] + Cardinality(Pending) <= commands + 2
          /\ commands \in Nat /\ commands <= MaxCommands /\ MaxCommands \in Nat
          /\ Cardinality(Pending) \in Nat /\ Cardinality(Pending) >= 1
      BY <1>2, <1>3, <1>5, <1>6, CountsFinite, Bounds
    <2>2. userCount[s] + 1 \in 1..(MaxCommands + 2)
      BY ONLY <2>1
    <2> QED
      BY <2>2 DEF Id
  <1>8. Login(userCount[s] + 1) \in Answers
    BY <1>7 DEF Answers, Login
  <1>9. resp' \in [Conn -> Seq(Answers)]
    BY <1>1, <1>2, <1>8, AnswerExtends
  <1>10. ServerTypes'
    BY <1>1, <1>4 DEF Types, ServerTypes
  <1>11. Types'
    BY <1>1, <1>9, <1>10, TakesTypes
  <1>12. Posted' = Posted
    BY <1>1 DEF Posted
  <1>13. \A t \in Server : /\ FirstId[t] <= userCount'[t]
                           /\ userCount'[t] + Cardinality(Pending') <= commands' + 2
    <2> TAKE t \in Server
    <2>1. userCount'[t] \in {userCount[t], userCount[t] + 1}
      BY <1>4
    <2>2. commands \in Nat
      BY <1>3, Bounds
    <2> QED
      BY ONLY <2>1, <2>2, <1>2, <1>5, <1>6, CountsFinite
  <1>14. Cardinality(Posted) + Cardinality(Asked') <= MaxMsgs
    BY <1>5, CountsFinite, Bounds DEF Counts
  <1>15. Counts'
    BY <1>1, <1>5, <1>12, <1>13, <1>14 DEF Counts
  <1> QED
    BY <1>1, <1>7, <1>8, <1>11, <1>15 DEF s

Entries == [Server -> [Group -> [Id -> Entry]]]

LEMMA EntriesTypes ==
    ASSUME Types
    PROVE  users \in Entries /\ \A s \in Server, g \in Group, i \in Id : users[s][g][i] \in Entry
  BY DEF Types, ServerTypes, Entries

Written(f, s, g, i, e) == [f EXCEPT ![s][g][i] = e]

LEMMA EntryWritten ==
    ASSUME NEW f \in Entries, NEW s \in Server, NEW g \in Group, NEW i \in Id,
           NEW e \in Entry
    PROVE  /\ Written(f, s, g, i, e) \in Entries
           /\ Written(f, s, g, i, e)[s][g][i] = e
           /\ \A t \in Server, h \in Group, j \in Id :
                 ~(t = s /\ h = g /\ j = i) => Written(f, s, g, i, e)[t][h][j] = f[t][h][j]
  <1>1. PICK row : row = [f[s][g] EXCEPT ![i] = e]
    OBVIOUS
  <1>2. f[s] \in [Group -> [Id -> Entry]] /\ f[s][g] \in [Id -> Entry]
    BY DEF Entries
  <1>3. row \in [Id -> Entry] /\ row[i] = e /\ \A j \in Id : j # i => row[j] = f[s][g][j]
    BY <1>1, <1>2
  <1>4. PICK rows : rows = [f[s] EXCEPT ![g] = row]
    OBVIOUS
  <1>5. /\ rows \in [Group -> [Id -> Entry]] /\ rows[g] = row
        /\ \A h \in Group : h # g => rows[h] = f[s][h]
    BY <1>2, <1>3, <1>4
  <1>6. PICK f2 : f2 = Written(f, s, g, i, e)
    OBVIOUS
  <1>8. f2 = [f EXCEPT ![s] = rows]
    BY <1>1, <1>4, <1>6 DEF Written
  <1>7. /\ f2 \in [Server -> [Group -> [Id -> Entry]]] /\ f2[s] = rows
        /\ \A t \in Server : t # s => f2[t] = f[t]
    BY <1>5, <1>8 DEF Entries
  <1>9. f2[s][g][i] = e /\ f2 \in Entries
    BY ONLY <1>3, <1>5, <1>7 DEF Entries
  <1>10. \A t \in Server, h \in Group, j \in Id :
            ~(t = s /\ h = g /\ j = i) => f2[t][h][j] = f[t][h][j]
    <2> TAKE t \in Server, h \in Group, j \in Id
    <2>1. CASE t # s
      BY <2>1, <1>7
    <2>2. CASE t = s /\ h # g
      BY <2>2, <1>5, <1>7
    <2>3. CASE t = s /\ h = g /\ j # i
      BY <2>3, <1>3, <1>5, <1>7
    <2> QED
      BY <2>1, <2>2, <2>3
  <1> QED
    BY ONLY <1>6, <1>9, <1>10

LEMMA EntriesWritten ==
    \A f \in Entries, s \in Server, g \in Group, i \in Id, e \in Entry :
        /\ Written(f, s, g, i, e) \in Entries
        /\ Written(f, s, g, i, e)[s][g][i] = e
        /\ \A t \in Server, h \in Group, j \in Id :
              ~(t = s /\ h = g /\ j = i) => Written(f, s, g, i, e)[t][h][j] = f[t][h][j]
  BY EntryWritten

LEMMA NoUserTypes == NoUser \in Entry /\ NoUser.conn = 0 /\ NoUser.name = NoName
  BY Bounds DEF NoUser, Entry

LEMMA ChangeIdentityFacts ==
    ASSUME Types, Counts, NEW k \in Conn, ChangeIdentity(k), NEW s, s = server[k],
           NEW m, m = Head(req[k])
    PROVE  /\ Types' /\ Counts'
           /\ m \in Asks /\ m.kind = "change" /\ m.id \in Id /\ s \in Server
           /\ m.group = NoGroup => users' = users
           /\ m.group # NoGroup =>
                 /\ m.group \in Group
                 /\ \A t \in Server, h \in Group, i \in Id :
                       /\ users'[t][h][i].conn = users[t][h][i].conn
                       /\ users'[t][h][i].name =
                             IF t = s /\ h = m.group /\ i = m.id THEN m.name
                             ELSE users[t][h][i].name
                 /\ resp' = ToMembers(users'[s][m.group], Latest(msgs[s][m.group]),
                                      [resp EXCEPT ![k] = Append(resp[k], Login(m.id))])
           /\ m.group = NoGroup => resp' = [resp EXCEPT ![k] = Append(resp[k], Login(m.id))]
           /\ Login(m.id) \in Answers
           /\ Extends(resp', [resp EXCEPT ![k] = Append(resp[k], Login(m.id))])
           /\ [resp EXCEPT ![k] = Append(resp[k], Login(m.id))] \in [Conn -> Seq(Answers)]
           /\ UNCHANGED <<up, userCount, msgs, dirty>>
  <1> DEFINE first == [resp EXCEPT ![k] = Append(resp[k], Login(m.id))]
  <1>1. /\ Takes(k, {"change"})
        /\ UNCHANGED <<up, userCount, msgs, dirty>>
    BY DEF ChangeIdentity
  <1>2. /\ m.group = NoGroup => resp' = first /\ users' = users
        /\ m.group # NoGroup =>
              /\ users' = [users EXCEPT ![s][m.group][m.id].name = m.name]
              /\ resp' = ToMembers(users'[s][m.group], Latest(msgs[s][m.group]), first)
    BY Zenon DEF ChangeIdentity
  <1>3. m \in Asks /\ m.kind = "change" /\ s \in Server /\ resp \in [Conn -> Seq(Answers)]
    BY <1>1, TakesFacts
  <1>4. m.id \in Id /\ m.name \in Names /\ (m.group # NoGroup => m.group \in Group)
    BY <1>3, AskTypes DEF Groups
  <1>5. Login(m.id) \in Answers
    BY <1>4 DEF Login, Answers
  <1>6. first \in [Conn -> Seq(Answers)]
    BY <1>3, <1>5, AnswerExtends
  <1> HIDE DEF first
  <1>7. Extends(resp', first) /\ resp' \in [Conn -> Seq(Answers)]
    <2>1. CASE m.group = NoGroup
      BY <2>1, <1>2, <1>6, ExtendsSelf
    <2>2. CASE m.group # NoGroup
      <3>1. Quiet(Latest(msgs[s][m.group]))
        BY <2>2, <1>3, <1>4, ListFacts
      <3>2. Extends(ToMembers(users'[s][m.group], Latest(msgs[s][m.group]), first), first)
        BY <3>1, <1>6, ToMembersExtends
      <3> QED
        BY <2>2, <3>2, <1>2 DEF Extends
    <2> QED
      BY <2>1, <2>2
  <1>8. ASSUME m.group # NoGroup
        PROVE  /\ users' \in Entries
               /\ \A t \in Server, h \in Group, i \in Id :
                     /\ users'[t][h][i].conn = users[t][h][i].conn
                     /\ users'[t][h][i].name =
                           IF t = s /\ h = m.group /\ i = m.id THEN m.name
                           ELSE users[t][h][i].name
    <2>1. m.group \in Group /\ users' = [users EXCEPT ![s][m.group][m.id].name = m.name]
      BY <1>2, <1>4, <1>8
    <2>2. /\ users' \in Entries
          /\ users'[s][m.group][m.id].name = m.name
          /\ users'[s][m.group][m.id].conn = users[s][m.group][m.id].conn
          /\ \A t \in Server, h \in Group, j \in Id :
                ~(t = s /\ h = m.group /\ j = m.id) => users'[t][h][j] = users[t][h][j]
      <3>1. users \in Entries /\ users[s][m.group][m.id] \in Entry
        BY <1>3, <1>4, <2>1, EntriesTypes
      <3>2. PICK e : e = [users[s][m.group][m.id] EXCEPT !.name = m.name]
        OBVIOUS
      <3>3. e \in Entry /\ e.name = m.name /\ e.conn = users[s][m.group][m.id].conn
        BY <1>4, <3>1, <3>2 DEF Entry, Names
      <3>4. users' = [users EXCEPT ![s][m.group][m.id] = e]
        BY <2>1, <3>2
      <3>5. /\ users' \in Entries
            /\ users'[s][m.group][m.id] = e
            /\ \A t \in Server, h \in Group, j \in Id :
                  ~(t = s /\ h = m.group /\ j = m.id) => users'[t][h][j] = users[t][h][j]
        <4>1. m.group \in Group /\ m.id \in Id /\ s \in Server /\ e \in Entry
          BY <1>3, <1>4, <2>1, <3>3
        <4> QED
          BY ONLY <4>1, <3>1, <3>4 DEF Entries
      <3> QED
        BY <3>3, <3>5
    <2>3. ASSUME NEW t \in Server, NEW h \in Group, NEW i \in Id
          PROVE  /\ users'[t][h][i].conn = users[t][h][i].conn
                 /\ users'[t][h][i].name = IF t = s /\ h = m.group /\ i = m.id THEN m.name
                                           ELSE users[t][h][i].name
      <3>1. CASE t = s /\ h = m.group /\ i = m.id
        BY <2>2, <3>1
      <3>2. CASE ~(t = s /\ h = m.group /\ i = m.id)
        <4>1. users'[t][h][i] = users[t][h][i]
          BY <2>2, <3>2
        <4> QED
          BY <3>2, <4>1
      <3> QED
        BY <3>1, <3>2
    <2> QED
      BY <2>2, <2>3
  <1>9. users' \in Entries
    BY <1>2, <1>8, EntriesTypes
  <1>10. ServerTypes'
    BY <1>1, <1>9 DEF Types, ServerTypes, Entries
  <1>11. Types'
    BY <1>1, <1>7, <1>10, TakesTypes
  <1>12. Counts'
    BY <1>1, TakesCounts
  <1> QED
    BY <1>1, <1>2, <1>3, <1>4, <1>5, <1>6, <1>7, <1>8, <1>11, <1>12 DEF first

LEMMA JoinFacts ==
    ASSUME Types, Counts, NEW k \in Conn, Join(k), NEW s, s = server[k],
           NEW m, m = Head(req[k])
    PROVE  /\ Types' /\ Counts'
           /\ m \in Asks /\ m.kind = "j" /\ m.id \in Id /\ m.group \in Group /\ s \in Server
           /\ \A t \in Server, h \in Group, i \in Id :
                 users'[t][h][i] = IF t = s /\ h = m.group /\ i = m.id
                                   THEN [conn |-> k, name |-> m.name] ELSE users[t][h][i]
           /\ resp' = ToMembers(users'[s][m.group], Latest(msgs[s][m.group]), resp)
           /\ Extends(resp', resp)
           /\ UNCHANGED <<up, userCount, msgs, dirty>>
  <1>1. /\ Takes(k, {"j"})
        /\ users' = [users EXCEPT ![s][m.group][m.id] = [conn |-> k, name |-> m.name]]
        /\ resp' = ToMembers(users'[s][m.group], Latest(msgs[s][m.group]), resp)
        /\ UNCHANGED <<up, userCount, msgs, dirty>>
    BY DEF Join
  <1>2. m \in Asks /\ m.kind = "j" /\ s \in Server /\ resp \in [Conn -> Seq(Answers)]
    <2>1. Takes(k, {"j"})
      BY <1>1
    <2>2. /\ Head(req[k]) \in Asks /\ Head(req[k]).kind \in {"j"} /\ server[k] \in Server
          /\ resp \in [Conn -> Seq(Answers)]
      BY ONLY <2>1, Types, Counts, k \in Conn, TakesFacts
    <2> QED
      BY <2>2
  <1>3. m.id \in Id /\ m.name \in Names /\ m.group \in Group
    BY <1>2, AskTypes
  <1>4. [conn |-> k, name |-> m.name] \in Entry
    BY <1>3, Bounds DEF Entry, Names
  <1>5. /\ users' \in Entries
        /\ users'[s][m.group][m.id] = [conn |-> k, name |-> m.name]
        /\ \A t \in Server, h \in Group, j \in Id :
              ~(t = s /\ h = m.group /\ j = m.id) => users'[t][h][j] = users[t][h][j]
    <2>1. PICK e \in Entry : e = [conn |-> k, name |-> m.name]
      BY <1>4
    <2>2. users' = [users EXCEPT ![s][m.group][m.id] = e] /\ users \in Entries
      BY <1>1, <2>1, EntriesTypes
    <2>3. /\ users' \in Entries
          /\ users'[s][m.group][m.id] = e
          /\ \A t \in Server, h \in Group, j \in Id :
                ~(t = s /\ h = m.group /\ j = m.id) => users'[t][h][j] = users[t][h][j]
      <3>1. PICK g, i : g = m.group /\ i = m.id
        OBVIOUS
      <3>2. users' = [users EXCEPT ![s][g][i] = e] /\ g \in Group /\ i \in Id
        BY <2>2, <3>1, <1>3
      <3>3. /\ users' \in Entries
            /\ users'[s][g][i] = e
            /\ \A t \in Server, h \in Group, j \in Id :
                  ~(t = s /\ h = g /\ j = i) => users'[t][h][j] = users[t][h][j]
        <4>1. /\ Written(users, s, g, i, e) \in Entries
              /\ Written(users, s, g, i, e)[s][g][i] = e
              /\ \A t \in Server, h \in Group, j \in Id :
                    ~(t = s /\ h = g /\ j = i) =>
                        Written(users, s, g, i, e)[t][h][j] = users[t][h][j]
          <5>1. users \in Entries /\ s \in Server /\ g \in Group /\ i \in Id /\ e \in Entry
            BY ONLY <3>2, <2>2, <1>2, e \in Entry
          <5> QED
            BY ONLY <5>1, EntriesWritten, SMT
        <4>2. users' = Written(users, s, g, i, e)
          BY <3>2 DEF Written
        <4> QED
          BY ONLY <4>1, <4>2
      <3> QED
        BY <3>1, <3>3
    <2> QED
      BY <2>1, <2>3
  <1>6. \A t \in Server, h \in Group, i \in Id :
           users'[t][h][i] = IF t = s /\ h = m.group /\ i = m.id
                             THEN [conn |-> k, name |-> m.name] ELSE users[t][h][i]
    BY <1>5, Zenon
  <1>7. Extends(resp', resp) /\ resp' \in [Conn -> Seq(Answers)]
    <2>1. Quiet(Latest(msgs[s][m.group]))
      BY <1>2, <1>3, ListFacts
    <2>2. Extends(ToMembers(users'[s][m.group], Latest(msgs[s][m.group]), resp), resp)
      BY <2>1, <1>2, ToMembersExtends
    <2> QED
      BY <1>1, <2>2 DEF Extends
  <1>8. ServerTypes'
    BY <1>1, <1>5 DEF Types, ServerTypes, Entries
  <1>9. Types'
    BY <1>1, <1>7, <1>8, TakesTypes
  <1>10. Counts'
    BY <1>1, TakesCounts
  <1> QED
    BY <1>1, <1>2, <1>3, <1>6, <1>7, <1>9, <1>10

LEMMA SwitchFacts ==
    ASSUME Types, Counts, NEW k \in Conn, Switch(k), NEW s, s = server[k],
           NEW m, m = Head(req[k])
    PROVE  /\ Types' /\ Counts'
           /\ m \in Asks /\ m.kind = "s" /\ m.id \in Id /\ s \in Server
           /\ m.group \in Group /\ m.new \in Group
           /\ users[s][m.group][m.id] # NoUser
           /\ \A t \in Server, h \in Group, i \in Id :
                 /\ t = s /\ h = m.new /\ i = m.id =>
                       users'[t][h][i] = users[s][m.group][m.id]
                 /\ t = s /\ h = m.group /\ i = m.id /\ h # m.new => users'[t][h][i] = NoUser
                 /\ ~(t = s /\ h \in {m.group, m.new} /\ i = m.id) =>
                       users'[t][h][i] = users[t][h][i]
           /\ ToMembers(users'[s][m.new], Latest(msgs[s][m.new]), resp)
                 \in [Conn -> Seq(Answers)]
           /\ resp' = ToMembers(users'[s][m.group], Latest(msgs[s][m.group]),
                          ToMembers(users'[s][m.new], Latest(msgs[s][m.new]), resp))
           /\ Extends(resp', resp)
           /\ UNCHANGED <<up, userCount, msgs, dirty>>
  <1>2. m \in Asks /\ m.kind = "s" /\ s \in Server /\ resp \in [Conn -> Seq(Answers)]
    <2>1. Takes(k, {"s"})
      BY Zenon DEF Switch
    <2> QED
      BY <2>1, TakesFacts
  <1> DEFINE moved == [users[s] EXCEPT ![m.group][m.id] = NoUser]
             first == ToMembers(users'[s][m.new], Latest(msgs[s][m.new]), resp)
  <1>1. /\ Takes(k, {"s"}) /\ ~Panics(s, m)
        /\ users' = [users EXCEPT ![s] =
                        [moved EXCEPT ![m.new][m.id] = users[s][m.group][m.id]]]
        /\ resp' = ToMembers(users'[s][m.group], Latest(msgs[s][m.group]), first)
        /\ UNCHANGED <<up, userCount, msgs, dirty>>
    BY Zenon DEF Switch
  <1>3. m.id \in Id /\ m.group \in Group /\ m.new \in Group
    BY <1>2, AskTypes
  <1>4. users[s][m.group][m.id] # NoUser
    BY <1>1, <1>3, NoGroupAssumption DEF Panics
  <1>5. PICK e \in Entry : e = users[s][m.group][m.id]
    BY <1>2, <1>3, EntriesTypes
  <1>6. users \in Entries /\ users[s] \in [Group -> [Id -> Entry]]
    BY <1>2, EntriesTypes DEF Entries
  <1>7. PICK mid : mid = moved
    OBVIOUS
  <1>19. /\ mid \in [Group -> [Id -> Entry]]
         /\ mid[m.group][m.id] = NoUser
         /\ \A h \in Group, j \in Id : ~(h = m.group /\ j = m.id) => mid[h][j] = users[s][h][j]
    <2>1. mid = [users[s] EXCEPT ![m.group][m.id] = NoUser]
      BY <1>7
    <2> QED
      BY ONLY <2>1, <1>3, <1>6, NoUserTypes
  <1>8. users' = [users EXCEPT ![s] = [mid EXCEPT ![m.new][m.id] = e]]
    BY <1>1, <1>5, <1>7
  <1> HIDE DEF moved
  <1>20. PICK last : last = [mid EXCEPT ![m.new][m.id] = e]
    OBVIOUS
  <1>9. /\ last \in [Group -> [Id -> Entry]]
        /\ last[m.new][m.id] = e
        /\ \A h \in Group, j \in Id : ~(h = m.new /\ j = m.id) => last[h][j] = mid[h][j]
    BY ONLY <1>3, <1>5, <1>19, <1>20
  <1>10. /\ users' \in Entries /\ users'[s] = last
         /\ \A t \in Server : t # s => users'[t] = users[t]
    <2>1. users' = [users EXCEPT ![s] = last]
      BY <1>8, <1>20
    <2> QED
      BY ONLY <2>1, <1>2, <1>6, <1>9 DEF Entries
  <1>11. ASSUME NEW t \in Server, NEW h \in Group, NEW i \in Id
         PROVE  /\ t = s /\ h = m.new /\ i = m.id => users'[t][h][i] = users[s][m.group][m.id]
                /\ t = s /\ h = m.group /\ i = m.id /\ h # m.new => users'[t][h][i] = NoUser
                /\ ~(t = s /\ h \in {m.group, m.new} /\ i = m.id) =>
                      users'[t][h][i] = users[t][h][i]
    <2>1. CASE t # s
      BY <2>1, <1>10
    <2>2. CASE t = s
      <3>1. users'[t][h][i] = last[h][i]
        BY <2>2, <1>10
      <3>2. CASE h = m.new /\ i = m.id
        <4>1. last[h][i] = e
          BY <3>2, <1>9
        <4>2. users'[t][h][i] = users[s][m.group][m.id]
          BY <3>1, <4>1, <1>5
        <4>3. m.id \in Id /\ i = m.id /\ h = m.new /\ t = s
          BY <1>3, <2>2, <3>2
        <4> QED
          BY ONLY <4>2, <4>3
      <3>3. CASE ~(h = m.new /\ i = m.id)
        <4>1. users'[t][h][i] = mid[h][i]
          BY <3>1, <3>3, <1>9
        <4> QED
          BY <4>1, <2>2, <3>3, <1>19
      <3> QED
        BY <3>2, <3>3
    <2> QED
      BY <2>1, <2>2
  <1>12. Extends(first, resp) /\ first \in [Conn -> Seq(Answers)]
    <2>1. Quiet(Latest(msgs[s][m.new]))
      BY <1>2, <1>3, ListFacts
    <2> QED
      <3>1. Extends(ToMembers(users'[s][m.new], Latest(msgs[s][m.new]), resp), resp)
        BY <2>1, <1>2, ToMembersExtends
      <3> QED
        BY <3>1 DEF Extends
  <1> HIDE DEF first
  <1>13. Extends(resp', first)
    <2>1. Quiet(Latest(msgs[s][m.group]))
      BY <1>2, <1>3, ListFacts
    <2>2. Extends(ToMembers(users'[s][m.group], Latest(msgs[s][m.group]), first), first)
      BY <2>1, <1>12, ToMembersExtends
    <2> QED
      BY <1>1, <2>2
  <1>14. Extends(resp', resp) /\ resp' \in [Conn -> Seq(Answers)]
    <2>1. Extends(resp', resp)
      BY <1>2, <1>12, <1>13, ExtendsMore, Zenon
    <2> QED
      BY <2>1 DEF Extends
  <1>15. ServerTypes'
    BY <1>1, <1>10 DEF Types, ServerTypes, Entries
  <1>16. Types'
    BY <1>1, <1>14, <1>15, TakesTypes
  <1>17. Counts'
    BY <1>1, TakesCounts
  <1> QED
    BY <1>1, <1>2, <1>3, <1>4, <1>11, <1>12, <1>14, <1>16, <1>17 DEF first

LEMMA UserUnknownTypes ==
    ASSUME Types, Counts, NEW k \in Conn, UserUnknown(k)
    PROVE  Types' /\ Counts'
  <1>1. Takes(k, {"change", "s"}) /\ up' = up \ {server[k]}
        /\ UNCHANGED <<resp, userCount, users, msgs, dirty>>
    BY DEF UserUnknown
  <1>2. ServerTypes' /\ resp' \in [Conn -> Seq(Answers)]
    BY <1>1, TakesFacts DEF Types, ServerTypes
  <1> QED
    BY <1>1, <1>2, TakesTypes, TakesCounts

LEMMA AppendMessageFacts ==
    ASSUME Types, Counts, NEW k \in Conn, AppendMessage(k), NEW s, s = server[k],
           NEW g, g = Head(req[k]).group
    PROVE  /\ Types' /\ Counts'
           /\ s \in Server /\ g \in Group
           /\ Head(req[k]) \in Asks /\ Head(req[k]).kind = "a"
           /\ msgs'[s][g] \in Seq(1..MaxMsgs)
           /\ \A t \in Server, h \in Group : <<t, h>> # <<s, g>> => msgs'[t][h] = msgs[t][h]
           /\ resp' = ToMembers(users[s][g], Latest(msgs'[s][g]), resp)
           /\ Extends(resp', resp)
           /\ UNCHANGED <<up, userCount, users, dirty>>
  <1>1. /\ Takes(k, {"a"})
        /\ msgs' = [msgs EXCEPT ![s][g] = Append(msgs[s][g], NewMsg(s))]
        /\ resp' = ToMembers(users[s][g], Latest(msgs'[s][g]), resp)
        /\ UNCHANGED <<up, userCount, users, dirty>>
    BY DEF AppendMessage
  <1>2. /\ Head(req[k]) \in Asks /\ Head(req[k]).kind = "a" /\ s \in Server
        /\ resp \in [Conn -> Seq(Answers)] /\ commands' = commands
    <2>1. Takes(k, {"a"})
      BY <1>1
    <2>2. /\ Head(req[k]) \in Asks /\ Head(req[k]).kind \in {"a"} /\ server[k] \in Server
          /\ resp \in [Conn -> Seq(Answers)] /\ commands' = commands
      BY ONLY <2>1, Types, Counts, k \in Conn, TakesFacts
    <2> QED
      BY <2>2
  <1>3. g \in Group
    BY <1>2, AskTypes
  <1>4. /\ \A l \in Conn : Len(req'[l]) <= commands'
        /\ Cardinality(Pending') \in Nat
        /\ Cardinality(Pending') = Cardinality(Pending) - 1
        /\ Cardinality(Asked') \in Nat
        /\ Cardinality(Asked') <= Cardinality(Asked) - 1
    BY <1>1, <1>2, TakesCounts
  <1>5. Cardinality(Posted) < MaxMsgs
    BY <1>4, CountsFinite, Bounds DEF Counts
  <1>6. /\ msgs \in [Server -> [Group -> Seq(1..MaxMsgs)]]
        /\ \A t \in Server, h \in Group : Len(msgs[t][h]) <= MaxMsgs
    BY DEF Types, ServerTypes, Counts
  <1>7. Len(msgs[s][g]) < MaxMsgs /\ msgs[s][g] \in Seq(1..MaxMsgs)
    BY <1>2, <1>3, <1>5, <1>6, RoomLeft
  <1>8. NewMsg(s) \in 1..MaxMsgs
    BY <1>2, <1>5, <1>6, NewMsgTypes
  <1>20. PICK list : list = Append(msgs[s][g], NewMsg(s))
    OBVIOUS
  <1>9. list \in Seq(1..MaxMsgs) /\ Len(list) = Len(msgs[s][g]) + 1 /\ Len(msgs[s][g]) \in Nat
    BY ONLY <1>7, <1>8, <1>20
  <1>10. msgs' = [msgs EXCEPT ![s][g] = list]
    BY <1>1, <1>20
  <1>11. /\ msgs' \in [Server -> [Group -> Seq(1..MaxMsgs)]]
         /\ msgs'[s][g] = list
         /\ \A t \in Server, h \in Group : <<t, h>> # <<s, g>> => msgs'[t][h] = msgs[t][h]
    BY <1>2, <1>3, <1>6, <1>9, <1>10
  <1>12. Cardinality(Posted') = Cardinality(Posted) + 1
    BY <1>2, <1>3, <1>6, <1>7, <1>9, <1>10, GrowCounts
  <1>13. \A t \in Server, h \in Group : Len(msgs'[t][h]) <= MaxMsgs
    <2> TAKE t \in Server, h \in Group
    <2>1. Len(list) <= MaxMsgs
      BY <1>7, <1>9, Bounds
    <2> QED
      BY <2>1, <1>6, <1>11
  <1>14. \A t \in Server : /\ FirstId[t] <= userCount'[t]
                           /\ userCount'[t] + Cardinality(Pending') <= commands' + 2
    <2> TAKE t \in Server
    <2>1. /\ userCount[t] \in Nat /\ FirstId[t] <= userCount[t]
          /\ userCount[t] + Cardinality(Pending) <= commands + 2 /\ commands \in Nat
      BY Bounds DEF Types, ServerTypes, Counts
    <2>2. userCount' = userCount /\ commands' = commands /\ Cardinality(Pending) \in Nat
      BY <1>1, <1>2, CountsFinite
    <2> QED
      BY ONLY <2>1, <2>2, <1>4
  <1>15. Cardinality(Posted') + Cardinality(Asked') <= MaxMsgs
    BY <1>4, <1>12, CountsFinite, Bounds DEF Counts
  <1>16. Counts'
    BY <1>4, <1>13, <1>14, <1>15 DEF Counts
  <1>17. Extends(resp', resp) /\ resp' \in [Conn -> Seq(Answers)]
    <2>1. Latest(list) \in Pages(list) /\ Len(list) <= MaxMsgs
      BY <1>7, <1>9, ShownPages, Bounds
    <2>2. Quiet(Latest(list))
      BY <2>1, <1>9, PageQuiet
    <2>3. Extends(ToMembers(users[s][g], Latest(list), resp), resp)
      BY <2>2, <1>2, ToMembersExtends
    <2> QED
      BY <1>1, <1>11, <2>3 DEF Extends
  <1>18. ServerTypes'
    BY <1>1, <1>11 DEF Types, ServerTypes
  <1>19. Types'
    BY <1>1, <1>17, <1>18, TakesTypes
  <1>21. msgs'[s][g] \in Seq(1..MaxMsgs)
    BY <1>9, <1>11
  <1> QED
    BY <1>1, <1>2, <1>3, <1>11, <1>16, <1>17, <1>19, <1>21, Zenon

LEMMA LikeMessageFacts ==
    ASSUME Types, Counts, NEW k \in Conn, LikeMessage(k), NEW s, s = server[k],
           NEW m, m = Head(req[k])
    PROVE  /\ Types' /\ Counts'
           /\ m \in Asks /\ m.kind = "l" /\ s \in Server /\ m.group \in Group
           /\ \/ resp' = ToMembers(users[s][m.group], Latest(msgs[s][m.group]), resp)
              \/ resp' = [resp EXCEPT ![k] = Append(resp[k], [kind |-> "Denial"])]
           /\ [kind |-> "Denial"] \in Answers
           /\ Extends(resp', resp)
           /\ UNCHANGED <<up, userCount, users, msgs, dirty>>
  <1>1. /\ Takes(k, {"l"})
        /\ \/ resp' = ToMembers(users[s][m.group], Latest(msgs[s][m.group]), resp)
           \/ resp' = [resp EXCEPT ![k] = Append(resp[k], [kind |-> "Denial"])]
        /\ UNCHANGED <<up, userCount, users, msgs, dirty>>
    BY Zenon DEF LikeMessage, serverVars
  <1>2. m \in Asks /\ m.kind = "l" /\ s \in Server /\ resp \in [Conn -> Seq(Answers)]
    BY <1>1, TakesFacts
  <1>3. m.group \in Group
    BY <1>2, AskTypes
  <1>4. [kind |-> "Denial"] \in Answers
    BY DEF Answers
  <1>5. Extends(resp', resp)
    <2>1. Quiet(Latest(msgs[s][m.group]))
      BY <1>2, <1>3, ListFacts
    <2>2. Extends(ToMembers(users[s][m.group], Latest(msgs[s][m.group]), resp), resp)
      BY <2>1, <1>2, ToMembersExtends
    <2>3. PICK x : x = [kind |-> "Denial"]
      OBVIOUS
    <2>4. x \in Answers /\ x.kind # "login"
      BY <1>4, <2>3
    <2>5. Extends([resp EXCEPT ![k] = Append(resp[k], x)], resp)
      BY <1>2, <2>4, AnswerExtends
    <2> QED
      BY <1>1, <2>2, <2>3, <2>5
  <1>6. resp' \in [Conn -> Seq(Answers)]
    BY <1>5 DEF Extends
  <1>7. ServerTypes'
    BY <1>1 DEF Types, ServerTypes
  <1>8. Types' /\ Counts'
    BY <1>1, <1>6, <1>7, TakesTypes, TakesCounts
  <1> QED
    BY <1>1, <1>2, <1>3, <1>4, <1>5, <1>8

LEMMA HistoryFacts ==
    ASSUME Types, Counts, NEW k \in Conn, History(k), NEW s, s = server[k],
           NEW m, m = Head(req[k])
    PROVE  /\ Types' /\ Counts'
           /\ m \in Asks /\ m.kind = "p" /\ s \in Server /\ m.group \in Group
           /\ \A l \in Conn : resp'[l] = IF l = k THEN resp[k] \o ShowHistory(msgs[s][m.group])
                                         ELSE resp[l]
           /\ Extends(resp', resp)
           /\ UNCHANGED <<up, userCount, users, msgs, dirty>>
  <1>1. /\ Takes(k, {"p"})
        /\ resp' = [resp EXCEPT ![k] = resp[k] \o ShowHistory(msgs[s][m.group])]
        /\ UNCHANGED <<up, userCount, users, msgs, dirty>>
    BY DEF History, serverVars
  <1>2. m \in Asks /\ m.kind = "p" /\ s \in Server /\ resp \in [Conn -> Seq(Answers)]
    BY <1>1, TakesFacts
  <1>3. m.group \in Group
    BY <1>2, AskTypes
  <1>4. PICK page : page = ShowHistory(msgs[s][m.group])
    OBVIOUS
  <1>5. Quiet(page) /\ page \in Seq(Answers)
    BY <1>2, <1>3, <1>4, ListFacts DEF Quiet
  <1>6. resp' \in [Conn -> Seq(Answers)] /\ \A l \in Conn :
           resp'[l] = IF l = k THEN resp[k] \o page ELSE resp[l]
    <2>1. resp[k] \in Seq(Answers)
      BY <1>2
    <2>2. resp[k] \o page \in Seq(Answers)
      BY <2>1, <1>5, ConcatFacts
    <2>3. resp' = [resp EXCEPT ![k] = resp[k] \o page]
      BY <1>1, <1>4
    <2> QED
      BY ONLY <2>2, <2>3, <1>2
  <1>7. \A l \in Conn : resp[l] = resp[l] \o <<>>
    <2> TAKE l \in Conn
    <2>1. resp[l] \in Seq(Answers)
      BY <1>2
    <2> QED
      BY <2>1
  <1>8. Extends(resp', resp)
    BY <1>5, <1>6, <1>7, QuietEmpty, Zenon DEF Extends
  <1>9. ServerTypes'
    BY <1>1 DEF Types, ServerTypes
  <1>10. Types' /\ Counts'
    BY <1>1, <1>6, <1>9, TakesTypes, TakesCounts
  <1> QED
    BY <1>1, <1>2, <1>3, <1>4, <1>6, <1>8, <1>10

LEMMA QuitFacts ==
    ASSUME Types, Counts, NEW k \in Conn, QuitSession(k), NEW s, s = server[k],
           NEW m, m = Head(req[k])
    PROVE  /\ Types' /\ Counts'
           /\ m \in Asks /\ m.kind = "q" /\ s \in Server
           /\ [kind |-> "bye"] \in Answers
           /\ \E shows \in [Conn -> Seq(Answers)] :
                 /\ resp' = [shows EXCEPT ![k] = Append(shows[k], [kind |-> "bye"])]
                 /\ \/ shows = resp
                    \/ /\ m.group \in Group
                       /\ shows = ToMembers(users[s][m.group], Latest(msgs[s][m.group]), resp)
           /\ Extends(resp', resp)
           /\ UNCHANGED <<up, userCount, users, msgs, dirty>>
  <1> DEFINE all == IF m.group = NoGroup THEN resp
                    ELSE ToMembers(users[s][m.group], Latest(msgs[s][m.group]), resp)
  <1>1. /\ Takes(k, {"q"})
        /\ resp' = [all EXCEPT ![k] = Append(all[k], [kind |-> "bye"])]
        /\ UNCHANGED <<up, userCount, users, msgs, dirty>>
    BY Zenon DEF QuitSession, serverVars
  <1>2. PICK shows : shows = all
    OBVIOUS
  <1>3. resp' = [shows EXCEPT ![k] = Append(shows[k], [kind |-> "bye"])]
    BY <1>1, <1>2
  <1>4. /\ m.group = NoGroup => shows = resp
        /\ m.group # NoGroup =>
              shows = ToMembers(users[s][m.group], Latest(msgs[s][m.group]), resp)
    BY <1>2
  <1> HIDE DEF all
  <1>5. m \in Asks /\ m.kind = "q" /\ s \in Server /\ resp \in [Conn -> Seq(Answers)]
    BY <1>1, TakesFacts
  <1>6. m.group # NoGroup => m.group \in Group
    BY <1>5, AskTypes DEF Groups
  <1>7. Extends(shows, resp) /\ shows \in [Conn -> Seq(Answers)]
    <2>1. CASE m.group = NoGroup
      BY <2>1, <1>4, <1>5, ExtendsSelf
    <2>2. CASE m.group # NoGroup
      <3>1. Quiet(Latest(msgs[s][m.group]))
        BY <2>2, <1>5, <1>6, ListFacts
      <3>2. Extends(ToMembers(users[s][m.group], Latest(msgs[s][m.group]), resp), resp)
        BY <3>1, <1>5, ToMembersExtends
      <3> QED
        BY <2>2, <3>2, <1>4 DEF Extends
    <2> QED
      BY <2>1, <2>2
  <1>8. PICK x : x = [kind |-> "bye"]
    OBVIOUS
  <1>9. x \in Answers /\ x.kind # "login"
    BY <1>8 DEF Answers
  <1>10. Extends([shows EXCEPT ![k] = Append(shows[k], x)], shows)
    BY <1>7, <1>9, AnswerExtends
  <1>11. Extends(resp', shows)
    BY <1>3, <1>8, <1>10
  <1>12. Extends(resp', resp)
    BY <1>5, <1>7, <1>11, ExtendsMore, Zenon
  <1>13. resp' \in [Conn -> Seq(Answers)]
    BY <1>12 DEF Extends
  <1>14. ServerTypes'
    BY <1>1 DEF Types, ServerTypes
  <1>15. Types' /\ Counts'
    BY <1>1, <1>13, <1>14, TakesTypes, TakesCounts
  <1>16. \E sh \in [Conn -> Seq(Answers)] :
                 /\ resp' = [sh EXCEPT ![k] = Append(sh[k], [kind |-> "bye"])]
                 /\ \/ sh = resp
                    \/ /\ m.group \in Group
                       /\ sh = ToMembers(users[s][m.group], Latest(msgs[s][m.group]), resp)
    BY <1>3, <1>4, <1>6, <1>7, Zenon
  <1> QED
    BY <1>1, <1>5, <1>8, <1>9, <1>12, <1>15, <1>16

LEMMA InsertAtFacts ==
    ASSUME NEW S, NEW q \in Seq(S), NEW p \in 1..Len(q), NEW x \in S
    PROVE  InsertAt(q, p, x) \in Seq(S) /\ Len(InsertAt(q, p, x)) = Len(q) + 1
  <1>1. Len(q) \in Nat /\ p \in Nat /\ p >= 1 /\ p <= Len(q)
    OBVIOUS
  <1>2. PICK front, back : front = SubSeq(q, 1, p - 1) /\ back = SubSeq(q, p, Len(q))
    OBVIOUS
  <1>3. front \in Seq(S) /\ Len(front) = p - 1
    BY <1>1, <1>2
  <1>4. back \in Seq(S) /\ Len(back) = Len(q) - p + 1
    BY <1>1, <1>2
  <1>5. InsertAt(q, p, x) = front \o <<x>> \o back
    BY <1>2 DEF InsertAt
  <1>6. front \o <<x>> \in Seq(S) /\ Len(front \o <<x>>) = p
    BY <1>1, <1>3
  <1>7. /\ (front \o <<x>>) \o back \in Seq(S)
        /\ Len((front \o <<x>>) \o back) = p + (Len(q) - p + 1)
    BY <1>4, <1>6
  <1> QED
    BY <1>1, <1>5, <1>7

LEMMA InsertAtMsgs ==
    \A q \in Seq(1..MaxMsgs) : \A p \in 1..Len(q), x \in 1..MaxMsgs :
        InsertAt(q, p, x) \in Seq(1..MaxMsgs) /\ Len(InsertAt(q, p, x)) = Len(q) + 1
  BY InsertAtFacts

LEMMA OthersChangeFacts ==
    ASSUME Types, Counts, NEW s \in Server, NEW g \in Group, OthersChange(s, g)
    PROVE  /\ Types' /\ Counts'
           /\ dirty'[s][g] # {}
           /\ \A t \in Server, h \in Group : <<t, h>> # <<s, g>> =>
                 msgs'[t][h] = msgs[t][h] /\ dirty'[t][h] = dirty[t][h]
           /\ UNCHANGED <<clientVars, stream, reading, main, server, req, resp, up, userCount,
                          users, commands, patient>>
  <1>1. /\ MsgCount < MaxMsgs
        /\ \E d \in {"latest", "history"} : dirty' = [dirty EXCEPT ![s][g] = dirty[s][g] \cup {d}]
        /\ \/ msgs' = [msgs EXCEPT ![s][g] = Append(msgs[s][g], NewMsg(s))]
           \/ \E p \in 1..Len(msgs[s][g]) :
                 msgs' = [msgs EXCEPT ![s][g] = InsertAt(msgs[s][g], p, NewMsg(s))]
        /\ UNCHANGED <<clientVars, stream, reading, main, server, req, resp, up, userCount,
                       users, commands, patient>>
    BY DEF OthersChange
  <1>2. Cardinality(Posted) < MaxMsgs
    BY <1>1, CountsFinite, Bounds DEF MsgCount
  <1>3. /\ msgs \in [Server -> [Group -> Seq(1..MaxMsgs)]]
        /\ dirty \in [Server -> [Group -> SUBSET {"latest", "history"}]]
        /\ \A t \in Server, h \in Group : Len(msgs[t][h]) <= MaxMsgs
    BY DEF Types, ServerTypes, Counts
  <1>4. Len(msgs[s][g]) < MaxMsgs /\ msgs[s][g] \in Seq(1..MaxMsgs)
    BY <1>2, <1>3, RoomLeft
  <1>5. NewMsg(s) \in 1..MaxMsgs
    BY <1>2, <1>3, NewMsgTypes
  <1>6. PICK list \in Seq(1..MaxMsgs) : /\ Len(list) = Len(msgs[s][g]) + 1
                                        /\ msgs' = [msgs EXCEPT ![s][g] = list]
    <2>1. CASE msgs' = [msgs EXCEPT ![s][g] = Append(msgs[s][g], NewMsg(s))]
      <3>1. PICK list : list = Append(msgs[s][g], NewMsg(s))
        OBVIOUS
      <3>2. list \in Seq(1..MaxMsgs) /\ Len(list) = Len(msgs[s][g]) + 1
        BY ONLY <3>1, <1>4, <1>5
      <3> QED
        BY <2>1, <3>1, <3>2
    <2>2. ASSUME NEW p \in 1..Len(msgs[s][g]),
                 msgs' = [msgs EXCEPT ![s][g] = InsertAt(msgs[s][g], p, NewMsg(s))]
          PROVE  \E list \in Seq(1..MaxMsgs) : /\ Len(list) = Len(msgs[s][g]) + 1
                                               /\ msgs' = [msgs EXCEPT ![s][g] = list]
      <3>1. PICK list : list = InsertAt(msgs[s][g], p, NewMsg(s))
        OBVIOUS
      <3>2. list \in Seq(1..MaxMsgs) /\ Len(list) = Len(msgs[s][g]) + 1
        <4>1. /\ InsertAt(msgs[s][g], p, NewMsg(s)) \in Seq(1..MaxMsgs)
              /\ Len(InsertAt(msgs[s][g], p, NewMsg(s))) = Len(msgs[s][g]) + 1
          BY ONLY <1>4, <1>5, p \in 1..Len(msgs[s][g]), InsertAtMsgs, Zenon
        <4> QED
          BY ONLY <3>1, <4>1
      <3> QED
        BY <2>2, <3>1, <3>2
    <2> QED
      BY <1>1, <2>1, <2>2
  <1>7. /\ msgs' \in [Server -> [Group -> Seq(1..MaxMsgs)]]
        /\ msgs'[s][g] = list
        /\ \A t \in Server, h \in Group : <<t, h>> # <<s, g>> => msgs'[t][h] = msgs[t][h]
    BY <1>3, <1>6
  <1>8. PICK d \in {"latest", "history"} :
           dirty' = [dirty EXCEPT ![s][g] = dirty[s][g] \cup {d}]
    BY <1>1
  <1>9. PICK D \in SUBSET {"latest", "history"} : D = dirty[s][g] \cup {d}
    BY <1>3
  <1>10. /\ dirty' \in [Server -> [Group -> SUBSET {"latest", "history"}]]
         /\ dirty'[s][g] = D
         /\ \A t \in Server, h \in Group : <<t, h>> # <<s, g>> => dirty'[t][h] = dirty[t][h]
    <2>1. dirty' = [dirty EXCEPT ![s][g] = D]
      BY <1>8, <1>9
    <2> QED
      BY ONLY <2>1, <1>3, s \in Server, g \in Group, D \in SUBSET {"latest", "history"}
  <1>11. Cardinality(Posted') = Cardinality(Posted) + 1
    BY <1>3, <1>4, <1>6, GrowCounts
  <1>12. \A t \in Server, h \in Group : Len(msgs'[t][h]) <= MaxMsgs
    <2> TAKE t \in Server, h \in Group
    <2>1. Len(list) <= MaxMsgs
      BY <1>4, <1>6, Bounds
    <2> QED
      BY <2>1, <1>3, <1>7
  <1>13. Pending' = Pending /\ Asked' = Asked
    BY <1>1 DEF Pending, Asked
  <1>14. Cardinality(Posted') + Cardinality(Asked') <= MaxMsgs
    BY <1>1, <1>11, <1>13, CountsFinite, Bounds DEF MsgCount
  <1>15. Counts'
    BY <1>1, <1>12, <1>13, <1>14 DEF Counts
  <1>16. Types'
    <2>1. ClientTypes' /\ LinkTypes'
      BY <1>1 DEF Types, ClientTypes, LinkTypes, clientVars
    <2>2. ServerTypes'
      BY <1>1, <1>7, <1>10 DEF Types, ServerTypes
    <2> QED
      BY <1>1, <2>1, <2>2 DEF Types
  <1>17. dirty'[s][g] # {}
    BY <1>9, <1>10
  <1> QED
    BY <1>1, <1>7, <1>10, <1>15, <1>16, <1>17

LEMMA OthersShowFacts ==
    ASSUME Types, Counts, NEW s \in Server, NEW g \in Group, OthersShow(s, g)
    PROVE  /\ Types' /\ Counts'
           /\ \E page \in Pages(msgs[s][g]) : resp' = ToMembers(users[s][g], page, resp)
           /\ \A t \in Server, h \in Group : <<t, h>> # <<s, g>> => dirty'[t][h] = dirty[t][h]
           /\ Extends(resp', resp)
           /\ UNCHANGED <<clientVars, stream, reading, main, server, req, up, userCount,
                          users, msgs, commands, patient>>
  <1>1. PICK d \in dirty[s][g] :
           /\ dirty' = [dirty EXCEPT ![s][g] = dirty[s][g] \ {d}]
           /\ resp' = ToMembers(users[s][g], IF d = "latest" THEN Latest(msgs[s][g])
                                             ELSE ShowHistory(msgs[s][g]), resp)
    BY DEF OthersShow
  <1>2. UNCHANGED <<clientVars, stream, reading, main, server, req, up, userCount,
                    users, msgs, commands, patient>>
    BY DEF OthersShow
  <1>3. PICK page \in Pages(msgs[s][g]) : /\ resp' = ToMembers(users[s][g], page, resp)
                                          /\ Quiet(page)
    BY <1>1, ListFacts
  <1>4. resp \in [Conn -> Seq(Answers)]
        /\ dirty \in [Server -> [Group -> SUBSET {"latest", "history"}]]
    BY DEF Types, LinkTypes, ServerTypes
  <1>5. Extends(resp', resp) /\ resp' \in [Conn -> Seq(Answers)]
    <2>1. Extends(ToMembers(users[s][g], page, resp), resp)
      BY <1>3, <1>4, ToMembersExtends
    <2> QED
      BY <2>1, <1>3 DEF Extends
  <1>6. PICK D \in SUBSET {"latest", "history"} : D = dirty[s][g] \ {d}
    BY <1>4
  <1>7. /\ dirty' \in [Server -> [Group -> SUBSET {"latest", "history"}]]
        /\ \A t \in Server, h \in Group : <<t, h>> # <<s, g>> => dirty'[t][h] = dirty[t][h]
    <2>1. dirty' = [dirty EXCEPT ![s][g] = D]
      BY <1>1, <1>6
    <2> QED
      BY ONLY <2>1, <1>4, s \in Server, g \in Group, D \in SUBSET {"latest", "history"}
  <1>8. Types'
    <2>1. ClientTypes' /\ LinkTypes'
      BY <1>2, <1>5 DEF Types, ClientTypes, LinkTypes, clientVars
    <2>2. ServerTypes'
      BY <1>2, <1>7 DEF Types, ServerTypes
    <2> QED
      BY <1>2, <2>1, <2>2 DEF Types
  <1>9. Counts'
    BY <1>2, FrameCounts
  <1> QED
    BY <1>2, <1>3, <1>5, <1>7, <1>8, <1>9

-----------------------------------------------------------------------------
(***************************************************************************)
(* Types and counts hold in every state.                                   *)
(***************************************************************************)
LEMMA InitTypes == Init => Types /\ Counts
  <1> SUFFICES ASSUME Init
               PROVE  Types /\ Counts
    OBVIOUS
  <1>1. ClientTypes
    BY Bounds DEF Init, ClientTypes, Names, Groups
  <1>2. LinkTypes
    BY Bounds DEF Init, LinkTypes
  <1>3. users \in Entries
    <2>1. [conn |-> 0, name |-> Bystander] \in Entry /\ NoUser \in Entry
      BY NoUserTypes, Bounds DEF Entry
    <2> QED
      BY <2>1 DEF Init, Entries
  <1>4. msgs \in [Server -> [Group -> Seq(1..MaxMsgs)]]
    BY DEF Init
  <1>5. dirty \in [Server -> [Group -> SUBSET {"latest", "history"}]]
    BY DEF Init
  <1>6. up \subseteq Server /\ userCount \in [Server -> Nat]
    BY Bounds DEF Init
  <1>7. ServerTypes
    BY <1>3, <1>4, <1>5, <1>6 DEF ServerTypes, Entries
  <1>8. commands \in 0..MaxCommands /\ patient \in BOOLEAN
    BY Bounds DEF Init
  <1>9. Pending = {} /\ Asked = {}
    BY DEF Init, Pending, Asked
  <1>10. Posted = {}
    BY DEF Init, Posted
  <1>11. Cardinality({}) = 0
    BY FS_EmptySet
  <1>12. \A k \in Conn : Len(req[k]) <= commands
    BY DEF Init
  <1>13. \A s \in Server, g \in Group : Len(msgs[s][g]) <= MaxMsgs
    BY Bounds DEF Init
  <1>14. \A s \in Server : /\ FirstId[s] <= userCount[s]
                           /\ userCount[s] + Cardinality(Pending) <= commands + 2
    <2> TAKE s \in Server
    <2>1. userCount[s] = FirstId[s] /\ FirstId[s] \in 1..2 /\ commands = 0
      BY Bounds DEF Init
    <2> QED
      BY <2>1, <1>9, <1>11
  <1>15. Counts
    BY <1>9, <1>10, <1>11, <1>12, <1>13, <1>14, Bounds DEF Counts
  <1> QED
    BY <1>1, <1>2, <1>7, <1>8, <1>15 DEF Types

\* The commands that send one request, by what they send.
LEMMA CommandKinds ==
    ASSUME Types, Counts,
           (\E n \in Name : U(n)) \/ (\E g \in Group : J(g)) \/ A \/ P
              \/ (\E k \in 1..MaxMsgs : L(k)) \/ Q
    PROVE  Types' /\ Counts'
  <1>1. ASSUME NEW n \in Name, U(n)
        PROVE  Types' /\ Counts'
    <2>1. PICK r \in Asks : Command(r) /\ r.kind # "a"
      <3>1. PICK r : r = Request(IF user_id = NoId THEN "u" ELSE "change", n, currentgroup,
                                 NoGroup, 0)
        OBVIOUS
      <3>2. r.kind # "a"
        BY <3>1 DEF Request
      <3> QED
        BY <1>1, <3>1, <3>2, UTypes DEF U
    <2> QED
      BY <1>1, <2>1, UTypes, CommandCounts
  <1>2. ASSUME NEW g \in Group, J(g)
        PROVE  Types' /\ Counts'
    <2>1. PICK r \in Asks : Command(r) /\ r.kind # "a"
      <3>1. CASE currentgroup = NoGroup
        <4>1. PICK r : r = Request("j", username, g, NoGroup, 0)
          OBVIOUS
        <4>2. r.kind # "a"
          BY <4>1 DEF Request
        <4> QED
          BY <1>2, <3>1, <4>1, <4>2, JTypes DEF J
      <3>2. CASE currentgroup # NoGroup
        <4>1. PICK r : r = Request("s", username, currentgroup, g, 0)
          OBVIOUS
        <4>2. r.kind # "a"
          BY <4>1 DEF Request
        <4> QED
          BY <1>2, <3>2, <4>1, <4>2, JTypes DEF J
      <3> QED
        BY <3>1, <3>2
    <2> QED
      BY <1>2, <2>1, JTypes, CommandCounts
  <1>3. ASSUME NEW kind \in {"a", "p", "l"}, NEW number \in 0..MaxMsgs,
               Act(Request(kind, username, currentgroup, NoGroup, number)),
               kind = "a" => MsgCount < MaxMsgs
        PROVE  Types' /\ Counts'
    <2>1. Types' /\ Request(kind, username, currentgroup, NoGroup, number) \in Asks
      BY <1>3, ActTypes
    <2>2. PICK r : r = Request(kind, username, currentgroup, NoGroup, number)
      OBVIOUS
    <2>3. r \in Asks /\ Command(r)
      BY <2>1, <2>2, <1>3 DEF Act
    <2>4. r.kind = kind
      BY <2>2 DEF Request
    <2> QED
      BY <1>3, <2>1, <2>3, <2>4, CommandCounts
  <1>4. ASSUME A
        PROVE  Types' /\ Counts'
    <2>1. MsgCount < MaxMsgs /\ Act(Request("a", username, currentgroup, NoGroup, 0))
      BY <1>4 DEF A
    <2>2. 0 \in 0..MaxMsgs
      BY Bounds
    <2> QED
      BY <2>1, <2>2, <1>3
  <1>5. ASSUME P
        PROVE  Types' /\ Counts'
    <2>1. Act(Request("p", username, currentgroup, NoGroup, 0))
      BY <1>5 DEF P
    <2>2. 0 \in 0..MaxMsgs
      BY Bounds
    <2> QED
      BY <2>1, <2>2, <1>3
  <1>6. ASSUME NEW k \in 1..MaxMsgs, L(k)
        PROVE  Types' /\ Counts'
    <2>1. Act(Request("l", username, currentgroup, NoGroup, likeMap[k]))
      BY <1>6 DEF L
    <2>2. likeMap[k] \in 0..MaxMsgs
      BY DEF Types, ClientTypes
    <2> QED
      BY <2>1, <2>2, <1>3
  <1>7. ASSUME Q
        PROVE  Types' /\ Counts'
    <2>1. CASE current_state = 0
      <3>1. UNCHANGED <<req, userCount, msgs, commands>>
        BY <1>7, <2>1 DEF Q, serverVars
      <3> QED
        BY <1>7, <3>1, QTypes, FrameCounts
    <2>2. CASE current_state # 0
      <3>1. PICK r : r = Request("q", username, currentgroup, NoGroup, 0)
        OBVIOUS
      <3>2. r \in Asks /\ Command(r)
        BY <1>7, <2>2, <3>1, QTypes DEF Q
      <3>3. r.kind # "a"
        BY <3>1 DEF Request
      <3> QED
        BY <1>7, <3>2, <3>3, QTypes, CommandCounts
    <2> QED
      BY <2>1, <2>2
  <1> QED
    BY <1>1, <1>2, <1>4, <1>5, <1>6, <1>7

LEMMA LoopKinds ==
    ASSUME Types, Counts,
           Reset \/ (\E s \in Server : Connect(s)) \/ Choose \/ Receive \/ CannotReceive \/ End
    PROVE  Types' /\ Counts'
  <1>1. UNCHANGED <<req, userCount, msgs, commands>>
    BY DEF Reset, ResetTo, Connect, Choose, Receive, CannotReceive, End, serverVars
  <1>2. Types'
    BY ResetTypes, ConnectTypes, LoopTypes, ReceiveTypes
  <1> QED
    BY <1>1, <1>2, FrameCounts

LEMMA ServeKinds ==
    ASSUME Types, Counts, NEW k \in Conn, Serve(k)
    PROVE  Types' /\ Counts'
  BY UserLoginTypes, ChangeIdentityFacts, JoinFacts, SwitchFacts, UserUnknownTypes,
     AppendMessageFacts, LikeMessageFacts, HistoryFacts, QuitFacts DEF Serve

LEMMA OthersKinds ==
    ASSUME Types, Counts, NEW b \in Busy, OthersChange(b[1], b[2]) \/ OthersShow(b[1], b[2])
    PROVE  Types' /\ Counts'
  <1>1. b[1] \in Server /\ b[2] \in Group
    BY BusyAssumption
  <1> QED
    BY <1>1, OthersChangeFacts, OthersShowFacts

LEMMA NextTypes == Types /\ Counts /\ [Next]_vars => Types' /\ Counts'
  <1> SUFFICES ASSUME Types, Counts, [Next]_vars
               PROVE  Types' /\ Counts'
    OBVIOUS
  <1>1. CASE UNCHANGED vars
    <2>1. Types'
      BY <1>1 DEF vars, clientVars, serverVars, Types, ClientTypes, LinkTypes, ServerTypes
    <2>2. Counts'
      BY <1>1, FrameCounts DEF vars, serverVars
    <2> QED
      BY <2>1, <2>2
  <1>2. CASE Next
    BY <1>2, CommandKinds, LoopKinds, ServeKinds, OthersKinds, Zenon DEF Next
  <1> QED
    BY <1>1, <1>2

\* Every variable of the client and of the servers has a value of its type, in
\* every behaviour: no id is given beyond one per command (UserLogin), and no
\* message is made beyond those asked for.
THEOREM ChatClientTypes == Spec => []TypeOK
  <1>1. Init => Types /\ Counts
    BY InitTypes
  <1>2. (Types /\ Counts) /\ [Next]_vars => (Types /\ Counts)'
    BY NextTypes
  <1>3. Types /\ Counts => TypeOK
    BY TypesGive
  <1> QED
    BY <1>1, <1>2, <1>3, PTL DEF Spec

-----------------------------------------------------------------------------
(***************************************************************************)
(* Where the requests of a stream lead.                                    *)
(***************************************************************************)
LEMMA ChainAppend ==
    ASSUME NEW q \in Seq(Asks), NEW g, NEW n, NEW r \in Asks, Chained(q, g, n),
           GroupBefore(r) = GroupAt(q, g, Len(q)),
           r.kind \notin {"u", "change"} => r.name = NameAt(q, n, Len(q))
    PROVE  /\ Chained(Append(q, r), g, n)
           /\ GroupAt(Append(q, r), g, Len(Append(q, r))) = GroupAfter(r)
           /\ NameAt(Append(q, r), n, Len(Append(q, r))) = r.name
  <1>1. PICK p : p = Append(q, r)
    OBVIOUS
  <1>2. /\ Len(q) \in Nat /\ DOMAIN q = 1..Len(q)
        /\ Len(p) = Len(q) + 1 /\ DOMAIN p = 1..(Len(q) + 1)
        /\ p[Len(q) + 1] = r
        /\ \A j \in 1..Len(q) : p[j] = q[j]
    BY <1>1, AppendFacts
  <1>3. \A j \in 0..Len(q) : GroupAt(p, g, j) = GroupAt(q, g, j) /\ NameAt(p, n, j) = NameAt(q, n, j)
    BY <1>2 DEF GroupAt, NameAt
  <1>4. /\ GroupAt(p, g, Len(p)) = GroupAfter(r) /\ NameAt(p, n, Len(p)) = r.name
    BY <1>2 DEF GroupAt, NameAt
  <1>5. ASSUME NEW j \in 1..(Len(q) + 1)
        PROVE  /\ GroupBefore(p[j]) = GroupAt(p, g, j - 1)
               /\ p[j].kind \notin {"u", "change"} => p[j].name = NameAt(p, n, j - 1)
    <2>1. CASE j = Len(q) + 1
      <3>1. j - 1 = Len(q) /\ Len(q) \in 0..Len(q) /\ p[j] = r
        BY <2>1, <1>2
      <3> QED
        BY <3>1, <1>3
    <2>2. CASE j # Len(q) + 1
      <3>1. j \in 1..Len(q) /\ j - 1 \in 0..Len(q) /\ j \in DOMAIN q
        BY <2>2, <1>2
      <3>2. p[j] = q[j]
        BY <3>1, <1>2
      <3> QED
        BY <3>1, <3>2, <1>3 DEF Chained
    <2> QED
      BY <2>1, <2>2
  <1>6. Chained(p, g, n)
    BY <1>2, <1>5 DEF Chained
  <1> QED
    BY <1>1, <1>4, <1>6

LEMMA ChainTail ==
    ASSUME NEW q \in Seq(Asks), q # <<>>, NEW g, NEW n, Chained(q, g, n),
           NEW m, m = Head(q)
    PROVE  /\ GroupBefore(m) = g
           /\ m.kind \notin {"u", "change"} => m.name = n
           /\ Chained(Tail(q), GroupAfter(m), m.name)
           /\ GroupAt(Tail(q), GroupAfter(m), Len(Tail(q))) = GroupAt(q, g, Len(q))
           /\ NameAt(Tail(q), m.name, Len(Tail(q))) = NameAt(q, n, Len(q))
  <1>1. PICK p : p = Tail(q)
    OBVIOUS
  <1>2. /\ Len(q) \in Nat /\ Len(q) >= 1 /\ DOMAIN q = 1..Len(q) /\ m = q[1]
        /\ Len(p) = Len(q) - 1 /\ DOMAIN p = 1..(Len(q) - 1)
        /\ \A j \in 1..(Len(q) - 1) : p[j] = q[j + 1] /\ j + 1 \in DOMAIN q
    BY <1>1, TailFacts
  <1>3. GroupBefore(m) = g /\ (m.kind \notin {"u", "change"} => m.name = n)
    <2>1. 1 \in DOMAIN q /\ 1 - 1 = 0
      BY <1>2
    <2> QED
      BY <2>1, <1>2 DEF Chained, GroupAt, NameAt
  <1>4. \A j \in 0..(Len(q) - 1) : /\ GroupAt(p, GroupAfter(m), j) = GroupAt(q, g, j + 1)
                                   /\ NameAt(p, m.name, j) = NameAt(q, n, j + 1)
    <2> TAKE j \in 0..(Len(q) - 1)
    <2>1. CASE j = 0
      BY <2>1, <1>2 DEF GroupAt, NameAt
    <2>2. CASE j # 0
      <3>1. j \in 1..(Len(q) - 1) /\ j + 1 # 0
        BY <2>2, <1>2
      <3>2. p[j] = q[j + 1]
        BY <3>1, <1>2
      <3> QED
        BY <2>2, <3>1, <3>2 DEF GroupAt, NameAt
    <2> QED
      BY <2>1, <2>2
  <1>5. /\ GroupAt(p, GroupAfter(m), Len(p)) = GroupAt(q, g, Len(q))
        /\ NameAt(p, m.name, Len(p)) = NameAt(q, n, Len(q))
    <2>1. Len(p) \in 0..(Len(q) - 1) /\ Len(p) + 1 = Len(q)
      BY <1>2
    <2> QED
      BY <2>1, <1>4
  <1>6. ASSUME NEW j \in 1..(Len(q) - 1)
        PROVE  /\ GroupBefore(p[j]) = GroupAt(p, GroupAfter(m), j - 1)
               /\ p[j].kind \notin {"u", "change"} => p[j].name = NameAt(p, m.name, j - 1)
    <2>1. j - 1 \in 0..(Len(q) - 1) /\ (j - 1) + 1 = j /\ (j + 1) - 1 = j
      BY <1>2
    <2>2. p[j] = q[j + 1] /\ j + 1 \in DOMAIN q
      BY <1>2
    <2>3. /\ GroupAt(p, GroupAfter(m), j - 1) = GroupAt(q, g, j)
          /\ NameAt(p, m.name, j - 1) = NameAt(q, n, j)
      BY <2>1, <1>4
    <2>4. /\ GroupBefore(q[j + 1]) = GroupAt(q, g, (j + 1) - 1)
          /\ q[j + 1].kind \notin {"u", "change"} => q[j + 1].name = NameAt(q, n, (j + 1) - 1)
      BY <2>2 DEF Chained
    <2> QED
      BY <2>1, <2>2, <2>3, <2>4
  <1>7. Chained(p, GroupAfter(m), m.name)
    BY <1>2, <1>6 DEF Chained
  <1> QED
    BY <1>1, <1>3, <1>5, <1>7

-----------------------------------------------------------------------------
(***************************************************************************)
(* What answers leave on the screen.                                       *)
(***************************************************************************)
LEMMA PageLeavesTrue ==
    ASSUME NEW q \in Seq(Answers), NEW list \in Seq(1..MaxMsgs), Len(list) <= MaxMsgs,
           NEW page \in Pages(list), NEW sh, NEW lm
    PROVE  LeavesTrue(q \o page, list, sh, lm)
  <1>1. PICK first \in 1..(Len(list) + 1) : page = Page(list, first)
    BY DEF Pages
  <1>2. Len(list) \in Nat /\ DOMAIN list = 1..Len(list) /\ first \in Nat /\ first >= 1
        /\ first <= Len(list) + 1
    BY ElementFacts
  <1>13. PICK n : n = Len(list) - first + 1
    OBVIOUS
  <1>3. n \in Nat /\ n = Len(list) - first + 1
    BY ONLY <1>2, <1>13
  <1>4. /\ page \in Seq(Answers) /\ Len(page) = n + 1
        /\ page[1] = [kind |-> "print"]
    <2>1. /\ Page(list, first) \in Seq(Answers)
          /\ Len(Page(list, first)) = Len(list) - first + 2
          /\ Page(list, first)[1] = [kind |-> "print"]
      BY PageFacts
    <2> QED
      BY <2>1, <1>1, <1>2, <1>3
  <1>5. \A j \in 1..n : page[j + 1] = [kind |-> "store", place |-> j, id |-> first + j - 1,
                                       msg |-> list[first + j - 1]]
    <2> TAKE j \in 1..n
    <2>1. j \in 1..(Len(list) - first + 1)
      BY <1>2, <1>3
    <2>2. Page(list, first)[j + 1] = [kind |-> "store", place |-> j, id |-> first + j - 1,
                                      msg |-> list[first + j - 1]]
      BY <2>1, PageFacts
    <2> QED
      BY <2>2, <1>1
  <1>6. PICK x, p : x = q \o page /\ p = Len(q) + 1
    OBVIOUS
  <1>7. /\ Len(q) \in Nat /\ Len(x) = Len(q) + (n + 1) /\ DOMAIN x = 1..(Len(q) + (n + 1))
        /\ \A j \in 1..(n + 1) : x[Len(q) + j] = page[j]
    <2>1. /\ Len(q \o page) = Len(q) + Len(page)
          /\ DOMAIN (q \o page) = 1..(Len(q) + Len(page))
          /\ \A j \in 1..Len(page) : (q \o page)[Len(q) + j] = page[j]
      BY <1>4, ConcatAnswers, Zenon
    <2>2. Len(q) \in Nat
      BY ElementFacts
    <2> QED
      BY <2>1, <2>2, <1>3, <1>4, <1>6
  <1>8. p \in 0..Len(x) /\ n \in 0..Len(x) /\ p + n = Len(x) /\ p # 0
    BY <1>3, <1>6, <1>7
  <1>9. x[p].kind = "print"
    <2>1. 1 \in 1..(n + 1) /\ Len(q) + 1 = p
      BY <1>3, <1>6, <1>7
    <2> QED
      BY <2>1, <1>4, <1>7
  <1>10. ASSUME NEW j \in 1..n
         PROVE  /\ x[p + j].kind = "store"
                /\ x[p + j].place = 0 + j
                /\ x[p + j].id \in DOMAIN list
                /\ list[x[p + j].id] = x[p + j].msg
    <2>1. j + 1 \in 1..(n + 1) /\ Len(q) + (j + 1) = p + j /\ first + j - 1 \in 1..Len(list)
      BY <1>2, <1>3, <1>6, <1>7
    <2>2. x[p + j] = [kind |-> "store", place |-> j, id |-> first + j - 1,
                      msg |-> list[first + j - 1]]
      BY <2>1, <1>5, <1>7
    <2> QED
      BY <2>1, <2>2, <1>2
  <1>11. \A j \in DOMAIN x : ~(j > p + n)
    BY <1>7, <1>8
  <1>12. ScreenAfter(x, p, n, list, sh, lm)
    BY <1>8, <1>9, <1>10, <1>11 DEF ScreenAfter
  <1> QED
    BY <1>6, <1>8, <1>12 DEF LeavesTrue

LEMMA AnswerLeavesTrue ==
    ASSUME NEW q \in Seq(Answers), NEW m \in Answers, m.kind \notin {"print", "store"},
           NEW list, NEW sh, NEW lm, LeavesTrue(q, list, sh, lm)
    PROVE  LeavesTrue(Append(q, m), list, sh, lm)
  <1>1. PICK p \in 0..Len(q), n \in 0..Len(q) : ScreenAfter(q, p, n, list, sh, lm)
    BY DEF LeavesTrue
  <1>2. PICK x : x = Append(q, m)
    OBVIOUS
  <1>3. /\ Len(q) \in Nat /\ DOMAIN q = 1..Len(q)
        /\ Len(x) = Len(q) + 1 /\ DOMAIN x = 1..(Len(q) + 1)
        /\ x[Len(q) + 1] = m
        /\ \A j \in 1..Len(q) : x[j] = q[j]
    BY <1>2, AppendFacts
  <1>4. p \in Nat /\ n \in Nat /\ p + n <= Len(q)
    BY <1>1, <1>3 DEF ScreenAfter
  <1>5. IF p = 0 THEN ShownRight(sh, lm, list) ELSE x[p].kind = "print"
    <2>1. p # 0 => p \in 1..Len(q)
      BY <1>3, <1>4
    <2> QED
      BY <2>1, <1>1, <1>3 DEF ScreenAfter
  <1>6. ASSUME NEW j \in 1..n
        PROVE  /\ x[p + j].kind = "store"
               /\ x[p + j].place = (IF p = 0 THEN Len(sh) ELSE 0) + j
               /\ x[p + j].id \in DOMAIN list
               /\ list[x[p + j].id] = x[p + j].msg
    <2>1. p + j \in 1..Len(q)
      BY <1>3, <1>4
    <2>2. x[p + j] = q[p + j]
      BY <2>1, <1>3
    <2> QED
      BY <2>2, <1>1 DEF ScreenAfter
  <1>7. ASSUME NEW j \in DOMAIN x, j > p + n
        PROVE  x[j].kind \notin {"print", "store"}
    <2>1. CASE j = Len(q) + 1
      BY <2>1, <1>3
    <2>2. CASE j # Len(q) + 1
      <3>1. j \in 1..Len(q) /\ j \in DOMAIN q
        BY <2>2, <1>3
      <3>2. x[j] = q[j]
        BY <3>1, <1>3
      <3> QED
        BY <3>1, <3>2, <1>1, <1>7 DEF ScreenAfter
    <2> QED
      BY <2>1, <2>2
  <1>8. p + n <= Len(x)
    BY <1>3, <1>4
  <1>9. ScreenAfter(x, p, n, list, sh, lm)
    BY <1>5, <1>6, <1>7, <1>8 DEF ScreenAfter
  <1>10. p \in 0..Len(x) /\ n \in 0..Len(x)
    BY <1>3, <1>4
  <1> QED
    BY <1>2, <1>9, <1>10 DEF LeavesTrue

\* The goroutine handles the first answer.
LEMMA HandledLeavesTrue ==
    ASSUME NEW q \in Seq(Answers), q # <<>>, NEW m, m = Head(q), NEW list,
           NEW sh \in Seq(1..MaxMsgs), NEW lm \in [1..MaxMsgs -> 0..MaxMsgs],
           LeavesTrue(q, list, sh, lm),
           NEW sh2, sh2 = IF m.kind = "store" THEN Append(sh, m.msg)
                          ELSE IF m.kind = "print" THEN <<>> ELSE sh,
           NEW lm2, lm2 = IF m.kind = "store" THEN [lm EXCEPT ![m.place] = m.id] ELSE lm
    PROVE  LeavesTrue(Tail(q), list, sh2, lm2)
  <1>1. PICK p \in 0..Len(q), n \in 0..Len(q) : ScreenAfter(q, p, n, list, sh, lm)
    BY DEF LeavesTrue
  <1>2. PICK x : x = Tail(q)
    OBVIOUS
  <1>3. /\ Len(q) \in Nat /\ Len(q) >= 1 /\ DOMAIN q = 1..Len(q) /\ m = q[1] /\ m \in Answers
        /\ Len(x) = Len(q) - 1 /\ DOMAIN x = 1..(Len(q) - 1)
        /\ \A j \in 1..(Len(q) - 1) : x[j] = q[j + 1]
    BY <1>2, TailFacts
  <1>4. p \in Nat /\ n \in Nat /\ p + n <= Len(q)
    BY <1>1, <1>3 DEF ScreenAfter
  <1>5. Len(sh) \in Nat /\ DOMAIN sh = 1..Len(sh)
    BY ElementFacts
  <1>6. ASSUME NEW j \in DOMAIN x
        PROVE  j \in Nat /\ j + 1 \in DOMAIN q /\ x[j] = q[j + 1]
    BY <1>3
  \* A page is still to come: what is shown does not matter.
  <1>7. CASE p >= 2
    <2>1. p - 1 \in 0..Len(x) /\ n \in 0..Len(x) /\ (p - 1) + n <= Len(x) /\ p - 1 # 0
      BY <1>3, <1>4, <1>7
    <2>2. x[p - 1].kind = "print"
      <3>1. p - 1 \in DOMAIN x /\ (p - 1) + 1 = p /\ p # 0
        BY <1>3, <1>4, <1>7
      <3> QED
        BY <3>1, <1>1, <1>6 DEF ScreenAfter
    <2>3. ASSUME NEW j \in 1..n
          PROVE  /\ x[(p - 1) + j].kind = "store"
                 /\ x[(p - 1) + j].place = 0 + j
                 /\ x[(p - 1) + j].id \in DOMAIN list
                 /\ list[x[(p - 1) + j].id] = x[(p - 1) + j].msg
      <3>1. (p - 1) + j \in DOMAIN x /\ ((p - 1) + j) + 1 = p + j /\ p # 0
        BY <1>3, <1>4, <1>7
      <3>2. x[(p - 1) + j] = q[p + j]
        BY <3>1, <1>6
      <3> QED
        BY <3>1, <3>2, <1>1 DEF ScreenAfter
    <2>4. ASSUME NEW j \in DOMAIN x, j > (p - 1) + n
          PROVE  x[j].kind \notin {"print", "store"}
      <3>1. j + 1 \in DOMAIN q /\ j + 1 > p + n /\ x[j] = q[j + 1]
        BY <2>4, <1>4, <1>6
      <3> QED
        BY <3>1, <1>1 DEF ScreenAfter
    <2>5. ScreenAfter(x, p - 1, n, list, sh2, lm2)
      BY <2>1, <2>2, <2>3, <2>4 DEF ScreenAfter
    <2> QED
      BY <1>2, <2>1, <2>5 DEF LeavesTrue
  \* The page begins.
  <1>8. CASE p = 1
    <2>1. m.kind = "print"
      BY <1>1, <1>3, <1>8 DEF ScreenAfter
    <2>2. sh2 = <<>> /\ Len(sh2) = 0 /\ DOMAIN sh2 = {}
      BY <2>1
    <2>3. 0 \in 0..Len(x) /\ n \in 0..Len(x) /\ 0 + n <= Len(x)
      BY <1>3, <1>4, <1>8
    <2>4. ShownRight(sh2, lm2, list)
      BY <2>2 DEF ShownRight
    <2>5. ASSUME NEW j \in 1..n
          PROVE  /\ x[0 + j].kind = "store"
                 /\ x[0 + j].place = Len(sh2) + j
                 /\ x[0 + j].id \in DOMAIN list
                 /\ list[x[0 + j].id] = x[0 + j].msg
      <3>1. j \in DOMAIN x /\ 0 + j = j /\ j + 1 = p + j
        BY <1>3, <1>4, <1>8
      <3>2. x[0 + j] = q[p + j]
        BY <3>1, <1>6
      <3> QED
        BY <2>2, <3>2, <1>1, <1>8 DEF ScreenAfter
    <2>6. ASSUME NEW j \in DOMAIN x, j > 0 + n
          PROVE  x[j].kind \notin {"print", "store"}
      <3>1. j + 1 \in DOMAIN q /\ j + 1 > p + n /\ x[j] = q[j + 1]
        BY <2>6, <1>4, <1>6, <1>8
      <3> QED
        BY <3>1, <1>1 DEF ScreenAfter
    <2>7. ScreenAfter(x, 0, n, list, sh2, lm2)
      BY <2>3, <2>4, <2>5, <2>6 DEF ScreenAfter
    <2> QED
      BY <1>2, <2>3, <2>7 DEF LeavesTrue
  \* A message of the page.
  <1>9. CASE p = 0 /\ n # 0
    <2>1. 1 \in 1..n /\ p + 1 = 1
      BY <1>4, <1>9
    <2>2. /\ m.kind = "store" /\ m.place = Len(sh) + 1 /\ m.id \in DOMAIN list
          /\ list[m.id] = m.msg
      BY <2>1, <1>1, <1>3, <1>9 DEF ScreenAfter
    <2>3. m.place \in 1..MaxMsgs /\ m.id \in 1..MaxMsgs /\ m.msg \in 1..MaxMsgs
      BY <2>2, <1>3, AnswerTypes
    <2>4. /\ Len(sh2) = Len(sh) + 1 /\ DOMAIN sh2 = 1..(Len(sh) + 1)
          /\ sh2[Len(sh) + 1] = m.msg
          /\ \A j \in 1..Len(sh) : sh2[j] = sh[j]
      BY <2>2, <2>3, AppendFacts
    <2>5. /\ lm2[m.place] = m.id
          /\ \A j \in 1..MaxMsgs : j # m.place => lm2[j] = lm[j]
      BY <2>2, <2>3
    <2>6. ASSUME NEW k \in 1..(Len(sh) + 1)
          PROVE  /\ k <= MaxMsgs
                 /\ lm2[k] \in DOMAIN list /\ list[lm2[k]] = sh2[k]
      <3>1. CASE k = Len(sh) + 1
        <4>1. k = m.place
          BY ONLY <3>1, <2>2
        <4>2. k <= MaxMsgs
          BY ONLY <4>1, <2>3, Bounds
        <4> QED
          BY <3>1, <4>1, <4>2, <2>2, <2>4, <2>5
      <3>2. CASE k # Len(sh) + 1
        <4>1. k \in 1..Len(sh) /\ k \in DOMAIN sh /\ k # m.place
          BY <3>2, <1>5, <2>2
        <4>2. k <= MaxMsgs /\ lm[k] \in DOMAIN list /\ list[lm[k]] = sh[k]
          BY <4>1, <1>1, <1>9 DEF ScreenAfter, ShownRight
        <4>3. k \in 1..MaxMsgs
          BY <4>1, <4>2, <1>5, Bounds
        <4> QED
          BY <4>1, <4>2, <4>3, <2>4, <2>5
      <3> QED
        BY <3>1, <3>2
    <2>7. ShownRight(sh2, lm2, list)
      BY <2>4, <2>6 DEF ShownRight
    <2>8. n - 1 \in 0..Len(x) /\ 0 + (n - 1) <= Len(x) /\ 0 \in 0..Len(x)
      BY <1>3, <1>4, <1>9
    <2>9. ASSUME NEW j \in 1..(n - 1)
          PROVE  /\ x[0 + j].kind = "store"
                 /\ x[0 + j].place = Len(sh2) + j
                 /\ x[0 + j].id \in DOMAIN list
                 /\ list[x[0 + j].id] = x[0 + j].msg
      <3>1. j \in DOMAIN x /\ 0 + j = j /\ j + 1 = p + (j + 1) /\ j + 1 \in 1..n
            /\ Len(sh) + (j + 1) = Len(sh2) + j
        <4>1. /\ j \in Nat /\ j >= 1 /\ j <= n - 1 /\ n \in Nat /\ n <= Len(q)
              /\ Len(q) \in Nat /\ p = 0 /\ Len(sh) \in Nat /\ Len(sh2) = Len(sh) + 1
          BY <1>3, <1>4, <1>5, <1>9, <2>4
        <4>2. /\ j \in 1..(Len(q) - 1) /\ 0 + j = j /\ j + 1 = p + (j + 1) /\ j + 1 \in 1..n
              /\ Len(sh) + (j + 1) = Len(sh2) + j
          BY ONLY <4>1
        <4> QED
          BY <4>2, <1>3
      <3>2. x[0 + j] = q[p + (j + 1)]
        BY <3>1, <1>6
      <3> QED
        BY <3>1, <3>2, <1>1, <1>9 DEF ScreenAfter
    <2>10. ASSUME NEW j \in DOMAIN x, j > 0 + (n - 1)
           PROVE  x[j].kind \notin {"print", "store"}
      <3>1. j + 1 \in DOMAIN q /\ j + 1 > p + n /\ x[j] = q[j + 1]
        BY <2>10, <1>4, <1>6, <1>9
      <3> QED
        BY <3>1, <1>1 DEF ScreenAfter
    <2>11. ScreenAfter(x, 0, n - 1, list, sh2, lm2)
      BY <2>7, <2>8, <2>9, <2>10 DEF ScreenAfter
    <2> QED
      BY <1>2, <2>8, <2>11 DEF LeavesTrue
  \* Nothing of the screen.
  <1>10. CASE p = 0 /\ n = 0
    <2>1. m.kind \notin {"print", "store"}
      <3>1. 1 \in DOMAIN q /\ 1 > p + n
        BY <1>3, <1>10
      <3> QED
        BY <3>1, <1>1, <1>3 DEF ScreenAfter
    <2>2. sh2 = sh /\ lm2 = lm
      BY <2>1
    <2>3. 0 \in 0..Len(x) /\ 0 + 0 <= Len(x)
      BY <1>3
    <2>4. ShownRight(sh2, lm2, list)
      BY <2>2, <1>1, <1>10 DEF ScreenAfter
    <2>5. ASSUME NEW j \in DOMAIN x, j > 0 + 0
          PROVE  x[j].kind \notin {"print", "store"}
      <3>1. j + 1 \in DOMAIN q /\ j + 1 > p + n /\ x[j] = q[j + 1]
        BY <2>5, <1>4, <1>6, <1>10
      <3> QED
        BY <3>1, <1>1 DEF ScreenAfter
    <2>6. ScreenAfter(x, 0, 0, list, sh2, lm2)
      BY <2>3, <2>4, <2>5 DEF ScreenAfter
    <2> QED
      BY <1>2, <2>3, <2>6 DEF LeavesTrue
  <1> QED
    BY <1>4, <1>7, <1>8, <1>9, <1>10

-----------------------------------------------------------------------------
(***************************************************************************)
(* A handler takes a request of a patient user.                            *)
(***************************************************************************)
LEMMA ExtendsFacts ==
    ASSUME NEW from \in [Conn -> Seq(Answers)], NEW to, Extends(to, from), NEW l \in Conn
    PROVE  /\ \A j \in DOMAIN from[l] : j \in DOMAIN to[l] /\ to[l][j] = from[l][j]
           /\ \A j \in DOMAIN to[l] : to[l][j].kind = "login" => j \in DOMAIN from[l]
  <1>1. PICK t : Quiet(t) /\ to[l] = from[l] \o t
    BY DEF Extends
  <1>2. PICK f : f = from[l]
    OBVIOUS
  <1>3. f \in Seq(Answers) /\ t \in Seq(Answers) /\ to[l] = f \o t
    BY <1>1, <1>2 DEF Quiet
  <1>4. /\ Len(f) \in Nat /\ DOMAIN f = 1..Len(f) /\ Len(t) \in Nat /\ DOMAIN t = 1..Len(t)
        /\ DOMAIN to[l] = 1..(Len(f) + Len(t))
        /\ \A j \in 1..Len(f) : to[l][j] = f[j]
        /\ \A j \in 1..Len(t) : to[l][Len(f) + j] = t[j]
    BY <1>3, ConcatFacts
  <1>5. ASSUME NEW j \in 1..(Len(f) + Len(t)), to[l][j].kind = "login"
        PROVE  j \in 1..Len(f)
    <2> SUFFICES ASSUME j \notin 1..Len(f)
                 PROVE  FALSE
      OBVIOUS
    <2>1. j - Len(f) \in 1..Len(t) /\ Len(f) + (j - Len(f)) = j
      BY <1>4
    <2>2. to[l][j] = t[j - Len(f)]
      BY <2>1, <1>4
    <2> QED
      BY <2>1, <2>2, <1>1, <1>4, <1>5 DEF Quiet
  <1> QED
    BY <1>2, <1>4, <1>5

\* The requests that are left are those there were, but for the first of k.
LEMMA TakeReqs ==
    ASSUME Types, Counts, NEW k \in Conn, NEW kinds, Takes(k, kinds), NEW l \in Conn
    PROVE  /\ req'[l] \in Seq(Asks)
           /\ l # k => req'[l] = req[l]
           /\ req'[k] = Tail(req[k])
           /\ \A j \in DOMAIN req'[l] : \E i \in DOMAIN req[l] : req'[l][j] = req[l][i]
           /\ \A i \in DOMAIN req[l] : ~(l = k /\ i = 1) =>
                 \E j \in DOMAIN req'[l] : req'[l][j] = req[l][i]
           /\ 1 \in DOMAIN req[k] /\ Head(req[k]) = req[k][1]
           /\ Len(req[k]) = 1 => DOMAIN req'[k] = {}
  <1>1. /\ req \in [Conn -> Seq(Asks)] /\ req[k] \in Seq(Asks) /\ req[k] # <<>>
        /\ req' = [req EXCEPT ![k] = Tail(req[k])]
    BY TakesFacts
  <1>2. PICK q : q = req[k]
    OBVIOUS
  <1>3. /\ Len(q) \in Nat /\ Len(q) >= 1 /\ 1 \in DOMAIN q /\ Head(q) = q[1]
        /\ DOMAIN q = 1..Len(q)
        /\ Tail(q) \in Seq(Asks) /\ DOMAIN Tail(q) = 1..(Len(q) - 1)
        /\ \A j \in 1..(Len(q) - 1) : Tail(q)[j] = q[j + 1] /\ j + 1 \in DOMAIN q
    <2>1. q \in Seq(Asks) /\ q # <<>>
      BY <1>1, <1>2
    <2> QED
      BY <2>1, TailFacts, ElementFacts
  <1>4. /\ req'[k] = Tail(q) /\ (l # k => req'[l] = req[l])
    BY <1>1, <1>2
  <1>5. req'[l] \in Seq(Asks)
    BY <1>1, <1>3, <1>4
  <1>6. ASSUME NEW j \in DOMAIN req'[l]
        PROVE  \E i \in DOMAIN req[l] : req'[l][j] = req[l][i]
    <2>1. CASE l = k
      <3>1. j \in 1..(Len(q) - 1)
        BY <2>1, <1>3, <1>4
      <3>2. Tail(q)[j] = q[j + 1] /\ j + 1 \in DOMAIN q
        BY <3>1, <1>3
      <3> QED
        BY <2>1, <3>2, <1>2, <1>4
    <2>2. CASE l # k
      BY <2>2, <1>4
    <2> QED
      BY <2>1, <2>2
  <1>7. ASSUME NEW i \in DOMAIN req[l], ~(l = k /\ i = 1)
        PROVE  \E j \in DOMAIN req'[l] : req'[l][j] = req[l][i]
    <2>1. CASE l = k
      <3>1. i - 1 \in 1..(Len(q) - 1) /\ (i - 1) + 1 = i
        BY <2>1, <1>2, <1>3, <1>7
      <3>2. Tail(q)[i - 1] = q[i] /\ i - 1 \in DOMAIN Tail(q)
        BY <3>1, <1>3
      <3> QED
        BY <2>1, <3>2, <1>2, <1>4
    <2>2. CASE l # k
      BY <2>2, <1>4
    <2> QED
      BY <2>1, <2>2
  <1>8. Len(req[k]) = 1 => DOMAIN req'[k] = {}
    BY <1>2, <1>3, <1>4
  <1> QED
    BY <1>2, <1>3, <1>4, <1>5, <1>6, <1>7, <1>8

\* The place of k becomes what its first request says.
Led(k, m, at, as, at2, as2) ==
    /\ at[k] = GroupBefore(m)
    /\ m.kind \notin {"u", "change"} => m.name = as[k]
    /\ at2 \in [Conn -> Groups] /\ as2 \in [Conn -> Names]
    /\ at2[k] = GroupAfter(m) /\ as2[k] = m.name
    /\ \A l \in Conn : l # k => at2[l] = at[l] /\ as2[l] = as[l]
    /\ Leads(at2, as2)'

LEMMA TakeLeads ==
    ASSUME Types, Counts, NEW k \in Conn, NEW kinds, Takes(k, kinds), NEW at, NEW as,
           at \in [Conn -> Groups], as \in [Conn -> Names],
           Leads(at, as), NEW m, m = Head(req[k]),
           NEW at2, at2 = [at EXCEPT ![k] = GroupAfter(m)],
           NEW as2, as2 = [as EXCEPT ![k] = m.name]
    PROVE  Led(k, m, at, as, at2, as2)
  <1>1. /\ req[k] \in Seq(Asks) /\ req[k] # <<>> /\ m \in Asks
        /\ UNCHANGED <<stream, main, currentgroup, username>>
    BY TakesFacts
  <1>2. /\ req'[k] = Tail(req[k])
        /\ \A l \in Conn : l # k => req'[l] = req[l]
    BY TakeReqs
  <1>3. Chained(req[k], at[k], as[k])
    BY DEF Leads
  <1>4. /\ GroupBefore(m) = at[k]
        /\ m.kind \notin {"u", "change"} => m.name = as[k]
        /\ Chained(Tail(req[k]), GroupAfter(m), m.name)
        /\ GroupAt(Tail(req[k]), GroupAfter(m), Len(Tail(req[k])))
              = GroupAt(req[k], at[k], Len(req[k]))
        /\ NameAt(Tail(req[k]), m.name, Len(Tail(req[k]))) = NameAt(req[k], as[k], Len(req[k]))
    <2>1. PICK q, g, n : q = req[k] /\ g = at[k] /\ n = as[k]
      OBVIOUS
    <2>2. q \in Seq(Asks) /\ q # <<>> /\ Chained(q, g, n) /\ m = Head(q)
      BY <2>1, <1>1, <1>3
    <2>3. /\ GroupBefore(m) = g
          /\ m.kind \notin {"u", "change"} => m.name = n
          /\ Chained(Tail(q), GroupAfter(m), m.name)
          /\ GroupAt(Tail(q), GroupAfter(m), Len(Tail(q))) = GroupAt(q, g, Len(q))
          /\ NameAt(Tail(q), m.name, Len(Tail(q))) = NameAt(q, n, Len(q))
      BY <2>2, ChainTail
    <2> QED
      BY <2>1, <2>3
  <1>5. GroupAfter(m) \in Groups /\ m.name \in Names
    BY <1>1, AskTypes DEF GroupAfter
  <1>6. /\ at2 \in [Conn -> Groups] /\ as2 \in [Conn -> Names]
        /\ at2[k] = GroupAfter(m) /\ as2[k] = m.name
        /\ \A l \in Conn : l # k => at2[l] = at[l] /\ as2[l] = as[l]
    BY <1>5
  <1>7. \A l \in Conn : Chained(req'[l], at2[l], as2[l])
    <2> TAKE l \in Conn
    <2>1. CASE l = k
      BY <2>1, <1>2, <1>4, <1>6
    <2>2. CASE l # k
      BY <2>2, <1>2, <1>6 DEF Leads
    <2> QED
      BY <2>1, <2>2
  <1>8. ASSUME stream # 0, main = "ready"
        PROVE  /\ currentgroup = GroupAt(req'[stream], at2[stream], Len(req'[stream]))
               /\ username = NameAt(req'[stream], as2[stream], Len(req'[stream]))
    <2>0. stream \in Conn
      <3>1. stream \in 0..MaxConns
        BY DEF Types, ClientTypes
      <3> QED
        BY ONLY <3>1, <1>8, Bounds DEF Conn
    <2>1. /\ currentgroup = GroupAt(req[stream], at[stream], Len(req[stream]))
          /\ username = NameAt(req[stream], as[stream], Len(req[stream]))
      BY <1>8 DEF Leads
    <2>2. CASE stream = k
      BY <2>1, <2>2, <1>2, <1>4, <1>6
    <2>3. CASE stream # k
      BY <2>0, <2>1, <2>3, <1>2, <1>6
    <2> QED
      BY <2>2, <2>3
  <1>9. Leads(at2, as2)'
    BY <1>1, <1>7, <1>8 DEF Leads
  <1> QED
    BY <1>4, <1>6, <1>9 DEF Led

\* A request other than a login leaves what is known of ids as it is.
LEMMA TakeIds ==
    ASSUME Types, Counts, NEW k \in Conn, NEW kinds, Takes(k, kinds),
           Head(req[k]).kind \notin {"u", "change"}, Extends(resp', resp),
           UNCHANGED userCount,
           NEW id, IdsRight(id), IdsGiven(id), IdKnown(id), LeftQuiet
    PROVE  IdsRight(id)' /\ IdsGiven(id)' /\ IdKnown(id)' /\ LeftQuiet'
  <1>1. UNCHANGED <<user_id, currentgroup, stream, main, server>>
        /\ resp \in [Conn -> Seq(Answers)]
    BY TakesFacts
  <1>2. \A l \in Conn :
           /\ \A j \in DOMAIN req'[l] : \E i \in DOMAIN req[l] : req'[l][j] = req[l][i]
           /\ \A i \in DOMAIN req[l] : IsLogin(req[l][i]) =>
                 \E j \in DOMAIN req'[l] : req'[l][j] = req[l][i]
           /\ l # k => req'[l] = req[l]
           /\ Len(req[k]) = 1 => DOMAIN req'[k] = {}
    <2> TAKE l \in Conn
    <2>1. ASSUME NEW i \in DOMAIN req[l], IsLogin(req[l][i])
          PROVE  ~(l = k /\ i = 1)
      <3>1. Head(req[k]) = req[k][1] /\ Head(req[k]) \in Asks
        BY TakeReqs, TakesFacts
      <3>2. ~IsLogin(Head(req[k]))
        BY <3>1, AskTypes DEF IsLogin, Kinds
      <3> QED
        BY <2>1, <3>1, <3>2
    <2> QED
      BY <2>1, TakeReqs
  <1>3. \A l \in Conn :
           /\ \A j \in DOMAIN resp[l] : j \in DOMAIN resp'[l] /\ resp'[l][j] = resp[l][j]
           /\ \A j \in DOMAIN resp'[l] : resp'[l][j].kind = "login" => j \in DOMAIN resp[l]
    BY <1>1, ExtendsFacts
  <1>4. \A l \in Conn : \A j \in DOMAIN resp'[l] : IsLogin(resp'[l][j]) => j \in DOMAIN resp[l]
    <2> TAKE l \in Conn
    <2> TAKE j \in DOMAIN resp'[l]
    <2>1. resp'[l][j] \in Answers
      <3>1. resp' \in [Conn -> Seq(Answers)]
        BY DEF Extends
      <3>2. resp'[l] \in Seq(Answers)
        BY <3>1
      <3> QED
        BY <3>2, ElementFacts
    <2>2. IsLogin(resp'[l][j]) => resp'[l][j].kind = "login"
      BY <2>1, AnswerTypes DEF IsLogin
    <2> QED
      BY <2>2, <1>3
  <1>5. IdsRight(id)'
    <2>1. \A l \in Conn : \A j \in DOMAIN req'[l] :
             /\ req'[l][j].id = id[l]
             /\ req'[l][j].kind = "u" => Len(req'[l]) = 1
      <3> TAKE l \in Conn
      <3> TAKE j \in DOMAIN req'[l]
      <3>1. PICK i \in DOMAIN req[l] : req'[l][j] = req[l][i]
        BY <1>2
      <3>2. req[l][i].id = id[l] /\ (req[l][i].kind = "u" => Len(req[l]) = 1)
        BY DEF IdsRight
      <3> QED
        BY <3>1, <3>2, <1>2
    <2>2. \A l \in Conn : \A j \in DOMAIN resp'[l] :
             resp'[l][j].kind = "login" => resp'[l][j].id = id[l]
      BY <1>3 DEF IdsRight
    <2> QED
      BY <2>1, <2>2 DEF IdsRight
  <1>6. IdsGiven(id)'
    BY <1>1 DEF IdsGiven
  <1>7. LoginPending => LoginPending'
    BY <1>2, <1>3 DEF LoginPending
  <1>8. IdKnown(id)'
    BY <1>1, <1>7 DEF IdKnown
  <1>9. \A l \in Conn : NoLogin(l) => NoLogin(l)'
    BY <1>2, <1>3, <1>4 DEF NoLogin
  <1>10. LeftQuiet'
    BY <1>1, <1>9 DEF LeftQuiet
  <1> QED
    BY <1>5, <1>6, <1>8, <1>10

\* So does the answer to a client that changes its name.
LEMMA TakeChangeIds ==
    ASSUME Types, Counts, NEW k \in Conn, NEW kinds, Takes(k, kinds),
           NEW m, m = Head(req[k]), m.kind = "change", Login(m.id) \in Answers,
           NEW mid, mid = [resp EXCEPT ![k] = Append(resp[k], Login(m.id))],
           mid \in [Conn -> Seq(Answers)], Extends(resp', mid), UNCHANGED userCount,
           NEW id, IdsRight(id), IdsGiven(id), IdKnown(id), LeftQuiet
    PROVE  IdsRight(id)' /\ IdsGiven(id)' /\ IdKnown(id)' /\ LeftQuiet'
  <1>1. UNCHANGED <<user_id, currentgroup, stream, main, server>>
        /\ resp \in [Conn -> Seq(Answers)]
    BY TakesFacts
  <1>2. \A l \in Conn :
           /\ \A j \in DOMAIN req'[l] : \E i \in DOMAIN req[l] : req'[l][j] = req[l][i]
           /\ l # k => req'[l] = req[l]
           /\ Len(req[k]) = 1 => DOMAIN req'[k] = {}
           /\ 1 \in DOMAIN req[k] /\ m = req[k][1]
    BY TakeReqs
  <1>3. \A l \in Conn :
           /\ \A j \in DOMAIN mid[l] : j \in DOMAIN resp'[l] /\ resp'[l][j] = mid[l][j]
           /\ \A j \in DOMAIN resp'[l] : resp'[l][j].kind = "login" => j \in DOMAIN mid[l]
    <2>1. PICK to : to = resp'
      OBVIOUS
    <2>2. mid \in [Conn -> Seq(Answers)] /\ Extends(to, mid)
      BY <2>1
    <2>3. \A l \in Conn :
             /\ \A j \in DOMAIN mid[l] : j \in DOMAIN to[l] /\ to[l][j] = mid[l][j]
             /\ \A j \in DOMAIN to[l] : to[l][j].kind = "login" => j \in DOMAIN mid[l]
      BY ONLY <2>2, ExtendsFacts
    <2> QED
      BY <2>1, <2>3
  <1>4. /\ DOMAIN mid[k] = 1..(Len(resp[k]) + 1) /\ DOMAIN resp[k] = 1..Len(resp[k])
        /\ Len(resp[k]) \in Nat
        /\ mid[k][Len(resp[k]) + 1] = Login(m.id)
        /\ \A j \in DOMAIN resp[k] : mid[k][j] = resp[k][j]
        /\ \A l \in Conn : l # k => mid[l] = resp[l]
    <2>1. resp[k] \in Seq(Answers) /\ mid[k] = Append(resp[k], Login(m.id))
      BY <1>1
    <2>2. \A l \in Conn : l # k => mid[l] = resp[l]
      BY <1>1
    <2> QED
      BY <2>1, <2>2, AppendFacts
  <1>5. IsLogin(m) /\ Login(m.id).kind = "login" /\ Login(m.id).id = m.id
    BY DEF IsLogin, Login
  <1>6. k = stream /\ main # "connecting"
    BY <1>2, <1>5 DEF LeftQuiet, NoLogin
  <1>7. \A l \in Conn : \A j \in DOMAIN resp'[l] :
           resp'[l][j].kind = "login" =>
              \/ j \in DOMAIN resp[l] /\ resp'[l][j] = resp[l][j]
              \/ l = k /\ resp'[l][j] = Login(m.id)
    <2> TAKE l \in Conn
    <2> TAKE j \in DOMAIN resp'[l]
    <2> HAVE resp'[l][j].kind = "login"
    <2>1. j \in DOMAIN mid[l] /\ resp'[l][j] = mid[l][j]
      BY <1>3
    <2>2. CASE l = k
      <3>1. j \in DOMAIN resp[k] \/ j = Len(resp[k]) + 1
        BY <2>1, <2>2, <1>4
      <3> QED
        BY <3>1, <2>1, <2>2, <1>4
    <2>3. CASE l # k
      BY <2>1, <2>3, <1>4
    <2> QED
      BY <2>2, <2>3
  <1>8. \A l \in Conn : \A j \in DOMAIN resp'[l] :
           IsLogin(resp'[l][j]) => resp'[l][j].kind = "login"
    <2> TAKE l \in Conn
    <2> TAKE j \in DOMAIN resp'[l]
    <2>1. resp'[l][j] \in Answers
      <3>1. resp' \in [Conn -> Seq(Answers)]
        BY DEF Extends
      <3>2. resp'[l] \in Seq(Answers)
        BY <3>1
      <3> QED
        BY <3>2, ElementFacts
    <2> QED
      BY <2>1, AnswerTypes DEF IsLogin
  <1>9. m.id = id[k]
    BY <1>2 DEF IdsRight
  <1>10. IdsRight(id)'
    <2>1. \A l \in Conn : \A j \in DOMAIN req'[l] :
             /\ req'[l][j].id = id[l]
             /\ req'[l][j].kind = "u" => Len(req'[l]) = 1
      <3> TAKE l \in Conn
      <3> TAKE j \in DOMAIN req'[l]
      <3>1. PICK i \in DOMAIN req[l] : req'[l][j] = req[l][i]
        BY <1>2
      <3>2. req[l][i].id = id[l] /\ (req[l][i].kind = "u" => Len(req[l]) = 1)
        BY DEF IdsRight
      <3> QED
        BY <3>1, <3>2, <1>2
    <2>2. \A l \in Conn : \A j \in DOMAIN resp'[l] :
             resp'[l][j].kind = "login" => resp'[l][j].id = id[l]
      BY <1>5, <1>7, <1>9 DEF IdsRight
    <2> QED
      BY <2>1, <2>2 DEF IdsRight
  <1>11. IdsGiven(id)'
    BY <1>1 DEF IdsGiven
  <1>12. LoginPending'
    <2>1. Len(resp[k]) + 1 \in DOMAIN resp'[k] /\ resp'[k][Len(resp[k]) + 1] = Login(m.id)
      BY <1>3, <1>4
    <2>2. IsLogin(Login(m.id))
      BY <1>5 DEF IsLogin
    <2> QED
      BY <2>1, <2>2 DEF LoginPending
  <1>13. IdKnown(id)'
    BY <1>1, <1>12 DEF IdKnown
  <1>14. \A l \in Conn : l # k /\ NoLogin(l) => NoLogin(l)'
    BY <1>2, <1>7, <1>8 DEF NoLogin
  <1>15. LeftQuiet'
    BY <1>1, <1>6, <1>14 DEF LeftQuiet
  <1> QED
    BY <1>10, <1>11, <1>13, <1>15


\* What the client is to the server that takes a request of it.
LEMMA TakeHome ==
    ASSUME Types, Counts, NEW k \in Conn, NEW kinds, Takes(k, kinds),
           NEW m, m = Head(req[k]), NEW id, IdsRight(id), IdsGiven(id)
    PROVE  /\ m \in Asks /\ m.kind \in kinds /\ m.id = id[k]
           /\ k <= stream /\ server[k] \in Server
           /\ m.kind # "u" => /\ id[k] \in Id /\ FirstId[server[k]] < id[k]
                              /\ \A l \in Conn : l # k /\ id[l] = id[k] => server[l] # server[k]
  <1>1. /\ m \in Asks /\ m.kind \in kinds /\ k \in 1..stream /\ server[k] \in Server
        /\ stream \in 0..MaxConns
    BY TakesFacts DEF Types, ClientTypes
  <1>2. m.id = id[k]
    <2>1. 1 \in DOMAIN req[k] /\ m = req[k][1]
      BY TakeReqs
    <2> QED
      BY <2>1 DEF IdsRight
  <1>3. k <= stream
    BY <1>1
  <1>4. m.kind # "u" => id[k] \in Id /\ id[k] # NoId
    BY <1>1, <1>2, AskTypes, Bounds
  <1>5. ASSUME NEW l \in Conn, l # k, id[l] = id[k], m.kind # "u"
        PROVE  server[l] # server[k]
    BY <1>4, <1>5 DEF IdsGiven
  <1> QED
    BY <1>1, <1>2, <1>3, <1>4, <1>5 DEF IdsGiven

\* Only entries of k are new: the place of the stream in use stays.
LEMMA TakeTurned ==
    ASSUME Types, Counts, NEW k \in Conn, NEW kinds, Takes(k, kinds), Head(req[k]).kind # "u",
           \A s \in Server, g \in Group, i \in Id :
              users'[s][g][i].conn \in {users[s][g][i].conn, k, 0},
           TurnedOver
    PROVE  TurnedOver'
  <1> SUFFICES ASSUME stream # 0, reading \notin {0, stream}
               PROVE  /\ user_id = NoId
                      /\ \A j \in DOMAIN req'[stream] : req'[stream][j].kind = "u"
                      /\ \A s \in Server, g \in Group, i \in Id :
                            users'[s][g][i].conn # stream
    BY TakesFacts DEF TurnedOver
  <1>1. /\ user_id = NoId
        /\ \A j \in DOMAIN req[stream] : req[stream][j].kind = "u"
        /\ \A s \in Server, g \in Group, i \in Id : users[s][g][i].conn # stream
    BY DEF TurnedOver
  <1>2. stream \in Conn
    <2>1. stream \in 0..MaxConns
      BY DEF Types, ClientTypes
    <2> QED
      BY ONLY <2>1, stream # 0, Bounds DEF Conn
  <1>3. \A j \in DOMAIN req'[stream] : \E i \in DOMAIN req[stream] :
           req'[stream][j] = req[stream][i]
    BY <1>2, TakeReqs
  <1>4. stream # k
    <2>1. 1 \in DOMAIN req[k] /\ Head(req[k]) = req[k][1]
      BY TakeReqs
    <2> QED
      BY <2>1, <1>1
  <1>5. ASSUME NEW s \in Server, NEW g \in Group, NEW i \in Id, users'[s][g][i].conn = stream
        PROVE  FALSE
    <2>1. stream # 0 /\ stream # k
      BY <1>2, <1>4, Bounds
    <2> QED
      BY <2>1, <1>1, <1>5
  <1> QED
    BY <1>1, <1>3, <1>5

\* A page reaches a member, who then has the true screen, and nobody else.
Delivered(members, page, to, l, list, sh, lm) ==
    IF \E j \in Id : members[j].conn = l
    THEN LeavesTrue(ToMembers(members, page, to)[l], list, sh, lm)
    ELSE ToMembers(members, page, to)[l] = to[l]

LEMMA PageShown ==
    ASSUME NEW to \in [Conn -> Seq(Answers)], NEW l \in Conn, NEW members,
           NEW list \in Seq(1..MaxMsgs), Len(list) <= MaxMsgs, NEW page \in Pages(list),
           NEW sh, NEW lm
    PROVE  Delivered(members, page, to, l, list, sh, lm)
  <1>1. CASE \E j \in Id : members[j].conn = l
    <2>1. ToMembers(members, page, to)[l] = to[l] \o page
      BY <1>1 DEF ToMembers
    <2>2. PICK q : q = to[l]
      OBVIOUS
    <2>3. q \in Seq(Answers)
      BY <2>2
    <2>4. LeavesTrue(q \o page, list, sh, lm)
      BY <2>3, PageLeavesTrue
    <2> QED
      BY <1>1, <2>1, <2>2, <2>4 DEF Delivered
  <1>2. CASE ~\E j \in Id : members[j].conn = l
    <2>1. ToMembers(members, page, to)[l] = to[l]
      BY <1>2 DEF ToMembers
    <2> QED
      BY <1>2, <2>1 DEF Delivered
  <1> QED
    BY <1>1, <1>2

LEMMA StreamFacts ==
    ASSUME Types, stream # 0
    PROVE  stream \in Conn /\ server[stream] \in Server
  <1>1. stream \in 0..MaxConns /\ \A k \in 1..stream : server[k] \in Server
    BY DEF Types, ClientTypes, LinkTypes
  <1>2. stream \in Conn /\ stream \in 1..stream
    BY ONLY <1>1, stream # 0, Bounds DEF Conn
  <1> QED
    BY <1>1, <1>2

\* A request that moves nobody.
LEMMA CalmStays ==
    ASSUME Types, Counts, NEW k \in Conn, NEW kinds, Takes(k, kinds),
           NEW m, m = Head(req[k]), m.kind \in {"a", "p", "l", "q"}, Extends(resp', resp),
           UNCHANGED <<up, userCount, users>>,
           NEW id, NEW at, NEW as, Calm(id, at, as), ScreensTrue'
    PROVE  \E at2, as2 : Calm(id, at2, as2)'
  <1>1. /\ up = Server /\ IdsRight(id) /\ IdsGiven(id) /\ IdKnown(id) /\ Placed(id, at, as)
        /\ Leads(at, as) /\ LeftQuiet /\ TurnedOver /\ BystandersStay
    BY DEF Calm
  <1>2. at \in [Conn -> Groups] /\ as \in [Conn -> Names]
    BY <1>1 DEF Placed
  <1>3. IdsRight(id)' /\ IdsGiven(id)' /\ IdKnown(id)' /\ LeftQuiet'
    BY <1>1, TakeIds
  <1>4. PICK at2, as2 : at2 = [at EXCEPT ![k] = GroupAfter(m)] /\ as2 = [as EXCEPT ![k] = m.name]
    OBVIOUS
  <1>5. /\ at[k] = GroupBefore(m)
        /\ m.name = as[k]
        /\ at2 \in [Conn -> Groups] /\ as2 \in [Conn -> Names]
        /\ at2[k] = GroupAfter(m) /\ as2[k] = m.name
        /\ \A l \in Conn : l # k => at2[l] = at[l] /\ as2[l] = as[l]
        /\ Leads(at2, as2)'
    <2>1. Led(k, m, at, as, at2, as2)
      BY <1>1, <1>2, <1>4, TakeLeads
    <2> QED
      BY <2>1 DEF Led
  <1>6. /\ at2[k] = at[k] /\ as2[k] = as[k]
        /\ \A l \in Conn : at2[l] = at[l] /\ as2[l] = as[l]
    BY <1>5 DEF GroupBefore, GroupAfter
  <1>7. UNCHANGED <<stream, server>>
    BY TakesFacts
  <1>8. Placed(id, at2, as2)'
    <2>1. \A s \in Server, g \in Group, i \in Id, l \in Conn :
             users[s][g][i].conn = l
                <=> l <= stream /\ s = server[l] /\ g = at2[l] /\ i = id[l]
      <3> TAKE s \in Server, g \in Group, i \in Id, l \in Conn
      <3>1. users[s][g][i].conn = l
               <=> l <= stream /\ s = server[l] /\ g = at[l] /\ i = id[l]
        BY <1>1 DEF Placed
      <3> QED
        BY <3>1, <1>6
    <2>2. \A l \in Conn, g \in Group, i \in Id :
             l <= stream /\ g = at2[l] /\ i = id[l] => users[server[l]][g][i].name = as2[l]
      <3> TAKE l \in Conn, g \in Group, i \in Id
      <3>1. l <= stream /\ g = at[l] /\ i = id[l] => users[server[l]][g][i].name = as[l]
        <4>1. \A e \in Conn, h \in Group, j \in Id :
                 e <= stream /\ h = at[e] /\ j = id[e] => users[server[e]][h][j].name = as[e]
          BY ONLY <1>1 DEF Placed
        <4> QED
          BY ONLY <4>1, l \in Conn, g \in Group, i \in Id
      <3> QED
        BY <3>1, <1>6
    <2> QED
      BY <2>1, <2>2, <1>5, <1>7 DEF Placed
  <1>9. TurnedOver'
    <2>1. Head(req[k]).kind # "u"
      OBVIOUS
    <2> QED
      BY <2>1, <1>1, TakeTurned
  <1>10. BystandersStay' /\ up' = Server
    BY <1>1 DEF BystandersStay
  <1>11. Calm(id, at2, as2)'
    BY <1>3, <1>5, <1>8, <1>9, <1>10 DEF Calm
  <1> QED
    BY <1>11

\* The page of group g of server s, and the user, whom the server has in group h.
Sent(s, g, h, to, sent) ==
    IF s = server[stream] /\ g = h
    THEN LeavesTrue(sent[stream], msgs'[server[stream]][h], shown', likeMap')
    ELSE sent[stream] = to[stream]

\* Where the client is, when it is in group h of the server it talks to.
Alone(h) == \A t \in Server, f \in Group, j \in Id :
               users[t][f][j].conn = stream => t = server[stream] /\ f = h

LEMMA ScreenSent ==
    ASSUME Types, Types', Counts', UNCHANGED <<stream, server>>, stream # 0,
           NEW h \in Group, NEW i \in Id, users'[server[stream]][h][i].conn = stream,
           Alone(h)',
           NEW s \in Server, NEW g \in Group, NEW to \in [Conn -> Seq(Answers)],
           NEW page, page \in Pages(msgs'[s][g]),
           NEW sent, sent = ToMembers(users'[s][g], page, to)
    PROVE  Sent(s, g, h, to, sent)
  <1>1. stream \in Conn /\ server[stream] \in Server
    BY StreamFacts
  <1>2. PICK l, members, list, sh, lm :
           /\ l = stream /\ members = users'[s][g] /\ list = msgs'[s][g]
           /\ sh = shown' /\ lm = likeMap'
    OBVIOUS
  <1>3. list \in Seq(1..MaxMsgs) /\ Len(list) <= MaxMsgs
    BY <1>2 DEF Types, ServerTypes, Counts
  <1>4. l \in Conn /\ page \in Pages(list) /\ sent = ToMembers(members, page, to)
    BY <1>1, <1>2
  <1>5. Delivered(members, page, to, l, list, sh, lm)
    BY ONLY <1>3, <1>4, to \in [Conn -> Seq(Answers)], PageShown
  <1>6. (\E j \in Id : members[j].conn = l) <=> s = server[stream] /\ g = h
    <2>1. \A j \in Id : members[j].conn = l => s = server[stream] /\ g = h
      BY <1>2 DEF Alone
    <2>2. s = server[stream] /\ g = h => members[i].conn = l
      BY <1>2
    <2> QED
      BY <2>1, <2>2
  <1>7. CASE s = server[stream] /\ g = h
    <2>1. LeavesTrue(sent[l], list, sh, lm)
      BY <1>4, <1>5, <1>6, <1>7 DEF Delivered
    <2> QED
      BY <2>1, <1>2, <1>7 DEF Sent
  <1>8. CASE ~(s = server[stream] /\ g = h)
    <2>1. sent[l] = to[l]
      BY <1>4, <1>5, <1>6, <1>8 DEF Delivered
    <2> QED
      BY <2>1, <1>2, <1>8 DEF Sent
  <1> QED
    BY <1>7, <1>8

LEMMA AloneThere ==
    ASSUME Types, NEW id, NEW at, NEW as, Placed(id, at, as), stream # 0,
           NEW h \in Group, NEW i \in Id, users[server[stream]][h][i].conn = stream
    PROVE  Alone(h) /\ h = at[stream] /\ i = id[stream]
  <1>1. stream \in Conn /\ server[stream] \in Server
    BY StreamFacts
  <1> QED
    BY <1>1 DEF Placed, Alone

LEMMA AppendScreens ==
    ASSUME Types, Counts, NEW k \in Conn, AppendMessage(k), ScreensTrue,
           NEW id, NEW at, NEW as, Placed(id, at, as)
    PROVE  ScreensTrue'
  <1>1. PICK s, g : s = server[k] /\ g = Head(req[k]).group
    OBVIOUS
  <1>2. /\ Types' /\ Counts' /\ s \in Server /\ g \in Group
        /\ msgs'[s][g] \in Seq(1..MaxMsgs)
        /\ \A t \in Server, h \in Group : <<t, h>> # <<s, g>> => msgs'[t][h] = msgs[t][h]
        /\ resp' = ToMembers(users[s][g], Latest(msgs'[s][g]), resp)
        /\ UNCHANGED <<users, dirty>>
    BY <1>1, AppendMessageFacts
  <1>3. resp \in [Conn -> Seq(Answers)] /\ UNCHANGED <<stream, server, shown, likeMap>>
    BY TakesFacts DEF AppendMessage
  <1>4. SUFFICES ASSUME stream # 0, NEW h \in Group, NEW i \in Id,
                        users[server[stream]][h][i].conn = stream,
                        dirty[server[stream]][h] = {}
                 PROVE  LeavesTrue(resp'[stream], msgs'[server[stream]][h], shown', likeMap')
    BY <1>2, <1>3 DEF ScreensTrue
  <1>5. server[stream] \in Server /\ Alone(h)
    BY <1>4, StreamFacts, AloneThere
  <1>6. Alone(h)'
    BY <1>2, <1>3, <1>5 DEF Alone
  <1>7. Latest(msgs'[s][g]) \in Pages(msgs'[s][g])
    BY <1>2, ShownPages
  <1>8. Sent(s, g, h, resp, resp')
    BY <1>2, <1>3, <1>4, <1>6, <1>7, ScreenSent
  <1>9. CASE s = server[stream] /\ g = h
    BY <1>8, <1>9 DEF Sent
  <1>10. CASE ~(s = server[stream] /\ g = h)
    <2>1. msgs'[server[stream]][h] = msgs[server[stream]][h] /\ resp'[stream] = resp[stream]
      BY <1>2, <1>5, <1>8, <1>10 DEF Sent
    <2> QED
      BY <1>3, <1>4, <2>1 DEF ScreensTrue
  <1> QED
    BY <1>9, <1>10


\* Where the answers "to" leave a true screen, "sent" do.
Remains(to, sent) ==
    \A l \in Conn : \A list, sh, lm :
        LeavesTrue(to[l], list, sh, lm) => LeavesTrue(sent[l], list, sh, lm)

LEMMA Answered ==
    ASSUME NEW to \in [Conn -> Seq(Answers)], NEW k \in Conn, NEW m \in Answers,
           m.kind \notin {"print", "store"},
           NEW sent, sent = [to EXCEPT ![k] = Append(to[k], m)]
    PROVE  Remains(to, sent)
  <1> SUFFICES ASSUME NEW l \in Conn, NEW list, NEW sh, NEW lm,
                      LeavesTrue(to[l], list, sh, lm)
               PROVE  LeavesTrue(sent[l], list, sh, lm)
    BY DEF Remains
  <1>1. PICK q : q = to[l]
    OBVIOUS
  <1>2. q \in Seq(Answers) /\ LeavesTrue(q, list, sh, lm)
    BY <1>1
  <1>3. LeavesTrue(Append(q, m), list, sh, lm)
    BY <1>2, AnswerLeavesTrue
  <1>4. sent[l] = IF l = k THEN Append(q, m) ELSE q
    BY <1>1
  <1> QED
    BY <1>2, <1>3, <1>4

LEMMA LikeScreens ==
    ASSUME Types, Counts, NEW k \in Conn, LikeMessage(k), ScreensTrue,
           NEW id, NEW at, NEW as, Placed(id, at, as)
    PROVE  ScreensTrue'
  <1>1. PICK s, m : s = server[k] /\ m = Head(req[k])
    OBVIOUS
  <1>2. /\ Types' /\ Counts' /\ s \in Server /\ m.group \in Group
        /\ \/ resp' = ToMembers(users[s][m.group], Latest(msgs[s][m.group]), resp)
           \/ resp' = [resp EXCEPT ![k] = Append(resp[k], [kind |-> "Denial"])]
        /\ [kind |-> "Denial"] \in Answers
        /\ UNCHANGED <<users, msgs, dirty>>
    BY <1>1, LikeMessageFacts
  <1>3. resp \in [Conn -> Seq(Answers)] /\ UNCHANGED <<stream, server, shown, likeMap>>
    BY TakesFacts DEF LikeMessage
  <1>4. SUFFICES ASSUME stream # 0, NEW h \in Group, NEW i \in Id,
                        users[server[stream]][h][i].conn = stream,
                        dirty[server[stream]][h] = {}
                 PROVE  LeavesTrue(resp'[stream], msgs'[server[stream]][h], shown', likeMap')
    BY <1>2, <1>3 DEF ScreensTrue
  <1>5. stream \in Conn /\ server[stream] \in Server /\ Alone(h)
    BY <1>4, StreamFacts, AloneThere
  <1>6. LeavesTrue(resp[stream], msgs[server[stream]][h], shown, likeMap)
    BY <1>4 DEF ScreensTrue
  <1>7. CASE resp' = ToMembers(users[s][m.group], Latest(msgs[s][m.group]), resp)
    <2>1. Alone(h)'
      BY <1>2, <1>3, <1>5 DEF Alone
    <2>2. PICK g : g = m.group
      OBVIOUS
    <2>3. /\ g \in Group /\ Latest(msgs'[s][g]) \in Pages(msgs'[s][g])
          /\ resp' = ToMembers(users'[s][g], Latest(msgs'[s][g]), resp)
      BY <2>2, <1>2, <1>7, ListFacts
    <2>4. Sent(s, g, h, resp, resp')
      BY <1>2, <1>3, <1>4, <2>1, <2>3, ScreenSent
    <2> QED
      BY <2>4, <1>2, <1>3, <1>6 DEF Sent
  <1>8. CASE resp' = [resp EXCEPT ![k] = Append(resp[k], [kind |-> "Denial"])]
    <2>1. PICK a : a = [kind |-> "Denial"]
      OBVIOUS
    <2>2. /\ a \in Answers /\ a.kind \notin {"print", "store"}
          /\ resp' = [resp EXCEPT ![k] = Append(resp[k], a)]
      BY <2>1, <1>2, <1>8
    <2>3. Remains(resp, resp')
      BY <2>2, <1>3, Answered
    <2> QED
      BY <2>3, <1>2, <1>3, <1>5, <1>6 DEF Remains
  <1> QED
    BY <1>2, <1>7, <1>8

LEMMA HistoryScreens ==
    ASSUME Types, Counts, NEW k \in Conn, History(k), ScreensTrue,
           NEW id, NEW at, NEW as, Placed(id, at, as), at[k] = Head(req[k]).group
    PROVE  ScreensTrue'
  <1>1. PICK s, m : s = server[k] /\ m = Head(req[k])
    OBVIOUS
  <1>2. /\ Types' /\ Counts' /\ s \in Server /\ m.group \in Group
        /\ \A l \in Conn : resp'[l] = IF l = k THEN resp[k] \o ShowHistory(msgs[s][m.group])
                                      ELSE resp[l]
        /\ UNCHANGED <<users, msgs, dirty>>
    BY <1>1, HistoryFacts
  <1>3. resp \in [Conn -> Seq(Answers)] /\ UNCHANGED <<stream, server, shown, likeMap>>
    BY TakesFacts DEF History
  <1>4. SUFFICES ASSUME stream # 0, NEW h \in Group, NEW i \in Id,
                        users[server[stream]][h][i].conn = stream,
                        dirty[server[stream]][h] = {}
                 PROVE  LeavesTrue(resp'[stream], msgs'[server[stream]][h], shown', likeMap')
    BY <1>2, <1>3 DEF ScreensTrue
  <1>5. stream \in Conn /\ server[stream] \in Server /\ h = at[stream]
    <2>1. stream \in Conn /\ server[stream] \in Server
      BY <1>4, StreamFacts
    <2> QED
      BY <2>1, <1>4 DEF Placed
  <1>6. LeavesTrue(resp[stream], msgs[server[stream]][h], shown, likeMap)
    BY <1>4 DEF ScreensTrue
  <1>7. CASE stream = k
    <2>1. PICK q, list, page, sh, lm :
             /\ q = resp[k] /\ list = msgs[s][h] /\ page = ShowHistory(list)
             /\ sh = shown /\ lm = likeMap
      OBVIOUS
    <2>2. /\ q \in Seq(Answers) /\ list \in Seq(1..MaxMsgs) /\ Len(list) <= MaxMsgs
          /\ page \in Pages(list)
      BY <2>1, <1>2, <1>3, ListFacts
    <2>3. LeavesTrue(q \o page, list, sh, lm)
      BY <2>2, PageLeavesTrue
    <2>4. h = m.group /\ s = server[stream]
      BY <1>1, <1>5, <1>7
    <2> QED
      BY <2>1, <2>3, <2>4, <1>2, <1>3, <1>5, <1>7
  <1>8. CASE stream # k
    BY <1>2, <1>3, <1>5, <1>6, <1>8
  <1> QED
    BY <1>7, <1>8

LEMMA QuitScreens ==
    ASSUME Types, Counts, NEW k \in Conn, QuitSession(k), ScreensTrue,
           NEW id, NEW at, NEW as, Placed(id, at, as)
    PROVE  ScreensTrue'
  <1>1. PICK s, m : s = server[k] /\ m = Head(req[k])
    OBVIOUS
  <1>2. /\ Types' /\ Counts' /\ s \in Server
        /\ [kind |-> "bye"] \in Answers
        /\ UNCHANGED <<users, msgs, dirty>>
    BY <1>1, QuitFacts
  <1>3. resp \in [Conn -> Seq(Answers)] /\ UNCHANGED <<stream, server, shown, likeMap>>
    BY TakesFacts DEF QuitSession
  <1>4. SUFFICES ASSUME stream # 0, NEW h \in Group, NEW i \in Id,
                        users[server[stream]][h][i].conn = stream,
                        dirty[server[stream]][h] = {}
                 PROVE  LeavesTrue(resp'[stream], msgs'[server[stream]][h], shown', likeMap')
    BY <1>2, <1>3 DEF ScreensTrue
  <1>5. stream \in Conn /\ server[stream] \in Server /\ Alone(h)
    BY <1>4, StreamFacts, AloneThere
  <1>6. LeavesTrue(resp[stream], msgs[server[stream]][h], shown, likeMap)
    BY <1>4 DEF ScreensTrue
  <1>7. PICK shows \in [Conn -> Seq(Answers)] :
           /\ resp' = [shows EXCEPT ![k] = Append(shows[k], [kind |-> "bye"])]
           /\ \/ shows = resp
              \/ /\ m.group \in Group
                 /\ shows = ToMembers(users[s][m.group], Latest(msgs[s][m.group]), resp)
    BY <1>1, QuitFacts
  <1>8. LeavesTrue(shows[stream], msgs[server[stream]][h], shown, likeMap)
    <2>1. CASE shows = resp
      BY <2>1, <1>6
    <2>2. CASE /\ m.group \in Group
               /\ shows = ToMembers(users[s][m.group], Latest(msgs[s][m.group]), resp)
      <3>1. Alone(h)'
        BY <1>2, <1>3, <1>5 DEF Alone
      <3>2. PICK g : g = m.group
        OBVIOUS
      <3>3. /\ g \in Group /\ Latest(msgs'[s][g]) \in Pages(msgs'[s][g])
            /\ shows = ToMembers(users'[s][g], Latest(msgs'[s][g]), resp)
        BY <3>2, <2>2, <1>2, ListFacts
      <3>4. Sent(s, g, h, resp, shows)
        BY <1>2, <1>3, <1>4, <3>1, <3>3, ScreenSent
      <3> QED
        BY <3>4, <1>2, <1>3, <1>6 DEF Sent
    <2> QED
      BY <2>1, <2>2, <1>7
  <1>9. PICK a : a = [kind |-> "bye"]
    OBVIOUS
  <1>10. /\ a \in Answers /\ a.kind \notin {"print", "store"}
         /\ resp' = [shows EXCEPT ![k] = Append(shows[k], a)]
    BY <1>2, <1>7, <1>9
  <1>11. Remains(shows, resp')
    BY <1>10, Answered
  <1> QED
    BY <1>11, <1>2, <1>3, <1>5, <1>8 DEF Remains


LEMMA StaysCalm ==
    ASSUME Types, Counts, NEW k \in Conn,
           AppendMessage(k) \/ LikeMessage(k) \/ History(k) \/ QuitSession(k),
           NEW id, NEW at, NEW as, Calm(id, at, as)
    PROVE  \E at2, as2 : Calm(id, at2, as2)'
  <1>1. /\ Placed(id, at, as) /\ ScreensTrue /\ Leads(at, as)
        /\ at \in [Conn -> Groups] /\ as \in [Conn -> Names]
    BY DEF Calm, Placed
  <1>2. PICK m : m = Head(req[k])
    OBVIOUS
  <1>3. CASE AppendMessage(k)
    <2>1. /\ Takes(k, {"a"}) /\ m.kind \in {"a", "p", "l", "q"} /\ Extends(resp', resp)
          /\ UNCHANGED <<up, userCount, users>>
      BY <1>2, <1>3, AppendMessageFacts DEF AppendMessage, Takes
    <2>2. ScreensTrue'
      BY <1>1, <1>3, AppendScreens
    <2> QED
      BY <2>1, <2>2, <1>2, CalmStays
  <1>4. CASE LikeMessage(k)
    <2>1. /\ Takes(k, {"l"}) /\ m.kind \in {"a", "p", "l", "q"} /\ Extends(resp', resp)
          /\ UNCHANGED <<up, userCount, users>>
      BY <1>2, <1>4, LikeMessageFacts DEF LikeMessage, Takes
    <2>2. ScreensTrue'
      BY <1>1, <1>4, LikeScreens
    <2> QED
      BY <2>1, <2>2, <1>2, CalmStays
  <1>5. CASE History(k)
    <2>1. /\ Takes(k, {"p"}) /\ m.kind = "p" /\ Extends(resp', resp)
          /\ UNCHANGED <<up, userCount, users>>
      BY <1>2, <1>5, HistoryFacts DEF History, Takes
    <2>2. PICK at2, as2 : /\ at2 = [at EXCEPT ![k] = GroupAfter(m)]
                          /\ as2 = [as EXCEPT ![k] = m.name]
      OBVIOUS
    <2>3. Led(k, m, at, as, at2, as2)
      BY <2>1, <2>2, <1>1, <1>2, TakeLeads
    <2>4. at[k] = Head(req[k]).group
      BY <2>1, <2>3, <1>2 DEF Led, GroupBefore
    <2>5. ScreensTrue'
      BY <2>4, <1>1, <1>5, HistoryScreens
    <2> QED
      BY <2>1, <2>5, <1>2, CalmStays
  <1>6. CASE QuitSession(k)
    <2>1. /\ Takes(k, {"q"}) /\ m.kind \in {"a", "p", "l", "q"} /\ Extends(resp', resp)
          /\ UNCHANGED <<up, userCount, users>>
      BY <1>2, <1>6, QuitFacts DEF QuitSession, Takes
    <2>2. ScreensTrue'
      BY <1>1, <1>6, QuitScreens
    <2> QED
      BY <2>1, <2>2, <1>2, CalmStays
  <1> QED
    BY <1>3, <1>4, <1>5, <1>6

\* The entry of the client is new: its id is nobody else's on that server.
LEMMA JoinCalm ==
    ASSUME Types, Counts, NEW k \in Conn, Join(k), NEW id, NEW at, NEW as, Calm(id, at, as)
    PROVE  \E at2, as2 : Calm(id, at2, as2)'
  <1>1. PICK s, m, g : s = server[k] /\ m = Head(req[k]) /\ g = m.group
    OBVIOUS
  <1>2. /\ Types' /\ Counts' /\ m.kind = "j" /\ g \in Group /\ s \in Server
        /\ \A t \in Server, h \in Group, i \in Id :
              users'[t][h][i] = IF t = s /\ h = g /\ i = m.id
                                THEN [conn |-> k, name |-> m.name] ELSE users[t][h][i]
        /\ resp' = ToMembers(users'[s][g], Latest(msgs[s][g]), resp)
        /\ Extends(resp', resp)
        /\ UNCHANGED <<up, userCount, msgs, dirty>>
    BY <1>1, JoinFacts
  <1>3. Takes(k, {"j"}) /\ UNCHANGED <<stream, server, shown, likeMap>>
        /\ resp \in [Conn -> Seq(Answers)]
    BY TakesFacts DEF Join
  <1>4. /\ up = Server /\ IdsRight(id) /\ IdsGiven(id) /\ IdKnown(id) /\ Placed(id, at, as)
        /\ Leads(at, as) /\ LeftQuiet /\ TurnedOver /\ BystandersStay /\ ScreensTrue
        /\ at \in [Conn -> Groups] /\ as \in [Conn -> Names]
    BY DEF Calm, Placed
  <1>5. /\ m.id = id[k] /\ k <= stream /\ id[k] \in Id /\ FirstId[s] < id[k]
        /\ \A l \in Conn : l # k /\ id[l] = id[k] => server[l] # s
    <2>1. /\ m.id = id[k] /\ k <= stream
          /\ m.kind # "u" => /\ id[k] \in Id /\ FirstId[server[k]] < id[k]
                             /\ \A l \in Conn : l # k /\ id[l] = id[k] => server[l] # server[k]
      BY <1>1, <1>3, <1>4, TakeHome
    <2> QED
      BY <2>1, <1>1, <1>2
  <1>6. PICK at2, as2 : at2 = [at EXCEPT ![k] = GroupAfter(m)] /\ as2 = [as EXCEPT ![k] = m.name]
    OBVIOUS
  <1>7. /\ at[k] = NoGroup /\ at2[k] = g /\ as2[k] = m.name
        /\ at2 \in [Conn -> Groups] /\ as2 \in [Conn -> Names]
        /\ \A l \in Conn : l # k => at2[l] = at[l] /\ as2[l] = as[l]
        /\ Leads(at2, as2)'
    <2>1. Led(k, m, at, as, at2, as2)
      BY <1>1, <1>3, <1>4, <1>6, TakeLeads
    <2> QED
      BY <2>1, <1>1, <1>2 DEF Led, GroupBefore, GroupAfter
  <1>8. IdsRight(id)' /\ IdsGiven(id)' /\ IdKnown(id)' /\ LeftQuiet'
    <2>1. Head(req[k]).kind \notin {"u", "change"}
      BY <1>1, <1>2
    <2> QED
      BY <2>1, <1>2, <1>3, <1>4, TakeIds
  <1>9. Placed(id, at2, as2)'
    <2>1. \A t \in Server, h \in Group, i \in Id, l \in Conn :
             users'[t][h][i].conn = l
                <=> l <= stream /\ t = server[l] /\ h = at2[l] /\ i = id[l]
      <3> TAKE t \in Server, h \in Group, i \in Id, l \in Conn
      <3>1. users[t][h][i].conn = l
               <=> l <= stream /\ t = server[l] /\ h = at[l] /\ i = id[l]
        BY <1>4 DEF Placed
      <3>2. CASE t = s /\ h = g /\ i = m.id
        <4>1. users'[t][h][i].conn = k
          BY <3>2, <1>2
        <4> QED
          BY <4>1, <3>2, <1>1, <1>5, <1>7
      <3>3. CASE ~(t = s /\ h = g /\ i = m.id)
        <4>1. users'[t][h][i] = users[t][h][i]
          BY <3>3, <1>2
        <4>2. CASE l = k
          <5>1. h # at[k]
            BY <1>7, NoGroupAssumption
          <5> QED
            BY <4>1, <4>2, <5>1, <3>1, <3>3, <1>1, <1>5, <1>7
        <4>3. CASE l # k
          BY <4>1, <4>3, <3>1, <1>7
        <4> QED
          BY <4>2, <4>3
      <3> QED
        BY <3>2, <3>3
    <2>2. \A l \in Conn, h \in Group, i \in Id :
             l <= stream /\ h = at2[l] /\ i = id[l] => users'[server[l]][h][i].name = as2[l]
      <3> TAKE l \in Conn, h \in Group, i \in Id
      <3> HAVE l <= stream /\ h = at2[l] /\ i = id[l]
      <3>1. server[l] \in Server
        BY DEF Types, LinkTypes, Conn
      <3>2. CASE l = k
        <4>1. users'[s][g][m.id].name = m.name
          BY <1>2, <1>5
        <4> QED
          BY <4>1, <3>2, <1>1, <1>5, <1>7
      <3>3. CASE l # k
        <4>1. users[server[l]][h][i].name = as[l]
          BY <3>3, <1>4, <1>7 DEF Placed
        <4>2. ~(server[l] = s /\ i = m.id)
          BY <3>3, <1>5
        <4>3. users'[server[l]][h][i] = users[server[l]][h][i]
          BY <4>2, <3>1, <1>2
        <4> QED
          BY <4>1, <4>3, <3>3, <1>7
      <3> QED
        BY <3>2, <3>3
    <2> QED
      BY <2>1, <2>2, <1>3, <1>7 DEF Placed
  <1>10. TurnedOver'
    <2>1. \A t \in Server, h \in Group, i \in Id :
             users'[t][h][i].conn \in {users[t][h][i].conn, k, 0}
      BY <1>2
    <2>2. Head(req[k]).kind # "u"
      BY <1>1, <1>2
    <2> QED
      BY <2>1, <2>2, <1>3, <1>4, TakeTurned
  <1>11. BystandersStay'
    <2>1. \A t \in Server : FirstId[t] \in Id
      BY Bounds
    <2>2. \A t \in Server : t = s => FirstId[t] # m.id
      BY <2>1, <1>2, <1>5, Bounds
    <2>3. \A t \in Server, h \in Group : users'[t][h][FirstId[t]] = users[t][h][FirstId[t]]
      BY <2>1, <2>2, <1>2
    <2> QED
      BY <2>3, <1>4 DEF BystandersStay
  <1>12. ScreensTrue'
    <2> SUFFICES ASSUME stream # 0, NEW h \in Group, NEW i \in Id,
                        users'[server[stream]][h][i].conn = stream,
                        dirty'[server[stream]][h] = {}
                 PROVE  LeavesTrue(resp'[stream], msgs'[server[stream]][h], shown', likeMap')
      BY <1>3 DEF ScreensTrue
    <2>1. stream \in Conn /\ server[stream] \in Server
      BY StreamFacts
    <2>2. Alone(h)'
      BY <2>1, <1>3, <1>9 DEF Placed, Alone
    <2>3. /\ Latest(msgs'[s][g]) \in Pages(msgs'[s][g])
          /\ resp' = ToMembers(users'[s][g], Latest(msgs'[s][g]), resp)
      BY <1>2, ListFacts
    <2>4. Sent(s, g, h, resp, resp')
      BY <1>2, <1>3, <2>2, <2>3, ScreenSent
    <2>5. CASE s = server[stream] /\ g = h
      BY <2>4, <2>5 DEF Sent
    <2>6. CASE ~(s = server[stream] /\ g = h)
      <3>1. users[server[stream]][h][i].conn = stream
        BY <2>1, <2>6, <1>2
      <3>2. LeavesTrue(resp[stream], msgs[server[stream]][h], shown, likeMap)
        BY <3>1, <1>2, <1>4 DEF ScreensTrue
      <3> QED
        BY <3>2, <2>4, <2>6, <1>2, <1>3 DEF Sent
    <2> QED
      BY <2>5, <2>6
  <1>13. Calm(id, at2, as2)'
    BY <1>2, <1>4, <1>7, <1>8, <1>9, <1>10, <1>11, <1>12 DEF Calm
  <1> QED
    BY <1>13


\* The entry that moves is that of the client.
LEMMA SwitchCalm ==
    ASSUME Types, Counts, NEW k \in Conn, Switch(k), NEW id, NEW at, NEW as, Calm(id, at, as)
    PROVE  \E at2, as2 : Calm(id, at2, as2)'
  <1>1. PICK s, m, g, new : s = server[k] /\ m = Head(req[k]) /\ g = m.group /\ new = m.new
    OBVIOUS
  <1>2. /\ Types' /\ Counts' /\ m.kind = "s" /\ g \in Group /\ new \in Group /\ s \in Server
        /\ \A t \in Server, h \in Group, i \in Id :
              /\ t = s /\ h = new /\ i = m.id => users'[t][h][i] = users[s][g][m.id]
              /\ t = s /\ h = g /\ i = m.id /\ h # new => users'[t][h][i] = NoUser
              /\ ~(t = s /\ h \in {g, new} /\ i = m.id) => users'[t][h][i] = users[t][h][i]
        /\ ToMembers(users'[s][new], Latest(msgs[s][new]), resp) \in [Conn -> Seq(Answers)]
        /\ resp' = ToMembers(users'[s][g], Latest(msgs[s][g]),
                             ToMembers(users'[s][new], Latest(msgs[s][new]), resp))
        /\ Extends(resp', resp)
        /\ UNCHANGED <<up, userCount, msgs, dirty>>
    <2>1. /\ Types' /\ Counts' /\ m.kind = "s" /\ s \in Server
          /\ m.group \in Group /\ m.new \in Group
          /\ \A t \in Server, h \in Group, i \in Id :
                /\ t = s /\ h = m.new /\ i = m.id =>
                      users'[t][h][i] = users[s][m.group][m.id]
                /\ t = s /\ h = m.group /\ i = m.id /\ h # m.new => users'[t][h][i] = NoUser
                /\ ~(t = s /\ h \in {m.group, m.new} /\ i = m.id) =>
                      users'[t][h][i] = users[t][h][i]
          /\ ToMembers(users'[s][m.new], Latest(msgs[s][m.new]), resp)
                \in [Conn -> Seq(Answers)]
          /\ resp' = ToMembers(users'[s][m.group], Latest(msgs[s][m.group]),
                         ToMembers(users'[s][m.new], Latest(msgs[s][m.new]), resp))
          /\ Extends(resp', resp)
          /\ UNCHANGED <<up, userCount, msgs, dirty>>
      <3>1. s = server[k] /\ m = Head(req[k])
        BY <1>1
      <3> QED
        BY ONLY <3>1, Types, Counts, k \in Conn, Switch(k), SwitchFacts
    <2>2. g = m.group /\ new = m.new
      BY <1>1
    <2> QED
      BY ONLY <2>1, <2>2
  <1>3. Takes(k, {"s"}) /\ UNCHANGED <<stream, server, shown, likeMap>>
        /\ resp \in [Conn -> Seq(Answers)]
    BY TakesFacts DEF Switch
  <1>4. /\ up = Server /\ IdsRight(id) /\ IdsGiven(id) /\ IdKnown(id) /\ Placed(id, at, as)
        /\ Leads(at, as) /\ LeftQuiet /\ TurnedOver /\ BystandersStay /\ ScreensTrue
        /\ at \in [Conn -> Groups] /\ as \in [Conn -> Names]
    BY DEF Calm, Placed
  <1>5. /\ m.id = id[k] /\ k <= stream /\ id[k] \in Id /\ FirstId[s] < id[k]
        /\ \A l \in Conn : l # k /\ id[l] = id[k] => server[l] # s
    <2>1. /\ m.id = id[k] /\ k <= stream
          /\ m.kind # "u" => /\ id[k] \in Id /\ FirstId[server[k]] < id[k]
                             /\ \A l \in Conn : l # k /\ id[l] = id[k] => server[l] # server[k]
      BY <1>1, <1>3, <1>4, TakeHome
    <2> QED
      BY <2>1, <1>1, <1>2
  <1>6. PICK at2, as2 : at2 = [at EXCEPT ![k] = GroupAfter(m)] /\ as2 = [as EXCEPT ![k] = m.name]
    OBVIOUS
  <1>7. /\ at[k] = g /\ at2[k] = new /\ as2[k] = as[k]
        /\ at2 \in [Conn -> Groups] /\ as2 \in [Conn -> Names]
        /\ \A l \in Conn : l # k => at2[l] = at[l] /\ as2[l] = as[l]
        /\ Leads(at2, as2)'
    <2>1. Led(k, m, at, as, at2, as2)
      BY <1>1, <1>3, <1>4, <1>6, TakeLeads
    <2> QED
      BY <2>1, <1>1, <1>2 DEF Led, GroupBefore, GroupAfter
  <1>8. IdsRight(id)' /\ IdsGiven(id)' /\ IdKnown(id)' /\ LeftQuiet'
    <2>1. Head(req[k]).kind \notin {"u", "change"}
      BY <1>1, <1>2
    <2> QED
      BY <2>1, <1>2, <1>3, <1>4, TakeIds
  <1>9. /\ m.id \in Id /\ users[s][g][m.id].conn = k /\ users[s][g][m.id].name = as[k]
         /\ NoUser.conn = 0
    <2>1. m.id \in Id /\ k <= stream /\ s = server[k] /\ g = at[k] /\ m.id = id[k]
      BY <1>1, <1>5, <1>7
    <2>2. g \in Group /\ s \in Server /\ Placed(id, at, as)
      BY <1>2, <1>4
    <2>3. users[s][g][m.id].conn = k
      BY ONLY <2>1, <2>2, k \in Conn DEF Placed
    <2>4. \A l \in Conn, h \in Group, i \in Id :
             l <= stream /\ h = at[l] /\ i = id[l] => users[server[l]][h][i].name = as[l]
      BY ONLY <2>2 DEF Placed
    <2>5. users[server[k]][g][m.id].name = as[k]
      BY ONLY <2>1, <2>2, <2>4, k \in Conn
    <2> QED
      BY <2>1, <2>3, <2>5, NoUserTypes
  <1>10. Placed(id, at2, as2)'
    <2>1. \A t \in Server, h \in Group, i \in Id, l \in Conn :
             users'[t][h][i].conn = l
                <=> l <= stream /\ t = server[l] /\ h = at2[l] /\ i = id[l]
      <3> TAKE t \in Server, h \in Group, i \in Id, l \in Conn
      <3>1. users[t][h][i].conn = l
               <=> l <= stream /\ t = server[l] /\ h = at[l] /\ i = id[l]
        BY <1>4 DEF Placed
      <3>2. CASE t = s /\ h = new /\ i = m.id
        <4>1. users'[t][h][i].conn = k
          BY <3>2, <1>2, <1>9
        <4> QED
          BY <4>1, <3>2, <1>1, <1>5, <1>7
      <3>3. CASE t = s /\ h = g /\ i = m.id /\ h # new
        <4>1. users'[t][h][i].conn = 0 /\ l # 0
          BY <3>3, <1>2, <1>9, Bounds
        <4> QED
          BY <4>1, <3>3, <1>1, <1>5, <1>7
      <3>4. CASE ~(t = s /\ h \in {g, new} /\ i = m.id)
        <4>1. users'[t][h][i] = users[t][h][i]
          BY <3>4, <1>2
        <4>2. CASE l = k
          BY <4>1, <4>2, <3>1, <3>4, <1>1, <1>5, <1>7
        <4>3. CASE l # k
          BY <4>1, <4>3, <3>1, <1>7
        <4> QED
          BY <4>2, <4>3
      <3> QED
        BY <3>2, <3>3, <3>4
    <2>2. \A l \in Conn, h \in Group, i \in Id :
             l <= stream /\ h = at2[l] /\ i = id[l] => users'[server[l]][h][i].name = as2[l]
      <3> TAKE l \in Conn, h \in Group, i \in Id
      <3> HAVE l <= stream /\ h = at2[l] /\ i = id[l]
      <3>1. server[l] \in Server
        BY DEF Types, LinkTypes, Conn
      <3>2. CASE l = k
        <4>1. users'[s][new][m.id].name = as[k]
          BY <1>2, <1>9
        <4> QED
          BY <4>1, <3>2, <1>1, <1>5, <1>7
      <3>3. CASE l # k
        <4>1. users[server[l]][h][i].name = as[l]
          BY <3>3, <1>4, <1>7 DEF Placed
        <4>2. ~(server[l] = s /\ i = m.id)
          BY <3>3, <1>5
        <4>3. users'[server[l]][h][i] = users[server[l]][h][i]
          BY <4>2, <3>1, <1>2
        <4> QED
          BY <4>1, <4>3, <3>3, <1>7
      <3> QED
        BY <3>2, <3>3
    <2> QED
      BY <2>1, <2>2, <1>3, <1>7 DEF Placed
  <1>11. TurnedOver'
    <2>1. \A t \in Server, h \in Group, i \in Id :
             users'[t][h][i].conn \in {users[t][h][i].conn, k, 0}
      BY <1>2, <1>9
    <2>2. Head(req[k]).kind # "u"
      BY <1>1, <1>2
    <2> QED
      BY <2>1, <2>2, <1>3, <1>4, TakeTurned
  <1>12. BystandersStay'
    <2>1. \A t \in Server : FirstId[t] \in Id
      BY Bounds
    <2>2. \A t \in Server : t = s => FirstId[t] # m.id
      BY <2>1, <1>2, <1>5, Bounds
    <2>3. \A t \in Server, h \in Group : users'[t][h][FirstId[t]] = users[t][h][FirstId[t]]
      BY <2>1, <2>2, <1>2
    <2> QED
      BY <2>3, <1>4 DEF BystandersStay
  <1>13. ScreensTrue'
    <2> SUFFICES ASSUME stream # 0, NEW h \in Group, NEW i \in Id,
                        users'[server[stream]][h][i].conn = stream,
                        dirty'[server[stream]][h] = {}
                 PROVE  LeavesTrue(resp'[stream], msgs'[server[stream]][h], shown', likeMap')
      BY <1>3 DEF ScreensTrue
    <2>1. stream \in Conn /\ server[stream] \in Server
      BY StreamFacts
    <2>2. Alone(h)'
      BY <2>1, <1>3, <1>10 DEF Placed, Alone
    <2>3. PICK mid : mid = ToMembers(users'[s][new], Latest(msgs'[s][new]), resp)
      OBVIOUS
    <2>4. /\ Latest(msgs'[s][g]) \in Pages(msgs'[s][g])
          /\ Latest(msgs'[s][new]) \in Pages(msgs'[s][new])
          /\ mid \in [Conn -> Seq(Answers)]
          /\ resp' = ToMembers(users'[s][g], Latest(msgs'[s][g]), mid)
      BY <2>3, <1>2, ListFacts
    <2>5. Sent(s, new, h, resp, mid)
      BY <1>2, <1>3, <2>2, <2>3, <2>4, ScreenSent
    <2>6. Sent(s, g, h, mid, resp')
      BY <1>2, <1>3, <2>2, <2>3, <2>4, ScreenSent
    <2>7. CASE s = server[stream] /\ h \in {g, new}
      BY <2>5, <2>6, <2>7 DEF Sent
    <2>8. CASE ~(s = server[stream] /\ h \in {g, new})
      <3>1. users[server[stream]][h][i].conn = stream
        BY <2>1, <2>8, <1>2
      <3>2. LeavesTrue(resp[stream], msgs[server[stream]][h], shown, likeMap)
        BY <3>1, <1>2, <1>4 DEF ScreensTrue
      <3>3. resp'[stream] = resp[stream]
        BY <2>5, <2>6, <2>8 DEF Sent
      <3> QED
        BY <3>2, <3>3, <1>2, <1>3
    <2> QED
      BY <2>7, <2>8
  <1>14. Calm(id, at2, as2)'
    BY <1>2, <1>4, <1>7, <1>8, <1>10, <1>11, <1>12, <1>13 DEF Calm
  <1> QED
    BY <1>14

\* The entry keeps its place, under the new name.
LEMMA ChangeCalm ==
    ASSUME Types, Counts, NEW k \in Conn, ChangeIdentity(k),
           NEW id, NEW at, NEW as, Calm(id, at, as)
    PROVE  \E at2, as2 : Calm(id, at2, as2)'
  <1>1. PICK s, m, g, mid : /\ s = server[k] /\ m = Head(req[k]) /\ g = m.group
                            /\ mid = [resp EXCEPT ![k] = Append(resp[k], Login(m.id))]
    OBVIOUS
  <1>2. /\ Types' /\ Counts' /\ m.kind = "change" /\ m.id \in Id /\ s \in Server
        /\ g = NoGroup => users' = users /\ resp' = mid
        /\ g # NoGroup =>
              /\ g \in Group
              /\ \A t \in Server, h \in Group, i \in Id :
                    /\ users'[t][h][i].conn = users[t][h][i].conn
                    /\ users'[t][h][i].name = IF t = s /\ h = g /\ i = m.id THEN m.name
                                              ELSE users[t][h][i].name
              /\ resp' = ToMembers(users'[s][g], Latest(msgs[s][g]), mid)
        /\ Login(m.id) \in Answers
        /\ Extends(resp', mid) /\ mid \in [Conn -> Seq(Answers)]
        /\ UNCHANGED <<up, userCount, msgs, dirty>>
    <2>1. /\ Types' /\ Counts' /\ m.kind = "change" /\ m.id \in Id /\ s \in Server
          /\ m.group = NoGroup => users' = users
          /\ m.group # NoGroup =>
                /\ m.group \in Group
                /\ \A t \in Server, h \in Group, i \in Id :
                      /\ users'[t][h][i].conn = users[t][h][i].conn
                      /\ users'[t][h][i].name =
                            IF t = s /\ h = m.group /\ i = m.id THEN m.name
                            ELSE users[t][h][i].name
                /\ resp' = ToMembers(users'[s][m.group], Latest(msgs[s][m.group]),
                                     [resp EXCEPT ![k] = Append(resp[k], Login(m.id))])
          /\ m.group = NoGroup => resp' = [resp EXCEPT ![k] = Append(resp[k], Login(m.id))]
          /\ Login(m.id) \in Answers
          /\ Extends(resp', [resp EXCEPT ![k] = Append(resp[k], Login(m.id))])
          /\ [resp EXCEPT ![k] = Append(resp[k], Login(m.id))] \in [Conn -> Seq(Answers)]
          /\ UNCHANGED <<up, userCount, msgs, dirty>>
      <3>1. s = server[k] /\ m = Head(req[k])
        BY <1>1
      <3> QED
        BY ONLY <3>1, Types, Counts, k \in Conn, ChangeIdentity(k), ChangeIdentityFacts
    <2>2. PICK grp : grp = m.group
      OBVIOUS
    <2>3. g = grp /\ mid = [resp EXCEPT ![k] = Append(resp[k], Login(m.id))]
      BY <1>1, <2>2
    <2> QED
      BY ONLY <2>1, <2>2, <2>3
  <1>3. Takes(k, {"change"}) /\ UNCHANGED <<stream, server, shown, likeMap>>
        /\ resp \in [Conn -> Seq(Answers)]
    BY TakesFacts DEF ChangeIdentity
  <1>4. /\ up = Server /\ IdsRight(id) /\ IdsGiven(id) /\ IdKnown(id) /\ Placed(id, at, as)
        /\ Leads(at, as) /\ LeftQuiet /\ TurnedOver /\ BystandersStay /\ ScreensTrue
        /\ at \in [Conn -> Groups] /\ as \in [Conn -> Names]
    BY DEF Calm, Placed
  <1>5. /\ m.id = id[k] /\ k <= stream /\ id[k] \in Id /\ FirstId[s] < id[k]
        /\ \A l \in Conn : l # k /\ id[l] = id[k] => server[l] # s
    <2>1. /\ m.id = id[k] /\ k <= stream
          /\ m.kind # "u" => /\ id[k] \in Id /\ FirstId[server[k]] < id[k]
                             /\ \A l \in Conn : l # k /\ id[l] = id[k] => server[l] # server[k]
      BY <1>1, <1>3, <1>4, TakeHome
    <2> QED
      BY <2>1, <1>1, <1>2
  <1>6. PICK at2, as2 : at2 = [at EXCEPT ![k] = GroupAfter(m)] /\ as2 = [as EXCEPT ![k] = m.name]
    OBVIOUS
  <1>7. /\ at[k] = g /\ as2[k] = m.name
        /\ at2 \in [Conn -> Groups] /\ as2 \in [Conn -> Names]
        /\ \A l \in Conn : at2[l] = at[l]
        /\ \A l \in Conn : l # k => as2[l] = as[l]
        /\ Leads(at2, as2)'
    <2>1. Led(k, m, at, as, at2, as2)
      BY <1>1, <1>3, <1>4, <1>6, TakeLeads
    <2> QED
      <3>1. GroupBefore(m) = g /\ GroupAfter(m) = g
        BY <1>1, <1>2 DEF GroupBefore, GroupAfter
      <3>2. at[k] = g /\ at2[k] = g /\ \A l \in Conn : l # k => at2[l] = at[l]
        BY <2>1, <3>1 DEF Led
      <3> QED
        BY <2>1, <3>2 DEF Led
  <1>8. IdsRight(id)' /\ IdsGiven(id)' /\ IdKnown(id)' /\ LeftQuiet'
    BY <1>1, <1>2, <1>3, <1>4, TakeChangeIds
  <1>9. \A t \in Server, h \in Group, i \in Id :
           /\ users'[t][h][i].conn = users[t][h][i].conn
           /\ users'[t][h][i].name = IF t = s /\ h = g /\ i = m.id THEN m.name
                                     ELSE users[t][h][i].name
    BY <1>2, NoGroupAssumption
  <1>10. Placed(id, at2, as2)'
    <2>1. \A t \in Server, h \in Group, i \in Id, l \in Conn :
             users'[t][h][i].conn = l
                <=> l <= stream /\ t = server[l] /\ h = at2[l] /\ i = id[l]
      <3> TAKE t \in Server, h \in Group, i \in Id, l \in Conn
      <3>1. users[t][h][i].conn = l
               <=> l <= stream /\ t = server[l] /\ h = at[l] /\ i = id[l]
        BY <1>4 DEF Placed
      <3> QED
        BY <3>1, <1>7, <1>9
    <2>2. \A l \in Conn, h \in Group, i \in Id :
             l <= stream /\ h = at2[l] /\ i = id[l] => users'[server[l]][h][i].name = as2[l]
      <3> TAKE l \in Conn, h \in Group, i \in Id
      <3> HAVE l <= stream /\ h = at2[l] /\ i = id[l]
      <3>1. server[l] \in Server
        BY DEF Types, LinkTypes, Conn
      <3>2. CASE l = k
        <4>1. server[l] = s /\ h = g /\ i = m.id
          BY <3>2, <1>1, <1>5, <1>7
        <4> QED
          BY <4>1, <3>1, <3>2, <1>7, <1>9
      <3>3. CASE l # k
        <4>1. h = at[l] /\ l <= stream /\ i = id[l] /\ as2[l] = as[l] /\ Placed(id, at, as)
          BY <3>3, <1>4, <1>7
        <4>2. users[server[l]][h][i].name = as[l]
          <5>1. \A e \in Conn, f \in Group, j \in Id :
                   e <= stream /\ f = at[e] /\ j = id[e] => users[server[e]][f][j].name = as[e]
            BY ONLY <4>1 DEF Placed
          <5> QED
            BY ONLY <4>1, <5>1, l \in Conn, h \in Group, i \in Id
        <4>3. ~(server[l] = s /\ i = m.id)
          BY <4>1, <3>3, <1>5
        <4>4. users'[server[l]][h][i].name = users[server[l]][h][i].name
          BY ONLY <4>3, <3>1, <1>9, h \in Group, i \in Id
        <4> QED
          BY ONLY <4>1, <4>2, <4>4
      <3> QED
        BY <3>2, <3>3
    <2> QED
      BY <2>1, <2>2, <1>3, <1>7 DEF Placed
  <1>11. TurnedOver'
    <2>1. \A t \in Server, h \in Group, i \in Id :
             users'[t][h][i].conn \in {users[t][h][i].conn, k, 0}
      BY <1>9
    <2>2. Head(req[k]).kind # "u"
      BY <1>1, <1>2
    <2> QED
      BY <2>1, <2>2, <1>3, <1>4, TakeTurned
  <1>12. BystandersStay'
    <2> SUFFICES ASSUME NEW t \in Server, NEW h \in Group
                 PROVE  users'[t][h][FirstId[t]] = [conn |-> 0, name |-> Bystander]
      BY DEF BystandersStay
    <2>1. FirstId[t] \in Id /\ FirstId[t] \in Nat
      BY Bounds
    <2>2. ~(t = s /\ FirstId[t] = m.id)
      BY <2>1, <1>2, <1>5, Bounds
    <2>3. users[t][h][FirstId[t]] = [conn |-> 0, name |-> Bystander]
      BY <1>4 DEF BystandersStay
    <2>4. /\ users'[t][h][FirstId[t]].conn = 0
          /\ users'[t][h][FirstId[t]].name = Bystander
      BY <2>1, <2>2, <2>3, <1>9
    <2>5. PICK e : e = users'[t][h][FirstId[t]]
      OBVIOUS
    <2>6. e \in Entry
      <3>1. users' \in [Server -> [Group -> [Id -> Entry]]]
        BY ONLY <1>2 DEF Types, ServerTypes
      <3> QED
        BY ONLY <3>1, <2>1, <2>5, t \in Server, h \in Group
    <2> QED
      BY <2>4, <2>5, <2>6 DEF Entry
  <1>13. ScreensTrue'
    <2> SUFFICES ASSUME stream # 0, NEW h \in Group, NEW i \in Id,
                        users'[server[stream]][h][i].conn = stream,
                        dirty'[server[stream]][h] = {}
                 PROVE  LeavesTrue(resp'[stream], msgs'[server[stream]][h], shown', likeMap')
      BY <1>3 DEF ScreensTrue
    <2>1. stream \in Conn /\ server[stream] \in Server
      BY StreamFacts
    <2>2. users[server[stream]][h][i].conn = stream
      BY <2>1, <1>9
    <2>3. LeavesTrue(resp[stream], msgs[server[stream]][h], shown, likeMap)
      BY <2>2, <1>2, <1>4 DEF ScreensTrue
    <2>4. PICK a : a = Login(m.id)
      OBVIOUS
    <2>5. /\ a \in Answers /\ a.kind \notin {"print", "store"}
          /\ mid = [resp EXCEPT ![k] = Append(resp[k], a)]
      BY <2>4, <1>1, <1>2 DEF Login
    <2>6. Remains(resp, mid)
      BY <2>5, <1>3, Answered
    <2>7. LeavesTrue(mid[stream], msgs'[server[stream]][h], shown', likeMap')
      BY <2>1, <2>3, <2>6, <1>2, <1>3 DEF Remains
    <2>8. CASE g = NoGroup
      BY <2>7, <2>8, <1>2
    <2>9. CASE g # NoGroup
      <3>1. Alone(h)'
        BY <2>1, <1>3, <1>10 DEF Placed, Alone
      <3>2. /\ g \in Group /\ Latest(msgs'[s][g]) \in Pages(msgs'[s][g])
            /\ resp' = ToMembers(users'[s][g], Latest(msgs'[s][g]), mid)
        BY <2>9, <1>2, ListFacts
      <3>3. Sent(s, g, h, mid, resp')
        BY <1>2, <1>3, <3>1, <3>2, ScreenSent
      <3> QED
        BY <3>3, <2>7 DEF Sent
    <2> QED
      BY <2>8, <2>9
  <1>14. Calm(id, at2, as2)'
    BY <1>2, <1>4, <1>7, <1>8, <1>10, <1>11, <1>12, <1>13 DEF Calm
  <1> QED
    BY <1>14

\* An entry that a request takes for granted is there.
LEMMA NoneUnknown ==
    ASSUME Types, Counts, NEW k \in Conn, UserUnknown(k), NEW id, NEW at, NEW as,
           Calm(id, at, as)
    PROVE  FALSE
  <1>1. PICK s, m, g : s = server[k] /\ m = Head(req[k]) /\ g = m.group
    OBVIOUS
  <1>2. /\ Takes(k, {"change", "s"}) /\ g # NoGroup /\ users[s][g][m.id] = NoUser
    BY <1>1 DEF UserUnknown, Panics
  <1>3. /\ IdsRight(id) /\ IdsGiven(id) /\ Placed(id, at, as) /\ Leads(at, as)
        /\ at \in [Conn -> Groups] /\ as \in [Conn -> Names]
    BY DEF Calm, Placed
  <1>4. /\ m \in Asks /\ m.kind \in {"change", "s"} /\ m.id = id[k] /\ k <= stream
        /\ s \in Server /\ id[k] \in Id
    <2>1. /\ m \in Asks /\ m.kind \in {"change", "s"} /\ m.id = id[k]
          /\ k <= stream /\ server[k] \in Server /\ (m.kind # "u" => id[k] \in Id)
      BY <1>1, <1>2, <1>3, TakeHome
    <2> QED
      BY <2>1, <1>1
  <1>5. PICK at2, as2 : at2 = [at EXCEPT ![k] = GroupAfter(m)] /\ as2 = [as EXCEPT ![k] = m.name]
    OBVIOUS
  <1>6. Led(k, m, at, as, at2, as2)
    BY <1>1, <1>2, <1>3, <1>5, TakeLeads
  <1>7. at[k] = g /\ g \in Group
    BY <1>1, <1>2, <1>3, <1>4, <1>6 DEF Led, GroupBefore, Groups
  <1>8. users[s][g][m.id].conn = k
    BY ONLY <1>1, <1>3, <1>4, <1>7, k \in Conn DEF Placed
  <1> QED
    BY <1>2, <1>8, Bounds, NoUserTypes


\* The first login on a stream is its only request, and nobody's entry yet.
LEMMA LoginCalm ==
    ASSUME Types, Counts, NEW k \in Conn, UserLogin(k), NEW id, NEW at, NEW as,
           Calm(id, at, as)
    PROVE  \E id2, at2, as2 : Calm(id2, at2, as2)'
  <1>1. PICK s, m, new : s = server[k] /\ m = Head(req[k]) /\ new = userCount[s] + 1
    OBVIOUS
  <1>2. /\ Types' /\ new \in Id /\ Takes(k, {"u"})
        /\ userCount' = [userCount EXCEPT ![s] = new]
        /\ resp' = [resp EXCEPT ![k] = Append(resp[k], Login(new))]
        /\ Login(new) \in Answers
        /\ UNCHANGED <<up, users, msgs, dirty>>
    BY <1>1, UserLoginTypes DEF UserLogin
  <1>3. /\ UNCHANGED <<user_id, currentgroup, stream, main, server, shown, likeMap, reading>>
        /\ resp \in [Conn -> Seq(Answers)] /\ k \in 1..stream
    BY <1>2, TakesFacts
  <1>4. /\ up = Server /\ IdsRight(id) /\ IdsGiven(id) /\ IdKnown(id) /\ Placed(id, at, as)
        /\ Leads(at, as) /\ LeftQuiet /\ TurnedOver /\ BystandersStay /\ ScreensTrue
        /\ at \in [Conn -> Groups] /\ as \in [Conn -> Names] /\ id \in [Conn -> Id \cup {NoId}]
    BY DEF Calm, Placed, IdsRight
  <1>5. m \in Asks /\ m.kind = "u" /\ m.id = id[k] /\ s \in Server
    <2>1. m \in Asks /\ m.kind \in {"u"} /\ m.id = id[k] /\ server[k] \in Server
      BY <1>1, <1>2, <1>4, TakeHome
    <2> QED
      BY <2>1, <1>1
  <1>6. id[k] = NoId /\ m.group = NoGroup
    BY <1>5, AskTypes
  <1>7. PICK at2, as2 : at2 = [at EXCEPT ![k] = GroupAfter(m)] /\ as2 = [as EXCEPT ![k] = m.name]
    OBVIOUS
  <1>8. /\ at[k] = NoGroup
        /\ at2 \in [Conn -> Groups] /\ as2 \in [Conn -> Names]
        /\ \A l \in Conn : at2[l] = at[l]
        /\ \A l \in Conn : l # k => as2[l] = as[l]
        /\ Leads(at2, as2)'
    <2>1. Led(k, m, at, as, at2, as2)
      BY <1>1, <1>2, <1>4, <1>7, TakeLeads
    <2>2. GroupBefore(m) = NoGroup /\ GroupAfter(m) = NoGroup
      BY <1>5, <1>6 DEF GroupBefore, GroupAfter
    <2>3. at[k] = NoGroup /\ at2[k] = NoGroup /\ \A l \in Conn : l # k => at2[l] = at[l]
      BY <2>1, <2>2 DEF Led
    <2> QED
      BY <2>1, <2>3 DEF Led
  <1>9. \A l \in Conn :
           /\ l # k => req'[l] = req[l] /\ resp'[l] = resp[l]
           /\ \A j \in DOMAIN req'[l] : \E i \in DOMAIN req[l] : req'[l][j] = req[l][i]
    BY <1>2, <1>3, TakeReqs
  <1>10. 1 \in DOMAIN req[k] /\ m = req[k][1] /\ DOMAIN req'[k] = {}
    <2>1. 1 \in DOMAIN req[k] /\ m = req[k][1] /\ (Len(req[k]) = 1 => DOMAIN req'[k] = {})
      BY <1>1, <1>2, TakeReqs
    <2>2. Len(req[k]) = 1
      BY <2>1, <1>4, <1>5 DEF IdsRight
    <2> QED
      BY <2>1, <2>2
  <1>11. /\ Len(resp[k]) \in Nat /\ DOMAIN resp[k] = 1..Len(resp[k])
         /\ DOMAIN resp'[k] = 1..(Len(resp[k]) + 1)
         /\ resp'[k][Len(resp[k]) + 1] = Login(new)
         /\ \A j \in 1..Len(resp[k]) : resp'[k][j] = resp[k][j] /\ resp[k][j] \in Answers
    <2>1. PICK q : q = resp[k]
      OBVIOUS
    <2>2. q \in Seq(Answers) /\ resp'[k] = Append(q, Login(new))
      BY <2>1, <1>2, <1>3
    <2>3. /\ Len(q) \in Nat /\ DOMAIN q = 1..Len(q)
          /\ DOMAIN Append(q, Login(new)) = 1..(Len(q) + 1)
          /\ Append(q, Login(new))[Len(q) + 1] = Login(new)
          /\ \A j \in 1..Len(q) : Append(q, Login(new))[j] = q[j] /\ q[j] \in Answers
      BY <2>2, <1>2, AppendFacts, ElementFacts
    <2> QED
      BY <2>1, <2>2, <2>3
  <1>12. k = stream /\ main # "connecting"
    BY <1>4, <1>5, <1>10 DEF LeftQuiet, NoLogin, IsLogin
  <1>13. user_id = NoId
    BY <1>4, <1>6, <1>12 DEF IdKnown
  <1>14. PICK id2 : id2 = [id EXCEPT ![k] = new]
    OBVIOUS
  <1>15. /\ id2 \in [Conn -> Id \cup {NoId}] /\ id2[k] = new
         /\ \A l \in Conn : l # k => id2[l] = id[l]
    BY <1>2, <1>4, <1>14
  <1>16. IdsRight(id2)'
    <2>1. \A l \in Conn : \A j \in DOMAIN req'[l] :
             /\ req'[l][j].id = id2[l]
             /\ req'[l][j].kind = "u" => Len(req'[l]) = 1
      <3> TAKE l \in Conn
      <3>1. CASE l = k
        BY <3>1, <1>10
      <3>2. CASE l # k
        BY <3>2, <1>4, <1>9, <1>15 DEF IdsRight
      <3> QED
        BY <3>1, <3>2
    <2>2. \A l \in Conn : \A j \in DOMAIN resp'[l] :
             resp'[l][j].kind = "login" => resp'[l][j].id = id2[l]
      <3> TAKE l \in Conn
      <3> TAKE j \in DOMAIN resp'[l]
      <3> HAVE resp'[l][j].kind = "login"
      <3>1. CASE l = k /\ j = Len(resp[k]) + 1
        BY <3>1, <1>11, <1>15 DEF Login
      <3>2. CASE l = k /\ j # Len(resp[k]) + 1
        <4>1. j \in 1..Len(resp[k]) /\ j \in DOMAIN resp[k]
          BY <3>2, <1>11
        <4>2. resp[k][j].kind = "login" /\ resp[k][j] \in Answers
          BY <4>1, <3>2, <1>11
        <4>3. resp[k][j].id = NoId
          BY <4>1, <4>2, <1>4, <1>6 DEF IdsRight
        <4> QED
          BY <4>2, <4>3, AnswerTypes, Bounds
      <3>3. CASE l # k
        BY <3>3, <1>4, <1>9, <1>15 DEF IdsRight
      <3> QED
        BY <3>1, <3>2, <3>3
    <2> QED
      BY <2>1, <2>2, <1>15 DEF IdsRight
  <1>17. /\ userCount \in [Server -> Nat] /\ new \in Nat /\ userCount'[s] = new
         /\ FirstId[s] \in Nat /\ FirstId[s] < new
         /\ \A t \in Server : t # s => userCount'[t] = userCount[t]
    <2>1. userCount \in [Server -> Nat] /\ FirstId[s] \in Nat /\ FirstId[s] <= userCount[s]
      BY <1>5, Bounds DEF Types, ServerTypes, Counts
    <2>2. userCount[s] \in Nat
      BY <2>1, <1>5
    <2>3. new \in Nat /\ FirstId[s] < new
      BY <2>1, <2>2, <1>1
    <2> QED
      BY <2>1, <2>3, <1>2, <1>5
  <1>18. IdsGiven(id2)'
    <2>1. \A l \in Conn : l # k /\ id[l] # NoId =>
             /\ l <= stream /\ server[l] \in Server
             /\ FirstId[server[l]] < id[l]
             /\ id[l] <= userCount[server[l]]
             /\ id[l] \in Nat
      <3> TAKE l \in Conn
      <3> HAVE l # k /\ id[l] # NoId
      <3>1. /\ l <= stream /\ FirstId[server[l]] < id[l] /\ id[l] <= userCount[server[l]]
        BY <1>4 DEF IdsGiven
      <3>2. id[l] \in Nat
        BY <1>4, Bounds
      <3>3. l \in 1..stream
        <4>1. stream \in Nat /\ l \in Nat /\ 1 <= l
          BY Bounds DEF Types, ClientTypes
        <4> QED
          BY ONLY <4>1, <3>1
      <3>4. server[l] \in Server
        BY <3>3 DEF Types, LinkTypes
      <3> QED
        BY <3>1, <3>2, <3>4
    <2>2. \A l \in Conn : l # k /\ id[l] # NoId => server[l] # s \/ id[l] < new
      <3> TAKE l \in Conn
      <3> HAVE l # k /\ id[l] # NoId
      <3> SUFFICES ASSUME server[l] = s
                   PROVE  id[l] < new
        OBVIOUS
      <3>1. id[l] \in Nat /\ id[l] <= userCount[s] /\ userCount[s] \in Nat
        BY <2>1, <1>5, <1>17
      <3> QED
        BY ONLY <3>1, <1>1
    <2>3. \A l \in Conn : l # k /\ id[l] # NoId => id[l] <= userCount'[server[l]]
      <3> TAKE l \in Conn
      <3> HAVE l # k /\ id[l] # NoId
      <3>1. CASE server[l] = s
        <4>1. id[l] < new /\ id[l] \in Nat
          BY <3>1, <2>1, <2>2
        <4> QED
          BY <4>1, <3>1, <1>17
      <3>2. CASE server[l] # s
        BY <3>2, <2>1, <1>17
      <3> QED
        BY <3>1, <3>2
    <2>4. \A l \in Conn : id2[l] # NoId => /\ l <= stream
                                           /\ FirstId[server[l]] < id2[l]
                                           /\ id2[l] <= userCount'[server[l]]
      <3> TAKE l \in Conn
      <3>1. CASE l = k
        BY <3>1, <1>1, <1>3, <1>15, <1>17
      <3>2. CASE l # k
        BY <3>2, <2>1, <2>3, <1>15
      <3> QED
        BY <3>1, <3>2
    <2>5. \A l, n \in Conn : l # n /\ id2[l] # NoId /\ id2[l] = id2[n] => server[l] # server[n]
      <3> TAKE l, n \in Conn
      <3> HAVE l # n /\ id2[l] # NoId /\ id2[l] = id2[n]
      <3>1. CASE l = k
        <4>1. id[n] = new /\ n # k
          BY <3>1, <1>15
        <4>2. server[n] # s \/ id[n] < new
          BY <4>1, <2>2, <1>2, Bounds
        <4> QED
          BY <4>1, <4>2, <3>1, <1>1, <1>17
      <3>2. CASE n = k
        <4>1. id[l] = new /\ l # k
          BY <3>2, <1>15
        <4>2. server[l] # s \/ id[l] < new
          BY <4>1, <2>2, <1>2, Bounds
        <4> QED
          BY <4>1, <4>2, <3>2, <1>1, <1>17
      <3>3. CASE l # k /\ n # k
        BY <3>3, <1>4, <1>15 DEF IdsGiven
      <3> QED
        BY <3>1, <3>2, <3>3
    <2> QED
      BY <2>4, <2>5, <1>3 DEF IdsGiven
  <1>19. IdKnown(id2)'
    <2>1. /\ Len(resp[k]) + 1 \in DOMAIN resp'[k]
          /\ IsLogin(resp'[k][Len(resp[k]) + 1])
      BY <1>11 DEF IsLogin, Login
    <2>2. LoginPending'
      BY <2>1 DEF LoginPending
    <2> QED
      BY <2>2, <1>3, <1>13 DEF IdKnown
  <1>20. \A t \in Server, h \in Group, i \in Id : users[t][h][i].conn # k
    BY <1>4, <1>8, NoGroupAssumption DEF Placed
  <1>21. Placed(id2, at2, as2)'
    <2>1. \A t \in Server, h \in Group, i \in Id, l \in Conn :
             users[t][h][i].conn = l
                <=> l <= stream /\ t = server[l] /\ h = at2[l] /\ i = id2[l]
      <3> TAKE t \in Server, h \in Group, i \in Id, l \in Conn
      <3>1. CASE l = k
        BY <3>1, <1>8, <1>20, NoGroupAssumption
      <3>2. CASE l # k
        <4>1. users[t][h][i].conn = l
                 <=> l <= stream /\ t = server[l] /\ h = at[l] /\ i = id[l]
          BY <1>4 DEF Placed
        <4> QED
          BY <4>1, <3>2, <1>8, <1>15
      <3> QED
        BY <3>1, <3>2
    <2>2. \A l \in Conn, h \in Group, i \in Id :
             l <= stream /\ h = at2[l] /\ i = id2[l] => users[server[l]][h][i].name = as2[l]
      <3> TAKE l \in Conn, h \in Group, i \in Id
      <3>1. CASE l = k
        BY <3>1, <1>8, NoGroupAssumption
      <3>2. CASE l # k
        <4>1. l <= stream /\ h = at[l] /\ i = id[l] => users[server[l]][h][i].name = as[l]
          <5>1. \A e \in Conn, f \in Group, j \in Id :
                   e <= stream /\ f = at[e] /\ j = id[e] => users[server[e]][f][j].name = as[e]
            BY ONLY <1>4 DEF Placed
          <5> QED
            BY ONLY <5>1, l \in Conn, h \in Group, i \in Id
        <4> QED
          BY <4>1, <3>2, <1>8, <1>15
      <3> QED
        BY <3>1, <3>2
    <2> QED
      BY <2>1, <2>2, <1>2, <1>3, <1>8 DEF Placed
  <1>22. LeftQuiet'
    <2>1. \A l \in Conn : l # k /\ NoLogin(l) => NoLogin(l)'
      BY <1>9 DEF NoLogin
    <2> QED
      BY <2>1, <1>3, <1>4, <1>12 DEF LeftQuiet
  <1>23. TurnedOver'
    BY <1>2, <1>3, <1>4, <1>10, <1>12, <1>13 DEF TurnedOver
  <1>24. BystandersStay'
    BY <1>2, <1>4 DEF BystandersStay
  <1>25. ScreensTrue'
    <2>1. stream # 0 => server[stream] \in Server
      BY StreamFacts
    <2> QED
      BY <2>1, <1>2, <1>3, <1>12, <1>20 DEF ScreensTrue
  <1>26. Calm(id2, at2, as2)'
    BY <1>2, <1>4, <1>8, <1>16, <1>18, <1>19, <1>21, <1>22, <1>23, <1>24, <1>25 DEF Calm
  <1> QED
    BY <1>26

LEMMA ServeCalm ==
    ASSUME Types, Counts, NEW k \in Conn, Serve(k), NEW id, NEW at, NEW as, Calm(id, at, as)
    PROVE  \E id2, at2, as2 : Calm(id2, at2, as2)'
  <1>1. CASE UserLogin(k)
    BY <1>1, LoginCalm
  <1>2. CASE ChangeIdentity(k)
    <2>1. \E at2, as2 : Calm(id, at2, as2)'
      BY <1>2, ChangeCalm
    <2> QED
      BY <2>1
  <1>3. CASE Join(k)
    <2>1. \E at2, as2 : Calm(id, at2, as2)'
      BY <1>3, JoinCalm
    <2> QED
      BY <2>1
  <1>4. CASE Switch(k)
    <2>1. \E at2, as2 : Calm(id, at2, as2)'
      BY <1>4, SwitchCalm
    <2> QED
      BY <2>1
  <1>5. CASE UserUnknown(k)
    BY <1>5, NoneUnknown
  <1>6. CASE AppendMessage(k) \/ LikeMessage(k) \/ History(k) \/ QuitSession(k)
    <2>1. \E at2, as2 : Calm(id, at2, as2)'
      BY <1>6, StaysCalm
    <2> QED
      BY <2>1
  <1> QED
    BY <1>1, <1>2, <1>3, <1>4, <1>5, <1>6 DEF Serve


-----------------------------------------------------------------------------
(***************************************************************************)
(* A patient user gives a command.                                         *)
(***************************************************************************)
LEMMA PlacedStays ==
    ASSUME NEW id, NEW at, NEW as, Placed(id, at, as), UNCHANGED <<stream, server, users>>
    PROVE  Placed(id, at, as)'
  <1>1. \A s \in Server, g \in Group, i \in Id, k \in Conn :
           users[s][g][i].conn = k <=> k <= stream /\ s = server[k] /\ g = at[k] /\ i = id[k]
    BY DEF Placed
  <1>2. \A k \in Conn, g \in Group, i \in Id :
           k <= stream /\ g = at[k] /\ i = id[k] => users[server[k]][g][i].name = as[k]
    BY DEF Placed
  <1>3. at \in [Conn -> Groups] /\ as \in [Conn -> Names]
    BY DEF Placed
  <1>4. users' = users /\ stream' = stream /\ server' = server
    OBVIOUS
  <1>5. \A s \in Server, g \in Group, i \in Id, k \in Conn :
           users'[s][g][i].conn = k
              <=> k <= stream' /\ s = server'[k] /\ g = at[k] /\ i = id[k]
    <2> TAKE s \in Server, g \in Group, i \in Id, k \in Conn
    <2>1. users[s][g][i].conn = k <=> k <= stream /\ s = server[k] /\ g = at[k] /\ i = id[k]
      BY <1>1
    <2> QED
      BY ONLY <2>1, <1>4
  <1>6. \A k \in Conn, g \in Group, i \in Id :
           k <= stream' /\ g = at[k] /\ i = id[k] => users'[server'[k]][g][i].name = as[k]
    <2> TAKE k \in Conn, g \in Group, i \in Id
    <2>1. k <= stream /\ g = at[k] /\ i = id[k] => users[server[k]][g][i].name = as[k]
      BY <1>2
    <2> QED
      BY ONLY <2>1, <1>4
  <1> QED
    BY ONLY <1>3, <1>5, <1>6, Zenon DEF Placed

\* At most the loop ends.
LEMMA FrameCalm ==
    ASSUME NEW id, NEW at, NEW as, Calm(id, at, as), main' \in {main, "ended"},
           UNCHANGED <<clientVars, stream, reading, server, req, resp, serverVars>>
    PROVE  Calm(id, at, as)'
  <1>1. /\ up = Server /\ IdsRight(id) /\ IdsGiven(id) /\ IdKnown(id) /\ Placed(id, at, as)
        /\ Leads(at, as) /\ LeftQuiet /\ TurnedOver /\ BystandersStay /\ ScreensTrue
    BY DEF Calm
  <1>2. /\ UNCHANGED <<user_id, username, currentgroup, current_state, likeMap, shown>>
        /\ UNCHANGED <<stream, reading, server, req, resp>>
        /\ UNCHANGED <<up, userCount, users, msgs, dirty>>
    BY DEF clientVars, serverVars
  <1>3. IdsRight(id)' /\ IdsGiven(id)'
    BY <1>1, <1>2 DEF IdsRight, IdsGiven
  <1>4. IdKnown(id)'
    <2>1. LoginPending' = LoginPending
      BY <1>2 DEF LoginPending
    <2> QED
      BY <2>1, <1>1, <1>2 DEF IdKnown
  <1>5. Placed(id, at, as)'
    BY <1>1, <1>2, PlacedStays
  <1>6. Leads(at, as)'
    BY <1>1, <1>2 DEF Leads
  <1>7. LeftQuiet'
    <2>1. \A k \in Conn : NoLogin(k) => NoLogin(k)'
      BY <1>2 DEF NoLogin
    <2> QED
      BY <2>1, <1>1, <1>2 DEF LeftQuiet
  <1>8. TurnedOver' /\ BystandersStay'
    BY <1>1, <1>2 DEF TurnedOver, BystandersStay
  <1>9. ScreensTrue'
    BY <1>1, <1>2 DEF ScreensTrue
  <1> QED
    BY <1>1, <1>2, <1>3, <1>4, <1>5, <1>6, <1>7, <1>8, <1>9 DEF Calm

LEMMA AskCalm ==
    ASSUME Types, NEW r \in Asks, Command(r),
           UNCHANGED <<user_id, likeMap>>, main' \in {"ready", "waiting"},
           NEW id, NEW at, NEW as, Calm(id, at, as),
           user_id = id[stream], r.id = user_id, r.kind = "u" => req[stream] = <<>>,
           GroupBefore(r) = currentgroup,
           r.kind \notin {"u", "change"} => r.name = username,
           currentgroup' = GroupAfter(r), username' = r.name
    PROVE  Calm(id, at, as)'
  <1>1. /\ stream \in Conn /\ stream # 0 /\ main = "ready"
        /\ req' = [req EXCEPT ![stream] = Append(req[stream], r)] /\ req[stream] \in Seq(Asks)
        /\ req \in [Conn -> Seq(Asks)]
        /\ UNCHANGED <<shown, stream, reading, server, resp, serverVars>>
    BY CommandTypes, Bounds DEF Types, LinkTypes, Command
  <1>2. /\ up = Server /\ IdsRight(id) /\ IdsGiven(id) /\ IdKnown(id) /\ Placed(id, at, as)
        /\ Leads(at, as) /\ LeftQuiet /\ TurnedOver /\ BystandersStay /\ ScreensTrue
    BY DEF Calm
  <1>3. PICK q : q = req[stream]
    OBVIOUS
  <1>4. /\ q \in Seq(Asks) /\ Len(q) \in Nat /\ DOMAIN q = 1..Len(q)
        /\ req'[stream] = Append(q, r) /\ Len(Append(q, r)) = Len(q) + 1
        /\ DOMAIN Append(q, r) = 1..(Len(q) + 1)
        /\ Append(q, r)[Len(q) + 1] = r
        /\ \A j \in 1..Len(q) : Append(q, r)[j] = q[j] /\ q[j] \in Asks
        /\ \A l \in Conn : l # stream => req'[l] = req[l]
    <2>1. q \in Seq(Asks)
      BY <1>1, <1>3
    <2>2. /\ Len(q) \in Nat /\ DOMAIN q = 1..Len(q) /\ Len(Append(q, r)) = Len(q) + 1
          /\ DOMAIN Append(q, r) = 1..(Len(q) + 1)
          /\ Append(q, r)[Len(q) + 1] = r
          /\ \A j \in 1..Len(q) : Append(q, r)[j] = q[j] /\ q[j] \in Asks
      BY <2>1, AppendFacts, ElementFacts
    <2> QED
      BY <2>1, <2>2, <1>1, <1>3
  <1>5. \A j \in 1..Len(q) : q[j].kind # "u"
    <2> TAKE j \in 1..Len(q)
    <2> SUFFICES ASSUME q[j].kind = "u"
                 PROVE  FALSE
      OBVIOUS
    <2>1. q[j].id = id[stream]
      BY <1>1, <1>2, <1>3, <1>4 DEF IdsRight
    <2>2. q[j].id = NoId
      BY <1>4, AskTypes
    <2>3. r.kind = "u"
      BY <2>1, <2>2, AskTypes
    <2>4. Len(q) = 0
      BY <2>3, <1>3
    <2> QED
      BY <2>4
  <1>6. IdsRight(id)'
    <2>1. \A l \in Conn : \A j \in DOMAIN req'[l] :
             /\ req'[l][j].id = id[l]
             /\ req'[l][j].kind = "u" => Len(req'[l]) = 1
      <3> TAKE l \in Conn
      <3> TAKE j \in DOMAIN req'[l]
      <3>1. CASE l # stream
        BY <3>1, <1>2, <1>4 DEF IdsRight
      <3>2. CASE l = stream /\ j = Len(q) + 1
        <4>1. req'[l][j] = r
          BY <3>2, <1>4
        <4>2. r.kind = "u" => Len(q) = 0
          BY <1>3
        <4> QED
          BY <4>1, <4>2, <3>2, <1>4
      <3>3. CASE l = stream /\ j # Len(q) + 1
        <4>1. j \in 1..Len(q)
          BY <3>3, <1>4
        <4>2. req'[l][j] = q[j] /\ q[j].id = id[stream]
          BY <4>1, <3>3, <1>1, <1>2, <1>3, <1>4 DEF IdsRight
        <4> QED
          BY <4>1, <4>2, <3>3, <1>5
      <3> QED
        BY <3>1, <3>2, <3>3
    <2> QED
      BY <2>1, <1>1, <1>2 DEF IdsRight
  <1>7. IdsGiven(id)' /\ Placed(id, at, as)'
    <2>1. UNCHANGED <<stream, server, userCount, users>>
      BY <1>1 DEF serverVars
    <2>2. IdsGiven(id)'
      BY <2>1, <1>2 DEF IdsGiven
    <2>3. Placed(id, at, as)'
      BY <2>1, <1>2, PlacedStays
    <2> QED
      BY <2>2, <2>3
  <1>8. IdKnown(id)'
    BY <1>1, <1>2 DEF IdKnown
  <1>9. Leads(at, as)'
    <2>1. PICK g, n : g = at[stream] /\ n = as[stream]
      OBVIOUS
    <2>2. Chained(q, g, n) /\ currentgroup = GroupAt(q, g, Len(q)) /\ username = NameAt(q, n, Len(q))
      BY <2>1, <1>1, <1>2, <1>3 DEF Leads
    <2>3. /\ Chained(Append(q, r), g, n)
          /\ GroupAt(Append(q, r), g, Len(Append(q, r))) = GroupAfter(r)
          /\ NameAt(Append(q, r), n, Len(Append(q, r))) = r.name
      <3>1. /\ GroupBefore(r) = GroupAt(q, g, Len(q))
            /\ r.kind \notin {"u", "change"} => r.name = NameAt(q, n, Len(q))
        BY <2>2, <1>4
      <3> QED
        BY ONLY <3>1, <2>2, <1>4, r \in Asks, ChainAppend
    <2>4. \A l \in Conn : Chained(req'[l], at[l], as[l])
      <3> TAKE l \in Conn
      <3>1. CASE l = stream
        BY <3>1, <2>1, <2>3, <1>4
      <3>2. CASE l # stream
        BY <3>2, <1>2, <1>4 DEF Leads
      <3> QED
        BY <3>1, <3>2
    <2> QED
      BY <2>1, <2>3, <2>4, <1>1, <1>4 DEF Leads
  <1>10. LeftQuiet'
    <2>1. \A l \in Conn : l # stream /\ NoLogin(l) => NoLogin(l)'
      BY <1>1, <1>4 DEF NoLogin
    <2> QED
      BY <2>1, <1>1, <1>2 DEF LeftQuiet
  <1>11. TurnedOver'
    <2> SUFFICES ASSUME reading \notin {0, stream}
                 PROVE  /\ user_id = NoId
                        /\ \A j \in DOMAIN req'[stream] : req'[stream][j].kind = "u"
                        /\ \A s \in Server, g \in Group, i \in Id :
                              users[s][g][i].conn # stream
      BY <1>1 DEF TurnedOver, serverVars
    <2>1. /\ user_id = NoId
          /\ \A j \in DOMAIN q : q[j].kind = "u"
          /\ \A s \in Server, g \in Group, i \in Id : users[s][g][i].conn # stream
      BY <1>1, <1>2, <1>3 DEF TurnedOver
    <2>2. r.kind = "u"
      BY <2>1, AskTypes
    <2>3. \A j \in 1..(Len(q) + 1) : j = Len(q) + 1 \/ j \in 1..Len(q)
      BY <1>4
    <2>4. \A j \in DOMAIN req'[stream] : req'[stream][j].kind = "u"
      BY <2>1, <2>2, <2>3, <1>4
    <2> QED
      BY <2>1, <2>4
  <1>12. BystandersStay' /\ ScreensTrue' /\ up' = Server
    BY <1>1, <1>2 DEF BystandersStay, ScreensTrue, serverVars
  <1> QED
    BY <1>6, <1>7, <1>8, <1>9, <1>10, <1>11, <1>12 DEF Calm

\* A client that has logged in knows its id.
LEMMA IdThere ==
    ASSUME Types, NEW id, IdKnown(id), current_state # 0
    PROVE  user_id = id[stream] /\ user_id # NoId
  BY DEF IdKnown, Types, ClientTypes

LEMMA UCalm ==
    ASSUME Types, NEW n \in Name, U(n), patient', NEW id, NEW at, NEW as, Calm(id, at, as)
    PROVE  Calm(id, at, as)'
  <1>1. PICK kind : kind = IF user_id = NoId THEN "u" ELSE "change"
    OBVIOUS
  <1>2. PICK r : r = Request(kind, n, currentgroup, NoGroup, 0)
    OBVIOUS
  <1>3. /\ Command(r) /\ ~LoginPending /\ username' = n
        /\ UNCHANGED <<user_id, currentgroup, likeMap, main>>
    BY <1>1, <1>2 DEF U
  <1>4. r \in Asks
    BY <1>1, <1>2, UTypes
  <1>5. /\ r.kind = kind /\ r.name = n /\ r.group = currentgroup /\ r.id = user_id
    BY <1>2 DEF Request
  <1>6. IdsRight(id) /\ IdKnown(id)
    BY DEF Calm
  <1>7. stream # 0 /\ main = "ready"
    BY <1>3 DEF Command
  <1>8. user_id = id[stream] /\ stream \in Conn /\ req[stream] \in Seq(Asks)
    BY <1>3, <1>6, <1>7, StreamFacts DEF IdKnown, Types, LinkTypes
  <1>9. r.kind = "u" => req[stream] = <<>>
    <2> SUFFICES ASSUME user_id = NoId, req[stream] # <<>>
                 PROVE  FALSE
      BY <1>1, <1>5
    <2>1. 1 \in DOMAIN req[stream] /\ req[stream][1] \in Asks
      BY <1>8, TailFacts
    <2>2. req[stream][1].id = NoId
      BY <2>1, <1>6, <1>8 DEF IdsRight
    <2>3. IsLogin(req[stream][1])
      BY <2>1, <2>2, AskTypes DEF IsLogin
    <2> QED
      BY <2>1, <2>3, <1>3, <1>8 DEF LoginPending
  <1>10. /\ GroupBefore(r) = currentgroup /\ GroupAfter(r) = currentgroup
         /\ r.kind \in {"u", "change"}
    BY <1>1, <1>5 DEF GroupBefore, GroupAfter
  <1> QED
    BY <1>3, <1>4, <1>5, <1>7, <1>8, <1>9, <1>10, AskCalm

LEMMA JCalm ==
    ASSUME Types, NEW g \in Group, J(g), NEW id, NEW at, NEW as, Calm(id, at, as)
    PROVE  Calm(id, at, as)'
  <1>1. PICK r : r = IF currentgroup = NoGroup THEN Request("j", username, g, NoGroup, 0)
                     ELSE Request("s", username, currentgroup, g, 0)
    OBVIOUS
  <1>2. /\ Command(r) /\ current_state # 0 /\ currentgroup' = g
        /\ UNCHANGED <<user_id, username, likeMap, main>>
    BY <1>1 DEF J, Types, ClientTypes
  <1>3. r \in Asks
    BY <1>1, JTypes
  <1>4. /\ r.kind = (IF currentgroup = NoGroup THEN "j" ELSE "s") /\ r.name = username
        /\ r.group = (IF currentgroup = NoGroup THEN g ELSE currentgroup)
        /\ currentgroup # NoGroup => r.new = g
        /\ r.id = user_id
    BY <1>1 DEF Request
  <1>5. IdKnown(id) /\ main = "ready"
    BY <1>2 DEF Calm, Command
  <1>6. user_id = id[stream]
    BY <1>2, <1>5, IdThere
  <1>7. GroupBefore(r) = currentgroup /\ GroupAfter(r) = g /\ r.kind # "u"
    BY <1>4 DEF GroupBefore, GroupAfter
  <1> QED
    BY <1>2, <1>3, <1>4, <1>5, <1>6, <1>7, AskCalm

LEMMA ActCalm ==
    ASSUME Types, NEW kind \in {"a", "p", "l", "q"}, NEW number, current_state # 0,
           NEW r \in Asks, r = Request(kind, username, currentgroup, NoGroup, number),
           Command(r), UNCHANGED <<user_id, username, currentgroup, likeMap>>,
           main' \in {"ready", "waiting"}, NEW id, NEW at, NEW as, Calm(id, at, as)
    PROVE  Calm(id, at, as)'
  <1>1. r.kind = kind /\ r.name = username /\ r.group = currentgroup /\ r.id = user_id
    BY DEF Request
  <1>2. IdKnown(id)
    BY DEF Calm
  <1>3. user_id = id[stream]
    BY <1>2, IdThere
  <1>4. GroupBefore(r) = currentgroup /\ GroupAfter(r) = currentgroup /\ r.kind # "u"
    BY <1>1 DEF GroupBefore, GroupAfter
  <1> QED
    BY <1>1, <1>3, <1>4, AskCalm


LEMMA CommandCalm ==
    ASSUME Types, Counts, patient', NEW id, NEW at, NEW as, Calm(id, at, as),
           (\E n \in Name : U(n)) \/ (\E g \in Group : J(g)) \/ A \/ P
              \/ (\E k \in 1..MaxMsgs : L(k)) \/ Q
    PROVE  Calm(id, at, as)'
  <1>1. ASSUME NEW n \in Name, U(n)
        PROVE  Calm(id, at, as)'
    BY <1>1, UCalm
  <1>2. ASSUME NEW g \in Group, J(g)
        PROVE  Calm(id, at, as)'
    BY <1>2, JCalm
  <1>3. ASSUME NEW kind \in {"a", "p", "l"}, NEW number \in 0..MaxMsgs,
               Act(Request(kind, username, currentgroup, NoGroup, number))
        PROVE  Calm(id, at, as)'
    <2>1. PICK r : r = Request(kind, username, currentgroup, NoGroup, number)
      OBVIOUS
    <2>2. /\ r \in Asks /\ Command(r) /\ current_state # 0 /\ main = "ready"
          /\ UNCHANGED <<user_id, username, currentgroup, likeMap, main>>
      <3>1. r \in Asks
        BY <1>3, <2>1, ActTypes
      <3> QED
        BY <1>3, <2>1, <3>1 DEF Act, Command, Types, ClientTypes
    <2> QED
      BY <2>1, <2>2, ActCalm
  <1>4. CASE A
    <2>1. Act(Request("a", username, currentgroup, NoGroup, 0)) /\ 0 \in 0..MaxMsgs
      BY <1>4, Bounds DEF A
    <2> QED
      BY <2>1, <1>3
  <1>5. CASE P
    <2>1. Act(Request("p", username, currentgroup, NoGroup, 0)) /\ 0 \in 0..MaxMsgs
      BY <1>5, Bounds DEF P
    <2> QED
      BY <2>1, <1>3
  <1>6. ASSUME NEW k \in 1..MaxMsgs, L(k)
        PROVE  Calm(id, at, as)'
    <2>1. likeMap[k] \in 0..MaxMsgs
      BY DEF Types, ClientTypes
    <2> QED
      BY <2>1, <1>3, <1>6 DEF L
  <1>7. CASE Q /\ current_state = 0
    <2>1. /\ UNCHANGED <<clientVars, stream, reading, server, req, resp, serverVars>>
          /\ main' = "ended" /\ main = "ready"
      BY <1>7 DEF Q
    <2> QED
      BY <2>1, FrameCalm
  <1>8. CASE Q /\ current_state # 0
    <2>1. PICK r : r = Request("q", username, currentgroup, NoGroup, 0)
      OBVIOUS
    <2>2. /\ r \in Asks /\ Command(r) /\ main' = "waiting"
          /\ UNCHANGED <<user_id, username, currentgroup, likeMap>>
      BY <1>8, <2>1, QTypes DEF Q
    <2> QED
      BY <1>8, <2>1, <2>2, ActCalm
  <1> QED
    BY <1>1, <1>2, <1>4, <1>5, <1>6, <1>7, <1>8


-----------------------------------------------------------------------------
(***************************************************************************)
(* The rest of the loop, the goroutine, and the others.                    *)
(***************************************************************************)
\* A patient user leaves no login behind.
LEMMA ResetCalm ==
    ASSUME Types, Reset, patient', NEW id, NEW at, NEW as, Calm(id, at, as)
    PROVE  Calm(id, at, as)'
  <1>1. /\ up = Server /\ IdsRight(id) /\ IdsGiven(id) /\ IdKnown(id) /\ Placed(id, at, as)
        /\ Leads(at, as) /\ LeftQuiet /\ TurnedOver /\ BystandersStay /\ ScreensTrue
    BY DEF Calm
  <1>2. /\ user_id' = NoId /\ currentgroup' = NoGroup /\ main' = "connecting" /\ stream # 0
        /\ ~LoginPending
        /\ UNCHANGED <<likeMap, shown, stream, reading, server, req, resp>>
        /\ UNCHANGED <<up, userCount, users, msgs, dirty>>
    <2>1. patient' = (patient /\ ~LoginPending)
      BY DEF Reset, ResetTo
    <2>2. ~LoginPending
      BY <2>1, Zenon
    <2>3. /\ user_id' = NoId /\ currentgroup' = NoGroup /\ main' = "connecting"
          /\ stream \in 1..(MaxConns - 1)
          /\ UNCHANGED <<likeMap, shown, stream, reading, server, req, resp>>
          /\ UNCHANGED <<up, userCount, users, msgs, dirty>>
      BY DEF Reset, ResetTo, serverVars
    <2> QED
      BY <2>2, <2>3
  <1>3. IdsRight(id)' /\ IdsGiven(id)'
    BY <1>1, <1>2 DEF IdsRight, IdsGiven
  <1>4. IdKnown(id)'
    BY <1>2 DEF IdKnown
  <1>5. Placed(id, at, as)'
    BY <1>1, <1>2, PlacedStays
  <1>6. Leads(at, as)'
    BY <1>1, <1>2 DEF Leads
  <1>7. LeftQuiet'
    <2>1. \A k \in Conn : NoLogin(k)'
      BY <1>2 DEF NoLogin, LoginPending
    <2> QED
      BY <2>1, <1>2 DEF LeftQuiet
  <1>8. TurnedOver' /\ BystandersStay'
    BY <1>1, <1>2 DEF TurnedOver, BystandersStay
  <1>9. ScreensTrue'
    BY <1>1, <1>2 DEF ScreensTrue
  <1> QED
    BY <1>1, <1>2, <1>3, <1>4, <1>5, <1>6, <1>7, <1>8, <1>9 DEF Calm

\* On a new stream the client is nobody, in no group.
LEMMA ConnectCalm ==
    ASSUME Types, NEW s \in Server, Connect(s), NEW id, NEW at, NEW as, Calm(id, at, as)
    PROVE  \E at2, as2 : Calm(id, at2, as2)'
  <1>1. /\ up = Server /\ IdsRight(id) /\ IdsGiven(id) /\ IdKnown(id) /\ Placed(id, at, as)
        /\ Leads(at, as) /\ LeftQuiet /\ TurnedOver /\ BystandersStay /\ ScreensTrue
        /\ at \in [Conn -> Groups] /\ as \in [Conn -> Names] /\ id \in [Conn -> Id \cup {NoId}]
    BY DEF Calm, Placed, IdsRight
  <1>2. PICK n : n = stream + 1
    OBVIOUS
  <1>3. /\ stream' = n /\ server' = [server EXCEPT ![n] = s] /\ main' = "ready"
        /\ stream = 0 \/ main = "connecting"
        /\ UNCHANGED <<user_id, username, currentgroup, likeMap, shown, reading, req, resp>>
        /\ UNCHANGED <<up, userCount, users, msgs, dirty>>
    BY <1>2 DEF Connect, clientVars, serverVars
  <1>4. stream \in Nat /\ n \in Conn
    BY <1>2, ConnectTypes DEF Types, ClientTypes
  <1>5. /\ n \in Nat /\ n # 0 /\ ~(n <= stream) /\ n > stream /\ n <= n
        /\ \A l \in Conn : l # n => (l <= n <=> l <= stream)
    <2>1. \A l \in Conn : l \in Nat
      BY Bounds
    <2> QED
      BY <2>1, <1>2, <1>4
  <1>6. user_id = NoId /\ currentgroup = NoGroup
    BY <1>1, <1>3 DEF LeftQuiet
  <1>7. id[n] = NoId /\ req[n] = <<>>
    BY <1>1, <1>4, <1>5 DEF IdsGiven, Types, LinkTypes
  <1>8. \A l \in Conn : l # n => server'[l] = server[l]
    BY <1>3 DEF Types, LinkTypes
  <1>9. \A t \in Server, h \in Group, i \in Id : users[t][h][i].conn # n
    BY <1>1, <1>4, <1>5 DEF Placed
  <1>10. PICK at2, as2 : /\ at2 = [at EXCEPT ![n] = NoGroup]
                         /\ as2 = [as EXCEPT ![n] = username]
    OBVIOUS
  <1>11. /\ at2 \in [Conn -> Groups] /\ as2 \in [Conn -> Names]
         /\ at2[n] = NoGroup /\ as2[n] = username
         /\ \A l \in Conn : l # n => at2[l] = at[l] /\ as2[l] = as[l]
    BY <1>1, <1>4, <1>10 DEF Groups, Types, ClientTypes
  <1>12. IdsRight(id)'
    BY <1>1, <1>3 DEF IdsRight
  <1>13. IdsGiven(id)'
    <2>1. \A l \in Conn : id[l] # NoId => /\ l <= n /\ server'[l] = server[l]
                                          /\ FirstId[server[l]] < id[l]
                                          /\ id[l] <= userCount[server[l]]
      BY <1>1, <1>5, <1>7, <1>8 DEF IdsGiven
    <2>2. \A k, l \in Conn : k # l /\ id[k] # NoId /\ id[k] = id[l] => server[k] # server[l]
      BY <1>1 DEF IdsGiven
    <2> QED
      BY <2>1, <2>2, <1>3 DEF IdsGiven
  <1>14. IdKnown(id)'
    BY <1>3, <1>6, <1>7 DEF IdKnown
  <1>15. Placed(id, at2, as2)'
    <2>1. \A t \in Server, h \in Group, i \in Id, l \in Conn :
             users[t][h][i].conn = l
                <=> l <= n /\ t = server'[l] /\ h = at2[l] /\ i = id[l]
      <3> TAKE t \in Server, h \in Group, i \in Id, l \in Conn
      <3>1. CASE l = n
        BY <3>1, <1>9, <1>11, NoGroupAssumption
      <3>2. CASE l # n
        <4>1. users[t][h][i].conn = l
                 <=> l <= stream /\ t = server[l] /\ h = at[l] /\ i = id[l]
          BY <1>1 DEF Placed
        <4> QED
          BY <4>1, <3>2, <1>5, <1>8, <1>11
      <3> QED
        BY <3>1, <3>2
    <2>2. \A l \in Conn, h \in Group, i \in Id :
             l <= n /\ h = at2[l] /\ i = id[l] => users[server'[l]][h][i].name = as2[l]
      <3> TAKE l \in Conn, h \in Group, i \in Id
      <3>1. CASE l = n
        BY <3>1, <1>11, NoGroupAssumption
      <3>2. CASE l # n
        <4>1. l <= stream /\ h = at[l] /\ i = id[l] => users[server[l]][h][i].name = as[l]
          <5>1. \A e \in Conn, f \in Group, j \in Id :
                   e <= stream /\ f = at[e] /\ j = id[e] => users[server[e]][f][j].name = as[e]
            BY ONLY <1>1 DEF Placed
          <5> QED
            BY ONLY <5>1, l \in Conn, h \in Group, i \in Id
        <4> QED
          BY <4>1, <3>2, <1>5, <1>8, <1>11
      <3> QED
        BY <3>1, <3>2
    <2> QED
      BY <2>1, <2>2, <1>3, <1>11 DEF Placed
  <1>16. Leads(at2, as2)'
    <2>1. \A l \in Conn : Chained(req[l], at2[l], as2[l])
      <3> TAKE l \in Conn
      <3>1. CASE l = n
        BY <3>1, <1>7 DEF Chained
      <3>2. CASE l # n
        BY <3>2, <1>1, <1>11 DEF Leads
      <3> QED
        BY <3>1, <3>2
    <2>2. /\ GroupAt(req[n], at2[n], Len(req[n])) = NoGroup
          /\ NameAt(req[n], as2[n], Len(req[n])) = username
      BY <1>7, <1>11 DEF GroupAt, NameAt
    <2> QED
      BY <2>1, <2>2, <1>3, <1>6 DEF Leads
  <1>17. LeftQuiet'
    <2>1. \A k \in Conn : NoLogin(k)
      BY <1>1, <1>3, Bounds DEF LeftQuiet
    <2>2. \A k \in Conn : NoLogin(k)'
      BY <2>1, <1>3 DEF NoLogin
    <2> QED
      BY <2>2, <1>3, <1>5 DEF LeftQuiet
  <1>18. TurnedOver'
    BY <1>3, <1>6, <1>7, <1>9 DEF TurnedOver
  <1>19. BystandersStay'
    BY <1>1, <1>3 DEF BystandersStay
  <1>20. ScreensTrue'
    <2>1. server'[n] = s
      BY <1>3, <1>4 DEF Types, LinkTypes
    <2> QED
      BY <2>1, <1>3, <1>9 DEF ScreensTrue
  <1>21. Calm(id, at2, as2)'
    BY <1>1, <1>3, <1>12, <1>13, <1>14, <1>15, <1>16, <1>17, <1>18, <1>19, <1>20 DEF Calm
  <1> QED
    BY <1>21

LEMMA ChooseCalm ==
    ASSUME Choose, NEW id, NEW at, NEW as, Calm(id, at, as)
    PROVE  Calm(id, at, as)'
  <1>1. /\ up = Server /\ IdsRight(id) /\ IdsGiven(id) /\ IdKnown(id) /\ Placed(id, at, as)
        /\ Leads(at, as) /\ LeftQuiet /\ TurnedOver /\ BystandersStay /\ ScreensTrue
    BY DEF Calm
  <1>2. /\ UNCHANGED <<user_id, username, currentgroup, current_state, likeMap, shown>>
        /\ UNCHANGED <<stream, server, main, req, resp>> /\ reading' = stream
        /\ UNCHANGED <<up, userCount, users, msgs, dirty>>
    BY DEF Choose, clientVars, serverVars
  <1>3. IdsRight(id)' /\ IdsGiven(id)'
    BY <1>1, <1>2 DEF IdsRight, IdsGiven
  <1>4. IdKnown(id)'
    <2>1. LoginPending' = LoginPending
      BY <1>2 DEF LoginPending
    <2> QED
      BY <2>1, <1>1, <1>2 DEF IdKnown
  <1>5. Placed(id, at, as)'
    BY <1>1, <1>2, PlacedStays
  <1>6. Leads(at, as)'
    BY <1>1, <1>2 DEF Leads
  <1>7. LeftQuiet'
    <2>1. \A k \in Conn : NoLogin(k) => NoLogin(k)'
      BY <1>2 DEF NoLogin
    <2> QED
      BY <2>1, <1>1, <1>2 DEF LeftQuiet
  <1>8. TurnedOver' /\ BystandersStay'
    BY <1>1, <1>2 DEF TurnedOver, BystandersStay
  <1>9. ScreensTrue'
    BY <1>1, <1>2 DEF ScreensTrue
  <1> QED
    BY <1>1, <1>2, <1>3, <1>4, <1>5, <1>6, <1>7, <1>8, <1>9 DEF Calm


\* An answer is handled: a login gives the client the id it has.
LEMMA ReceiveCalm ==
    ASSUME Types, Receive, NEW id, NEW at, NEW as, Calm(id, at, as)
    PROVE  Calm(id, at, as)'
  <1>1. /\ up = Server /\ IdsRight(id) /\ IdsGiven(id) /\ IdKnown(id) /\ Placed(id, at, as)
        /\ Leads(at, as) /\ LeftQuiet /\ TurnedOver /\ BystandersStay /\ ScreensTrue
    BY DEF Calm
  <1>2. PICK m, r : m = Head(resp[reading]) /\ r = reading
    OBVIOUS
  <1>3. /\ user_id' = (IF m.kind = "login" THEN m.id ELSE user_id)
        /\ likeMap' = (IF m.kind = "store" THEN [likeMap EXCEPT ![m.place] = m.id] ELSE likeMap)
        /\ shown' = (IF m.kind = "store" THEN Append(shown, m.msg)
                     ELSE IF m.kind = "print" THEN <<>> ELSE shown)
        /\ main' \in {main, "left"}
        /\ reading' = 0 /\ resp[r] # <<>> /\ r \in Conn
        /\ UNCHANGED <<username, currentgroup, stream, server, req>>
        /\ UNCHANGED <<up, userCount, users, msgs, dirty>>
    BY <1>2 DEF Receive, serverVars
  <1>4. /\ resp[r] \in Seq(Answers) /\ m \in Answers
        /\ resp' = [resp EXCEPT ![r] = Tail(resp[r])] /\ resp \in [Conn -> Seq(Answers)]
    BY <1>2, ReceiveTypes DEF Types, LinkTypes
  <1>5. PICK q : q = resp[r]
    OBVIOUS
  <1>6. /\ Len(q) \in Nat /\ Len(q) >= 1 /\ DOMAIN q = 1..Len(q) /\ m = q[1] /\ 1 \in DOMAIN q
        /\ DOMAIN Tail(q) = 1..(Len(q) - 1)
        /\ \A j \in 1..(Len(q) - 1) : Tail(q)[j] = q[j + 1] /\ j + 1 \in DOMAIN q
    BY <1>2, <1>3, <1>4, <1>5, TailFacts, ElementFacts
  <1>7. /\ resp'[r] = Tail(q)
        /\ \A l \in Conn : l # r => resp'[l] = resp[l]
    BY <1>3, <1>4, <1>5
  <1>8. \A l \in Conn : \A j \in DOMAIN resp'[l] : \E i \in DOMAIN resp[l] :
           resp'[l][j] = resp[l][i]
    <2> TAKE l \in Conn
    <2> TAKE j \in DOMAIN resp'[l]
    <2>1. CASE l = r
      <3>1. j \in 1..(Len(q) - 1)
        BY <2>1, <1>6, <1>7
      <3> QED
        BY <2>1, <3>1, <1>5, <1>6, <1>7
    <2>2. CASE l # r
      BY <2>2, <1>7
    <2> QED
      BY <2>1, <2>2
  <1>9. \A l \in Conn : \A i \in DOMAIN resp[l] :
           ~(l = r /\ i = 1) => \E j \in DOMAIN resp'[l] : resp'[l][j] = resp[l][i]
    <2> TAKE l \in Conn
    <2> TAKE i \in DOMAIN resp[l]
    <2> HAVE ~(l = r /\ i = 1)
    <2>1. CASE l = r
      <3>1. i - 1 \in 1..(Len(q) - 1) /\ (i - 1) + 1 = i
        BY <2>1, <1>5, <1>6
      <3>2. Tail(q)[i - 1] = q[i] /\ i - 1 \in DOMAIN Tail(q)
        BY <3>1, <1>6
      <3> QED
        BY <2>1, <3>2, <1>5, <1>7
    <2>2. CASE l # r
      BY <2>2, <1>7
    <2> QED
      BY <2>1, <2>2
  <1>10. m.kind = "login" => /\ r = stream /\ main # "connecting" /\ m.id = id[stream]
                             /\ stream # 0
    <2>1. m.kind = "login" => m.id = id[r]
      BY <1>1, <1>3, <1>5, <1>6 DEF IdsRight
    <2>2. m.kind = "login" => ~NoLogin(r)
      BY <1>5, <1>6 DEF NoLogin, IsLogin
    <2>3. r # 0
      BY <1>3, Bounds
    <2> QED
      BY <2>1, <2>2, <2>3, <1>1, <1>3 DEF LeftQuiet
  <1>11. IdsRight(id)'
    BY <1>1, <1>3, <1>8 DEF IdsRight
  <1>12. IdsGiven(id)'
    BY <1>1, <1>3 DEF IdsGiven
  <1>13. m.kind # "login" /\ LoginPending => LoginPending'
    <2> SUFFICES ASSUME m.kind # "login", LoginPending
                 PROVE  LoginPending'
      OBVIOUS
    <2>1. CASE \E l \in Conn : \E j \in DOMAIN req[l] : IsLogin(req[l][j])
      BY <2>1, <1>3 DEF LoginPending
    <2>2. CASE \E l \in Conn : \E j \in DOMAIN resp[l] : IsLogin(resp[l][j])
      <3>1. PICK l \in Conn : \E i \in DOMAIN resp[l] : IsLogin(resp[l][i])
        BY <2>2
      <3>2. PICK i \in DOMAIN resp[l] : IsLogin(resp[l][i])
        BY <3>1
      <3>3. ~IsLogin(m)
        BY <1>4, AnswerTypes DEF IsLogin
      <3>4. ~(l = r /\ i = 1)
        BY <3>2, <3>3, <1>5, <1>6
      <3>5. PICK j \in DOMAIN resp'[l] : resp'[l][j] = resp[l][i]
        BY <3>4, <1>9
      <3>6. IsLogin(resp'[l][j])
        BY <3>2, <3>5
      <3> QED
        BY <3>6 DEF LoginPending
    <2> QED
      BY <2>1, <2>2 DEF LoginPending
  <1>14. IdKnown(id)'
    <2>1. main' = "ready" => main = "ready"
      BY <1>3
    <2>2. CASE m.kind = "login"
      BY <2>2, <1>3, <1>10 DEF IdKnown
    <2>3. CASE m.kind # "login"
      BY <2>1, <2>3, <1>1, <1>3, <1>13 DEF IdKnown
    <2> QED
      BY <2>2, <2>3
  <1>15. Placed(id, at, as)'
    BY <1>1, <1>3, PlacedStays
  <1>16. Leads(at, as)'
    BY <1>1, <1>3 DEF Leads
  <1>17. LeftQuiet'
    <2>1. \A l \in Conn : NoLogin(l) => NoLogin(l)'
      BY <1>3, <1>8 DEF NoLogin
    <2>2. main' = "connecting" => main = "connecting"
      BY <1>3
    <2>3. stream = 0 \/ main = "connecting" => m.kind # "login"
      BY <1>10
    <2> QED
      BY <2>1, <2>2, <2>3, <1>1, <1>3 DEF LeftQuiet
  <1>18. TurnedOver' /\ BystandersStay'
    BY <1>1, <1>3 DEF TurnedOver, BystandersStay
  <1>19. ScreensTrue'
    <2> SUFFICES ASSUME stream # 0, NEW h \in Group, NEW i \in Id,
                        users[server[stream]][h][i].conn = stream,
                        dirty[server[stream]][h] = {}
                 PROVE  LeavesTrue(resp'[stream], msgs[server[stream]][h], shown', likeMap')
      BY <1>3 DEF ScreensTrue
    <2>1. server[stream] \in Server /\ stream \in Conn
      BY StreamFacts
    <2>2. r = stream
      <3>1. reading \in {0, stream}
        BY <2>1, <1>1 DEF TurnedOver
      <3> QED
        BY <3>1, <1>2, <1>3, Bounds
    <2>3. LeavesTrue(q, msgs[server[stream]][h], shown, likeMap)
      BY <2>2, <1>1, <1>5 DEF ScreensTrue
    <2>4. PICK list, sh, lm, sh2, lm2 :
             /\ list = msgs[server[stream]][h] /\ sh = shown /\ lm = likeMap
             /\ sh2 = shown' /\ lm2 = likeMap'
      OBVIOUS
    <2>5. /\ q \in Seq(Answers) /\ q # <<>> /\ m = Head(q)
          /\ sh \in Seq(1..MaxMsgs) /\ lm \in [1..MaxMsgs -> 0..MaxMsgs]
          /\ LeavesTrue(q, list, sh, lm)
          /\ sh2 = (IF m.kind = "store" THEN Append(sh, m.msg)
                    ELSE IF m.kind = "print" THEN <<>> ELSE sh)
          /\ lm2 = (IF m.kind = "store" THEN [lm EXCEPT ![m.place] = m.id] ELSE lm)
      BY <2>3, <2>4, <1>2, <1>3, <1>4, <1>5 DEF Types, ClientTypes
    <2>6. LeavesTrue(Tail(q), list, sh2, lm2)
      BY ONLY <2>5, HandledLeavesTrue
    <2> QED
      BY <2>2, <2>4, <2>6, <1>7
  <1> QED
    BY <1>1, <1>3, <1>11, <1>12, <1>14, <1>15, <1>16, <1>17, <1>18, <1>19 DEF Calm

LEMMA OthersChangeCalm ==
    ASSUME Types, Counts, NEW s \in Server, NEW g \in Group, OthersChange(s, g),
           NEW id, NEW at, NEW as, Calm(id, at, as)
    PROVE  Calm(id, at, as)'
  <1>1. /\ up = Server /\ IdsRight(id) /\ IdsGiven(id) /\ IdKnown(id) /\ Placed(id, at, as)
        /\ Leads(at, as) /\ LeftQuiet /\ TurnedOver /\ BystandersStay /\ ScreensTrue
    BY DEF Calm
  <1>2. /\ dirty'[s][g] # {}
        /\ \A t \in Server, h \in Group : <<t, h>> # <<s, g>> =>
              msgs'[t][h] = msgs[t][h] /\ dirty'[t][h] = dirty[t][h]
        /\ UNCHANGED <<user_id, username, currentgroup, likeMap, shown>>
        /\ UNCHANGED <<stream, reading, main, server, req, resp, up, userCount, users>>
    BY OthersChangeFacts DEF clientVars
  <1>3. IdsRight(id)' /\ IdsGiven(id)'
    BY <1>1, <1>2 DEF IdsRight, IdsGiven
  <1>4. IdKnown(id)'
    <2>1. LoginPending' = LoginPending
      BY <1>2 DEF LoginPending
    <2> QED
      BY <2>1, <1>1, <1>2 DEF IdKnown
  <1>5. Placed(id, at, as)'
    BY <1>1, <1>2, PlacedStays
  <1>6. Leads(at, as)'
    BY <1>1, <1>2 DEF Leads
  <1>7. LeftQuiet'
    <2>1. \A k \in Conn : NoLogin(k) => NoLogin(k)'
      BY <1>2 DEF NoLogin
    <2> QED
      BY <2>1, <1>1, <1>2 DEF LeftQuiet
  <1>8. TurnedOver' /\ BystandersStay'
    BY <1>1, <1>2 DEF TurnedOver, BystandersStay
  <1>9. ScreensTrue'
    <2> SUFFICES ASSUME stream # 0, NEW h \in Group, NEW i \in Id,
                        users[server[stream]][h][i].conn = stream,
                        dirty'[server[stream]][h] = {}
                 PROVE  LeavesTrue(resp[stream], msgs'[server[stream]][h], shown, likeMap)
      BY <1>2 DEF ScreensTrue
    <2>1. server[stream] \in Server
      BY StreamFacts
    <2>2. <<server[stream], h>> # <<s, g>>
      BY <1>2
    <2>3. /\ msgs'[server[stream]][h] = msgs[server[stream]][h]
          /\ dirty[server[stream]][h] = {}
      BY <2>1, <2>2, <1>2
    <2> QED
      BY <2>3, <1>1 DEF ScreensTrue
  <1> QED
    BY <1>1, <1>2, <1>3, <1>4, <1>5, <1>6, <1>7, <1>8, <1>9 DEF Calm

LEMMA OthersShowCalm ==
    ASSUME Types, Counts, NEW s \in Server, NEW g \in Group, OthersShow(s, g),
           NEW id, NEW at, NEW as, Calm(id, at, as)
    PROVE  Calm(id, at, as)'
  <1>1. /\ up = Server /\ IdsRight(id) /\ IdsGiven(id) /\ IdKnown(id) /\ Placed(id, at, as)
        /\ Leads(at, as) /\ LeftQuiet /\ TurnedOver /\ BystandersStay /\ ScreensTrue
    BY DEF Calm
  <1>2. /\ Types' /\ Counts'
        /\ \A t \in Server, h \in Group : <<t, h>> # <<s, g>> => dirty'[t][h] = dirty[t][h]
        /\ Extends(resp', resp)
        /\ UNCHANGED <<user_id, username, currentgroup, likeMap, shown>>
        /\ UNCHANGED <<stream, reading, main, server, req, up, userCount, users, msgs>>
    BY OthersShowFacts DEF clientVars
  <1>3. PICK page \in Pages(msgs[s][g]) : resp' = ToMembers(users[s][g], page, resp)
    BY OthersShowFacts
  <1>4. resp \in [Conn -> Seq(Answers)] /\ resp' \in [Conn -> Seq(Answers)]
    BY <1>2 DEF Types, LinkTypes
  <1>5. \A l \in Conn :
           /\ \A j \in DOMAIN resp[l] : j \in DOMAIN resp'[l] /\ resp'[l][j] = resp[l][j]
           /\ \A j \in DOMAIN resp'[l] : resp'[l][j].kind = "login" => j \in DOMAIN resp[l]
    BY <1>2, <1>4, ExtendsFacts
  <1>6. \A l \in Conn : \A j \in DOMAIN resp'[l] : IsLogin(resp'[l][j]) => j \in DOMAIN resp[l]
    <2> TAKE l \in Conn
    <2> TAKE j \in DOMAIN resp'[l]
    <2>1. resp'[l][j] \in Answers
      <3>1. resp'[l] \in Seq(Answers)
        BY <1>4
      <3> QED
        BY <3>1, ElementFacts
    <2>2. IsLogin(resp'[l][j]) => resp'[l][j].kind = "login"
      BY <2>1, AnswerTypes DEF IsLogin
    <2> QED
      BY <2>2, <1>5
  <1>7. IdsRight(id)'
    BY <1>1, <1>2, <1>5 DEF IdsRight
  <1>8. IdsGiven(id)'
    BY <1>1, <1>2 DEF IdsGiven
  <1>9. IdKnown(id)'
    <2>1. LoginPending => LoginPending'
      BY <1>2, <1>5 DEF LoginPending
    <2> QED
      BY <2>1, <1>1, <1>2 DEF IdKnown
  <1>10. Placed(id, at, as)'
    BY <1>1, <1>2, PlacedStays
  <1>11. Leads(at, as)'
    BY <1>1, <1>2 DEF Leads
  <1>12. LeftQuiet'
    <2>1. \A l \in Conn : NoLogin(l) => NoLogin(l)'
      BY <1>2, <1>5, <1>6 DEF NoLogin
    <2> QED
      BY <2>1, <1>1, <1>2 DEF LeftQuiet
  <1>13. TurnedOver' /\ BystandersStay'
    BY <1>1, <1>2 DEF TurnedOver, BystandersStay
  <1>14. ScreensTrue'
    <2> SUFFICES ASSUME stream # 0, NEW h \in Group, NEW i \in Id,
                        users[server[stream]][h][i].conn = stream,
                        dirty'[server[stream]][h] = {}
                 PROVE  LeavesTrue(resp'[stream], msgs'[server[stream]][h], shown', likeMap')
      BY <1>2 DEF ScreensTrue
    <2>1. server[stream] \in Server /\ Alone(h)
      BY <1>1, StreamFacts, AloneThere
    <2>2. Alone(h)'
      BY <2>1, <1>2 DEF Alone
    <2>3. page \in Pages(msgs'[s][g]) /\ resp' = ToMembers(users'[s][g], page, resp)
      BY <1>2, <1>3
    <2>4. Sent(s, g, h, resp, resp')
      BY <1>2, <1>4, <2>2, <2>3, ScreenSent
    <2>5. CASE s = server[stream] /\ g = h
      BY <2>4, <2>5 DEF Sent
    <2>6. CASE ~(s = server[stream] /\ g = h)
      <3>1. dirty[server[stream]][h] = {}
        BY <2>1, <2>6, <1>2
      <3>2. LeavesTrue(resp[stream], msgs[server[stream]][h], shown, likeMap)
        BY <3>1, <1>1 DEF ScreensTrue
      <3> QED
        BY <3>2, <2>4, <2>6, <1>2 DEF Sent
    <2> QED
      BY <2>5, <2>6
  <1> QED
    BY <1>1, <1>2, <1>7, <1>8, <1>9, <1>10, <1>11, <1>12, <1>13, <1>14 DEF Calm


-----------------------------------------------------------------------------
(***************************************************************************)
(* The invariant, and what it gives.                                       *)
(***************************************************************************)
LEMMA InitCalm ==
    ASSUME Init
    PROVE  \E id, at, as : Calm(id, at, as)
  <1>1. PICK id, at, as : /\ id = [k \in Conn |-> NoId] /\ at = [k \in Conn |-> NoGroup]
                          /\ as = [k \in Conn |-> NoName]
    OBVIOUS
  <1>2. /\ id \in [Conn -> Id \cup {NoId}] /\ \A k \in Conn : id[k] = NoId
        /\ at \in [Conn -> Groups] /\ \A k \in Conn : at[k] = NoGroup
        /\ as \in [Conn -> Names]
    BY <1>1 DEF Groups, Names
  <1>3. /\ user_id = NoId /\ currentgroup = NoGroup /\ stream = 0 /\ up = Server
        /\ \A k \in Conn : DOMAIN req[k] = {} /\ DOMAIN resp[k] = {} /\ k # 0
    BY Bounds DEF Init
  <1>4. \A s \in Server, g \in Group, i \in Id :
           users[s][g][i] = IF i = FirstId[s] THEN [conn |-> 0, name |-> Bystander] ELSE NoUser
    BY DEF Init
  <1>5. \A s \in Server, g \in Group, i \in Id : users[s][g][i].conn = 0
    BY <1>4, NoUserTypes
  <1>6. IdsRight(id) /\ IdsGiven(id) /\ IdKnown(id)
    BY <1>2, <1>3 DEF IdsRight, IdsGiven, IdKnown
  <1>7. Placed(id, at, as)
    <2>1. \A s \in Server, g \in Group, i \in Id, k \in Conn :
             users[s][g][i].conn # k /\ g # at[k]
      BY <1>2, <1>3, <1>5, NoGroupAssumption
    <2>2. \A s \in Server, g \in Group, i \in Id, k \in Conn :
             users[s][g][i].conn = k
                <=> k <= stream /\ s = server[k] /\ g = at[k] /\ i = id[k]
      BY <2>1
    <2>3. \A k \in Conn, g \in Group, i \in Id :
             k <= stream /\ g = at[k] /\ i = id[k] => users[server[k]][g][i].name = as[k]
      <3> TAKE k \in Conn, g \in Group, i \in Id
      <3>1. g # at[k]
        BY <1>2, NoGroupAssumption
      <3> QED
        BY <3>1
    <2> QED
      BY ONLY <2>2, <2>3, <1>2, Zenon DEF Placed
  <1>8. Leads(at, as)
    BY <1>3 DEF Leads, Chained
  <1>9. LeftQuiet /\ TurnedOver /\ ScreensTrue
    BY <1>3 DEF LeftQuiet, NoLogin, TurnedOver, ScreensTrue
  <1>10. BystandersStay
    BY <1>4, Bounds DEF BystandersStay
  <1>11. Calm(id, at, as)
    BY <1>3, <1>6, <1>7, <1>8, <1>9, <1>10 DEF Calm
  <1> QED
    BY <1>11

\* Who is patient has been so from the start.
LEMMA PatientSoFar ==
    ASSUME Types, Next, patient'
    PROVE  patient
  <1>1. patient \in BOOLEAN
    BY DEF Types
  <1>2. CASE Reset \/ \E n \in Name : U(n)
    <2>1. patient' = (patient /\ ~LoginPending)
      BY <1>2 DEF Reset, ResetTo, U
    <2> QED
      BY <2>1, Zenon
  <1>3. CASE \/ \E g \in Group : J(g)
             \/ A \/ P \/ (\E k \in 1..MaxMsgs : L(k)) \/ Q
    BY <1>3 DEF J, A, P, L, Act, Q
  <1>4. CASE (\E s \in Server : Connect(s)) \/ Choose \/ Receive \/ CannotReceive \/ End
    BY <1>4 DEF Connect, Choose, Receive, CannotReceive, End
  <1>5. CASE \E k \in Conn : Serve(k)
    BY <1>5 DEF Serve, UserLogin, ChangeIdentity, Join, Switch, UserUnknown, AppendMessage,
                LikeMessage, History, QuitSession, Takes
  <1>6. CASE \E b \in Busy : OthersChange(b[1], b[2]) \/ OthersShow(b[1], b[2])
    BY <1>6 DEF OthersChange, OthersShow
  <1> QED
    BY <1>2, <1>3, <1>4, <1>5, <1>6 DEF Next

LEMMA NextCalm ==
    ASSUME Types, Counts, Next, patient', NEW id, NEW at, NEW as, Calm(id, at, as)
    PROVE  \E id2, at2, as2 : Calm(id2, at2, as2)'
  <1>1. CASE Reset
    <2>1. Calm(id, at, as)'
      BY <1>1, ResetCalm
    <2> QED
      BY <2>1
  <1>2. CASE \E s \in Server : Connect(s)
    <2>1. \E at2, as2 : Calm(id, at2, as2)'
      BY <1>2, ConnectCalm
    <2> QED
      BY <2>1
  <1>3. CASE (\E n \in Name : U(n)) \/ (\E g \in Group : J(g)) \/ A \/ P
                \/ (\E k \in 1..MaxMsgs : L(k)) \/ Q
    <2>1. Calm(id, at, as)'
      BY <1>3, CommandCalm
    <2> QED
      BY <2>1
  <1>4. CASE Choose
    <2>1. Calm(id, at, as)'
      BY <1>4, ChooseCalm
    <2> QED
      BY <2>1
  <1>5. CASE Receive
    <2>1. Calm(id, at, as)'
      BY <1>5, ReceiveCalm
    <2> QED
      BY <2>1
  <1>6. CASE CannotReceive \/ End
    <2>1. /\ main' \in {main, "ended"}
          /\ UNCHANGED <<clientVars, stream, reading, server, req, resp, serverVars>>
      BY <1>6 DEF CannotReceive, End
    <2>2. Calm(id, at, as)'
      BY <2>1, FrameCalm
    <2> QED
      BY <2>2
  <1>7. CASE \E k \in Conn : Serve(k)
    BY <1>7, ServeCalm
  <1>8. CASE \E b \in Busy : OthersChange(b[1], b[2]) \/ OthersShow(b[1], b[2])
    <2>1. PICK b \in Busy : OthersChange(b[1], b[2]) \/ OthersShow(b[1], b[2])
      BY <1>8
    <2>2. PICK s, g : s = b[1] /\ g = b[2]
      OBVIOUS
    <2>3. s \in Server /\ g \in Group /\ (OthersChange(s, g) \/ OthersShow(s, g))
      BY <2>1, <2>2, BusyAssumption
    <2>4. Calm(id, at, as)'
      BY <2>3, OthersChangeCalm, OthersShowCalm
    <2> QED
      BY <2>4
  <1> QED
    BY <1>1, <1>2, <1>3, <1>4, <1>5, <1>6, <1>7, <1>8 DEF Next

\* The inductive invariant: the ids and places that the servers have for the
\* streams of a patient user, and how what is on its way leads from them to what
\* the client believes and shows (client.go and the handlers of chatserver.go).
THEOREM ChatClientInvariance == Spec => []Inv
  <1>1. Init => Inv
    BY InitTypes, InitCalm DEF Inv
  <1>2. Inv /\ [Next]_vars => Inv'
    <2> SUFFICES ASSUME Inv, [Next]_vars
                 PROVE  Inv'
      OBVIOUS
    <2>1. Types' /\ Counts'
      BY NextTypes DEF Inv
    <2>2. ASSUME patient'
          PROVE  \E id, at, as : Calm(id, at, as)'
      <3>1. CASE UNCHANGED vars
        <4>1. patient /\ main' \in {main, "ended"}
              /\ UNCHANGED <<clientVars, stream, reading, server, req, resp, serverVars>>
          BY <2>2, <3>1 DEF vars
        <4>2. PICK id, at, as : Calm(id, at, as)
          BY <4>1 DEF Inv
        <4>3. Calm(id, at, as)'
          BY <4>1, <4>2, FrameCalm
        <4> QED
          BY <4>3
      <3>2. CASE Next
        <4>1. patient
          BY <2>2, <3>2, PatientSoFar DEF Inv
        <4>2. PICK id, at, as : Calm(id, at, as)
          BY <4>1 DEF Inv
        <4> QED
          BY <2>2, <3>2, <4>2, NextCalm DEF Inv
      <3> QED
        BY <3>1, <3>2
    <2> QED
      BY <2>1, <2>2 DEF Inv
  <1> QED
    BY <1>1, <1>2, PTL DEF Spec

\* The commands of a patient user never make a server's handler follow a nil
\* entry of UserList (Switch and ChangeIdentity).
THEOREM ServersStayUp == Spec => []ServersUp
  <1>1. Inv => ServersUp
    BY DEF Inv, Calm, ServersUp
  <1> QED
    BY <1>1, ChatClientInvariance, PTL

\* A patient user never takes the place of the other client of a server (Join
\* writes the entry of the id that the client sends).
THEOREM OthersKeepTheirPlace == Spec => []OthersStay
  <1>1. Inv => OthersStay
    <2> SUFFICES ASSUME Inv, patient, NEW s \in Server, NEW g \in Group
                 PROVE  \E i \in Id : users[s][g][i].name = Bystander
      BY DEF OthersStay
    <2>1. users[s][g][FirstId[s]] = [conn |-> 0, name |-> Bystander]
      BY DEF Inv, Calm, BystandersStay
    <2>2. FirstId[s] \in Id
      BY Bounds
    <2> QED
      BY <2>1, <2>2
  <1> QED
    BY <1>1, ChatClientInvariance, PTL

\* Where the client and its server are, once everything asked is answered.
LEMMA SettledPlace ==
    ASSUME Inv, Settled, patient, currentgroup # NoGroup
    PROVE  \E id, at, as :
              /\ Calm(id, at, as) /\ stream \in Conn /\ server[stream] \in Server
              /\ currentgroup = at[stream] /\ username = as[stream]
              /\ user_id = id[stream] /\ user_id \in Id /\ currentgroup \in Group
  <1>1. PICK id, at, as : Calm(id, at, as)
    BY DEF Inv
  <1>2. Types /\ stream # 0 /\ main = "ready" /\ req[stream] = <<>>
    BY DEF Inv, Settled
  <1>3. stream \in Conn /\ server[stream] \in Server
    BY <1>2, StreamFacts
  <1>4. Leads(at, as) /\ IdKnown(id)
    BY <1>1 DEF Calm
  <1>5. currentgroup = at[stream] /\ username = as[stream]
    <2>1. Len(req[stream]) = 0
      BY <1>2
    <2> QED
      BY <2>1, <1>2, <1>4 DEF Leads, GroupAt, NameAt
  <1>6. user_id # NoId /\ user_id \in Id /\ currentgroup \in Group
    BY <1>2 DEF Types, ClientTypes, Groups
  <1>7. user_id = id[stream]
    BY <1>4, <1>6 DEF IdKnown
  <1> QED
    BY <1>1, <1>3, <1>5, <1>6, <1>7

\* Once everything asked on the stream is answered, the server has the client of
\* a patient user in the group the client believes to be in, in no other, and
\* under its id and name (user_id and current_state are written by two
\* goroutines without a lock).
THEOREM ClientInStep == Spec => []InStep
  <1>1. Inv => InStep
    <2> SUFFICES ASSUME Inv, Settled, patient, currentgroup # NoGroup,
                        NEW g \in Group, NEW i \in Id
                 PROVE  users[server[stream]][g][i].conn = stream <=>
                           /\ g = currentgroup
                           /\ i = user_id
                           /\ users[server[stream]][g][i].name = username
      BY DEF InStep
    <2>1. PICK id, at, as :
             /\ Calm(id, at, as) /\ stream \in Conn /\ server[stream] \in Server
             /\ currentgroup = at[stream] /\ username = as[stream]
             /\ user_id = id[stream] /\ user_id \in Id /\ currentgroup \in Group
      BY SettledPlace
    <2>2. Placed(id, at, as) /\ stream <= stream
      BY <2>1, Bounds DEF Calm
    <2>3. users[server[stream]][g][i].conn = stream <=> g = at[stream] /\ i = id[stream]
      BY <2>1, <2>2 DEF Placed
    <2>4. g = at[stream] /\ i = id[stream] => users[server[stream]][g][i].name = as[stream]
      <3>1. \A k \in Conn, h \in Group, j \in Id :
               k <= stream /\ h = at[k] /\ j = id[k] => users[server[k]][h][j].name = as[k]
        BY <2>2 DEF Placed
      <3> QED
        BY ONLY <3>1, <2>1, <2>2, g \in Group, i \in Id
    <2> QED
      BY <2>1, <2>3, <2>4
  <1> QED
    BY <1>1, ChatClientInvariance, PTL

\* The number that a patient user reads beside a message on the screen stands for
\* that message when typed in "l", once every screen on its way has come
\* (likeMap in client.go against the MsgIds of the server).
THEOREM ScreenStaysTrue == Spec => []ScreenTrue
  <1>1. Inv => ScreenTrue
    <2> SUFFICES ASSUME Inv, Settled, patient, currentgroup # NoGroup,
                        dirty[server[stream]][currentgroup] = {}, NEW k \in DOMAIN shown,
                        NEW list, list = msgs[server[stream]][currentgroup]
                 PROVE  likeMap[k] \in DOMAIN list /\ list[likeMap[k]] = shown[k]
      BY DEF ScreenTrue
    <2>1. PICK id, at, as :
             /\ Calm(id, at, as) /\ stream \in Conn /\ server[stream] \in Server
             /\ currentgroup = at[stream] /\ username = as[stream]
             /\ user_id = id[stream] /\ user_id \in Id /\ currentgroup \in Group
      BY SettledPlace
    <2>2. Placed(id, at, as) /\ ScreensTrue /\ stream <= stream /\ stream # 0
      BY <2>1, Bounds DEF Calm
    <2>3. users[server[stream]][currentgroup][user_id].conn = stream
      BY <2>1, <2>2 DEF Placed
    <2>4. LeavesTrue(resp[stream], list, shown, likeMap)
      BY <2>1, <2>2, <2>3 DEF ScreensTrue
    <2>5. resp[stream] = <<>> /\ Len(resp[stream]) = 0
      BY DEF Settled
    <2>6. PICK p \in 0..Len(resp[stream]), n \in 0..Len(resp[stream]) :
             ScreenAfter(resp[stream], p, n, list, shown, likeMap)
      BY <2>4 DEF LeavesTrue
    <2>7. p = 0
      BY <2>5, <2>6
    <2>8. ShownRight(shown, likeMap, list)
      BY <2>6, <2>7 DEF ScreenAfter
    <2> QED
      BY <2>8 DEF ShownRight
  <1> QED
    BY <1>1, ChatClientInvariance, PTL
=============================================================================
