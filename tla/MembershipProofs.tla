-------------------------- MODULE MembershipProofs --------------------------
(***************************************************************************)
(* Who is in a group, how often a name is counted and which names are      *)
(* listed agree, for any clients, names, groups and number of requests, as *)
(* long as no handler changes a group while another changes it without the *)
(* mutex.                                                                  *)
(***************************************************************************)
EXTENDS Membership, FiniteSetTheorems, TLAPS

Bear(r, n) == {c \in Client : r.user[c] = n}

\* Each name is counted once for each bearer, those in "extra" once more.
Counted(r, extra) ==
    \A n \in Name : r.count[n] = Cardinality(Bear(r, n)) + (IF n \in extra THEN 1 ELSE 0)

\* The names with a bearer are listed, and those in "extra".
Listed(r, extra) == r.names = {n \in Name : Bear(r, n) # {}} \cup extra

Sound(r) == Counted(r, {}) /\ Listed(r, {})

\* How far the handler of c, whose client is gone, has brought r.
Stage(c, r) ==
    /\ pc[c] = "left" => /\ draft[c].stamp = r.count[name[c]]
                         /\ Counted(r, {name[c]}) /\ Listed(r, {name[c]})
    /\ pc[c] \in {"counted", "copied"} => Counted(r, {}) /\ Listed(r, {name[c]})
    /\ pc[c] = "copied" => draft[c].names = r.names /\ Bear(r, name[c]) = {}
    /\ pc[c] = "listed" => Sound(r)

\* A group that no two handlers have met in is sound, or one handler is on its
\* way to make it so.
Tidy(g) ==
    /\ Settled(g) => Sound(group[g])
    /\ \A c \in Client : Leaving(c, g) => Stage(c, group[g])
    /\ \A c, d \in Client : Leaving(c, g) /\ Leaving(d, g) => c = d

\* A handler whose client is gone is busy with a group.
LeavingGroup ==
    \A c \in Client : pc[c] \in {"left", "counted", "copied", "listed"} => mine[c] \in Group

\* The inductive invariant.
Inv == /\ TypeOK
       /\ HandlersKnow
       /\ UpUnlessRaced
       /\ LeavingGroup
       /\ \A g \in Group \ raced : Tidy(g)

-----------------------------------------------------------------------------
(***************************************************************************)
(* One group's record.                                                     *)
(***************************************************************************)
LEMMA AddType ==
    ASSUME NEW r \in GroupType, NEW n \in Name
    PROVE  AddUsername(r, n) \in GroupType /\ AddUsername(r, n).user = r.user
  <1>1. CASE r.count[n] = 0
    <2>1. AddUsername(r, n) = [user  |-> r.user, count |-> [r.count EXCEPT ![n] = 1],
                      names |-> r.names \cup {n}, stamp |-> r.stamp + 1]
      BY <1>1 DEF AddUsername, GroupType
    <2>2. r.names \cup {n} \in SUBSET Name
      BY DEF GroupType
    <2>3. r.stamp + 1 \in Nat /\ [r.count EXCEPT ![n] = 1] \in [Name -> Int]
      BY DEF GroupType
    <2> QED BY <2>1, <2>2, <2>3 DEF GroupType
  <1>2. CASE r.count[n] # 0
    BY <1>2 DEF AddUsername, GroupType
  <1> QED BY <1>1, <1>2

LEMMA DeleteType ==
    ASSUME NEW r \in GroupType, NEW n \in Name
    PROVE  DeleteUsername(r, n) \in GroupType /\ DeleteUsername(r, n).user = r.user
  <1>1. CASE r.count[n] = 1
    <2>1. DeleteUsername(r, n) = [user  |-> r.user, count |-> [r.count EXCEPT ![n] = 0],
                      names |-> r.names \ {n}, stamp |-> r.stamp + 1]
      BY <1>1 DEF DeleteUsername, GroupType
    <2>2. r.names \ {n} \in SUBSET Name
      BY DEF GroupType
    <2>3. r.stamp + 1 \in Nat /\ [r.count EXCEPT ![n] = 0] \in [Name -> Int]
      BY DEF GroupType
    <2> QED BY <2>1, <2>2, <2>3 DEF GroupType
  <1>2. CASE r.count[n] # 1
    BY <1>2 DEF DeleteUsername, GroupType
  <1> QED BY <1>1, <1>2

LEMMA JoinedType ==
    ASSUME NEW r \in GroupType, NEW c \in Client, NEW n \in Name
    PROVE  /\ Joined(r, c, n) \in GroupType
           /\ Joined(r, c, n).user = [r.user EXCEPT ![c] = n]
  <1> DEFINE q == [r EXCEPT !.user[c] = n]
  <1>1. q \in GroupType /\ q.user = [r.user EXCEPT ![c] = n]
    BY DEF GroupType
  <1> QED BY <1>1, AddType DEF Joined

LEMMA LeftType ==
    ASSUME NEW r \in GroupType, NEW c \in Client, r.user[c] \in Name
    PROVE  /\ Left(r, c) \in GroupType
           /\ Left(r, c).user = [r.user EXCEPT ![c] = NoName]
  <1> DEFINE q == DeleteUsername(r, r.user[c])
  <1>1. q \in GroupType /\ q.user = r.user
    BY DeleteType
  <1> QED BY <1>1 DEF Left, GroupType

LEMMA BearFinite ==
    ASSUME NEW r, NEW n
    PROVE  IsFiniteSet(Bear(r, n)) /\ Cardinality(Bear(r, n)) \in Nat
  BY ClientAssumption, FS_Subset, FS_CardinalityType, Bear(r, n) \subseteq Client DEF Bear

\* Bearers when c takes or drops a name.
LEMMA BearAdded ==
    ASSUME NEW r \in GroupType, NEW s \in GroupType, NEW c \in Client, NEW n \in Name,
           r.user[c] = NoName, s.user = [r.user EXCEPT ![c] = n]
    PROVE  /\ Bear(s, n) = Bear(r, n) \cup {c}
           /\ Cardinality(Bear(s, n)) = Cardinality(Bear(r, n)) + 1
           /\ \A m \in Name \ {n} : Bear(s, m) = Bear(r, m)
  <1>1. Bear(s, n) = Bear(r, n) \cup {c} /\ c \notin Bear(r, n)
    BY NoNameAssumption DEF Bear, GroupType
  <1>2. \A m \in Name \ {n} : Bear(s, m) = Bear(r, m)
    BY NoNameAssumption DEF Bear, GroupType
  <1>3. Cardinality(Bear(s, n)) = Cardinality(Bear(r, n)) + 1
    BY <1>1, BearFinite, FS_AddElement
  <1> QED BY <1>1, <1>2, <1>3

LEMMA BearRemoved ==
    ASSUME NEW r \in GroupType, NEW s \in GroupType, NEW c \in Client,
           r.user[c] \in Name, s.user = [r.user EXCEPT ![c] = NoName]
    PROVE  /\ Bear(s, r.user[c]) = Bear(r, r.user[c]) \ {c}
           /\ Cardinality(Bear(s, r.user[c])) = Cardinality(Bear(r, r.user[c])) - 1
           /\ \A m \in Name \ {r.user[c]} : Bear(s, m) = Bear(r, m)
  <1> DEFINE n == r.user[c]
  <1>1. Bear(s, n) = Bear(r, n) \ {c} /\ c \in Bear(r, n)
    BY NoNameAssumption DEF Bear, GroupType
  <1>2. \A m \in Name \ {n} : Bear(s, m) = Bear(r, m)
    BY NoNameAssumption DEF Bear, GroupType
  <1>3. Cardinality(Bear(s, n)) = Cardinality(Bear(r, n)) - 1
    BY <1>1, BearFinite, FS_RemoveElement
  <1> QED BY <1>1, <1>2, <1>3

LEMMA BearZero ==
    ASSUME NEW r, NEW n
    PROVE  Cardinality(Bear(r, n)) = 0 <=> Bear(r, n) = {}
  BY BearFinite, FS_EmptySet

LEMMA JoinedSound ==
    ASSUME NEW r \in GroupType, NEW c \in Client, NEW n \in Name,
           Sound(r), r.user[c] = NoName
    PROVE  Sound(Joined(r, c, n))
  <1> DEFINE s == Joined(r, c, n)
  <1>1. s \in GroupType /\ s.user = [r.user EXCEPT ![c] = n]
    BY JoinedType
  <1>2. /\ Bear(s, n) = Bear(r, n) \cup {c}
        /\ Cardinality(Bear(s, n)) = Cardinality(Bear(r, n)) + 1
        /\ \A m \in Name \ {n} : Bear(s, m) = Bear(r, m)
    BY <1>1, BearAdded
  <1>3. r.count[n] = Cardinality(Bear(r, n))
    BY BearFinite DEF Sound, Counted
  <1>4. s.count = [r.count EXCEPT ![n] = @ + 1]
    BY DEF Joined, AddUsername, GroupType
  <1>5. Counted(s, {})
    BY <1>2, <1>3, <1>4, BearFinite DEF Sound, Counted, GroupType
  <1>6. s.names = r.names \cup {n}
    <2>1. CASE r.count[n] = 0
      BY <2>1 DEF Joined, AddUsername, GroupType
    <2>2. CASE r.count[n] # 0
      <3>1. s.names = r.names
        BY <2>2 DEF Joined, AddUsername, GroupType
      <3>2. n \in r.names
        BY <2>2, <1>3, BearZero DEF Sound, Listed
      <3> QED BY <3>1, <3>2
    <2> QED BY <2>1, <2>2
  <1>7. Listed(s, {})
    BY <1>2, <1>6 DEF Sound, Listed
  <1> QED BY <1>5, <1>7 DEF Sound

LEMMA LeftSound ==
    ASSUME NEW r \in GroupType, NEW c \in Client, Sound(r), r.user[c] \in Name
    PROVE  Sound(Left(r, c))
  <1> DEFINE s == Left(r, c)
             n == r.user[c]
  <1>1. s \in GroupType /\ s.user = [r.user EXCEPT ![c] = NoName]
    BY LeftType
  <1>2. /\ Cardinality(Bear(s, n)) = Cardinality(Bear(r, n)) - 1
        /\ \A m \in Name \ {n} : Bear(s, m) = Bear(r, m)
    BY <1>1, BearRemoved
  <1>3. r.count[n] = Cardinality(Bear(r, n))
    BY BearFinite DEF Sound, Counted
  <1>4. s.count = [r.count EXCEPT ![n] = @ - 1]
    BY DEF Left, DeleteUsername, GroupType
  <1>5. Counted(s, {})
    BY <1>2, <1>3, <1>4, BearFinite DEF Sound, Counted, GroupType
  <1>6. CASE r.count[n] = 1
    <2>1. s.names = r.names \ {n}
      BY <1>6 DEF Left, DeleteUsername, GroupType
    <2>2. Bear(s, n) = {}
      BY <1>2, <1>3, <1>6, BearZero
    <2>3. Listed(s, {})
      BY <1>2, <2>1, <2>2 DEF Sound, Listed
    <2> QED BY <1>5, <2>3 DEF Sound
  <1>7. CASE r.count[n] # 1
    <2>1. s.names = r.names
      BY <1>7 DEF Left, DeleteUsername, GroupType
    <2>2. Bear(s, n) # {}
      BY <1>2, <1>3, <1>7, BearZero, BearFinite
    <2>3. n \in r.names
      <3>1. Bear(r, n) # {}
        BY DEF Bear
      <3> QED BY <3>1 DEF Sound, Listed
    <2>4. Listed(s, {})
      BY <1>2, <2>1, <2>2, <2>3 DEF Sound, Listed
    <2> QED BY <1>5, <2>4 DEF Sound
  <1> QED BY <1>6, <1>7

\* A change of name is leaving and joining again.
LEMMA RenamedIs ==
    ASSUME NEW r \in GroupType, NEW c \in Client, NEW n \in Name, r.user[c] \in Name
    PROVE  Renamed(r, c, n) = Joined(Left(r, c), c, n)
  <1> DEFINE old == r.user[c]
             a == DeleteUsername([r EXCEPT !.user[c] = n], old)
             b == [Left(r, c) EXCEPT !.user[c] = n]
  <1>1. a = b
    BY DEF Left, DeleteUsername, GroupType
  <1> QED BY <1>1 DEF Renamed, Joined

-----------------------------------------------------------------------------
(***************************************************************************)
(* Types.                                                                  *)
(***************************************************************************)
LEMMA ReversedType ==
    ASSUME NEW s \in Seq(Group)
    PROVE  Reversed(s) \in Seq(Group) /\ (Reversed(s) = <<>> <=> s = <<>>)
  <1>1. \A k \in 1..Len(s) : Len(s) + 1 - k \in 1..Len(s)
    OBVIOUS
  <1>2. DOMAIN s = 1..Len(s)
    OBVIOUS
  <1>3. Reversed(s) \in [1..Len(s) -> Group]
    BY <1>1, <1>2 DEF Reversed
  <1>4. Reversed(s) \in Seq(Group) /\ Len(Reversed(s)) = Len(s)
    BY <1>3
  <1> QED BY <1>4

LEMMA RequestType ==
    ASSUME TypeOK, NEW c \in Client, NEW show \in Seq(Group), show # <<>>, Request(c, show)
    PROVE  /\ up' \in BOOLEAN
           /\ pc' \in [Client -> {"ready", "showing", "telling", "left", "counted",
                                  "copied", "listed", "gone"}]
           /\ todo' \in [Client -> Seq(Group)]
           /\ draft' = draft /\ peer' = peer
           /\ ops' \in 0..MaxOps
           /\ \A d \in Client : pc'[d] \in {"showing", "telling"} <=> todo'[d] # <<>>
  <1>1. ops' \in 0..MaxOps
    BY MaxOpsAssumption DEF TypeOK, Request
  <1>2. todo' \in [Client -> Seq(Group)]
    BY DEF TypeOK, Request
  <1> QED BY <1>1, <1>2 DEF TypeOK, Request

LEMMA RacesType ==
    ASSUME TypeOK, NEW c, NEW changed \in SUBSET Group, Races(c, changed)
    PROVE  raced' \subseteq Group /\ raced \subseteq raced'
  BY DEF TypeOK, Races

LEMMA InitType == Init => TypeOK
  <1> SUFFICES ASSUME Init PROVE TypeOK
    OBVIOUS
  <1>1. group \in [Group -> GroupType]
    BY DEF Init, EmptyGroup, GroupType
  <1>2. \A c \in Client : pc[c] \in {"showing", "telling"} <=> todo[c] # <<>>
    BY DEF Init
  <1>3. ops \in 0..MaxOps
    BY MaxOpsAssumption DEF Init
  <1> QED BY <1>1, <1>2, <1>3 DEF Init, TypeOK, NoDraft

LEMMA InsertionType ==
    ASSUME TypeOK, NEW g \in Group, NEW names \in SUBSET Name, NEW stamp \in Int,
           Insertion(g, names, stamp)
    PROVE  peer' \in [Group -> [names : SUBSET Name, stamp : Nat]]
  BY DEF TypeOK, Insertion

LEMMA JoinType ==
    ASSUME TypeOK, HandlersKnow, NEW c \in Client, NEW g \in Group, Join(c, g)
    PROVE  TypeOK'
  <1>1. <<g>> \in Seq(Group) /\ <<g>> # <<>>
    OBVIOUS
  <1>2. group' \in [Group -> GroupType]
    BY JoinedType DEF TypeOK, Join
  <1>3. raced' \subseteq Group
    BY RacesType DEF Join
  <1>4. mine' \in [Client -> Group \cup {NoGroup}] /\ name' \in [Client -> Name]
    BY DEF TypeOK, Join
  <1> QED BY <1>1, <1>2, <1>3, <1>4, RequestType DEF TypeOK, Join

\* A client whose handler waits for a request is in its group under its name.
LEMMA ReadyIsThere ==
    ASSUME TypeOK, HandlersKnow, NEW c \in Client, pc[c] = "ready", mine[c] # NoGroup
    PROVE  mine[c] \in Group /\ group[mine[c]].user[c] = name[c] /\ name[c] \in Name
  BY DEF TypeOK, HandlersKnow, Leaving

LEMMA SwitchType ==
    ASSUME TypeOK, HandlersKnow, NEW c \in Client, NEW g \in Group, Switch(c, g)
    PROVE  TypeOK'
  <1>1. mine[c] \in Group /\ group[mine[c]].user[c] \in Name /\ name[c] \in Name
    BY ReadyIsThere DEF Switch, Request
  <1>2. <<g, mine[c]>> \in Seq(Group) /\ <<g, mine[c]>> # <<>>
    BY <1>1
  <1> DEFINE after == [group EXCEPT ![mine[c]] = Left(@, c)]
  <1>3. after \in [Group -> GroupType]
    BY <1>1, LeftType DEF TypeOK
  <1>4. group' = [after EXCEPT ![g] = Joined(@, c, name[c])]
    BY DEF Switch
  <1>5. group' \in [Group -> GroupType]
    BY <1>1, <1>3, <1>4, JoinedType
  <1>6. raced' \subseteq Group
    BY <1>1, RacesType DEF Switch
  <1>7. mine' \in [Client -> Group \cup {NoGroup}] /\ name' \in [Client -> Name]
    BY DEF TypeOK, Switch
  <1> QED BY <1>2, <1>5, <1>6, <1>7, RequestType DEF TypeOK, Switch

LEMMA ChangeIdentityType ==
    ASSUME TypeOK, HandlersKnow, NEW c \in Client, NEW n \in Name, ChangeIdentity(c, n)
    PROVE  TypeOK'
  <1>1. mine[c] \in Group /\ group[mine[c]].user[c] \in Name
    BY ReadyIsThere DEF ChangeIdentity, Request
  <1>2. <<mine[c]>> \in Seq(Group) /\ <<mine[c]>> # <<>>
    BY <1>1
  <1>3. Renamed(group[mine[c]], c, n) \in GroupType
    <2>1. group[mine[c]] \in GroupType
      BY <1>1 DEF TypeOK
    <2>2. Left(group[mine[c]], c) \in GroupType
      BY <1>1, <2>1, LeftType
    <2> QED BY <1>1, <2>1, <2>2, RenamedIs, JoinedType
  <1>4. group' \in [Group -> GroupType]
    BY <1>1, <1>3 DEF TypeOK, ChangeIdentity
  <1>5. raced' \subseteq Group
    BY <1>1, RacesType DEF ChangeIdentity
  <1>6. mine' \in [Client -> Group \cup {NoGroup}] /\ name' \in [Client -> Name]
    BY DEF TypeOK, ChangeIdentity
  <1> QED BY <1>2, <1>4, <1>5, <1>6, RequestType DEF TypeOK, ChangeIdentity

LEMMA QuitType ==
    ASSUME TypeOK, NEW c \in Client, Quit(c)
    PROVE  TypeOK'
  <1>1. mine[c] \in Group
    BY DEF TypeOK, Quit
  <1>2. <<mine[c]>> \in Seq(Group) /\ <<mine[c]>> # <<>>
    BY <1>1
  <1> QED BY <1>2, RequestType DEF TypeOK, Quit

Draft == [names : SUBSET Name, stamp : Int, read : SUBSET {"names", "stamp"}]

LEMMA EntryNames ==
    ASSUME NEW d \in Draft, NEW names \in SUBSET Name
    PROVE  /\ [d EXCEPT !.names = names] \in Draft
           /\ [d EXCEPT !.names = names, !.read = @ \cup {"names"}] \in Draft
  <1>1. d.read \cup {"names"} \in SUBSET {"names", "stamp"}
    BY DEF Draft
  <1> QED BY <1>1 DEF Draft

LEMMA EntryStamp ==
    ASSUME NEW d \in Draft, NEW stamp \in Int
    PROVE  /\ [d EXCEPT !.stamp = stamp] \in Draft
           /\ [d EXCEPT !.stamp = stamp, !.read = @ \cup {"stamp"}] \in Draft
  <1>1. d.read \cup {"stamp"} \in SUBSET {"names", "stamp"}
    BY DEF Draft
  <1> QED BY <1>1 DEF Draft

LEMMA EmptyIsShort == \A s \in Seq(Group) : s # <<>> <=> Len(s) # 0
  OBVIOUS

LEMMA TellingTypes ==
    ASSUME TypeOK, NEW c \in Client, Show(c) \/ ReadNames(c) \/ ReadStamp(c) \/ Tell(c)
    PROVE  TypeOK'
  <1>0. pc[c] = "telling" => /\ todo[c] # <<>> /\ Head(todo[c]) \in Group
                             /\ Tail(todo[c]) \in Seq(Group)
                             /\ Tail(todo[c]) # <<>> <=> Len(todo[c]) > 1
    <2> SUFFICES ASSUME pc[c] = "telling"
                 PROVE  /\ todo[c] # <<>> /\ Head(todo[c]) \in Group
                        /\ Tail(todo[c]) \in Seq(Group)
                        /\ Tail(todo[c]) # <<>> <=> Len(todo[c]) > 1
      OBVIOUS
    <2>1. todo[c] # <<>> /\ todo[c] \in Seq(Group)
      BY DEF TypeOK
    <2>2. Len(todo[c]) \in Nat \ {0} /\ Head(todo[c]) \in Group
      BY <2>1
    <2>3. Tail(todo[c]) \in Seq(Group) /\ Len(Tail(todo[c])) = Len(todo[c]) - 1
      BY <2>1, <2>2
    <2>4. Tail(todo[c]) # <<>> <=> Len(Tail(todo[c])) # 0
      BY <2>3, EmptyIsShort
    <2>5. Len(todo[c]) - 1 # 0 <=> Len(todo[c]) > 1
      <3> \A k \in Nat \ {0} : k - 1 # 0 <=> k > 1
        OBVIOUS
      <3> QED BY <2>2, Zenon
    <2> QED BY <2>1, <2>2, <2>3, <2>4, <2>5, Zenon
  <1>1. CASE Show(c)
    <2>1. todo' \in [Client -> Seq(Group)] /\ (todo'[c] = <<>> <=> todo[c] = <<>>)
      BY <1>1, ReversedType DEF TypeOK, Show
    <2>2. up' \in BOOLEAN
      BY <1>1, Zenon DEF Show
    <2> QED BY <1>1, <2>1, <2>2 DEF TypeOK, Show
  <1>2. CASE ReadNames(c)
    <2>1. group[Head(todo[c])].names \in SUBSET Name
      BY <1>0, <1>2 DEF TypeOK, GroupType, ReadNames
    <2>2. draft' \in [Client -> [names : SUBSET Name, stamp : Int,
                                 read : SUBSET {"names", "stamp"}]]
      BY <1>2, <2>1, EntryNames DEF TypeOK, Draft, ReadNames
    <2> QED BY <1>2, <2>2 DEF TypeOK, ReadNames
  <1>3. CASE ReadStamp(c)
    <2>1. group[Head(todo[c])].stamp \in Int
      BY <1>0, <1>3 DEF TypeOK, GroupType, ReadStamp
    <2>2. draft' \in [Client -> [names : SUBSET Name, stamp : Int,
                                 read : SUBSET {"names", "stamp"}]]
      <3> DEFINE x == group[Head(todo[c])].stamp
                 e == [draft[c] EXCEPT !.stamp = x, !.read = @ \cup {"stamp"}]
      <3>1. e \in Draft
        BY <2>1, EntryStamp DEF TypeOK, Draft
      <3> HIDE DEF e
      <3>2. draft' = [draft EXCEPT ![c] = e]
        BY <1>3 DEF TypeOK, ReadStamp, e
      <3> QED BY <3>1, <3>2 DEF TypeOK, Draft
    <2> QED BY <1>3, <2>2 DEF TypeOK, ReadStamp
  <1>4. CASE Tell(c)
    <2>1. peer' \in [Group -> [names : SUBSET Name, stamp : Nat]]
      BY <1>0, <1>4, InsertionType DEF TypeOK, Tell
    <2>2. ops' \in 0..MaxOps
      BY <1>4, MaxOpsAssumption DEF TypeOK, Tell
    <2>3. todo' \in [Client -> Seq(Group)]
      BY <1>0, <1>4 DEF TypeOK, Tell
    <2>4. \A d \in Client : pc'[d] \in {"showing", "telling"} <=> todo'[d] # <<>>
      BY <1>0, <1>4 DEF TypeOK, Tell
    <2>5. draft' \in [Client -> [names : SUBSET Name, stamp : Int,
                                 read : SUBSET {"names", "stamp"}]]
      BY <1>4 DEF TypeOK, Tell, NoDraft
    <2> QED BY <1>4, <2>1, <2>2, <2>3, <2>4, <2>5 DEF TypeOK, Tell
  <1> QED BY <1>1, <1>2, <1>3, <1>4

LEMMA CheckForMergeType ==
    ASSUME TypeOK, NEW g \in Group, CheckForMerge(g)
    PROVE  TypeOK'
  <1>1. group[g].names \in SUBSET Name /\ group[g].stamp \in Int
    BY DEF TypeOK, GroupType
  <1> QED BY <1>1, InsertionType DEF TypeOK, CheckForMerge

LEMMA DepartsType ==
    ASSUME TypeOK, NEW c \in Client, mine[c] \in Group, Departs(c)
    PROVE  /\ mine' \in [Client -> Group \cup {NoGroup}]
           /\ todo' \in [Client -> Seq(Group)]
           /\ draft' \in [Client -> [names : SUBSET Name, stamp : Int,
                                     read : SUBSET {"names", "stamp"}]]
           /\ pc' \in [Client -> {"ready", "showing", "telling", "left", "counted",
                                  "copied", "listed", "gone"}]
           /\ \A d \in Client : pc'[d] \in {"showing", "telling"} <=> todo'[d] # <<>>
  <1>1. <<mine[c]>> \in Seq(Group) /\ <<mine[c]>> # <<>>
    OBVIOUS
  <1> QED BY <1>1 DEF TypeOK, Departs, NoDraft

LEMMA LeavingTypes ==
    ASSUME TypeOK, LeavingGroup, NEW c \in Client,
           Leave(c) \/ Uncount(c) \/ CopyNames(c) \/ Unlist(c) \/ Stamp(c)
    PROVE  TypeOK'
  <1>0. mine[c] \in Group /\ group[mine[c]] \in GroupType /\ name[c] \in Name
    BY DEF TypeOK, LeavingGroup, Leave, Uncount, CopyNames, Unlist, Stamp
  <1>1. CASE Leave(c)
    <2>1. group' \in [Group -> GroupType]
      BY <1>0, <1>1 DEF TypeOK, GroupType, Leave
    <2>2. group[mine[c]].count[name[c]] \in Int
      BY <1>0 DEF GroupType
    <2>3. raced' \subseteq Group
      BY <1>0, <1>1, RacesType DEF Leave
    <2>4. draft' \in [Client -> [names : SUBSET Name, stamp : Int,
                                 read : SUBSET {"names", "stamp"}]]
      BY <1>1, <2>2, EntryStamp DEF TypeOK, Draft, Leave
    <2> QED BY <1>1, <2>1, <2>3, <2>4 DEF TypeOK, Leave
  <1>2. CASE Uncount(c)
    <2>1. group' \in [Group -> GroupType]
      <3>1. draft[c].stamp - 1 \in Int
        BY DEF TypeOK
      <3>2. [group[mine[c]] EXCEPT !.count[name[c]] = draft[c].stamp - 1] \in GroupType
        BY <1>0, <3>1 DEF GroupType
      <3> QED BY <1>0, <1>2, <3>2 DEF TypeOK, Uncount
    <2>2. raced' \subseteq Group
      BY <1>0, <1>2, RacesType DEF Uncount
    <2> QED BY <1>2, <2>1, <2>2 DEF TypeOK, Uncount, NoDraft
  <1>3. CASE CopyNames(c)
    <2>1. CASE Departs(c)
      BY <1>0, <1>3, <2>1, DepartsType DEF TypeOK, CopyNames
    <2>2. CASE ~Departs(c)
      <3>1. group[mine[c]].names \in SUBSET Name
        BY <1>0 DEF GroupType
      <3>2. draft' \in [Client -> [names : SUBSET Name, stamp : Int,
                                   read : SUBSET {"names", "stamp"}]]
        <4> DEFINE x == group[mine[c]].names
                   e == [draft[c] EXCEPT !.names = x]
        <4>1. e \in Draft
          BY <3>1, EntryNames DEF TypeOK, Draft
        <4> HIDE DEF e
        <4>2. draft' = [draft EXCEPT ![c] = e]
          BY <1>3, <2>2 DEF TypeOK, CopyNames, e
        <4> QED BY <4>1, <4>2 DEF TypeOK, Draft
      <3>3. mine' = mine /\ todo' = todo /\ pc' = [pc EXCEPT ![c] = "copied"] /\ pc[c] = "counted"
        BY <1>3, <2>2 DEF CopyNames
      <3> QED BY <1>3, <3>2, <3>3 DEF TypeOK, CopyNames
    <2> QED BY <2>1, <2>2
  <1>4. CASE Unlist(c)
    <2>0. draft[c].names \ {name[c]} \in SUBSET Name
      BY DEF TypeOK
    <2>1. group' \in [Group -> GroupType]
      BY <1>0, <1>4, <2>0 DEF TypeOK, GroupType, Unlist
    <2>2. raced' \subseteq Group
      BY <1>0, <1>4, RacesType DEF Unlist
    <2> QED BY <1>4, <2>1, <2>2 DEF TypeOK, Unlist
  <1>5. CASE Stamp(c)
    <2>1. group' \in [Group -> GroupType]
      <3>1. [group[mine[c]] EXCEPT !.stamp = @ + 1] \in GroupType
        BY <1>0 DEF GroupType
      <3> QED BY <1>0, <1>5, <3>1 DEF TypeOK, Stamp
    <2>2. raced' \subseteq Group
      BY <1>0, <1>5, RacesType DEF Stamp
    <2> QED BY <1>0, <1>5, <2>1, <2>2, DepartsType DEF TypeOK, Stamp
  <1> QED BY <1>1, <1>2, <1>3, <1>4, <1>5

-----------------------------------------------------------------------------
(***************************************************************************)
(* Handlers know where their clients are.                                  *)
(***************************************************************************)
\* Only the handler of c goes on, and it knows where c is.
KnowsAfter(c) ==
    /\ \A d \in Client \ {c} : /\ pc'[d] = pc[d] /\ mine'[d] = mine[d] /\ name'[d] = name[d]
                               /\ \A h \in Group : group'[h].user[d] = group[h].user[d]
    /\ \A h \in Group : group'[h].user[c] = IF mine'[c] = h /\ ~Leaving(c, h)'
                                            THEN name'[c] ELSE NoName

LEMMA KnowFrame ==
    ASSUME HandlersKnow, NEW c \in Client, KnowsAfter(c)
    PROVE  HandlersKnow'
  <1> SUFFICES ASSUME NEW d \in Client, NEW h \in Group
               PROVE  group'[h].user[d] = IF mine'[d] = h /\ ~Leaving(d, h)'
                                          THEN name'[d] ELSE NoName
    BY DEF HandlersKnow
  <1>1. CASE d = c
    BY <1>1 DEF KnowsAfter
  <1>2. CASE d # c
    <2>1. Leaving(d, h)' <=> Leaving(d, h)
      BY <1>2 DEF KnowsAfter, Leaving
    <2> QED BY <1>2, <2>1 DEF KnowsAfter, HandlersKnow
  <1> QED BY <1>1, <1>2

LEMMA JoinKnows ==
    ASSUME TypeOK, HandlersKnow, NEW c \in Client, NEW g \in Group, Join(c, g)
    PROVE  HandlersKnow'
  <1>1. group'[g].user = [group[g].user EXCEPT ![c] = name[c]]
    BY JoinedType DEF TypeOK, Join
  <1>2. \A h \in Group \ {g} : group'[h] = group[h]
    BY DEF TypeOK, Join
  <1>3. group[g].user \in [Client -> Name \cup {NoName}]
    BY DEF TypeOK, GroupType
  <1>4. \A h \in Group : group[h].user[c] = NoName
    BY NoGroupAssumption DEF HandlersKnow, Join
  <1>5. mine' = [mine EXCEPT ![c] = g] /\ pc' = [pc EXCEPT ![c] = "showing"] /\ name' = name
    BY DEF Join, Request
  <1>6. ~Leaving(c, g)'
    BY <1>5 DEF TypeOK, Leaving
  <1>7. KnowsAfter(c)
    BY <1>1, <1>2, <1>3, <1>4, <1>5, <1>6 DEF TypeOK, KnowsAfter
  <1> QED BY <1>7, KnowFrame

LEMMA SwitchKnows ==
    ASSUME TypeOK, HandlersKnow, NEW c \in Client, NEW g \in Group, Switch(c, g)
    PROVE  HandlersKnow'
  <1> DEFINE m == mine[c]
             after == [group EXCEPT ![m] = Left(@, c)]
  <1>1. m \in Group /\ group[m].user[c] \in Name /\ name[c] \in Name
    BY ReadyIsThere DEF Switch, Request
  <1>2. /\ after \in [Group -> GroupType]
        /\ after[m].user = [group[m].user EXCEPT ![c] = NoName]
        /\ \A h \in Group \ {m} : after[h] = group[h]
    BY <1>1, LeftType DEF TypeOK
  <1>3. group' = [after EXCEPT ![g] = Joined(@, c, name[c])]
    BY DEF Switch
  <1>4. /\ group'[g].user = [after[g].user EXCEPT ![c] = name[c]]
        /\ \A h \in Group \ {g} : group'[h] = after[h]
    BY <1>1, <1>2, <1>3, JoinedType
  <1>5. \A h \in Group : /\ group[h].user \in [Client -> Name \cup {NoName}]
                         /\ after[h].user \in [Client -> Name \cup {NoName}]
    BY <1>2 DEF TypeOK, GroupType
  <1>6. \A h \in Group \ {m} : group[h].user[c] = NoName
    BY DEF HandlersKnow
  <1>7. mine' = [mine EXCEPT ![c] = g] /\ pc' = [pc EXCEPT ![c] = "showing"] /\ name' = name
    BY DEF Switch, Request
  <1>8. mine'[c] = g /\ ~Leaving(c, g)'
    BY <1>7 DEF TypeOK, Leaving
  <1>9. \A h \in Group : \A d \in Client \ {c} : group'[h].user[d] = group[h].user[d]
    <2> HIDE DEF after
    <2> SUFFICES ASSUME NEW h \in Group, NEW d \in Client \ {c}
                 PROVE  group'[h].user[d] = group[h].user[d]
      OBVIOUS
    <2>1. after[h].user[d] = group[h].user[d]
      BY <1>1, <1>2, <1>5
    <2>2. group'[h].user[d] = after[h].user[d]
      BY <1>4, <1>5
    <2> QED BY <2>1, <2>2
  <1>10. \A h \in Group \ {g} : group'[h].user[c] = NoName
    <2> HIDE DEF after
    <2> QED BY <1>1, <1>2, <1>4, <1>5, <1>6
  <1>11. group'[g].user[c] = name'[c]
    BY <1>4, <1>5, <1>7
  <1>12. KnowsAfter(c)
    BY <1>7, <1>8, <1>9, <1>10, <1>11 DEF TypeOK, KnowsAfter
  <1> QED BY <1>12, KnowFrame

LEMMA ChangeIdentityKnows ==
    ASSUME TypeOK, HandlersKnow, NEW c \in Client, NEW n \in Name, ChangeIdentity(c, n)
    PROVE  HandlersKnow'
  <1> DEFINE m == mine[c]
  <1>1. m \in Group /\ group[m].user[c] \in Name /\ group[m] \in GroupType
    BY ReadyIsThere DEF TypeOK, ChangeIdentity, Request
  <1>2. /\ Left(group[m], c) \in GroupType
        /\ Left(group[m], c).user = [group[m].user EXCEPT ![c] = NoName]
    BY <1>1, LeftType
  <1>3. Renamed(group[m], c, n).user = [Left(group[m], c).user EXCEPT ![c] = n]
    BY <1>1, <1>2, RenamedIs, JoinedType
  <1>4. group'[m] = Renamed(group[m], c, n) /\ \A h \in Group \ {m} : group'[h] = group[h]
    BY <1>1 DEF TypeOK, ChangeIdentity
  <1>5. group[m].user \in [Client -> Name \cup {NoName}]
    BY <1>1 DEF GroupType
  <1>6. group'[m].user = [group[m].user EXCEPT ![c] = n]
    BY <1>2, <1>3, <1>4, <1>5
  <1>7. mine' = mine /\ pc' = [pc EXCEPT ![c] = "showing"] /\ name' = [name EXCEPT ![c] = n]
    BY DEF ChangeIdentity, Request
  <1>8. ~Leaving(c, m)' /\ name'[c] = n
    BY <1>7 DEF TypeOK, Leaving
  <1>9. \A h \in Group \ {m} : group[h].user[c] = NoName
    BY DEF HandlersKnow
  <1> HIDE DEF m
  <1>10. \A d \in Client \ {c} : \A h \in Group : group'[h].user[d] = group[h].user[d]
    BY <1>1, <1>4, <1>5, <1>6
  <1>11. group'[m].user[c] = n /\ \A h \in Group \ {m} : group'[h].user[c] = NoName
    BY <1>4, <1>5, <1>6, <1>9 DEF m
  <1>12. KnowsAfter(c)
    BY <1>1, <1>7, <1>8, <1>10, <1>11 DEF TypeOK, KnowsAfter, m
  <1> QED BY <1>12, KnowFrame

\* A step that leaves UserList alone, taken by the handler of c.
LEMMA StillKnows ==
    ASSUME TypeOK, HandlersKnow, NEW c \in Client,
           \A h \in Group : group'[h].user = group[h].user,
           \A d \in Client \ {c} : pc'[d] = pc[d] /\ mine'[d] = mine[d],
           name' = name,
           \/ mine'[c] = mine[c] /\ \A h \in Group : Leaving(c, h)' <=> Leaving(c, h)
           \/ mine'[c] = NoGroup /\ Leaving(c, mine[c])
    PROVE  HandlersKnow'
  <1>1. CASE mine'[c] = mine[c] /\ \A h \in Group : Leaving(c, h)' <=> Leaving(c, h)
    BY <1>1, KnowFrame DEF KnowsAfter, HandlersKnow
  <1>2. CASE mine'[c] = NoGroup /\ Leaving(c, mine[c])
    <2>1. \A h \in Group : group[h].user[c] = NoName /\ mine'[c] # h
      BY <1>2, NoGroupAssumption DEF HandlersKnow
    <2> QED BY <2>1, KnowFrame DEF KnowsAfter
  <1> QED BY <1>1, <1>2

LEMMA TellingKnows ==
    ASSUME TypeOK, HandlersKnow, NEW c \in Client,
           Quit(c) \/ Show(c) \/ ReadNames(c) \/ ReadStamp(c) \/ Tell(c)
    PROVE  HandlersKnow'
  <1>1. /\ group' = group /\ mine' = mine /\ name' = name
        /\ \A d \in Client \ {c} : pc'[d] = pc[d]
    BY DEF TypeOK, Quit, Request, Show, ReadNames, ReadStamp, Tell
  <1>2. pc[c] \in {"ready", "showing", "telling"} /\ pc'[c] \in {"showing", "telling", "gone", "ready"}
    BY DEF TypeOK, Quit, Request, Show, ReadNames, ReadStamp, Tell
  <1>3. \A h \in Group : Leaving(c, h)' <=> Leaving(c, h)
    BY <1>1, <1>2 DEF Leaving
  <1> QED BY <1>1, <1>3, StillKnows

LEMMA LeaveKnows ==
    ASSUME TypeOK, HandlersKnow, NEW c \in Client, Leave(c)
    PROVE  HandlersKnow'
  <1> DEFINE m == mine[c]
  <1>1. m \in Group /\ group[m] \in GroupType
    BY DEF TypeOK, Leave
  <1>2. group'[m].user = [group[m].user EXCEPT ![c] = NoName]
    BY <1>1 DEF TypeOK, GroupType, Leave
  <1>3. \A h \in Group \ {m} : group'[h] = group[h]
    BY <1>1 DEF TypeOK, Leave
  <1>4. mine' = mine /\ name' = name /\ pc' = [pc EXCEPT ![c] = "left"]
    BY DEF Leave
  <1>5. Leaving(c, m)' /\ group[m].user \in [Client -> Name \cup {NoName}]
    BY <1>1, <1>4 DEF TypeOK, Leaving, GroupType
  <1>6. \A h \in Group \ {m} : group[h].user[c] = NoName
    BY DEF HandlersKnow
  <1> HIDE DEF m
  <1>7. \A d \in Client \ {c} : \A h \in Group : group'[h].user[d] = group[h].user[d]
    BY <1>1, <1>2, <1>3, <1>5
  <1>8. \A h \in Group : group'[h].user[c] = NoName
    BY <1>1, <1>2, <1>3, <1>5, <1>6
  <1>9. KnowsAfter(c)
    BY <1>1, <1>4, <1>5, <1>7, <1>8 DEF TypeOK, KnowsAfter, m
  <1> QED BY <1>9, KnowFrame

LEMMA LeavingKnows ==
    ASSUME TypeOK, HandlersKnow, LeavingGroup, NEW c \in Client,
           Uncount(c) \/ CopyNames(c) \/ Unlist(c) \/ Stamp(c)
    PROVE  HandlersKnow'
  <1>1. mine[c] \in Group /\ Leaving(c, mine[c])
    BY DEF LeavingGroup, Leaving, Uncount, CopyNames, Unlist, Stamp
  <1>2. \A h \in Group : group'[h].user = group[h].user
    <2>0. group[mine[c]] \in GroupType
      BY <1>1 DEF TypeOK
    <2>1. CASE Uncount(c)
      BY <1>1, <2>0, <2>1 DEF TypeOK, GroupType, Uncount
    <2>2. CASE CopyNames(c)
      BY <2>2 DEF CopyNames
    <2>3. CASE Unlist(c)
      BY <1>1, <2>0, <2>3 DEF TypeOK, GroupType, Unlist
    <2>4. CASE Stamp(c)
      BY <1>1, <2>0, <2>4 DEF TypeOK, GroupType, Stamp
    <2> QED BY <2>1, <2>2, <2>3, <2>4
  <1>3. \A d \in Client \ {c} : pc'[d] = pc[d] /\ mine'[d] = mine[d]
    BY DEF TypeOK, Uncount, CopyNames, Unlist, Stamp, Departs
  <1>4. name' = name
    BY DEF Uncount, CopyNames, Unlist, Stamp
  <1>5. \/ mine'[c] = NoGroup
        \/ mine'[c] = mine[c] /\ pc'[c] \in {"left", "counted", "copied", "listed"}
    BY DEF TypeOK, Uncount, CopyNames, Unlist, Stamp, Departs
  <1>6. \/ mine'[c] = NoGroup
        \/ mine'[c] = mine[c] /\ \A h \in Group : Leaving(c, h)' <=> Leaving(c, h)
    BY <1>1, <1>5 DEF Leaving
  <1> QED BY <1>1, <1>2, <1>3, <1>4, <1>6, StillKnows

-----------------------------------------------------------------------------
(***************************************************************************)
(* Counts and lists.                                                       *)
(***************************************************************************)
Busy == {"left", "counted", "copied", "listed"}

\* Of a group a handler changes and that is not raced after it, no other
\* handler is in the middle.
LEMMA Alone ==
    ASSUME NEW c \in Client, NEW changed, Races(c, changed),
           NEW g \in changed, g \in Group \ raced'
    PROVE  g \notin raced /\ \A d \in Client \ {c} : ~Leaving(d, g)
  BY DEF Races

\* Nothing that concerns g changes.
LEMMA TidyFrame ==
    ASSUME NEW g \in Group, Tidy(g), group'[g] = group[g],
           \A d \in Client : Leaving(d, g)' <=> Leaving(d, g),
           \A d \in Client : Leaving(d, g) =>
               pc'[d] = pc[d] /\ draft'[d] = draft[d] /\ name'[d] = name[d]
    PROVE  Tidy(g)'
  <1>1. Settled(g)' => Sound(group'[g])
    BY DEF Tidy, Settled
  <1>2. ASSUME NEW d \in Client, Leaving(d, g)'
        PROVE  Stage(d, group[g])'
    BY <1>2 DEF Tidy, Stage
  <1>3. \A c, d \in Client : Leaving(c, g)' /\ Leaving(d, g)' => c = d
    BY DEF Tidy
  <1> QED BY <1>1, <1>2, <1>3 DEF Tidy

\* A step of c's handler that concerns no group it leaves.
LEMMA TidyAside ==
    ASSUME NEW g \in Group, Tidy(g), group'[g] = group[g], NEW c \in Client,
           ~Leaving(c, g), ~Leaving(c, g)',
           \A d \in Client \ {c} : /\ pc'[d] = pc[d] /\ mine'[d] = mine[d]
                                   /\ name'[d] = name[d] /\ draft'[d] = draft[d]
    PROVE  Tidy(g)'
  <1>1. \A d \in Client : Leaving(d, g)' <=> Leaving(d, g)
    BY DEF Leaving
  <1> QED BY <1>1, TidyFrame

\* The group is sound and nobody is in the middle of changing it.
LEMMA TidyWhole ==
    ASSUME NEW g \in Group, Sound(group'[g]), \A d \in Client : ~Leaving(d, g)'
    PROVE  Tidy(g)'
  BY DEF Tidy

\* The handler of c, alone, is in the middle of changing g.
LEMMA TidyStage ==
    ASSUME NEW g \in Group, NEW c \in Client, Leaving(c, g)', Stage(c, group[g])',
           \A d \in Client \ {c} : ~Leaving(d, g)'
    PROVE  Tidy(g)'
  BY DEF Tidy, Settled

LEMMA RequestTidy ==
    ASSUME TypeOK, NEW c \in Client, NEW show, Request(c, show),
           NEW changed \in SUBSET Group, Races(c, changed),
           \A g \in Group \ raced : Tidy(g),
           \A g \in Group \ changed : group'[g] = group[g],
           \A d \in Client \ {c} : mine'[d] = mine[d] /\ name'[d] = name[d],
           \A g \in changed : Sound(group[g]) => Sound(group'[g])
    PROVE  \A g \in Group \ raced' : Tidy(g)'
  <1> SUFFICES ASSUME NEW g \in Group \ raced' PROVE Tidy(g)'
    OBVIOUS
  <1>1. g \notin raced
    BY RacesType
  <1>2. /\ draft' = draft /\ pc[c] = "ready" /\ pc'[c] = "showing"
        /\ \A d \in Client \ {c} : pc'[d] = pc[d]
    BY DEF TypeOK, Request
  <1>3. ~Leaving(c, g) /\ ~Leaving(c, g)'
    BY <1>2 DEF Leaving
  <1>4. CASE g \notin changed
    BY <1>1, <1>2, <1>3, <1>4, TidyAside
  <1>5. CASE g \in changed
    <2>1. \A d \in Client \ {c} : ~Leaving(d, g)
      BY <1>5, Alone
    <2>2. Sound(group[g])
      BY <1>1, <1>3, <2>1 DEF Tidy, Settled
    <2>3. \A d \in Client \ {c} : ~Leaving(d, g)'
      BY <1>2, <2>1 DEF Leaving
    <2> QED BY <1>3, <1>5, <2>2, <2>3, TidyWhole
  <1> QED BY <1>4, <1>5

LEMMA JoinTidy ==
    ASSUME Inv, NEW c \in Client, NEW g \in Group, Join(c, g)
    PROVE  \A h \in Group \ raced' : Tidy(h)'
  <1>1. group[g] \in GroupType /\ name[c] \in Name /\ group[g].user[c] = NoName
    BY NoGroupAssumption DEF Inv, TypeOK, HandlersKnow, Join
  <1>2. group'[g] = Joined(group[g], c, name[c]) /\ \A h \in Group \ {g} : group'[h] = group[h]
    BY DEF Inv, TypeOK, Join
  <1>3. Sound(group[g]) => Sound(group'[g])
    BY <1>1, <1>2, JoinedSound
  <1>4. \A d \in Client \ {c} : mine'[d] = mine[d] /\ name'[d] = name[d]
    BY DEF Inv, TypeOK, Join
  <1>5. Request(c, <<g>>) /\ Races(c, {g})
    BY DEF Join
  <1> QED BY <1>2, <1>3, <1>4, <1>5, RequestTidy DEF Inv

LEMMA SwitchTidy ==
    ASSUME Inv, NEW c \in Client, NEW g \in Group, Switch(c, g)
    PROVE  \A h \in Group \ raced' : Tidy(h)'
  <1> DEFINE m == mine[c]
             after == [group EXCEPT ![m] = Left(@, c)]
  <1>1. m \in Group /\ group[m].user[c] \in Name /\ name[c] \in Name /\ group[m] \in GroupType
    BY ReadyIsThere DEF Inv, TypeOK, Switch, Request
  <1>2. /\ after \in [Group -> GroupType]
        /\ after[m] = Left(group[m], c)
        /\ after[m].user = [group[m].user EXCEPT ![c] = NoName]
        /\ \A h \in Group \ {m} : after[h] = group[h]
    BY <1>1, LeftType DEF Inv, TypeOK
  <1>3. group' = [after EXCEPT ![g] = Joined(@, c, name[c])]
    BY DEF Switch
  <1> HIDE DEF after
  <1>4. group'[g] = Joined(after[g], c, name[c]) /\ \A h \in Group \ {g} : group'[h] = after[h]
    BY <1>2, <1>3
  <1>5. group[m].user \in [Client -> Name \cup {NoName}]
    BY <1>1 DEF GroupType
  <1>6. after[g].user[c] = NoName
    <2>1. g # m => group[g].user[c] = NoName
      BY DEF Inv, HandlersKnow
    <2> QED BY <1>2, <1>5, <2>1
  <1>7. \A h \in {m, g} : Sound(group[h]) => Sound(after[h])
    BY <1>1, <1>2, LeftSound
  <1>8. Sound(after[g]) => Sound(group'[g])
    BY <1>1, <1>2, <1>4, <1>6, JoinedSound
  <1>9. \A h \in {m, g} : Sound(group[h]) => Sound(group'[h])
    BY <1>1, <1>4, <1>7, <1>8
  <1>10. \A h \in Group \ {m, g} : group'[h] = group[h]
    BY <1>2, <1>4
  <1>11. \A d \in Client \ {c} : mine'[d] = mine[d] /\ name'[d] = name[d]
    BY DEF Inv, TypeOK, Switch
  <1>12. Request(c, <<g, m>>) /\ Races(c, {m, g}) /\ {m, g} \in SUBSET Group
    BY <1>1 DEF Switch
  <1> QED BY <1>9, <1>10, <1>11, <1>12, RequestTidy DEF Inv

LEMMA ChangeIdentityTidy ==
    ASSUME Inv, NEW c \in Client, NEW n \in Name, ChangeIdentity(c, n)
    PROVE  \A h \in Group \ raced' : Tidy(h)'
  <1> DEFINE m == mine[c]
  <1>1. m \in Group /\ group[m].user[c] \in Name /\ group[m] \in GroupType
    BY ReadyIsThere DEF Inv, TypeOK, ChangeIdentity, Request
  <1>2. /\ Left(group[m], c) \in GroupType
        /\ Left(group[m], c).user = [group[m].user EXCEPT ![c] = NoName]
    BY <1>1, LeftType
  <1>3. Left(group[m], c).user[c] = NoName
    BY <1>1, <1>2 DEF GroupType
  <1>4. group'[m] = Renamed(group[m], c, n) /\ \A h \in Group \ {m} : group'[h] = group[h]
    BY <1>1 DEF Inv, TypeOK, ChangeIdentity
  <1>5. Sound(group[m]) => Sound(group'[m])
    <2> SUFFICES ASSUME Sound(group[m]) PROVE Sound(group'[m])
      OBVIOUS
    <2>1. Sound(Left(group[m], c))
      BY <1>1, LeftSound
    <2>2. Sound(Joined(Left(group[m], c), c, n))
      BY <1>2, <1>3, <2>1, JoinedSound
    <2> QED BY <1>1, <1>4, <2>2, RenamedIs
  <1>6. \A d \in Client \ {c} : mine'[d] = mine[d] /\ name'[d] = name[d]
    BY DEF Inv, TypeOK, ChangeIdentity
  <1>7. Request(c, <<m>>) /\ Races(c, {m}) /\ {m} \in SUBSET Group
    BY <1>1 DEF ChangeIdentity
  <1> QED BY <1>4, <1>5, <1>6, <1>7, RequestTidy DEF Inv

LEMMA TellingTidy ==
    ASSUME Inv, NEW c \in Client,
           Quit(c) \/ Show(c) \/ ReadNames(c) \/ ReadStamp(c) \/ Tell(c)
    PROVE  \A h \in Group \ raced' : Tidy(h)'
  <1>1. /\ group' = group /\ mine' = mine /\ name' = name /\ raced' = raced
        /\ \A d \in Client \ {c} : pc'[d] = pc[d] /\ draft'[d] = draft[d]
    BY DEF Inv, TypeOK, Quit, Request, Show, ReadNames, ReadStamp, Tell
  <1>2. pc[c] \notin Busy /\ pc'[c] \notin Busy
    BY DEF Inv, TypeOK, Quit, Request, Show, ReadNames, ReadStamp, Tell, Busy
  <1>3. \A h \in Group : ~Leaving(c, h) /\ ~Leaving(c, h)'
    BY <1>2 DEF Leaving, Busy
  <1> QED BY <1>1, <1>3, TidyAside DEF Inv

LEMMA CheckForMergeTidy ==
    ASSUME Inv, NEW g \in Group, CheckForMerge(g)
    PROVE  \A h \in Group \ raced' : Tidy(h)'
  BY TidyFrame DEF Inv, CheckForMerge, Leaving

\* A handler that is in the middle of changing a group, or begins to, touches
\* no other.
LEMMA TidyElsewhere ==
    ASSUME Inv, NEW c \in Client, NEW m \in Group, mine[c] = m,
           raced \subseteq raced',
           \A h \in Group \ {m} : group'[h] = group[h],
           \A d \in Client \ {c} : /\ pc'[d] = pc[d] /\ mine'[d] = mine[d]
                                   /\ name'[d] = name[d] /\ draft'[d] = draft[d],
           mine'[c] \in {m, NoGroup},
           m \notin raced' => Tidy(m)'
    PROVE  \A h \in Group \ raced' : Tidy(h)'
  <1> SUFFICES ASSUME NEW h \in Group \ raced', h # m PROVE Tidy(h)'
    OBVIOUS
  <1>1. ~Leaving(c, h) /\ ~Leaving(c, h)'
    BY NoGroupAssumption DEF Leaving
  <1> QED BY <1>1, TidyAside DEF Inv

\* Of a group that is not raced only one handler is in the middle.
LEMMA OnlyOne ==
    ASSUME Inv, NEW c \in Client, NEW m \in Group \ raced, Leaving(c, m)
    PROVE  Stage(c, group[m]) /\ \A d \in Client \ {c} : ~Leaving(d, m)
  BY DEF Inv, Tidy

LEMMA SameBear ==
    ASSUME NEW r, NEW s, s.user = r.user
    PROVE  \A n : Bear(s, n) = Bear(r, n)
  BY DEF Bear

LEMMA LeaveTidy ==
    ASSUME Inv, NEW c \in Client, Leave(c)
    PROVE  \A h \in Group \ raced' : Tidy(h)'
  <1>0. PICK m \in Group : m = mine[c]
    BY ReadyIsThere DEF Inv, TypeOK, Leave
  <1> DEFINE n == name[c]
             r == group[m]
             s == group'[m]
  <1>1. m \in Group /\ r \in GroupType /\ r.user[c] = n /\ n \in Name
    BY <1>0, ReadyIsThere DEF Inv, TypeOK, Leave
  <1>2. s = [r EXCEPT !.user[c] = NoName] /\ \A h \in Group \ {m} : group'[h] = group[h]
    BY <1>0, <1>1 DEF Inv, TypeOK, Leave
  <1>3. /\ pc' = [pc EXCEPT ![c] = "left"] /\ mine' = mine /\ name' = name
        /\ draft' = [draft EXCEPT ![c].stamp = r.count[n]] /\ pc[c] = "ready"
    BY <1>0 DEF Leave
  <1>4. raced \subseteq raced' /\ Races(c, {m})
    BY <1>0, <1>1, RacesType DEF Inv, Leave
  <1>5. ASSUME m \notin raced'
        PROVE  Tidy(m)'
    <2>1. m \notin raced /\ \A d \in Client \ {c} : ~Leaving(d, m)
      BY <1>0, <1>1, <1>4, <1>5, Alone
    <2>2. ~Leaving(c, m)
      BY <1>0, <1>3 DEF Leaving
    <2>3. Sound(r)
      BY <1>0, <1>1, <2>1, <2>2 DEF Inv, Tidy, Settled
    <2>4. /\ s \in GroupType /\ s.user = [r.user EXCEPT ![c] = NoName]
          /\ s.count = r.count /\ s.names = r.names
      BY <1>0, <1>1, <1>2 DEF GroupType
    <2>5. /\ Cardinality(Bear(s, n)) = Cardinality(Bear(r, n)) - 1
          /\ \A x \in Name \ {n} : Bear(s, x) = Bear(r, x)
      BY <1>0, <1>1, <2>4, BearRemoved
    <2>6. Counted(s, {n})
      BY <2>3, <2>4, <2>5, BearFinite DEF Sound, Counted
    <2>7. Listed(s, {n})
      <3>1. Bear(r, n) # {}
        BY <1>0, <1>1 DEF Bear
      <3> QED BY <1>0, <1>1, <2>3, <2>4, <2>5, <3>1 DEF Sound, Listed
    <2>8. /\ pc'[c] = "left" /\ name'[c] = n /\ draft'[c].stamp = s.count[n]
          /\ Leaving(c, m)'
      BY <1>0, <1>1, <1>3, <2>4 DEF Inv, TypeOK, Leaving
    <2>9. Stage(c, group[m])'
      BY <1>3, <2>6, <2>7, <2>8 DEF Stage
    <2>10. \A d \in Client \ {c} : ~Leaving(d, m)'
      BY <1>3, <2>1 DEF Inv, TypeOK, Leaving
    <2> QED BY <1>0, <1>1, <2>8, <2>9, <2>10, TidyStage
  <1>6. \A d \in Client \ {c} : /\ pc'[d] = pc[d] /\ mine'[d] = mine[d]
                                /\ name'[d] = name[d] /\ draft'[d] = draft[d]
    BY <1>0, <1>3 DEF Inv, TypeOK
  <1> QED BY <1>0, <1>1, <1>2, <1>3, <1>4, <1>5, <1>6, TidyElsewhere

LEMMA UncountTidy ==
    ASSUME Inv, NEW c \in Client, Uncount(c)
    PROVE  \A h \in Group \ raced' : Tidy(h)'
  <1>0. PICK m \in Group : m = mine[c]
    BY DEF Inv, LeavingGroup, Uncount
  <1> DEFINE n == name[c]
             r == group[m]
             s == group'[m]
  <1>1. m \in Group /\ r \in GroupType /\ n \in Name /\ Leaving(c, m) /\ pc[c] = "left"
    BY <1>0 DEF Inv, LeavingGroup, Leaving, TypeOK, Uncount
  <1>2. /\ s = [r EXCEPT !.count[n] = draft[c].stamp - 1]
        /\ \A h \in Group \ {m} : group'[h] = group[h]
    BY <1>0, <1>1 DEF Inv, TypeOK, Uncount
  <1>3. pc' = [pc EXCEPT ![c] = "counted"] /\ mine' = mine /\ name' = name
    BY <1>0 DEF Uncount
  <1>4. raced \subseteq raced' /\ Races(c, {m})
    BY <1>0, <1>1, RacesType DEF Inv, Uncount
  <1>5. ASSUME m \notin raced'
        PROVE  Tidy(m)'
    <2>1. m \notin raced /\ \A d \in Client \ {c} : ~Leaving(d, m)
      BY <1>0, <1>1, <1>4, <1>5, Alone
    <2>2. Stage(c, r)
      BY <1>0, <1>1, <2>1, OnlyOne
    <2>3. draft[c].stamp = r.count[n] /\ Counted(r, {n}) /\ Listed(r, {n})
      BY <1>0, <1>1, <2>2 DEF Stage
    <2>4. /\ s.user = r.user /\ s.names = r.names
          /\ s.count = [r.count EXCEPT ![n] = r.count[n] - 1]
      BY <1>0, <1>1, <1>2, <2>3 DEF GroupType
    <2>5. \A x : Bear(s, x) = Bear(r, x)
      BY <2>4, SameBear
    <2>6. Counted(s, {})
      <3> SUFFICES ASSUME NEW x \in Name PROVE s.count[x] = Cardinality(Bear(s, x))
        BY BearFinite DEF Counted
      <3>1. r.count \in [Name -> Int]
        BY <1>0, <1>1 DEF GroupType
      <3> QED BY <2>3, <2>4, <2>5, <3>1, BearFinite DEF Counted
    <2>7. Listed(s, {n})
      BY <2>3, <2>4, <2>5 DEF Listed
    <2>8. pc'[c] = "counted" /\ name'[c] = n /\ Leaving(c, m)'
      BY <1>0, <1>1, <1>3 DEF Inv, TypeOK, Leaving
    <2>9. Stage(c, group[m])'
      BY <1>3, <2>6, <2>7, <2>8 DEF Stage
    <2>10. \A d \in Client \ {c} : ~Leaving(d, m)'
      BY <1>3, <2>1 DEF Inv, TypeOK, Leaving
    <2> QED BY <1>0, <1>1, <2>8, <2>9, <2>10, TidyStage
  <1>6. \A d \in Client \ {c} : /\ pc'[d] = pc[d] /\ mine'[d] = mine[d]
                                /\ name'[d] = name[d] /\ draft'[d] = draft[d]
    BY <1>0, <1>3 DEF Inv, TypeOK, Uncount
  <1> QED BY <1>0, <1>1, <1>2, <1>3, <1>4, <1>5, <1>6, TidyElsewhere

LEMMA CopyNamesTidy ==
    ASSUME Inv, NEW c \in Client, CopyNames(c)
    PROVE  \A h \in Group \ raced' : Tidy(h)'
  <1>0. PICK m \in Group : m = mine[c]
    BY DEF Inv, LeavingGroup, CopyNames
  <1> DEFINE n == name[c]
             r == group[m]
  <1>1. m \in Group /\ r \in GroupType /\ n \in Name /\ Leaving(c, m) /\ pc[c] = "counted"
    BY <1>0 DEF Inv, LeavingGroup, Leaving, TypeOK, CopyNames
  <1>2. group' = group /\ raced' = raced /\ name' = name
    BY <1>0 DEF CopyNames
  <1>3. \A d \in Client \ {c} : /\ pc'[d] = pc[d] /\ mine'[d] = mine[d]
                                /\ name'[d] = name[d] /\ draft'[d] = draft[d]
    BY <1>0 DEF Inv, TypeOK, CopyNames, Departs
  <1>4. ASSUME m \notin raced'
        PROVE  Tidy(m)' /\ mine'[c] \in {m, NoGroup}
    <2>1. Stage(c, r) /\ \A d \in Client \ {c} : ~Leaving(d, m)
      BY <1>0, <1>1, <1>2, <1>4, OnlyOne
    <2>2. \A d \in Client \ {c} : ~Leaving(d, m)'
      BY <1>3, <2>1 DEF Leaving
    <2>3. Counted(r, {}) /\ Listed(r, {n})
      BY <1>0, <1>1, <2>1 DEF Stage
    <2>4. r.count[n] = 0 <=> Bear(r, n) = {}
      BY <1>0, <1>1, <2>3, BearZero, BearFinite DEF Counted
    <2>5. CASE r.count[n] = 0
      <3>1. /\ mine' = mine /\ pc'[c] = "copied" /\ draft'[c].names = r.names
        BY <1>0, <2>5 DEF Inv, TypeOK, CopyNames
      <3>2. Leaving(c, m)'
        BY <1>0, <1>1, <3>1 DEF Leaving
      <3>3. Stage(c, group[m])'
        BY <1>2, <2>3, <2>4, <2>5, <3>1 DEF Stage
      <3> QED BY <1>0, <1>1, <2>2, <3>1, <3>2, <3>3, TidyStage
    <2>6. CASE r.count[n] # 0
      <3>1. mine'[c] = NoGroup
        BY <1>0, <2>6 DEF Inv, TypeOK, CopyNames, Departs
      <3>2. ~Leaving(c, m)'
        BY <1>0, <1>1, <3>1, NoGroupAssumption DEF Leaving
      <3>3. Sound(r)
        BY <1>0, <1>1, <2>3, <2>4, <2>6 DEF Sound, Listed
      <3> QED BY <1>0, <1>1, <1>2, <2>2, <3>1, <3>2, <3>3, TidyWhole
    <2> QED BY <2>5, <2>6
  <1>5. mine'[c] \in {m, NoGroup}
    BY <1>0 DEF Inv, TypeOK, CopyNames, Departs
  <1> QED BY <1>0, <1>1, <1>2, <1>3, <1>4, <1>5, TidyElsewhere

LEMMA UnlistTidy ==
    ASSUME Inv, NEW c \in Client, Unlist(c)
    PROVE  \A h \in Group \ raced' : Tidy(h)'
  <1>0. PICK m \in Group : m = mine[c]
    BY DEF Inv, LeavingGroup, Unlist
  <1> DEFINE n == name[c]
             r == group[m]
             s == group'[m]
  <1>1. m \in Group /\ r \in GroupType /\ n \in Name /\ Leaving(c, m) /\ pc[c] = "copied"
    BY <1>0 DEF Inv, LeavingGroup, Leaving, TypeOK, Unlist
  <1>2. /\ s = [r EXCEPT !.names = draft[c].names \ {n}]
        /\ \A h \in Group \ {m} : group'[h] = group[h]
    BY <1>0, <1>1 DEF Inv, TypeOK, Unlist
  <1>3. pc' = [pc EXCEPT ![c] = "listed"] /\ mine' = mine /\ name' = name /\ draft' = draft
    BY <1>0 DEF Unlist
  <1>4. raced \subseteq raced' /\ Races(c, {m})
    BY <1>0, <1>1, RacesType DEF Inv, Unlist
  <1>5. ASSUME m \notin raced'
        PROVE  Tidy(m)'
    <2>1. m \notin raced /\ \A d \in Client \ {c} : ~Leaving(d, m)
      BY <1>0, <1>1, <1>4, <1>5, Alone
    <2>2. Stage(c, r)
      BY <1>0, <1>1, <2>1, OnlyOne
    <2>3. draft[c].names = r.names /\ Counted(r, {}) /\ Listed(r, {n}) /\ Bear(r, n) = {}
      BY <1>0, <1>1, <2>2 DEF Stage
    <2>4. s.user = r.user /\ s.count = r.count /\ s.names = r.names \ {n}
      BY <1>0, <1>1, <1>2, <2>3 DEF GroupType
    <2>5. \A x : Bear(s, x) = Bear(r, x)
      BY <2>4, SameBear
    <2>6. Sound(s)
      BY <2>3, <2>4, <2>5 DEF Sound, Counted, Listed
    <2>7. pc'[c] = "listed" /\ Leaving(c, m)'
      BY <1>0, <1>1, <1>3 DEF Inv, TypeOK, Leaving
    <2>8. Stage(c, group[m])'
      BY <2>6, <2>7 DEF Stage
    <2>9. \A d \in Client \ {c} : ~Leaving(d, m)'
      BY <1>3, <2>1 DEF Inv, TypeOK, Leaving
    <2> QED BY <1>0, <1>1, <2>7, <2>8, <2>9, TidyStage
  <1>6. \A d \in Client \ {c} : /\ pc'[d] = pc[d] /\ mine'[d] = mine[d]
                                /\ name'[d] = name[d] /\ draft'[d] = draft[d]
    BY <1>0, <1>3 DEF Inv, TypeOK
  <1> QED BY <1>0, <1>1, <1>2, <1>3, <1>4, <1>5, <1>6, TidyElsewhere

LEMMA StampTidy ==
    ASSUME Inv, NEW c \in Client, Stamp(c)
    PROVE  \A h \in Group \ raced' : Tidy(h)'
  <1>0. PICK m \in Group : m = mine[c]
    BY DEF Inv, LeavingGroup, Stamp
  <1> DEFINE r == group[m]
             s == group'[m]
  <1>1. m \in Group /\ r \in GroupType /\ Leaving(c, m) /\ pc[c] = "listed"
    BY <1>0 DEF Inv, LeavingGroup, Leaving, TypeOK, Stamp
  <1>2. s = [r EXCEPT !.stamp = @ + 1] /\ \A h \in Group \ {m} : group'[h] = group[h]
    BY <1>0, <1>1 DEF Inv, TypeOK, Stamp
  <1>3. /\ mine'[c] = NoGroup
        /\ \A d \in Client \ {c} : /\ pc'[d] = pc[d] /\ mine'[d] = mine[d]
                                   /\ name'[d] = name[d] /\ draft'[d] = draft[d]
    BY <1>0 DEF Inv, TypeOK, Stamp, Departs
  <1>4. raced \subseteq raced' /\ Races(c, {m})
    BY <1>0, <1>1, RacesType DEF Inv, Stamp
  <1>5. ASSUME m \notin raced'
        PROVE  Tidy(m)'
    <2>1. m \notin raced /\ \A d \in Client \ {c} : ~Leaving(d, m)
      BY <1>0, <1>1, <1>4, <1>5, Alone
    <2>2. Sound(r)
      BY <1>0, <1>1, <2>1, OnlyOne DEF Stage
    <2>3. s.user = r.user /\ s.count = r.count /\ s.names = r.names
      BY <1>0, <1>1, <1>2 DEF GroupType
    <2>4. \A x : Bear(s, x) = Bear(r, x)
      BY <2>3, SameBear
    <2>5. Sound(s)
      BY <2>2, <2>3, <2>4 DEF Sound, Counted, Listed
    <2>6. \A d \in Client : ~Leaving(d, m)'
      BY <1>0, <1>1, <1>3, <2>1, NoGroupAssumption DEF Leaving
    <2> QED BY <1>0, <1>1, <2>5, <2>6, TidyWhole
  <1> QED BY <1>0, <1>1, <1>2, <1>3, <1>4, <1>5, TidyElsewhere

-----------------------------------------------------------------------------
(***************************************************************************)
(* The theorems.                                                           *)
(***************************************************************************)
LEMMA InitTidy == Init => \A g \in Group : Sound(group[g])
  <1> SUFFICES ASSUME Init, NEW g \in Group PROVE Sound(group[g])
    OBVIOUS
  <1>1. group[g] = EmptyGroup
    BY DEF Init
  <1>2. \A n \in Name : Bear(group[g], n) = {}
    BY <1>1, NoNameAssumption DEF Bear, EmptyGroup
  <1>3. \A n \in Name : Cardinality(Bear(group[g], n)) = 0
    BY <1>2, BearZero
  <1> QED BY <1>1, <1>2, <1>3 DEF Sound, Counted, Listed, EmptyGroup

LEMMA InitInv == Init => Inv
  <1> SUFFICES ASSUME Init PROVE Inv
    OBVIOUS
  <1>1. TypeOK
    BY InitType
  <1>2. \A c \in Client, g \in Group : ~Leaving(c, g) /\ mine[c] # g
    BY NoGroupAssumption DEF Init, Leaving
  <1>3. HandlersKnow
    BY <1>2 DEF HandlersKnow, Init, EmptyGroup
  <1>4. \A g \in Group : Tidy(g)
    BY <1>2, InitTidy DEF Tidy
  <1>5. UpUnlessRaced /\ LeavingGroup
    BY DEF Init, UpUnlessRaced, LeavingGroup
  <1> QED BY <1>1, <1>3, <1>4, <1>5 DEF Inv

\* A group with a member lists a name, raced or not yet sound as it may be.
LEMMA NamesToShow ==
    ASSUME Inv, NEW g \in Group \ raced
    PROVE  ~NameMergePanics(group[g])
  <1> SUFFICES ASSUME NEW c \in Client, group[g].user[c] # NoName
               PROVE  group[g].names # {}
    BY DEF NameMergePanics
  <1>1. group[g].user[c] = name[c] /\ name[c] \in Name
    BY DEF Inv, TypeOK, HandlersKnow
  <1>2. Bear(group[g], name[c]) # {}
    BY <1>1 DEF Bear
  <1>3. \E extra : Listed(group[g], extra)
    <2>1. CASE Settled(g)
      BY <2>1 DEF Inv, Tidy, Sound
    <2>2. CASE ~Settled(g)
      <3>1. PICK d \in Client : Leaving(d, g)
        BY <2>2 DEF Settled
      <3>2. Stage(d, group[g]) /\ pc[d] \in Busy
        BY <3>1, OnlyOne DEF Leaving, Busy
      <3> QED BY <3>2 DEF Stage, Sound, Busy
    <2> QED BY <2>1, <2>2
  <1> QED BY <1>1, <1>2, <1>3 DEF Listed

LEMMA UpStep ==
    ASSUME Inv, [Next]_vars
    PROVE  UpUnlessRaced'
  <1> SUFFICES ASSUME raced' = {} PROVE up'
    BY DEF UpUnlessRaced
  <1>1. CASE UNCHANGED vars
    BY <1>1 DEF Inv, UpUnlessRaced, vars
  <1>2. CASE \E c \in Client : Show(c)
    <2> PICK c \in Client : Show(c)
      BY <1>2
    <2>1. raced = {} /\ todo[c] \in Seq(Group)
      BY DEF Inv, TypeOK, Show
    <2>2. \A k \in DOMAIN todo[c] : todo[c][k] \in Group \ raced
      BY <2>1
    <2> QED BY <2>2, NamesToShow DEF Show
  <1>3. CASE /\ Next
             /\ ~\E c \in Client : Show(c)
    <2>1. up' = up /\ up
      BY <1>3 DEF Next, Ask, Handle, Join, Switch, ChangeIdentity, Quit, Request, ReadNames,
                  ReadStamp, Tell, Leave, Uncount, CopyNames, Unlist, Stamp, CheckForMerge
    <2> QED BY <2>1
  <1> QED BY <1>1, <1>2, <1>3

LEMMA LeavingGroupStep ==
    ASSUME Inv, [Next]_vars
    PROVE  LeavingGroup'
  <1> SUFFICES ASSUME NEW d \in Client, pc'[d] \in Busy
               PROVE  mine'[d] \in Group
    BY DEF LeavingGroup, Busy
  <1>1. CASE UNCHANGED vars
    BY <1>1 DEF Inv, LeavingGroup, vars, Busy
  <1>2. CASE \E g \in Group : CheckForMerge(g)
    BY <1>2 DEF Inv, LeavingGroup, CheckForMerge, Busy
  <1>3. ASSUME NEW c \in Client, Ask(c) \/ Show(c) \/ ReadNames(c) \/ ReadStamp(c) \/ Tell(c)
        PROVE  mine'[d] \in Group
    <2>1. pc'[c] \notin Busy /\ \A e \in Client \ {c} : pc'[e] = pc[e] /\ mine'[e] = mine[e]
      BY <1>3 DEF Inv, TypeOK, Busy, Ask, Join, Switch, ChangeIdentity, Quit, Request, Show,
                  ReadNames, ReadStamp, Tell
    <2> QED BY <2>1 DEF Inv, LeavingGroup, Busy
  <1>4. ASSUME NEW c \in Client,
               Leave(c) \/ Uncount(c) \/ CopyNames(c) \/ Unlist(c) \/ Stamp(c)
        PROVE  mine'[d] \in Group
    <2>1. \A e \in Client \ {c} : pc'[e] = pc[e] /\ mine'[e] = mine[e]
      BY <1>4 DEF Inv, TypeOK, Leave, Uncount, CopyNames, Unlist, Stamp, Departs
    <2>2. mine[c] \in Group
      BY <1>4 DEF Inv, TypeOK, LeavingGroup, Leave, Uncount, CopyNames, Unlist, Stamp
    <2>3. pc'[c] \in Busy => mine'[c] = mine[c]
      BY <1>4 DEF Inv, TypeOK, Leave, Uncount, CopyNames, Unlist, Stamp, Departs, Busy
    <2> QED BY <2>1, <2>2, <2>3 DEF Inv, LeavingGroup, Busy
  <1> QED BY <1>1, <1>2, <1>3, <1>4 DEF Next, Handle

\* One step keeps types, what handlers know, and the groups tidy.
LEMMA StepKeeps ==
    ASSUME Inv, [Next]_vars
    PROVE  TypeOK' /\ HandlersKnow' /\ \A g \in Group \ raced' : Tidy(g)'
  <1> USE DEF Inv
  <1>1. CASE UNCHANGED vars
    <2>1. TypeOK' /\ HandlersKnow'
      BY <1>1 DEF TypeOK, HandlersKnow, Leaving, vars
    <2>2. \A g \in Group \ raced' : Tidy(g)'
      BY <1>1, TidyFrame DEF Leaving, vars
    <2> QED BY <2>1, <2>2
  <1>2. ASSUME NEW c \in Client, NEW g \in Group, Join(c, g)
        PROVE  TypeOK' /\ HandlersKnow' /\ \A h \in Group \ raced' : Tidy(h)'
    BY <1>2, JoinType, JoinKnows, JoinTidy
  <1>3. ASSUME NEW c \in Client, NEW g \in Group, Switch(c, g)
        PROVE  TypeOK' /\ HandlersKnow' /\ \A h \in Group \ raced' : Tidy(h)'
    BY <1>3, SwitchType, SwitchKnows, SwitchTidy
  <1>4. ASSUME NEW c \in Client, NEW n \in Name, ChangeIdentity(c, n)
        PROVE  TypeOK' /\ HandlersKnow' /\ \A h \in Group \ raced' : Tidy(h)'
    BY <1>4, ChangeIdentityType, ChangeIdentityKnows, ChangeIdentityTidy
  <1>5. ASSUME NEW c \in Client, Quit(c)
        PROVE  TypeOK' /\ HandlersKnow' /\ \A h \in Group \ raced' : Tidy(h)'
    BY <1>5, QuitType, TellingKnows, TellingTidy
  <1>6. ASSUME NEW c \in Client, Show(c) \/ ReadNames(c) \/ ReadStamp(c) \/ Tell(c)
        PROVE  TypeOK' /\ HandlersKnow' /\ \A h \in Group \ raced' : Tidy(h)'
    BY <1>6, TellingTypes, TellingKnows, TellingTidy
  <1>7. ASSUME NEW c \in Client, Leave(c)
        PROVE  TypeOK' /\ HandlersKnow' /\ \A h \in Group \ raced' : Tidy(h)'
    BY <1>7, LeavingTypes, LeaveKnows, LeaveTidy
  <1>8. ASSUME NEW c \in Client, Uncount(c) \/ CopyNames(c) \/ Unlist(c) \/ Stamp(c)
        PROVE  TypeOK' /\ HandlersKnow' /\ \A h \in Group \ raced' : Tidy(h)'
    BY <1>8, LeavingTypes, LeavingKnows, UncountTidy, CopyNamesTidy, UnlistTidy, StampTidy
  <1>9. ASSUME NEW g \in Group, CheckForMerge(g)
        PROVE  TypeOK' /\ HandlersKnow' /\ \A h \in Group \ raced' : Tidy(h)'
    <2>1. HandlersKnow'
      BY <1>9 DEF CheckForMerge, HandlersKnow, Leaving
    <2> QED BY <1>9, <2>1, CheckForMergeType, CheckForMergeTidy
  <1> HIDE DEF Inv
  <1> QED BY <1>1, <1>2, <1>3, <1>4, <1>5, <1>6, <1>7, <1>8, <1>9 DEF Next, Ask, Handle

\* Types, handlers, counts and lists, together, hold in every state.
THEOREM MembershipInvariance == Spec => []Inv
  <1>1. Init => Inv
    BY InitInv
  <1>2. Inv /\ [Next]_vars => Inv'
    <2> SUFFICES ASSUME Inv, [Next]_vars PROVE Inv'
      OBVIOUS
    <2>1. TypeOK' /\ HandlersKnow' /\ \A g \in Group \ raced' : Tidy(g)'
      BY StepKeeps
    <2>2. UpUnlessRaced' /\ LeavingGroup'
      BY UpStep, LeavingGroupStep
    <2> QED BY <2>1, <2>2 DEF Inv
  <1> QED BY <1>1, <1>2, PTL DEF Spec

\* Every variable keeps its shape in every interleaving with the disconnect path,
\* and a handler that is to show or report something still knows which group.
THEOREM MembershipTypes == Spec => []TypeOK
  <1>1. Inv => TypeOK
    BY DEF Inv
  <1> QED BY <1>1, MembershipInvariance, PTL

\* The handler of a client knows its group and name in UserList (Join, Switch,
\* ChangeIdentity and the disconnect path keep thisClientGroup and ThisName).
THEOREM ClientsKnown == Spec => []HandlersKnow
  <1>1. Inv => HandlersKnow
    BY DEF Inv
  <1> QED BY <1>1, MembershipInvariance, PTL

\* sameUserNameCount counts the bearers of each name and the list names those
\* there are, in every group in which no two handlers met without the mutex.
THEOREM NamesCounted == Spec => []CountsUsers
  <1>1. Inv => CountsUsers
    <2> SUFFICES ASSUME Inv, NEW g \in Group \ raced, Settled(g)
                 PROVE  /\ \A n \in Name : group[g].count[n] = Cardinality(Bearers(g, n))
                        /\ group[g].names = {n \in Name : Bearers(g, n) # {}}
      BY DEF CountsUsers
    <2>1. Sound(group[g])
      BY DEF Inv, Tidy
    <2>2. \A n : Bearers(g, n) = Bear(group[g], n)
      BY DEF Bearers, Bear
    <2> QED BY <2>1, <2>2, BearFinite DEF Sound, Counted, Listed
  <1> QED BY <1>1, MembershipInvariance, PTL

\* As long as no two handlers meet so, NameMerge has a name to show and the
\* server does not panic.
THEOREM PanicsOnlyRaced == Spec => []UpUnlessRaced
  <1>1. Inv => UpUnlessRaced
    BY DEF Inv
  <1> QED BY <1>1, MembershipInvariance, PTL
=============================================================================
