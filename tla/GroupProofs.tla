---------------------------- MODULE GroupProofs ----------------------------
(***************************************************************************)
(* Proofs about Group, for every set of nodes and every bound: types, and  *)
(* that who has left gets no key made by a node that has heard of it.      *)
(***************************************************************************)
EXTENDS Group, SequenceTheorems, TLAPS

\* Nobody has a connection with himself, so nobody hears of his own departure.
ToOthers == \A n \in Node : wire[n][n] = <<>> /\ n \notin gone[n]

\* A command is under way only where there is a copy of the room.
BusyHasRoom == \A n \in Node : cli[n] # Idle => HasRoom(n)

Invites(p, q) == {m \in Elements(wire[p][q]) : m.type = "group_invite"}

\* Every key in use has been made: the next one is new.
KeysMade ==
  /\ \A n \in Node : \A r \in room[n] : r.key <= keys
  /\ \A p, q \in Node : \A m \in Invites(p, q) : m.key <= keys
  /\ \A x \in barred : x[1] <= keys

\* Who is gone for n is not in n's list.
GoneIsUnlisted == \A n \in Node : \A r \in room[n] : gone[n] \cap Elements(r.members) = {}

\* Where a key is held, those it is barred to are neither listed nor about to be invited.
BarredIsOut ==
  \A x \in barred : \A n \in Node : \A r \in room[n] :
    r.key = x[1] => /\ n # x[2] /\ x[2] \notin Elements(r.members)
                    /\ x[2] \notin Elements(cli[n].array) /\ x[2] \notin cli[n].add

\* No invitation takes a key to whom it is barred, or lists him beside it.
BarredIsUninvited ==
  \A x \in barred : \A p, q \in Node : \A m \in Invites(p, q) :
    m.key = x[1] => q # x[2] /\ x[2] \notin Elements(m.members)

\* A step that puts nothing on a wire.
WiresShrink == \A p, q \in Node : Elements(wire'[p][q]) \subseteq Elements(wire[p][q])
EmptyStays == \A p, q \in Node : wire[p][q] = <<>> => wire'[p][q] = <<>>
NothingSent == WiresShrink /\ EmptyStays

Excepted == {"added back", "replaced"}
Barring == upset \cap Excepted = {} => GoneIsUnlisted /\ BarredIsOut /\ BarredIsUninvited

IInv == TypeOK /\ ToOthers /\ BusyHasRoom /\ KeysMade /\ Barring
----------------------------------------------------------------------------
\* The copy a node has is its only one.
LEMMA RoomOf ==
  ASSUME TypeOK, NEW n \in Node, HasRoom(n)
  PROVE  Room(n) \in Copy /\ room[n] = {Room(n)}
  BY DEF TypeOK, HasRoom, Room

\* Append adds the one element.
LEMMA AppendElements ==
  ASSUME NEW S, NEW s \in Seq(S), NEW e \in S
  PROVE  Elements(Append(s, e)) = Elements(s) \cup {e}
<1>1. /\ DOMAIN Append(s, e) = 1..(Len(s) + 1) /\ \A i \in 1..Len(s) : Append(s, e)[i] = s[i]
      /\ Append(s, e)[Len(s) + 1] = e /\ Len(s) \in Nat /\ DOMAIN s = 1..Len(s)
  OBVIOUS
<1> QED BY <1>1 DEF Elements

\* AddMember keeps a list free of doubles and adds the one member.
LEMMA AddToFact ==
  ASSUME NEW s \in Listing, NEW m \in Node
  PROVE  AddTo(s, m) \in Listing /\ Elements(AddTo(s, m)) = Elements(s) \cup {m}
<1>1. CASE m \in Elements(s)
  BY <1>1 DEF AddTo
<1>2. CASE m \notin Elements(s)
  <2>1. s \in Seq(Node)
    BY DEF Listing
  <2>2. /\ Append(s, m) \in Seq(Node) /\ DOMAIN Append(s, m) = 1..(Len(s) + 1)
        /\ \A i \in 1..Len(s) : Append(s, m)[i] = s[i]
        /\ Append(s, m)[Len(s) + 1] = m /\ Len(s) \in Nat /\ DOMAIN s = 1..Len(s)
    BY <2>1
  <2>3. Elements(Append(s, m)) = Elements(s) \cup {m}
    BY <2>2 DEF Elements
  <2>4. \A i, j \in DOMAIN Append(s, m) : Append(s, m)[i] = Append(s, m)[j] => i = j
    BY <2>2, <1>2 DEF Elements, Listing
  <2> QED BY <1>2, <2>2, <2>3, <2>4 DEF AddTo, Listing
<1> QED BY <1>1, <1>2

\* RemoveMember keeps a list free of doubles and takes out the one member.
LEMMA RemoveFromFact ==
  ASSUME NEW s \in Listing, NEW m \in Node
  PROVE  /\ RemoveFrom(s, m) \in Listing
         /\ Elements(RemoveFrom(s, m)) \subseteq Elements(s) \ {m}
<1>1. CASE m \notin Elements(s)
  BY <1>1 DEF RemoveFrom
<1>2. CASE m \in Elements(s)
  <2> DEFINE k == CHOOSE i \in DOMAIN s : s[i] = m
             t == [i \in 1..(Len(s) - 1) |-> IF i < k THEN s[i] ELSE s[i + 1]]
  <2>1. s \in Seq(Node) /\ Len(s) \in Nat /\ DOMAIN s = 1..Len(s)
    BY DEF Listing
  <2>2. k \in 1..Len(s) /\ s[k] = m
    BY <1>2, <2>1 DEF Elements
  <2> HIDE DEF k
  <2>3. \A i \in 1..(Len(s) - 1) : t[i] \in Node /\ t[i] # m
    BY <2>1, <2>2 DEF Listing
  <2>4. t \in Seq(Node) /\ DOMAIN t = 1..(Len(s) - 1)
    <3>1. Len(s) - 1 \in Nat
      BY <2>1, <2>2
    <3>2. t \in [1..(Len(s) - 1) -> Node]
      BY <2>3
    <3> QED BY <3>1, <3>2, SeqDef
  <2>5. \A i, j \in DOMAIN t : t[i] = t[j] => i = j
    BY <2>1, <2>2, <2>4 DEF Listing
  <2>6. Elements(t) \subseteq Elements(s) \ {m}
    BY <2>1, <2>2, <2>3, <2>4 DEF Elements
  <2>7. RemoveFrom(s, m) = t
    BY <1>2 DEF RemoveFrom, k
  <2> QED BY <2>4, <2>5, <2>6, <2>7 DEF Listing
<1> QED BY <1>1, <1>2

\* A range loop sees only what was in its slice or in the list written over it.
LEMMA OverlayFact ==
  ASSUME NEW c \in Cli, NEW s \in Listing
  PROVE  /\ Overlay(c, s) \in Cli /\ Overlay(c, s).add = c.add
         /\ Elements(Overlay(c, s).array) \subseteq Elements(c.array) \cup Elements(s)
<1>1. CASE ~c.shared
  BY <1>1 DEF Overlay
<1>2. CASE c.shared
  <2> DEFINE a == [i \in DOMAIN c.array |-> IF i <= Len(s) THEN s[i] ELSE c.array[i]]
  <2>1. /\ c.array \in Seq(Node) /\ Len(c.array) \in Nat /\ DOMAIN c.array = 1..Len(c.array)
        /\ s \in Seq(Node) /\ Len(s) \in Nat /\ DOMAIN s = 1..Len(s)
    BY DEF Cli, Listing
  <2>2. a \in [1..Len(c.array) -> Node]
    BY <2>1
  <2>3. a \in Seq(Node) /\ DOMAIN a = DOMAIN c.array
    BY <2>1, <2>2, SeqDef
  <2>4. \A i \in DOMAIN a : a[i] \in Elements(c.array) \cup Elements(s)
    <3>1. ASSUME NEW i \in DOMAIN a PROVE a[i] \in Elements(c.array) \cup Elements(s)
      <4>1. i \in 1..Len(c.array) /\ i \in DOMAIN c.array
        BY <2>1, <2>3
      <4>2. CASE i <= Len(s)
        <5>1. i \in DOMAIN s /\ a[i] = s[i]
          BY <2>1, <4>1, <4>2
        <5> QED BY <5>1 DEF Elements
      <4>3. CASE ~(i <= Len(s))
        BY <4>1, <4>3 DEF Elements
      <4> QED BY <4>2, <4>3
    <3> QED BY <3>1
  <2>5. Overlay(c, s) = [c EXCEPT !.array = a]
    BY <1>2 DEF Overlay
  <2> HIDE DEF a
  <2>6. Elements(a) \subseteq Elements(c.array) \cup Elements(s)
    BY <2>4 DEF Elements
  <2> QED BY <2>3, <2>5, <2>6 DEF Cli
<1> QED BY <1>1, <1>2

\* Idle is the state of a command loop with nothing to read and nobody to add.
LEMMA IdleFact == Idle \in Cli /\ Elements(Idle.array) = {} /\ Idle.add = {}
  BY DEF Idle, Cli, Elements

\* Settling changes a command loop only to Idle.
LEMMA SettleFact ==
  ASSUME NEW c \in Cli
  PROVE  /\ Settle(c) \in Cli /\ Elements(Settle(c).array) \subseteq Elements(c.array)
         /\ Settle(c).add \subseteq c.add
  BY IdleFact DEF Settle

\* sendRaw: the one message is new, on the wires from n to M.
LEMMA SentFact ==
  ASSUME TypeOK, NEW n \in Node, NEW M \in SUBSET Node, NEW msg \in Message
  PROVE  /\ Sent(n, M, msg) \in [Node -> [Node -> Seq(Message)]]
         /\ \A p, q \in Node : ~(p = n /\ q \in M) => Sent(n, M, msg)[p][q] = wire[p][q]
         /\ \A q \in M : Sent(n, M, msg)[n][q] = Append(wire[n][q], msg)
<1>1. \A p, q \in Node : wire[p][q] \in Seq(Message)
  BY DEF TypeOK
<1>2. wire \in [Node -> [Node -> Seq(Message)]]
  BY DEF TypeOK
<1> DEFINE w == [q \in Node |-> IF q \in M THEN Append(wire[n][q], msg) ELSE wire[n][q]]
<1>3. w \in [Node -> Seq(Message)]
  BY <1>1
<1>4. Sent(n, M, msg) = [wire EXCEPT ![n] = w]
  BY <1>2 DEF Sent
<1>5. \A q \in M : w[q] = Append(wire[n][q], msg)
  OBVIOUS
<1>6. \A q \in Node \ M : w[q] = wire[n][q]
  OBVIOUS
<1> HIDE DEF w
<1> QED BY <1>2, <1>3, <1>4, <1>5, <1>6

\* A reader takes the first message of a wire and leaves the others.
LEMMA ReadsFact ==
  ASSUME TypeOK, NEW n \in Node, NEW p \in Node, NEW t, Reads(n, p, t)
  PROVE  /\ wire' \in [Node -> [Node -> Seq(Message)]]
         /\ NothingSent
         /\ Head(wire[p][n]) \in Message /\ Head(wire[p][n]) \in Elements(wire[p][n])
         /\ Head(wire[p][n]).type = t /\ wire[p][n] # <<>>
<1>1. wire \in [Node -> [Node -> Seq(Message)]] /\ wire[p][n] \in Seq(Message) /\ wire[p][n] # <<>>
  BY DEF TypeOK, Reads
<1>2. Tail(wire[p][n]) \in Seq(Message) /\ Elements(Tail(wire[p][n])) \subseteq Elements(wire[p][n])
  BY <1>1 DEF Elements
<1>3. Head(wire[p][n]) \in Message /\ Head(wire[p][n]) \in Elements(wire[p][n])
  BY <1>1 DEF Elements
<1>4. wire' = [wire EXCEPT ![p] = [wire[p] EXCEPT ![n] = Tail(wire[p][n])]]
  BY <1>1 DEF Reads
<1>5. \A a, b \in Node : wire'[a][b] = IF a = p /\ b = n THEN Tail(wire[p][n]) ELSE wire[a][b]
  BY <1>1, <1>4
<1>6. wire' \in [Node -> [Node -> Seq(Message)]]
  BY <1>1, <1>2, <1>4
<1>7. NothingSent
  BY <1>1, <1>2, <1>5 DEF NothingSent, WiresShrink, EmptyStays
<1> QED BY <1>1, <1>3, <1>6, <1>7 DEF Reads
----------------------------------------------------------------------------
\* Where nothing is sent, no invitation is new.
LEMMA InvitesShrink ==
  ASSUME NothingSent
  PROVE  \A p, q \in Node : Invites(p, q)' \subseteq Invites(p, q)
  BY DEF NothingSent, WiresShrink, Invites

(* A step that changes no copy and no list, sends nothing and at most frees *)
(* a command loop keeps everything but the types.                           *)
LEMMA QuietStep ==
  ASSUME IInv, UNCHANGED <<room, keys, gone, barred>>, upset \subseteq upset',
         \A n \in Node : cli'[n] = cli[n] \/ cli'[n] = Idle,
         NothingSent
  PROVE  ToOthers' /\ BusyHasRoom' /\ KeysMade' /\ Barring'
<1>1. ToOthers' /\ BusyHasRoom'
  BY DEF IInv, ToOthers, BusyHasRoom, HasRoom, NothingSent, EmptyStays
<1>2. \A p, q \in Node : Invites(p, q)' \subseteq Invites(p, q)
  BY InvitesShrink
<1>3. KeysMade'
  BY <1>2 DEF IInv, KeysMade
<1>4. \A n \in Node : /\ Elements(cli'[n].array) \subseteq Elements(cli[n].array)
                      /\ cli'[n].add \subseteq cli[n].add
  BY IdleFact
<1>5. Barring'
  <2> SUFFICES ASSUME upset' \cap Excepted = {} PROVE (GoneIsUnlisted /\ BarredIsOut /\ BarredIsUninvited)'
    BY DEF Barring, Excepted
  <2>1. GoneIsUnlisted /\ BarredIsOut /\ BarredIsUninvited
    BY DEF IInv, Barring, Excepted
  <2>2. GoneIsUnlisted'
    BY <2>1 DEF GoneIsUnlisted
  <2>3. BarredIsOut'
    BY <2>1, <1>4 DEF BarredIsOut
  <2>4. BarredIsUninvited'
    BY <2>1, <1>2 DEF BarredIsUninvited
  <2> QED BY <2>2, <2>3, <2>4
<1> QED BY <1>1, <1>3, <1>5

\* No room, no command, no message.
LEMMA InitIInv ==
  ASSUME Init PROVE IInv
<1>1. <<>> \in Seq(Message) /\ Elements(<<>>) = {}
  BY DEF Elements
<1>2. TypeOK
  BY <1>1, IdleFact, GroupAssumption DEF Init, TypeOK
<1>3. ToOthers /\ BusyHasRoom
  BY DEF Init, ToOthers, BusyHasRoom
<1>4. KeysMade /\ Barring
  BY <1>1 DEF Init, KeysMade, Barring, GoneIsUnlisted, BarredIsOut, BarredIsUninvited, Invites
<1> QED BY <1>2, <1>3, <1>4 DEF IInv

\* CreateRoom: the first copy; no key is barred yet to anyone.
LEMMA CreateStep ==
  ASSUME IInv, CreateRoom PROVE IInv'
<1> USE GroupAssumption
<1>1. TypeOK /\ ToOthers /\ BusyHasRoom /\ KeysMade /\ Barring
  BY DEF IInv
<1>2. <<Creator>> \in Listing /\ Elements(<<Creator>>) = {Creator}
  <2>1. <<Creator>> \in Seq(Node) /\ DOMAIN <<Creator>> = {1}
    OBVIOUS
  <2> QED BY <2>1 DEF Listing, Elements
<1> DEFINE r0 == [key |-> 1, members |-> <<Creator>>]
<1>3. r0 \in Copy
  BY <1>2 DEF Copy
<1>4. /\ keys = 0 /\ keys' = 1 /\ room' = [room EXCEPT ![Creator] = {r0}]
      /\ UNCHANGED <<cli, wire, conn, shown, commands, faults, upset, gone, barred>>
  BY DEF CreateRoom, counters, history
<1>5. /\ r0.key = 1 /\ r0.members = <<Creator>>
      /\ \A n \in Node : room'[n] = IF n = Creator THEN {r0} ELSE room[n]
  BY <1>1, <1>4 DEF TypeOK
<1> HIDE DEF r0
<1>6. TypeOK'
  BY <1>1, <1>3, <1>4 DEF TypeOK
<1>7. ToOthers' /\ BusyHasRoom'
  BY <1>1, <1>4, <1>5 DEF ToOthers, BusyHasRoom, HasRoom
<1>8. KeysMade'
  <2>1. \A n \in Node : \A r \in room[n] : r.key \in Nat
    BY <1>1 DEF TypeOK, Copy
  <2>2. \A n \in Node : \A r \in room[n] : r.key <= 1
    BY <1>1, <1>4, <2>1 DEF KeysMade
  <2>3. \A p, q \in Node : \A m \in Invites(p, q) : m.key \in Nat
    BY <1>1 DEF TypeOK, Invites, Message, Elements
  <2>4. \A p, q \in Node : \A m \in Invites(p, q) : m.key <= 1
    BY <1>1, <1>4, <2>3 DEF KeysMade
  <2>5. \A x \in barred : x[1] <= 1
    BY <1>1, <1>4 DEF KeysMade, TypeOK
  <2> QED BY <1>4, <1>5, <2>2, <2>4, <2>5 DEF KeysMade, Invites
<1>9. Barring'
  <2>1. \A x \in barred : x[1] # 1
    BY <1>1, <1>4 DEF KeysMade, TypeOK
  <2> SUFFICES ASSUME upset' \cap Excepted = {} PROVE (GoneIsUnlisted /\ BarredIsOut /\ BarredIsUninvited)'
    BY DEF Barring
  <2>2. GoneIsUnlisted /\ BarredIsOut /\ BarredIsUninvited
    BY <1>1, <1>4 DEF Barring
  <2>3. GoneIsUnlisted'
    BY <1>1, <1>2, <1>4, <1>5, <2>2 DEF GoneIsUnlisted, ToOthers
  <2>4. BarredIsOut'
    BY <1>4, <1>5, <2>1, <2>2 DEF BarredIsOut
  <2>5. BarredIsUninvited'
    BY <1>4, <2>2 DEF BarredIsUninvited, Invites
  <2> QED BY <2>3, <2>4, <2>5
<1> QED BY <1>6, <1>7, <1>8, <1>9 DEF IInv
\* SendInvite: one invitation is new, with the sender's key and list.
LEMMA SendInviteFact ==
  ASSUME IInv, NEW n \in Node, NEW m \in Peers(n), HasRoom(n), SendInvite(n, m)
  PROVE  /\ wire' \in [Node -> [Node -> Seq(Message)]]
         /\ \A p \in Node : wire'[p][p] = <<>>
         /\ \A p, q \in Node : \A msg \in Invites(p, q)' :
              \/ msg \in Invites(p, q)
              \/ /\ p = n /\ q = m
                 /\ msg.key = Room(n).key /\ msg.members = Room(n).members
<1>1. TypeOK /\ ToOthers
  BY DEF IInv
<1>2. Room(n) \in Copy
  BY <1>1, RoomOf
<1>3. Invite(Room(n)) \in Message
  BY <1>2 DEF Invite, Message, Copy
<1>4. {m} \in SUBSET Node /\ m # n
  BY DEF Peers
<1>5. wire' = Sent(n, {m}, Invite(Room(n)))
  BY DEF SendInvite
<1>6. /\ wire' \in [Node -> [Node -> Seq(Message)]]
      /\ \A p, q \in Node : ~(p = n /\ q \in {m}) => wire'[p][q] = wire[p][q]
      /\ \A q \in {m} : Elements(wire'[n][q]) = Elements(wire[n][q]) \cup {Invite(Room(n))}
  <2> DEFINE msg0 == Invite(Room(n))
             M == {m}
  <2>1. msg0 \in Message /\ M \in SUBSET Node
    BY <1>3, <1>4
  <2> HIDE DEF msg0, M
  <2>2. Sent(n, M, msg0) \in [Node -> [Node -> Seq(Message)]]
    BY <1>1, <2>1, SentFact
  <2>3. \A p, q \in Node : ~(p = n /\ q \in M) => Sent(n, M, msg0)[p][q] = wire[p][q]
    BY <1>1, <2>1, SentFact
  <2>4. \A q \in M : Sent(n, M, msg0)[n][q] = Append(wire[n][q], msg0)
    BY <1>1, <2>1, SentFact
  <2>5. m \in M /\ wire[n][m] \in Seq(Message)
    BY <1>1, <1>4 DEF M, TypeOK
  <2>6. Elements(wire'[n][m]) = Elements(wire[n][m]) \cup {msg0}
    BY <1>5, <2>1, <2>4, <2>5, AppendElements DEF msg0, M
  <2> QED BY <1>5, <2>2, <2>3, <2>6 DEF msg0, M
<1>7. \A p \in Node : wire'[p][p] = <<>>
  BY <1>1, <1>4, <1>6 DEF ToOthers
<1>8. Invite(Room(n)).key = Room(n).key /\ Invite(Room(n)).members = Room(n).members
  BY DEF Invite
<1>9. ASSUME NEW p \in Node, NEW q \in Node, NEW msg \in Invites(p, q)'
      PROVE  \/ msg \in Invites(p, q)
             \/ /\ p = n /\ q = m
                /\ msg.key = Room(n).key /\ msg.members = Room(n).members
  <2>1. CASE p = n /\ q = m
    BY <1>6, <1>8, <2>1 DEF Invites
  <2>2. CASE ~(p = n /\ q = m)
    BY <1>6, <2>2 DEF Invites
  <2> QED BY <2>1, <2>2
<1> QED BY <1>6, <1>7, <1>9

\* InviteToRoom: the invited is no longer barred from the key he is sent.
LEMMA InviteStep ==
  ASSUME IInv, NEW n \in Node, NEW m \in Node, InviteToRoom(n, m) PROVE IInv'
<1>1. TypeOK /\ ToOthers /\ BusyHasRoom /\ KeysMade /\ Barring
  BY DEF IInv
<1>2. HasRoom(n) /\ m \in Peers(n) /\ SendInvite(n, m) /\ cli[n] = Idle
  BY DEF InviteToRoom, Types
<1>3. Room(n) \in Copy /\ room[n] = {Room(n)}
  BY <1>1, <1>2, RoomOf
<1>4. /\ wire' \in [Node -> [Node -> Seq(Message)]]
      /\ \A p \in Node : wire'[p][p] = <<>>
      /\ \A p, q \in Node : \A msg \in Invites(p, q)' :
           \/ msg \in Invites(p, q)
           \/ /\ p = n /\ q = m
              /\ msg.key = Room(n).key /\ msg.members = Room(n).members
  BY <1>2, SendInviteFact
<1>5. /\ UNCHANGED <<room, conn, keys, shown, faults>>
      /\ cli' = [cli EXCEPT ![n].add = {m}] /\ gone' = [gone EXCEPT ![n] = @ \ {m}]
      /\ barred' = barred \ {<<Room(n).key, m>>} /\ upset \subseteq upset'
      /\ commands < MaxCommands /\ commands' = commands + 1
  BY DEF InviteToRoom, Types, Upset
<1>6. /\ cli' \in [Node -> Cli] /\ cli'[n].add = {m} /\ Elements(cli'[n].array) = {}
      /\ \A p \in Node : p # n => cli'[p] = cli[p]
  <2> DEFINE c == [Idle EXCEPT !.add = {m}]
  <2>1. c \in Cli /\ c.add = {m} /\ c.array = Idle.array
    BY IdleFact DEF Cli
  <2>2. cli' = [cli EXCEPT ![n] = c]
    BY <1>2, <1>5
  <2> HIDE DEF c
  <2> QED BY <1>1, <2>1, <2>2, IdleFact DEF TypeOK
<1>7. /\ gone' \in [Node -> SUBSET Node] /\ \A p \in Node : gone'[p] \subseteq gone[p]
  BY <1>1, <1>5 DEF TypeOK
<1>8. TypeOK'
  <2>1. commands' \in 0..MaxCommands
    BY <1>1, <1>5, GroupAssumption DEF TypeOK
  <2>2. barred' \subseteq Nat \X Node
    BY <1>1, <1>5 DEF TypeOK
  <2>3. /\ room' \in [Node -> SUBSET Copy] /\ \A p \in Node : \A r, s \in room'[p] : r = s
        /\ conn' \subseteq SUBSET Node /\ keys' \in Nat /\ shown' \in [Node -> SUBSET Nat]
        /\ faults' \in 0..MaxFaults
    BY <1>1, <1>5 DEF TypeOK
  <2> QED BY <1>4, <1>6, <1>7, <2>1, <2>2, <2>3 DEF TypeOK
<1>9. ToOthers' /\ BusyHasRoom'
  BY <1>1, <1>2, <1>4, <1>5, <1>6, <1>7 DEF ToOthers, BusyHasRoom, HasRoom
<1>10. KeysMade'
  BY <1>1, <1>3, <1>4, <1>5 DEF KeysMade
<1>11. Barring'
  <2> SUFFICES ASSUME upset' \cap Excepted = {} PROVE (GoneIsUnlisted /\ BarredIsOut /\ BarredIsUninvited)'
    BY DEF Barring
  <2>1. GoneIsUnlisted /\ BarredIsOut /\ BarredIsUninvited
    BY <1>1, <1>5 DEF Barring
  <2>2. GoneIsUnlisted'
    BY <1>5, <1>7, <2>1 DEF GoneIsUnlisted
  <2>3. \A x \in barred' : x \in barred /\ ~(x[1] = Room(n).key /\ x[2] = m)
    BY <1>1, <1>5 DEF TypeOK
  <2>4. BarredIsOut'
    BY <1>3, <1>5, <1>6, <2>1, <2>3 DEF BarredIsOut
  <2>5. BarredIsUninvited'
    <3> SUFFICES ASSUME NEW x \in barred', NEW p \in Node, NEW q \in Node,
                        NEW msg \in Invites(p, q)', msg.key = x[1]
                 PROVE  q # x[2] /\ x[2] \notin Elements(msg.members)
      BY DEF BarredIsUninvited
    <3>1. CASE msg \in Invites(p, q)
      BY <2>1, <2>3, <3>1 DEF BarredIsUninvited
    <3>2. CASE q = m /\ msg.key = Room(n).key /\ msg.members = Room(n).members
      BY <1>3, <2>1, <2>3, <3>2 DEF BarredIsOut
    <3> QED BY <1>4, <3>1, <3>2
  <2> QED BY <2>2, <2>4, <2>5
<1> QED BY <1>8, <1>9, <1>10, <1>11 DEF IInv

\* RekeyMember: the loop invites only who is in its slice, where nobody barred is.
LEMMA RekeyMemberStep ==
  ASSUME IInv, NEW n \in Node, RekeyMember(n) PROVE IInv'
<1>1. TypeOK /\ ToOthers /\ BusyHasRoom /\ KeysMade /\ Barring
  BY DEF IInv
<1> DEFINE m == cli[n].array[cli[n].next]
           c == [cli[n] EXCEPT !.next = @ + 1]
<1>2. /\ cli[n].add = {} /\ cli[n].next <= Len(cli[n].array)
      /\ UNCHANGED <<room, conn, keys, shown, commands, faults, gone, barred>>
      /\ upset \subseteq upset'
  BY DEF RekeyMember, counters, Upset
<1>3. /\ cli[n] \in Cli /\ c \in Cli /\ c.array = cli[n].array /\ c.add = cli[n].add
      /\ [c EXCEPT !.add = {m}].array = cli[n].array /\ [c EXCEPT !.add = {m}].add = {m}
  <2>1. cli[n] \in Cli
    BY <1>1 DEF TypeOK
  <2>2. c \in Cli /\ c.array = cli[n].array /\ c.add = cli[n].add
    BY <2>1 DEF Cli
  <2> HIDE DEF c, m
  <2> QED BY <2>1, <2>2 DEF Cli
<1>4. CASE m \in Peers(n)
  <2>1. SendInvite(n, m) /\ cli' = [cli EXCEPT ![n] = [c EXCEPT !.add = {m}]]
    BY <1>4 DEF RekeyMember
  <2>2. m \in Node
    BY <1>4 DEF Peers
  <2>3. HasRoom(n) /\ m \in Elements(cli[n].array)
    <3>1. cli[n].array \in Seq(Node) /\ cli[n].next \in Nat \ {0}
      BY <1>1 DEF TypeOK, Cli
    <3>2. cli[n] # Idle
      BY <1>2 DEF Idle
    <3> QED BY <1>1, <1>2, <3>1, <3>2 DEF BusyHasRoom, Elements
  <2> HIDE DEF m, c
  <2>4. Room(n) \in Copy /\ room[n] = {Room(n)}
    BY <1>1, <2>3, RoomOf
  <2>5. /\ wire' \in [Node -> [Node -> Seq(Message)]]
        /\ \A p \in Node : wire'[p][p] = <<>>
        /\ \A p, q \in Node : \A msg \in Invites(p, q)' :
             \/ msg \in Invites(p, q)
             \/ /\ p = n /\ q = m
                /\ msg.key = Room(n).key /\ msg.members = Room(n).members
    BY <1>4, <2>1, <2>3, SendInviteFact
  <2>6. /\ cli' \in [Node -> Cli] /\ cli'[n].add = {m} /\ cli'[n].array = cli[n].array
        /\ \A p \in Node : p # n => cli'[p] = cli[p]
    <3>1. [c EXCEPT !.add = {m}] \in Cli
      BY <1>3, <2>2 DEF Cli
    <3> QED BY <1>1, <1>3, <2>1, <3>1 DEF TypeOK
  <2>7. TypeOK'
    BY <1>1, <1>2, <2>5, <2>6 DEF TypeOK
  <2>8. ToOthers' /\ BusyHasRoom'
    BY <1>1, <1>2, <2>3, <2>5, <2>6 DEF ToOthers, BusyHasRoom, HasRoom
  <2>9. KeysMade'
    BY <1>1, <1>2, <2>4, <2>5 DEF KeysMade
  <2>10. Barring'
    <3> SUFFICES ASSUME upset' \cap Excepted = {} PROVE (GoneIsUnlisted /\ BarredIsOut /\ BarredIsUninvited)'
      BY DEF Barring
    <3>1. GoneIsUnlisted /\ BarredIsOut /\ BarredIsUninvited
      BY <1>1, <1>2 DEF Barring
    <3>2. GoneIsUnlisted'
      BY <1>2, <3>1 DEF GoneIsUnlisted
    <3>3. BarredIsOut'
      BY <1>2, <2>3, <2>6, <3>1 DEF BarredIsOut
    <3>4. BarredIsUninvited'
      BY <1>2, <2>3, <2>4, <2>5, <3>1 DEF BarredIsUninvited, BarredIsOut
    <3> QED BY <3>2, <3>3, <3>4
  <2> QED BY <2>7, <2>8, <2>9, <2>10 DEF IInv
<1>5. CASE m \notin Peers(n)
  <2>1. cli' = [cli EXCEPT ![n] = Settle(c)] /\ wire' = wire
    BY <1>5 DEF RekeyMember
  <2>2. Settle(c) \in Cli
    BY <1>3, SettleFact
  <2>3. TypeOK'
    BY <1>1, <1>2, <2>1, <2>2 DEF TypeOK
  <2>4. /\ cli'[n] = Settle(c) /\ Elements(Settle(c).array) \subseteq Elements(cli[n].array)
        /\ Settle(c).add \subseteq cli[n].add /\ \A p \in Node : p # n => cli'[p] = cli[p]
    BY <1>1, <1>3, <2>1, SettleFact DEF TypeOK
  <2>5. HasRoom(n)
    <3>1. cli[n] # Idle
      BY <1>2, <1>1 DEF Idle, TypeOK, Cli
    <3> QED BY <1>1, <3>1 DEF BusyHasRoom
  <2> HIDE DEF m, c
  <2>6. ToOthers' /\ BusyHasRoom' /\ KeysMade'
    BY <1>1, <1>2, <2>1, <2>4, <2>5 DEF ToOthers, BusyHasRoom, HasRoom, KeysMade, Invites
  <2>7. Barring'
    BY <1>1, <1>2, <2>1, <2>4
       DEF Barring, GoneIsUnlisted, BarredIsOut, BarredIsUninvited, Invites
  <2> QED BY <2>3, <2>6, <2>7 DEF IInv
<1> QED BY <1>4, <1>5
\* AddMember: the list takes in who was just sent its key, or "added back" is on record.
LEMMA AddMemberStep ==
  ASSUME IInv, NEW n \in Node, AddMember(n) PROVE IInv'
<1>1. TypeOK /\ ToOthers /\ BusyHasRoom /\ KeysMade /\ Barring
  BY DEF IInv
<1>2. PICK m \in cli[n].add :
        LET s == AddTo(Room(n).members, m)
        IN  /\ SetMembers(n, s)
            /\ cli' = [cli EXCEPT ![n] = Settle([Overlay(@, s) EXCEPT !.add = {}])]
            /\ Upset(When(m \in gone[n], "added back"))
  BY DEF AddMember
<1> DEFINE s == AddTo(Room(n).members, m)
           o == Overlay(cli[n], s)
           c == [o EXCEPT !.add = {}]
           r0 == [Room(n) EXCEPT !.members = s]
<1>3. cli[n] \in Cli /\ m \in Node
  BY <1>1 DEF TypeOK, Cli
<1>4. HasRoom(n)
  BY <1>1, IdleFact DEF BusyHasRoom
<1>5. Room(n) \in Copy /\ room[n] = {Room(n)}
  BY <1>1, <1>4, RoomOf
<1>6. s \in Listing /\ Elements(s) = Elements(Room(n).members) \cup {m}
  BY <1>3, <1>5, AddToFact DEF Copy
<1>7. r0 \in Copy /\ r0.key = Room(n).key /\ r0.members = s
  BY <1>5, <1>6 DEF Copy
<1>8. /\ room' = [room EXCEPT ![n] = {r0}] /\ cli' = [cli EXCEPT ![n] = Settle(c)]
      /\ UNCHANGED <<wire, conn, keys, shown, commands, faults, gone, barred>>
  BY <1>1, <1>2 DEF SetMembers, AddMember, counters, TypeOK
<1>9. upset \subseteq upset' /\ (m \in gone[n] => "added back" \in upset')
  BY <1>2 DEF Upset, When
<1>10. /\ o \in Cli /\ Elements(o.array) \subseteq Elements(cli[n].array) \cup Elements(s)
  BY <1>3, <1>6, OverlayFact
<1> HIDE DEF s, o
<1>11. c \in Cli /\ c.array = o.array /\ c.add = {}
  BY <1>10 DEF Cli
<1> HIDE DEF c, r0
<1>12. /\ Settle(c) \in Cli /\ Settle(c).add = {}
       /\ Elements(Settle(c).array) \subseteq Elements(cli[n].array) \cup Elements(s)
  BY <1>10, <1>11, SettleFact
<1>13. \A p \in Node : /\ room'[p] = IF p = n THEN {r0} ELSE room[p]
                       /\ cli'[p] = IF p = n THEN Settle(c) ELSE cli[p]
  BY <1>1, <1>8 DEF TypeOK
<1>14. TypeOK'
  BY <1>1, <1>7, <1>8, <1>12 DEF TypeOK
<1>15. ToOthers' /\ BusyHasRoom'
  BY <1>1, <1>8, <1>13 DEF ToOthers, BusyHasRoom, HasRoom
<1>16. KeysMade'
  BY <1>1, <1>5, <1>7, <1>8, <1>13 DEF KeysMade, Invites
<1>17. Barring'
  <2> SUFFICES ASSUME upset' \cap Excepted = {} PROVE (GoneIsUnlisted /\ BarredIsOut /\ BarredIsUninvited)'
    BY DEF Barring
  <2>1. GoneIsUnlisted /\ BarredIsOut /\ BarredIsUninvited
    BY <1>1, <1>9 DEF Barring
  <2>2. m \notin gone[n]
    BY <1>9 DEF Excepted
  <2>3. GoneIsUnlisted'
    BY <1>5, <1>6, <1>7, <1>8, <1>13, <2>1, <2>2 DEF GoneIsUnlisted
  <2>4. BarredIsOut'
    BY <1>5, <1>6, <1>7, <1>8, <1>12, <1>13, <2>1 DEF BarredIsOut
  <2>5. BarredIsUninvited'
    BY <1>8, <2>1 DEF BarredIsUninvited, Invites
  <2> QED BY <2>3, <2>4, <2>5
<1> QED BY <1>14, <1>15, <1>16, <1>17 DEF IInv

\* RekeyRoom: the new key is held here only, and who is gone is not in the list.
LEMMA RekeyStep ==
  ASSUME IInv, NEW n \in Node, RekeyRoom(n) PROVE IInv'
<1>1. TypeOK /\ ToOthers /\ BusyHasRoom /\ KeysMade /\ Barring
  BY DEF IInv
<1> DEFINE r0 == [Room(n) EXCEPT !.key = keys + 1]
           c == [array |-> Room(n).members, next |-> 1, shared |-> TRUE, add |-> {}]
<1>2. /\ HasRoom(n) /\ keys' = keys + 1 /\ room' = [room EXCEPT ![n] = {r0}]
      /\ cli' = [cli EXCEPT ![n] = Settle(c)]
      /\ barred' = barred \cup {<<keys + 1, q>> : q \in gone[n]}
      /\ commands < MaxCommands /\ commands' = commands + 1 /\ upset \subseteq upset'
      /\ UNCHANGED <<wire, conn, shown, faults, gone>>
  BY DEF RekeyRoom, Types, Upset
<1>3. Room(n) \in Copy /\ room[n] = {Room(n)} /\ keys \in Nat
  BY <1>1, <1>2, RoomOf DEF TypeOK
<1>4. r0 \in Copy /\ r0.key = keys + 1 /\ r0.members = Room(n).members
  BY <1>3 DEF Copy
<1>5. c \in Cli /\ c.array = Room(n).members /\ c.add = {}
  BY <1>3 DEF Copy, Listing, Cli
<1> HIDE DEF r0, c
<1>6. /\ Settle(c) \in Cli /\ Settle(c).add = {}
      /\ Elements(Settle(c).array) \subseteq Elements(Room(n).members)
  BY <1>5, SettleFact
<1>7. \A p \in Node : /\ room'[p] = IF p = n THEN {r0} ELSE room[p]
                      /\ cli'[p] = IF p = n THEN Settle(c) ELSE cli[p]
  BY <1>1, <1>2 DEF TypeOK
<1>8. TypeOK'
  <2>1. commands' \in 0..MaxCommands
    BY <1>1, <1>2, GroupAssumption DEF TypeOK
  <2>2. barred' \subseteq Nat \X Node
    BY <1>1, <1>2, <1>3 DEF TypeOK
  <2>3. /\ room' \in [Node -> SUBSET Copy] /\ \A p \in Node : \A r, s \in room'[p] : r = s
        /\ cli' \in [Node -> Cli] /\ keys' \in Nat
    BY <1>1, <1>2, <1>3, <1>4, <1>6, <1>7 DEF TypeOK
  <2> QED BY <1>1, <1>2, <2>1, <2>2, <2>3 DEF TypeOK
<1>9. ToOthers' /\ BusyHasRoom'
  BY <1>1, <1>2, <1>7 DEF ToOthers, BusyHasRoom, HasRoom
<1>10. /\ \A p \in Node : \A r \in room[p] : r.key \in Nat /\ r.key <= keys
       /\ \A p, q \in Node : \A m \in Invites(p, q) : m.key \in Nat /\ m.key <= keys
       /\ \A x \in barred : x[1] \in Nat /\ x[1] <= keys
  BY <1>1 DEF KeysMade, TypeOK, Copy, Invites, Message, Elements
<1>11. KeysMade'
  <2>1. \A p \in Node : \A r \in room'[p] : r.key <= keys'
    BY <1>2, <1>3, <1>4, <1>7, <1>10
  <2>2. \A p, q \in Node : \A m \in Invites(p, q)' : m.key <= keys'
    BY <1>2, <1>3, <1>10 DEF Invites
  <2>3. \A x \in barred' : x[1] <= keys'
    BY <1>2, <1>3, <1>10
  <2> QED BY <2>1, <2>2, <2>3 DEF KeysMade
<1>12. Barring'
  <2> SUFFICES ASSUME upset' \cap Excepted = {} PROVE (GoneIsUnlisted /\ BarredIsOut /\ BarredIsUninvited)'
    BY DEF Barring
  <2>1. GoneIsUnlisted /\ BarredIsOut /\ BarredIsUninvited
    BY <1>1, <1>2 DEF Barring
  <2>2. GoneIsUnlisted'
    BY <1>2, <1>3, <1>4, <1>7, <2>1 DEF GoneIsUnlisted
  <2>3. ASSUME NEW x \in barred'
        PROVE  \/ x \in barred /\ x[1] # keys + 1
               \/ x[1] = keys + 1 /\ x[2] \in gone[n]
    <3>1. \A y \in barred : y[1] # keys + 1
      BY <1>3, <1>10
    <3>2. \A y \in {<<keys + 1, q>> : q \in gone[n]} : y[1] = keys + 1 /\ y[2] \in gone[n]
      OBVIOUS
    <3>3. CASE x \in barred
      BY <3>1, <3>3
    <3>4. CASE x \notin barred
      <4>1. x \in {<<keys + 1, q>> : q \in gone[n]}
        BY <1>2, <3>4
      <4> QED BY <3>2, <4>1
    <3> QED BY <3>3, <3>4
  <2>4. BarredIsOut'
    <3> SUFFICES ASSUME NEW x \in barred', NEW p \in Node, NEW r \in room'[p], r.key = x[1]
                 PROVE  /\ p # x[2] /\ x[2] \notin Elements(r.members)
                        /\ x[2] \notin Elements(cli'[p].array) /\ x[2] \notin cli'[p].add
      BY DEF BarredIsOut
    <3>1. CASE p = n
      <4>1. r = r0 /\ x[2] \in gone[n]
        BY <1>4, <1>7, <2>3, <3>1
      <4>2. x[2] # n /\ x[2] \notin Elements(Room(n).members)
        BY <1>1, <1>3, <2>1, <4>1 DEF ToOthers, GoneIsUnlisted
      <4> QED BY <1>4, <1>6, <1>7, <3>1, <4>1, <4>2
    <3>2. CASE p # n
      <4>1. r \in room[p] /\ r.key # keys + 1
        BY <1>3, <1>7, <1>10, <3>2
      <4> QED BY <1>7, <2>1, <2>3, <3>2, <4>1 DEF BarredIsOut
    <3> QED BY <3>1, <3>2
  <2>5. BarredIsUninvited'
    <3>1. \A p, q \in Node : \A m \in Invites(p, q)' : m \in Invites(p, q) /\ m.key # keys + 1
      BY <1>2, <1>3, <1>10 DEF Invites
    <3> QED BY <2>1, <2>3, <3>1 DEF BarredIsUninvited
  <2> QED BY <2>2, <2>4, <2>5
<1> QED BY <1>8, <1>9, <1>11, <1>12 DEF IInv

\* A message that is no invitation, sent to peers of n, adds no invitation.
LEMMA UninvitingSend ==
  ASSUME TypeOK, ToOthers, NEW n \in Node, NEW M \in SUBSET Peers(n), NEW msg \in Message,
         msg.type # "group_invite", wire' = Sent(n, M, msg)
  PROVE  /\ wire' \in [Node -> [Node -> Seq(Message)]] /\ \A p \in Node : wire'[p][p] = <<>>
         /\ \A p, q \in Node : Invites(p, q)' \subseteq Invites(p, q)
<1>1. M \in SUBSET Node /\ n \notin M
  BY DEF Peers
<1>2. wire' \in [Node -> [Node -> Seq(Message)]]
  BY <1>1, SentFact
<1>3. \A p, q \in Node : ~(p = n /\ q \in M) => wire'[p][q] = wire[p][q]
  <2>1. \A p, q \in Node : ~(p = n /\ q \in M) => Sent(n, M, msg)[p][q] = wire[p][q]
    BY <1>1, SentFact
  <2> QED BY <2>1
<1>4. \A q \in M : wire'[n][q] = Append(wire[n][q], msg)
  <2>1. \A q \in M : Sent(n, M, msg)[n][q] = Append(wire[n][q], msg)
    BY <1>1, SentFact
  <2> QED BY <2>1
<1>5. \A p \in Node : wire'[p][p] = <<>>
  BY <1>1, <1>3 DEF ToOthers
<1>6. ASSUME NEW p \in Node, NEW q \in Node PROVE Invites(p, q)' \subseteq Invites(p, q)
  <2>1. CASE p = n /\ q \in M
    <3>1. wire[n][q] \in Seq(Message)
      BY DEF TypeOK
    <3>2. Elements(Append(wire[n][q], msg)) = Elements(wire[n][q]) \cup {msg}
      BY <3>1, AppendElements
    <3>3. wire'[p][q] = Append(wire[n][q], msg)
      BY <1>4, <2>1
    <3>4. Elements(wire'[p][q]) = Elements(wire[p][q]) \cup {msg}
      BY <2>1, <3>2, <3>3
    <3> QED BY <3>4 DEF Invites
  <2>2. CASE ~(p = n /\ q \in M)
    BY <1>3, <2>2 DEF Invites
  <2> QED BY <2>1, <2>2
<1> QED BY <1>2, <1>5, <1>6

\* LeaveRoom: a list gets shorter, and what is sent is no invitation.
LEMMA LeaveStep ==
  ASSUME IInv, NEW n \in Node, LeaveRoom(n) PROVE IInv'
<1>1. TypeOK /\ ToOthers /\ BusyHasRoom /\ KeysMade /\ Barring
  BY DEF IInv
<1> DEFINE s == RemoveFrom(Room(n).members, n)
           r0 == [Room(n) EXCEPT !.members = s]
<1>2. /\ HasRoom(n) /\ room' = [room EXCEPT ![n] = {r0}] /\ wire' = Sent(n, Peers(n), Leave)
      /\ commands < MaxCommands /\ commands' = commands + 1 /\ upset \subseteq upset'
      /\ UNCHANGED <<cli, conn, keys, shown, faults, gone, barred>>
  BY DEF LeaveRoom, Types, Upset, SetMembers
<1>3. Room(n) \in Copy /\ room[n] = {Room(n)}
  BY <1>1, <1>2, RoomOf
<1>4. s \in Listing /\ Elements(s) \subseteq Elements(Room(n).members)
  BY <1>3, RemoveFromFact DEF Copy
<1>5. r0 \in Copy /\ r0.key = Room(n).key /\ r0.members = s
  BY <1>3, <1>4 DEF Copy
<1> HIDE DEF s, r0
<1>6. \A p \in Node : room'[p] = IF p = n THEN {r0} ELSE room[p]
  BY <1>1, <1>2 DEF TypeOK
<1>7. Leave \in Message /\ Leave.type # "group_invite"
  BY DEF Leave, Message
<1>8. /\ wire' \in [Node -> [Node -> Seq(Message)]] /\ \A p \in Node : wire'[p][p] = <<>>
      /\ \A p, q \in Node : Invites(p, q)' \subseteq Invites(p, q)
  BY <1>1, <1>2, <1>7, UninvitingSend
<1>9. TypeOK'
  <2>1. commands' \in 0..MaxCommands
    BY <1>1, <1>2, GroupAssumption DEF TypeOK
  <2>2. room' \in [Node -> SUBSET Copy] /\ \A p \in Node : \A r, t \in room'[p] : r = t
    BY <1>1, <1>2, <1>5, <1>6 DEF TypeOK
  <2> QED BY <1>1, <1>2, <1>8, <2>1, <2>2 DEF TypeOK
<1>10. ToOthers' /\ BusyHasRoom'
  <2>1. ToOthers'
    BY <1>1, <1>2, <1>6, <1>8 DEF ToOthers
  <2>2. \A p \in Node : room[p] # {} => room'[p] # {}
    BY <1>6
  <2>3. BusyHasRoom'
    BY <1>1, <1>2, <2>2 DEF BusyHasRoom, HasRoom
  <2> QED BY <2>1, <2>3
<1>11. KeysMade'
  BY <1>1, <1>2, <1>3, <1>5, <1>6, <1>8 DEF KeysMade
<1>12. Barring'
  <2> SUFFICES ASSUME upset' \cap Excepted = {} PROVE (GoneIsUnlisted /\ BarredIsOut /\ BarredIsUninvited)'
    BY DEF Barring
  <2>1. GoneIsUnlisted /\ BarredIsOut /\ BarredIsUninvited
    BY <1>1, <1>2 DEF Barring
  <2>2. GoneIsUnlisted'
    BY <1>2, <1>3, <1>4, <1>5, <1>6, <2>1 DEF GoneIsUnlisted
  <2>3. BarredIsOut'
    BY <1>2, <1>3, <1>4, <1>5, <1>6, <2>1 DEF BarredIsOut
  <2>4. BarredIsUninvited'
    BY <1>2, <1>8, <2>1 DEF BarredIsUninvited
  <2> QED BY <2>2, <2>3, <2>4
<1> QED BY <1>9, <1>10, <1>11, <1>12 DEF IInv

\* SendGroup: what is sent is no invitation.
LEMMA SendGroupStep ==
  ASSUME IInv, NEW n \in Node, SendGroup(n) PROVE IInv'
<1>1. TypeOK /\ ToOthers /\ BusyHasRoom /\ KeysMade /\ Barring
  BY DEF IInv
<1> DEFINE msg == Chat(Room(n).key, commands + 1)
<1>2. /\ HasRoom(n) /\ wire' = Sent(n, Recipients(n), msg)
      /\ commands < MaxCommands /\ commands' = commands + 1
      /\ UNCHANGED <<room, cli, conn, keys, shown, faults, upset, gone, barred>>
  BY DEF SendGroup, Types
<1>3. Room(n) \in Copy
  BY <1>1, <1>2, RoomOf
<1>4. msg \in Message /\ msg.type # "group_invite"
  BY <1>1, <1>3 DEF Chat, Message, Copy, TypeOK
<1>5. Recipients(n) \subseteq Peers(n)
  BY DEF Recipients
<1> HIDE DEF msg
<1>6. /\ wire' \in [Node -> [Node -> Seq(Message)]] /\ \A p \in Node : wire'[p][p] = <<>>
      /\ \A p, q \in Node : Invites(p, q)' \subseteq Invites(p, q)
  BY <1>1, <1>2, <1>4, <1>5, UninvitingSend
<1>7. TypeOK'
  <2>1. commands' \in 0..MaxCommands
    BY <1>1, <1>2, GroupAssumption DEF TypeOK
  <2> QED BY <1>1, <1>2, <1>6, <2>1 DEF TypeOK
<1>8. ToOthers' /\ BusyHasRoom' /\ KeysMade'
  BY <1>1, <1>2, <1>6 DEF ToOthers, BusyHasRoom, HasRoom, KeysMade
<1>9. Barring'
  BY <1>1, <1>2, <1>6 DEF Barring, GoneIsUnlisted, BarredIsOut, BarredIsUninvited
<1> QED BY <1>7, <1>8, <1>9 DEF IInv

\* handleGroupInvite: an invitation brings a key and a list that go together.
LEMMA HandleInviteStep ==
  ASSUME IInv, NEW n \in Node, NEW p \in Node, HandleGroupInvite(n, p) PROVE IInv'
<1>1. TypeOK /\ ToOthers /\ BusyHasRoom /\ KeysMade /\ Barring
  BY DEF IInv
<1> DEFINE msg == Head(wire[p][n])
           s == AddTo(msg.members, n)
           r0 == [key |-> msg.key, members |-> s]
           c == [cli[n] EXCEPT !.shared = FALSE]
<1>2. /\ Reads(n, p, "group_invite")
      /\ room' = [room EXCEPT ![n] = {r0}] /\ cli' = [cli EXCEPT ![n] = c]
      /\ gone' = [gone EXCEPT ![n] = @ \ Elements(msg.members)]
      /\ UNCHANGED <<conn, keys, shown, commands, faults, barred>>
  BY DEF HandleGroupInvite, Add, counters
<1>3. upset \subseteq upset' /\ (cli[n] # Idle => "replaced" \in upset')
  BY DEF HandleGroupInvite, Upset, When
<1>4. /\ wire' \in [Node -> [Node -> Seq(Message)]]
      /\ NothingSent
      /\ msg \in Message /\ msg \in Elements(wire[p][n]) /\ msg.type = "group_invite"
  BY <1>1, <1>2, ReadsFact
<1>5. msg \in Invites(p, n) /\ \A a, b \in Node : Invites(a, b)' \subseteq Invites(a, b)
  <2>1. \A a, b \in Node : Invites(a, b)' \subseteq Invites(a, b)
    BY <1>4, InvitesShrink
  <2>2. msg \in Invites(p, n)
    BY <1>4 DEF Invites
  <2> QED BY <2>1, <2>2
<1>6. msg.key \in Nat /\ msg.members \in Listing
  BY <1>4 DEF Message
<1> HIDE DEF msg
<1>7. s \in Listing /\ Elements(s) = Elements(msg.members) \cup {n}
  BY <1>6, AddToFact
<1> HIDE DEF s
<1>8. r0 \in Copy /\ r0.key = msg.key /\ r0.members = s
  BY <1>6, <1>7 DEF Copy
<1>9. cli[n] \in Cli /\ c \in Cli /\ c.array = cli[n].array /\ c.add = cli[n].add
  <2>1. cli[n] \in Cli
    BY <1>1 DEF TypeOK
  <2> QED BY <2>1 DEF Cli
<1> HIDE DEF r0, c
<1>10. \A q \in Node : /\ room'[q] = IF q = n THEN {r0} ELSE room[q]
                       /\ cli'[q] = IF q = n THEN c ELSE cli[q]
                       /\ gone'[q] = IF q = n THEN gone[n] \ Elements(msg.members) ELSE gone[q]
  BY <1>1, <1>2 DEF TypeOK
<1>11. TypeOK'
  <2>1. /\ room' \in [Node -> SUBSET Copy] /\ \A q \in Node : \A r, t \in room'[q] : r = t
        /\ cli' \in [Node -> Cli] /\ gone' \in [Node -> SUBSET Node]
    BY <1>1, <1>2, <1>8, <1>9, <1>10 DEF TypeOK
  <2> QED BY <1>1, <1>2, <1>4, <2>1 DEF TypeOK
<1>12. ToOthers' /\ BusyHasRoom'
  <2>1. ToOthers'
    BY <1>1, <1>4, <1>10 DEF ToOthers, NothingSent, EmptyStays
  <2>2. BusyHasRoom'
    BY <1>1, <1>4, <1>10 DEF BusyHasRoom, HasRoom
  <2> QED BY <2>1, <2>2
<1>13. KeysMade'
  BY <1>1, <1>2, <1>5, <1>8, <1>10 DEF KeysMade
<1>14. Barring'
  <2> SUFFICES ASSUME upset' \cap Excepted = {} PROVE (GoneIsUnlisted /\ BarredIsOut /\ BarredIsUninvited)'
    BY DEF Barring
  <2>1. GoneIsUnlisted /\ BarredIsOut /\ BarredIsUninvited
    BY <1>1, <1>3 DEF Barring
  <2>2. Elements(c.array) = {} /\ c.add = {}
    BY <1>3, <1>9, IdleFact DEF Excepted
  <2>3. GoneIsUnlisted'
    BY <1>1, <1>7, <1>8, <1>10, <2>1 DEF GoneIsUnlisted, ToOthers
  <2>4. BarredIsOut'
    <3> SUFFICES ASSUME NEW x \in barred', NEW q \in Node, NEW r \in room'[q], r.key = x[1]
                 PROVE  /\ q # x[2] /\ x[2] \notin Elements(r.members)
                        /\ x[2] \notin Elements(cli'[q].array) /\ x[2] \notin cli'[q].add
      BY DEF BarredIsOut
    <3>1. CASE q = n
      <4>1. r = r0 /\ msg.key = x[1] /\ x \in barred
        BY <1>2, <1>8, <1>10, <3>1
      <4>2. n # x[2] /\ x[2] \notin Elements(msg.members)
        BY <1>5, <2>1, <4>1 DEF BarredIsUninvited
      <4> QED BY <1>7, <1>8, <1>10, <2>2, <3>1, <4>1, <4>2
    <3>2. CASE q # n
      BY <1>2, <1>10, <2>1, <3>2 DEF BarredIsOut
    <3> QED BY <3>1, <3>2
  <2>5. BarredIsUninvited'
    BY <1>2, <1>5, <2>1 DEF BarredIsUninvited
  <2> QED BY <2>3, <2>4, <2>5
<1> QED BY <1>11, <1>12, <1>13, <1>14 DEF IInv

\* MsgGroupLeave: who is gone is taken off the list; the loop sees no new name.
LEMMA HandleLeaveStep ==
  ASSUME IInv, NEW n \in Node, NEW p \in Node, HandleGroupLeave(n, p) PROVE IInv'
<1>1. TypeOK /\ ToOthers /\ BusyHasRoom /\ KeysMade /\ Barring
  BY DEF IInv
<1>2. /\ Reads(n, p, "group_leave")
      /\ UNCHANGED <<conn, keys, shown, commands, faults, barred>>
  BY DEF HandleGroupLeave, counters
<1>3. /\ wire' \in [Node -> [Node -> Seq(Message)]]
      /\ NothingSent
      /\ wire[p][n] # <<>>
  BY <1>1, <1>2, ReadsFact
<1>4. CASE ~HasRoom(n)
  <2>1. UNCHANGED <<room, cli, gone, upset>>
    BY <1>4 DEF HandleGroupLeave
  <2>2. TypeOK'
    BY <1>1, <1>2, <1>3, <2>1 DEF TypeOK
  <2>3. ToOthers' /\ BusyHasRoom' /\ KeysMade' /\ Barring'
    BY <1>2, <1>3, <2>1, QuietStep
  <2> QED BY <2>2, <2>3 DEF IInv
<1>5. CASE HasRoom(n)
  <2> DEFINE s == RemoveFrom(Room(n).members, p)
             r0 == [Room(n) EXCEPT !.members = s]
             c == Overlay(cli[n], s)
  <2>1. /\ room' = [room EXCEPT ![n] = {r0}] /\ cli' = [cli EXCEPT ![n] = c]
        /\ gone' = [gone EXCEPT ![n] = @ \cup {p}] /\ upset \subseteq upset'
    BY <1>5 DEF HandleGroupLeave, SetMembers, Upset
  <2>2. Room(n) \in Copy /\ room[n] = {Room(n)}
    BY <1>1, <1>5, RoomOf
  <2>3. s \in Listing /\ Elements(s) \subseteq Elements(Room(n).members) \ {p}
    BY <2>2, RemoveFromFact DEF Copy
  <2>4. r0 \in Copy /\ r0.key = Room(n).key /\ r0.members = s
    BY <2>2, <2>3 DEF Copy
  <2>5. cli[n] \in Cli
    BY <1>1 DEF TypeOK
  <2>6. /\ c \in Cli /\ c.add = cli[n].add
        /\ Elements(c.array) \subseteq Elements(cli[n].array) \cup Elements(s)
    BY <2>3, <2>5, OverlayFact
  <2> HIDE DEF s, r0, c
  <2>7. \A q \in Node : /\ room'[q] = IF q = n THEN {r0} ELSE room[q]
                        /\ cli'[q] = IF q = n THEN c ELSE cli[q]
                        /\ gone'[q] = IF q = n THEN gone[n] \cup {p} ELSE gone[q]
    BY <1>1, <2>1 DEF TypeOK
  <2>8. p # n
    BY <1>1, <1>3 DEF ToOthers
  <2>9. TypeOK'
    <3>1. /\ room' \in [Node -> SUBSET Copy] /\ \A q \in Node : \A r, t \in room'[q] : r = t
          /\ cli' \in [Node -> Cli] /\ gone' \in [Node -> SUBSET Node]
      BY <1>1, <2>1, <2>4, <2>6, <2>7 DEF TypeOK
    <3> QED BY <1>1, <1>2, <1>3, <3>1 DEF TypeOK
  <2>10. ToOthers' /\ BusyHasRoom'
    <3>1. ToOthers'
      BY <1>1, <1>3, <2>7, <2>8 DEF ToOthers, NothingSent, EmptyStays
    <3>2. BusyHasRoom'
      BY <1>1, <1>3, <2>7, <2>8 DEF BusyHasRoom, HasRoom
    <3> QED BY <3>1, <3>2
  <2>11. \A a, b \in Node : Invites(a, b)' \subseteq Invites(a, b)
    BY <1>3, InvitesShrink
  <2>12. KeysMade'
    BY <1>1, <1>2, <2>2, <2>4, <2>7, <2>11 DEF KeysMade
  <2>13. Barring'
    <3> SUFFICES ASSUME upset' \cap Excepted = {} PROVE (GoneIsUnlisted /\ BarredIsOut /\ BarredIsUninvited)'
      BY DEF Barring
    <3>1. GoneIsUnlisted /\ BarredIsOut /\ BarredIsUninvited
      BY <1>1, <2>1 DEF Barring
    <3>2. GoneIsUnlisted'
      BY <2>2, <2>3, <2>4, <2>7, <3>1 DEF GoneIsUnlisted
    <3>3. BarredIsOut'
      BY <1>2, <2>2, <2>3, <2>4, <2>6, <2>7, <3>1 DEF BarredIsOut
    <3>4. BarredIsUninvited'
      BY <1>2, <2>11, <3>1 DEF BarredIsUninvited
    <3> QED BY <3>2, <3>3, <3>4
  <2> QED BY <2>9, <2>10, <2>12, <2>13 DEF IInv
<1> QED BY <1>4, <1>5

\* handleGroupChat only displays.
LEMMA HandleChatStep ==
  ASSUME IInv, NEW n \in Node, NEW p \in Node, HandleGroupChat(n, p) PROVE IInv'
<1>1. TypeOK
  BY DEF IInv
<1>2. /\ Reads(n, p, "group_chat")
      /\ UNCHANGED <<room, cli, conn, keys, commands, faults, upset, gone, barred>>
  BY DEF HandleGroupChat, counters
<1>3. /\ wire' \in [Node -> [Node -> Seq(Message)]]
      /\ NothingSent
      /\ Head(wire[p][n]) \in Message /\ Head(wire[p][n]).type = "group_chat"
  BY <1>1, <1>2, ReadsFact
<1>4. Head(wire[p][n]).line \in Nat
  BY <1>3 DEF Message
<1>5. shown' \in [Node -> SUBSET Nat]
  <2> DEFINE l == Head(wire[p][n]).line
  <2>1. shown' = [shown EXCEPT ![n] = @ \cup {l}] \/ shown' = shown
    BY DEF HandleGroupChat
  <2> HIDE DEF l
  <2>2. l \in Nat
    BY <1>4 DEF l
  <2>3. shown \in [Node -> SUBSET Nat]
    BY <1>1 DEF TypeOK
  <2> QED BY <2>1, <2>2, <2>3
<1>6. TypeOK'
  BY <1>1, <1>2, <1>3, <1>5 DEF TypeOK
<1>7. ToOthers' /\ BusyHasRoom' /\ KeysMade' /\ Barring'
  BY <1>2, <1>3, QuietStep
<1> QED BY <1>6, <1>7 DEF IInv

\* A refused message is read and dropped.
LEMMA RefuseStep ==
  ASSUME IInv, NEW n \in Node, NEW p \in Node, Refuse(n, p) PROVE IInv'
<1>1. TypeOK
  BY DEF IInv
<1>2. /\ Reads(n, p, "group_invite") \/ Reads(n, p, "group_chat")
      /\ UNCHANGED <<room, cli, conn, keys, shown, commands, gone, barred>>
      /\ faults < MaxFaults /\ faults' = faults + 1 /\ upset \subseteq upset'
  BY DEF Refuse, Upset
<1>3. /\ wire' \in [Node -> [Node -> Seq(Message)]]
      /\ NothingSent
  BY <1>1, <1>2, ReadsFact
<1>4. faults' \in 0..MaxFaults
  BY <1>1, <1>2, GroupAssumption DEF TypeOK
<1>5. TypeOK'
  BY <1>1, <1>2, <1>3, <1>4 DEF TypeOK
<1>6. ToOthers' /\ BusyHasRoom' /\ KeysMade' /\ Barring'
  BY <1>2, <1>3, QuietStep
<1> QED BY <1>5, <1>6 DEF IInv

\* A broken connection empties its wires and changes no others.
LEMMA LostFact ==
  ASSUME TypeOK, NEW C, Lost(C)
  PROVE  /\ wire' \in [Node -> [Node -> Seq(Message)]]
         /\ NothingSent
<1>1. \A a, b \in Node : wire[a][b] \in Seq(Message)
  BY DEF TypeOK
<1>2. <<>> \in Seq(Message) /\ Elements(<<>>) = {}
  BY DEF Elements
<1>3. \A a, b \in Node : wire'[a][b] = IF {a, b} \in C THEN <<>> ELSE wire[a][b]
  BY DEF Lost
<1>4. wire' \in [Node -> [Node -> Seq(Message)]]
  BY <1>1, <1>2 DEF Lost
<1>5. NothingSent
  BY <1>2, <1>3 DEF NothingSent, WiresShrink, EmptyStays
<1> QED BY <1>4, <1>5

\* A break loses messages.
LEMMA BreakStep ==
  ASSUME IInv, NEW n \in Node, NEW m \in Node, Break(n, m) PROVE IInv'
<1>1. TypeOK
  BY DEF IInv
<1>2. /\ Lost({{n, m}}) /\ conn' \subseteq conn
      /\ UNCHANGED <<room, cli, keys, shown, commands, gone, barred>>
      /\ faults < MaxFaults /\ faults' = faults + 1 /\ upset \subseteq upset'
  BY DEF Break, Drop, Upset
<1>3. /\ wire' \in [Node -> [Node -> Seq(Message)]]
      /\ NothingSent
  BY <1>1, <1>2, LostFact
<1>4. faults' \in 0..MaxFaults
  BY <1>1, <1>2, GroupAssumption DEF TypeOK
<1>5. TypeOK'
  BY <1>1, <1>2, <1>3, <1>4 DEF TypeOK
<1>6. ToOthers' /\ BusyHasRoom' /\ KeysMade' /\ Barring'
  BY <1>2, <1>3, QuietStep
<1> QED BY <1>5, <1>6 DEF IInv

\* A restart loses messages and frees the command loop.
LEMMA RestartStep ==
  ASSUME IInv, NEW n \in Node, Restart(n) PROVE IInv'
<1>1. TypeOK
  BY DEF IInv
<1>2. /\ Lost({{n, m} : m \in Peers(n)}) /\ conn' \subseteq conn /\ cli' = [cli EXCEPT ![n] = Idle]
      /\ UNCHANGED <<room, keys, shown, commands, gone, barred>>
      /\ faults < MaxFaults /\ faults' = faults + 1 /\ upset \subseteq upset'
  BY DEF Restart, Drop, Upset
<1>3. /\ wire' \in [Node -> [Node -> Seq(Message)]]
      /\ NothingSent
  BY <1>1, <1>2, LostFact
<1>4. faults' \in 0..MaxFaults
  BY <1>1, <1>2, GroupAssumption DEF TypeOK
<1>5. cli' \in [Node -> Cli] /\ \A q \in Node : cli'[q] = cli[q] \/ cli'[q] = Idle
  BY <1>1, <1>2, IdleFact DEF TypeOK
<1>6. TypeOK'
  BY <1>1, <1>2, <1>3, <1>4, <1>5 DEF TypeOK
<1>7. ToOthers' /\ BusyHasRoom' /\ KeysMade' /\ Barring'
  BY <1>2, <1>3, <1>5, QuietStep
<1> QED BY <1>6, <1>7 DEF IInv

\* A new connection carries nothing yet.
LEMMA ConnectStep ==
  ASSUME IInv, NEW n \in Node, NEW m \in Node, Connect(n, m) PROVE IInv'
<1>1. TypeOK
  BY DEF IInv
<1>2. /\ conn' = conn \cup {{n, m}}
      /\ UNCHANGED <<room, cli, wire, keys, shown, commands, faults, upset, gone, barred>>
  BY DEF Connect, counters, history
<1>3. TypeOK'
  BY <1>1, <1>2 DEF TypeOK
<1>4. NothingSent
  BY <1>2 DEF NothingSent, WiresShrink, EmptyStays
<1>5. ToOthers' /\ BusyHasRoom' /\ KeysMade' /\ Barring'
  BY <1>2, <1>4, QuietStep
<1> QED BY <1>3, <1>5 DEF IInv

\* Every step keeps the inductive invariant.
LEMMA NextIInv ==
  ASSUME IInv, [Next]_vars PROVE IInv'
<1>1. CASE UNCHANGED vars
  BY <1>1 DEF vars, IInv, TypeOK, ToOthers, BusyHasRoom, HasRoom, KeysMade, Invites,
              Barring, GoneIsUnlisted, BarredIsOut, BarredIsUninvited
<1>2. CASE CreateRoom
  BY <1>2, CreateStep
<1>3. ASSUME NEW n \in Node, Command(n) PROVE IInv'
  BY <1>3, InviteStep, AddMemberStep, RekeyStep, RekeyMemberStep, LeaveStep, SendGroupStep
     DEF Command
<1>4. ASSUME NEW n \in Node, Restart(n) PROVE IInv'
  BY <1>4, RestartStep
<1>5. ASSUME NEW n \in Node, NEW m \in Node,
             \/ HandleGroupInvite(n, m) \/ HandleGroupLeave(n, m) \/ HandleGroupChat(n, m)
             \/ Refuse(n, m) \/ Break(n, m) \/ Connect(n, m)
      PROVE  IInv'
  BY <1>5, HandleInviteStep, HandleLeaveStep, HandleChatStep, RefuseStep, BreakStep, ConnectStep
<1> QED BY <1>1, <1>2, <1>3, <1>4, <1>5 DEF Next

\* The inductive invariant holds in every state.
LEMMA Invariance == Spec => []IInv
  BY InitIInv, NextIInv, PTL DEF Spec

(* Every reachable state of the room's copies, the command loops and the    *)
(* wires is well-typed; in particular a node has one copy at most, and no   *)
(* list names a member twice (Store.Add, AddMember).                        *)
THEOREM TypeCorrect == Spec => []TypeOK
<1>1. IInv => TypeOK
  BY DEF IInv
<1> QED BY <1>1, Invariance, PTL

(* However commands, messages, breaks and restarts interleave, who has left *)
(* holds no key that a node made after it handled his MsgGroupLeave, unless *)
(* he was invited with it; the two races in upset's Excepted are excluded.  *)
THEOREM LeaverExcluded == Spec => []LeaverGetsNoNewKey
<1>1. ASSUME IInv PROVE LeaverGetsNoNewKey
  <2> SUFFICES ASSUME upset \cap Excepted = {}, NEW x \in barred, HasRoom(x[2])
               PROVE  Room(x[2]).key # x[1]
    BY DEF LeaverGetsNoNewKey, Excepted
  <2>1. x[2] \in Node
    BY <1>1 DEF IInv, TypeOK
  <2>2. Room(x[2]) \in room[x[2]]
    BY <1>1, <2>1, RoomOf DEF IInv
  <2> QED BY <1>1, <2>1, <2>2 DEF IInv, Barring, BarredIsOut
<1> QED BY <1>1, Invariance, PTL
============================================================================
