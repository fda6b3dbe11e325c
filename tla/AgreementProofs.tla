-------------------------- MODULE AgreementProofs --------------------------
(***************************************************************************)
(* Proofs about Group, for every set of nodes and every bound: once        *)
(* nothing is under way and nothing has upset the room, its members hold   *)
(* one key and, after a rekey, one list, and a line sent then reaches all  *)
(* who are online.                                                         *)
(***************************************************************************)
EXTENDS GroupProofs

Key(n) == Room(n).key
ToRead(n) == Unread(cli[n])
InviteOn(p, q) == Invites(p, q) # {}
LeaveOn(p, q) == \E m \in Elements(wire[p][q]) : m.type = "group_leave"

\* Those who are in, as they see it themselves.
In == {m \in Node : m \in View(m)}

\* Whoever is listed has a copy of the room, or an invitation on the way.
Known(q) == HasRoom(q) \/ \E p \in Node : InviteOn(p, q)
ListedAreKnown ==
  /\ \A n \in Node : \A q \in View(n) \cup Elements(cli[n].array) \cup cli[n].add : Known(q)
  /\ \A p, q \in Node : \A m \in Invites(p, q) : \A x \in Elements(m.members) : Known(x)

\* Commands under way and invitations on the way have the newest key.
NewestKey ==
  /\ \A n \in Node : cli[n] # Idle => Key(n) = keys
  /\ \A p, q \in Node : \A m \in Invites(p, q) : m.key = keys

\* Who has left and is being heard of has not come back.
LeaverIsOut == \A p, q \in Node : LeaveOn(p, q) => HasRoom(p) /\ p \notin In

\* Who is in has the newest key, or will be sent it.
MembersGetKey ==
  \A m \in In : Key(m) = keys \/ \E n \in Node : m \in ToRead(n) \/ InviteOn(n, m)

(* The slots of a running RekeyRoom: the list, as far as it goes, and then  *)
(* some that are left over; all name members, or who has left.              *)
SliceOf(n) == LET c == cli[n] IN
  /\ c.shared => \A i \in DOMAIN c.array :
                   i <= Len(Room(n).members) => c.array[i] = Room(n).members[i]
  /\ Elements(c.array) \subseteq View(n) \cup gone[n]
  /\ c.array # <<>> => c.add \subseteq View(n) \cup gone[n]
  /\ n \notin c.add
SliceIsList == \A n \in Node : SliceOf(n)

Settling ==
  ListedAreKnown /\ NewestKey /\ LeaverIsOut /\ MembersGetKey /\ SliceIsList

(* After a rekey by n.  q is not in, n will invite him all the same, and    *)
(* that will be an upset.                                                   *)
Mistaken(n, q) == q # n /\ q \notin In /\ (q \in ToRead(n) \/ InviteOn(n, q))

\* q has left, and all who are in know it or will be told.
Told(q) == q \notin In /\ \A p \in In : LeaveOn(q, p) \/ q \in gone[p]

Accounted(n, q) == q \in In \/ Mistaken(n, q) \/ Told(q)

\* A list that n made or passed on: nobody is missing, and who is too many is accounted for.
Good(n, S) == In \subseteq S /\ \A q \in S : Accounted(n, q)

\* Only n has a command under way or an invitation on the way.
Alone(n) ==
  /\ \A m \in Node : m # n => cli[m] = Idle /\ \A q \in Node : ~InviteOn(m, q)
  /\ \A q \in Node : InviteOn(n, q) => HasRoom(q)

Healing(n) ==
  /\ keys > 0 /\ HasRoom(n) /\ Key(n) = keys /\ Alone(n)
  /\ \A p \in In \cup {n} : Key(p) = keys => Good(n, View(p))
  /\ \A p \in In : \A m \in Invites(n, p) : Good(n, Elements(m.members) \cup {p})
  /\ \A q \in cli[n].add : Accounted(n, q)
  /\ \A q, p \in Node : LeaveOn(q, p) => Told(q)

\* Before CreateRoom there is nothing.
Unmade == keys = 0 => \A n \in Node : ~HasRoom(n) /\ \A m \in Node : wire[n][m] = <<>>

(* Every line still due is on the way under the key of who it is due to,    *)
(* from somebody on his list; and the room has been at rest since.          *)
DueIsOnTheWay ==
  /\ due # {} => Quiet /\ upset = {} /\ healed
  /\ due \subseteq Nat \X Node
  /\ \A x \in due : /\ x[2] \in View(x[2])
                    /\ \E p \in View(x[2]) : Chat(Key(x[2]), x[1]) \in Elements(wire[p][x[2]])

Agreement ==
  upset = {} => Settling /\ (healed => \E n \in Node : Healing(n))

AInv == IInv /\ Unmade /\ Agreement
----------------------------------------------------------------------------
\* A copy that is left alone.
LEMMA RoomSame ==
  ASSUME NEW n, room'[n] = room[n]
  PROVE  (HasRoom(n)' <=> HasRoom(n)) /\ Room(n)' = Room(n) /\ View(n)' = View(n) /\ Key(n)' = Key(n)
BY DEF HasRoom, Room, View, Key

\* A copy that is written.
LEMMA RoomNew ==
  ASSUME NEW n, NEW r, room'[n] = {r}
  PROVE  HasRoom(n)' /\ Room(n)' = r /\ View(n)' = Elements(r.members) /\ Key(n)' = r.key
<1>1. HasRoom(n)' /\ Room(n)' = r
  BY DEF HasRoom, Room
<1> QED BY <1>1 DEF View, Key

\* What the operators of Group say of a wire, in terms of its elements.
LEMMA OnFact ==
  ASSUME NEW w, NEW t
  PROVE  On(w, t) <=> \E m \in Elements(w) : m.type = t
BY DEF On, Elements

\* Quiet says that no invitation or departure is on the way and no command under way.
LEMMA QuietFact ==
  /\ Quiet <=> \A n \in Node : cli[n] = Idle /\ \A m \in Node : ~InviteOn(n, m) /\ ~LeaveOn(n, m)
  /\ \A m \in Node : m \in Members <=> m \in In \/ \E n \in Node : InviteOn(n, m)
<1>1. \A n, m \in Node : /\ On(wire[n][m], "group_invite") <=> InviteOn(n, m)
                         /\ On(wire[n][m], "group_leave") <=> LeaveOn(n, m)
  BY OnFact DEF InviteOn, LeaveOn, Invites
<1> QED BY <1>1 DEF Quiet, Members, Invited, In, IsMember

\* An idle command loop has nothing to read or to add.
LEMMA IdleEmpty ==
  Idle.array = <<>> /\ Idle.add = {} /\ ~Idle.shared /\ Unread(Idle) = {} /\ Elements(Idle.array) = {}
BY DEF Idle, Unread, Elements

\* Who has no copy lists nobody.
LEMMA ViewFact ==
  ASSUME TypeOK, NEW n \in Node
  PROVE  /\ View(n) \subseteq Node /\ (View(n) # {} => HasRoom(n))
         /\ HasRoom(n) => View(n) = Elements(Room(n).members) /\ Room(n) \in Copy /\ Key(n) \in Nat
<1>1. HasRoom(n) => Room(n) \in Copy
  BY RoomOf
<1>2. HasRoom(n) => Elements(Room(n).members) \subseteq Node /\ Key(n) \in Nat
  BY <1>1 DEF Copy, Listing, Elements, Key
<1> QED BY <1>1, <1>2 DEF View

\* Lists name nodes.
LEMMA NodesOnly ==
  ASSUME TypeOK
  PROVE  /\ \A n \in Node : View(n) \subseteq Node /\ Elements(cli[n].array) \subseteq Node /\ cli[n].add \subseteq Node
         /\ \A p, q \in Node : \A m \in Invites(p, q) : /\ m \in Message /\ m.members \in Listing /\ m.key \in Nat
                                                        /\ Elements(m.members) \subseteq Node
<1>1. ASSUME NEW n \in Node
      PROVE  View(n) \subseteq Node /\ Elements(cli[n].array) \subseteq Node /\ cli[n].add \subseteq Node
  <2>1. cli[n] \in Cli
    BY DEF TypeOK
  <2>2. cli[n].array \in Seq(Node) /\ cli[n].add \subseteq Node
    BY <2>1 DEF Cli
  <2> QED BY <2>2, ViewFact DEF Elements
<1>2. ASSUME NEW p \in Node, NEW q \in Node, NEW m \in Invites(p, q)
      PROVE  m \in Message /\ m.members \in Listing /\ m.key \in Nat /\ Elements(m.members) \subseteq Node
  <2>1. wire[p][q] \in Seq(Message)
    BY DEF TypeOK
  <2>2. m \in Message /\ m.type = "group_invite"
    BY <2>1 DEF Invites, Elements
  <2>3. m.members \in Listing /\ m.key \in Nat
    BY <2>2 DEF Message
  <2> QED BY <2>2, <2>3 DEF Listing, Elements
<1> QED BY <1>1, <1>2

\* RemoveMember keeps all others.
LEMMA RemoveFromAll ==
  ASSUME NEW s \in Listing, NEW m \in Node
  PROVE  Elements(RemoveFrom(s, m)) = Elements(s) \ {m}
<1>1. Elements(RemoveFrom(s, m)) \subseteq Elements(s) \ {m}
  BY RemoveFromFact
<1>2. CASE m \notin Elements(s)
  BY <1>2 DEF RemoveFrom
<1>3. CASE m \in Elements(s)
  <2> DEFINE k == CHOOSE i \in DOMAIN s : s[i] = m
             t == [i \in 1..(Len(s) - 1) |-> IF i < k THEN s[i] ELSE s[i + 1]]
  <2>1. s \in Seq(Node) /\ Len(s) \in Nat /\ DOMAIN s = 1..Len(s)
    BY DEF Listing
  <2>2. k \in 1..Len(s) /\ s[k] = m
    BY <1>3, <2>1 DEF Elements
  <2> HIDE DEF k
  <2>3. ASSUME NEW i \in 1..Len(s), s[i] # m PROVE s[i] \in Elements(t)
    <3>1. CASE i < k
      <4>1. i \in 1..(Len(s) - 1) /\ t[i] = s[i]
        BY <2>1, <2>2, <3>1
      <4> QED BY <4>1 DEF Elements
    <3>2. CASE ~(i < k)
      <4>1. i - 1 \in 1..(Len(s) - 1) /\ ~(i - 1 < k) /\ (i - 1) + 1 = i
        BY <2>1, <2>2, <2>3, <3>2
      <4>2. t[i - 1] = s[i]
        BY <4>1
      <4> QED BY <4>1, <4>2 DEF Elements
    <3> QED BY <3>1, <3>2
  <2>4. Elements(s) \ {m} \subseteq Elements(t)
    BY <2>1, <2>3 DEF Elements
  <2>5. RemoveFrom(s, m) = t
    BY <1>3 DEF RemoveFrom, k
  <2> QED BY <1>1, <2>4, <2>5
<1> QED BY <1>2, <1>3

\* A reader takes the one message off the wire.
LEMMA ReadsExact ==
  ASSUME TypeOK, NEW n \in Node, NEW p \in Node, NEW t, Reads(n, p, t)
  PROVE  /\ \A a, b \in Node : ~(a = p /\ b = n) => wire'[a][b] = wire[a][b]
         /\ Elements(wire[p][n]) = Elements(wire'[p][n]) \cup {Head(wire[p][n])}
         /\ Head(wire[p][n]).type = t
<1>1. wire \in [Node -> [Node -> Seq(Message)]] /\ wire[p][n] \in Seq(Message) /\ wire[p][n] # <<>>
  BY DEF TypeOK, Reads
<1>2. wire' = [wire EXCEPT ![p] = [wire[p] EXCEPT ![n] = Tail(wire[p][n])]]
  BY <1>1 DEF Reads
<1>3. wire'[p][n] = Tail(wire[p][n]) /\ \A a, b \in Node : ~(a = p /\ b = n) => wire'[a][b] = wire[a][b]
  BY <1>1, <1>2
<1> DEFINE w == wire[p][n]
<1>4. w \in Seq(Message) /\ w # <<>>
  BY <1>1
<1> HIDE DEF w
<1>5. /\ Len(w) \in Nat /\ DOMAIN w = 1..Len(w) /\ 1 \in DOMAIN w /\ Head(w) = w[1]
      /\ DOMAIN Tail(w) = 1..(Len(w) - 1) /\ \A i \in 1..(Len(w) - 1) : Tail(w)[i] = w[i + 1]
  BY <1>4
<1>6. \A i \in DOMAIN w : i = 1 \/ (i - 1 \in DOMAIN Tail(w) /\ Tail(w)[i - 1] = w[i])
  BY <1>5
<1>7. \A i \in DOMAIN Tail(w) : i + 1 \in DOMAIN w /\ Tail(w)[i] = w[i + 1]
  BY <1>5
<1>8. Elements(w) = Elements(Tail(w)) \cup {Head(w)}
  BY <1>5, <1>6, <1>7 DEF Elements
<1> QED BY <1>3, <1>8 DEF w, Reads

\* sendRaw on the connections to M, by the elements of the wires.
LEMMA SentExact ==
  ASSUME TypeOK, NEW n \in Node, NEW M \in SUBSET Node, NEW msg \in Message,
         wire' = Sent(n, M, msg)
  PROVE  /\ \A a, b \in Node : ~(a = n /\ b \in M) => wire'[a][b] = wire[a][b]
         /\ \A b \in M : Elements(wire'[n][b]) = Elements(wire[n][b]) \cup {msg}
<1>1. \A a, b \in Node : ~(a = n /\ b \in M) => Sent(n, M, msg)[a][b] = wire[a][b]
  BY SentFact
<1>2. \A b \in M : Sent(n, M, msg)[n][b] = Append(wire[n][b], msg)
  BY SentFact
<1>3. \A b \in M : wire[n][b] \in Seq(Message)
  BY DEF TypeOK
<1>4. \A b \in M : Elements(Append(wire[n][b], msg)) = Elements(wire[n][b]) \cup {msg}
  BY <1>3, AppendElements
<1> QED BY <1>1, <1>2, <1>4

\* upset stays empty: none of its events happened.
LEMMA NoUpset ==
  ASSUME NEW S, Upset(S), upset' = {}
  PROVE  S = {} /\ upset = {}
BY DEF Upset

\* An event that is not on record did not happen.
LEMMA WhenNot ==
  ASSUME NEW b, NEW why, When(b, why) = {}
  PROVE  ~b
BY DEF When

(* A step after which every copy, command loop, invitation and departure is *)
(* what it was.                                                             *)
Unmoved ==
  /\ UNCHANGED <<room, cli, keys, gone, healed>>
  /\ \A a, b \in Node : Invites(a, b)' = Invites(a, b) /\ (LeaveOn(a, b)' <=> LeaveOn(a, b))

\* Unmoved, by what the invariants are made of.
LEMMA UnmovedFact ==
  ASSUME Unmoved
  PROVE  /\ \A a : /\ (HasRoom(a)' <=> HasRoom(a)) /\ Room(a)' = Room(a) /\ View(a)' = View(a)
                   /\ Key(a)' = Key(a) /\ ToRead(a)' = ToRead(a) /\ cli'[a] = cli[a] /\ gone'[a] = gone[a]
         /\ In' = In /\ keys' = keys
         /\ \A a, b \in Node : InviteOn(a, b)' <=> InviteOn(a, b)
<1>1. \A a : /\ (HasRoom(a)' <=> HasRoom(a)) /\ Room(a)' = Room(a) /\ View(a)' = View(a)
             /\ Key(a)' = Key(a)
  BY RoomSame DEF Unmoved
<1>2. \A a : ToRead(a)' = ToRead(a) /\ cli'[a] = cli[a] /\ gone'[a] = gone[a]
  BY DEF Unmoved, ToRead
<1>3. In' = In
  BY <1>1 DEF In
<1>4. \A a, b \in Node : InviteOn(a, b)' <=> InviteOn(a, b)
  BY DEF Unmoved, InviteOn
<1> QED BY <1>1, <1>2, <1>3, <1>4 DEF Unmoved

\* Such a step keeps the agreement.
LEMMA UnmovedStep ==
  ASSUME TypeOK, Unmoved, Settling, healed => \E n \in Node : Healing(n)
  PROVE  Settling' /\ (healed' => \E n \in Node : Healing(n)')
<1>1. /\ \A a : /\ (HasRoom(a)' <=> HasRoom(a)) /\ Room(a)' = Room(a) /\ View(a)' = View(a)
                /\ Key(a)' = Key(a) /\ ToRead(a)' = ToRead(a) /\ cli'[a] = cli[a] /\ gone'[a] = gone[a]
      /\ In' = In /\ keys' = keys /\ healed' = healed
      /\ \A a, b \in Node : /\ (InviteOn(a, b)' <=> InviteOn(a, b)) /\ Invites(a, b)' = Invites(a, b)
                            /\ (LeaveOn(a, b)' <=> LeaveOn(a, b))
  BY UnmovedFact DEF Unmoved
<1>2. \A q \in Node : Known(q)' <=> Known(q)
  BY <1>1 DEF Known
<1>3. /\ \A n \in Node : View(n) \subseteq Node /\ Elements(cli[n].array) \subseteq Node /\ cli[n].add \subseteq Node
      /\ \A p, q \in Node : \A m \in Invites(p, q) : Elements(m.members) \subseteq Node
  BY NodesOnly
<1>4. ListedAreKnown'
  BY <1>1, <1>2, <1>3 DEF Settling, ListedAreKnown
<1>5. NewestKey' /\ LeaverIsOut'
  BY <1>1 DEF Settling, NewestKey, LeaverIsOut
<1>6. MembersGetKey'
  BY <1>1 DEF Settling, MembersGetKey, In
<1>7. SliceIsList'
  BY <1>1 DEF Settling, SliceIsList, SliceOf
<1>8. ASSUME NEW n \in Node, Healing(n) PROVE Healing(n)'
  <2>1. \A q \in Node : Told(q)' <=> Told(q)
    BY <1>1 DEF Told, In
  <2>2. \A q \in Node : Accounted(n, q)' <=> Accounted(n, q)
    BY <1>1, <2>1 DEF Accounted, Mistaken
  <2>3. \A S \in SUBSET Node : Good(n, S) => Good(n, S)'
    BY <1>1, <2>2 DEF Good
  <2>4. Alone(n)'
    BY <1>1, <1>8 DEF Healing, Alone
  <2>5. \A p \in In' \cup {n} : Key(p)' = keys' => Good(n, View(p))'
    BY <1>1, <1>3, <1>8, <2>3 DEF Healing, In
  <2>6. \A p \in In' : \A m \in Invites(n, p)' : Good(n, Elements(m.members) \cup {p})'
    BY <1>1, <1>3, <1>8, <2>3 DEF Healing, In
  <2>7. \A q \in cli'[n].add : Accounted(n, q)'
    BY <1>1, <1>3, <1>8, <2>2 DEF Healing
  <2>8. \A q, p \in Node : LeaveOn(q, p)' => Told(q)'
    BY <1>1, <1>8, <2>1 DEF Healing
  <2>9. keys' > 0 /\ HasRoom(n)' /\ Key(n)' = keys'
    BY <1>1, <1>8 DEF Healing
  <2> QED BY <2>4, <2>5, <2>6, <2>7, <2>8, <2>9 DEF Healing
<1> QED BY <1>1, <1>4, <1>5, <1>6, <1>7, <1>8 DEF Settling
----------------------------------------------------------------------------
\* A loop that begins has the whole list to read.
LEMMA UnreadBegin ==
  ASSUME NEW s \in Seq(Node)
  PROVE  Unread([array |-> s, next |-> 1, shared |-> TRUE, add |-> {}]) = Elements(s)
<1>1. DOMAIN s = 1..Len(s) /\ Len(s) \in Nat
  OBVIOUS
<1>2. {j \in DOMAIN s : j >= 1} = DOMAIN s
  BY <1>1
<1> QED BY <1>2 DEF Unread, Elements

\* A loop that is finished has nothing left to read.
LEMMA UnreadSettle ==
  ASSUME NEW c \in Cli
  PROVE  Unread(Settle(c)) = Unread(c)
<1>1. CASE Finished(c)
  <2>1. c.array \in Seq(Node) /\ c.next \in Nat /\ c.next > Len(c.array)
    BY <1>1 DEF Cli, Finished
  <2>2. {j \in DOMAIN c.array : j >= c.next} = {}
    BY <2>1
  <2>3. Unread(c) = {}
    BY <2>2 DEF Unread
  <2> QED BY <1>1, <2>3, IdleEmpty DEF Settle
<1>2. CASE ~Finished(c)
  BY <1>2 DEF Settle
<1> QED BY <1>1, <1>2

\* One round of the loop reads one slot.
LEMMA UnreadNext ==
  ASSUME NEW c \in Cli, NEW A, c.next <= Len(c.array)
  PROVE  /\ Unread(c) \subseteq Unread([[c EXCEPT !.next = @ + 1] EXCEPT !.add = A]) \cup {c.array[c.next]}
         /\ Unread(c) \subseteq Unread([c EXCEPT !.next = @ + 1]) \cup {c.array[c.next]}
         /\ c.array[c.next] \in Elements(c.array)
<1> DEFINE d == [c EXCEPT !.next = @ + 1]
           e == [d EXCEPT !.add = A]
<1>1. d.array = c.array /\ e.array = c.array /\ d.next = c.next + 1 /\ e.next = c.next + 1
  BY DEF Cli
<1>2. c.array \in Seq(Node) /\ c.next \in Nat \ {0} /\ DOMAIN c.array = 1..Len(c.array) /\ Len(c.array) \in Nat
  BY DEF Cli
<1>3. \A j \in DOMAIN c.array : j >= c.next => j = c.next \/ j >= c.next + 1
  BY <1>2
<1>4. c.next \in DOMAIN c.array
  BY <1>2
<1> HIDE DEF d, e
<1>5. Unread(c) \subseteq Unread(d) \cup {c.array[c.next]} /\ Unread(c) \subseteq Unread(e) \cup {c.array[c.next]}
  BY <1>1, <1>3 DEF Unread
<1> QED BY <1>4, <1>5 DEF d, e, Elements

\* AddMember and RemoveMember write the list over the slice of a running loop.
LEMMA OverlayExact ==
  ASSUME NEW c \in Cli, NEW s \in Listing
  PROVE  LET d == Overlay(c, s) IN
         /\ d.shared = c.shared /\ d.next = c.next /\ DOMAIN d.array = DOMAIN c.array
         /\ d.shared => \A i \in DOMAIN d.array : i <= Len(s) => d.array[i] = s[i]
         /\ (\A i \in DOMAIN c.array : i <= Len(s) => c.array[i] = s[i]) => d = c
         /\ ~c.shared => d = c
<1>1. CASE ~c.shared
  BY <1>1 DEF Overlay
<1>2. CASE c.shared
  <2> DEFINE a == [i \in DOMAIN c.array |-> IF i <= Len(s) THEN s[i] ELSE c.array[i]]
             d == [c EXCEPT !.array = a]
  <2>1. Overlay(c, s) = d
    BY <1>2 DEF Overlay
  <2>2. DOMAIN a = DOMAIN c.array /\ \A i \in DOMAIN a : i <= Len(s) => a[i] = s[i]
    OBVIOUS
  <2>3. ASSUME \A i \in DOMAIN c.array : i <= Len(s) => c.array[i] = s[i] PROVE a = c.array
    <3>1. c.array \in Seq(Node)
      BY DEF Cli
    <3>2. c.array = [i \in DOMAIN c.array |-> c.array[i]]
      BY <3>1
    <3>3. \A i \in DOMAIN c.array : c.array[i] = IF i <= Len(s) THEN s[i] ELSE c.array[i]
      BY <2>3
    <3> QED BY <3>2, <3>3
  <2> HIDE DEF a
  <2>4. d.shared = c.shared /\ d.next = c.next /\ d.array = a /\ (a = c.array => d = c)
    BY DEF Cli
  <2> QED BY <1>2, <2>1, <2>2, <2>3, <2>4
<1> QED BY <1>1, <1>2
----------------------------------------------------------------------------
\* Two wires with the same elements but one, by the kind of that one.
LEMMA KindsOf ==
  ASSUME NEW a \in Node, NEW b \in Node, NEW msg
  PROVE  /\ Elements(wire[a][b]) = Elements(wire'[a][b]) \cup {msg} =>
              /\ msg.type = "group_invite" => Invites(a, b) = Invites(a, b)' \cup {msg}
              /\ msg.type # "group_invite" => Invites(a, b)' = Invites(a, b)
              /\ msg.type # "group_leave" => (LeaveOn(a, b)' <=> LeaveOn(a, b))
              /\ LeaveOn(a, b)' => LeaveOn(a, b)
              /\ msg.type = "group_leave" => LeaveOn(a, b)
         /\ Elements(wire'[a][b]) = Elements(wire[a][b]) \cup {msg} =>
              /\ msg.type = "group_invite" => Invites(a, b)' = Invites(a, b) \cup {msg}
              /\ msg.type # "group_invite" => Invites(a, b)' = Invites(a, b)
              /\ msg.type # "group_leave" => (LeaveOn(a, b)' <=> LeaveOn(a, b))
              /\ msg.type = "group_leave" => LeaveOn(a, b)'
         /\ wire'[a][b] = wire[a][b] => Invites(a, b)' = Invites(a, b) /\ (LeaveOn(a, b)' <=> LeaveOn(a, b))
BY DEF Invites, LeaveOn

\* A group_chat that is read takes no invitation and no departure with it.
LEMMA ReadsKinds ==
  ASSUME TypeOK, NEW n \in Node, NEW p \in Node, NEW t, Reads(n, p, t)
  PROVE  /\ \A a, b \in Node : ~(a = p /\ b = n) =>
              Invites(a, b)' = Invites(a, b) /\ (LeaveOn(a, b)' <=> LeaveOn(a, b))
         /\ t = "group_chat" => Invites(p, n)' = Invites(p, n) /\ (LeaveOn(p, n)' <=> LeaveOn(p, n))
         /\ t = "group_invite" => /\ Invites(p, n) = Invites(p, n)' \cup {Head(wire[p][n])}
                                  /\ LeaveOn(p, n)' <=> LeaveOn(p, n)
         /\ t = "group_leave" => /\ Invites(p, n)' = Invites(p, n)
                                 /\ LeaveOn(p, n) /\ (LeaveOn(p, n)' => LeaveOn(p, n))
<1>1. /\ \A a, b \in Node : ~(a = p /\ b = n) => wire'[a][b] = wire[a][b]
      /\ Elements(wire[p][n]) = Elements(wire'[p][n]) \cup {Head(wire[p][n])}
      /\ Head(wire[p][n]).type = t
  BY ReadsExact
<1>2. \A a, b \in Node : ~(a = p /\ b = n) =>
        Invites(a, b)' = Invites(a, b) /\ (LeaveOn(a, b)' <=> LeaveOn(a, b))
  BY <1>1, KindsOf
<1> DEFINE msg == Head(wire[p][n])
<1>3. msg.type = t /\ Elements(wire[p][n]) = Elements(wire'[p][n]) \cup {msg}
  BY <1>1
<1> HIDE DEF msg
<1>4. /\ msg.type = "group_invite" => Invites(p, n) = Invites(p, n)' \cup {msg}
      /\ msg.type # "group_invite" => Invites(p, n)' = Invites(p, n)
      /\ msg.type # "group_leave" => (LeaveOn(p, n)' <=> LeaveOn(p, n))
      /\ LeaveOn(p, n)' => LeaveOn(p, n)
      /\ msg.type = "group_leave" => LeaveOn(p, n)
  BY <1>3, KindsOf
<1> QED BY <1>2, <1>3, <1>4 DEF msg

\* What sendRaw adds, by the kind of the message.
LEMMA SentKinds ==
  ASSUME TypeOK, NEW n \in Node, NEW M \in SUBSET Node, NEW msg \in Message,
         wire' = Sent(n, M, msg)
  PROVE  /\ \A a, b \in Node : ~(a = n /\ b \in M) =>
              Invites(a, b)' = Invites(a, b) /\ (LeaveOn(a, b)' <=> LeaveOn(a, b))
         /\ \A b \in M :
              /\ msg.type = "group_invite" => Invites(n, b)' = Invites(n, b) \cup {msg}
              /\ msg.type # "group_invite" => Invites(n, b)' = Invites(n, b)
              /\ msg.type # "group_leave" => (LeaveOn(n, b)' <=> LeaveOn(n, b))
              /\ msg.type = "group_leave" => LeaveOn(n, b)'
<1>1. /\ \A a, b \in Node : ~(a = n /\ b \in M) => wire'[a][b] = wire[a][b]
      /\ \A b \in M : Elements(wire'[n][b]) = Elements(wire[n][b]) \cup {msg}
  BY SentExact
<1>2. \A a, b \in Node : ~(a = n /\ b \in M) =>
        Invites(a, b)' = Invites(a, b) /\ (LeaveOn(a, b)' <=> LeaveOn(a, b))
  BY <1>1, KindsOf
<1>3. ASSUME NEW b \in M
      PROVE  /\ msg.type = "group_invite" => Invites(n, b)' = Invites(n, b) \cup {msg}
             /\ msg.type # "group_invite" => Invites(n, b)' = Invites(n, b)
             /\ msg.type # "group_leave" => (LeaveOn(n, b)' <=> LeaveOn(n, b))
             /\ msg.type = "group_leave" => LeaveOn(n, b)'
  BY <1>1, KindsOf
<1> QED BY <1>2, <1>3

\* SendGroup sends neither invitation nor departure.
LEMMA SendGroupAgrees ==
  ASSUME IInv, NEW n \in Node, SendGroup(n) PROVE Unmoved /\ upset' = upset
<1>1. TypeOK
  BY DEF IInv
<1> DEFINE msg == Chat(Room(n).key, commands + 1)
<1>2. /\ HasRoom(n) /\ wire' = Sent(n, Recipients(n), msg)
      /\ UNCHANGED <<room, cli, keys, healed, upset, gone>>
  BY DEF SendGroup
<1>3. Room(n) \in Copy
  BY <1>1, <1>2, RoomOf
<1>4. msg \in Message /\ msg.type = "group_chat"
  BY <1>1, <1>3 DEF Chat, Message, Copy, TypeOK
<1>5. Recipients(n) \in SUBSET Node
  BY DEF Recipients, Peers
<1> HIDE DEF msg
<1>6. /\ \A a, b \in Node : ~(a = n /\ b \in Recipients(n)) =>
              Invites(a, b)' = Invites(a, b) /\ (LeaveOn(a, b)' <=> LeaveOn(a, b))
      /\ \A b \in Recipients(n) : Invites(n, b)' = Invites(n, b) /\ (LeaveOn(n, b)' <=> LeaveOn(n, b))
  BY <1>1, <1>2, <1>4, <1>5, SentKinds
<1> QED BY <1>2, <1>6 DEF Unmoved

\* handleGroupChat, and a line that is refused.
LEMMA ReadChatAgrees ==
  ASSUME IInv, NEW n \in Node, NEW p \in Node, Reads(n, p, "group_chat"),
         UNCHANGED <<room, cli, keys, gone, healed>>
  PROVE  Unmoved
<1>1. TypeOK
  BY DEF IInv
<1>2. /\ \A a, b \in Node : ~(a = p /\ b = n) =>
              Invites(a, b)' = Invites(a, b) /\ (LeaveOn(a, b)' <=> LeaveOn(a, b))
      /\ Invites(p, n)' = Invites(p, n) /\ (LeaveOn(p, n)' <=> LeaveOn(p, n))
  BY <1>1, ReadsKinds
<1> QED BY <1>2 DEF Unmoved

\* Connections that break while they carry no invitation and no departure.
LEMMA LostAgrees ==
  ASSUME IInv, NEW C, Lost(C), ~Carry(C),
         UNCHANGED <<room, cli, keys, gone, healed>>
  PROVE  Unmoved
<1>1. \A a, b \in Node : wire'[a][b] = IF {a, b} \in C THEN <<>> ELSE wire[a][b]
  BY DEF Lost
<1>2. ASSUME NEW a \in Node, NEW b \in Node
      PROVE  Invites(a, b)' = Invites(a, b) /\ (LeaveOn(a, b)' <=> LeaveOn(a, b))
  <2>1. CASE {a, b} \in C
    <3>1. ~On(wire[a][b], "group_invite") /\ ~On(wire[a][b], "group_leave")
      BY <2>1 DEF Carry
    <3>2. Invites(a, b) = {} /\ ~LeaveOn(a, b)
      BY <3>1, OnFact DEF Invites, LeaveOn
    <3>3. Elements(wire'[a][b]) = {}
      BY <1>1, <2>1 DEF Elements
    <3>4. Invites(a, b)' = {} /\ ~LeaveOn(a, b)'
      BY <3>3 DEF Invites, LeaveOn
    <3> QED BY <3>2, <3>4
  <2>2. CASE {a, b} \notin C
    BY <1>1, <2>2, KindsOf
  <2> QED BY <2>1, <2>2
<1> QED BY <1>2 DEF Unmoved

\* A refused invitation upsets; a refused line does not.
LEMMA RefuseAgrees ==
  ASSUME IInv, NEW n \in Node, NEW p \in Node, Refuse(n, p), upset' = {}
  PROVE  Unmoved /\ upset = {}
<1>1. UNCHANGED <<room, cli, keys, gone, healed>>
  BY DEF Refuse
<1> DEFINE S == When(Head(wire[p][n]).type = "group_invite", "refused")
<1>2. Upset(S)
  BY DEF Refuse
<1>3. S = {} /\ upset = {}
  BY <1>2, NoUpset
<1>4. Head(wire[p][n]).type # "group_invite"
  BY <1>3, WhenNot
<1>5. Reads(n, p, "group_chat")
  BY <1>4 DEF Refuse, Reads
<1> QED BY <1>1, <1>3, <1>5, ReadChatAgrees

\* A break that loses an invitation or a departure upsets.
LEMMA BreakAgrees ==
  ASSUME IInv, NEW n \in Node, NEW m \in Node, Break(n, m), upset' = {}
  PROVE  Unmoved /\ upset = {}
<1> DEFINE C == {{n, m}}
           S == When(Carry(C), "lost")
<1>1. UNCHANGED <<room, cli, keys, gone, healed>> /\ Lost(C) /\ Upset(S)
  BY DEF Break, Drop
<1> HIDE DEF C
<1>2. S = {} /\ upset = {}
  BY <1>1, NoUpset
<1>3. ~Carry(C)
  BY <1>2, WhenNot
<1> QED BY <1>1, <1>2, <1>3, LostAgrees

\* So does a restart, also when it stops a command.
LEMMA RestartAgrees ==
  ASSUME IInv, NEW n \in Node, Restart(n), upset' = {}
  PROVE  Unmoved /\ upset = {}
<1> DEFINE C == {{n, m} : m \in Peers(n)}
           S == When(Carry(C), "lost") \cup When(cli[n] # Idle, "stopped")
<1>1. UNCHANGED <<room, keys, gone, healed>> /\ cli' = [cli EXCEPT ![n] = Idle] /\ Lost(C) /\ Upset(S)
  BY DEF Restart, Drop
<1> HIDE DEF C
<1>2. S = {} /\ upset = {}
  BY <1>1, NoUpset
<1>3. When(Carry(C), "lost") = {} /\ When(cli[n] # Idle, "stopped") = {}
  BY <1>2
<1>4. ~Carry(C) /\ cli[n] = Idle
  BY <1>3, WhenNot
<1>5. cli' = cli
  BY <1>1, <1>4 DEF IInv, TypeOK
<1> QED BY <1>1, <1>2, <1>4, <1>5, LostAgrees

\* Nothing is there before CreateRoom, and every other operation needs a copy or a message.
LEMMA NextUnmade ==
  ASSUME IInv, Unmade, [Next]_vars PROVE Unmade'
<1>1. CASE UNCHANGED vars
  BY <1>1 DEF vars, Unmade, HasRoom
<1>2. CASE CreateRoom
  BY <1>2 DEF CreateRoom, Unmade
<1>3. ASSUME keys = 0, ~CreateRoom, ~UNCHANGED vars
      PROVE  room' = room /\ EmptyStays
  <2>1. \A n \in Node : ~HasRoom(n) /\ cli[n] = Idle /\ \A m \in Node : wire[n][m] = <<>>
    BY <1>3 DEF Unmade, IInv, BusyHasRoom
  <2>2. \A n \in Node : cli[n].add = {} /\ ~(cli[n].next <= Len(cli[n].array))
    BY <2>1 DEF Idle
  <2>3. \A n, m \in Node : ~InviteToRoom(n, m)
    BY <2>1 DEF InviteToRoom
  <2>4. \A n \in Node : ~AddMember(n) /\ ~RekeyMember(n)
    BY <2>2 DEF AddMember, RekeyMember
  <2>5. \A n \in Node : ~RekeyRoom(n) /\ ~LeaveRoom(n) /\ ~SendGroup(n)
    BY <2>1 DEF RekeyRoom, LeaveRoom, SendGroup
  <2>6. \A n, p \in Node : \A t : ~Reads(n, p, t)
    BY <2>1 DEF Reads
  <2>7. \A n, p \in Node : ~HandleGroupInvite(n, p) /\ ~HandleGroupLeave(n, p) /\ ~HandleGroupChat(n, p) /\ ~Refuse(n, p)
    BY <2>6 DEF HandleGroupInvite, HandleGroupLeave, HandleGroupChat, Refuse
  <2>8. \/ \E n \in Node : Restart(n)
        \/ \E n, m \in Node : Break(n, m) \/ Connect(n, m)
    BY <1>3, <2>3, <2>4, <2>5, <2>7 DEF Next, Command
  <2>9. ASSUME NEW n \in Node, Restart(n) PROVE room' = room /\ EmptyStays
    BY <2>9, LostFact DEF Restart, Drop, IInv, NothingSent
  <2>10. ASSUME NEW n \in Node, NEW m \in Node, Break(n, m) PROVE room' = room /\ EmptyStays
    BY <2>10, LostFact DEF Break, Drop, IInv, NothingSent
  <2>11. ASSUME NEW n \in Node, NEW m \in Node, Connect(n, m) PROVE room' = room /\ EmptyStays
    BY <2>11 DEF Connect, EmptyStays
  <2> QED BY <2>8, <2>9, <2>10, <2>11
<1>4. keys \in Nat /\ (keys' = keys \/ keys' = keys + 1)
  <2>1. keys \in Nat
    BY DEF IInv, TypeOK
  <2>2. \A n, m \in Node : InviteToRoom(n, m) => keys' = keys
    BY DEF InviteToRoom
  <2>3. \A n \in Node : Command(n) => keys' = keys \/ keys' = keys + 1
    BY <2>2 DEF Command, AddMember, RekeyRoom, RekeyMember, LeaveRoom, SendGroup
  <2>4. \A n \in Node : Restart(n) => keys' = keys
    BY DEF Restart
  <2>5. \A n, m \in Node :
          (\/ HandleGroupInvite(n, m) \/ HandleGroupLeave(n, m) \/ HandleGroupChat(n, m)
           \/ Refuse(n, m) \/ Break(n, m) \/ Connect(n, m)) => keys' = keys
    <3>1. \A n, m \in Node : HandleGroupInvite(n, m) => keys' = keys
      BY DEF HandleGroupInvite
    <3>2. \A n, m \in Node : HandleGroupLeave(n, m) => keys' = keys
      BY DEF HandleGroupLeave
    <3>3. \A n, m \in Node : HandleGroupChat(n, m) \/ Refuse(n, m) => keys' = keys
      BY DEF HandleGroupChat, Refuse
    <3>4. \A n, m \in Node : Break(n, m) \/ Connect(n, m) => keys' = keys
      BY DEF Break, Connect
    <3> QED BY <3>1, <3>2, <3>3, <3>4
  <2>6. UNCHANGED vars => keys' = keys
    BY DEF vars
  <2>7. CreateRoom => keys' = keys + 1
    BY DEF CreateRoom
  <2> QED BY <2>1, <2>3, <2>4, <2>5, <2>6, <2>7 DEF Next
<1>5. keys # 0 => keys' # 0
  BY <1>4
<1> QED BY <1>1, <1>2, <1>3, <1>5 DEF Unmade, HasRoom, EmptyStays

\* CreateRoom: one copy and nothing else.
LEMMA CreateAgrees ==
  ASSUME IInv, Unmade, CreateRoom, Settling, healed => \E n \in Node : Healing(n)
  PROVE  Settling' /\ ~healed'
<1> USE GroupAssumption
<1> DEFINE r0 == [key |-> 1, members |-> <<Creator>>]
<1>1. keys = 0 /\ keys' = 1 /\ room' = [room EXCEPT ![Creator] = {r0}] /\ UNCHANGED <<cli, wire, healed, gone>>
  BY DEF CreateRoom, history
<1>2. \A n \in Node : ~HasRoom(n) /\ cli[n] = Idle /\ \A m \in Node : wire[n][m] = <<>>
  BY <1>1 DEF Unmade, IInv, BusyHasRoom
<1>3. \A n \in Node : View(n) = {} /\ n \notin In /\ ToRead(n)' = {}
  BY <1>1, <1>2, IdleEmpty DEF View, In, ToRead
<1>4. /\ Room(Creator)' = r0 /\ HasRoom(Creator)' /\ View(Creator)' = {Creator} /\ Key(Creator)' = 1
  <2>1. room'[Creator] = {r0}
    BY <1>1 DEF IInv, TypeOK
  <2>2. r0.key = 1 /\ r0.members = <<Creator>> /\ Elements(r0.members) = {Creator}
    BY DEF Elements
  <2> HIDE DEF r0
  <2> QED BY <2>1, <2>2, RoomNew
<1>5. \A n \in Node : n # Creator => ~HasRoom(n)' /\ View(n)' = {}
  <2>1. \A n \in Node : n # Creator => room'[n] = room[n]
    BY <1>1 DEF IInv, TypeOK
  <2> QED BY <1>2, <1>3, <2>1, RoomSame
<1>6. \A a, b \in Node : Invites(a, b)' = {} /\ ~LeaveOn(a, b)' /\ ~InviteOn(a, b)'
  <2>1. \A a, b \in Node : Elements(wire'[a][b]) = {}
    BY <1>1, <1>2 DEF Elements
  <2> QED BY <2>1 DEF Invites, LeaveOn, InviteOn
<1>7. \A n \in Node : cli'[n] = Idle
  BY <1>1, <1>2
<1>8. ListedAreKnown'
  BY <1>4, <1>5, <1>6, <1>7, IdleEmpty DEF ListedAreKnown, Known
<1>9. NewestKey' /\ LeaverIsOut'
  BY <1>6, <1>7 DEF NewestKey, LeaverIsOut
<1>10. MembersGetKey'
  BY <1>1, <1>4, <1>5 DEF MembersGetKey, In
<1>11. SliceIsList'
  BY <1>7, IdleEmpty DEF SliceIsList, SliceOf
<1>12. ~healed
  BY <1>1 DEF Healing
<1> QED BY <1>1, <1>8, <1>9, <1>10, <1>11, <1>12 DEF Settling

\* SendInvite, by what it does to the wires.
LEMMA SendInviteKinds ==
  ASSUME TypeOK, NEW n \in Node, NEW m \in Peers(n), HasRoom(n), SendInvite(n, m)
  PROVE  /\ m \in Node /\ m # n
         /\ \A a, b \in Node : LeaveOn(a, b)' <=> LeaveOn(a, b)
         /\ \A a, b \in Node : ~(a = n /\ b = m) => Invites(a, b)' = Invites(a, b)
         /\ Invites(n, m)' = Invites(n, m) \cup {Invite(Room(n))}
         /\ Invite(Room(n)).key = Key(n) /\ Elements(Invite(Room(n)).members) = View(n)
<1>1. m \in Node /\ m # n /\ {m} \in SUBSET Node
  BY DEF Peers
<1>2. Room(n) \in Copy
  BY RoomOf
<1> DEFINE msg == Invite(Room(n))
           M == {m}
<1>3. /\ msg \in Message /\ msg.type = "group_invite" /\ msg.key = Key(n)
      /\ Elements(msg.members) = View(n)
  BY <1>2 DEF Invite, Message, Copy, Key, View
<1>4. wire' = Sent(n, M, msg)
  BY DEF SendInvite
<1>5. M \in SUBSET Node /\ m \in M /\ \A b : b \in M <=> b = m
  BY <1>1
<1> HIDE DEF msg, M
<1>6. /\ \A a, b \in Node : ~(a = n /\ b \in M) =>
           Invites(a, b)' = Invites(a, b) /\ (LeaveOn(a, b)' <=> LeaveOn(a, b))
      /\ \A b \in M : Invites(n, b)' = Invites(n, b) \cup {msg} /\ (LeaveOn(n, b)' <=> LeaveOn(n, b))
  <2>1. msg.type # "group_leave" /\ msg.type = "group_invite" /\ msg \in Message
    BY <1>3
  <2>2. \A a, b \in Node : ~(a = n /\ b \in M) =>
          Invites(a, b)' = Invites(a, b) /\ (LeaveOn(a, b)' <=> LeaveOn(a, b))
    BY <1>4, <1>5, <2>1, SentKinds
  <2>3. \A b \in M :
          /\ msg.type = "group_invite" => Invites(n, b)' = Invites(n, b) \cup {msg}
          /\ msg.type # "group_invite" => Invites(n, b)' = Invites(n, b)
          /\ msg.type # "group_leave" => (LeaveOn(n, b)' <=> LeaveOn(n, b))
          /\ msg.type = "group_leave" => LeaveOn(n, b)'
    BY <1>4, <1>5, <2>1, SentKinds
  <2> QED BY <2>1, <2>2, <2>3
<1> QED BY <1>1, <1>3, <1>5, <1>6 DEF msg

\* InviteToRoom: somebody is invited, with the newest key.
LEMMA InviteAgrees ==
  ASSUME IInv, NEW n \in Node, NEW m \in Node, InviteToRoom(n, m), upset' = {}, upset = {} => Settling
  PROVE  Settling' /\ ~healed'
<1>1. TypeOK
  BY DEF IInv
<1> DEFINE S == When(Room(n).key # keys, "old key")
           c == [Idle EXCEPT !.add = {m}]
<1>2. /\ HasRoom(n) /\ m \in Peers(n) /\ SendInvite(n, m) /\ cli[n] = Idle
      /\ cli' = [cli EXCEPT ![n].add = {m}] /\ Upset(S)
      /\ healed' = FALSE /\ gone' = [gone EXCEPT ![n] = @ \ {m}] /\ UNCHANGED <<room, keys>>
  BY DEF InviteToRoom, Types
<1>3. S = {} /\ upset = {}
  BY <1>2, NoUpset
<1>4. Key(n) = keys
  BY <1>3, WhenNot DEF Key
<1>5. Settling
  BY <1>3
<1>6. /\ m # n
      /\ \A a, b \in Node : LeaveOn(a, b)' <=> LeaveOn(a, b)
      /\ \A a, b \in Node : ~(a = n /\ b = m) => Invites(a, b)' = Invites(a, b)
      /\ Invites(n, m)' = Invites(n, m) \cup {Invite(Room(n))}
      /\ Invite(Room(n)).key = Key(n) /\ Elements(Invite(Room(n)).members) = View(n)
  BY <1>1, <1>2, SendInviteKinds
<1>7. \A a : (HasRoom(a)' <=> HasRoom(a)) /\ Room(a)' = Room(a) /\ View(a)' = View(a) /\ Key(a)' = Key(a)
  BY <1>2, RoomSame
<1>8. In' = In
  BY <1>7 DEF In
<1>9. InviteOn(n, m)' /\ \A a, b \in Node : InviteOn(a, b) => InviteOn(a, b)'
  BY <1>6 DEF InviteOn
<1>10. /\ cli'[n] = c /\ c.array = <<>> /\ c.add = {m} /\ ~c.shared /\ Elements(c.array) = {} /\ Unread(c) = {}
       /\ \A a \in Node : a # n => cli'[a] = cli[a] /\ gone'[a] = gone[a]
  <2>1. c.array = <<>> /\ c.add = {m} /\ ~c.shared
    BY DEF Idle
  <2>2. cli' = [cli EXCEPT ![n] = c]
    BY <1>2
  <2> HIDE DEF c
  <2>3. Elements(c.array) = {} /\ Unread(c) = {}
    BY <2>1 DEF Elements, Unread
  <2> QED BY <1>1, <1>2, <2>1, <2>2, <2>3 DEF TypeOK
<1> HIDE DEF S, c
<1>11. \A a \in Node : ToRead(a)' = ToRead(a)
  BY <1>2, <1>10, IdleEmpty DEF ToRead
<1>12. \A q \in Node : Known(q) => Known(q)'
  BY <1>7, <1>9 DEF Known
<1>13. Known(m)'
  BY <1>9 DEF Known
<1>14. /\ \A a \in Node : View(a) \subseteq Node /\ Elements(cli[a].array) \subseteq Node /\ cli[a].add \subseteq Node
       /\ \A a, b \in Node : \A msg \in Invites(a, b) : Elements(msg.members) \subseteq Node
  BY <1>1, NodesOnly
<1>15. ListedAreKnown'
  <2>1. ASSUME NEW a \in Node, NEW q \in View(a)' \cup Elements(cli'[a].array) \cup cli'[a].add PROVE Known(q)'
    BY <1>5, <1>7, <1>10, <1>12, <1>13, <1>14 DEF Settling, ListedAreKnown
  <2>2. ASSUME NEW a \in Node, NEW b \in Node, NEW msg \in Invites(a, b)', NEW x \in Elements(msg.members)
        PROVE  Known(x)'
    BY <1>5, <1>6, <1>12, <1>14 DEF Settling, ListedAreKnown
  <2> QED BY <2>1, <2>2 DEF ListedAreKnown
<1>16. NewestKey'
  BY <1>2, <1>4, <1>5, <1>6, <1>7, <1>10 DEF Settling, NewestKey
<1>17. LeaverIsOut'
  BY <1>5, <1>6, <1>7, <1>8 DEF Settling, LeaverIsOut
<1>18. MembersGetKey'
  BY <1>2, <1>5, <1>7, <1>8, <1>9, <1>11 DEF Settling, MembersGetKey, In
<1>19. SliceIsList'
  BY <1>5, <1>6, <1>7, <1>10 DEF Settling, SliceIsList, SliceOf
<1> QED BY <1>2, <1>15, <1>16, <1>17, <1>18, <1>19 DEF Settling

\* AddMember after an invitation: the list grows, and a running loop goes on as before.
LEMMA AddMemberAgrees ==
  ASSUME IInv, NEW n \in Node, AddMember(n), upset' = {}, Agreement
  PROVE  Settling' /\ (healed' => \E h \in Node : Healing(h)')
<1>1. TypeOK
  BY DEF IInv
<1>2. PICK m \in cli[n].add :
        LET s == AddTo(Room(n).members, m)
        IN  /\ SetMembers(n, s)
            /\ cli' = [cli EXCEPT ![n] = Settle([Overlay(@, s) EXCEPT !.add = {}])]
            /\ Upset(When(m \in gone[n], "added back"))
  BY DEF AddMember
<1> DEFINE s == AddTo(Room(n).members, m)
           r0 == [Room(n) EXCEPT !.members = s]
           c == [cli[n] EXCEPT !.add = {}]
<1>3. upset = {} /\ m \notin gone[n]
  <2>1. When(m \in gone[n], "added back") = {} /\ upset = {}
    BY <1>2, NoUpset
  <2> QED BY <2>1, WhenNot
<1>4. Settling /\ (healed => \E h \in Node : Healing(h))
  BY <1>3 DEF Agreement
<1>5. cli[n] \in Cli /\ m \in Node /\ cli[n] # Idle /\ HasRoom(n)
  BY <1>1, IdleEmpty DEF TypeOK, Cli, IInv, BusyHasRoom
<1>6. m # n
  BY <1>4 DEF Settling, SliceIsList, SliceOf
<1>7. Room(n) \in Copy /\ View(n) = Elements(Room(n).members) /\ Room(n).members \in Listing
  BY <1>1, <1>5, ViewFact DEF Copy
<1>8. s \in Listing /\ Elements(s) = View(n) \cup {m}
  BY <1>5, <1>7, AddToFact
<1>9. /\ (HasRoom(n)' <=> HasRoom(n)) /\ Room(n)' = r0 /\ View(n)' = View(n) \cup {m} /\ Key(n)' = Key(n)
      /\ r0.members = s
  <2>1. room' = [room EXCEPT ![n] = {r0}]
    BY <1>2 DEF SetMembers
  <2>2. r0.key = Key(n) /\ r0.members = s
    BY <1>7 DEF Copy, Key
  <2>3. room'[n] = {r0}
    BY <1>1, <2>1 DEF TypeOK
  <2> HIDE DEF r0, s
  <2> QED BY <1>5, <1>8, <2>2, <2>3, RoomNew
<1>10. /\ UNCHANGED <<wire, keys, gone, healed>>
       /\ \A a \in Node : a # n => room'[a] = room[a] /\ cli'[a] = cli[a]
  BY <1>1, <1>2 DEF AddMember, SetMembers, TypeOK
<1>11. \A a \in Node : a # n => (HasRoom(a)' <=> HasRoom(a)) /\ Room(a)' = Room(a) /\ View(a)' = View(a) /\ Key(a)' = Key(a)
  BY <1>10, RoomSame
<1>12. cli[n].shared => \A i \in DOMAIN cli[n].array : i <= Len(s) => cli[n].array[i] = s[i]
  <2>1. CASE cli[n].array = <<>>
    BY <2>1
  <2>2. CASE cli[n].array # <<>>
    <3>1. m \in View(n)
      BY <1>3, <1>4, <2>2 DEF Settling, SliceIsList, SliceOf
    <3>2. s = Room(n).members
      BY <1>7, <3>1 DEF AddTo
    <3> QED BY <1>4, <3>2 DEF Settling, SliceIsList, SliceOf
  <2> QED BY <2>1, <2>2
<1> HIDE DEF s
<1>13. Overlay(cli[n], s) = cli[n]
  BY <1>5, <1>8, <1>12, OverlayExact
<1>14. cli' = [cli EXCEPT ![n] = Settle(c)]
  BY <1>2, <1>13 DEF s
<1>15. c \in Cli /\ c.array = cli[n].array /\ c.shared = cli[n].shared /\ c.add = {} /\ c.next = cli[n].next
  BY <1>5 DEF Cli
<1>16. Unread(c) = Unread(cli[n])
  BY <1>15 DEF Unread
<1> HIDE DEF c
<1>17. cli'[n] = Settle(c) /\ ToRead(n)' = ToRead(n) /\ (cli'[n] = Idle \/ cli'[n] = c)
  BY <1>1, <1>14, <1>15, <1>16, UnreadSettle DEF TypeOK, ToRead, Settle
<1>18. \A a \in Node : /\ ToRead(a)' = ToRead(a) /\ View(a) \subseteq View(a)' /\ Key(a)' = Key(a)
                       /\ (HasRoom(a)' <=> HasRoom(a))
  BY <1>9, <1>10, <1>11, <1>17 DEF ToRead
<1>19. \A a, b \in Node : /\ Invites(a, b)' = Invites(a, b) /\ (LeaveOn(a, b)' <=> LeaveOn(a, b))
                          /\ (InviteOn(a, b)' <=> InviteOn(a, b))
  BY <1>10, KindsOf DEF InviteOn, Invites
<1>20. In' = In
  BY <1>6, <1>9, <1>11 DEF In
<1>21. \A q \in Node : Known(q)' <=> Known(q)
  BY <1>18, <1>19 DEF Known
<1>22. /\ \A a \in Node : View(a) \subseteq Node /\ Elements(cli[a].array) \subseteq Node /\ cli[a].add \subseteq Node
       /\ \A a, b \in Node : \A msg \in Invites(a, b) : Elements(msg.members) \subseteq Node
  BY <1>1, NodesOnly
<1>23. Elements(cli'[n].array) \subseteq Elements(cli[n].array) /\ cli'[n].add = {}
  BY <1>15, <1>17, IdleEmpty
<1>24. ListedAreKnown'
  <2>1. ASSUME NEW a \in Node, NEW q \in View(a)' \cup Elements(cli'[a].array) \cup cli'[a].add PROVE Known(q)'
    <3>1. q \in View(a) \cup Elements(cli[a].array) \cup cli[a].add
      BY <1>9, <1>10, <1>11, <1>23
    <3> QED BY <1>4, <1>21, <1>22, <3>1 DEF Settling, ListedAreKnown
  <2>2. \A a, b \in Node : \A msg \in Invites(a, b)' : \A x \in Elements(msg.members) : Known(x)'
    BY <1>4, <1>19, <1>21, <1>22 DEF Settling, ListedAreKnown
  <2> QED BY <2>1, <2>2 DEF ListedAreKnown
<1>25. NewestKey'
  BY <1>4, <1>5, <1>10, <1>18, <1>19 DEF Settling, NewestKey
<1>26. LeaverIsOut'
  BY <1>4, <1>18, <1>19, <1>20 DEF Settling, LeaverIsOut
<1>27. MembersGetKey'
  BY <1>4, <1>10, <1>18, <1>19, <1>20 DEF Settling, MembersGetKey, In
<1>28. SliceIsList'
  <2>1. \A a \in Node : a # n => SliceOf(a)'
    BY <1>4, <1>10, <1>11 DEF Settling, SliceIsList, SliceOf
  <2>2. /\ cli'[n].shared => \A i \in DOMAIN cli'[n].array :
             i <= Len(s) => cli'[n].array[i] = s[i]
        /\ Elements(cli'[n].array) \subseteq View(n)' \cup gone'[n]
        /\ cli'[n].add = {}
    <3>1. Elements(cli[n].array) \subseteq View(n) \cup gone[n]
      BY <1>4 DEF Settling, SliceIsList, SliceOf
    <3> QED BY <1>9, <1>10, <1>12, <1>15, <1>17, <1>23, <3>1, IdleEmpty
  <2>3. Room(n)'.members = s
    BY <1>9
  <2> QED BY <2>1, <2>2, <2>3 DEF SliceIsList, SliceOf
<1>29. ASSUME NEW h \in Node, Healing(h) PROVE Healing(h)'
  <2>1. h = n
    BY <1>5, <1>29 DEF Healing, Alone
  <2>2. \A q \in Node : Told(q) => Told(q)'
    BY <1>10, <1>19, <1>20 DEF Told, In
  <2>3. \A q \in Node : Accounted(h, q) => Accounted(h, q)'
    BY <1>18, <1>19, <1>20, <2>2 DEF Accounted, Mistaken
  <2>4. \A S \in SUBSET Node : Good(h, S) => Good(h, S)'
    BY <1>20, <2>3 DEF Good
  <2>5. Alone(h)'
    BY <1>10, <1>18, <1>19, <1>29, <2>1 DEF Healing, Alone
  <2>6. Accounted(h, m)
    BY <1>29, <2>1 DEF Healing
  <2>7. ASSUME NEW p \in In' \cup {h}, Key(p)' = keys' PROVE Good(h, View(p))'
    <3>1. p \in Node /\ Good(h, View(p)) /\ View(p) \subseteq Node
      BY <1>10, <1>18, <1>20, <1>22, <1>29, <2>7 DEF Healing, In
    <3>2. CASE p # n
      BY <1>11, <2>4, <3>1, <3>2
    <3>3. CASE p = n
      <4>1. Good(h, View(n) \cup {m})
        BY <2>6, <3>1, <3>3 DEF Good
      <4>2. Good(h, View(n) \cup {m})'
        BY <1>5, <1>22, <1>9, <1>20, <2>3, <4>1 DEF Good
      <4> QED BY <1>9, <3>3, <4>2
    <3> QED BY <3>2, <3>3
  <2>8. \A p \in In' : \A msg \in Invites(h, p)' : Good(h, Elements(msg.members) \cup {p})'
    BY <1>19, <1>20, <1>22, <1>29, <2>4 DEF Healing, In
  <2>9. \A q \in cli'[h].add : Accounted(h, q)'
    BY <1>23, <2>1
  <2>10. \A q, p \in Node : LeaveOn(q, p)' => Told(q)'
    BY <1>19, <1>29, <2>2 DEF Healing
  <2>11. keys' > 0 /\ HasRoom(h)' /\ Key(h)' = keys'
    BY <1>10, <1>18, <1>29 DEF Healing
  <2> QED BY <2>5, <2>7, <2>8, <2>9, <2>10, <2>11 DEF Healing
<1> QED BY <1>4, <1>10, <1>24, <1>25, <1>26, <1>27, <1>28, <1>29 DEF Settling

(* RekeyRoom from a room at rest whose members n all knows: n alone has the *)
(* new key and will send it to everybody on its list.                       *)
LEMMA RekeyAgrees ==
  ASSUME IInv, NEW n \in Node, RekeyRoom(n), upset' = {}, Agreement
  PROVE  Settling' /\ Healing(n)'
<1>1. TypeOK
  BY DEF IInv
<1> DEFINE r0 == [Room(n) EXCEPT !.key = keys + 1]
           c == [array |-> Room(n).members, next |-> 1, shared |-> TRUE, add |-> {}]
<1>2. upset = {} /\ Members \subseteq View(n) /\ Key(n) = keys /\ Quiet
  <2> DEFINE S1 == When(~(Members \subseteq View(n)), "unknown member")
             S2 == When(Room(n).key # keys, "old key")
             S3 == When(~Quiet, "crossed")
  <2>1. Upset(S1 \cup S2 \cup S3)
    BY DEF RekeyRoom
  <2> HIDE DEF S1, S2, S3
  <2>2. S1 = {} /\ S2 = {} /\ S3 = {} /\ upset = {}
    BY <2>1, NoUpset
  <2>3. Members \subseteq View(n)
    BY <2>2, WhenNot DEF S1
  <2>4. Room(n).key = keys
    BY <2>2, WhenNot DEF S2
  <2>5. Quiet
    BY <2>2, WhenNot DEF S3
  <2> QED BY <2>2, <2>3, <2>4, <2>5 DEF Key
<1>3. Settling
  BY <1>2 DEF Agreement
<1>4. /\ HasRoom(n) /\ keys' = keys + 1 /\ room' = [room EXCEPT ![n] = {r0}]
      /\ cli' = [cli EXCEPT ![n] = Settle(c)] /\ UNCHANGED <<wire, gone>>
  BY DEF RekeyRoom
<1>5. /\ \A a \in Node : cli[a] = Idle /\ \A b \in Node : ~InviteOn(a, b) /\ ~LeaveOn(a, b)
      /\ In \subseteq View(n)
  BY <1>2, QuietFact DEF In
<1>6. Room(n) \in Copy /\ View(n) = Elements(Room(n).members) /\ Room(n).members \in Seq(Node) /\ keys \in Nat
  BY <1>1, <1>4, ViewFact DEF Copy, Listing, TypeOK
<1>7. /\ HasRoom(n)' /\ Room(n)' = r0 /\ View(n)' = View(n) /\ Key(n)' = keys' /\ r0.members = Room(n).members
  <2>1. room'[n] = {r0}
    BY <1>1, <1>4 DEF TypeOK
  <2>2. r0.key = keys + 1 /\ r0.members = Room(n).members
    BY <1>6 DEF Copy
  <2> HIDE DEF r0
  <2> QED BY <1>4, <1>6, <2>1, <2>2, RoomNew
<1>8. \A a \in Node : a # n => (HasRoom(a)' <=> HasRoom(a)) /\ Room(a)' = Room(a) /\ View(a)' = View(a) /\ Key(a)' = Key(a)
  <2>1. \A a \in Node : a # n => room'[a] = room[a]
    BY <1>1, <1>4 DEF TypeOK
  <2> QED BY <2>1, RoomSame
<1>9. c \in Cli /\ c.array = Room(n).members /\ c.add = {} /\ Unread(c) = View(n)
  <2>1. c \in Cli
    BY <1>6 DEF Cli
  <2>2. Unread(c) = Elements(Room(n).members)
    BY <1>6, UnreadBegin
  <2> QED BY <1>6, <2>1, <2>2
<1> HIDE DEF r0, c
<1>10. /\ cli'[n] = Settle(c) /\ (cli'[n] = Idle \/ cli'[n] = c) /\ ToRead(n)' = View(n)
       /\ cli'[n].add = {} /\ \A a \in Node : a # n => cli'[a] = Idle
  BY <1>1, <1>4, <1>5, <1>9, UnreadSettle, IdleEmpty DEF TypeOK, Settle, ToRead
<1>11. \A a, b \in Node : /\ ~InviteOn(a, b)' /\ Invites(a, b)' = {} /\ ~LeaveOn(a, b)'
  BY <1>4, <1>5, KindsOf DEF InviteOn
<1>12. In' = In
  BY <1>7, <1>8 DEF In
<1>13. \A a \in Node : HasRoom(a)' <=> HasRoom(a)
  BY <1>4, <1>7, <1>8
<1>14. \A a \in Node : View(a)' = View(a) /\ View(a) \subseteq Node
  BY <1>1, <1>7, <1>8, ViewFact
<1>15. \A q \in Node : Known(q) => Known(q)'
  BY <1>5, <1>13 DEF Known
<1>16. Elements(cli'[n].array) \subseteq View(n)
  BY <1>6, <1>9, <1>10, IdleEmpty
<1>17. ListedAreKnown'
  <2>1. ASSUME NEW a \in Node, NEW q \in View(a)' \cup Elements(cli'[a].array) \cup cli'[a].add PROVE Known(q)'
    <3>1. q \in View(a)
      BY <1>10, <1>14, <1>16, IdleEmpty
    <3> QED BY <1>3, <1>14, <1>15, <3>1 DEF Settling, ListedAreKnown
  <2> QED BY <1>11, <2>1 DEF ListedAreKnown
<1>18. NewestKey' /\ LeaverIsOut'
  BY <1>7, <1>10, <1>11 DEF NewestKey, LeaverIsOut
<1>19. MembersGetKey'
  BY <1>5, <1>10, <1>12 DEF MembersGetKey
<1>20. SliceIsList'
  <2>1. \A a \in Node : a # n => SliceOf(a)'
    BY <1>10, IdleEmpty DEF SliceOf
  <2>2. /\ cli'[n].shared => \A i \in DOMAIN cli'[n].array : cli'[n].array[i] = Room(n)'.members[i]
        /\ Elements(cli'[n].array) \subseteq View(n)' /\ cli'[n].add = {}
    BY <1>7, <1>9, <1>10, <1>16, IdleEmpty
  <2> QED BY <2>1, <2>2 DEF SliceIsList, SliceOf
<1>21. Healing(n)'
  <2>1. \A p \in Node : p # n => ~HasRoom(p) \/ Key(p)' # keys'
    <3>1. ASSUME NEW p \in Node, p # n, HasRoom(p) PROVE Key(p)' # keys'
      <4>1. Room(p) \in room[p] /\ Key(p) \in Nat
        BY <1>1, <3>1, RoomOf, ViewFact
      <4>2. Key(p) <= keys
        BY <4>1 DEF IInv, KeysMade, Key
      <4> QED BY <1>4, <1>6, <1>8, <3>1, <4>1, <4>2
    <3> QED BY <3>1
  <2>2. \A p \in In : HasRoom(p) /\ p \in Node
    BY <1>1, ViewFact DEF In
  <2>3. Good(n, View(n))'
    <3>1. ASSUME NEW q \in View(n) PROVE Accounted(n, q)'
      <4>1. q = n => q \in In
        BY <3>1 DEF In
      <4> QED BY <1>10, <1>12, <3>1, <4>1 DEF Accounted, Mistaken
    <3> QED BY <1>5, <1>7, <1>12, <3>1 DEF Good
  <2>4. \A p \in In' \cup {n} : Key(p)' = keys' => Good(n, View(p))'
    BY <1>12, <2>1, <2>2, <2>3
  <2>5. Alone(n)'
    BY <1>10, <1>11 DEF Alone
  <2>6. keys' > 0
    BY <1>4, <1>6
  <2>7. \A p \in In' : Invites(n, p)' = {}
    BY <1>11, <1>12, <2>2
  <2> QED BY <1>7, <1>10, <1>11, <2>4, <2>5, <2>6, <2>7 DEF Healing
<1> QED BY <1>17, <1>18, <1>19, <1>20, <1>21 DEF Settling

(* A round of RekeyRoom's loop: the next on the list is sent what n holds   *)
(* now; only n himself may be skipped.                                      *)
LEMMA RekeyMemberAgrees ==
  ASSUME IInv, NEW n \in Node, RekeyMember(n), upset' = {}, Agreement
  PROVE  Settling' /\ (healed' => \E h \in Node : Healing(h)')
<1>1. TypeOK
  BY DEF IInv
<1>0. PICK m : m = cli[n].array[cli[n].next]
  OBVIOUS
<1> DEFINE c == [cli[n] EXCEPT !.next = @ + 1]
           d == [c EXCEPT !.add = {m}]
<1>2. /\ cli[n].add = {} /\ cli[n].next <= Len(cli[n].array) /\ UNCHANGED <<room, keys, healed, gone>>
  BY DEF RekeyMember
<1>3. \/ m \in Peers(n) /\ SendInvite(n, m) /\ cli' = [cli EXCEPT ![n] = d] /\ upset' = upset
      \/ cli' = [cli EXCEPT ![n] = Settle(c)] /\ Upset(When(m # n, "offline")) /\ wire' = wire
  BY <1>0 DEF RekeyMember
<1>4. cli[n] \in Cli /\ cli[n] # Idle /\ HasRoom(n)
  <2>1. cli[n] \in Cli
    BY <1>1 DEF TypeOK
  <2>2. cli[n] # Idle
    BY <1>2, <2>1 DEF Idle, Cli
  <2> QED BY <2>1, <2>2 DEF IInv, BusyHasRoom
<1>5. /\ Unread(cli[n]) \subseteq Unread(d) \cup {m} /\ Unread(cli[n]) \subseteq Unread(c) \cup {m}
      /\ m \in Elements(cli[n].array)
  BY <1>0, <1>2, <1>4, UnreadNext
<1>6. /\ c \in Cli /\ c.array = cli[n].array /\ c.shared = cli[n].shared /\ c.add = {}
      /\ d.array = cli[n].array /\ d.shared = cli[n].shared /\ d.add = {m}
  <2>1. c \in Cli /\ c.array = cli[n].array /\ c.shared = cli[n].shared /\ c.add = {}
    BY <1>2, <1>4 DEF Cli
  <2> HIDE DEF c
  <2> QED BY <2>1 DEF Cli
<1> HIDE DEF c, d
<1>7. upset = {} /\ (m \in Peers(n) \/ m = n)
  <2>1. CASE m \in Peers(n) /\ upset' = upset
    BY <2>1
  <2>2. CASE Upset(When(m # n, "offline"))
    <3>1. When(m # n, "offline") = {} /\ upset = {}
      BY <2>2, NoUpset
    <3> QED BY <3>1, WhenNot
  <2> QED BY <1>3, <2>1, <2>2
<1>8. Settling /\ (healed => \E h \in Node : Healing(h))
  BY <1>7 DEF Agreement
<1>9. /\ \A a \in Node : View(a) \subseteq Node /\ Elements(cli[a].array) \subseteq Node /\ cli[a].add \subseteq Node
      /\ \A a, b \in Node : \A msg \in Invites(a, b) : Elements(msg.members) \subseteq Node
  BY <1>1, NodesOnly
<1>10. m \in Node /\ Known(m) /\ Key(n) = keys
  BY <1>4, <1>5, <1>8, <1>9 DEF Settling, ListedAreKnown, NewestKey
<1>11. \A a : (HasRoom(a)' <=> HasRoom(a)) /\ Room(a)' = Room(a) /\ View(a)' = View(a) /\ Key(a)' = Key(a)
  BY <1>2, RoomSame
<1>12. In' = In
  BY <1>11 DEF In
<1>13. /\ \A a \in Node : a # n => cli'[a] = cli[a] /\ ToRead(a)' = ToRead(a)
       /\ cli'[n] = Idle \/ /\ cli'[n].array = cli[n].array /\ cli'[n].shared = cli[n].shared
                            /\ cli'[n].add \subseteq {m} \ {n}
       /\ ToRead(n) \subseteq ToRead(n)' \cup {m}
  <2>1. \A a \in Node : a # n => cli'[a] = cli[a]
    BY <1>1, <1>3 DEF TypeOK
  <2>2. CASE m \in Peers(n) /\ cli' = [cli EXCEPT ![n] = d]
    <3>1. cli'[n] = d /\ m # n
      BY <1>1, <2>2 DEF TypeOK, Peers
    <3> QED BY <1>5, <1>6, <2>1, <3>1 DEF ToRead
  <2>3. CASE cli' = [cli EXCEPT ![n] = Settle(c)]
    <3>1. cli'[n] = Settle(c)
      BY <1>1, <2>3 DEF TypeOK
    <3> QED BY <1>5, <1>6, <2>1, <3>1, UnreadSettle DEF ToRead, Settle
  <2> QED BY <1>3, <2>2, <2>3
<1>14. \/ /\ m \in Peers(n) /\ m # n
          /\ \A a, b \in Node : LeaveOn(a, b)' <=> LeaveOn(a, b)
          /\ \A a, b \in Node : ~(a = n /\ b = m) => Invites(a, b)' = Invites(a, b)
          /\ Invites(n, m)' = Invites(n, m) \cup {Invite(Room(n))}
       \/ /\ m = n /\ cli'[n].add = {}
          /\ \A a, b \in Node : Invites(a, b)' = Invites(a, b) /\ (LeaveOn(a, b)' <=> LeaveOn(a, b))
  <2>1. CASE m \in Peers(n) /\ SendInvite(n, m)
    BY <1>1, <1>4, <2>1, SendInviteKinds
  <2>2. CASE cli' = [cli EXCEPT ![n] = Settle(c)] /\ Upset(When(m # n, "offline")) /\ wire' = wire
    <3>1. When(m # n, "offline") = {}
      BY <2>2, NoUpset
    <3>2. m = n
      BY <3>1, WhenNot
    <3>3. \A a, b \in Node : Invites(a, b)' = Invites(a, b) /\ (LeaveOn(a, b)' <=> LeaveOn(a, b))
      BY <2>2, KindsOf
    <3>4. cli'[n].add = {}
      BY <1>1, <1>6, <2>2, IdleEmpty DEF TypeOK, Settle
    <3> QED BY <3>2, <3>3, <3>4
  <2> QED BY <1>3, <2>1, <2>2
<1> DEFINE inv == Invite(Room(n))
<1>15. inv.key = Key(n) /\ Elements(inv.members) = View(n)
  BY <1>4 DEF Invite, Key, View
<1> HIDE DEF inv
<1>16. /\ \A a, b \in Node : /\ LeaveOn(a, b)' <=> LeaveOn(a, b)
                             /\ InviteOn(a, b) => InviteOn(a, b)'
                             /\ InviteOn(a, b)' => InviteOn(a, b) \/ (a = n /\ b = m)
                             /\ \A msg \in Invites(a, b)' :
                                  msg \in Invites(a, b) \/ (a = n /\ b = m /\ msg = inv)
       /\ m # n => InviteOn(n, m)'
  <2>1. \A a, b \in Node : /\ LeaveOn(a, b)' <=> LeaveOn(a, b)
                           /\ Invites(a, b) \subseteq Invites(a, b)'
                           /\ \A msg \in Invites(a, b)' :
                                  msg \in Invites(a, b) \/ (a = n /\ b = m /\ msg = inv)
    BY <1>14 DEF inv
  <2>2. m # n => inv \in Invites(n, m)'
    BY <1>14 DEF inv
  <2>3. \A a, b \in Node : InviteOn(a, b) => InviteOn(a, b)'
    BY <2>1 DEF InviteOn
  <2>4. ASSUME NEW a \in Node, NEW b \in Node, InviteOn(a, b)', ~(a = n /\ b = m) PROVE InviteOn(a, b)
    BY <2>1, <2>4 DEF InviteOn
  <2> QED BY <2>1, <2>2, <2>3, <2>4 DEF InviteOn
<1>17. \A q \in Node : Known(q) => Known(q)'
  BY <1>11, <1>16 DEF Known
<1>18. ListedAreKnown'
  <2>1. ASSUME NEW a \in Node, NEW q \in View(a)' \cup Elements(cli'[a].array) \cup cli'[a].add PROVE Known(q)'
    <3>1. q \in View(a) \cup Elements(cli[a].array) \cup cli[a].add
      BY <1>5, <1>11, <1>13, IdleEmpty
    <3> QED BY <1>8, <1>9, <1>17, <3>1 DEF Settling, ListedAreKnown
  <2>2. ASSUME NEW a \in Node, NEW b \in Node, NEW msg \in Invites(a, b)', NEW x \in Elements(msg.members)
        PROVE  Known(x)'
    BY <1>8, <1>9, <1>15, <1>16, <1>17 DEF Settling, ListedAreKnown
  <2> QED BY <2>1, <2>2 DEF ListedAreKnown
<1>19. NewestKey'
  BY <1>2, <1>8, <1>10, <1>11, <1>13, <1>15, <1>16 DEF Settling, NewestKey
<1>20. LeaverIsOut'
  BY <1>8, <1>11, <1>12, <1>16 DEF Settling, LeaverIsOut
<1>21. MembersGetKey'
  <2> SUFFICES ASSUME NEW x \in In, Key(x) # keys
               PROVE  \E a \in Node : x \in ToRead(a)' \/ InviteOn(a, x)'
    BY <1>2, <1>11, <1>12 DEF MembersGetKey
  <2>1. PICK a \in Node : x \in ToRead(a) \/ InviteOn(a, x)
    BY <1>8 DEF Settling, MembersGetKey
  <2>2. x \in Node
    BY DEF In
  <2>3. CASE InviteOn(a, x)
    BY <1>16, <2>2, <2>3
  <2>4. CASE x \in ToRead(a)
    BY <1>10, <1>13, <1>16, <2>4
  <2> QED BY <2>1, <2>3, <2>4
<1>22. SliceIsList'
  <2>1. \A a \in Node : a # n => SliceOf(a)'
    BY <1>2, <1>8, <1>11, <1>13 DEF Settling, SliceIsList, SliceOf
  <2>2. SliceOf(n)'
    <3>1. CASE cli'[n] = Idle
      BY <3>1, IdleEmpty DEF SliceOf
    <3>2. CASE cli'[n] # Idle
      <4>1. /\ cli[n].shared => \A i \in DOMAIN cli[n].array :
                 i <= Len(Room(n).members) => cli[n].array[i] = Room(n).members[i]
            /\ Elements(cli[n].array) \subseteq View(n) \cup gone[n]
        BY <1>8 DEF Settling, SliceIsList, SliceOf
      <4> QED BY <1>2, <1>5, <1>11, <1>13, <3>2, <4>1 DEF SliceOf
    <3> QED BY <3>1, <3>2
  <2> QED BY <2>1, <2>2 DEF SliceIsList, SliceOf
<1>23. ASSUME NEW h \in Node, Healing(h) PROVE Healing(h)'
  <2>1. h = n
    BY <1>4, <1>23 DEF Healing, Alone
  <2>2. \A q \in Node : Told(q) => Told(q)'
    BY <1>2, <1>12, <1>16 DEF Told, In
  <2>3. \A q \in Node : Mistaken(h, q) => Mistaken(h, q)'
    BY <1>10, <1>12, <1>13, <1>16, <2>1 DEF Mistaken
  <2>4. \A q \in Node : Accounted(h, q) => Accounted(h, q)'
    BY <1>12, <2>2, <2>3 DEF Accounted
  <2>5. \A S \in SUBSET Node : Good(h, S) => Good(h, S)'
    BY <1>12, <2>4 DEF Good
  <2>6. Alone(h)'
    <3>1. HasRoom(m)
      BY <1>10, <1>23 DEF Known, Healing, Alone
    <3> QED BY <1>11, <1>13, <1>16, <1>23, <2>1, <3>1 DEF Healing, Alone
  <2>7. \A p \in In' \cup {h} : Key(p)' = keys' => Good(h, View(p))'
    BY <1>2, <1>9, <1>11, <1>12, <1>23, <2>5 DEF Healing, In
  <2>8. ASSUME NEW p \in In', NEW msg \in Invites(h, p)'
        PROVE  Good(h, Elements(msg.members) \cup {p})'
    <3>1. p \in In /\ p \in Node
      BY <1>12, <2>8 DEF In
    <3>2. Good(h, Elements(msg.members) \cup {p}) /\ Elements(msg.members) \cup {p} \subseteq Node
      <4>1. CASE msg \in Invites(h, p)
        BY <1>9, <1>23, <3>1, <4>1 DEF Healing
      <4>2. CASE msg = inv
        <5>1. Good(h, View(n)) /\ Elements(msg.members) = View(n)
          BY <1>10, <1>15, <1>23, <2>1, <4>2 DEF Healing
        <5> QED BY <1>9, <3>1, <5>1 DEF Good, Accounted
      <4> QED BY <1>16, <3>1, <4>1, <4>2
    <3> QED BY <2>5, <3>2
  <2>9. \A q \in cli'[h].add : Accounted(h, q)'
    <3>1. m # n => Accounted(h, m)'
      BY <1>10, <1>16, <2>1 DEF Accounted, Mistaken
    <3> QED BY <1>13, <2>1, <3>1, IdleEmpty
  <2>10. \A q, p \in Node : LeaveOn(q, p)' => Told(q)'
    BY <1>16, <1>23, <2>2 DEF Healing
  <2>11. keys' > 0 /\ HasRoom(h)' /\ Key(h)' = keys'
    BY <1>2, <1>11, <1>23 DEF Healing
  <2> QED BY <2>6, <2>7, <2>8, <2>9, <2>10, <2>11 DEF Healing
<1> QED BY <1>2, <1>8, <1>18, <1>19, <1>20, <1>21, <1>22, <1>23 DEF Settling

\* LeaveRoom: n is out, and all who are in will hear of it.
LEMMA LeaveAgrees ==
  ASSUME IInv, NEW n \in Node, LeaveRoom(n), upset' = {}, Agreement
  PROVE  Settling' /\ (healed' => \E h \in Node : Healing(h)')
<1>1. TypeOK
  BY DEF IInv
<1> DEFINE s == RemoveFrom(Room(n).members, n)
           r0 == [Room(n) EXCEPT !.members = s]
           S == When(~(Members \ {n} \subseteq Peers(n)), "offline")
<1>2. /\ HasRoom(n) /\ cli[n] = Idle /\ room' = [room EXCEPT ![n] = {r0}] /\ wire' = Sent(n, Peers(n), Leave)
      /\ Upset(S) /\ UNCHANGED <<cli, keys, healed, gone>>
  BY DEF LeaveRoom, Types, SetMembers
<1>3. S = {} /\ upset = {}
  BY <1>2, NoUpset
<1>4. In \ {n} \subseteq Peers(n)
  <2>1. Members \ {n} \subseteq Peers(n)
    BY <1>3, WhenNot
  <2> QED BY <2>1, QuietFact DEF In
<1>5. Settling /\ (healed => \E h \in Node : Healing(h))
  BY <1>3 DEF Agreement
<1>6. Room(n) \in Copy /\ View(n) = Elements(Room(n).members) /\ Room(n).members \in Listing
  BY <1>1, <1>2, ViewFact DEF Copy
<1>7. s \in Listing /\ Elements(s) = View(n) \ {n}
  BY <1>6, RemoveFromFact, RemoveFromAll
<1>8. HasRoom(n)' /\ View(n)' = View(n) \ {n} /\ Key(n)' = Key(n)
  <2>1. room'[n] = {r0}
    BY <1>1, <1>2 DEF TypeOK
  <2>2. r0.key = Key(n) /\ r0.members = s
    BY <1>6 DEF Copy, Key
  <2> HIDE DEF r0, s
  <2> QED BY <1>7, <2>1, <2>2, RoomNew
<1>9. \A a \in Node : a # n => (HasRoom(a)' <=> HasRoom(a)) /\ Room(a)' = Room(a) /\ View(a)' = View(a) /\ Key(a)' = Key(a)
  <2>1. \A a \in Node : a # n => room'[a] = room[a]
    BY <1>1, <1>2 DEF TypeOK
  <2> QED BY <2>1, RoomSame
<1> HIDE DEF s, r0, S
<1>10. /\ \A a, b \in Node : /\ Invites(a, b)' = Invites(a, b)
                             /\ LeaveOn(a, b) => LeaveOn(a, b)'
                             /\ LeaveOn(a, b)' => LeaveOn(a, b) \/ a = n
       /\ \A b \in Peers(n) : LeaveOn(n, b)'
  <2> DEFINE M == Peers(n)
             msg == Leave
  <2>1. M \in SUBSET Node /\ msg \in Message /\ msg.type = "group_leave" /\ wire' = Sent(n, M, msg)
    BY <1>2 DEF Peers, Leave, Message
  <2> HIDE DEF M, msg
  <2>2. \A a, b \in Node : ~(a = n /\ b \in M) =>
          Invites(a, b)' = Invites(a, b) /\ (LeaveOn(a, b)' <=> LeaveOn(a, b))
    BY <1>1, <2>1, SentKinds
  <2>3. \A b \in M :
          /\ msg.type = "group_invite" => Invites(n, b)' = Invites(n, b) \cup {msg}
          /\ msg.type # "group_invite" => Invites(n, b)' = Invites(n, b)
          /\ msg.type # "group_leave" => (LeaveOn(n, b)' <=> LeaveOn(n, b))
          /\ msg.type = "group_leave" => LeaveOn(n, b)'
    BY <1>1, <2>1, SentKinds
  <2> QED BY <2>1, <2>2, <2>3 DEF M
<1>11. \A a, b \in Node : InviteOn(a, b)' <=> InviteOn(a, b)
  BY <1>10 DEF InviteOn
<1>12. In' = In \ {n}
  BY <1>8, <1>9 DEF In
<1>13. \A a \in Node : /\ (HasRoom(a)' <=> HasRoom(a)) /\ Key(a)' = Key(a) /\ View(a)' \subseteq View(a)
                       /\ View(a) \ {n} \subseteq View(a)' /\ cli'[a] = cli[a] /\ gone'[a] = gone[a]
                       /\ ToRead(a)' = ToRead(a)
  BY <1>2, <1>8, <1>9 DEF ToRead
<1>14. /\ \A a \in Node : View(a) \subseteq Node /\ Elements(cli[a].array) \subseteq Node /\ cli[a].add \subseteq Node
       /\ \A a, b \in Node : \A msg \in Invites(a, b) : Elements(msg.members) \subseteq Node
  BY <1>1, NodesOnly
<1>15. \A q \in Node : Known(q)' <=> Known(q)
  BY <1>11, <1>13 DEF Known
<1>16. ListedAreKnown'
  <2>1. ASSUME NEW a \in Node, NEW q \in View(a)' \cup Elements(cli'[a].array) \cup cli'[a].add PROVE Known(q)'
    <3>1. q \in View(a) \cup Elements(cli[a].array) \cup cli[a].add
      BY <1>13
    <3> QED BY <1>5, <1>14, <1>15, <3>1 DEF Settling, ListedAreKnown
  <2>2. \A a, b \in Node : \A msg \in Invites(a, b)' : \A x \in Elements(msg.members) : Known(x)'
    BY <1>5, <1>10, <1>14, <1>15 DEF Settling, ListedAreKnown
  <2> QED BY <2>1, <2>2 DEF ListedAreKnown
<1>17. NewestKey'
  BY <1>2, <1>5, <1>10, <1>13 DEF Settling, NewestKey
<1>18. LeaverIsOut'
  BY <1>2, <1>5, <1>10, <1>12, <1>13 DEF Settling, LeaverIsOut
<1>19. MembersGetKey'
  BY <1>2, <1>5, <1>11, <1>12, <1>13 DEF Settling, MembersGetKey, In
<1>20. SliceIsList'
  <2>1. \A a \in Node : a # n => SliceOf(a)'
    BY <1>5, <1>9, <1>13 DEF Settling, SliceIsList, SliceOf
  <2> QED BY <1>2, <2>1, IdleEmpty DEF SliceIsList, SliceOf
<1>21. ASSUME NEW h \in Node, Healing(h) PROVE Healing(h)'
  <2>1. Told(n)'
    BY <1>4, <1>10, <1>12 DEF Told
  <2>2. \A q \in Node : Told(q) => Told(q)'
    BY <1>10, <1>12, <1>13 DEF Told, In
  <2>3. \A q \in Node : Mistaken(h, q) => Mistaken(h, q)'
    BY <1>11, <1>12, <1>13 DEF Mistaken
  <2>4. \A q \in Node : Accounted(h, q) => Accounted(h, q)'
    BY <1>12, <2>1, <2>2, <2>3 DEF Accounted
  <2>5. \A A, T \in SUBSET Node :
          Good(h, A) /\ T \subseteq A /\ A \ {n} \subseteq T => In' \subseteq T /\ \A q \in T : Accounted(h, q)'
    BY <1>12, <2>4 DEF Good
  <2>6. Alone(h)'
    BY <1>11, <1>13, <1>21 DEF Healing, Alone
  <2>7. ASSUME NEW p \in In' \cup {h}, Key(p)' = keys' PROVE Good(h, View(p))'
    <3>1. p \in Node /\ Good(h, View(p))
      BY <1>2, <1>12, <1>13, <1>21, <2>7 DEF Healing, In
    <3>2. In' \subseteq View(p)' /\ \A q \in View(p)' : Accounted(h, q)'
      BY <1>13, <1>14, <2>5, <3>1
    <3> QED BY <3>2 DEF Good
  <2>8. ASSUME NEW p \in In', NEW msg \in Invites(h, p)'
        PROVE  Good(h, Elements(msg.members) \cup {p})'
    <3>1. p \in In /\ p \in Node /\ msg \in Invites(h, p)
      BY <1>10, <1>12, <2>8 DEF In
    <3>2. Good(h, Elements(msg.members) \cup {p}) /\ Elements(msg.members) \cup {p} \subseteq Node
      BY <1>14, <1>21, <3>1 DEF Healing
    <3>3. \A T \in SUBSET Node : Good(h, T) => Good(h, T)'
      BY <2>5 DEF Good
    <3> QED BY <3>2, <3>3
  <2>9. \A q \in cli'[h].add : Accounted(h, q)'
    BY <1>13, <1>14, <1>21, <2>4 DEF Healing
  <2>10. \A q, p \in Node : LeaveOn(q, p)' => Told(q)'
    BY <1>10, <1>21, <2>1, <2>2 DEF Healing
  <2>11. keys' > 0 /\ HasRoom(h)' /\ Key(h)' = keys'
    BY <1>2, <1>13, <1>21 DEF Healing
  <2> QED BY <2>6, <2>7, <2>8, <2>9, <2>10, <2>11 DEF Healing
<1> QED BY <1>2, <1>5, <1>16, <1>17, <1>18, <1>19, <1>20, <1>21 DEF Settling

\* handleGroupInvite: the copy is the inviter's, with the newest key.
LEMMA HandleInviteAgrees ==
  ASSUME IInv, NEW n \in Node, NEW p \in Node, HandleGroupInvite(n, p), upset' = {}, Agreement
  PROVE  Settling' /\ (healed' => \E h \in Node : Healing(h)')
<1>1. TypeOK
  BY DEF IInv
<1>2. PICK msg : msg = Head(wire[p][n])
  OBVIOUS
<1> DEFINE s == AddTo(msg.members, n)
           r0 == [key |-> msg.key, members |-> s]
<1>3. /\ Reads(n, p, "group_invite") /\ room' = [room EXCEPT ![n] = {r0}]
      /\ cli' = [cli EXCEPT ![n].shared = FALSE]
      /\ gone' = [gone EXCEPT ![n] = @ \ Elements(msg.members)]
      /\ UNCHANGED <<keys, healed>>
  BY <1>2 DEF HandleGroupInvite, Add
<1>4. /\ upset = {} /\ (HasRoom(n) => n \in In) /\ gone[n] \cap Elements(msg.members) = {} /\ cli[n] = Idle
  <2> DEFINE S1 == When(HasRoom(n) /\ ~IsMember(n, n), "rejoined")
             S2 == When(HasRoom(n) /\ msg.key < Room(n).key, "old key")
             S3 == When(gone[n] \cap Elements(msg.members) # {}, "listed again")
             S4 == When(cli[n] # Idle, "replaced")
  <2>1. Upset(S1 \cup S2 \cup S3 \cup S4)
    BY <1>2 DEF HandleGroupInvite
  <2> HIDE DEF S1, S2, S3, S4
  <2>2. S1 = {} /\ S3 = {} /\ S4 = {} /\ upset = {}
    BY <2>1, NoUpset
  <2>3. ~(HasRoom(n) /\ ~IsMember(n, n))
    BY <2>2, WhenNot DEF S1
  <2>4. gone[n] \cap Elements(msg.members) = {}
    BY <2>2, WhenNot DEF S3
  <2>5. cli[n] = Idle
    BY <2>2, WhenNot DEF S4
  <2> QED BY <2>2, <2>3, <2>4, <2>5 DEF In, IsMember
<1>5. Settling /\ (healed => \E h \in Node : Healing(h))
  BY <1>4 DEF Agreement
<1>6. /\ \A a, b \in Node : LeaveOn(a, b)' <=> LeaveOn(a, b)
      /\ \A a, b \in Node : ~(a = p /\ b = n) => Invites(a, b)' = Invites(a, b)
      /\ Invites(p, n) = Invites(p, n)' \cup {msg}
  BY <1>1, <1>2, <1>3, ReadsKinds
<1>7. InviteOn(p, n) /\ \A a, b \in Node : /\ InviteOn(a, b)' => InviteOn(a, b)
                                           /\ b # n => (InviteOn(a, b)' <=> InviteOn(a, b))
                                           /\ Invites(a, b)' \subseteq Invites(a, b)
  BY <1>6 DEF InviteOn
<1>8. /\ \A a \in Node : View(a) \subseteq Node /\ Elements(cli[a].array) \subseteq Node /\ cli[a].add \subseteq Node
      /\ \A a, b \in Node : \A m \in Invites(a, b) : Elements(m.members) \subseteq Node /\ m.members \in Listing
  BY <1>1, NodesOnly
<1>9. msg \in Invites(p, n) /\ msg.key = keys /\ msg.members \in Listing
  BY <1>5, <1>6, <1>8 DEF Settling, NewestKey
<1>10. s \in Listing /\ Elements(s) = Elements(msg.members) \cup {n}
  BY <1>9, AddToFact
<1>11. HasRoom(n)' /\ Room(n)' = r0 /\ View(n)' = Elements(msg.members) \cup {n} /\ Key(n)' = keys'
  <2>1. room'[n] = {r0}
    BY <1>1, <1>3 DEF TypeOK
  <2>2. r0.key = keys /\ r0.members = s
    BY <1>9
  <2> HIDE DEF r0, s
  <2> QED BY <1>3, <1>10, <2>1, <2>2, RoomNew
<1>12. \A a \in Node : a # n => (HasRoom(a)' <=> HasRoom(a)) /\ Room(a)' = Room(a) /\ View(a)' = View(a) /\ Key(a)' = Key(a)
  <2>1. \A a \in Node : a # n => room'[a] = room[a]
    BY <1>1, <1>3 DEF TypeOK
  <2> QED BY <2>1, RoomSame
<1> HIDE DEF s, r0
<1>13. \A a \in Node : cli'[a] = cli[a] /\ ToRead(a)' = ToRead(a) /\ gone'[a] = gone[a]
  <2>1. [cli[n] EXCEPT !.shared = FALSE] = cli[n]
    <3>1. cli[n] \in Cli
      BY <1>1 DEF TypeOK
    <3>2. cli[n].shared = FALSE
      BY <1>4 DEF Idle
    <3> QED BY <3>1, <3>2 DEF Cli
  <2>2. cli' = [cli EXCEPT ![n] = cli[n]]
    BY <1>3, <2>1
  <2>3. gone[n] \ Elements(msg.members) = gone[n]
    BY <1>4
  <2> QED BY <1>1, <1>3, <2>2, <2>3 DEF TypeOK, ToRead
<1>14. In' = In \cup {n}
  BY <1>11, <1>12 DEF In
<1>15. \A a \in Node : HasRoom(a) => HasRoom(a)'
  BY <1>11, <1>12
<1>16. \A q \in Node : Known(q) => Known(q)'
  BY <1>7, <1>11, <1>15 DEF Known
<1>17. ListedAreKnown'
  <2>1. ASSUME NEW a \in Node, NEW q \in View(a)' \cup Elements(cli'[a].array) \cup cli'[a].add PROVE Known(q)'
    <3>1. CASE a = n /\ q = n
      BY <1>11, <3>1 DEF Known
    <3>2. CASE a = n /\ q \in Elements(msg.members)
      BY <1>5, <1>8, <1>9, <1>16, <3>2 DEF Settling, ListedAreKnown
    <3>3. CASE q \in View(a) \cup Elements(cli[a].array) \cup cli[a].add
      BY <1>5, <1>8, <1>16, <3>3 DEF Settling, ListedAreKnown
    <3> QED BY <1>11, <1>12, <1>13, <3>1, <3>2, <3>3
  <2>2. \A a, b \in Node : \A m \in Invites(a, b)' : \A x \in Elements(m.members) : Known(x)'
    BY <1>5, <1>7, <1>8, <1>16 DEF Settling, ListedAreKnown
  <2> QED BY <2>1, <2>2 DEF ListedAreKnown
<1>18. NewestKey'
  BY <1>3, <1>4, <1>5, <1>7, <1>11, <1>12, <1>13 DEF Settling, NewestKey
<1>19. LeaverIsOut'
  BY <1>4, <1>5, <1>6, <1>14, <1>15 DEF Settling, LeaverIsOut
<1>20. MembersGetKey'
  BY <1>3, <1>5, <1>7, <1>11, <1>12, <1>13, <1>14 DEF Settling, MembersGetKey, In
<1>21. SliceIsList'
  <2>1. \A a \in Node : a # n => SliceOf(a)'
    BY <1>5, <1>12, <1>13 DEF Settling, SliceIsList, SliceOf
  <2>2. cli'[n] = Idle
    BY <1>4, <1>13
  <2> QED BY <2>1, <2>2, IdleEmpty DEF SliceIsList, SliceOf
<1>22. ASSUME NEW h \in Node, Healing(h) PROVE Healing(h)'
  <2>1. h = p /\ n # p /\ HasRoom(n)
    <3>1. n # p
      BY <1>3 DEF IInv, ToOthers, Reads
    <3> QED BY <1>7, <1>22, <3>1 DEF Healing, Alone
  <2>2. In' = In /\ n \in In
    BY <1>4, <1>14, <2>1
  <2>3. \A q \in Node : Told(q) => Told(q)'
    BY <1>6, <1>13, <2>2 DEF Told, In
  <2>4. \A q \in Node : Mistaken(h, q) => Mistaken(h, q)'
    BY <1>7, <1>13, <2>2 DEF Mistaken
  <2>5. \A q \in Node : Accounted(h, q) => Accounted(h, q)'
    BY <2>2, <2>3, <2>4 DEF Accounted
  <2>6. \A S \in SUBSET Node : Good(h, S) => Good(h, S)'
    BY <2>2, <2>5 DEF Good
  <2>7. Alone(h)'
    BY <1>7, <1>13, <1>15, <1>22 DEF Healing, Alone
  <2>8. ASSUME NEW q \in In' \cup {h}, Key(q)' = keys' PROVE Good(h, View(q))'
    <3>1. q \in Node /\ q \in In \cup {h}
      BY <2>2, <2>8 DEF In
    <3>2. CASE q # n
      <4>1. Good(h, View(q)) /\ View(q) \subseteq Node
        BY <1>3, <1>8, <1>12, <1>22, <2>8, <3>1, <3>2 DEF Healing
      <4>2. Good(h, View(q))' <=> In' \subseteq View(q)' /\ \A x \in View(q)' : Accounted(h, x)'
        BY DEF Good
      <4>3. In \subseteq View(q) /\ \A x \in View(q) : Accounted(h, x)
        BY <4>1 DEF Good
      <4> QED BY <1>12, <2>2, <2>5, <3>1, <3>2, <4>1, <4>2, <4>3
    <3>3. CASE q = n
      <4>1. Good(h, Elements(msg.members) \cup {n})
        BY <1>9, <1>22, <2>1, <2>2 DEF Healing
      <4>2. Elements(msg.members) \cup {n} \subseteq Node
        BY <1>8, <1>9
      <4>3. Good(h, View(n))' <=> In' \subseteq View(n)' /\ \A x \in View(n)' : Accounted(h, x)'
        BY DEF Good
      <4>4. In \subseteq Elements(msg.members) \cup {n} /\ \A x \in Elements(msg.members) \cup {n} : Accounted(h, x)
        BY <4>1 DEF Good
      <4> QED BY <1>11, <2>2, <2>5, <3>3, <4>2, <4>3, <4>4
    <3> QED BY <3>2, <3>3
  <2>9. ASSUME NEW q \in In', NEW m \in Invites(h, q)'
        PROVE  Good(h, Elements(m.members) \cup {q})'
    <3>1. q \in In /\ q \in Node /\ m \in Invites(h, q)
      BY <1>7, <2>2, <2>9 DEF In
    <3>2. Good(h, Elements(m.members) \cup {q}) /\ Elements(m.members) \cup {q} \subseteq Node
      BY <1>8, <1>22, <3>1 DEF Healing
    <3> QED BY <2>6, <3>2
  <2>10. \A q \in cli'[h].add : Accounted(h, q)'
    BY <1>8, <1>13, <1>22, <2>5 DEF Healing
  <2>11. \A q, b \in Node : LeaveOn(q, b)' => Told(q)'
    BY <1>6, <1>22, <2>3 DEF Healing
  <2>12. keys' > 0 /\ HasRoom(h)' /\ Key(h)' = keys'
    BY <1>3, <1>12, <1>22, <2>1 DEF Healing
  <2> QED BY <2>7, <2>8, <2>9, <2>10, <2>11, <2>12 DEF Healing
<1> QED BY <1>3, <1>5, <1>17, <1>18, <1>19, <1>20, <1>21, <1>22 DEF Settling

\* MsgGroupLeave: n takes p off the list, and a running loop still reaches all others.
LEMMA HandleLeaveAgrees ==
  ASSUME IInv, NEW n \in Node, NEW p \in Node, HandleGroupLeave(n, p), HasRoom(n), upset' = {}, Agreement
  PROVE  Settling' /\ (healed' => \E h \in Node : Healing(h)')
<1>1. TypeOK
  BY DEF IInv
<1> DEFINE s == RemoveFrom(Room(n).members, p)
           r0 == [Room(n) EXCEPT !.members = s]
           c == Overlay(cli[n], s)
<1>2. /\ Reads(n, p, "group_leave") /\ room' = [room EXCEPT ![n] = {r0}]
      /\ cli' = [cli EXCEPT ![n] = c] /\ gone' = [gone EXCEPT ![n] = @ \cup {p}]
      /\ Upset(When(~(Unread(cli[n]) \ {p} \subseteq Unread(c)), "shifted"))
      /\ UNCHANGED <<keys, healed>>
  BY DEF HandleGroupLeave, SetMembers
<1>3. upset = {} /\ Unread(cli[n]) \ {p} \subseteq Unread(c)
  <2>1. When(~(Unread(cli[n]) \ {p} \subseteq Unread(c)), "shifted") = {} /\ upset = {}
    BY <1>2, NoUpset
  <2> QED BY <2>1, WhenNot
<1>4. Settling /\ (healed => \E h \in Node : Healing(h))
  BY <1>3 DEF Agreement
<1>5. /\ \A a, b \in Node : Invites(a, b)' = Invites(a, b)
      /\ \A a, b \in Node : ~(a = p /\ b = n) => (LeaveOn(a, b)' <=> LeaveOn(a, b))
      /\ LeaveOn(p, n) /\ (LeaveOn(p, n)' => LeaveOn(p, n))
  BY <1>1, <1>2, ReadsKinds
<1>6. p \notin In /\ p # n
  BY <1>2, <1>4, <1>5 DEF Settling, LeaverIsOut, IInv, ToOthers, Reads
<1>7. Room(n) \in Copy /\ View(n) = Elements(Room(n).members) /\ Room(n).members \in Listing /\ cli[n] \in Cli
  BY <1>1, ViewFact DEF Copy, TypeOK
<1>8. s \in Listing /\ Elements(s) = View(n) \ {p}
  BY <1>7, RemoveFromFact, RemoveFromAll
<1>9. HasRoom(n)' /\ Room(n)'.members = s /\ View(n)' = View(n) \ {p} /\ Key(n)' = Key(n)
  <2>1. room'[n] = {r0}
    BY <1>1, <1>2 DEF TypeOK
  <2>2. r0.key = Key(n) /\ r0.members = s
    BY <1>7 DEF Copy, Key
  <2> HIDE DEF r0, s
  <2> QED BY <1>8, <2>1, <2>2, RoomNew
<1>10. \A a \in Node : a # n => (HasRoom(a)' <=> HasRoom(a)) /\ Room(a)' = Room(a) /\ View(a)' = View(a) /\ Key(a)' = Key(a)
  <2>1. \A a \in Node : a # n => room'[a] = room[a]
    BY <1>1, <1>2 DEF TypeOK
  <2> QED BY <2>1, RoomSame
<1> HIDE DEF s, r0
<1>11. /\ c.add = cli[n].add /\ Elements(c.array) \subseteq Elements(cli[n].array) \cup Elements(s)
       /\ c.shared = cli[n].shared /\ c.next = cli[n].next /\ DOMAIN c.array = DOMAIN cli[n].array
       /\ c.shared => \A i \in DOMAIN c.array : i <= Len(s) => c.array[i] = s[i]
       /\ ~cli[n].shared => c = cli[n]
  BY <1>7, <1>8, OverlayFact, OverlayExact
<1> HIDE DEF c
<1>12. /\ cli'[n] = c /\ gone'[n] = gone[n] \cup {p}
       /\ \A a \in Node : a # n => cli'[a] = cli[a] /\ gone'[a] = gone[a] /\ ToRead(a)' = ToRead(a)
       /\ ToRead(n) \ {p} \subseteq ToRead(n)'
  BY <1>1, <1>2, <1>3 DEF TypeOK, ToRead
<1>13. In' = In
  BY <1>6, <1>9, <1>10 DEF In
<1>14. \A a, b \in Node : InviteOn(a, b)' <=> InviteOn(a, b)
  BY <1>5 DEF InviteOn
<1>15. \A a \in Node : /\ (HasRoom(a)' <=> HasRoom(a)) /\ Key(a)' = Key(a) /\ View(a)' \subseteq View(a)
                       /\ View(a) \ {p} \subseteq View(a)' /\ cli'[a].add = cli[a].add /\ gone[a] \subseteq gone'[a]
                       /\ Elements(cli'[a].array) \subseteq Elements(cli[a].array) \cup View(a)
                       /\ ToRead(a) \ {p} \subseteq ToRead(a)' /\ (cli[a] = Idle => cli'[a] = Idle)
  <2>1. cli[n] = Idle => c = Idle
    BY <1>11, IdleEmpty
  <2> QED BY <1>8, <1>9, <1>10, <1>11, <1>12, <2>1
<1>16. /\ \A a \in Node : View(a) \subseteq Node /\ Elements(cli[a].array) \subseteq Node /\ cli[a].add \subseteq Node
       /\ \A a, b \in Node : \A m \in Invites(a, b) : Elements(m.members) \subseteq Node
  BY <1>1, NodesOnly
<1>17. \A q \in Node : Known(q)' <=> Known(q)
  BY <1>14, <1>15 DEF Known
<1>18. ListedAreKnown'
  <2>1. ASSUME NEW a \in Node, NEW q \in View(a)' \cup Elements(cli'[a].array) \cup cli'[a].add PROVE Known(q)'
    <3>1. q \in View(a) \cup Elements(cli[a].array) \cup cli[a].add
      BY <1>15
    <3> QED BY <1>4, <1>16, <1>17, <3>1 DEF Settling, ListedAreKnown
  <2>2. \A a, b \in Node : \A m \in Invites(a, b)' : \A x \in Elements(m.members) : Known(x)'
    BY <1>4, <1>5, <1>16, <1>17 DEF Settling, ListedAreKnown
  <2> QED BY <2>1, <2>2 DEF ListedAreKnown
<1>19. NewestKey'
  BY <1>2, <1>4, <1>5, <1>15 DEF Settling, NewestKey
<1>20. LeaverIsOut'
  BY <1>4, <1>5, <1>13, <1>15 DEF Settling, LeaverIsOut
<1>21. MembersGetKey'
  <2> SUFFICES ASSUME NEW x \in In, Key(x) # keys
               PROVE  \E a \in Node : x \in ToRead(a)' \/ InviteOn(a, x)'
    BY <1>2, <1>13, <1>15 DEF MembersGetKey, In
  <2>1. PICK a \in Node : x \in ToRead(a) \/ InviteOn(a, x)
    BY <1>4 DEF Settling, MembersGetKey
  <2>2. x \in Node /\ x # p
    BY <1>6 DEF In
  <2> QED BY <1>14, <1>15, <2>1, <2>2
<1>22. SliceIsList'
  <2>1. \A a \in Node : a # n => SliceOf(a)'
    BY <1>4, <1>10, <1>12 DEF Settling, SliceIsList, SliceOf
  <2>2. cli'[n].shared => \A i \in DOMAIN cli'[n].array :
          i <= Len(Room(n)'.members) => cli'[n].array[i] = Room(n)'.members[i]
    BY <1>9, <1>11, <1>12
  <2>3. View(n) \cup gone[n] \subseteq View(n)' \cup gone'[n]
    BY <1>9, <1>12
  <2>4. /\ Elements(cli[n].array) \subseteq View(n) \cup gone[n] /\ n \notin cli[n].add
        /\ cli[n].array # <<>> => cli[n].add \subseteq View(n) \cup gone[n]
    BY <1>4 DEF Settling, SliceIsList, SliceOf
  <2>5. Elements(cli'[n].array) \subseteq View(n)' \cup gone'[n]
    BY <1>15, <2>3, <2>4
  <2>6. cli'[n].array # <<>> => cli[n].array # <<>>
    <3>1. ASSUME cli[n].array = <<>> PROVE c = cli[n]
      BY <1>7, <1>8, <3>1, OverlayExact DEF c
    <3> QED BY <1>12, <3>1
  <2> QED BY <1>15, <2>1, <2>2, <2>3, <2>4, <2>5, <2>6 DEF SliceIsList, SliceOf
<1>23. ASSUME NEW h \in Node, Healing(h) PROVE Healing(h)'
  <2>1. Told(p)
    BY <1>5, <1>23 DEF Healing
  <2>2. \A q \in Node : Told(q) => Told(q)'
    BY <1>5, <1>12, <1>13, <1>15 DEF Told, In
  <2>3. \A q \in Node : Mistaken(h, q) /\ q # p => Mistaken(h, q)'
    BY <1>13, <1>14, <1>15 DEF Mistaken
  <2>4. \A q \in Node : Accounted(h, q) => Accounted(h, q)'
    BY <1>13, <2>1, <2>2, <2>3 DEF Accounted
  <2>5. \A S \in SUBSET Node : Good(h, S) => Good(h, S)'
    BY <1>13, <2>4 DEF Good
  <2>6. Alone(h)'
    BY <1>14, <1>15, <1>23 DEF Healing, Alone
  <2>7. ASSUME NEW q \in In' \cup {h}, Key(q)' = keys' PROVE Good(h, View(q))'
    <3>1. q \in Node /\ Good(h, View(q)) /\ View(q) \subseteq Node
      BY <1>2, <1>13, <1>15, <1>16, <1>23, <2>7 DEF Healing, In
    <3>2. In \subseteq View(q) /\ \A x \in View(q) : Accounted(h, x)
      BY <3>1 DEF Good
    <3>3. In' \subseteq View(q)' /\ \A x \in View(q)' : Accounted(h, x)'
      BY <1>6, <1>13, <1>15, <2>4, <3>1, <3>2
    <3> QED BY <3>3 DEF Good
  <2>8. ASSUME NEW q \in In', NEW m \in Invites(h, q)'
        PROVE  Good(h, Elements(m.members) \cup {q})'
    <3>1. q \in In /\ q \in Node /\ m \in Invites(h, q)
      BY <1>5, <1>13, <2>8 DEF In
    <3>2. Good(h, Elements(m.members) \cup {q}) /\ Elements(m.members) \cup {q} \subseteq Node
      BY <1>16, <1>23, <3>1 DEF Healing
    <3> QED BY <2>5, <3>2
  <2>9. \A q \in cli'[h].add : Accounted(h, q)'
    BY <1>15, <1>16, <1>23, <2>4 DEF Healing
  <2>10. \A q, b \in Node : LeaveOn(q, b)' => Told(q)'
    BY <1>5, <1>23, <2>2 DEF Healing
  <2>11. keys' > 0 /\ HasRoom(h)' /\ Key(h)' = keys'
    BY <1>2, <1>15, <1>23 DEF Healing
  <2> QED BY <2>6, <2>7, <2>8, <2>9, <2>10, <2>11 DEF Healing
<1> QED BY <1>2, <1>4, <1>18, <1>19, <1>20, <1>21, <1>22, <1>23 DEF Settling

\* MsgGroupLeave where there is no copy: nothing but the message changes.
LEMMA HandleLeaveNoRoom ==
  ASSUME IInv, NEW n \in Node, NEW p \in Node, HandleGroupLeave(n, p), ~HasRoom(n), upset' = {}, Agreement
  PROVE  Settling' /\ (healed' => \E h \in Node : Healing(h)')
<1>1. TypeOK
  BY DEF IInv
<1>2. Reads(n, p, "group_leave") /\ UNCHANGED <<room, cli, gone, upset, keys, healed>>
  BY DEF HandleGroupLeave
<1>3. Settling /\ (healed => \E h \in Node : Healing(h))
  BY <1>2 DEF Agreement
<1>4. /\ \A a, b \in Node : Invites(a, b)' = Invites(a, b)
      /\ \A a, b \in Node : ~(a = p /\ b = n) => (LeaveOn(a, b)' <=> LeaveOn(a, b))
      /\ LeaveOn(p, n)' => LeaveOn(p, n)
  BY <1>1, <1>2, ReadsKinds
<1>5. /\ \A a : /\ (HasRoom(a)' <=> HasRoom(a)) /\ Room(a)' = Room(a) /\ View(a)' = View(a)
                /\ Key(a)' = Key(a)
  BY <1>2, RoomSame
<1>6. In' = In /\ n \notin In
  BY <1>1, <1>5, ViewFact DEF In
<1>7. \A a, b \in Node : InviteOn(a, b)' <=> InviteOn(a, b)
  BY <1>4 DEF InviteOn
<1>8. \A a : ToRead(a)' = ToRead(a) /\ cli'[a] = cli[a] /\ gone'[a] = gone[a]
  BY <1>2 DEF ToRead
<1>9. /\ \A a \in Node : View(a) \subseteq Node /\ Elements(cli[a].array) \subseteq Node /\ cli[a].add \subseteq Node
      /\ \A a, b \in Node : \A m \in Invites(a, b) : Elements(m.members) \subseteq Node
  BY <1>1, NodesOnly
<1>10. \A q \in Node : Known(q)' <=> Known(q)
  BY <1>5, <1>7 DEF Known
<1>11. ListedAreKnown'
  BY <1>3, <1>4, <1>5, <1>8, <1>9, <1>10 DEF Settling, ListedAreKnown
<1>12. NewestKey'
  BY <1>2, <1>3, <1>4, <1>5, <1>8 DEF Settling, NewestKey
<1>13. LeaverIsOut'
  BY <1>3, <1>4, <1>5, <1>6 DEF Settling, LeaverIsOut
<1>14. MembersGetKey'
  BY <1>2, <1>3, <1>5, <1>6, <1>7, <1>8 DEF Settling, MembersGetKey, In
<1>15. SliceIsList'
  BY <1>3, <1>5, <1>8 DEF Settling, SliceIsList, SliceOf
<1>16. ASSUME NEW h \in Node, Healing(h) PROVE Healing(h)'
  <2>1. \A q \in Node : Told(q) => Told(q)'
    BY <1>4, <1>6, <1>8 DEF Told, In
  <2>2. \A q \in Node : Accounted(h, q) => Accounted(h, q)'
    BY <1>6, <1>7, <1>8, <2>1 DEF Accounted, Mistaken
  <2>3. \A S \in SUBSET Node : Good(h, S) => Good(h, S)'
    BY <1>6, <2>2 DEF Good
  <2>4. Alone(h)'
    BY <1>5, <1>7, <1>8, <1>16 DEF Healing, Alone
  <2>5. \A q \in In' \cup {h} : Key(q)' = keys' => Good(h, View(q))'
    BY <1>2, <1>5, <1>6, <1>9, <1>16, <2>3 DEF Healing, In
  <2>6. \A q \in In' : \A m \in Invites(h, q)' : Good(h, Elements(m.members) \cup {q})'
    BY <1>4, <1>6, <1>9, <1>16, <2>3 DEF Healing, In
  <2>7. \A q \in cli'[h].add : Accounted(h, q)'
    BY <1>8, <1>9, <1>16, <2>2 DEF Healing
  <2>8. \A q, b \in Node : LeaveOn(q, b)' => Told(q)'
    BY <1>4, <1>16, <2>1 DEF Healing
  <2>9. keys' > 0 /\ HasRoom(h)' /\ Key(h)' = keys'
    BY <1>2, <1>5, <1>16 DEF Healing
  <2> QED BY <2>4, <2>5, <2>6, <2>7, <2>8, <2>9 DEF Healing
<1> QED BY <1>2, <1>3, <1>11, <1>12, <1>13, <1>14, <1>15, <1>16 DEF Settling
----------------------------------------------------------------------------
\* No room and nobody in it.
LEMMA InitAgreement ==
  ASSUME Init PROVE AInv
<1>1. IInv /\ ~healed /\ \A n \in Node : room[n] = {} /\ cli[n] = Idle /\ \A m \in Node : wire[n][m] = <<>>
  <2>1. room = [n \in Node |-> {}] /\ cli = [n \in Node |-> Idle] /\ wire = [n \in Node |-> [m \in Node |-> <<>>]] /\ ~healed
    BY DEF Init
  <2> QED BY InitIInv, <2>1
<1>2. \A n \in Node : ~HasRoom(n) /\ View(n) = {} /\ n \notin In
  BY <1>1 DEF HasRoom, View, In
<1>3. \A a, b \in Node : Elements(wire[a][b]) = {}
  BY <1>1 DEF Elements
<1>4. \A a, b \in Node : Invites(a, b) = {} /\ ~LeaveOn(a, b)
  BY <1>3 DEF Invites, LeaveOn
<1>5. ListedAreKnown /\ NewestKey /\ LeaverIsOut
  BY <1>1, <1>2, <1>4, IdleEmpty DEF ListedAreKnown, NewestKey, LeaverIsOut
<1>6. MembersGetKey /\ SliceIsList
  BY <1>1, <1>2, IdleEmpty DEF MembersGetKey, SliceIsList, SliceOf, In
<1> QED BY <1>1, <1>2, <1>5, <1>6 DEF AInv, Unmade, Agreement, Settling

\* Every step that upsets nothing keeps the agreement.
LEMMA NextAgreement ==
  ASSUME AInv, [Next]_vars PROVE AInv'
<1>1. IInv /\ Unmade /\ Agreement
  BY DEF AInv
<1>2. IInv' /\ Unmade'
  BY <1>1, NextIInv, NextUnmade
<1>3. SUFFICES ASSUME upset' = {} PROVE Settling' /\ (healed' => \E h \in Node : Healing(h)')
  BY <1>2 DEF AInv, Agreement
<1>4. ASSUME Unmoved, upset = {} PROVE Settling' /\ (healed' => \E h \in Node : Healing(h)')
  <2>1. TypeOK /\ Settling /\ (healed => \E h \in Node : Healing(h))
    BY <1>1, <1>4 DEF IInv, Agreement
  <2> QED BY <1>4, <2>1, UnmovedStep
<1>5. CASE UNCHANGED vars
  <2>1. \A a, b \in Node : Invites(a, b)' = Invites(a, b) /\ (LeaveOn(a, b)' <=> LeaveOn(a, b))
    BY <1>5, KindsOf DEF vars
  <2> QED BY <1>3, <1>4, <1>5, <2>1 DEF vars, Unmoved
<1>6. CASE CreateRoom
  <2>1. upset = {}
    BY <1>3, <1>6 DEF CreateRoom, history
  <2> QED BY <1>1, <1>6, <2>1, CreateAgrees DEF Agreement
<1>7. ASSUME NEW n \in Node, NEW m \in Node, InviteToRoom(n, m) PROVE Settling' /\ (healed' => \E h \in Node : Healing(h)')
  BY <1>1, <1>3, <1>7, InviteAgrees DEF Agreement
<1>8. ASSUME NEW n \in Node, AddMember(n) \/ RekeyMember(n) \/ LeaveRoom(n)
      PROVE  Settling' /\ (healed' => \E h \in Node : Healing(h)')
  BY <1>1, <1>3, <1>8, AddMemberAgrees, RekeyMemberAgrees, LeaveAgrees
<1>9. ASSUME NEW n \in Node, RekeyRoom(n) PROVE Settling' /\ (healed' => \E h \in Node : Healing(h)')
  BY <1>1, <1>3, <1>9, RekeyAgrees
<1>10. ASSUME NEW n \in Node, SendGroup(n) PROVE Settling' /\ (healed' => \E h \in Node : Healing(h)')
  BY <1>1, <1>3, <1>4, <1>10, SendGroupAgrees
<1>11. ASSUME NEW n \in Node, Restart(n) PROVE Settling' /\ (healed' => \E h \in Node : Healing(h)')
  BY <1>1, <1>3, <1>4, <1>11, RestartAgrees
<1>12. ASSUME NEW n \in Node, NEW m \in Node, HandleGroupInvite(n, m) \/ HandleGroupLeave(n, m)
       PROVE  Settling' /\ (healed' => \E h \in Node : Healing(h)')
  BY <1>1, <1>3, <1>12, HandleInviteAgrees, HandleLeaveAgrees, HandleLeaveNoRoom
<1>13. ASSUME NEW n \in Node, NEW m \in Node, HandleGroupChat(n, m)
       PROVE  Settling' /\ (healed' => \E h \in Node : Healing(h)')
  <2>1. Reads(n, m, "group_chat") /\ UNCHANGED <<room, cli, keys, gone, healed, upset>>
    BY <1>13 DEF HandleGroupChat
  <2>2. Unmoved
    BY <1>1, <2>1, ReadChatAgrees
  <2> QED BY <1>3, <1>4, <2>1, <2>2
<1>14. ASSUME NEW n \in Node, NEW m \in Node, Refuse(n, m) \/ Break(n, m)
       PROVE  Settling' /\ (healed' => \E h \in Node : Healing(h)')
  BY <1>1, <1>3, <1>4, <1>14, RefuseAgrees, BreakAgrees
<1>15. ASSUME NEW n \in Node, NEW m \in Node, Connect(n, m)
       PROVE  Settling' /\ (healed' => \E h \in Node : Healing(h)')
  <2>1. UNCHANGED <<room, cli, wire, keys, gone, healed, upset>>
    BY <1>15 DEF Connect, history
  <2>2. \A a, b \in Node : Invites(a, b)' = Invites(a, b) /\ (LeaveOn(a, b)' <=> LeaveOn(a, b))
    BY <2>1, KindsOf
  <2> QED BY <1>3, <1>4, <2>1, <2>2 DEF Unmoved
<1> QED BY <1>5, <1>6, <1>7, <1>8, <1>9, <1>10, <1>11, <1>12, <1>13, <1>14, <1>15 DEF Next, Command

\* The agreement holds in every state.
LEMMA AgreementInvariance == Spec => []AInv
  BY InitAgreement, NextAgreement, PTL DEF Spec

(* In a room at rest that nothing has upset, those who are in hold the      *)
(* newest key; after a rekey their lists are those who are in.              *)
LEMMA AtRest ==
  ASSUME AInv, Quiet, upset = {}
  PROVE  /\ \A p \in Node : p \in Members <=> p \in In
         /\ \A p \in In : p \in Node /\ Key(p) = keys
         /\ healed => \A p \in In : View(p) = In
<1>1. TypeOK /\ Settling /\ GoneIsUnlisted /\ (healed => \E h \in Node : Healing(h))
  BY DEF AInv, IInv, Agreement, Barring
<1>2. \A a \in Node : cli[a] = Idle /\ \A b \in Node : ~InviteOn(a, b) /\ ~LeaveOn(a, b)
  BY QuietFact
<1>3. \A p \in Node : p \in Members <=> p \in In
  BY <1>2, QuietFact
<1>4. \A a \in Node : ToRead(a) = {}
  BY <1>2, IdleEmpty DEF ToRead
<1>5. \A p \in In : p \in Node /\ Key(p) = keys
  BY <1>1, <1>2, <1>4 DEF Settling, MembersGetKey, In
<1>6. ASSUME healed, NEW p \in In PROVE View(p) = In
  <2>1. PICK h \in Node : Healing(h)
    BY <1>1, <1>6
  <2>2. Good(h, View(p)) /\ p \in Node /\ View(p) \subseteq Node
    BY <1>1, <1>5, <1>6, <2>1, NodesOnly DEF Healing
  <2>3. In \subseteq View(p) /\ \A q \in View(p) : Accounted(h, q)
    BY <2>2 DEF Good
  <2>4. ASSUME NEW q \in View(p) PROVE ~Mistaken(h, q) /\ ~Told(q)
    <3>1. q \in Node
      BY <2>2
    <3>2. ~Mistaken(h, q)
      BY <1>2, <1>4, <3>1 DEF Mistaken
    <3>3. q \notin gone[p]
      <4>1. HasRoom(p) /\ View(p) = Elements(Room(p).members) /\ Room(p) \in room[p]
        BY <1>1, <2>2, <2>4, ViewFact, RoomOf
      <4> QED BY <1>1, <2>2, <4>1 DEF GoneIsUnlisted
    <3> QED BY <1>2, <1>6, <2>2, <3>1, <3>2, <3>3 DEF Told
  <2> QED BY <2>3, <2>4 DEF Accounted
<1> QED BY <1>3, <1>5, <1>6

(* Whatever commands, handlers, breaks and restarts interleave, once        *)
(* nothing is under way and none of the events in upset has happened, all   *)
(* who count themselves in hold one key, and after a rekey one list: the    *)
(* invitations that RekeyRoom sends replace every copy.                     *)
THEOREM MembersAgree == Spec => []MembersAgreeWhenQuiet
<1>1. ASSUME AInv PROVE MembersAgreeWhenQuiet
  <2> SUFFICES ASSUME Quiet, upset = {}, NEW p \in Members, NEW q \in Members
               PROVE  Room(p).key = Room(q).key /\ (healed => View(p) = View(q))
    BY DEF MembersAgreeWhenQuiet
  <2>1. p \in In /\ q \in In
    BY <1>1, AtRest DEF Members
  <2> QED BY <1>1, <2>1, AtRest DEF Key
<1> QED BY <1>1, AgreementInvariance, PTL
----------------------------------------------------------------------------
\* Such a step leaves a room at rest.
LEMMA UnmovedQuiet ==
  ASSUME Unmoved, Quiet PROVE Quiet'
<1>1. \A a, b \in Node : /\ On(wire'[a][b], "group_invite") <=> Invites(a, b)' # {}
                         /\ On(wire'[a][b], "group_leave") <=> LeaveOn(a, b)'
                         /\ On(wire[a][b], "group_invite") <=> Invites(a, b) # {}
                         /\ On(wire[a][b], "group_leave") <=> LeaveOn(a, b)
  BY OnFact DEF Invites, LeaveOn
<1> QED BY <1>1 DEF Unmoved, Quiet

\* SendGroup in a room at rest after a rekey: the line is on its way to every member online.
LEMMA SendGroupDue ==
  ASSUME AInv, DueIsOnTheWay, NEW n \in Node, SendGroup(n) PROVE DueIsOnTheWay'
<1>1. IInv /\ TypeOK
  BY DEF AInv, IInv
<1>2. PICK msg : msg = Chat(Room(n).key, commands + 1)
  OBVIOUS
<1>3. /\ HasRoom(n) /\ n \in View(n) /\ wire' = Sent(n, Recipients(n), msg)
      /\ due' = IF Quiet /\ upset = {} /\ healed
                  THEN due \cup {<<commands + 1, m>> : m \in Members \cap Peers(n)} ELSE due
      /\ UNCHANGED <<room, upset, healed>>
  BY <1>2 DEF SendGroup, IsMember
<1>4. Unmoved
  BY <1>1, SendGroupAgrees
<1>5. \A a : View(a)' = View(a) /\ Key(a)' = Key(a)
  BY <1>3, RoomSame
<1>6. Room(n) \in Copy /\ Recipients(n) \in SUBSET Node /\ commands \in Nat
  BY <1>1, <1>3, RoomOf DEF Recipients, Peers, TypeOK
<1>7. msg \in Message
  BY <1>2, <1>6 DEF Chat, Message, Copy
<1>8. /\ \A a, b \in Node : ~(a = n /\ b \in Recipients(n)) => wire'[a][b] = wire[a][b]
      /\ \A b \in Recipients(n) : Elements(wire'[n][b]) = Elements(wire[n][b]) \cup {msg}
  BY <1>1, <1>3, <1>6, <1>7, SentExact
<1>9. \A a, b \in Node : Elements(wire[a][b]) \subseteq Elements(wire'[a][b])
  BY <1>8
<1>10. due' # {} => (Quiet /\ upset = {} /\ healed)'
  <2>1. due' # {} => Quiet /\ upset = {} /\ healed
    BY <1>3 DEF DueIsOnTheWay
  <2> QED BY <1>3, <1>4, <2>1, UnmovedQuiet
<1>11. due' \subseteq Nat \X Node
  <2>1. {<<commands + 1, m>> : m \in Members \cap Peers(n)} \subseteq Nat \X Node
    BY <1>6 DEF Peers
  <2> QED BY <1>3, <2>1 DEF DueIsOnTheWay
<1>12. ASSUME NEW x \in due'
       PROVE  /\ x[2] \in View(x[2])'
              /\ \E p \in View(x[2])' : Chat(Key(x[2])', x[1]) \in Elements(wire'[p][x[2]])
  <2>1. CASE x \in due
    <3>1. x[2] \in Node /\ x[2] \in View(x[2])
      BY <2>1 DEF DueIsOnTheWay
    <3>2. PICK p \in View(x[2]) : Chat(Key(x[2]), x[1]) \in Elements(wire[p][x[2]])
      BY <2>1 DEF DueIsOnTheWay
    <3>3. p \in Node
      BY <1>1, <3>1, NodesOnly
    <3> QED BY <1>5, <1>9, <3>1, <3>2, <3>3
  <2>2. CASE x \notin due
    <3>1. /\ Quiet /\ upset = {} /\ healed
          /\ x \in {<<commands + 1, m>> : m \in Members \cap Peers(n)}
      BY <1>3, <2>2
    <3>2. PICK m \in Members \cap Peers(n) : x = <<commands + 1, m>>
      BY <3>1
    <3>3. x[1] = commands + 1 /\ x[2] = m /\ m \in Node
      BY <3>2 DEF Peers
    <3>4. m \in In /\ n \in In
      BY <1>3, <3>1, <3>2, <3>3, AtRest DEF In
    <3>5. View(m) = In /\ View(n) = In /\ Key(m) = Key(n)
      BY <3>1, <3>4, AtRest
    <3>6. m \in Recipients(n)
      BY <3>2, <3>4, <3>5 DEF Recipients
    <3>7. msg = Chat(Key(m), x[1])
      BY <1>2, <3>3, <3>5 DEF Key
    <3> QED BY <1>5, <1>8, <3>3, <3>4, <3>5, <3>6, <3>7
  <2> QED BY <2>1, <2>2
<1> QED BY <1>10, <1>11, <1>12 DEF DueIsOnTheWay

\* handleGroupChat: a line that is due is shown when it is read.
LEMMA HandleChatDue ==
  ASSUME AInv, DueIsOnTheWay, NEW n \in Node, NEW p \in Node, HandleGroupChat(n, p) PROVE DueIsOnTheWay'
<1>1. IInv /\ TypeOK
  BY DEF AInv, IInv
<1>2. PICK msg : msg = Head(wire[p][n])
  OBVIOUS
<1>3. /\ Reads(n, p, "group_chat") /\ UNCHANGED <<room, cli, keys, upset, healed, gone>>
      /\ \/ due' = due \ {<<msg.line, n>>}
         \/ due' = due /\ ~(HasRoom(n) /\ IsMember(n, p) /\ IsMember(n, n) /\ Room(n).key = msg.key)
  BY <1>2 DEF HandleGroupChat
<1>4. Unmoved
  BY <1>1, <1>3, ReadChatAgrees
<1>5. \A a : View(a)' = View(a) /\ Key(a)' = Key(a)
  BY <1>3, RoomSame
<1>6. /\ \A a, b \in Node : ~(a = p /\ b = n) => wire'[a][b] = wire[a][b]
      /\ Elements(wire[p][n]) = Elements(wire'[p][n]) \cup {msg}
  BY <1>1, <1>2, <1>3, ReadsExact
<1>7. due' \subseteq due
  BY <1>3
<1>8. due' # {} => (Quiet /\ upset = {} /\ healed)'
  BY <1>3, <1>4, <1>7, UnmovedQuiet DEF DueIsOnTheWay
<1>9. ASSUME NEW x \in due'
      PROVE  /\ x[2] \in View(x[2])'
             /\ \E q \in View(x[2])' : Chat(Key(x[2])', x[1]) \in Elements(wire'[q][x[2]])
  <2>1. x \in due /\ x[2] \in Node /\ x[2] \in View(x[2]) /\ x = <<x[1], x[2]>>
    BY <1>7 DEF DueIsOnTheWay
  <2>2. PICK q \in View(x[2]) : Chat(Key(x[2]), x[1]) \in Elements(wire[q][x[2]])
    BY <2>1 DEF DueIsOnTheWay
  <2>3. q \in Node /\ HasRoom(x[2])
    BY <1>1, <2>1, NodesOnly, ViewFact
  <2>4. ASSUME q = p, x[2] = n, Chat(Key(x[2]), x[1]) = msg PROVE FALSE
    <3>1. msg.line = x[1] /\ msg.key = Key(n)
      BY <2>4 DEF Chat
    <3>2. x = <<msg.line, n>>
      BY <2>1, <2>4, <3>1
    <3>3. HasRoom(n) /\ IsMember(n, p) /\ IsMember(n, n) /\ Room(n).key = msg.key
      BY <2>1, <2>3, <2>4, <3>1 DEF IsMember, Key
    <3> QED BY <1>3, <3>2, <3>3
  <2>5. Chat(Key(x[2]), x[1]) \in Elements(wire'[q][x[2]])
    BY <1>6, <2>1, <2>2, <2>3, <2>4
  <2> QED BY <1>5, <2>1, <2>5
<1> QED BY <1>7, <1>8, <1>9 DEF DueIsOnTheWay

\* Every other step forgets what is due, or cannot happen while something is.
LEMMA NextDue ==
  ASSUME AInv, DueIsOnTheWay, [Next]_vars PROVE DueIsOnTheWay'
<1>1. IInv /\ TypeOK
  BY DEF AInv, IInv
<1>2. ASSUME due' = {} PROVE DueIsOnTheWay'
  BY <1>2 DEF DueIsOnTheWay
<1>3. ASSUME UNCHANGED <<room, cli, wire, upset, healed, due>> PROVE DueIsOnTheWay'
  <2>1. \A a : View(a)' = View(a) /\ Key(a)' = Key(a)
    BY <1>3, RoomSame
  <2>2. Quiet' <=> Quiet
    BY <1>3 DEF Quiet
  <2>3. \A x \in due : x[2] \in View(x[2])' /\ \E p \in View(x[2])' : Chat(Key(x[2])', x[1]) \in Elements(wire'[p][x[2]])
    BY <1>3, <2>1 DEF DueIsOnTheWay
  <2> QED BY <1>3, <2>2, <2>3 DEF DueIsOnTheWay
<1>4. CASE UNCHANGED vars
  BY <1>3, <1>4 DEF vars
<1>5. CASE CreateRoom
  <2>1. keys = 0 /\ due' = due
    BY <1>5 DEF CreateRoom, history
  <2>2. upset = {} => ~healed
    BY <2>1 DEF AInv, Agreement, Healing
  <2> QED BY <1>2, <2>1, <2>2 DEF DueIsOnTheWay
<1>6. ASSUME NEW n \in Node, NEW m \in Node, InviteToRoom(n, m) \/ Refuse(n, m) \/ Break(n, m) PROVE due' = {}
  BY <1>6 DEF InviteToRoom, Refuse, Break, Drop
<1>7. ASSUME NEW n \in Node, RekeyRoom(n) \/ LeaveRoom(n) \/ Restart(n) PROVE due' = {}
  BY <1>7 DEF RekeyRoom, LeaveRoom, Restart, Drop
<1>8. ASSUME NEW n \in Node, AddMember(n) \/ RekeyMember(n) PROVE due' = {}
  <2>1. due' = due
    BY <1>8 DEF AddMember, RekeyMember
  <2>2. cli[n].add # {} \/ cli[n].next <= Len(cli[n].array)
    BY <1>8 DEF AddMember, RekeyMember
  <2>3. Idle.add = {} /\ ~(Idle.next <= Len(Idle.array))
    BY DEF Idle
  <2> QED BY <2>1, <2>2, <2>3 DEF DueIsOnTheWay, Quiet
<1>9. ASSUME NEW n \in Node, NEW p \in Node, NEW t, Reads(n, p, t), t \in {"group_invite", "group_leave"} PROVE ~Quiet
  <2>1. Head(wire[p][n]) \in Elements(wire[p][n]) /\ Head(wire[p][n]).type = t
    BY <1>1, <1>9, ReadsFact
  <2>2. On(wire[p][n], t)
    BY <2>1, OnFact
  <2> QED BY <1>9, <2>2 DEF Quiet
<1>10. ASSUME NEW n \in Node, NEW p \in Node, HandleGroupInvite(n, p) PROVE due' = {}
  <2>1. due' = due /\ Reads(n, p, "group_invite")
    BY <1>10 DEF HandleGroupInvite
  <2> QED BY <1>9, <2>1 DEF DueIsOnTheWay
<1>11. ASSUME NEW n \in Node, NEW p \in Node, HandleGroupLeave(n, p) PROVE due' = {}
  <2>1. due' = due /\ Reads(n, p, "group_leave")
    BY <1>11 DEF HandleGroupLeave
  <2> QED BY <1>9, <2>1 DEF DueIsOnTheWay
<1>12. ASSUME NEW n \in Node, NEW m \in Node, Connect(n, m) PROVE DueIsOnTheWay'
  BY <1>3, <1>12 DEF Connect, history
<1>13. ASSUME NEW n \in Node, SendGroup(n) PROVE DueIsOnTheWay'
  BY <1>13, SendGroupDue
<1>14. ASSUME NEW n \in Node, NEW m \in Node, HandleGroupChat(n, m) PROVE DueIsOnTheWay'
  BY <1>14, HandleChatDue
<1> QED BY <1>2, <1>4, <1>5, <1>6, <1>7, <1>8, <1>10, <1>11, <1>12, <1>13, <1>14 DEF Next, Command

(* A line that SendGroup sends in a room at rest after a rekey is displayed *)
(* by every member online once nothing is on the wires, unless the room     *)
(* changes or the network fails first.                                      *)
THEOREM LineShown == Spec => []SettledLineIsShown
<1>1. Init => DueIsOnTheWay
  BY DEF Init, DueIsOnTheWay
<1>2. AInv /\ DueIsOnTheWay /\ [Next]_vars => DueIsOnTheWay'
  BY NextDue
<1>3. ASSUME AInv, DueIsOnTheWay PROVE SettledLineIsShown
  <2> SUFFICES ASSUME \A n, m \in Node : wire[n][m] = <<>>, NEW x \in due PROVE FALSE
    BY DEF SettledLineIsShown
  <2>1. x[2] \in Node /\ View(x[2]) \subseteq Node
    BY <1>3, NodesOnly DEF DueIsOnTheWay, AInv, IInv
  <2>2. \A n, m \in Node : Elements(wire[n][m]) = {}
    BY DEF Elements
  <2> QED BY <1>3, <2>1, <2>2 DEF DueIsOnTheWay
<1> QED BY <1>1, <1>2, <1>3, AgreementInvariance, PTL DEF Spec
============================================================================
