--------------------------- MODULE SessionProofs ---------------------------
(***************************************************************************)
(* Safety of Session for any number of rekeys, chats, hello copies and     *)
(* reconnections.                                                          *)
(***************************************************************************)
EXTENDS Session, TLAPS

\* What Append does to length, domain and elements.
LEMMA SeqAppend ==
  ASSUME NEW S, NEW s \in Seq(S), NEW x \in S
  PROVE  /\ Append(s, x) \in Seq(S)
         /\ Len(Append(s, x)) = Len(s) + 1
         /\ DOMAIN Append(s, x) = 1..(Len(s) + 1)
         /\ DOMAIN s = 1..Len(s) /\ Len(s) \in Nat
         /\ \A i \in 1..Len(s) : Append(s, x)[i] = s[i]
         /\ Append(s, x)[Len(s) + 1] = x
OBVIOUS

\* Each element of an extended sequence is an old one or the one appended.
LEMMA SeqAppendEach ==
  ASSUME NEW S, NEW s \in Seq(S), NEW x \in S, NEW i \in DOMAIN Append(s, x)
  PROVE  \/ i \in DOMAIN s /\ Append(s, x)[i] = s[i]
         \/ i \notin DOMAIN s /\ i = Len(s) + 1 /\ Append(s, x)[i] = x
OBVIOUS

\* Taking message i off a wire: those before it stay, those behind it move up.
LEMMA SeqRemove ==
  ASSUME NEW S, NEW q \in Seq(S), NEW i \in DOMAIN q
  PROVE  /\ RemoveAt(q, i) \in Seq(S)
         /\ Len(RemoveAt(q, i)) = Len(q) - 1
         /\ DOMAIN RemoveAt(q, i) = 1..(Len(q) - 1)
         /\ DOMAIN q = 1..Len(q) /\ Len(q) \in Nat
         /\ \A j \in 1..(Len(q) - 1) :
              RemoveAt(q, i)[j] = IF j < i THEN q[j] ELSE q[j + 1]
<1>1. /\ i \in Nat /\ i >= 1 /\ i <= Len(q) /\ Len(q) \in Nat
      /\ DOMAIN q = 1..Len(q)
  OBVIOUS
<1>2. SubSeq(q, 1, i - 1) \in Seq(S) /\ SubSeq(q, i + 1, Len(q)) \in Seq(S)
  BY <1>1
<1>3. PICK a \in Seq(S) : a = SubSeq(q, 1, i - 1)
  BY <1>2, Zenon
<1>4. PICK b \in Seq(S) : b = SubSeq(q, i + 1, Len(q))
  BY <1>2, Zenon
<1>5. Len(a) = i - 1 /\ \A j \in 1..(i - 1) : a[j] = q[j]
  BY <1>1, <1>3
<1>6. Len(b) = Len(q) - i /\ \A j \in 1..(Len(q) - i) : b[j] = q[j + i]
  BY <1>1, <1>4
<1>7. /\ a \o b \in Seq(S) /\ Len(a \o b) = Len(a) + Len(b)
      /\ DOMAIN (a \o b) = 1..(Len(a) + Len(b))
      /\ \A j \in 1..Len(a) : (a \o b)[j] = a[j]
      /\ \A j \in 1..Len(b) : (a \o b)[Len(a) + j] = b[j]
  OBVIOUS
<1>8. PICK c \in Seq(S) : c = a \o b
  BY <1>7, Zenon
<1>9. /\ Len(c) = Len(q) - 1 /\ DOMAIN c = 1..(Len(q) - 1)
      /\ \A j \in 1..(i - 1) : c[j] = q[j]
      /\ \A j \in 1..(Len(q) - i) : c[(i - 1) + j] = q[j + i]
  <2>1. /\ Len(c) = Len(a) + Len(b) /\ DOMAIN c = 1..(Len(a) + Len(b))
        /\ \A j \in 1..Len(a) : c[j] = a[j]
        /\ \A j \in 1..Len(b) : c[Len(a) + j] = b[j]
    BY <1>7, <1>8
  <2>2. Len(a) + Len(b) = Len(q) - 1
    BY <1>1, <1>5, <1>6
  <2> QED BY <1>5, <1>6, <2>1, <2>2
<1>10. ASSUME NEW j \in 1..(Len(q) - 1)
       PROVE  c[j] = IF j < i THEN q[j] ELSE q[j + 1]
  <2>1. CASE j < i
    <3>1. j \in 1..(i - 1)
      BY <1>1, <2>1
    <3>2. c[j] = q[j]
      BY <1>9, <3>1, Zenon
    <3> QED BY <2>1, <3>2
  <2>2. CASE ~(j < i)
    <3> DEFINE k == j - (i - 1)
    <3>1. k \in 1..(Len(q) - i) /\ (i - 1) + k = j /\ k + i = j + 1
      BY <1>1, <2>2
    <3> HIDE DEF k
    <3>2. c[(i - 1) + k] = q[k + i]
      BY <1>9, <3>1, Zenon
    <3> QED BY <2>2, <3>1, <3>2
  <2> QED BY <2>1, <2>2
<1> QED BY <1>1, <1>3, <1>4, <1>8, <1>9, <1>10 DEF RemoveAt
\* Each element that is left was an element before.
LEMMA SeqRemoveEach ==
  ASSUME NEW S, NEW q \in Seq(S), NEW i \in DOMAIN q,
         NEW j \in DOMAIN RemoveAt(q, i)
  PROVE  LET k == IF j < i THEN j ELSE j + 1 IN
         k \in DOMAIN q /\ k # i /\ RemoveAt(q, i)[j] = q[k]
<1>1. i \in 1..Len(q) /\ j \in 1..(Len(q) - 1) /\ DOMAIN q = 1..Len(q) /\ Len(q) \in Nat
  BY SeqRemove
<1>2. RemoveAt(q, i)[j] = IF j < i THEN q[j] ELSE q[j + 1]
  BY <1>1, SeqRemove
<1> QED BY <1>1, <1>2
-----------------------------------------------------------------------------
\* TypeOK in groups of variables that the goroutines change together.
ConnType ==
  /\ sc \in Scenario
  /\ opened \in [Side -> BOOLEAN] /\ ready \in [Side -> BOOLEAN]
  /\ due \in [Side -> BOOLEAN]
PunchType == sc \in Scenario /\ punch \in [Side -> 0..sc.copies]
KeyType == key \in [Side -> Key] /\ slot \in [Side -> SUBSET Ephemeral]
WireType == wire \in [Side -> Seq(Message)]
GoType ==
  /\ reader \in [Side -> ReaderState]
  /\ beat \in [Side -> BeatState]
  /\ cli \in [Side -> CliState]
CountType == chats \in Nat /\ drops \in Nat /\ asked \in Nat /\ answered \in Nat
NoteType == upset \subseteq Upset /\ unread \subseteq Message

\* TypeOK is the conjunction of its groups, before and after a step.
LEMMA TypeGroups ==
  /\ TypeOK <=> /\ ConnType /\ PunchType /\ KeyType /\ WireType
                /\ GoType /\ CountType /\ NoteType
  /\ TypeOK' <=> /\ ConnType' /\ PunchType' /\ KeyType' /\ WireType'
                 /\ GoType' /\ CountType' /\ NoteType'
BY Zenon DEF TypeOK, ConnType, PunchType, KeyType, WireType, GoType,
             CountType, NoteType

\* A step that leaves the variables of a group alone keeps the group.
LEMMA TypeStutters ==
  /\ ConnType /\ UNCHANGED <<sc, opened, ready, due>> => ConnType'
  /\ PunchType /\ UNCHANGED <<sc, punch>> => PunchType'
  /\ KeyType /\ UNCHANGED <<key, slot>> => KeyType'
  /\ WireType /\ UNCHANGED wire => WireType'
  /\ GoType /\ UNCHANGED <<reader, beat, cli>> => GoType'
  /\ CountType /\ UNCHANGED <<chats, drops, asked, answered>> => CountType'
  /\ NoteType /\ UNCHANGED <<upset, unread>> => NoteType'
BY DEF ConnType, PunchType, KeyType, WireType, GoType, CountType, NoteType

\* The two ends of the connection.
LEMMA OtherSide ==
  ASSUME NEW s \in Side
  PROVE  /\ Other(s) \in Side /\ Other(s) # s /\ Other(Other(s)) = s
         /\ \A t \in Side : t = s \/ t = Other(s)
BY DEF Side, Other

\* GenerateKey returns an ephemeral.
LEMMA FreshType == CountType => Fresh \in Ephemeral
BY DEF CountType, Fresh, Ephemeral

\* sendRaw keeps the wires well typed.
LEMMA SendType ==
  ASSUME WireType, NEW s \in Side, NEW m \in Message, SendRaw(s, m)
  PROVE  WireType'
BY OtherSide, SeqAppend DEF WireType, SendRaw

\* What the reader takes is a message, and what it leaves is a wire.
LEMMA ReceiveType ==
  ASSUME WireType, NEW s \in Side, NEW i \in DOMAIN wire[s], NEW t,
         Receive(s, i, t)
  PROVE  WireType' /\ wire[s][i] \in Message /\ wire[s][i].type = t
<1>1. wire[s] \in Seq(Message) /\ wire[s][i] \in Message
  BY DEF WireType
<1>2. RemoveAt(wire[s], i) \in Seq(Message)
  BY <1>1, SeqRemove
<1> QED BY <1>1, <1>2 DEF WireType, Receive

\* The ephemeral the MsgRekey handler takes out of a slot was in it.
LEMMA SlotType ==
  ASSUME KeyType, NEW s \in Side, slot[s] # {}
  PROVE  (CHOOSE e \in slot[s] : TRUE) \in slot[s]
         /\ (CHOOSE e \in slot[s] : TRUE) \in Ephemeral
BY DEF KeyType

\* The secrets that are mixed into a key are sets of ephemerals.
LEMMA ECDHType ==
  ASSUME NEW e \in Ephemeral, NEW f \in Ephemeral
  PROVE  ECDH(e, f) \in SUBSET Ephemeral
BY DEF ECDH

\* MixKeys returns a key.
LEMMA MixType ==
  ASSUME NEW k \in Key, NEW x \in SUBSET Ephemeral
  PROVE  MixKeys(k, x) \in Key
BY SeqAppend DEF Key, MixKeys

\* The messages the goroutines write.
LEMMA MessageType ==
  /\ Hello \in Message
  /\ \A e \in Ephemeral : Rekey(e) \in Message
  /\ \A k \in Key, q \in BOOLEAN : Chat(k, q) \in Message
BY DEF Message, Rekey, Chat

\* setupConn, the hole-punch burst and the clock keep the types.
LEMMA SetupKeepsType ==
  ASSUME TypeOK, NEW s \in Side, SetupConn(s) \/ Punch(s) \/ TenMinutes(s)
  PROVE  TypeOK'
<1> USE TypeGroups
<1>1. CASE SetupConn(s)
  <2>1. WireType'
    BY <1>1, SendType, MessageType DEF SetupConn
  <2>2. ConnType'
    BY <1>1 DEF SetupConn, ConnType
  <2> QED BY <1>1, <2>1, <2>2, TypeStutters DEF SetupConn
<1>2. CASE Punch(s)
  <2>1. WireType'
    BY <1>2, SendType, MessageType DEF Punch
  <2>2. PunchType'
    BY <1>2 DEF Punch, PunchType, Scenario
  <2> QED BY <1>2, <2>1, <2>2, TypeStutters DEF Punch
<1>3. CASE TenMinutes(s)
  <2>1. ConnType'
    BY <1>3 DEF TenMinutes, ConnType
  <2> QED BY <1>3, <2>1, TypeStutters DEF TenMinutes
<1> QED BY <1>1, <1>2, <1>3

\* The handlers of MsgHello, MsgChat and MsgRekey keep the types.
LEMMA ReaderKeepsType ==
  ASSUME TypeOK, NEW s \in Side, ReaderStep(s)
  PROVE  TypeOK'
<1> USE TypeGroups
<1>1. ASSUME NEW i \in DOMAIN wire[s], HandleHello(s, i) PROVE TypeOK'
  <2>1. WireType'
    BY <1>1, ReceiveType DEF HandleHello
  <2>2. ConnType'
    BY <1>1 DEF HandleHello, ConnType
  <2>3. KeyType'
    BY <1>1 DEF HandleHello, KeyType, Key
  <2>4. NoteType'
    BY <1>1 DEF HandleHello, NoteType, Upset, Reordered
  <2> QED BY <1>1, <2>1, <2>2, <2>3, <2>4, TypeStutters DEF HandleHello
<1>2. ASSUME NEW i \in DOMAIN wire[s], HandleChat(s, i) PROVE TypeOK'
  <2>1. WireType' /\ wire[s][i] \in Message
    BY <1>2, ReceiveType DEF HandleChat
  <2>2. NoteType'
    BY <1>2, <2>1 DEF HandleChat, NoteType, Upset, NoKey
  <2> QED BY <1>2, <2>1, <2>2, TypeStutters DEF HandleChat
<1>3. ASSUME NEW i \in DOMAIN wire[s], HandleRekey(s, i) PROVE TypeOK'
  <2>1. WireType' /\ wire[s][i] \in Message /\ wire[s][i].type = "rekey"
    BY <1>3, ReceiveType DEF HandleRekey
  <2>2. NoteType'
    BY <1>3 DEF HandleRekey, NoteType, Upset, Reordered, NoKey
  <2>3. KeyType'
    BY <1>3 DEF HandleRekey, KeyType
  <2>4. wire[s][i].pub \in Ephemeral
    BY <2>1 DEF Message, Hello
  <2>5. slot[s] # {} => ECDH(CHOOSE e \in slot[s] : TRUE, wire[s][i].pub)
                          \in SUBSET Ephemeral
    BY <2>4, SlotType, ECDHType
  <2>6. GoType'
    BY <1>3, <2>4, <2>5 DEF HandleRekey, GoType, ReaderState
  <2> QED BY <1>3, <2>1, <2>2, <2>3, <2>6, TypeStutters DEF HandleRekey
<1>4. CASE AnswerRekey(s)
  <2>1. Fresh \in Ephemeral
    BY FreshType
  <2>2. reader[s].theirs \in Ephemeral
    BY <1>4 DEF AnswerRekey, GoType, ReaderState, Idle
  <2>3. WireType'
    BY <1>4, <2>1, SendType, MessageType DEF AnswerRekey
  <2>4. ECDH(Fresh, reader[s].theirs) \in SUBSET Ephemeral
    BY <2>1, <2>2, ECDHType
  <2>5. GoType'
    BY <1>4, <2>4 DEF AnswerRekey, GoType, ReaderState
  <2>6. CountType'
    BY <1>4 DEF AnswerRekey, CountType
  <2> QED BY <1>4, <2>3, <2>5, <2>6, TypeStutters DEF AnswerRekey
<1>5. CASE MixRekey(s)
  <2>1. reader[s].shared \in SUBSET Ephemeral
    BY <1>5 DEF MixRekey, GoType, ReaderState, Idle
  <2>2. KeyType'
    BY <1>5, <2>1, MixType DEF MixRekey, KeyType
  <2>3. GoType'
    BY <1>5 DEF MixRekey, GoType, ReaderState
  <2> QED BY <1>5, <2>2, <2>3, TypeStutters DEF MixRekey
<1>6. CASE StampRekey(s)
  <2>1. ConnType'
    BY <1>6 DEF StampRekey, ConnType
  <2>2. GoType'
    BY <1>6 DEF StampRekey, GoType, ReaderState
  <2> QED BY <1>6, <2>1, <2>2, TypeStutters DEF StampRekey
<1> QED BY <1>1, <1>2, <1>3, <1>4, <1>5, <1>6 DEF ReaderStep

\* The heartbeat keeps the types.
LEMMA BeatKeepsType ==
  ASSUME TypeOK, NEW s \in Side, BeatStep(s)
  PROVE  TypeOK'
<1> USE TypeGroups
<1>1. CASE InitiateRekey(s)
  <2>1. Fresh \in Ephemeral
    BY FreshType
  <2>2. KeyType'
    BY <1>1, <2>1 DEF InitiateRekey, KeyType
  <2>3. GoType'
    BY <1>1, <2>1 DEF InitiateRekey, GoType, BeatState
  <2>4. CountType'
    BY <1>1 DEF InitiateRekey, CountType
  <2>5. NoteType'
    BY <1>1 DEF InitiateRekey, NoteType, Upset
  <2> QED BY <1>1, <2>2, <2>3, <2>4, <2>5, TypeStutters DEF InitiateRekey
<1>2. CASE SendRekey(s)
  <2>1. beat[s].pub \in Ephemeral
    BY <1>2 DEF SendRekey, GoType, BeatState, Idle
  <2>2. WireType'
    BY <1>2, <2>1, SendType, MessageType DEF SendRekey
  <2>3. GoType'
    BY <1>2 DEF SendRekey, GoType, BeatState
  <2> QED BY <1>2, <2>2, <2>3, TypeStutters DEF SendRekey
<1>3. CASE StampBeat(s)
  <2>1. ConnType'
    BY <1>3 DEF StampBeat, ConnType
  <2>2. GoType'
    BY <1>3 DEF StampBeat, GoType, BeatState
  <2> QED BY <1>3, <2>1, <2>2, TypeStutters DEF StampBeat
<1> QED BY <1>1, <1>2, <1>3 DEF BeatStep

\* The command loop keeps the types.
LEMMA CliKeepsType ==
  ASSUME TypeOK, NEW s \in Side, CliStep(s)
  PROVE  TypeOK'
<1> USE TypeGroups
<1>1. CASE ReadKey(s)
  <2>1. GoType'
    BY <1>1 DEF ReadKey, GoType, CliState, KeyType
  <2>2. CountType'
    BY <1>1 DEF ReadKey, CountType
  <2> QED BY <1>1, <2>1, <2>2, TypeStutters DEF ReadKey
<1>2. CASE SendChat(s)
  <2>1. cli[s].key \in Key
    BY <1>2 DEF SendChat, GoType, CliState, Idle
  <2>2. (Quiet /\ cli[s].key = key[s]) \in BOOLEAN
    BY DEF Quiet
  <2>3. WireType'
    BY <1>2, <2>1, <2>2, SendType, MessageType DEF SendChat
  <2>4. GoType'
    BY <1>2 DEF SendChat, GoType, CliState
  <2> QED BY <1>2, <2>3, <2>4, TypeStutters DEF SendChat
<1> QED BY <1>1, <1>2 DEF CliStep

\* A lost connection or datagram keeps the types.
LEMMA LossKeepsType ==
  ASSUME TypeOK,
         Redial \/ \E s \in Side : \E i \in DOMAIN wire[s] : Lose(s, i)
  PROVE  TypeOK'
<1> USE TypeGroups
<1>1. CASE Redial
  <2>1. ConnType'
    BY <1>1 DEF Redial, ConnType, Side
  <2>2. KeyType'
    BY <1>1 DEF Redial, KeyType, Key, Side
  <2>3. WireType'
    BY <1>1 DEF Redial, WireType
  <2>4. CountType'
    BY <1>1 DEF Redial, CountType
  <2>5. NoteType'
    BY <1>1 DEF Redial, NoteType, Upset
  <2> QED BY <1>1, <2>1, <2>2, <2>3, <2>4, <2>5, TypeStutters DEF Redial
<1>2. ASSUME NEW s \in Side, NEW i \in DOMAIN wire[s], Lose(s, i)
      PROVE  TypeOK'
  <2>1. RemoveAt(wire[s], i) \in Seq(Message)
    BY SeqRemove DEF WireType
  <2>2. WireType'
    BY <1>2, <2>1 DEF Lose, WireType
  <2>3. NoteType'
    BY <1>2 DEF Lose, NoteType, Upset
  <2> QED BY <1>2, <2>2, <2>3, TypeStutters DEF Lose
<1> QED BY <1>1, <1>2

\* The connection starts well typed.
LEMMA TypeInit == Init => TypeOK
<1> SUFFICES ASSUME Init PROVE TypeOK
  OBVIOUS
<1>1. ConnType
  BY SessionAssumption DEF Init, ConnType
<1>2. PunchType
  BY SessionAssumption DEF Init, PunchType, Scenario
<1>3. KeyType
  BY DEF Init, KeyType, Key
<1>4. WireType
  BY DEF Init, WireType
<1>5. GoType
  BY DEF Init, GoType, ReaderState, BeatState, CliState
<1>6. CountType /\ NoteType
  BY DEF Init, CountType, NoteType
<1> QED BY <1>1, <1>2, <1>3, <1>4, <1>5, <1>6, TypeGroups

\* Every step keeps the types.
LEMMA TypeStep == TypeOK /\ [Next]_vars => TypeOK'
<1> SUFFICES ASSUME TypeOK, [Next]_vars PROVE TypeOK'
  OBVIOUS
<1>1. CASE UNCHANGED vars
  BY <1>1, TypeGroups, TypeStutters DEF vars
<1>2. CASE Next
  BY <1>2, SetupKeepsType, ReaderKeepsType, BeatKeepsType, CliKeepsType,
     LossKeepsType DEF Next
<1> QED BY <1>1, <1>2

(* Type correctness of the reader, the heartbeat and the command loop of    *)
(* both nodes, over TCP and UDP: every key is mixed from secrets of two     *)
(* ephemerals, and a handler takes from a message only what it carries.     *)
THEOREM TypeCorrect == Spec => []TypeOK
BY TypeInit, TypeStep, PTL DEF Spec
-----------------------------------------------------------------------------
(* Over TCP a hello is the first message on a wire, and has been read once  *)
(* there is a key; a node that has not set up the connection does nothing.  *)
HelloFirst ==
  sc.via = "tcp" =>
    \A s \in Side :
      /\ punch[s] = 0
      /\ ready[s] => opened[Other(s)]
      /\ \A i \in DOMAIN wire[s] : wire[s][i].type = "hello" => i = 1 /\ ~ready[s]
      /\ ~opened[s] => /\ wire[Other(s)] = <<>> /\ ~ready[s]
                       /\ reader[s] = Idle /\ beat[s] = Idle /\ cli[s] = Idle

\* Before its first hello a node has the static key and handles no rekey.
KeyAfterHello == \A s \in Side : ~ready[s] => key[s] = <<>> /\ reader[s] = Idle
-----------------------------------------------------------------------------
(* The rekeys on a wire: none, one with ephemeral e, or one with f ahead of *)
(* one with g.                                                              *)
NoRekey(w) == \A i \in DOMAIN w : w[i].type # "rekey"
OneRekey(w, e) ==
  \E i \in DOMAIN w :
    /\ w[i].type = "rekey" /\ w[i].pub = e
    /\ \A j \in DOMAIN w : w[j].type = "rekey" => j = i
TwoRekeys(w, f, g) ==
  \E i, k \in DOMAIN w :
    /\ i < k
    /\ w[i].type = "rekey" /\ w[i].pub = f
    /\ w[k].type = "rekey" /\ w[k].pub = g
    /\ \A j \in DOMAIN w : w[j].type = "rekey" => j = i \/ j = k

(* The same on the way to s: on its wire, or with the heartbeat of the      *)
(* other side that has filled its slot and not yet written.                 *)
Sending(s, e) == beat[s].at = "send" /\ beat[s].pub = e
Unsent(s) == beat[s].at = "send"

ToNone(s) == NoRekey(wire[s]) /\ ~Unsent(Other(s))
ToOne(s, e) ==
  \/ OneRekey(wire[s], e) /\ ~Unsent(Other(s))
  \/ NoRekey(wire[s]) /\ Sending(Other(s), e)
ToTwo(s, f, g) ==
  \/ TwoRekeys(wire[s], f, g) /\ ~Unsent(Other(s))
  \/ OneRekey(wire[s], f) /\ Sending(Other(s), g)

Answering(s) == reader[s].at = "answer"

\* The key s will have once its MsgRekey handler has mixed in what it holds.
Coming(s) ==
  IF reader[s].at = "mix" THEN MixKeys(key[s], reader[s].shared) ELSE key[s]

\* No exchange is under way but for mixing in what both have.
AtRest ==
  /\ \A s \in Side : slot[s] = {} /\ ToNone(s) /\ ~Answering(s)
  /\ Coming("dialer") = Coming("acceptor")
  /\ answered <= asked

\* s has asked with e, and the other side has not answered.
Asked(s, e) ==
  LET o == Other(s) IN
  /\ slot[s] = {e} /\ slot[o] = {}
  /\ ToNone(s) /\ ~Answering(s)
  /\ \/ ToOne(o, e) /\ ~Answering(o)
     \/ ToNone(o) /\ Answering(o) /\ reader[o].theirs = e
  /\ Coming(s) = Coming(o)
  /\ answered + 1 <= asked

\* s has asked with e, the other side has mixed in f and s is to take it.
Replied(s, e, f) ==
  LET o == Other(s) IN
  /\ slot[s] = {e} /\ slot[o] = {}
  /\ ToOne(s, f) /\ ToNone(o) /\ ~Answering(s) /\ ~Answering(o)
  /\ Coming(o) = MixKeys(Coming(s), {e, f})
  /\ answered <= asked

\* Both have asked, and neither has taken the other's ephemeral.
Crossed(s, e, f) ==
  LET o == Other(s) IN
  /\ slot[s] = {e} /\ slot[o] = {f}
  /\ ToOne(s, f) /\ ToOne(o, e) /\ ~Answering(s) /\ ~Answering(o)
  /\ Coming(s) = Coming(o)
  /\ answered + 2 <= asked

\* As Replied, and the other side has already asked again with g.
AskedAgain(s, e, f, g) ==
  LET o == Other(s) IN
  /\ slot[s] = {e} /\ slot[o] = {g}
  /\ ToTwo(s, f, g) /\ ToNone(o) /\ ~Answering(s) /\ ~Answering(o)
  /\ Coming(o) = MixKeys(Coming(s), {e, f})
  /\ answered + 1 <= asked

\* The five phases of the exchanges on a connection that was not upset.
Phases ==
  \/ AtRest
  \/ \E s \in Side, e, f, g \in Ephemeral :
       Asked(s, e) \/ Replied(s, e, f) \/ Crossed(s, e, f) \/ AskedAgain(s, e, f, g)

PhaseInv == upset = {} => Phases

(* A quiet chat on the wire is ahead of every rekey and under the key its   *)
(* reader has, and keeps, until it has read it; one that was read is not    *)
(* among those that did not decrypt.                                        *)
QuietChat(m) == m.type = "chat" /\ m.quiet

Ahead(s) ==
  \A i \in DOMAIN wire[s] : QuietChat(wire[s][i]) =>
    /\ wire[s][i].key = key[s] /\ reader[s] = Idle
    /\ \A j \in 1..i : wire[s][j].type # "rekey"

QuietInv ==
  upset = {} => (\A s \in Side : Ahead(s)) /\ (\A m \in unread : ~m.quiet)
-----------------------------------------------------------------------------
\* A step that leaves the connection, the wires and the goroutines alone.
LEMMA HelloStutters ==
  ASSUME HelloFirst, UNCHANGED <<sc, opened, punch, ready, wire, reader, beat, cli>>
  PROVE  HelloFirst'
BY DEF HelloFirst

\* A message other than a hello, written by a node that is set up.
LEMMA HelloSend ==
  ASSUME TypeOK, HelloFirst, NEW s \in Side, NEW m \in Message,
         m.type # "hello", sc.via = "tcp" => opened[s], SendRaw(s, m),
         UNCHANGED <<sc, opened, punch, ready>>,
         \A t \in Side : t # s => /\ reader'[t] = reader[t]
                                  /\ beat'[t] = beat[t] /\ cli'[t] = cli[t]
  PROVE  HelloFirst'
<1> SUFFICES ASSUME sc.via = "tcp", NEW t \in Side
             PROVE  /\ punch'[t] = 0
                    /\ ready'[t] => opened'[Other(t)]
                    /\ \A i \in DOMAIN wire'[t] :
                         wire'[t][i].type = "hello" => i = 1 /\ ~ready'[t]
                    /\ ~opened'[t] => /\ wire'[Other(t)] = <<>> /\ ~ready'[t]
                                      /\ reader'[t] = Idle /\ beat'[t] = Idle
                                      /\ cli'[t] = Idle
  BY DEF HelloFirst
<1>1. wire \in [Side -> Seq(Message)] /\ Other(s) \in Side
  BY OtherSide DEF TypeOK
<1>2. /\ wire'[Other(s)] = Append(wire[Other(s)], m)
      /\ \A u \in Side : u # Other(s) => wire'[u] = wire[u]
  BY <1>1 DEF SendRaw
<1>3. ASSUME NEW i \in DOMAIN wire'[t], wire'[t][i].type = "hello"
      PROVE  i = 1 /\ ~ready'[t]
  <2>1. i \in DOMAIN wire[t] /\ wire'[t][i] = wire[t][i]
    <3>1. CASE t = Other(s)
      <4>1. wire'[t][i] # m
        BY <1>3
      <4>2. wire[t] \in Seq(Message) /\ wire'[t] = Append(wire[t], m)
        BY <1>1, <1>2, <3>1
      <4>3. i \in DOMAIN Append(wire[t], m)
        BY <1>3, <4>2
      <4>4. \/ i \in DOMAIN wire[t] /\ Append(wire[t], m)[i] = wire[t][i]
            \/ Append(wire[t], m)[i] = m
        BY <4>2, <4>3, SeqAppendEach
      <4> QED BY <4>1, <4>2, <4>4
    <3>2. CASE t # Other(s)
      BY <1>2, <1>3, <3>2
    <3> QED BY <3>1, <3>2
  <2> QED BY <1>3, <2>1 DEF HelloFirst
<1>4. ASSUME ~opened[t] PROVE wire'[Other(t)] = wire[Other(t)]
  <2>1. t # s
    BY <1>4
  <2> QED BY <1>2, <2>1, OtherSide
<1> QED BY <1>3, <1>4, OtherSide DEF HelloFirst

\* A message read off a wire, with what the handler does to its own node.
LEMMA HelloReceive ==
  ASSUME TypeOK, HelloFirst, NEW s \in Side, NEW i \in DOMAIN wire[s], NEW t,
         Receive(s, i, t), UNCHANGED <<sc, opened, punch, beat, cli>>,
         \A u \in Side : u # s => reader'[u] = reader[u] /\ ready'[u] = ready[u],
         t # "hello" => ready'[s] = ready[s]
  PROVE  HelloFirst'
<1> SUFFICES ASSUME sc.via = "tcp", NEW u \in Side
             PROVE  /\ punch'[u] = 0
                    /\ ready'[u] => opened'[Other(u)]
                    /\ \A j \in DOMAIN wire'[u] :
                         wire'[u][j].type = "hello" => j = 1 /\ ~ready'[u]
                    /\ ~opened'[u] => /\ wire'[Other(u)] = <<>> /\ ~ready'[u]
                                      /\ reader'[u] = Idle /\ beat'[u] = Idle
                                      /\ cli'[u] = Idle
  BY DEF HelloFirst
<1>1. wire \in [Side -> Seq(Message)] /\ wire[s] \in Seq(Message)
  BY DEF TypeOK
<1>2. /\ wire'[s] = RemoveAt(wire[s], i)
      /\ \A v \in Side : v # s => wire'[v] = wire[v]
      /\ i = 1 /\ wire[s][1].type = t /\ opened[s]
  BY <1>1 DEF Receive, Readable
<1>3. \A j \in DOMAIN wire'[s] :
        wire'[s][j] = wire[s][j + 1] /\ j + 1 \in DOMAIN wire[s] /\ j + 1 # 1
  <2> SUFFICES ASSUME NEW j \in DOMAIN RemoveAt(wire[s], i)
               PROVE  /\ RemoveAt(wire[s], i)[j] = wire[s][j + 1]
                      /\ j + 1 \in DOMAIN wire[s] /\ j + 1 # 1
    BY <1>2
  <2>1. ~(j < i)
    BY <1>1, <1>2, SeqRemove
  <2> QED BY <1>1, <1>2, <2>1, SeqRemoveEach
<1>4. \A j \in DOMAIN wire'[s] : wire'[s][j].type # "hello"
  BY <1>3 DEF HelloFirst
<1>5. opened[Other(s)]
  <2>1. wire[s] # <<>>
    BY <1>1
  <2> QED BY <2>1, OtherSide DEF HelloFirst
<1>6. wire[u] = <<>> => wire'[u] = <<>>
  BY <1>1, <1>2
<1>7. CASE u = s
  BY <1>2, <1>4, <1>5, <1>7 DEF HelloFirst
<1>8. CASE u # s
  <2>1. Other(u) = s
    BY <1>8, OtherSide
  <2>2. opened[u]
    BY <1>5, <1>8, OtherSide
  <2> QED BY <1>2, <1>8, <2>2 DEF HelloFirst
<1> QED BY <1>7, <1>8

\* Every step keeps the hello first.
LEMMA HelloStep == TypeOK /\ HelloFirst /\ [Next]_vars => HelloFirst'
<1> SUFFICES ASSUME TypeOK, HelloFirst, [Next]_vars PROVE HelloFirst'
  OBVIOUS
<1> USE TypeGroups
<1>0. CASE UNCHANGED vars
  BY <1>0, HelloStutters DEF vars
<1>1. ASSUME NEW s \in Side, SetupConn(s) PROVE HelloFirst'
  <2> SUFFICES ASSUME sc.via = "tcp" PROVE HelloFirst'
    BY <1>1 DEF SetupConn, HelloFirst
  <2>1. wire[Other(s)] = <<>> /\ ~ready[Other(s)]
    BY <1>1, OtherSide DEF SetupConn, HelloFirst
  <2>2. wire' = [wire EXCEPT ![Other(s)] = <<Hello>>]
    BY <1>1, <2>1, OtherSide DEF SetupConn, SendRaw, WireType
  <2> QED
    BY <1>1, <2>1, <2>2, OtherSide DEF SetupConn, HelloFirst, ConnType, WireType
<1>2. ASSUME NEW s \in Side, Punch(s) PROVE HelloFirst'
  BY <1>2 DEF Punch, HelloFirst
<1>3. ASSUME NEW s \in Side, NEW i \in DOMAIN wire[s],
             HandleHello(s, i) \/ HandleChat(s, i) \/ HandleRekey(s, i)
      PROVE  HelloFirst'
  <2>1. CASE HandleHello(s, i)
    BY <2>1, HelloReceive DEF HandleHello, ConnType
  <2>2. CASE HandleChat(s, i)
    BY <2>2, HelloReceive DEF HandleChat
  <2>3. CASE HandleRekey(s, i)
    BY <2>3, HelloReceive DEF HandleRekey, GoType
  <2> QED BY <1>3, <2>1, <2>2, <2>3
<1>4. ASSUME NEW s \in Side, AnswerRekey(s) PROVE HelloFirst'
  <2>1. Rekey(Fresh) \in Message /\ Rekey(Fresh).type # "hello"
    BY FreshType, MessageType DEF Rekey
  <2>2. sc.via = "tcp" => opened[s]
    BY <1>4 DEF AnswerRekey, HelloFirst, Idle
  <2> QED BY <1>4, <2>1, <2>2, HelloSend DEF AnswerRekey, GoType
<1>5. ASSUME NEW s \in Side, MixRekey(s) \/ StampRekey(s) PROVE HelloFirst'
  BY <1>5 DEF MixRekey, StampRekey, HelloFirst, Idle, GoType
<1>6. ASSUME NEW s \in Side, InitiateRekey(s) \/ StampBeat(s) PROVE HelloFirst'
  BY <1>6 DEF InitiateRekey, StampBeat, HelloFirst, Idle, GoType
<1>7. ASSUME NEW s \in Side, SendRekey(s) PROVE HelloFirst'
  <2>1. beat[s].pub \in Ephemeral
    BY <1>7 DEF SendRekey, GoType, BeatState, Idle
  <2>2. Rekey(beat[s].pub) \in Message /\ Rekey(beat[s].pub).type # "hello"
    BY <2>1, MessageType DEF Rekey
  <2>3. sc.via = "tcp" => opened[s]
    BY <1>7 DEF SendRekey, HelloFirst, Idle
  <2> QED BY <1>7, <2>2, <2>3, HelloSend DEF SendRekey, GoType
<1>8. ASSUME NEW s \in Side, TenMinutes(s) PROVE HelloFirst'
  BY <1>8, HelloStutters DEF TenMinutes
<1>9. ASSUME NEW s \in Side, ReadKey(s) PROVE HelloFirst'
  BY <1>9 DEF ReadKey, HelloFirst, GoType
<1>10. ASSUME NEW s \in Side, SendChat(s) PROVE HelloFirst'
  <2> DEFINE m == Chat(cli[s].key, Quiet /\ cli[s].key = key[s])
  <2>1. cli[s].key \in Key /\ (Quiet /\ cli[s].key = key[s]) \in BOOLEAN
    BY <1>10 DEF SendChat, GoType, CliState, Idle, Quiet
  <2>2. m \in Message /\ m.type # "hello"
    BY <2>1, MessageType DEF Chat
  <2>3. sc.via = "tcp" => opened[s]
    BY <1>10 DEF SendChat, HelloFirst, Idle
  <2> QED BY <1>10, <2>2, <2>3, HelloSend DEF SendChat, GoType
<1>11. CASE Redial
  BY <1>11, OtherSide DEF Redial, HelloFirst
<1>12. ASSUME NEW s \in Side, NEW i \in DOMAIN wire[s], Lose(s, i)
       PROVE  HelloFirst'
  BY <1>12 DEF Lose, HelloFirst
<1> QED
  BY <1>0, <1>1, <1>2, <1>3, <1>4, <1>5, <1>6, <1>7, <1>8, <1>9, <1>10, <1>11,
     <1>12 DEF Next, ReaderStep, BeatStep, CliStep

\* What MixKeys returns begins with the key it was given.
LEMMA MixExtends ==
  ASSUME NEW k \in Key, NEW x \in SUBSET Ephemeral
  PROVE  /\ Len(k) <= Len(MixKeys(k, x))
         /\ SubSeq(MixKeys(k, x), 1, Len(k)) = k
<1> DEFINE S == SUBSET Ephemeral
<1>1. k \in Seq(S)
  BY DEF Key
<1> HIDE DEF S
<1>2. x \in S
  BY DEF S
<1>3. Len(k) <= Len(Append(k, x)) /\ SubSeq(Append(k, x), 1, Len(k)) = k
  BY <1>1, <1>2
<1> QED BY <1>3 DEF MixKeys

\* A key that stays is an extension of itself.
LEMMA SameExtends ==
  ASSUME NEW k \in Key
  PROVE  Len(k) <= Len(k) /\ SubSeq(k, 1, Len(k)) = k
<1> DEFINE S == SUBSET Ephemeral
<1>1. k \in Seq(S)
  BY DEF Key
<1> HIDE DEF S
<1> QED BY <1>1

\* No step shortens or changes the beginning of the key of a TCP session.
LEMMA GrowStep ==
  ASSUME TypeOK, HelloFirst, [Next]_vars, NEW s \in Side,
         sc.via = "tcp", ready[s], drops' = drops
  PROVE  /\ ready'[s]
         /\ Len(key[s]) <= Len(key'[s])
         /\ SubSeq(key'[s], 1, Len(key[s])) = key[s]
<1> USE TypeGroups
<1>1. key[s] \in Key
  BY DEF KeyType
<1>2. ASSUME NEW t \in Side, NEW i \in DOMAIN wire[t], HandleHello(t, i)
      PROVE  ready'[s] /\ key'[s] = key[s]
  <2>1. ~ready[t]
    <3>1. i = 1 /\ wire[t][i].type = "hello"
      BY <1>2 DEF HandleHello, Receive, Readable
    <3> QED BY <3>1 DEF HelloFirst
  <2> QED BY <1>2, <2>1 DEF HandleHello, ConnType, KeyType
<1>3. ASSUME NEW t \in Side, MixRekey(t)
      PROVE  /\ ready'[s]
             /\ key'[s] = key[s] \/ key'[s] = MixKeys(key[s], reader[s].shared)
             /\ key'[s] # key[s] => reader[s].shared \in SUBSET Ephemeral
  BY <1>3 DEF MixRekey, KeyType, GoType, ReaderState, Idle
<1>4. ~Redial
  BY DEF Redial, CountType
<1>5. CASE UNCHANGED <<ready, key>>
  BY <1>1, <1>5, SameExtends
<1>6. UNCHANGED <<ready, key>> \/ (\E t \in Side : MixRekey(t))
      \/ (\E t \in Side : \E i \in DOMAIN wire[t] : HandleHello(t, i))
  BY <1>4 DEF Next, vars, SetupConn, Punch, ReaderStep, HandleChat, HandleRekey,
     AnswerRekey, StampRekey, BeatStep, InitiateRekey, SendRekey, StampBeat,
     CliStep, ReadKey, SendChat, TenMinutes, Lose
<1> QED BY <1>1, <1>2, <1>3, <1>5, <1>6, SameExtends, MixExtends

\* The connection starts before any hello.
LEMMA HelloInit == Init => HelloFirst
BY OtherSide DEF Init, HelloFirst

(* On a TCP connection the session key is only ever extended: the MsgHello  *)
(* handler, which sets it back to the static key, has run before there was  *)
(* a key, and MsgRekey appends; for any number of rekeys from either side.  *)
THEOREM KeyGrows == Spec => KeyOnlyGrows
<1> DEFINE A == \A s \in Side : sc.via = "tcp" /\ ready[s] /\ drops' = drops =>
                  /\ ready'[s]
                  /\ Len(key[s]) <= Len(key'[s])
                  /\ SubSeq(key'[s], 1, Len(key[s])) = key[s]
<1>1. Init => TypeOK /\ HelloFirst
  BY TypeInit, HelloInit
<1>2. TypeOK /\ HelloFirst /\ [Next]_vars => (TypeOK /\ HelloFirst)'
  BY TypeStep, HelloStep
<1>3. TypeOK /\ HelloFirst /\ [Next]_vars => [A]_vars
  BY GrowStep
<1> QED BY <1>1, <1>2, <1>3, PTL DEF Spec, KeyOnlyGrows
-----------------------------------------------------------------------------
\* Any message but a rekey written to a wire leaves the rekeys on it.
LEMMA RekeysSendOther ==
  ASSUME NEW w \in Seq(Message), NEW m \in Message, m.type # "rekey",
         NEW v, v = Append(w, m)
  PROVE  /\ NoRekey(w) => NoRekey(v)
         /\ \A e : OneRekey(w, e) => OneRekey(v, e)
         /\ \A f, g : TwoRekeys(w, f, g) => TwoRekeys(v, f, g)
<1>1. DOMAIN w \subseteq DOMAIN v /\ \A i \in DOMAIN w : v[i] = w[i]
  BY SeqAppend
<1>2. \A i \in DOMAIN v : v[i].type = "rekey" => i \in DOMAIN w /\ v[i] = w[i]
  BY SeqAppendEach
<1>3. NoRekey(w) => NoRekey(v)
  BY <1>2 DEF NoRekey
<1>4. ASSUME NEW e, OneRekey(w, e) PROVE OneRekey(v, e)
  BY <1>1, <1>2, <1>4 DEF OneRekey
<1>5. ASSUME NEW f, NEW g, TwoRekeys(w, f, g) PROVE TwoRekeys(v, f, g)
  <2>1. PICK i, k \in DOMAIN w :
          /\ i < k
          /\ w[i].type = "rekey" /\ w[i].pub = f
          /\ w[k].type = "rekey" /\ w[k].pub = g
          /\ \A j \in DOMAIN w : w[j].type = "rekey" => j = i \/ j = k
    BY <1>5 DEF TwoRekeys
  <2>2. \A j \in DOMAIN v : v[j].type = "rekey" => j = i \/ j = k
    BY <1>2, <2>1
  <2> QED BY <1>1, <2>1, <2>2 DEF TwoRekeys
<1> QED BY <1>3, <1>4, <1>5

\* A rekey written to a wire comes behind the one on it, if there is one.
LEMMA RekeysSendRekey ==
  ASSUME NEW w \in Seq(Message), NEW e \in Ephemeral,
         NEW v, v = Append(w, Rekey(e))
  PROVE  /\ NoRekey(w) => OneRekey(v, e)
         /\ \A f : OneRekey(w, f) => TwoRekeys(v, f, e)
<1> DEFINE n == Len(w) + 1
<1>0. Rekey(e) \in Message /\ Rekey(e).type = "rekey" /\ Rekey(e).pub = e
  BY MessageType DEF Rekey
<1>1. /\ DOMAIN w \subseteq DOMAIN v /\ \A i \in DOMAIN w : v[i] = w[i] /\ i < n
      /\ n \in DOMAIN v /\ v[n] = Rekey(e)
  BY <1>0, SeqAppend
<1>2. \A i \in DOMAIN v : i = n \/ (i \in DOMAIN w /\ v[i] = w[i])
  BY <1>0, SeqAppendEach
<1> HIDE DEF n
<1>3. NoRekey(w) => OneRekey(v, e)
  BY <1>0, <1>1, <1>2 DEF NoRekey, OneRekey
<1>4. ASSUME NEW f, OneRekey(w, f) PROVE TwoRekeys(v, f, e)
  <2>1. PICK i \in DOMAIN w :
          /\ w[i].type = "rekey" /\ w[i].pub = f
          /\ \A j \in DOMAIN w : w[j].type = "rekey" => j = i
    BY <1>4 DEF OneRekey
  <2>2. \A j \in DOMAIN v : v[j].type = "rekey" => j = i \/ j = n
    BY <1>2, <2>1
  <2> QED BY <1>0, <1>1, <2>1, <2>2 DEF TwoRekeys
<1> QED BY <1>3, <1>4

\* Where the messages of a wire are once message i is taken off it.
LEMMA RemoveMoves ==
  ASSUME NEW w \in Seq(Message), NEW i \in DOMAIN w, NEW v, v = RemoveAt(w, i),
         NEW k \in DOMAIN w, k # i
  PROVE  LET j == IF k < i THEN k ELSE k - 1 IN j \in DOMAIN v /\ v[j] = w[k]
<1> DEFINE j == IF k < i THEN k ELSE k - 1
<1>1. i \in 1..Len(w) /\ k \in 1..Len(w) /\ Len(w) \in Nat
      /\ DOMAIN v = 1..(Len(w) - 1)
  BY SeqRemove
<1>2. j \in 1..(Len(w) - 1)
  BY <1>1
<1>3. v[j] = IF j < i THEN w[j] ELSE w[j + 1]
  BY <1>2, SeqRemove
<1> QED BY <1>1, <1>2, <1>3

\* Any message but a rekey taken off a wire leaves the rekeys on it.
LEMMA RekeysTakeOther ==
  ASSUME NEW w \in Seq(Message), NEW i \in DOMAIN w, w[i].type # "rekey",
         NEW v, v = RemoveAt(w, i)
  PROVE  /\ NoRekey(w) => NoRekey(v)
         /\ \A e : OneRekey(w, e) => OneRekey(v, e)
         /\ \A f, g : TwoRekeys(w, f, g) => TwoRekeys(v, f, g)
<1> DEFINE old(j) == IF j < i THEN j ELSE j + 1
           new(k) == IF k < i THEN k ELSE k - 1
<1>1. \A j \in DOMAIN v : old(j) \in DOMAIN w /\ v[j] = w[old(j)] /\ old(j) # i
  BY SeqRemoveEach
<1>2. \A k \in DOMAIN w : k # i => new(k) \in DOMAIN v /\ v[new(k)] = w[k]
  BY RemoveMoves
<1>3. DOMAIN w \subseteq Nat /\ DOMAIN v \subseteq Nat /\ i \in Nat
  BY SeqRemove
<1>4. \A j \in DOMAIN v : new(old(j)) = j
  BY <1>3
<1>5. \A k, l \in DOMAIN w : k # i /\ l # i /\ k < l => new(k) < new(l)
  BY <1>3
<1> HIDE DEF old, new
<1>6. NoRekey(w) => NoRekey(v)
  BY <1>1 DEF NoRekey
<1>7. ASSUME NEW e, OneRekey(w, e) PROVE OneRekey(v, e)
  <2>1. PICK k \in DOMAIN w :
          /\ w[k].type = "rekey" /\ w[k].pub = e
          /\ \A j \in DOMAIN w : w[j].type = "rekey" => j = k
    BY <1>7 DEF OneRekey
  <2>2. new(k) \in DOMAIN v /\ v[new(k)] = w[k]
    BY <1>2, <2>1
  <2>3. \A j \in DOMAIN v : v[j].type = "rekey" => j = new(k)
    BY <1>1, <1>4, <2>1
  <2> QED BY <2>1, <2>2, <2>3 DEF OneRekey
<1>8. ASSUME NEW f, NEW g, TwoRekeys(w, f, g) PROVE TwoRekeys(v, f, g)
  <2>1. PICK k, l \in DOMAIN w :
          /\ k < l
          /\ w[k].type = "rekey" /\ w[k].pub = f
          /\ w[l].type = "rekey" /\ w[l].pub = g
          /\ \A j \in DOMAIN w : w[j].type = "rekey" => j = k \/ j = l
    BY <1>8 DEF TwoRekeys
  <2>2. /\ new(k) \in DOMAIN v /\ v[new(k)] = w[k]
        /\ new(l) \in DOMAIN v /\ v[new(l)] = w[l]
    BY <1>2, <2>1
  <2>3. new(k) < new(l)
    BY <1>5, <2>1
  <2>4. \A j \in DOMAIN v : v[j].type = "rekey" => j = new(k) \/ j = new(l)
    BY <1>1, <1>4, <2>1
  <2> QED BY <2>1, <2>2, <2>3, <2>4 DEF TwoRekeys
<1> QED BY <1>6, <1>7, <1>8

\* The rekey taken from the front of a wire is the first one on it.
LEMMA RekeysTakeRekey ==
  ASSUME NEW w \in Seq(Message), 1 \in DOMAIN w, w[1].type = "rekey",
         NEW v, v = RemoveAt(w, 1)
  PROVE  /\ ~NoRekey(w)
         /\ \A e : OneRekey(w, e) => w[1].pub = e /\ NoRekey(v)
         /\ \A f, g : TwoRekeys(w, f, g) => w[1].pub = f /\ OneRekey(v, g)
<1>0. DOMAIN w = 1..Len(w) /\ Len(w) \in Nat /\ DOMAIN v = 1..(Len(w) - 1)
  BY SeqRemove
<1>1. \A j \in DOMAIN v : j + 1 \in DOMAIN w /\ v[j] = w[j + 1] /\ j + 1 # 1
  <2> SUFFICES ASSUME NEW j \in DOMAIN v
               PROVE  j + 1 \in DOMAIN w /\ v[j] = w[j + 1] /\ j + 1 # 1
    OBVIOUS
  <2>1. ~(j < 1) /\ j \in Nat
    BY <1>0
  <2> QED BY <2>1, SeqRemoveEach
<1>2. ~NoRekey(w)
  BY DEF NoRekey
<1>3. ASSUME NEW e, OneRekey(w, e) PROVE w[1].pub = e /\ NoRekey(v)
  BY <1>1, <1>3 DEF OneRekey, NoRekey
<1>4. ASSUME NEW f, NEW g, TwoRekeys(w, f, g)
      PROVE  w[1].pub = f /\ OneRekey(v, g)
  <2>1. PICK k, l \in DOMAIN w :
          /\ k < l
          /\ w[k].type = "rekey" /\ w[k].pub = f
          /\ w[l].type = "rekey" /\ w[l].pub = g
          /\ \A j \in DOMAIN w : w[j].type = "rekey" => j = k \/ j = l
    BY <1>4 DEF TwoRekeys
  <2>2. k = 1 /\ l > 1 /\ l \in 1..Len(w)
    BY <1>0, <2>1
  <2>3. l - 1 \in DOMAIN v /\ v[l - 1] = w[l]
    BY <1>0, <1>1, <2>2
  <2>4. \A j \in DOMAIN v : v[j].type = "rekey" => j = l - 1
    BY <1>0, <1>1, <2>1, <2>2
  <2> QED BY <2>1, <2>2, <2>3, <2>4 DEF OneRekey
<1> QED BY <1>2, <1>3, <1>4
-----------------------------------------------------------------------------
\* A step that keeps what is on its way to each side.
WaysKept ==
  \A t \in Side :
    /\ ToNone(t) => ToNone(t)'
    /\ \A e \in Ephemeral : ToOne(t, e) => ToOne(t, e)'
    /\ \A f, g \in Ephemeral : ToTwo(t, f, g) => ToTwo(t, f, g)'

\* A step that keeps the rekeys on each wire.
WiresKept ==
  \A t \in Side :
    /\ NoRekey(wire[t]) => NoRekey(wire'[t])
    /\ \A e : OneRekey(wire[t], e) => OneRekey(wire'[t], e)
    /\ \A f, g : TwoRekeys(wire[t], f, g) => TwoRekeys(wire'[t], f, g)

\* A step that leaves every heartbeat that has still to write.
BeatsKept ==
  \A t \in Side : /\ Unsent(t)' <=> Unsent(t)
                  /\ Unsent(t) => beat'[t] = beat[t]

\* A step that keeps the slots, the keys to come and who has to answer what.
NodesKept ==
  /\ \A t \in Side :
       /\ slot'[t] = slot[t]
       /\ Coming(t)' = Coming(t)
       /\ Answering(t)' <=> Answering(t)
       /\ Answering(t) => reader'[t].theirs = reader[t].theirs
  /\ asked' = asked /\ answered' = answered

\* The ways are kept if the wires and the heartbeats are.
LEMMA WaysFromWires == WiresKept /\ BeatsKept => WaysKept
BY OtherSide DEF WiresKept, BeatsKept, WaysKept, ToNone, ToOne, ToTwo, Unsent, Sending

\* A step that keeps the ways and the nodes stays in its phase.
LEMMA PhaseKept ==
  ASSUME Phases, WaysKept, NodesKept
  PROVE  Phases'
<1>0. "dialer" \in Side /\ "acceptor" \in Side
  BY DEF Side
<1>1. CASE AtRest
  <2>1. AtRest'
    BY <1>0, <1>1 DEF AtRest, WaysKept, NodesKept
  <2> QED BY <2>1 DEF Phases
<1>2. ASSUME NEW s \in Side, NEW e \in Ephemeral, Asked(s, e) PROVE Phases'
  <2>1. Asked(s, e)'
    BY <1>2, OtherSide DEF Asked, WaysKept, NodesKept
  <2> QED BY <2>1 DEF Phases
<1>3. ASSUME NEW s \in Side, NEW e \in Ephemeral, NEW f \in Ephemeral,
             Replied(s, e, f)
      PROVE  Phases'
  <2>1. Replied(s, e, f)'
    BY <1>3, OtherSide DEF Replied, WaysKept, NodesKept
  <2> QED BY <2>1 DEF Phases
<1>4. ASSUME NEW s \in Side, NEW e \in Ephemeral, NEW f \in Ephemeral,
             Crossed(s, e, f)
      PROVE  Phases'
  <2>1. Crossed(s, e, f)'
    BY <1>4, OtherSide DEF Crossed, WaysKept, NodesKept
  <2> QED BY <2>1 DEF Phases
<1>5. ASSUME NEW s \in Side, NEW e \in Ephemeral, NEW f \in Ephemeral,
             NEW g \in Ephemeral, AskedAgain(s, e, f, g)
      PROVE  Phases'
  <2>1. AskedAgain(s, e, f, g)'
    BY <1>5, OtherSide DEF AskedAgain, WaysKept, NodesKept
  <2> QED BY <2>1 DEF Phases
<1> QED BY <1>1, <1>2, <1>3, <1>4, <1>5 DEF Phases

\* The wires are kept by a step that does not touch them.
LEMMA WiresIdle == wire' = wire => WiresKept
BY DEF WiresKept

\* The wires are kept by a write of anything but a rekey.
LEMMA WiresSend ==
  ASSUME TypeOK, NEW s \in Side, NEW m \in Message, m.type # "rekey", SendRaw(s, m)
  PROVE  WiresKept
<1> DEFINE o == Other(s)
<1>1. o \in Side /\ wire[o] \in Seq(Message)
  BY OtherSide DEF TypeOK
<1>2. /\ wire'[o] = Append(wire[o], m)
      /\ \A t \in Side : t # o => wire'[t] = wire[t]
  BY <1>1 DEF SendRaw, TypeOK
<1> HIDE DEF o
<1>3. /\ NoRekey(wire[o]) => NoRekey(wire'[o])
      /\ \A e : OneRekey(wire[o], e) => OneRekey(wire'[o], e)
      /\ \A f, g : TwoRekeys(wire[o], f, g) => TwoRekeys(wire'[o], f, g)
  BY <1>1, <1>2, RekeysSendOther
<1> QED BY <1>2, <1>3 DEF WiresKept

\* The wires are kept when anything but a rekey is taken off them.
LEMMA WiresTake ==
  ASSUME TypeOK, NEW s \in Side, NEW i \in DOMAIN wire[s],
         wire[s][i].type # "rekey",
         wire' = [wire EXCEPT ![s] = RemoveAt(@, i)]
  PROVE  WiresKept
<1>1. wire[s] \in Seq(Message)
  BY DEF TypeOK
<1>2. /\ wire'[s] = RemoveAt(wire[s], i)
      /\ \A t \in Side : t # s => wire'[t] = wire[t]
  BY DEF TypeOK
<1>3. /\ NoRekey(wire[s]) => NoRekey(wire'[s])
      /\ \A e : OneRekey(wire[s], e) => OneRekey(wire'[s], e)
      /\ \A f, g : TwoRekeys(wire[s], f, g) => TwoRekeys(wire'[s], f, g)
  BY <1>1, <1>2, RekeysTakeOther
<1> QED BY <1>2, <1>3 DEF WiresKept

\* The nodes are kept by a step that touches neither keys, slots nor readers.
LEMMA NodesIdle ==
  UNCHANGED <<slot, key, reader, asked, answered>> => NodesKept
BY DEF NodesKept, Coming, Answering

\* The heartbeats are kept by a step that does not touch them.
LEMMA BeatsIdle == beat' = beat => BeatsKept
BY DEF BeatsKept, Unsent

\* Two crossed requests look the same from both sides.
LEMMA CrossedFromBoth ==
  ASSUME NEW s \in Side, NEW e, NEW f, Crossed(s, e, f)
  PROVE  Crossed(Other(s), f, e)
BY OtherSide DEF Crossed

\* initiateRekey without an upset begins an exchange, or crosses one.
LEMMA InitiatePhase ==
  ASSUME TypeOK, Phases, NEW s \in Side, InitiateRekey(s), upset' = {}
  PROVE  Phases'
<1>0. PICK o \in Side : /\ o = Other(s) /\ o # s /\ Other(o) = s
                        /\ \A t \in Side : t = s \/ t = o
  BY OtherSide
<1>1. PICK e \in Ephemeral : e = Fresh
  BY FreshType, TypeGroups
<1>2. slot[s] = {} /\ ~Answering(s) /\ ~Unsent(s)
  BY DEF InitiateRekey, Answering, Unsent, Idle
<1>3. slot'[s] = {e} /\ slot'[o] = slot[o]
  BY <1>0, <1>1 DEF InitiateRekey, TypeOK
<1>4. /\ beat'[s].at = "send" /\ beat'[s].pub = e
      /\ beat'[o] = beat[o]
  BY <1>0, <1>1 DEF InitiateRekey, TypeOK
<1>5. /\ wire' = wire /\ asked' = asked + 1 /\ answered' = answered
      /\ asked \in Nat /\ answered \in Nat
  BY DEF InitiateRekey, TypeOK
<1>6. \A t \in Side : (Answering(t)' <=> Answering(t)) /\ Coming(t)' = Coming(t)
  BY DEF InitiateRekey, Answering, Coming
<1>7. /\ ToNone(s) => ToNone(s)'
      /\ \A x : ToOne(s, x) => ToOne(s, x)'
  BY <1>0, <1>4, <1>5 DEF ToNone, ToOne, Unsent, Sending
<1>8. /\ ToNone(o) => ToOne(o, e)'
      /\ \A x : ToOne(o, x) => ToTwo(o, x, e)'
  BY <1>0, <1>2, <1>4, <1>5 DEF ToNone, ToOne, ToTwo, Unsent, Sending
<1>9. CASE AtRest
  <2>1. Asked(s, e)'
    BY <1>0, <1>3, <1>5, <1>6, <1>7, <1>8, <1>9, <1>2 DEF AtRest, Asked, Side
  <2> QED BY <1>1, <2>1 DEF Phases
<1>10. ASSUME NEW t \in Side, NEW x \in Ephemeral, Asked(t, x) PROVE Phases'
  <2>1. t = o
    BY <1>0, <1>2, <1>10 DEF Asked
  <2>2. /\ slot[o] = {x} /\ ToNone(o) /\ ~Answering(o) /\ ToOne(s, x)
        /\ Coming(o) = Coming(s) /\ answered + 1 <= asked
    BY <1>0, <1>2, <1>10, <2>1 DEF Asked
  <2>3. Crossed(s, e, x)'
    BY <1>0, <1>2, <1>3, <1>5, <1>6, <1>7, <1>8, <2>2 DEF Crossed
  <2> QED BY <1>1, <2>3 DEF Phases
<1>11. ASSUME NEW t \in Side, NEW x \in Ephemeral, NEW f \in Ephemeral,
              Replied(t, x, f)
       PROVE  Phases'
  <2>1. t = o
    BY <1>0, <1>2, <1>11 DEF Replied
  <2>2. /\ slot[o] = {x} /\ ToOne(o, f) /\ ToNone(s) /\ ~Answering(o)
        /\ Coming(s) = MixKeys(Coming(o), {x, f}) /\ answered <= asked
    BY <1>0, <1>11, <2>1 DEF Replied
  <2>3. AskedAgain(o, x, f, e)'
    BY <1>0, <1>2, <1>3, <1>5, <1>6, <1>7, <1>8, <2>2 DEF AskedAgain
  <2> QED BY <1>0, <1>1, <2>3 DEF Phases
<1>12. ASSUME NEW t \in Side, NEW x \in Ephemeral, NEW f \in Ephemeral,
              NEW g \in Ephemeral, Crossed(t, x, f) \/ AskedAgain(t, x, f, g)
       PROVE  FALSE
  BY <1>0, <1>2, <1>12 DEF Crossed, AskedAgain
<1> QED BY <1>9, <1>10, <1>11, <1>12 DEF Phases

\* MsgRekey without a slot: the answer turns a request into a reply.
LEMMA AnswerPhase ==
  ASSUME TypeOK, Phases, NEW s \in Side, AnswerRekey(s)
  PROVE  Phases'
<1>0. PICK o \in Side : /\ o = Other(s) /\ o # s /\ Other(o) = s
                        /\ \A t \in Side : t = s \/ t = o
  BY OtherSide
<1>1. PICK f \in Ephemeral : f = Fresh
  BY FreshType, TypeGroups
<1>2. Answering(s) /\ Coming(s) = key[s]
  BY DEF AnswerRekey, Answering, Coming
<1>3. /\ reader'[s].at = "mix" /\ reader'[s].shared = ECDH(f, reader[s].theirs)
      /\ reader'[o] = reader[o]
  BY <1>0, <1>1 DEF AnswerRekey, TypeOK
<1>4. /\ wire'[o] = Append(wire[o], Rekey(f)) /\ wire'[s] = wire[s]
      /\ wire[o] \in Seq(Message)
  BY <1>0, <1>1 DEF AnswerRekey, SendRaw, TypeOK
<1>5. /\ UNCHANGED <<slot, key, beat, asked>> /\ answered' = answered + 1
      /\ asked \in Nat /\ answered \in Nat
  BY DEF AnswerRekey, TypeOK
<1>6. ToNone(s) => ToNone(s)'
  BY <1>0, <1>4, <1>5 DEF ToNone, Unsent
<1>7. ToNone(o) => ToOne(o, f)'
  BY <1>0, <1>1, <1>4, <1>5, RekeysSendRekey DEF ToNone, ToOne, Unsent
<1>8. /\ ~Answering(s)' /\ (Answering(o)' <=> Answering(o))
      /\ Coming(o)' = Coming(o)
      /\ Coming(s)' = MixKeys(Coming(s), {f, reader[s].theirs})
  BY <1>2, <1>3, <1>5 DEF Answering, Coming, ECDH
<1>9. ASSUME NEW t \in Side, NEW x \in Ephemeral, Asked(t, x) PROVE Phases'
  <2>1. t = o
    BY <1>0, <1>2, <1>9 DEF Asked
  <2>2. /\ slot[o] = {x} /\ slot[s] = {} /\ ToNone(o) /\ ~Answering(o)
        /\ ToNone(s) /\ reader[s].theirs = x
        /\ Coming(o) = Coming(s) /\ answered + 1 <= asked
    BY <1>0, <1>2, <1>9, <2>1 DEF Asked
  <2>3. {f, reader[s].theirs} = {x, f}
    BY <2>2
  <2>4. Replied(o, x, f)'
    BY <1>0, <1>5, <1>6, <1>7, <1>8, <2>2, <2>3 DEF Replied
  <2> QED BY <1>0, <1>1, <2>4 DEF Phases
<1>10. ~AtRest
  BY <1>2 DEF AtRest
<1>11. ASSUME NEW t \in Side, NEW x \in Ephemeral, NEW y \in Ephemeral,
              NEW g \in Ephemeral,
              Replied(t, x, y) \/ Crossed(t, x, y) \/ AskedAgain(t, x, y, g)
       PROVE  FALSE
  BY <1>0, <1>2, <1>11 DEF Replied, Crossed, AskedAgain
<1> QED BY <1>9, <1>10, <1>11 DEF Phases

(* MsgRekey without an upset takes the first ephemeral on its way: a        *)
(* request to answer, or what completes an exchange.                        *)
LEMMA TakePhase ==
  ASSUME TypeOK, Phases, NEW s \in Side, NEW i \in DOMAIN wire[s],
         HandleRekey(s, i), upset' = {}
  PROVE  Phases'
<1>0. PICK o \in Side : /\ o = Other(s) /\ o # s /\ Other(o) = s
                        /\ \A t \in Side : t = s \/ t = o
  BY OtherSide
<1>1. wire[s] \in Seq(Message) /\ wire[s][i] \in Message /\ i \in Nat /\ i >= 1
  BY DEF TypeOK
<1>2. ready[s] /\ i = 1 /\ 1 \in DOMAIN wire[s] /\ wire[s][1].type = "rekey"
  <2>1. Reordered(s, i) = {} /\ NoKey(s) = {} /\ wire[s][i].type = "rekey"
    BY DEF HandleRekey, Receive
  <2>2. ~(i > 1) /\ ready[s]
    BY <2>1 DEF Reordered, NoKey
  <2>3. i = 1
    BY <1>1, <2>2
  <2> QED BY <2>1, <2>2, <2>3
<1>3. PICK p \in Ephemeral : p = wire[s][1].pub
  BY <1>1, <1>2 DEF Message, Hello
<1>4. wire'[s] = RemoveAt(wire[s], 1) /\ wire'[o] = wire[o]
  BY <1>0, <1>2 DEF HandleRekey, Receive, TypeOK
<1>5. /\ ~NoRekey(wire[s])
      /\ \A e : OneRekey(wire[s], e) => p = e /\ NoRekey(wire'[s])
      /\ \A f, g : TwoRekeys(wire[s], f, g) => p = f /\ OneRekey(wire'[s], g)
  BY <1>1, <1>2, <1>3, <1>4, RekeysTakeRekey
<1>6. /\ UNCHANGED <<key, beat, asked, answered>>
      /\ reader'[o] = reader[o] /\ slot'[o] = slot[o]
  BY <1>0 DEF HandleRekey, TypeOK
<1>7. ~Answering(s) /\ Coming(s) = key[s]
  BY DEF HandleRekey, Receive, Answering, Coming, Idle
<1>8. /\ Answering(o)' <=> Answering(o)
      /\ Coming(o)' = Coming(o)
  BY <1>6 DEF Answering, Coming
<1>9. /\ ToNone(o) => ToNone(o)'
      /\ \A e : ToOne(o, e) => ToOne(o, e)'
  BY <1>0, <1>4, <1>6 DEF ToNone, ToOne, Unsent, Sending
<1>10. /\ ~ToNone(s)
       /\ \A e : ToOne(s, e) => p = e /\ ToNone(s)'
       /\ \A f, g : ToTwo(s, f, g) => p = f /\ ToOne(s, g)'
  BY <1>0, <1>5, <1>6 DEF ToNone, ToOne, ToTwo, Unsent, Sending
<1>11. CASE slot[s] = {}
  <2>1. /\ slot'[s] = {} /\ Answering(s)' /\ reader'[s].theirs = p
        /\ Coming(s)' = Coming(s)
    BY <1>2, <1>3, <1>6, <1>7, <1>11 DEF HandleRekey, TypeOK, Answering, Coming
  <2>2. ASSUME NEW t \in Side, NEW x \in Ephemeral, Asked(t, x) PROVE Phases'
    <3>1. t = o
      BY <1>0, <1>11, <2>2 DEF Asked
    <3>2. /\ slot[o] = {x} /\ ToNone(o) /\ ~Answering(o) /\ ToOne(s, x)
          /\ Coming(o) = Coming(s) /\ answered + 1 <= asked
      BY <1>0, <1>10, <2>2, <3>1 DEF Asked
    <3>3. Asked(o, x)'
      BY <1>0, <1>6, <1>8, <1>9, <1>10, <2>1, <3>2 DEF Asked
    <3> QED BY <1>0, <3>3 DEF Phases
  <2>3. ~AtRest
    BY <1>10 DEF AtRest
  <2>4. ASSUME NEW t \in Side, NEW x \in Ephemeral, NEW y \in Ephemeral,
               NEW g \in Ephemeral,
               Replied(t, x, y) \/ Crossed(t, x, y) \/ AskedAgain(t, x, y, g)
        PROVE  FALSE
    BY <1>0, <1>10, <1>11, <2>4 DEF Replied, Crossed, AskedAgain
  <2> QED BY <2>2, <2>3, <2>4 DEF Phases
<1>12. CASE slot[s] # {}
  <2>1. slot'[s] = {} /\ ~Answering(s)'
    BY <1>2, <1>12 DEF HandleRekey, TypeOK, Answering
  <2>2. ASSUME NEW e, slot[s] = {e}
        PROVE  Coming(s)' = MixKeys(Coming(s), {e, p})
    <3>1. (CHOOSE x \in slot[s] : TRUE) = e
      BY <2>2
    <3>2. reader'[s] = [at |-> "mix", shared |->
                          ECDH(CHOOSE x \in slot[s] : TRUE, wire[s][i].pub)]
      BY <1>2, <1>12 DEF HandleRekey, TypeOK
    <3>3. ECDH(CHOOSE x \in slot[s] : TRUE, wire[s][i].pub) = {e, p}
      BY <1>2, <1>3, <3>1 DEF ECDH
    <3> QED BY <1>6, <1>7, <3>2, <3>3 DEF Coming
  <2>3. ~AtRest
    BY <1>12 DEF AtRest
  <2>4. ASSUME NEW t \in Side, NEW x \in Ephemeral, Asked(t, x) PROVE FALSE
    BY <1>0, <1>10, <1>12, <2>4 DEF Asked
  <2>5. ASSUME NEW t \in Side, NEW e \in Ephemeral, NEW f \in Ephemeral,
               Replied(t, e, f)
        PROVE  Phases'
    <3>1. t = s
      BY <1>0, <1>12, <2>5 DEF Replied
    <3>2. /\ slot[s] = {e} /\ slot[o] = {} /\ ToOne(s, f) /\ ToNone(o)
          /\ ~Answering(o) /\ Coming(o) = MixKeys(Coming(s), {e, f})
          /\ answered <= asked
      BY <1>0, <2>5, <3>1 DEF Replied
    <3>3. p = f /\ ToNone(s)'
      BY <1>10, <3>2
    <3>4. Coming(s)' = Coming(o)'
      BY <1>8, <2>2, <3>2, <3>3
    <3>5. Coming("dialer")' = Coming("acceptor")'
      BY <1>0, <3>4 DEF Side
    <3>6. AtRest'
      BY <1>0, <1>6, <1>8, <1>9, <2>1, <3>2, <3>3, <3>5 DEF AtRest
    <3> QED BY <3>6 DEF Phases
  <2>6. ASSUME NEW e \in Ephemeral, NEW f \in Ephemeral, Crossed(s, e, f)
        PROVE  Phases'
    <3>1. /\ slot[s] = {e} /\ slot[o] = {f} /\ ToOne(s, f) /\ ToOne(o, e)
          /\ ~Answering(o) /\ Coming(s) = Coming(o) /\ answered + 2 <= asked
      BY <1>0, <2>6 DEF Crossed
    <3>2. p = f /\ ToNone(s)'
      BY <1>10, <3>1
    <3>3. {e, p} = {f, e}
      BY <3>2
    <3>4. Coming(s)' = MixKeys(Coming(o)', {f, e})
      BY <1>8, <2>2, <3>1, <3>3
    <3>5. answered' <= asked'
      BY <1>6, <3>1 DEF TypeOK
    <3>6. Replied(o, f, e)'
      BY <1>0, <1>6, <1>8, <1>9, <2>1, <3>1, <3>2, <3>4, <3>5 DEF Replied
    <3> QED BY <1>0, <3>6 DEF Phases
  <2>7. ASSUME NEW t \in Side, NEW e \in Ephemeral, NEW f \in Ephemeral,
               Crossed(t, e, f)
        PROVE  Phases'
    BY <1>0, <2>6, <2>7, CrossedFromBoth
  <2>8. ASSUME NEW t \in Side, NEW e \in Ephemeral, NEW f \in Ephemeral,
               NEW g \in Ephemeral, AskedAgain(t, e, f, g)
        PROVE  Phases'
    <3>1. t = s
      BY <1>0, <1>10, <2>8 DEF AskedAgain
    <3>2. /\ slot[s] = {e} /\ slot[o] = {g} /\ ToTwo(s, f, g) /\ ToNone(o)
          /\ ~Answering(o) /\ Coming(o) = MixKeys(Coming(s), {e, f})
          /\ answered + 1 <= asked
      BY <1>0, <2>8, <3>1 DEF AskedAgain
    <3>3. p = f /\ ToOne(s, g)'
      BY <1>10, <3>2
    <3>4. Coming(s)' = Coming(o)'
      BY <1>8, <2>2, <3>2, <3>3
    <3>5. Asked(o, g)'
      BY <1>0, <1>6, <1>8, <1>9, <2>1, <3>2, <3>3, <3>4 DEF Asked
    <3> QED BY <1>0, <3>5 DEF Phases
  <2> QED BY <2>3, <2>4, <2>5, <2>7, <2>8 DEF Phases
<1> QED BY <1>11, <1>12

\* initiateRekey's write moves the ephemeral from the heartbeat to the wire.
LEMMA SendRekeyWays ==
  ASSUME TypeOK, NEW s \in Side, SendRekey(s)
  PROVE  WaysKept
<1>0. PICK o \in Side : /\ o = Other(s) /\ o # s /\ Other(o) = s
                        /\ \A t \in Side : t = s \/ t = o
  BY OtherSide
<1>1. PICK e \in Ephemeral : e = beat[s].pub
  <2>1. beat[s] \in BeatState /\ beat[s].at = "send"
    BY DEF SendRekey, TypeOK
  <2> QED BY <2>1 DEF BeatState, Idle
<1>2. /\ wire'[o] = Append(wire[o], Rekey(e)) /\ wire'[s] = wire[s]
      /\ wire[o] \in Seq(Message)
  BY <1>0, <1>1 DEF SendRekey, SendRaw, TypeOK
<1>3. /\ Unsent(s) /\ ~Unsent(s)' /\ beat'[o] = beat[o]
      /\ \A x : Sending(s, x) => x = e
  BY <1>0, <1>1 DEF SendRekey, Unsent, Sending, TypeOK
<1>4. /\ NoRekey(wire[o]) => OneRekey(wire'[o], e)
      /\ \A f : OneRekey(wire[o], f) => TwoRekeys(wire'[o], f, e)
  BY <1>2, RekeysSendRekey
<1>5. /\ ToNone(o) => ToNone(o)'
      /\ \A x \in Ephemeral : ToOne(o, x) => ToOne(o, x)'
      /\ \A f, g \in Ephemeral : ToTwo(o, f, g) => ToTwo(o, f, g)'
  BY <1>0, <1>3, <1>4 DEF ToNone, ToOne, ToTwo
<1>6. /\ ToNone(s) => ToNone(s)'
      /\ \A x \in Ephemeral : ToOne(s, x) => ToOne(s, x)'
      /\ \A f, g \in Ephemeral : ToTwo(s, f, g) => ToTwo(s, f, g)'
  BY <1>0, <1>2, <1>3 DEF ToNone, ToOne, ToTwo, Unsent, Sending
<1> QED BY <1>0, <1>5, <1>6 DEF WaysKept

\* A connection dialled again without a stale slot is at rest.
LEMMA RedialPhase ==
  ASSUME TypeOK, Redial, upset' = {}
  PROVE  Phases'
<1>1. \A t \in Side : slot'[t] = {} /\ wire'[t] = <<>> /\ key'[t] = <<>>
  BY DEF Redial, TypeOK, Side
<1>2. \A t \in Side : reader'[t] = Idle /\ beat'[t] = Idle
  BY DEF Redial
<1>3. \A t \in Side : ToNone(t)' /\ ~Answering(t)' /\ Coming(t)' = <<>>
  BY <1>1, <1>2, OtherSide DEF ToNone, NoRekey, Unsent, Answering, Coming, Idle
<1>4. answered' <= asked'
  BY DEF Redial
<1>5. AtRest'
  BY <1>1, <1>3, <1>4 DEF AtRest, Side
<1> QED BY <1>5 DEF Phases
-----------------------------------------------------------------------------
\* A step that leaves a node's key, reader and wire alone keeps its chats.
LEMMA AheadSame ==
  ASSUME NEW t \in Side, Ahead(t),
         wire'[t] = wire[t], key'[t] = key[t], reader'[t] = reader[t]
  PROVE  Ahead(t)'
BY DEF Ahead

\* While the reader handles a rekey there is no quiet chat to keep.
LEMMA AheadBusy ==
  ASSUME NEW t \in Side, Ahead(t), reader[t] # Idle, wire'[t] = wire[t]
  PROVE  Ahead(t)'
BY DEF Ahead

\* What is written behind the chats of a wire keeps them.
LEMMA AheadSend ==
  ASSUME NEW t \in Side, Ahead(t), wire[t] \in Seq(Message), NEW m \in Message,
         wire'[t] = Append(wire[t], m), key'[t] = key[t], reader'[t] = reader[t],
         QuietChat(m) => /\ m.key = key[t] /\ reader[t] = Idle
                         /\ NoRekey(wire[t])
  PROVE  Ahead(t)'
<1> SUFFICES ASSUME NEW i \in DOMAIN wire'[t], QuietChat(wire'[t][i])
             PROVE  /\ wire'[t][i].key = key'[t] /\ reader'[t] = Idle
                    /\ \A j \in 1..i : wire'[t][j].type # "rekey"
  BY DEF Ahead, QuietChat
<1>0. /\ DOMAIN wire[t] = 1..Len(wire[t]) /\ Len(wire[t]) \in Nat
      /\ DOMAIN wire'[t] = 1..(Len(wire[t]) + 1)
      /\ \A j \in DOMAIN wire[t] : wire'[t][j] = wire[t][j]
      /\ wire'[t][Len(wire[t]) + 1] = m
  BY SeqAppend
<1>1. CASE i \in DOMAIN wire[t]
  <2>1. \A j \in 1..i : j \in DOMAIN wire[t]
    BY <1>0, <1>1
  <2> QED BY <1>0, <1>1, <2>1 DEF Ahead
<1>2. CASE i \notin DOMAIN wire[t]
  <2>1. i = Len(wire[t]) + 1 /\ wire'[t][i] = m
    BY <1>0, <1>2
  <2>2. ASSUME NEW j \in 1..i PROVE wire'[t][j].type # "rekey"
    <3>1. CASE j = i
      BY <2>1, <3>1 DEF QuietChat
    <3>2. CASE j # i
      <4>1. j \in DOMAIN wire[t]
        BY <1>0, <2>1, <3>2
      <4> QED BY <1>0, <2>1, <4>1 DEF NoRekey
    <3> QED BY <3>1, <3>2
  <2> QED BY <2>1, <2>2
<1> QED BY <1>1, <1>2

\* What is taken off a wire keeps the chats that are left.
LEMMA AheadTake ==
  ASSUME NEW t \in Side, Ahead(t), wire[t] \in Seq(Message),
         NEW i \in DOMAIN wire[t], wire'[t] = RemoveAt(wire[t], i),
         \/ key'[t] = key[t] /\ reader'[t] = reader[t]
         \/ wire[t][1].type = "rekey"
  PROVE  Ahead(t)'
<1> SUFFICES ASSUME NEW j \in DOMAIN wire'[t], QuietChat(wire'[t][j])
             PROVE  /\ wire'[t][j].key = key'[t] /\ reader'[t] = Idle
                    /\ \A l \in 1..j : wire'[t][l].type # "rekey"
  BY DEF Ahead, QuietChat
<1> DEFINE old(l) == IF l < i THEN l ELSE l + 1
<1>1. \A l \in DOMAIN wire'[t] :
        old(l) \in DOMAIN wire[t] /\ wire'[t][l] = wire[t][old(l)]
  BY SeqRemoveEach
<1>2. /\ DOMAIN wire[t] = 1..Len(wire[t]) /\ Len(wire[t]) \in Nat
      /\ DOMAIN wire'[t] = 1..(Len(wire[t]) - 1) /\ i \in 1..Len(wire[t])
  BY SeqRemove
<1>3. \A l \in 1..j : l \in DOMAIN wire'[t] /\ old(l) \in 1..old(j)
  BY <1>2
<1>4. 1 \in 1..old(j)
  BY <1>2
<1> HIDE DEF old
<1>5. QuietChat(wire[t][old(j)]) /\ old(j) \in DOMAIN wire[t]
  BY <1>1
<1>6. /\ wire[t][old(j)].key = key[t] /\ reader[t] = Idle
      /\ \A l \in 1..old(j) : wire[t][l].type # "rekey"
  BY <1>5 DEF Ahead
<1>7. \A l \in 1..j : wire'[t][l].type # "rekey"
  BY <1>1, <1>3, <1>6
<1>8. key'[t] = key[t] /\ reader'[t] = reader[t]
  BY <1>4, <1>6
<1> QED BY <1>1, <1>6, <1>7, <1>8
-----------------------------------------------------------------------------
\* Only a redial forgets what has upset the connection.
LEMMA UpsetGrows == [Next]_vars /\ ~Redial => upset \subseteq upset'
BY DEF Next, vars, SetupConn, Punch, ReaderStep, HandleHello, HandleChat,
   HandleRekey, AnswerRekey, MixRekey, StampRekey, BeatStep, InitiateRekey,
   SendRekey, StampBeat, CliStep, ReadKey, SendChat, TenMinutes, Lose

\* Every step keeps the static key until the first hello.
LEMMA KeyAfterHelloStep ==
  TypeOK /\ KeyAfterHello /\ [Next]_vars => KeyAfterHello'
<1> SUFFICES ASSUME TypeOK, KeyAfterHello, [Next]_vars PROVE KeyAfterHello'
  OBVIOUS
<1>0. /\ ready \in [Side -> BOOLEAN] /\ key \in [Side -> Key]
      /\ reader \in [Side -> ReaderState]
  BY DEF TypeOK
<1>1. ASSUME NEW s \in Side, NEW i \in DOMAIN wire[s],
             HandleHello(s, i) \/ HandleChat(s, i) \/ HandleRekey(s, i)
      PROVE  KeyAfterHello'
  BY <1>0, <1>1 DEF HandleHello, HandleChat, HandleRekey, KeyAfterHello
<1>2. ASSUME NEW s \in Side, AnswerRekey(s) \/ MixRekey(s) \/ StampRekey(s)
      PROVE  KeyAfterHello'
  <2>1. ready[s]
    BY <1>2 DEF AnswerRekey, MixRekey, StampRekey, KeyAfterHello, Idle
  <2> QED
    BY <1>0, <1>2, <2>1 DEF AnswerRekey, MixRekey, StampRekey, KeyAfterHello
<1>3. CASE Redial
  BY <1>3 DEF Redial, KeyAfterHello
<1>4. CASE UNCHANGED <<ready, key, reader>>
  BY <1>4 DEF KeyAfterHello
<1> QED
  BY <1>1, <1>2, <1>3, <1>4
  DEF Next, vars, SetupConn, Punch, ReaderStep, BeatStep, InitiateRekey,
      SendRekey, StampBeat, CliStep, ReadKey, SendChat, TenMinutes, Lose

\* A hello that upsets nothing sets a key to what it was.
LEMMA HelloKeepsKey ==
  ASSUME TypeOK, KeyAfterHello, NEW s \in Side, NEW i \in DOMAIN wire[s],
         HandleHello(s, i), upset' = {}
  PROVE  key' = key
<1>1. key[s] = <<>>
  BY DEF HandleHello, KeyAfterHello
<1> QED BY <1>1 DEF HandleHello, TypeOK

\* Every step of a connection that is not upset stays in a phase or moves on.
LEMMA PhaseStep ==
  TypeOK /\ KeyAfterHello /\ PhaseInv /\ [Next]_vars => PhaseInv'
<1> SUFFICES ASSUME TypeOK, KeyAfterHello, PhaseInv, [Next]_vars, upset' = {}
             PROVE  Phases'
  BY DEF PhaseInv
<1> USE TypeGroups
<1>0. CASE Redial
  BY <1>0, RedialPhase
<1> SUFFICES ASSUME ~Redial PROVE Phases'
  BY <1>0
<1>1. Phases
  BY UpsetGrows DEF PhaseInv
<1>2. CASE UNCHANGED vars
  BY <1>1, <1>2, PhaseKept, WaysFromWires, WiresIdle, BeatsIdle, NodesIdle DEF vars
<1>3. ASSUME NEW s \in Side, SetupConn(s) \/ Punch(s) PROVE Phases'
  <2>1. Hello \in Message /\ Hello.type # "rekey"
    BY MessageType DEF Hello
  <2>2. WiresKept
    BY <1>3, <2>1, WiresSend DEF SetupConn, Punch
  <2>3. BeatsKept /\ NodesKept
    BY <1>3, BeatsIdle, NodesIdle DEF SetupConn, Punch
  <2> QED BY <1>1, <2>2, <2>3, PhaseKept, WaysFromWires
<1>4. ASSUME NEW s \in Side, NEW i \in DOMAIN wire[s], HandleHello(s, i)
      PROVE  Phases'
  <2>1. WiresKept
    BY <1>4, WiresTake DEF HandleHello, Receive
  <2>2. key' = key
    BY <1>4, HelloKeepsKey
  <2>3. BeatsKept /\ NodesKept
    BY <1>4, <2>2, BeatsIdle, NodesIdle DEF HandleHello
  <2> QED BY <1>1, <2>1, <2>3, PhaseKept, WaysFromWires
<1>5. ASSUME NEW s \in Side, NEW i \in DOMAIN wire[s], HandleChat(s, i)
      PROVE  Phases'
  <2>1. WiresKept
    BY <1>5, WiresTake DEF HandleChat, Receive
  <2>2. BeatsKept /\ NodesKept
    BY <1>5, BeatsIdle, NodesIdle DEF HandleChat
  <2> QED BY <1>1, <2>1, <2>2, PhaseKept, WaysFromWires
<1>6. ASSUME NEW s \in Side, NEW i \in DOMAIN wire[s], HandleRekey(s, i)
      PROVE  Phases'
  BY <1>1, <1>6, TakePhase
<1>7. ASSUME NEW s \in Side, AnswerRekey(s) PROVE Phases'
  BY <1>1, <1>7, AnswerPhase
<1>8. ASSUME NEW s \in Side, MixRekey(s) \/ StampRekey(s) PROVE Phases'
  <2>1. NodesKept
    BY <1>8 DEF MixRekey, StampRekey, NodesKept, Coming, Answering, Idle,
                KeyType, GoType
  <2>2. WiresKept /\ BeatsKept
    BY <1>8, WiresIdle, BeatsIdle DEF MixRekey, StampRekey
  <2> QED BY <1>1, <2>1, <2>2, PhaseKept, WaysFromWires
<1>9. ASSUME NEW s \in Side, InitiateRekey(s) PROVE Phases'
  BY <1>1, <1>9, InitiatePhase
<1>10. ASSUME NEW s \in Side, SendRekey(s) PROVE Phases'
  <2>1. NodesKept
    BY <1>10, NodesIdle DEF SendRekey
  <2> QED BY <1>1, <1>10, <2>1, SendRekeyWays, PhaseKept
<1>11. ASSUME NEW s \in Side, StampBeat(s) PROVE Phases'
  <2>1. BeatsKept
    BY <1>11 DEF StampBeat, BeatsKept, Unsent, Idle, GoType
  <2>2. WiresKept /\ NodesKept
    BY <1>11, WiresIdle, NodesIdle DEF StampBeat
  <2> QED BY <1>1, <2>1, <2>2, PhaseKept, WaysFromWires
<1>12. ASSUME NEW s \in Side, TenMinutes(s) \/ ReadKey(s) PROVE Phases'
  BY <1>1, <1>12, PhaseKept, WaysFromWires, WiresIdle, BeatsIdle, NodesIdle
  DEF TenMinutes, ReadKey
<1>13. ASSUME NEW s \in Side, SendChat(s) PROVE Phases'
  <2> DEFINE m == Chat(cli[s].key, Quiet /\ cli[s].key = key[s])
  <2>1. cli[s].key \in Key /\ (Quiet /\ cli[s].key = key[s]) \in BOOLEAN
    BY <1>13 DEF SendChat, GoType, CliState, Idle, Quiet
  <2>2. m \in Message /\ m.type # "rekey"
    BY <2>1, MessageType DEF Chat
  <2>3. WiresKept
    BY <1>13, <2>2, WiresSend DEF SendChat
  <2>4. BeatsKept /\ NodesKept
    BY <1>13, BeatsIdle, NodesIdle DEF SendChat
  <2> QED BY <1>1, <2>3, <2>4, PhaseKept, WaysFromWires
<1>14. ASSUME NEW s \in Side, NEW i \in DOMAIN wire[s], Lose(s, i)
       PROVE  Phases'
  <2>1. WiresKept
    BY <1>14, WiresTake DEF Lose
  <2>2. BeatsKept /\ NodesKept
    BY <1>14, BeatsIdle, NodesIdle DEF Lose
  <2> QED BY <1>1, <2>1, <2>2, PhaseKept, WaysFromWires
<1> QED
  BY <1>2, <1>3, <1>4, <1>5, <1>6, <1>7, <1>8, <1>9, <1>10, <1>11, <1>12,
     <1>13, <1>14 DEF Next, ReaderStep, BeatStep, CliStep

\* While no rekey is under way on a connection not upset, the keys agree.
LEMMA QuietAgrees ==
  ASSUME Phases, Quiet, NEW s \in Side, NEW t \in Side
  PROVE  key[s] = key[t]
<1>1. \A u \in Side : slot[u] = {} /\ Coming(u) = key[u]
  BY DEF Quiet, Coming, Idle
<1>2. ASSUME NEW u \in Side, NEW e \in Ephemeral, NEW f \in Ephemeral,
             NEW g \in Ephemeral,
             Asked(u, e) \/ Replied(u, e, f) \/ Crossed(u, e, f)
               \/ AskedAgain(u, e, f, g)
      PROVE  FALSE
  <2>1. Asked(u, e) => slot[u] = {e}
    BY DEF Asked
  <2>2. Replied(u, e, f) => slot[u] = {e}
    BY DEF Replied
  <2>3. Crossed(u, e, f) => slot[u] = {e}
    BY DEF Crossed
  <2>4. AskedAgain(u, e, f, g) => slot[u] = {e}
    BY DEF AskedAgain
  <2>5. slot[u] = {e}
    BY <1>2, <2>1, <2>2, <2>3, <2>4
  <2> QED BY <1>1, <2>5
<1>3. AtRest
  BY <1>2 DEF Phases
<1> QED BY <1>1, <1>3 DEF AtRest, Side

\* A message written by s keeps the chats on both wires.
LEMMA SendAhead ==
  ASSUME TypeOK, \A t \in Side : Ahead(t), NEW s \in Side, NEW m \in Message,
         SendRaw(s, m), UNCHANGED <<key, reader>>,
         QuietChat(m) => /\ m.key = key[Other(s)] /\ reader[Other(s)] = Idle
                         /\ NoRekey(wire[Other(s)])
  PROVE  \A t \in Side : Ahead(t)'
<1>0. PICK o \in Side : /\ o = Other(s) /\ o # s
                        /\ \A t \in Side : t = s \/ t = o
  BY OtherSide
<1>1. /\ wire'[o] = Append(wire[o], m) /\ wire'[s] = wire[s]
      /\ wire[o] \in Seq(Message)
  BY <1>0 DEF SendRaw, TypeOK
<1>2. Ahead(o)'
  BY <1>0, <1>1, AheadSend
<1>3. Ahead(s)'
  BY <1>1, AheadSame
<1> QED BY <1>0, <1>2, <1>3

\* A message read by s keeps the chats that are left on both wires.
LEMMA TakeAhead ==
  ASSUME TypeOK, \A t \in Side : Ahead(t), NEW s \in Side,
         NEW i \in DOMAIN wire[s], wire' = [wire EXCEPT ![s] = RemoveAt(@, i)],
         \A t \in Side : t # s => key'[t] = key[t] /\ reader'[t] = reader[t],
         \/ key'[s] = key[s] /\ reader'[s] = reader[s]
         \/ wire[s][1].type = "rekey"
  PROVE  \A t \in Side : Ahead(t)'
<1>1. /\ wire'[s] = RemoveAt(wire[s], i) /\ wire[s] \in Seq(Message)
      /\ \A t \in Side : t # s => wire'[t] = wire[t]
  BY DEF TypeOK
<1>2. Ahead(s)'
  BY <1>1, AheadTake
<1>3. \A t \in Side : t # s => Ahead(t)'
  BY <1>1, AheadSame
<1> QED BY <1>2, <1>3

\* Every step of a connection that is not upset keeps its quiet chats.
LEMMA QuietStep ==
  TypeOK /\ KeyAfterHello /\ PhaseInv /\ QuietInv /\ [Next]_vars => QuietInv'
<1> SUFFICES ASSUME TypeOK, KeyAfterHello, PhaseInv, QuietInv, [Next]_vars,
                    upset' = {}
             PROVE  (\A t \in Side : Ahead(t)') /\ (\A m \in unread' : ~m.quiet)
  BY DEF QuietInv
<1> USE TypeGroups
<1>0. CASE Redial
  BY <1>0 DEF Redial, Ahead
<1> SUFFICES ASSUME ~Redial
             PROVE  (\A t \in Side : Ahead(t)') /\ (\A m \in unread' : ~m.quiet)
  BY <1>0
<1>1. /\ Phases /\ \A t \in Side : Ahead(t)
      /\ \A m \in unread : ~m.quiet
  BY UpsetGrows DEF PhaseInv, QuietInv
<1>2. ASSUME NEW s \in Side, NEW i \in DOMAIN wire[s], HandleChat(s, i)
      PROVE  (\A t \in Side : Ahead(t)') /\ (\A m \in unread' : ~m.quiet)
  <2>1. \A t \in Side : Ahead(t)'
    BY <1>1, <1>2, TakeAhead DEF HandleChat, Receive
  <2>2. NoKey(s) = {}
    BY <1>2 DEF HandleChat
  <2>3. ready[s] /\ wire[s][i].type = "chat"
    BY <1>2, <2>2 DEF HandleChat, Receive, NoKey
  <2>4. wire[s][i].quiet => wire[s][i].key = key[s]
    BY <1>1, <2>3 DEF Ahead, QuietChat
  <2>5. \A m \in unread' : ~m.quiet
    BY <1>1, <1>2, <2>3, <2>4 DEF HandleChat
  <2> QED BY <2>1, <2>5
<1>3. CASE UNCHANGED unread
  <2> SUFFICES \A t \in Side : Ahead(t)'
    BY <1>1, <1>3
  <2>1. ASSUME NEW s \in Side, SetupConn(s) \/ Punch(s)
        PROVE  \A t \in Side : Ahead(t)'
    <3>1. Hello \in Message /\ ~QuietChat(Hello)
      BY MessageType DEF Hello, QuietChat
    <3> QED BY <1>1, <2>1, <3>1, SendAhead DEF SetupConn, Punch
  <2>2. ASSUME NEW s \in Side, NEW i \in DOMAIN wire[s], HandleHello(s, i)
        PROVE  \A t \in Side : Ahead(t)'
    BY <1>1, <2>2, HelloKeepsKey, TakeAhead DEF HandleHello, Receive
  <2>3. ASSUME NEW s \in Side, NEW i \in DOMAIN wire[s], HandleRekey(s, i)
        PROVE  \A t \in Side : Ahead(t)'
    <3>1. Reordered(s, i) = {} /\ wire[s][i].type = "rekey" /\ i \in Nat /\ i >= 1
      BY <2>3 DEF HandleRekey, Receive, WireType
    <3>2. i = 1
      BY <3>1 DEF Reordered
    <3>3. /\ wire' = [wire EXCEPT ![s] = RemoveAt(@, i)]
          /\ \A t \in Side : t # s => key'[t] = key[t] /\ reader'[t] = reader[t]
      BY <2>3 DEF HandleRekey, Receive, GoType
    <3> QED BY <1>1, <3>1, <3>2, <3>3, TakeAhead
  <2>4. ASSUME NEW s \in Side, MixRekey(s) \/ StampRekey(s)
        PROVE  \A t \in Side : Ahead(t)'
    <3>1. /\ reader[s] # Idle /\ wire' = wire
          /\ \A t \in Side : t # s => key'[t] = key[t] /\ reader'[t] = reader[t]
      BY <2>4 DEF MixRekey, StampRekey, Idle, KeyType, GoType
    <3> QED BY <1>1, <3>1, AheadBusy, AheadSame
  <2>5. ASSUME NEW s \in Side, AnswerRekey(s)
        PROVE  \A t \in Side : Ahead(t)'
    <3>0. PICK o \in Side : /\ o = Other(s) /\ o # s
                            /\ \A t \in Side : t = s \/ t = o
      BY OtherSide
    <3>1. PICK m \in Message : m = Rekey(Fresh) /\ ~QuietChat(m)
      BY FreshType, MessageType DEF Rekey, QuietChat
    <3>2. /\ reader[s] # Idle /\ wire'[s] = wire[s]
          /\ wire'[o] = Append(wire[o], m) /\ wire[o] \in Seq(Message)
          /\ key'[o] = key[o] /\ reader'[o] = reader[o]
      BY <2>5, <3>0, <3>1 DEF AnswerRekey, SendRaw, WireType, GoType, Idle
    <3>3. Ahead(s)'
      BY <1>1, <3>2, AheadBusy
    <3>4. Ahead(o)'
      BY <1>1, <3>1, <3>2, AheadSend
    <3> QED BY <3>0, <3>3, <3>4
  <2>6. ASSUME NEW s \in Side, SendRekey(s)
        PROVE  \A t \in Side : Ahead(t)'
    <3>1. beat[s].pub \in Ephemeral
      BY <2>6 DEF SendRekey, GoType, BeatState, Idle
    <3>2. Rekey(beat[s].pub) \in Message /\ ~QuietChat(Rekey(beat[s].pub))
      BY <3>1, MessageType DEF Rekey, QuietChat
    <3> QED BY <1>1, <2>6, <3>2, SendAhead DEF SendRekey
  <2>7. ASSUME NEW s \in Side, SendChat(s)
        PROVE  \A t \in Side : Ahead(t)'
    <3> DEFINE q == Quiet /\ cli[s].key = key[s]
               m == Chat(cli[s].key, q)
    <3>1. cli[s].key \in Key /\ q \in BOOLEAN
      BY <2>7 DEF SendChat, GoType, CliState, Idle, Quiet
    <3>2. m \in Message
      BY <3>1, MessageType
    <3>3. QuietChat(m) => q /\ m.key = key[s]
      BY DEF QuietChat, Chat
    <3>4. q => key[s] = key[Other(s)]
      BY <1>1, QuietAgrees, OtherSide
    <3>5. q => reader[Other(s)] = Idle /\ NoRekey(wire[Other(s)])
      BY OtherSide DEF Quiet, NoRekey
    <3>6. SendRaw(s, m) /\ UNCHANGED <<key, reader>>
      BY <2>7 DEF SendChat
    <3> HIDE DEF q, m
    <3> QED BY <1>1, <3>2, <3>3, <3>4, <3>5, <3>6, SendAhead
  <2>8. ASSUME NEW s \in Side, NEW i \in DOMAIN wire[s], Lose(s, i)
        PROVE  \A t \in Side : Ahead(t)'
    BY <1>1, <2>8, TakeAhead DEF Lose
  <2>9. CASE UNCHANGED <<wire, key, reader>>
    BY <1>1, <2>9, AheadSame
  <2> QED
    BY <1>2, <2>1, <2>2, <2>3, <2>4, <2>5, <2>6, <2>7, <2>8, <2>9
    DEF Next, vars, ReaderStep, BeatStep, InitiateRekey, StampBeat, CliStep,
        ReadKey, TenMinutes
<1> QED
  BY <1>2, <1>3
  DEF Next, vars, SetupConn, Punch, ReaderStep, HandleHello, HandleRekey,
      AnswerRekey, MixRekey, StampRekey, BeatStep, InitiateRekey, SendRekey,
      StampBeat, CliStep, ReadKey, SendChat, TenMinutes, Lose
-----------------------------------------------------------------------------
\* The connection starts at rest, with no chat on its wires.
LEMMA PhaseInit == Init => KeyAfterHello /\ PhaseInv /\ QuietInv
<1> SUFFICES ASSUME Init PROVE KeyAfterHello /\ PhaseInv /\ QuietInv
  OBVIOUS
<1>1. \A t \in Side : /\ slot[t] = {} /\ wire[t] = <<>> /\ key[t] = <<>>
                      /\ reader[t] = Idle /\ beat[t] = Idle
  BY DEF Init
<1>2. \A t \in Side : ToNone(t) /\ ~Answering(t) /\ Coming(t) = <<>> /\ Ahead(t)
  BY <1>1, OtherSide
  DEF ToNone, NoRekey, Unsent, Answering, Coming, Ahead, Idle
<1>3. answered <= asked /\ unread = {}
  BY DEF Init
<1>4. AtRest
  BY <1>1, <1>2, <1>3 DEF AtRest, Side
<1> QED BY <1>1, <1>2, <1>3, <1>4 DEF KeyAfterHello, PhaseInv, Phases, QuietInv

\* The inductive invariant of the exchanges holds throughout.
LEMMA Exchanges == Spec => [](TypeOK /\ KeyAfterHello /\ PhaseInv /\ QuietInv)
<1> DEFINE Inv == TypeOK /\ KeyAfterHello /\ PhaseInv /\ QuietInv
<1>1. Init => Inv
  BY TypeInit, PhaseInit
<1>2. Inv /\ [Next]_vars => Inv'
  BY TypeStep, KeyAfterHelloStep, PhaseStep, QuietStep
<1> QED BY <1>1, <1>2, PTL DEF Spec

(* However many rekeys the two heartbeats start, one after the other or at  *)
(* once, and however their steps interleave with the MsgRekey handlers, the *)
(* keys agree when every exchange has run its course, unless something in   *)
(* upset happened on the connection.                                        *)
THEOREM KeysAgree == Spec => []KeysAgreeUnlessUpset
<1>1. PhaseInv => KeysAgreeUnlessUpset
  BY QuietAgrees DEF PhaseInv, KeysAgreeUnlessUpset, Side
<1> QED BY <1>1, Exchanges, PTL

(* An initiated rekey draws at most one answer for any number of rekeys:    *)
(* the MsgRekey handler never answers the answer to its own ephemeral.      *)
THEOREM OneAnswer == Spec => []OneAnswerEach
<1>1. TypeOK /\ PhaseInv => OneAnswerEach
  <2> SUFFICES ASSUME TypeOK, Phases PROVE answered <= asked
    BY DEF PhaseInv, OneAnswerEach
  <2>1. answered \in Nat /\ asked \in Nat
    BY DEF TypeOK
  <2>2. AtRest => answered <= asked
    BY DEF AtRest
  <2>3. ASSUME NEW s \in Side, NEW e \in Ephemeral, NEW f \in Ephemeral,
               NEW g \in Ephemeral,
               Asked(s, e) \/ Replied(s, e, f) \/ Crossed(s, e, f)
                 \/ AskedAgain(s, e, f, g)
        PROVE  answered <= asked
    <3>1. Asked(s, e) => answered + 1 <= asked
      BY DEF Asked
    <3>2. Replied(s, e, f) => answered <= asked
      BY DEF Replied
    <3>3. Crossed(s, e, f) => answered + 2 <= asked
      BY DEF Crossed
    <3>4. AskedAgain(s, e, f, g) => answered + 1 <= asked
      BY DEF AskedAgain
    <3>5. answered + 1 <= asked \/ answered <= asked \/ answered + 2 <= asked
      BY <2>3, <3>1, <3>2, <3>3, <3>4
    <3> QED BY <2>1, <3>5
  <2> QED BY <2>2, <2>3 DEF Phases
<1> QED BY <1>1, Exchanges, PTL

(* A chat that SendToWithID writes while no rekey is under way decrypts at  *)
(* its receiver, however many rekeys start behind it.                       *)
THEOREM QuietChatRead == Spec => []QuietChatIsRead
<1>1. QuietInv => QuietChatIsRead
  BY DEF QuietInv, QuietChatIsRead
<1> QED BY <1>1, Exchanges, PTL
============================================================================
