--------------------------- MODULE DeliveryProofs ---------------------------
(***************************************************************************)
(* Safety of Delivery for any number of links, lines, cuts and crashes.    *)
(***************************************************************************)
EXTENDS Delivery, TLAPS

\* What Append does to length, domain and elements.
LEMMA SeqAppend ==
  ASSUME NEW S, NEW s \in Seq(S), NEW x \in S
  PROVE  /\ Append(s, x) \in Seq(S)
         /\ Len(Append(s, x)) = Len(s) + 1
         /\ DOMAIN Append(s, x) = 1..(Len(s) + 1)
         /\ DOMAIN s = 1..Len(s)
         /\ \A i \in 1..Len(s) : Append(s, x)[i] = s[i]
         /\ Append(s, x)[Len(s) + 1] = x
OBVIOUS

\* What Head and Tail do, for the readers that take the next message off a wire.
LEMMA SeqTail ==
  ASSUME NEW S, NEW s \in Seq(S), s # <<>>
  PROVE  /\ Tail(s) \in Seq(S)
         /\ Len(Tail(s)) = Len(s) - 1
         /\ Head(s) \in S /\ Head(s) = s[1]
         /\ 1 \in DOMAIN s
         /\ DOMAIN Tail(s) = 1..(Len(s) - 1)
         /\ DOMAIN s = 1..Len(s)
         /\ \A i \in 1..(Len(s) - 1) : Tail(s)[i] = s[i + 1]
OBVIOUS

\* A cut of a sequence is a sequence over the same set.
LEMMA SubSeqType ==
  ASSUME NEW S, NEW s \in Seq(S), NEW k \in Nat, NEW e \in Nat, e <= Len(s)
  PROVE  SubSeq(s, k + 1, e) \in Seq(S)
OBVIOUS

\* What concatenation does, for the data messages of handleSyncRequest.
LEMMA SeqConcat ==
  ASSUME NEW S, NEW s \in Seq(S), NEW r \in Seq(S)
  PROVE  /\ s \o r \in Seq(S)
         /\ Len(s \o r) = Len(s) + Len(r)
         /\ DOMAIN (s \o r) = 1..(Len(s) + Len(r))
         /\ DOMAIN s = 1..Len(s) /\ DOMAIN r = 1..Len(r)
         /\ \A i \in 1..Len(s) : (s \o r)[i] = s[i]
         /\ \A i \in 1..Len(r) : (s \o r)[Len(s) + i] = r[i]
OBVIOUS

\* sendRaw keeps the wires well typed.
LEMMA WriteType ==
  ASSUME NEW S, NEW w \in [Link -> Seq(S)], NEW C, NEW m \in S
  PROVE  Write(w, C, m) \in [Link -> Seq(S)]
BY SeqAppend DEF Write

\* The message SendToWithID writes is one the receiver's wire may carry.
LEMMA ChatType ==
  ASSUME NEW id \in Nat, NEW n \in Line
  PROVE  Chat(id, n) \in ToReceiver
BY DEF Chat, ToReceiver, Envelope

\* nextEnvelopeID returns a number.
LEMMA NewIDType == MadeType => NewID \in Nat
BY DEF MadeType, NewID

\* A recorded loss is well typed and names its line.
LEMMA LossType ==
  ASSUME NEW n \in Line, NEW why \in {"link", "full", "rate", "key", "torn"}
  PROVE  Loss(why, n) \in Losses /\ Loss(why, n).line = n
BY DEF Loss, Losses

\* The losses of a write to a broken connection are well typed.
LEMMA SwallowedType ==
  ASSUME NEW C, NEW n \in Line
  PROVE  Swallowed(C, n) \subseteq Losses
BY LossType DEF Swallowed

\* History.GetSince returns lines.
LEMMA GetSinceType ==
  ASSUME SyncType, NEW k \in Nat
  PROVE  GetSince(k) \in Seq(Line)
<1> DEFINE e == IF k + SyncCap < Len(hist) THEN k + SyncCap ELSE Len(hist)
<1>1. Len(hist) \in Nat /\ hist \in Seq(Line)
  BY DEF SyncType
<1>2. e \in Nat /\ e <= Len(hist)
  BY <1>1, DeliveryAssumption
<1> HIDE DEF e
<1>3. SubSeq(hist, k + 1, e) \in Seq(Line)
  BY <1>1, <1>2, SubSeqType
<1> QED
  BY <1>3 DEF GetSince, e

\* What a wire carries are lines.
LEMMA LinesOnType ==
  ASSUME NEW w \in Seq(ToReceiver)
  PROVE  LinesOn(w) \subseteq Line
<1> SUFFICES ASSUME NEW j \in DOMAIN w, w[j].type \in {"chat", "sync_data"}
             PROVE  w[j].line \in Line
  BY DEF LinesOn
<1>1. w[j] \in ToReceiver
  OBVIOUS
<1>2. w[j] # Hello
  BY DEF Hello
<1> QED
  BY <1>1, <1>2 DEF ToReceiver, Envelope

\* The losses of a broken wire are well typed.
LEMMA LostOnType ==
  ASSUME NEW w \in Seq(ToReceiver)
  PROVE  LostOn(w) \subseteq Losses
BY LinesOnType, LossType DEF LostOn

\* A node starts well typed.
LEMMA TypeInit == Init => TypeOK
BY DeliveryAssumption DEF Scenario, Init, TypeOK, LinkType, WireType, QueueType, SyncType, CliType,
       MadeType, ShownType, LimitType, HistoryType, Idle, Line

\* handleSyncRequest reads a well-typed request and answers with lines.
LEMMA RequestType ==
  ASSUME TypeOK, NEW c \in Link, SenderReads(c, "sync_request")
  PROVE  /\ Head(toS[c]).since \in Nat /\ Tail(toS[c]) \in Seq(ToSender)
         /\ GetSince(Head(toS[c]).since) \in Seq(Line)
<1>1. Head(toS[c]) \in ToSender /\ Tail(toS[c]) \in Seq(ToSender)
  BY SeqTail DEF SenderReads, TypeOK, WireType
<1>2. Head(toS[c]).since \in Nat
  BY <1>1 DEF SenderReads, ToSender, Hello
<1> QED
  BY <1>1, <1>2, GetSinceType DEF TypeOK

\* The MsgSyncData messages handleSyncRequest writes are well typed.
LEMMA DatasType ==
  ASSUME TypeOK, NEW c \in Link, SenderReads(c, "sync_request")
  PROVE  LET since == GetSince(Head(toS[c]).since)
             datas == [i \in DOMAIN since |-> SyncData(Len(made) + i, since[i])]
         IN  datas \in Seq(ToReceiver) /\ DOMAIN datas = DOMAIN since
<1> DEFINE since == GetSince(Head(toS[c]).since)
<1>1. since \in Seq(Line)
  BY RequestType
<1>2. DOMAIN since = 1..Len(since) /\ Len(since) \in Nat /\ Len(made) \in Nat
  BY <1>1 DEF TypeOK, MadeType
<1>3. \A i \in DOMAIN since : SyncData(Len(made) + i, since[i]) \in ToReceiver
  BY <1>1, <1>2 DEF SyncData, ToReceiver, Envelope
<1> QED
  BY <1>2, <1>3

\* ReceiverChat by what it does: drop a duplicate, display, or lose.
LEMMA ReceiverChatEffect ==
  ASSUME NEW c \in Link, ReceiverChat(c)
  PROVE  LET m == Head(toR[c])
         IN  /\ ReceiverReads(c, {"chat", "sync_data"})
             /\ UNCHANGED <<link, toS, sender, rjoined, rlastSeen, cuts, crashes>>
             /\ \/ m.id \in seen /\ UNCHANGED <<seen, shown, shownEver, spilled>>
                \/ /\ m.id \notin seen /\ seen' = seen \cup {m.id}
                   /\ \/ /\ rjoined[c] /\ UNCHANGED spilled
                         /\ shown' = Append(shown, m) /\ shownEver' = shownEver \cup {m.line}
                      \/ ~rjoined[c] /\ UNCHANGED <<shown, shownEver, spilled>>
                      \/ /\ UNCHANGED <<shown, shownEver>>
                         /\ \E why \in {"rate", "key"} : spilled' = spilled \cup {Loss(why, m.line)}
<1>1. CASE ReceiverShow(c)
  BY <1>1 DEF ReceiverShow, Gate, counters
<1>2. CASE ReceiverDuplicate(c)
  BY <1>2 DEF ReceiverDuplicate, receiver, counters
<1>3. CASE ReceiverRefuse(c)
  BY <1>3 DEF ReceiverRefuse, ReceiverReads, Gate, counters
<1>4. CASE ReceiverGarbled(c)
  BY <1>4 DEF ReceiverGarbled, Gate
<1> QED
  BY <1>1, <1>2, <1>3, <1>4 DEF ReceiverChat

\* Past the gate a line is displayed or refused for a named reason.
LEMMA NewIsSettled ==
  ASSUME NEW c \in Link, ReceiverChat(c), rjoined[c], Head(toR[c]).id \notin seen
  PROVE  Head(toR[c]).line \in shownEver' \cup Spilled'
<1> DEFINE n == Head(toR[c]).line
<1>1. \/ shownEver' = shownEver \cup {n}
      \/ \E why \in {"rate", "key"} : spilled' = spilled \cup {Loss(why, n)}
  BY ReceiverChatEffect
<1>2. \A why : Loss(why, n).line = n
  BY DEF Loss
<1> QED
  BY <1>1, <1>2 DEF Spilled

\* Every action keeps the state well typed.
LEMMA TypeStep == TypeOK /\ [Next]_vars => TypeOK'
<1> SUFFICES ASSUME TypeOK, [Next]_vars PROVE TypeOK'
  OBVIOUS
<1> USE DEF TypeOK, receiver, counters, sender
<1>1. CASE TypeLine
  <2>1. CliType'
    BY <1>1 DEF TypeLine, CliType, Line
  <2> QED
    BY <1>1, <2>1 DEF TypeLine, LinkType, WireType, QueueType, SyncType, MadeType, ShownType,
       LimitType, HistoryType
<1>2. CASE Enqueue
  <2>a. NewID \in Nat /\ typed \in Line
    BY NewIDType DEF CliType, Line
  <2> DEFINE q == queue \cup {Item(NewID, typed)}
  <2>b. q \subseteq Pending /\ Overflow(q) \subseteq Pending
    BY <2>a DEF Item, QueueType, Pending, Overflow, First
  <2>1. QueueType'
    BY <1>2, <2>b DEF Enqueue, QueueType
  <2>2. CliType'
    BY <1>2 DEF Enqueue, CliType, Line
  <2>3. MadeType'
    <3>1. Append(made, typed) \in Seq(Line)
      BY <2>a, SeqAppend DEF MadeType
    <3> QED
      BY <1>2, <3>1 DEF Enqueue, Mint, MadeType
  <2>4. HistoryType'
    <3>1. {Loss("full", m.line) : m \in Overflow(q)} \subseteq Losses
      BY <2>b, LossType DEF Pending
    <3> QED
      BY <1>2, <2>a, <3>1 DEF Enqueue, HistoryType
  <2> QED
    BY <1>2, <2>1, <2>2, <2>3, <2>4 DEF Enqueue, Mint, Item, LinkType, WireType, SyncType,
       ShownType, LimitType
<1>3. CASE Broadcast
  <2>a. NewID \in Nat /\ typed \in Line
    BY NewIDType DEF CliType, Line
  <2>1. WireType'
    <3>1. Chat(NewID, typed) \in ToReceiver
      BY <2>a, ChatType
    <3>2. Write(toR, Ready, Chat(NewID, typed)) \in [Link -> Seq(ToReceiver)]
      BY <3>1, WriteType DEF WireType
    <3> QED
      BY <1>3, <3>2 DEF Broadcast, WireType
  <2>2. CliType'
    BY <1>3 DEF Broadcast, CliType
  <2>3. MadeType'
    BY <1>3, <2>a, SeqAppend DEF Broadcast, Mint, MadeType
  <2>4. HistoryType'
    BY <1>3, <2>a, SwallowedType DEF Broadcast, HistoryType
  <2> QED
    BY <1>3, <2>1, <2>2, <2>3, <2>4 DEF Broadcast, Mint, LinkType, QueueType, SyncType, ShownType,
       LimitType
<1>4. CASE Record
  <2>1. SyncType'
    BY <1>4, SeqAppend DEF Record, Idle, SyncType, CliType, Line
  <2>2. CliType'
    BY <1>4 DEF Record, Idle, CliType, Line
  <2> QED
    BY <1>4, <2>1, <2>2 DEF Record, Idle, LinkType, WireType, QueueType, MadeType, ShownType,
       LimitType, HistoryType
<1>5. ASSUME NEW c \in Link, Connect(c) PROVE TypeOK'
  <2>1. LinkType'
    BY <1>5 DEF Connect, LinkType
  <2>2. WireType'
    <3>1. <<Hello>> \in Seq(ToReceiver) /\ <<Hello>> \in Seq(ToSender)
      BY DEF ToReceiver, ToSender
    <3> QED
      BY <1>5, <3>1 DEF Connect, WireType
  <2> QED
    BY <1>5, <2>1, <2>2 DEF Connect, QueueType, SyncType, CliType, MadeType, ShownType, LimitType,
       HistoryType
<1>6. ASSUME NEW c \in Link, HandleHello(c) PROVE TypeOK'
  <2>1. LinkType'
    BY <1>6 DEF HandleHello, SenderReads, LinkType
  <2>2. WireType'
    BY <1>6, SeqTail DEF HandleHello, SenderReads, WireType
  <2>3. QueueType'
    BY <1>6 DEF HandleHello, SenderReads, QueueType, Line
  <2>4. SyncType'
    BY <1>6 DEF HandleHello, SyncType, Line
  <2> QED
    BY <1>6, <2>1, <2>2, <2>3, <2>4 DEF HandleHello, SenderReads, CliType, MadeType, ShownType,
       LimitType, HistoryType
<1>7. ASSUME NEW c \in Link, FlushSend(c) PROVE TypeOK'
  <2>b. PICK m \in First(flush[c]), d \in Ready :
          /\ toR' = Write(toR, {d}, Chat(m.id, m.line))
          /\ spilled' = spilled \cup Swallowed({d}, m.line)
          /\ sent' = [sent EXCEPT ![c] = {m}]
          /\ flush' = [flush EXCEPT ![c] = @ \ {m}]
    BY <1>7 DEF FlushSend
  <2>a. m \in Pending
    BY DEF First, QueueType
  <2>c. m.id \in Nat /\ m.line \in Line
    BY <2>a DEF Pending
  <2>1. WireType'
    <3>1. Chat(m.id, m.line) \in ToReceiver
      BY <2>c, ChatType
    <3>2. Write(toR, {d}, Chat(m.id, m.line)) \in [Link -> Seq(ToReceiver)]
      BY <3>1, WriteType DEF WireType
    <3> QED
      BY <1>7, <2>b, <3>2 DEF FlushSend, WireType
  <2>2. QueueType'
    BY <1>7, <2>a, <2>b DEF FlushSend, QueueType
  <2>3. HistoryType'
    BY <1>7, <2>b, <2>c, SwallowedType DEF FlushSend, HistoryType
  <2> QED
    BY <1>7, <2>1, <2>2, <2>3 DEF FlushSend, LinkType, SyncType, CliType, MadeType, ShownType, LimitType
<1>8. ASSUME NEW c \in Link, FlushRemove(c) PROVE TypeOK'
  <2>1. QueueType'
    BY <1>8 DEF FlushRemove, Remove, QueueType, Line
  <2> QED
    BY <1>8, <2>1 DEF FlushRemove, Remove, LinkType, WireType, SyncType, CliType, MadeType,
       ShownType, LimitType, HistoryType
<1>9. ASSUME NEW c \in Link, SyncStart(c) PROVE TypeOK'
  <2>1. SyncType'
    <3>1. (CHOOSE k \in sync[c] : TRUE) \in Nat
      BY <1>9 DEF SyncStart, SyncType
    <3>2. GetSince(CHOOSE k \in sync[c] : TRUE) \in Seq(Line)
      BY <3>1, GetSinceType
    <3> QED
      BY <1>9, <3>2 DEF SyncStart, SyncType
  <2> QED
    BY <1>9, <2>1 DEF SyncStart, LinkType, WireType, QueueType, CliType, MadeType,
       ShownType, LimitType, HistoryType
<1>10. ASSUME NEW c \in Link, SyncPush(c) PROVE TypeOK'
  <2>a. Head(push[c]) \in Line /\ Tail(push[c]) \in Seq(Line) /\ NewID \in Nat
    BY <1>10, SeqTail, NewIDType DEF SyncPush, SyncType
  <2>1. WireType'
    <3>1. Chat(NewID, Head(push[c])) \in ToReceiver
      BY <2>a, ChatType
    <3>2. \A d \in Ready : Write(toR, {d}, Chat(NewID, Head(push[c]))) \in [Link -> Seq(ToReceiver)]
      BY <3>1, WriteType DEF WireType
    <3> QED
      BY <1>10, <3>2 DEF SyncPush, WireType
  <2>2. SyncType'
    <3>1. push' \in [Link -> Seq(Line)]
      <4>1. \/ push' = [push EXCEPT ![c] = Tail(push[c])]
            \/ push' = [push EXCEPT ![c] = <<>>]
        BY <1>10 DEF SyncPush
      <4>2. push \in [Link -> Seq(Line)] /\ <<>> \in Seq(Line)
        BY DEF SyncType
      <4> QED
        BY <2>a, <4>1, <4>2
    <3> QED
      BY <1>10, <3>1 DEF SyncPush, SyncType
  <2>3. MadeType'
    <3>1. Append(made, Head(push[c])) \in Seq(Line)
      BY <2>a, SeqAppend DEF MadeType
    <3> QED
      BY <1>10, <3>1 DEF SyncPush, Mint, MadeType
  <2>4. HistoryType'
    BY <1>10, <2>a, SwallowedType DEF SyncPush, HistoryType
  <2> QED
    BY <1>10, <2>1, <2>2, <2>3, <2>4 DEF SyncPush, Mint, LinkType, QueueType, CliType, ShownType,
       LimitType
<1>11. ASSUME NEW c \in Link, HandleSyncRequest(c) PROVE TypeOK'
  <2> DEFINE since == GetSince(Head(toS[c]).since)
             datas == [i \in DOMAIN since |-> SyncData(Len(made) + i, since[i])]
  <2>a. since \in Seq(Line) /\ Tail(toS[c]) \in Seq(ToSender)
    BY <1>11, RequestType DEF HandleSyncRequest
  <2>c. datas \in Seq(ToReceiver)
    BY <1>11, DatasType DEF HandleSyncRequest
  <2>1. WireType'
    <3>1. toR[c] \o datas \in Seq(ToReceiver)
      BY <2>c, SeqConcat DEF WireType
    <3> QED
      BY <1>11, <2>a, <3>1 DEF HandleSyncRequest, SenderReads, WireType
  <2>2. MadeType'
    BY <1>11, <2>a, SeqConcat DEF HandleSyncRequest, MadeType
  <2> QED
    BY <1>11, <2>1, <2>2 DEF HandleSyncRequest, SenderReads, LinkType, QueueType, SyncType,
       CliType, ShownType, LimitType, HistoryType
<1>12. ASSUME NEW c \in Link, ReceiverHello(c) PROVE TypeOK'
  <2>1. LinkType'
    BY <1>12 DEF ReceiverHello, LinkType
  <2>2. WireType'
    <3>1. Tail(toR[c]) \in Seq(ToReceiver)
      BY <1>12, SeqTail DEF ReceiverHello, ReceiverReads, WireType
    <3>2. \A k \in rlastSeen, cut \in {0, 1} : cut <= k => SyncRequest(k - cut) \in ToSender
      BY DEF SyncType, SyncRequest, ToSender
    <3>3. \A x \in ToSender : Append(toS[c], x) \in Seq(ToSender)
      BY SeqAppend DEF WireType
    <3>4. toS' \in [Link -> Seq(ToSender)]
      <4>1. CASE rlastSeen = {} \/ link[c] # "up"
        BY <1>12, <4>1 DEF ReceiverHello, WireType
      <4>2. CASE ~(rlastSeen = {} \/ link[c] # "up")
        <5>1. PICK k \in rlastSeen, cut \in {0, 1} :
                /\ cut <= k
                /\ toS' = [toS EXCEPT ![c] = Append(@, SyncRequest(k - cut))]
          BY <1>12, <4>2 DEF ReceiverHello
        <5> QED
          BY <5>1, <3>2, <3>3 DEF WireType
      <4> QED
        BY <4>1, <4>2
    <3>5. toR' \in [Link -> Seq(ToReceiver)]
      BY <1>12, <3>1 DEF ReceiverHello, ReceiverReads, WireType
    <3> QED
      BY <3>4, <3>5 DEF WireType
  <2>3. SyncType'
    BY <1>12 DEF ReceiverHello, SyncType
  <2>4. LimitType'
    BY <1>12, DeliveryAssumption DEF ReceiverHello, LimitType
  <2> QED
    BY <1>12, <2>1, <2>2, <2>3, <2>4 DEF ReceiverHello, QueueType, CliType, MadeType,
       ShownType, HistoryType
<1>13. ASSUME NEW c \in Link, ReceiverChat(c) PROVE TypeOK'
  <2> DEFINE m == Head(toR[c])
  <2>a. m \in Envelope /\ Tail(toR[c]) \in Seq(ToReceiver) /\ ReceiverReads(c, {"chat", "sync_data"})
    <3>1. ReceiverReads(c, {"chat", "sync_data"})
      BY <1>13, ReceiverChatEffect
    <3>2. Head(toR[c]) \in ToReceiver /\ Tail(toR[c]) \in Seq(ToReceiver)
      BY <3>1, SeqTail DEF ReceiverReads, WireType
    <3> QED
      BY <3>1, <3>2 DEF ReceiverReads, ToReceiver, Hello
  <2>b. m.id \in Nat /\ m.line \in Line
    BY <2>a DEF Envelope
  <2>c. UNCHANGED <<link, toS, sender, rjoined, rlastSeen, cuts, crashes>>
    BY <1>13, ReceiverChatEffect
  <2>1. WireType'
    BY <2>a, <2>c DEF ReceiverReads, WireType
  <2>2. ShownType'
    <3>1. Append(shown, m) \in Seq(Envelope)
      BY <2>a, SeqAppend DEF ShownType
    <3>2. shown' \in {shown, Append(shown, m)} /\ seen' \subseteq seen \cup {m.id}
      BY <1>13, ReceiverChatEffect
    <3> QED
      BY <2>b, <3>1, <3>2 DEF ShownType
  <2>3. HistoryType'
    <3>1. shownEver' \subseteq shownEver \cup {m.line}
      BY <1>13, ReceiverChatEffect
    <3>2. spilled' \subseteq spilled \cup {Loss(why, m.line) : why \in {"rate", "key"}}
      BY <1>13, ReceiverChatEffect
    <3>3. \A why \in {"rate", "key"} : Loss(why, m.line) \in Losses
      BY <2>b, LossType
    <3> QED
      BY <2>b, <2>c, <3>1, <3>2, <3>3 DEF HistoryType
  <2>4. LimitType'
    BY <1>13, <2>c, DeliveryAssumption DEF Scenario, ReceiverChat, ReceiverShow, ReceiverDuplicate, ReceiverRefuse,
       ReceiverGarbled, Allow, LimitType
  <2> QED
    BY <2>c, <2>1, <2>2, <2>3, <2>4 DEF LinkType, QueueType, SyncType, CliType, MadeType
<1>14. ASSUME NEW c \in Link, Cut(c) PROVE TypeOK'
  <2>1. LinkType'
    BY <1>14 DEF Cut, LinkType
  <2>2. WireType'
    BY <1>14 DEF Cut, WireType
  <2>3. LimitType'
    BY <1>14, DeliveryAssumption DEF Scenario, Cut, LimitType
  <2>4. HistoryType'
    BY <1>14, LostOnType DEF Cut, HistoryType, WireType
  <2> QED
    BY <1>14, <2>1, <2>2, <2>3, <2>4 DEF Cut, QueueType, SyncType, CliType, MadeType, ShownType
<1>15. ASSUME NEW c \in Link, Notice(c) PROVE TypeOK'
  <2>1. LinkType'
    BY <1>15 DEF Notice, LinkType
  <2> QED
    BY <1>15, <2>1 DEF Notice, WireType, QueueType, SyncType, CliType, MadeType, ShownType,
       LimitType, HistoryType
<1>16. ASSUME NEW c \in Link, ReceiverEOF(c) PROVE TypeOK'
  <2>1. LinkType'
    BY <1>16 DEF ReceiverEOF, LinkType
  <2> QED
    BY <1>16, <2>1 DEF ReceiverEOF, WireType, QueueType, SyncType, CliType, MadeType, ShownType,
       LimitType, HistoryType
<1>17. CASE RestartSender
  <2>1. LinkType'
    BY <1>17 DEF RestartSender, Idle, LinkType
  <2>2. WireType'
    BY <1>17 DEF RestartSender, Idle, WireType
  <2>3. QueueType'
    BY <1>17 DEF RestartSender, Idle, QueueType, Line
  <2>4. SyncType'
    BY <1>17 DEF RestartSender, Idle, SyncType, Line
  <2>5. CliType'
    BY <1>17 DEF RestartSender, Idle, CliType, Line
  <2>6. LimitType'
    BY <1>17, DeliveryAssumption DEF Scenario, RestartSender, Idle, LimitType
  <2>7. HistoryType'
    <3>1. {Loss("torn", m.line) : m \in queue} \subseteq Losses
      BY LossType DEF QueueType, Pending
    <3> QED
      BY <1>17, <3>1 DEF RestartSender, HistoryType
  <2> QED
    BY <1>17, <2>1, <2>2, <2>3, <2>4, <2>5, <2>6, <2>7 DEF RestartSender, MadeType, ShownType
<1>18. CASE RestartReceiver
  <2>1. LinkType'
    BY <1>18 DEF RestartReceiver, LinkType
  <2>2. WireType'
    BY <1>18 DEF RestartReceiver, WireType
  <2>3. ShownType'
    BY <1>18 DEF RestartReceiver, ShownType
  <2>4. LimitType'
    BY <1>18, DeliveryAssumption DEF Scenario, RestartReceiver, LimitType
  <2>5. HistoryType'
    BY <1>18, LostOnType DEF RestartReceiver, HistoryType, WireType
  <2> QED
    BY <1>18, <2>1, <2>2, <2>3, <2>4, <2>5 DEF RestartReceiver, QueueType, SyncType, CliType, MadeType
<1>19. CASE Refill
  <2>1. LimitType'
    BY <1>19, DeliveryAssumption DEF Refill, LimitType
  <2> QED
    BY <1>19, <2>1 DEF Refill, LinkType, WireType, QueueType, SyncType, CliType, MadeType, ShownType, HistoryType
<1>20. CASE UNCHANGED vars
  BY <1>20 DEF vars, LinkType, WireType, QueueType, SyncType, CliType, MadeType, ShownType,
     LimitType, HistoryType
<1> QED
  BY <1>1, <1>2, <1>3, <1>4, <1>5, <1>6, <1>7, <1>8, <1>9, <1>10, <1>11, <1>12, <1>13, <1>14,
     <1>15, <1>16, <1>17, <1>18, <1>19, <1>20 DEF Next

(* Type correctness: every wire, queue, copy of the queue and display holds *)
(* only messages of its kind, and the bounds on cuts and crashes hold.      *)
THEOREM TypeCorrect == Spec => []TypeOK
BY TypeInit, TypeStep, PTL DEF Spec
----------------------------------------------------------------------------
\* Envelope or queue item e carries the line its ID was made for.
Genuine(e) == e.id \in DOMAIN made /\ made[e.id] = e.line

QueueGenuine == \A m \in queue : Genuine(m)
FlushGenuine == \A c \in Link : \A m \in flush[c] \cup sent[c] : Genuine(m)
WireGenuine ==
  \A c \in Link : \A i \in DOMAIN toR[c] : toR[c][i] # Hello => Genuine(toR[c][i])

\* Nothing reaches the receiver on a connection before its hello, hence a key.
HelloFirst ==
  \A c \in Link : link[c] \in {"up", "fin"} /\ ~rjoined[c] =>
    toR[c] # <<>> /\ toR[c][1] = Hello

\* The dedup set names only envelopes whose line was displayed or lost ...
SeenIsSettled == \A id \in seen : id \in DOMAIN made /\ made[id] \in shownEver \cup Spilled

\* ... and all those that were displayed since the receiver started.
ShownIsSeen == \A i \in DOMAIN shown : shown[i].id \in seen

\* Lines that are displayed, on their way or lost in a named way.
Safe == shownEver \cup InFlight \cup Spilled

\* A flushed message may leave the queue: Remove never strands it.
SentIsSafe == \A c \in Link : \A m \in sent[c] : m.line \in Safe

OwedIsKept == owed \subseteq Safe \cup InQueue

IInv ==
  /\ TypeOK /\ QueueGenuine /\ FlushGenuine /\ WireGenuine /\ HelloFirst
  /\ SeenIsSettled /\ ShownIsSeen /\ SentIsSafe /\ OwedIsKept /\ AtMostOncePerEnvelope

\* A write leaves a wire as it is or appends the message.
LEMMA WriteFacts ==
  ASSUME NEW S, NEW w \in [Link -> Seq(S)], NEW C, NEW m \in S, NEW c \in Link
  PROVE  /\ \A i \in DOMAIN w[c] : i \in DOMAIN Write(w, C, m)[c] /\ Write(w, C, m)[c][i] = w[c][i]
         /\ \A i \in DOMAIN Write(w, C, m)[c] :
              \/ i \in DOMAIN w[c] /\ Write(w, C, m)[c][i] = w[c][i]
              \/ Write(w, C, m)[c][i] = m
         /\ c \in C /\ link[c] = "up" => \E i \in DOMAIN Write(w, C, m)[c] : Write(w, C, m)[c][i] = m
<1>1. w[c] \in Seq(S)
  OBVIOUS
<1>2. CASE c \in C /\ link[c] = "up"
  <2>1. Write(w, C, m)[c] = Append(w[c], m)
    BY <1>2 DEF Write
  <2>2. Len(w[c]) \in Nat
    BY <1>1
  <2> QED
    BY <1>1, <2>1, <2>2, SeqAppend
<1>3. CASE ~(c \in C /\ link[c] = "up")
  BY <1>3 DEF Write
<1> QED
  BY <1>2, <1>3

\* An ID keeps its line for ever.
LEMMA MadeGrows ==
  TypeOK /\ [Next]_vars => \A id \in DOMAIN made : id \in DOMAIN made' /\ made'[id] = made[id]
<1> SUFFICES ASSUME TypeOK, [Next]_vars
             PROVE  \A id \in DOMAIN made : id \in DOMAIN made' /\ made'[id] = made[id]
  OBVIOUS
<1>1. made \in Seq(Line) /\ Len(made) \in Nat /\ DOMAIN made = 1..Len(made)
  BY DEF TypeOK, MadeType
<1>2. ASSUME NEW n \in Line, made' = Append(made, n)
      PROVE  \A id \in DOMAIN made : id \in DOMAIN made' /\ made'[id] = made[id]
  BY <1>1, <1>2, SeqAppend
<1>3. CASE Enqueue
  <2>1. typed \in Line
    BY DEF TypeOK, CliType, Line
  <2> QED
    BY <1>3, <1>2, <2>1 DEF Enqueue, Mint
<1>4. CASE Broadcast
  <2>1. typed \in Line
    BY DEF TypeOK, CliType, Line
  <2> QED
    BY <1>4, <1>2, <2>1 DEF Broadcast, Mint
<1>5. ASSUME NEW c \in Link, SyncPush(c)
      PROVE  \A id \in DOMAIN made : id \in DOMAIN made' /\ made'[id] = made[id]
  <2>1. Head(push[c]) \in Line
    BY <1>5, SeqTail DEF SyncPush, TypeOK, SyncType
  <2> QED
    BY <1>5, <1>2, <2>1 DEF SyncPush, Mint
<1>6. ASSUME NEW c \in Link, HandleSyncRequest(c)
      PROVE  \A id \in DOMAIN made : id \in DOMAIN made' /\ made'[id] = made[id]
  <2> DEFINE since == GetSince(Head(toS[c]).since)
  <2>1. since \in Seq(Line)
    BY <1>6, RequestType DEF HandleSyncRequest
  <2>2. made' = made \o since
    BY <1>6 DEF HandleSyncRequest
  <2> QED
    BY <1>1, <2>1, <2>2, SeqConcat
<1>7. CASE UNCHANGED made
  BY <1>7
<1>8. ASSUME NEW c \in Link, ReceiverChat(c) PROVE UNCHANGED made
  BY <1>8, ReceiverChatEffect DEF sender
<1> QED
  BY <1>3, <1>4, <1>5, <1>6, <1>7, <1>8
     DEF Next, vars, sender, TypeLine, Record, Connect, HandleHello, FlushSend, FlushRemove,
         SyncStart, ReceiverHello, Refill, Cut, Notice, ReceiverEOF, RestartSender, RestartReceiver

\* An envelope that carries the line of its ID keeps doing so.
LEMMA GenuineKept ==
  ASSUME TypeOK, [Next]_vars, NEW e, Genuine(e)
  PROVE  Genuine(e)'
BY MadeGrows DEF Genuine

\* Mint and NewID: the envelope that is made is genuine.
LEMMA MintGenuine ==
  ASSUME TypeOK, NEW n \in Line, Mint(n), NEW e, e.id = NewID, e.line = n
  PROVE  Genuine(e)'
<1>1. made \in Seq(Line) /\ Len(made) \in Nat
  BY DEF TypeOK, MadeType
<1>2. NewID \in DOMAIN made' /\ made'[NewID] = n
  BY <1>1, SeqAppend DEF Mint, NewID
<1> QED
  BY <1>2 DEF Genuine

\* Enqueue, Remove and a restart leave genuine items in the queue.
LEMMA QueueGenuineStep == TypeOK /\ QueueGenuine /\ [Next]_vars => QueueGenuine'
<1> SUFFICES ASSUME TypeOK, QueueGenuine, [Next]_vars, NEW m \in queue' PROVE Genuine(m)'
  BY DEF QueueGenuine
<1>1. CASE m \in queue
  BY <1>1, GenuineKept DEF QueueGenuine
<1>2. CASE m \notin queue
  <2>a. ASSUME NEW c \in Link, ReceiverChat(c) PROVE UNCHANGED queue
    BY <2>a, ReceiverChatEffect DEF sender
  <2>1. Enqueue
    BY <1>2, <2>a DEF Next, vars, sender, TypeLine, Broadcast, Record, Connect, HandleHello, FlushSend,
         FlushRemove, Remove, SyncStart, SyncPush, HandleSyncRequest, ReceiverHello, Refill,
         Cut, Notice, ReceiverEOF, RestartSender, RestartReceiver
  <2>2. m = Item(NewID, typed) /\ Mint(typed)
    BY <1>2, <2>1 DEF Enqueue
  <2>3. typed \in Line
    BY DEF TypeOK, CliType, Line
  <2> QED
    BY <2>2, <2>3, MintGenuine DEF Item
<1> QED
  BY <1>1, <1>2

\* The copy of the queue a hello handler works off is genuine.
LEMMA FlushGenuineStep ==
  TypeOK /\ QueueGenuine /\ FlushGenuine /\ [Next]_vars => FlushGenuine'
<1> SUFFICES ASSUME TypeOK, QueueGenuine, FlushGenuine, [Next]_vars,
                    NEW c \in Link, NEW m \in (flush[c] \cup sent[c])'
             PROVE  Genuine(m)'
  BY DEF FlushGenuine
<1>1. m \in queue \/ m \in flush[c] \cup sent[c]
  <2>1. ASSUME NEW d \in Link, HandleHello(d) PROVE m \in queue \/ m \in flush[c] \cup sent[c]
    BY <2>1 DEF HandleHello, TypeOK, QueueType
  <2>2. ASSUME NEW d \in Link, FlushSend(d) PROVE m \in flush[c] \cup sent[c]
    BY <2>2 DEF FlushSend, First, TypeOK, QueueType
  <2>3. ASSUME NEW d \in Link, FlushRemove(d) PROVE m \in flush[c] \cup sent[c]
    BY <2>3 DEF FlushRemove, TypeOK, QueueType
  <2>4. CASE RestartSender
    BY <2>4 DEF RestartSender
  <2>5. CASE UNCHANGED <<flush, sent>>
    BY <2>5
  <2>6. ASSUME NEW d \in Link, ReceiverChat(d) PROVE UNCHANGED <<flush, sent>>
    BY <2>6, ReceiverChatEffect DEF sender
  <2> QED
    BY <2>1, <2>2, <2>3, <2>4, <2>5, <2>6 DEF Next, vars, sender, TypeLine, Enqueue, Broadcast, Record,
         Connect, SyncStart, SyncPush, HandleSyncRequest, ReceiverHello, Refill,
         Cut, Notice, ReceiverEOF, RestartReceiver
<1>2. Genuine(m)
  BY <1>1 DEF QueueGenuine, FlushGenuine
<1> QED
  BY <1>2, GenuineKept

\* What a step leaves on a wire was there, is a hello, or is a genuine envelope.
LEMMA WireGenuineStep ==
  TypeOK /\ FlushGenuine /\ WireGenuine /\ [Next]_vars => WireGenuine'
<1> SUFFICES ASSUME TypeOK, FlushGenuine, WireGenuine, [Next]_vars,
                    NEW c \in Link, NEW i \in DOMAIN toR'[c], NEW e,
                    e = toR'[c][i], e # Hello
             PROVE  Genuine(e)'
  BY DEF WireGenuine, Genuine
<1> DEFINE Old == \E j \in DOMAIN toR[c] : toR[c][j] = e
<1>1. Old => Genuine(e)'
  BY GenuineKept DEF WireGenuine
<1>2. toR \in [Link -> Seq(ToReceiver)] /\ toR[c] \in Seq(ToReceiver)
  BY DEF TypeOK, WireType
<1>3. CASE Broadcast
  <2>1. typed \in Line /\ NewID \in Nat
    BY NewIDType DEF TypeOK, CliType, Line
  <2>2. Chat(NewID, typed) \in ToReceiver
    BY <2>1, ChatType
  <2>3. Old \/ e = Chat(NewID, typed)
    BY <1>2, <1>3, <2>2, WriteFacts DEF Broadcast
  <2>4. e = Chat(NewID, typed) => e.id = NewID /\ e.line = typed
    BY DEF Chat
  <2> QED
    BY <1>1, <1>3, <2>1, <2>3, <2>4, MintGenuine DEF Broadcast
<1>4. ASSUME NEW d \in Link, FlushSend(d) PROVE Genuine(e)'
  <2>1. PICK m \in flush[d], r \in Ready : toR' = Write(toR, {r}, Chat(m.id, m.line))
    BY <1>4 DEF FlushSend, First
  <2>2. Chat(m.id, m.line) \in ToReceiver
    BY ChatType DEF TypeOK, QueueType, Pending
  <2>3. Old \/ e = Chat(m.id, m.line)
    BY <1>2, <2>1, <2>2, WriteFacts
  <2>4. Genuine(m)'
    BY <2>1, GenuineKept DEF FlushGenuine
  <2> QED
    BY <1>1, <2>3, <2>4 DEF Genuine, Chat
<1>5. ASSUME NEW d \in Link, SyncPush(d) PROVE Genuine(e)'
  <2>1. Head(push[d]) \in Line /\ NewID \in Nat
    BY <1>5, SeqTail, NewIDType DEF SyncPush, TypeOK, SyncType
  <2>2. CASE UNCHANGED toR
    BY <1>1, <2>2
  <2>3. ASSUME NEW r \in Ready, Mint(Head(push[d])),
               toR' = Write(toR, {r}, Chat(NewID, Head(push[d])))
        PROVE  Genuine(e)'
    <3>1. Chat(NewID, Head(push[d])) \in ToReceiver
      BY <2>1, ChatType
    <3>2. Old \/ e = Chat(NewID, Head(push[d]))
      BY <1>2, <2>3, <3>1, WriteFacts
    <3>3. e = Chat(NewID, Head(push[d])) => e.id = NewID /\ e.line = Head(push[d])
      BY DEF Chat
    <3> QED
      BY <1>1, <2>1, <2>3, <3>2, <3>3, MintGenuine
  <2> QED
    BY <1>5, <2>2, <2>3 DEF SyncPush
<1>6. ASSUME NEW d \in Link, HandleSyncRequest(d) PROVE Genuine(e)'
  <2> DEFINE since == GetSince(Head(toS[d]).since)
             datas == [k \in DOMAIN since |-> SyncData(Len(made) + k, since[k])]
  <2>1. since \in Seq(Line) /\ DOMAIN since = 1..Len(since) /\ Len(since) \in Nat
    BY <1>6, RequestType DEF HandleSyncRequest
  <2>2. datas \in Seq(ToReceiver) /\ DOMAIN datas = DOMAIN since
    BY <1>6, DatasType DEF HandleSyncRequest
  <2>3. toR' = [toR EXCEPT ![d] = toR[d] \o datas] /\ made' = made \o since
    BY <1>6 DEF HandleSyncRequest
  <2>4. Old \/ \E k \in DOMAIN since : e = SyncData(Len(made) + k, since[k])
    <3>1. CASE c # d
      BY <1>2, <2>3, <3>1
    <3>2. CASE c = d
      <4>1. toR'[c] = toR[c] \o datas
        BY <1>2, <2>3, <3>2
      <4>2. Len(toR[c]) \in Nat /\ Len(datas) = Len(since)
        BY <1>2, <2>1, <2>2
      <4>3. i \in DOMAIN toR[c] \/ \E k \in DOMAIN since : i = Len(toR[c]) + k
        <5>1. i \in 1..(Len(toR[c]) + Len(since)) /\ DOMAIN toR[c] = 1..Len(toR[c])
          BY <1>2, <2>2, <4>1, <4>2, SeqConcat
        <5> HIDE DEF since
        <5>2. i > Len(toR[c]) => i - Len(toR[c]) \in 1..Len(since) /\ i = Len(toR[c]) + (i - Len(toR[c]))
          BY <2>1, <4>2, <5>1
        <5> QED
          BY <2>1, <4>2, <5>1, <5>2
      <4>4. i \in DOMAIN toR[c] => e = toR[c][i]
        BY <1>2, <2>2, <4>1, SeqConcat
      <4>5. \A k \in DOMAIN since : i = Len(toR[c]) + k => e = datas[k]
        BY <1>2, <2>2, <4>1, SeqConcat
      <4> QED
        BY <4>3, <4>4, <4>5
    <3> QED
      BY <3>1, <3>2
  <2>5. \A k \in DOMAIN since : Len(made) + k \in DOMAIN made' /\ made'[Len(made) + k] = since[k]
    <3>1. made \in Seq(Line) /\ Len(made) \in Nat
      BY DEF TypeOK, MadeType
    <3> QED
      BY <2>1, <2>3, <3>1, SeqConcat
  <2>6. CASE \E k \in DOMAIN since : e = SyncData(Len(made) + k, since[k])
    <3>1. PICK k \in DOMAIN since : e = SyncData(Len(made) + k, since[k])
      BY <2>6
    <3>2. e.id = Len(made) + k /\ e.line = since[k]
      BY <3>1 DEF SyncData
    <3> HIDE DEF since
    <3> QED
      BY <2>5, <3>2 DEF Genuine
  <2> QED
    BY <1>1, <2>4, <2>6
<1>7. ASSUME NEW d \in Link, \E T : ReceiverReads(d, T) PROVE Genuine(e)'
  <2>1. toR[d] # <<>> /\ toR' = [toR EXCEPT ![d] = Tail(toR[d])] /\ toR[d] \in Seq(ToReceiver)
    BY <1>2, <1>7 DEF ReceiverReads
  <2>2. Old
    <3>1. CASE c # d
      BY <1>2, <2>1, <3>1
    <3>2. CASE c = d
      BY <1>2, <2>1, <3>2, SeqTail
    <3> QED
      BY <3>1, <3>2
  <2> QED
    BY <1>1, <2>2
<1>8. ASSUME NEW d \in Link, Connect(d) \/ Cut(d) PROVE Genuine(e)'
  <2>1. toR' = [toR EXCEPT ![d] = <<Hello>>] \/ toR' = [toR EXCEPT ![d] = <<>>]
    BY <1>8 DEF Connect, Cut
  <2>2. Old
    BY <1>2, <2>1
  <2> QED
    BY <1>1, <2>2
<1>9. CASE RestartReceiver
  BY <1>9 DEF RestartReceiver
<1>10. CASE UNCHANGED toR
  BY <1>1, <1>10
<1>11. ASSUME NEW d \in Link, ReceiverChat(d) PROVE \E T : ReceiverReads(d, T)
  BY <1>11, ReceiverChatEffect
<1> QED
  BY <1>3, <1>4, <1>5, <1>6, <1>7, <1>8, <1>9, <1>10, <1>11
     DEF Next, vars, TypeLine, Enqueue, Record, HandleHello, FlushRemove, SyncStart,
         ReceiverHello, Refill, Notice, ReceiverEOF, RestartSender

\* On every connection the sender's hello precedes its chat, so the receiver has a key.
LEMMA HelloFirstStep == TypeOK /\ HelloFirst /\ [Next]_vars => HelloFirst'
<1> SUFFICES ASSUME TypeOK, HelloFirst, [Next]_vars, NEW c \in Link,
                    link'[c] \in {"up", "fin"}, ~rjoined'[c]
             PROVE  toR'[c] # <<>> /\ toR'[c][1] = Hello
  BY DEF HelloFirst
<1> DEFINE Was == link[c] \in {"up", "fin"} /\ ~rjoined[c]
           Goal == toR'[c] # <<>> /\ toR'[c][1] = Hello
<1>1. toR \in [Link -> Seq(ToReceiver)] /\ toR[c] \in Seq(ToReceiver)
  BY DEF TypeOK, WireType
<1>2. Was => toR[c] # <<>> /\ toR[c][1] = Hello /\ 1 \in DOMAIN toR[c]
  BY <1>1, SeqTail DEF HelloFirst
<1>3. ASSUME NEW C, NEW m \in ToReceiver, toR' = Write(toR, C, m), UNCHANGED <<link, rjoined>>
      PROVE  Goal
  <2>1. Write(toR, C, m) \in [Link -> Seq(ToReceiver)]
    BY <1>1, WriteType
  <2>2. 1 \in DOMAIN toR'[c] /\ toR'[c][1] = Hello
    BY <1>1, <1>2, <1>3, WriteFacts
  <2> QED
    BY <1>3, <2>1, <2>2
<1>4. CASE Broadcast
  <2>1. Chat(NewID, typed) \in ToReceiver
    BY ChatType, NewIDType DEF TypeOK, CliType, Line
  <2> QED
    BY <1>3, <1>4, <2>1 DEF Broadcast, receiver
<1>5. ASSUME NEW d \in Link, FlushSend(d) PROVE Goal
  <2>1. PICK m \in flush[d], r \in Ready : toR' = Write(toR, {r}, Chat(m.id, m.line))
    BY <1>5 DEF FlushSend, First
  <2>2. Chat(m.id, m.line) \in ToReceiver
    BY ChatType DEF TypeOK, QueueType, Pending
  <2> QED
    BY <1>3, <1>5, <2>1, <2>2 DEF FlushSend, receiver
<1>6. ASSUME NEW d \in Link, SyncPush(d) PROVE Goal
  <2>1. Chat(NewID, Head(push[d])) \in ToReceiver
    BY <1>6, SeqTail, ChatType, NewIDType DEF SyncPush, TypeOK, SyncType
  <2>2. UNCHANGED <<link, rjoined>>
    BY <1>6 DEF SyncPush, receiver
  <2> QED
    BY <1>2, <1>3, <1>6, <2>1, <2>2 DEF SyncPush
<1>7. ASSUME NEW d \in Link, HandleSyncRequest(d) PROVE Goal
  <2> DEFINE since == GetSince(Head(toS[d]).since)
             datas == [k \in DOMAIN since |-> SyncData(Len(made) + k, since[k])]
  <2>1. datas \in Seq(ToReceiver)
    BY <1>7, DatasType DEF HandleSyncRequest
  <2>2. toR' = [toR EXCEPT ![d] = toR[d] \o datas] /\ UNCHANGED <<link, rjoined>>
    BY <1>7 DEF HandleSyncRequest, receiver
  <2> HIDE DEF datas
  <2>3. toR[c] \o datas # <<>> /\ (toR[c] \o datas)[1] = Hello
    <3>1. Len(toR[c]) \in Nat /\ Len(toR[c]) > 0 /\ Len(datas) \in Nat
      BY <1>1, <1>2, <2>1, <2>2
    <3>2. toR[c] \o datas \in Seq(ToReceiver) /\ Len(toR[c] \o datas) > 0
      BY <1>1, <2>1, <3>1, SeqConcat
    <3> QED
      BY <1>1, <1>2, <2>1, <2>2, <3>1, <3>2, SeqConcat
  <2> QED
    BY <1>1, <1>2, <2>2, <2>3
<1>8. ASSUME NEW d \in Link, ReceiverHello(d) PROVE Goal
  <2>1. c # d
    BY <1>8 DEF ReceiverHello, TypeOK, LinkType
  <2> QED
    BY <1>1, <1>2, <1>8, <2>1 DEF ReceiverHello, ReceiverReads, TypeOK, LinkType
<1>9. ASSUME NEW d \in Link, ReceiverChat(d) PROVE Goal
  <2>1. toR[d] # <<>> /\ toR[d][1] # Hello /\ link[d] \in {"up", "fin"}
    <3>1. ReceiverReads(d, {"chat", "sync_data"}) /\ toR[d] \in Seq(ToReceiver)
      BY <1>1, <1>9, ReceiverChatEffect
    <3> QED
      BY <3>1, SeqTail DEF ReceiverReads, Hello
  <2>2. UNCHANGED <<link, rjoined>> /\ toR' = [toR EXCEPT ![d] = Tail(toR[d])]
    BY <1>9, ReceiverChatEffect DEF ReceiverReads
  <2>3. c # d
    BY <1>2, <2>1, <2>2
  <2> QED
    BY <1>1, <1>2, <2>2, <2>3
<1>10. ASSUME NEW d \in Link, Connect(d) PROVE Goal
  BY <1>1, <1>2, <1>10 DEF Connect, receiver, TypeOK, LinkType
<1>11. ASSUME NEW d \in Link, Cut(d) \/ Notice(d) \/ ReceiverEOF(d) PROVE Goal
  <2>1. c # d
    BY <1>11 DEF Cut, Notice, ReceiverEOF, TypeOK, LinkType
  <2> QED
    BY <1>1, <1>2, <1>11, <2>1 DEF Cut, Notice, ReceiverEOF, receiver, TypeOK, LinkType
<1>12. CASE RestartSender
  BY <1>2, <1>12 DEF RestartSender, receiver, TypeOK, LinkType
<1>13. CASE RestartReceiver
  BY <1>13 DEF RestartReceiver, TypeOK, LinkType
<1>14. CASE UNCHANGED <<link, toR, rjoined>>
  BY <1>2, <1>14
<1> QED
  BY <1>4, <1>5, <1>6, <1>7, <1>8, <1>9, <1>10, <1>11, <1>12, <1>13, <1>14
     DEF Next, vars, receiver, TypeLine, Enqueue, Record, HandleHello, FlushRemove, SyncStart, Refill

\* A line is on a wire if some chat or sync message on it carries it.
LEMMA LinesOnIs ==
  ASSUME NEW w, NEW n
  PROVE  n \in LinesOn(w) <=> \E j \in DOMAIN w : w[j].type \in {"chat", "sync_data"} /\ w[j].line = n
BY DEF LinesOn

\* Appending to a wire takes no line off it.
LEMMA LinesOnGrows ==
  ASSUME NEW w, NEW v, \A i \in DOMAIN w : i \in DOMAIN v /\ v[i] = w[i]
  PROVE  LinesOn(w) \subseteq LinesOn(v)
<1> SUFFICES ASSUME NEW n, n \in LinesOn(w) PROVE n \in LinesOn(v)
  OBVIOUS
<1>1. PICK j \in DOMAIN w : w[j].type \in {"chat", "sync_data"} /\ w[j].line = n
  BY LinesOnIs
<1>2. j \in DOMAIN v /\ v[j] = w[j]
  OBVIOUS
<1> QED
  BY <1>1, <1>2, LinesOnIs

\* No step takes back a display or a recorded loss.
LEMMA SettledGrows == [Next]_vars => shownEver \subseteq shownEver' /\ Spilled \subseteq Spilled'
<1> SUFFICES ASSUME [Next]_vars PROVE shownEver \subseteq shownEver' /\ spilled \subseteq spilled'
  BY DEF Spilled
<1>1. ASSUME NEW c \in Link, ReceiverChat(c)
      PROVE  shownEver \subseteq shownEver' /\ spilled \subseteq spilled'
  BY <1>1, ReceiverChatEffect
<1> QED
  BY <1>1 DEF Next, vars, sender, receiver, TypeLine, Enqueue, Broadcast, Record, Connect, HandleHello,
         FlushSend, FlushRemove, SyncStart, SyncPush, HandleSyncRequest, ReceiverHello,
         Refill, Cut, Notice, ReceiverEOF, RestartSender, RestartReceiver

\* The lines of a broken wire are recorded as lost.
LEMMA LostOnSpills ==
  ASSUME NEW w, NEW n \in LinesOn(w), LostOn(w) \subseteq spilled'
  PROVE  n \in Safe'
<1>1. Loss("link", n) \in spilled' /\ Loss("link", n).line = n
  BY DEF LostOn, Loss
<1> QED
  BY <1>1 DEF Safe, Spilled

\* A line that is displayed, on its way or lost in a named way remains so.
LEMMA SafeGrows ==
  TypeOK /\ WireGenuine /\ HelloFirst /\ SeenIsSettled /\ [Next]_vars => Safe \subseteq Safe'
<1> SUFFICES ASSUME TypeOK, WireGenuine, HelloFirst, SeenIsSettled, [Next]_vars,
                    NEW n, n \in Safe
             PROVE  n \in Safe'
  OBVIOUS
<1>1. shownEver \subseteq shownEver' /\ Spilled \subseteq Spilled'
  BY SettledGrows
<1>2. CASE n \in shownEver \cup Spilled
  BY <1>1, <1>2 DEF Safe
<1>3. CASE n \in InFlight
  <2>1. PICK c \in Link : link[c] \in {"up", "fin"} /\ n \in LinesOn(toR[c])
    BY <1>3 DEF InFlight
  <2>2. toR \in [Link -> Seq(ToReceiver)] /\ toR[c] \in Seq(ToReceiver)
    BY DEF TypeOK, WireType
  <2>3. ASSUME link'[c] \in {"up", "fin"}, n \in LinesOn(toR'[c]) PROVE n \in Safe'
    BY <2>3 DEF Safe, InFlight
  <2>4. ASSUME NEW C, NEW m \in ToReceiver, toR' = Write(toR, C, m), UNCHANGED link
        PROVE  n \in Safe'
    <3>1. LinesOn(toR[c]) \subseteq LinesOn(toR'[c])
      <4>1. \A i \in DOMAIN toR[c] : i \in DOMAIN toR'[c] /\ toR'[c][i] = toR[c][i]
        BY <2>2, <2>4, WriteFacts
      <4> QED
        BY <4>1, LinesOnGrows
    <3> QED
      BY <2>1, <2>3, <2>4, <3>1
  <2>5. CASE Broadcast
    <3>1. Chat(NewID, typed) \in ToReceiver
      BY ChatType, NewIDType DEF TypeOK, CliType, Line
    <3> QED
      BY <2>4, <2>5, <3>1 DEF Broadcast
  <2>6. ASSUME NEW d \in Link, FlushSend(d) PROVE n \in Safe'
    <3>1. PICK m \in flush[d], r \in Ready : toR' = Write(toR, {r}, Chat(m.id, m.line))
      BY <2>6 DEF FlushSend, First
    <3>2. Chat(m.id, m.line) \in ToReceiver
      BY ChatType DEF TypeOK, QueueType, Pending
    <3> QED
      BY <2>4, <2>6, <3>1, <3>2 DEF FlushSend
  <2>7. ASSUME NEW d \in Link, SyncPush(d) PROVE n \in Safe'
    <3>1. Chat(NewID, Head(push[d])) \in ToReceiver
      BY <2>7, SeqTail, ChatType, NewIDType DEF SyncPush, TypeOK, SyncType
    <3>2. UNCHANGED link
      BY <2>7 DEF SyncPush
    <3> QED
      BY <2>1, <2>3, <2>4, <2>7, <3>1, <3>2 DEF SyncPush
  <2>8. ASSUME NEW d \in Link, HandleSyncRequest(d) PROVE n \in Safe'
    <3> DEFINE since == GetSince(Head(toS[d]).since)
               datas == [k \in DOMAIN since |-> SyncData(Len(made) + k, since[k])]
    <3>1. datas \in Seq(ToReceiver)
      BY <2>8, DatasType DEF HandleSyncRequest
    <3>2. toR' = [toR EXCEPT ![d] = toR[d] \o datas] /\ UNCHANGED link
      BY <2>8 DEF HandleSyncRequest
    <3> HIDE DEF datas
    <3>3. toR'[c] = toR[c] \/ toR'[c] = toR[c] \o datas
      BY <2>2, <3>2
    <3>4. \A i \in DOMAIN toR[c] : i \in DOMAIN (toR[c] \o datas) /\ (toR[c] \o datas)[i] = toR[c][i]
      <4>1. Len(toR[c]) \in Nat /\ Len(datas) \in Nat
        BY <2>2, <3>1
      <4> QED
        BY <2>2, <3>1, <4>1, SeqConcat
    <3>5. LinesOn(toR[c]) \subseteq LinesOn(toR'[c])
      BY <3>3, <3>4, LinesOnGrows
    <3> QED
      BY <2>1, <2>3, <3>2, <3>5
  <2>9. ASSUME NEW d \in Link, \E T : ReceiverReads(d, T), UNCHANGED link,
               d = c => n \in shownEver' \/ n \in LinesOn(Tail(toR[c]))
        PROVE  n \in Safe'
    <3>1. toR' = [toR EXCEPT ![d] = Tail(toR[d])]
      BY <2>9 DEF ReceiverReads
    <3>2. CASE d = c
      BY <2>1, <2>2, <2>3, <2>9, <3>1, <3>2 DEF Safe
    <3>3. CASE d # c
      BY <2>1, <2>2, <2>3, <2>9, <3>1, <3>3
    <3> QED
      BY <3>2, <3>3
  <2>10. ASSUME toR[c] # <<>>, toR[c][1].type \notin {"chat", "sync_data"} \/ toR[c][1].line # n
         PROVE  n \in LinesOn(Tail(toR[c]))
    <3>1. PICK j \in DOMAIN toR[c] : toR[c][j].type \in {"chat", "sync_data"} /\ toR[c][j].line = n
      BY <2>1, LinesOnIs
    <3>2. j # 1
      BY <2>10, <3>1
    <3>3. j - 1 \in DOMAIN Tail(toR[c]) /\ Tail(toR[c])[j - 1] = toR[c][j]
      BY <2>2, <2>10, <3>2, SeqTail
    <3> QED
      BY <3>1, <3>3, LinesOnIs
  <2>11. ASSUME NEW d \in Link, ReceiverHello(d) PROVE n \in Safe'
    <3>1. d = c => toR[c] # <<>> /\ toR[c][1].type = "hello"
      BY <2>2, <2>11, SeqTail DEF ReceiverHello, ReceiverReads
    <3> QED
      BY <2>9, <2>10, <2>11, <3>1 DEF ReceiverHello
  <2>12. ASSUME NEW d \in Link, ReceiverChat(d) PROVE n \in Safe'
    <3>1. ReceiverReads(d, {"chat", "sync_data"}) /\ UNCHANGED link
      BY <2>12, ReceiverChatEffect
    <3>2. CASE d = c
      <4> DEFINE m == Head(toR[c])
      <4>1. toR[c] # <<>> /\ m = toR[c][1] /\ m # Hello /\ 1 \in DOMAIN toR[c]
        BY <2>2, <3>1, <3>2, SeqTail DEF ReceiverReads, Hello
      <4>2. rjoined[c] /\ Genuine(m)
        BY <2>1, <4>1 DEF HelloFirst, WireGenuine
      <4>3. m.line \in shownEver' \cup Spilled'
        <5>1. CASE m.id \in seen
          BY <1>1, <4>2, <5>1 DEF Genuine, SeenIsSettled
        <5>2. CASE m.id \notin seen
          BY <2>12, <3>2, <4>2, <5>2, NewIsSettled
        <5> QED
          BY <5>1, <5>2
      <4>4. CASE m.line = n
        BY <4>3, <4>4 DEF Safe
      <4>5. CASE m.line # n
        BY <2>9, <2>10, <3>1, <4>1, <4>5
      <4> QED
        BY <4>4, <4>5
    <3>3. CASE d # c
      BY <2>9, <3>1, <3>3
    <3> QED
      BY <3>2, <3>3
  <2>13. ASSUME NEW d \in Link, Connect(d) PROVE n \in Safe'
    <3>1. d # c
      BY <2>1, <2>13 DEF Connect
    <3> QED
      BY <2>1, <2>2, <2>3, <2>13, <3>1 DEF Connect, TypeOK, LinkType
  <2>14. ASSUME NEW d \in Link, Cut(d) PROVE n \in Safe'
    <3>1. CASE d = c
      BY <2>1, <2>14, <3>1, LostOnSpills DEF Cut
    <3>2. CASE d # c
      BY <2>1, <2>2, <2>3, <2>14, <3>2 DEF Cut, TypeOK, LinkType
    <3> QED
      BY <3>1, <3>2
  <2>15. ASSUME NEW d \in Link, Notice(d) PROVE n \in Safe'
    <3>1. d # c
      BY <2>1, <2>15 DEF Notice
    <3> QED
      BY <2>1, <2>3, <2>15, <3>1 DEF Notice, TypeOK, LinkType
  <2>16. ASSUME NEW d \in Link, ReceiverEOF(d) PROVE n \in Safe'
    <3>1. d # c
      BY <2>1, <2>16, LinesOnIs DEF ReceiverEOF
    <3> QED
      BY <2>1, <2>3, <2>16, <3>1 DEF ReceiverEOF, TypeOK, LinkType
  <2>17. CASE RestartSender
    BY <2>1, <2>3, <2>17 DEF RestartSender, TypeOK, LinkType
  <2>18. CASE RestartReceiver
    BY <2>1, <2>18, LostOnSpills DEF RestartReceiver
  <2>19. CASE UNCHANGED <<link, toR>>
    BY <2>1, <2>3, <2>19
  <2> QED
    BY <2>5, <2>6, <2>7, <2>8, <2>11, <2>12, <2>13, <2>14, <2>15, <2>16, <2>17, <2>18, <2>19
       DEF Next, vars, sender, TypeLine, Enqueue, Record, HandleHello, FlushRemove, SyncStart, Refill
<1> QED
  BY <1>2, <1>3 DEF Safe

\* A written line is on the connection that took it, or swallowed and on record.
LEMMA WrittenIsKept ==
  ASSUME TypeOK, NEW C \in SUBSET Conns, C # {}, NEW m \in Envelope,
         toR' = Write(toR, C, m), spilled' = spilled \cup Swallowed(C, m.line), UNCHANGED link
  PROVE  m.line \in InFlight' \cup Spilled'
<1>1. PICK c \in C : c \in Link /\ link[c] \in {"up", "cut"}
  BY DEF Conns
<1>2. CASE link[c] = "cut"
  <2>1. Loss("link", m.line) \in spilled' /\ Loss("link", m.line).line = m.line
    BY <1>1, <1>2 DEF Swallowed, Loss
  <2> QED
    BY <2>1 DEF Spilled
<1>3. CASE link[c] = "up"
  <2>1. m \in ToReceiver /\ m.type \in {"chat", "sync_data"} /\ toR \in [Link -> Seq(ToReceiver)]
    BY DEF ToReceiver, Envelope, TypeOK, WireType
  <2>2. \E i \in DOMAIN toR'[c] : toR'[c][i] = m
    BY <1>1, <1>3, <2>1, WriteFacts
  <2>3. m.line \in LinesOn(toR'[c])
    BY <2>1, <2>2, LinesOnIs
  <2> QED
    BY <1>1, <1>3, <2>3 DEF InFlight
<1> QED
  BY <1>1, <1>2, <1>3

\* A written line is safe.
LEMMA WrittenIsSafe ==
  ASSUME TypeOK, NEW C \in SUBSET Conns, C # {}, NEW m \in Envelope,
         toR' = Write(toR, C, m), spilled' = spilled \cup Swallowed(C, m.line), UNCHANGED link
  PROVE  m.line \in Safe'
BY WrittenIsKept DEF Safe

\* SendToWithID's message is an envelope for its line.
LEMMA ChatEnvelope ==
  ASSUME NEW id \in Nat, NEW n \in Line
  PROVE  Chat(id, n) \in Envelope /\ Chat(id, n).line = n
BY DEF Chat, Envelope

\* What FlushSend wrote is safe before FlushRemove takes it off the queue.
LEMMA SentIsSafeStep ==
  TypeOK /\ SentIsSafe /\ Safe \subseteq Safe' /\ [Next]_vars => SentIsSafe'
<1> SUFFICES ASSUME TypeOK, SentIsSafe, Safe \subseteq Safe', [Next]_vars,
                    NEW c \in Link, NEW m \in sent'[c]
             PROVE  m.line \in Safe'
  BY DEF SentIsSafe
<1>1. CASE m \in sent[c]
  BY <1>1 DEF SentIsSafe
<1>2. CASE m \notin sent[c]
  <2>a. ASSUME NEW d \in Link, ReceiverChat(d) PROVE UNCHANGED sent
    BY <2>a, ReceiverChatEffect DEF sender
  <2>1. FlushSend(c)
    BY <1>2, <2>a DEF Next, vars, sender, TypeOK, QueueType, TypeLine, Enqueue, Broadcast, Record, Connect,
         HandleHello, FlushSend, FlushRemove, SyncStart, SyncPush, HandleSyncRequest, ReceiverHello,
         Refill, Cut, Notice, ReceiverEOF, RestartSender, RestartReceiver
  <2>2. PICK f \in flush[c], r \in Ready :
          /\ toR' = Write(toR, {r}, Chat(f.id, f.line))
          /\ spilled' = spilled \cup Swallowed({r}, f.line)
          /\ sent' = [sent EXCEPT ![c] = {f}]
    BY <2>1 DEF FlushSend, First
  <2>3. m = f
    BY <2>2 DEF TypeOK, QueueType
  <2>4. Chat(f.id, f.line) \in Envelope /\ Chat(f.id, f.line).line = f.line
    BY ChatEnvelope DEF TypeOK, QueueType, Pending
  <2>5. UNCHANGED link /\ {r} \in SUBSET Conns /\ {r} # {}
    BY <2>1 DEF FlushSend, Ready
  <2> QED
    BY <2>2, <2>3, <2>4, <2>5, WrittenIsSafe
<1> QED
  BY <1>1, <1>2

\* A queued or sent line is kept by every action.
LEMMA OwedIsKeptStep ==
  TypeOK /\ QueueGenuine /\ FlushGenuine /\ SentIsSafe /\ OwedIsKept
    /\ Safe \subseteq Safe' /\ [Next]_vars => OwedIsKept'
<1> SUFFICES ASSUME TypeOK, QueueGenuine, FlushGenuine, SentIsSafe, OwedIsKept,
                    Safe \subseteq Safe', [Next]_vars, NEW n \in owed'
             PROVE  n \in Safe' \/ n \in InQueue'
  BY DEF OwedIsKept
<1>a. ASSUME NEW d \in Link, ReceiverChat(d) PROVE UNCHANGED <<owed, queue>>
  BY <1>a, ReceiverChatEffect DEF sender
<1>b. ASSUME NEW m \in queue \cup {Item(NewID, typed)}, NEW why, Loss(why, m.line) \in spilled'
      PROVE  m.line \in Safe'
  BY <1>b DEF Safe, Spilled, Loss
<1>1. CASE n \notin owed
  <2>1. Enqueue \/ Broadcast
    BY <1>1, <1>a DEF Next, vars, sender, TypeLine, Record, Connect,
         HandleHello, FlushSend, FlushRemove, SyncStart, SyncPush, HandleSyncRequest, ReceiverHello,
         Refill, Cut, Notice, ReceiverEOF, RestartSender, RestartReceiver
  <2>2. CASE Enqueue
    <3> DEFINE q == queue \cup {Item(NewID, typed)}
    <3>1. n = typed /\ queue' = q \ Overflow(q) /\ Item(NewID, typed).line = typed
      BY <1>1, <2>2 DEF Enqueue, Item
    <3>2. CASE Item(NewID, typed) \in queue'
      BY <3>1, <3>2 DEF InQueue
    <3>3. CASE Item(NewID, typed) \in Overflow(q)
      <4>1. Loss("full", Item(NewID, typed).line) \in spilled'
        BY <1>1, <2>2, <3>3 DEF Enqueue
      <4> QED
        BY <1>b, <3>1, <4>1
    <3> QED
      BY <3>1, <3>2, <3>3
  <2>3. CASE Broadcast
    <3>1. n = typed /\ Ready # {} /\ Ready \in SUBSET Conns
      BY <1>1, <2>3 DEF Broadcast, Ready
    <3>2. Chat(NewID, typed) \in Envelope /\ Chat(NewID, typed).line = typed
      BY ChatEnvelope, NewIDType DEF TypeOK, CliType, Line
    <3> QED
      BY <2>3, <3>1, <3>2, WrittenIsSafe DEF Broadcast
  <2> QED
    BY <2>1, <2>2, <2>3
<1>2. CASE n \in owed /\ n \in Safe
  BY <1>2
<1>3. CASE n \in owed /\ n \in InQueue
  <2>1. PICK m \in queue : m.line = n
    BY <1>3 DEF InQueue
  <2>2. CASE m \in queue'
    BY <2>1, <2>2 DEF InQueue
  <2>3. CASE m \notin queue'
    <3>1. CASE Enqueue
      <4> DEFINE q == queue \cup {Item(NewID, typed)}
      <4>1. m \in Overflow(q) /\ Loss("full", m.line) \in spilled'
        BY <2>3, <3>1 DEF Enqueue
      <4> QED
        BY <1>b, <2>1, <4>1
    <3>2. CASE RestartSender
      <4>1. Loss("torn", m.line) \in spilled'
        BY <2>3, <3>2 DEF RestartSender
      <4> QED
        BY <1>b, <2>1, <4>1
    <3>3. ASSUME NEW c \in Link, FlushRemove(c) PROVE n \in Safe'
      <4>1. PICK f \in sent[c] : queue' = Remove(queue, f.id)
        BY <3>3 DEF FlushRemove
      <4>2. m.id = f.id
        BY <2>3, <4>1 DEF Remove
      <4>3. m.line = f.line
        BY <4>1, <4>2 DEF QueueGenuine, FlushGenuine, Genuine
      <4> QED
        BY <2>1, <4>1, <4>3 DEF SentIsSafe
    <3> QED
      BY <1>a, <2>3, <3>1, <3>2, <3>3 DEF Next, vars, sender, TypeLine, Broadcast, Record, Connect,
         HandleHello, FlushSend, SyncStart, SyncPush, HandleSyncRequest, ReceiverHello,
         Refill, Cut, Notice, ReceiverEOF, RestartReceiver
  <2> QED
    BY <2>2, <2>3
<1> QED
  BY <1>1, <1>2, <1>3 DEF OwedIsKept

\* The dedup set holds only IDs whose line is displayed or lost in a named way.
LEMMA SeenIsSettledStep ==
  TypeOK /\ WireGenuine /\ HelloFirst /\ SeenIsSettled /\ [Next]_vars => SeenIsSettled'
<1> SUFFICES ASSUME TypeOK, WireGenuine, HelloFirst, SeenIsSettled, [Next]_vars, NEW id \in seen'
             PROVE  id \in DOMAIN made' /\ made'[id] \in shownEver' \cup Spilled'
  BY DEF SeenIsSettled
<1>1. CASE id \in seen
  BY <1>1, SettledGrows, MadeGrows DEF SeenIsSettled
<1>2. CASE id \notin seen
  <2>1. PICK c \in Link : ReceiverChat(c)
    BY <1>2 DEF Next, vars, receiver, TypeLine, Enqueue, Broadcast, Record, Connect, HandleHello,
         FlushSend, FlushRemove, SyncStart, SyncPush, HandleSyncRequest, ReceiverHello,
         Refill, Cut, Notice, ReceiverEOF, RestartSender, RestartReceiver
  <2> DEFINE m == Head(toR[c])
  <2>2. ReceiverReads(c, {"chat", "sync_data"})
    BY <2>1, ReceiverChatEffect
  <2>3. m = toR[c][1] /\ 1 \in DOMAIN toR[c] /\ m # Hello /\ link[c] \in {"up", "fin"}
    BY <2>2, SeqTail DEF ReceiverReads, Hello, TypeOK, WireType
  <2>4. rjoined[c] /\ Genuine(m)
    BY <2>3 DEF HelloFirst, WireGenuine
  <2>5. id = m.id /\ m.line \in shownEver' \cup Spilled'
    <3>1. seen' \subseteq seen \cup {m.id}
      BY <2>1, ReceiverChatEffect
    <3> QED
      BY <1>2, <2>1, <2>4, <3>1, NewIsSettled
  <2> QED
    BY <2>4, <2>5, MadeGrows DEF Genuine
<1> QED
  BY <1>1, <1>2

\* The dedup gate keeps the display free of repeated IDs.
LEMMA ShownStep ==
  TypeOK /\ ShownIsSeen /\ AtMostOncePerEnvelope /\ [Next]_vars
    => ShownIsSeen' /\ AtMostOncePerEnvelope'
<1> SUFFICES ASSUME TypeOK, ShownIsSeen, AtMostOncePerEnvelope, [Next]_vars
             PROVE  ShownIsSeen' /\ AtMostOncePerEnvelope'
  OBVIOUS
<1>1. ASSUME NEW c \in Link, ReceiverChat(c) PROVE ShownIsSeen' /\ AtMostOncePerEnvelope'
  <2> DEFINE m == Head(toR[c])
  <2>1. CASE UNCHANGED shown
    <3>1. seen \subseteq seen'
      BY <1>1, ReceiverChatEffect
    <3> QED
      BY <2>1, <3>1 DEF ShownIsSeen, AtMostOncePerEnvelope
  <2>2. CASE ~UNCHANGED shown
    <3>1. m.id \notin seen /\ shown' = Append(shown, m) /\ seen' = seen \cup {m.id}
      BY <1>1, <2>2, ReceiverChatEffect
    <3>2. m \in Envelope
      <4>1. ReceiverReads(c, {"chat", "sync_data"})
        BY <1>1, ReceiverChatEffect
      <4>2. m \in ToReceiver
        BY <4>1, SeqTail DEF ReceiverReads, TypeOK, WireType
      <4> QED
        BY <4>1, <4>2 DEF ReceiverReads, ToReceiver, Hello
    <3> HIDE DEF m
    <3>3. /\ DOMAIN shown = 1..Len(shown) /\ DOMAIN shown' = 1..(Len(shown) + 1)
          /\ \A i \in 1..Len(shown) : shown'[i] = shown[i]
          /\ shown'[Len(shown) + 1] = m /\ Len(shown) \in Nat
      BY <3>1, <3>2, SeqAppend DEF TypeOK, ShownType
    <3>4. \A i \in DOMAIN shown' :
            (i \in DOMAIN shown /\ shown'[i] = shown[i]) \/ i = Len(shown) + 1
      BY <3>3
    <3>5. ShownIsSeen'
      BY <3>1, <3>3, <3>4 DEF ShownIsSeen
    <3>6. AtMostOncePerEnvelope'
      BY <3>1, <3>3, <3>4 DEF ShownIsSeen, AtMostOncePerEnvelope
    <3> QED
      BY <3>5, <3>6
  <2> QED
    BY <2>1, <2>2
<1>2. CASE RestartReceiver
  BY <1>2 DEF RestartReceiver, ShownIsSeen, AtMostOncePerEnvelope
<1>3. CASE UNCHANGED <<seen, shown>>
  BY <1>3 DEF ShownIsSeen, AtMostOncePerEnvelope
<1> QED
  BY <1>1, <1>2, <1>3 DEF Next, vars, receiver, TypeLine, Enqueue, Broadcast, Record, Connect,
         HandleHello, FlushSend, FlushRemove, SyncStart, SyncPush, HandleSyncRequest, ReceiverHello,
         Refill, Cut, Notice, ReceiverEOF, RestartSender
----------------------------------------------------------------------------
\* The inductive invariant holds initially.
LEMMA IInvInit == Init => IInv
<1> SUFFICES ASSUME Init PROVE IInv
  OBVIOUS
<1>1. TypeOK
  BY TypeInit
<1> QED
  BY <1>1 DEF Init, IInv, QueueGenuine, FlushGenuine, WireGenuine, HelloFirst, SeenIsSettled,
          ShownIsSeen, SentIsSafe, OwedIsKept, AtMostOncePerEnvelope

\* The inductive invariant is inductive.
LEMMA IInvStep == IInv /\ [Next]_vars => IInv'
BY TypeStep, QueueGenuineStep, FlushGenuineStep, WireGenuineStep, HelloFirstStep, SafeGrows,
   SentIsSafeStep, OwedIsKeptStep, SeenIsSettledStep, ShownStep DEF IInv

(* While it runs the receiver displays no envelope twice, on any number of  *)
(* links, with any number of flushes, breaks and restarts: the dedup gate   *)
(* of handleMessage and the IDs that SendToWithID reuses.                   *)
THEOREM AtMostOnce == Spec => []AtMostOncePerEnvelope
BY IInvInit, IInvStep, PTL DEF Spec, IInv

(* A line that was queued or sent is displayed, queued, on its way or lost  *)
(* in one of the five named ways, whatever interleaves: Enqueue saves       *)
(* before it returns, the flush removes after SendToWithID, and the dedup   *)
(* gate drops only what was displayed or so lost.                           *)
THEOREM Conservation == Spec => []NoOtherLoss
<1>1. IInv => NoOtherLoss
  BY DEF IInv, OwedIsKept, NoOtherLoss, Safe
<1> QED
  BY <1>1, IInvInit, IInvStep, PTL DEF Spec
============================================================================
