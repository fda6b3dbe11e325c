--------------------------- MODULE MailboxProofs ---------------------------
(***************************************************************************)
(* For any number of links, lines, cuts and crashes, Delivery implements   *)
(* Mailbox, and displays what was queued in the order of the queue when    *)
(* links come one at a time.                                               *)
(***************************************************************************)
EXTENDS DeliveryProofs

\* Only a connection that is up, or that the sender has left, carries anything.
DeadIsEmpty == \A c \in Link : link[c] \notin {"up", "fin"} => toR[c] = <<>>

\* Writing leaves a connection that is not up alone.
LEMMA WriteDead ==
  ASSUME NEW w, NEW C, NEW m, NEW c \in Link, link[c] # "up"
  PROVE  Write(w, C, m)[c] = w[c]
BY DEF Write

\* Nothing is put on a dead connection, and what dies is emptied.
LEMMA DeadIsEmptyStep == TypeOK /\ DeadIsEmpty /\ [Next]_vars => DeadIsEmpty'
<1> SUFFICES ASSUME TypeOK, DeadIsEmpty, [Next]_vars,
                    NEW c \in Link, link'[c] \notin {"up", "fin"}
             PROVE  toR'[c] = <<>>
  BY DEF DeadIsEmpty
<1> USE DEF TypeOK, LinkType, WireType
<1>1. CASE UNCHANGED <<link, toR>>
  BY <1>1 DEF DeadIsEmpty
<1>2. CASE Broadcast
  BY <1>2, WriteDead DEF DeadIsEmpty, Broadcast
<1>3. ASSUME NEW d \in Link, FlushSend(d) PROVE toR'[c] = <<>>
  BY <1>3, WriteDead DEF DeadIsEmpty, FlushSend
<1>4. ASSUME NEW d \in Link, SyncPush(d) PROVE toR'[c] = <<>>
  <2>1. UNCHANGED link
    BY <1>4 DEF SyncPush
  <2>2. toR' = toR \/ \E C, m : toR' = Write(toR, C, m)
    BY <1>4 DEF SyncPush
  <2> QED
    BY <2>1, <2>2, WriteDead DEF DeadIsEmpty
<1>5. ASSUME NEW d \in Link, HandleSyncRequest(d) PROVE toR'[c] = <<>>
  BY <1>5 DEF DeadIsEmpty, HandleSyncRequest, SenderReads
<1>6. ASSUME NEW d \in Link, ReceiverHello(d) PROVE toR'[c] = <<>>
  BY <1>6 DEF DeadIsEmpty, ReceiverHello, ReceiverReads
<1>7. ASSUME NEW d \in Link, ReceiverChat(d) PROVE toR'[c] = <<>>
  BY <1>7, ReceiverChatEffect DEF DeadIsEmpty, ReceiverReads
<1>8. ASSUME NEW d \in Link, Connect(d) PROVE toR'[c] = <<>>
  BY <1>8 DEF DeadIsEmpty, Connect
<1>9. ASSUME NEW d \in Link, Cut(d) PROVE toR'[c] = <<>>
  BY <1>9 DEF DeadIsEmpty, Cut
<1>10. ASSUME NEW d \in Link, Notice(d) \/ ReceiverEOF(d) PROVE toR'[c] = <<>>
  BY <1>10 DEF DeadIsEmpty, Notice, ReceiverEOF
<1>11. CASE RestartSender
  BY <1>11 DEF DeadIsEmpty, RestartSender
<1>12. CASE RestartReceiver
  BY <1>12 DEF RestartReceiver
<1> QED
  BY <1>1, <1>2, <1>3, <1>4, <1>5, <1>6, <1>7, <1>8, <1>9, <1>10, <1>11, <1>12
     DEF Next, vars, sender, TypeLine, Enqueue, Record, HandleHello, FlushRemove, SyncStart, Refill
----------------------------------------------------------------------------
\* What the mailbox holds in Delivery.
Kept == InQueue \cup InFlight

\* What arrives on live connections alone leaves nothing behind.
LEMMA FlightGrows ==
  ASSUME \A c \in Link : link[c] \in {"up", "fin"} =>
           link'[c] \in {"up", "fin"} /\ LinesOn(toR[c]) \subseteq LinesOn(toR'[c])
  PROVE  InFlight \subseteq InFlight'
BY DEF InFlight

\* Connections that only end or are read from bring nothing new.
LEMMA FlightShrinks ==
  ASSUME \A c \in Link : link'[c] \in {"up", "fin"} =>
           link[c] \in {"up", "fin"} /\ LinesOn(toR'[c]) \subseteq LinesOn(toR[c])
  PROVE  InFlight' \subseteq InFlight
BY DEF InFlight

\* Taking the next message off a wire adds no line to it.
LEMMA TailLines ==
  ASSUME NEW w \in Seq(ToReceiver), w # <<>>
  PROVE  LinesOn(Tail(w)) \subseteq LinesOn(w)
<1> SUFFICES ASSUME NEW n, n \in LinesOn(Tail(w)) PROVE n \in LinesOn(w)
  OBVIOUS
<1>1. PICK j \in DOMAIN Tail(w) : Tail(w)[j].type \in {"chat", "sync_data"} /\ Tail(w)[j].line = n
  BY LinesOnIs
<1>2. j + 1 \in DOMAIN w /\ w[j + 1] = Tail(w)[j]
  <2>1. Len(w) \in Nat
    OBVIOUS
  <2> QED
    BY <2>1, SeqTail
<1> QED
  BY <1>1, <1>2, LinesOnIs

\* A write of message m adds the line of m to what is on its way, at most.
LEMMA WriteLines ==
  ASSUME TypeOK, NEW C, NEW m \in Envelope, toR' = Write(toR, C, m), UNCHANGED link
  PROVE  InFlight \subseteq InFlight' /\ InFlight' \subseteq InFlight \cup {m.line}
<1>1. toR \in [Link -> Seq(ToReceiver)] /\ m \in ToReceiver
  BY DEF TypeOK, WireType, ToReceiver
<1>2. ASSUME NEW c \in Link PROVE LinesOn(toR[c]) \subseteq LinesOn(toR'[c])
  <2>1. \A i \in DOMAIN toR[c] : i \in DOMAIN toR'[c] /\ toR'[c][i] = toR[c][i]
    BY <1>1, WriteFacts
  <2> QED
    BY <2>1, LinesOnGrows
<1>3. ASSUME NEW c \in Link, NEW n, n \in LinesOn(toR'[c]) PROVE n \in LinesOn(toR[c]) \cup {m.line}
  <2>1. \A i \in DOMAIN toR'[c] : (i \in DOMAIN toR[c] /\ toR'[c][i] = toR[c][i]) \/ toR'[c][i] = m
    BY <1>1, WriteFacts
  <2>2. PICK j \in DOMAIN toR'[c] : toR'[c][j].type \in {"chat", "sync_data"} /\ toR'[c][j].line = n
    BY <1>3, LinesOnIs
  <2> QED
    BY <2>1, <2>2, LinesOnIs
<1> QED
  BY <1>2, <1>3 DEF InFlight

\* What leaves the queue is on its way, displayed or lost and on record.
LEMMA QueueKept == IInv /\ [Next]_vars => InQueue \subseteq InQueue' \cup Safe'
<1> SUFFICES ASSUME IInv, [Next]_vars, NEW m \in queue, m \notin queue' PROVE m.line \in Safe'
  BY DEF InQueue
<1>1. Safe \subseteq Safe'
  BY SafeGrows DEF IInv
<1>2. \A why : Loss(why, m.line).line = m.line
  BY DEF Loss
<1>3. CASE Enqueue
  BY <1>2, <1>3 DEF Enqueue, Safe, Spilled
<1>4. ASSUME NEW c \in Link, FlushRemove(c) PROVE m.line \in Safe'
  <2> DEFINE x == CHOOSE y \in sent[c] : TRUE
  <2>1. x \in sent[c] /\ m.id = x.id
    BY <1>4 DEF FlushRemove, Remove
  <2>2. Genuine(m) /\ Genuine(x)
    BY <2>1 DEF IInv, QueueGenuine, FlushGenuine
  <2>3. m.line = x.line
    BY <2>1, <2>2 DEF Genuine
  <2> QED
    BY <1>1, <2>1, <2>3 DEF IInv, SentIsSafe
<1>5. CASE RestartSender
  BY <1>2, <1>5 DEF RestartSender, Safe, Spilled
<1>6. ASSUME NEW c \in Link, ReceiverChat(c) PROVE FALSE
  BY <1>6, ReceiverChatEffect DEF sender
<1> QED
  BY <1>3, <1>4, <1>5, <1>6 DEF Next, vars, sender, TypeLine, Broadcast, Record, Connect, HandleHello,
     FlushSend, SyncStart, SyncPush, HandleSyncRequest, ReceiverHello, Refill, Cut, Notice,
     ReceiverEOF, RestartReceiver

\* No line vanishes: Mailbox's condition on every step.
LEMMA KeptStep ==
  IInv /\ [Next]_vars => Kept \subseteq Kept' \cup shownEver' \cup Spilled'
<1> SUFFICES ASSUME IInv, [Next]_vars PROVE Kept \subseteq Kept' \cup shownEver' \cup Spilled'
  OBVIOUS
<1>1. Safe \subseteq Safe'
  BY SafeGrows DEF IInv
<1> QED
  BY <1>1, QueueKept DEF Kept, Safe
----------------------------------------------------------------------------
\* The steps that put copies on their way, or touch nothing of the mailbox.
LEMMA ResendStep ==
  ASSUME IInv, [Next]_vars, UNCHANGED <<owed, shownEver>>,
         queue \subseteq queue', InFlight \subseteq InFlight'
  PROVE  Box!Resend
<1>1. InQueue \subseteq InQueue'
  BY DEF InQueue
<1>2. Spilled \subseteq Spilled'
  BY SettledGrows
<1> QED
  BY <1>1, <1>2 DEF Box!Resend

\* The steps that give copies up.
LEMMA GiveUpStep ==
  ASSUME IInv, [Next]_vars, UNCHANGED <<owed, shownEver>>,
         queue' \subseteq queue, InFlight' \subseteq InFlight, Spilled' \subseteq Spilled \cup Kept
  PROVE  Box!GiveUp
<1>1. InQueue' \subseteq InQueue
  BY DEF InQueue
<1>2. Spilled \subseteq Spilled'
  BY SettledGrows
<1>3. Kept \subseteq Kept' \cup shownEver' \cup Spilled'
  BY KeptStep
<1> QED
  BY <1>1, <1>2, <1>3 DEF Box!GiveUp, Box!NothingVanishes, Kept

\* Enqueue for a contact accepts the line, and may push out the oldest.
LEMMA EnqueueStep ==
  ASSUME IInv, [Next]_vars, Enqueue
  PROVE  Box!Accept \/ UNCHANGED Box!vars
<1>1. CASE lastSeen = {}
  <2>1. UNCHANGED <<link, toR, queue, owed, shownEver, spilled>>
    BY <1>1 DEF Enqueue, receiver
  <2> QED
    BY <2>1 DEF Box!vars, InQueue, InFlight, Spilled
<1>2. CASE lastSeen # {}
  <2> DEFINE x == Item(NewID, typed)
             q == queue \cup {x}
  <2>1. /\ queue' = q \ Overflow(q)
        /\ spilled' = spilled \cup {Loss("full", m.line) : m \in Overflow(q)}
        /\ owed' = owed \cup {typed} /\ UNCHANGED <<link, toR, shownEver>>
    BY <1>2 DEF Enqueue, receiver
  <2>2. x.line = typed /\ \A n : Loss("full", n).line = n
    BY DEF Item, Loss
  <2>3. Overflow(q) \subseteq q
    BY DEF Overflow, First
  <2> HIDE DEF x, q
  <2>4. \A m \in q : m.line \in InQueue \cup {typed}
    BY <2>2 DEF q, InQueue
  <2>5. InFlight' = InFlight
    BY <2>1 DEF InFlight
  <2>6. InQueue' \subseteq InQueue \cup {typed}
    BY <2>1, <2>4 DEF InQueue
  <2>7. Spilled \subseteq Spilled' /\ Spilled' \subseteq Spilled \cup InQueue \cup {typed}
    BY <2>1, <2>2, <2>3, <2>4 DEF Spilled
  <2>8. typed \in InQueue' \cup Spilled'
    <3>1. x \in queue' \/ x \in Overflow(q)
      BY <2>1 DEF q
    <3>2. x \in queue' => x.line \in InQueue'
      BY DEF InQueue
    <3>3. x \in Overflow(q) => x.line \in Spilled'
      BY <2>1, <2>2 DEF Spilled
    <3> QED
      BY <2>2, <3>1, <3>2, <3>3
  <2>9. Kept \subseteq Kept' \cup shownEver' \cup Spilled'
    BY KeptStep
  <2> QED
    BY <2>1, <2>5, <2>6, <2>7, <2>8, <2>9 DEF Box!Accept, Box!NothingVanishes, Kept
<1> QED
  BY <1>1, <1>2

\* Broadcast to someone accepts the line.
LEMMA BroadcastStep ==
  ASSUME IInv, [Next]_vars, Broadcast
  PROVE  Box!Accept \/ Box!Resend
<1> DEFINE m == Chat(NewID, typed)
<1>1. m \in Envelope /\ m.line = typed
  BY ChatEnvelope, NewIDType DEF IInv, TypeOK, CliType, Line
<1>2. toR' = Write(toR, Ready, m) /\ UNCHANGED <<link, queue, shownEver>>
      /\ spilled' = spilled \cup Swallowed(Ready, m.line)
  BY <1>1 DEF Broadcast, receiver
<1> HIDE DEF m
<1>3. InFlight \subseteq InFlight' /\ InFlight' \subseteq InFlight \cup {typed}
  BY <1>1, <1>2, WriteLines DEF IInv
<1>4. InQueue' = InQueue
  BY <1>2 DEF InQueue
<1>5. CASE Ready = {}
  BY <1>2, <1>3, <1>5, ResendStep DEF Broadcast
<1>6. CASE Ready # {}
  <2>1. owed' = owed \cup {typed}
    BY <1>6 DEF Broadcast
  <2>2. typed \in InFlight' \cup Spilled'
    BY <1>1, <1>2, <1>6, WrittenIsKept DEF IInv, Ready
  <2>3. Spilled \subseteq Spilled' /\ Spilled' \subseteq Spilled \cup {typed}
    BY <1>1, <1>2 DEF Swallowed, Loss, Spilled
  <2>4. Kept \subseteq Kept' \cup shownEver' \cup Spilled'
    BY KeptStep
  <2> QED
    BY <1>2, <1>3, <1>4, <2>1, <2>2, <2>3, <2>4 DEF Box!Accept, Box!NothingVanishes, Kept
<1> QED
  BY <1>5, <1>6

\* The receiver's reader delivers, or gives up what it refuses or has had before.
LEMMA ChatStep ==
  ASSUME IInv, [Next]_vars, NEW c \in Link, ReceiverChat(c)
  PROVE  Box!Deliver \/ Box!GiveUp
<1> DEFINE m == Head(toR[c])
<1>1. /\ link[c] \in {"up", "fin"} /\ toR[c] # <<>> /\ m.type \in {"chat", "sync_data"}
      /\ toR' = [toR EXCEPT ![c] = Tail(@)]
      /\ UNCHANGED <<link, queue, owed>>
  BY ReceiverChatEffect DEF ReceiverReads, sender
<1>2. toR \in [Link -> Seq(ToReceiver)] /\ toR[c] \in Seq(ToReceiver)
  BY DEF IInv, TypeOK, WireType
<1>3. m = toR[c][1] /\ 1 \in DOMAIN toR[c]
  BY <1>1, <1>2, SeqTail
<1>4. m.line \in InFlight
  <2>1. m.line \in LinesOn(toR[c])
    BY <1>1, <1>3, LinesOnIs
  <2> QED
    BY <1>1, <2>1 DEF InFlight
<1>5. InFlight' \subseteq InFlight
  <2>1. ASSUME NEW d \in Link PROVE LinesOn(toR'[d]) \subseteq LinesOn(toR[d])
    BY <1>1, <1>2, TailLines
  <2> QED
    BY <1>1, <2>1, FlightShrinks
<1>6. rjoined[c]
  BY <1>1, <1>3 DEF IInv, HelloFirst, Hello
<1>7. \/ UNCHANGED <<shownEver, spilled>>
      \/ UNCHANGED spilled /\ shownEver' = shownEver \cup {m.line}
      \/ UNCHANGED shownEver /\ \E why : spilled' = spilled \cup {Loss(why, m.line)}
  BY <1>6, ReceiverChatEffect
<1>8. Kept \subseteq Kept' \cup shownEver' \cup Spilled'
  BY KeptStep
<1> HIDE DEF m
<1>9. CASE UNCHANGED shownEver
  <2>1. Spilled' \subseteq Spilled \cup {m.line}
    BY <1>7, <1>9 DEF Spilled, Loss
  <2> QED
    BY <1>1, <1>4, <1>5, <1>9, <2>1, GiveUpStep DEF Kept
<1>10. CASE UNCHANGED spilled /\ shownEver' = shownEver \cup {m.line}
  <2>1. InQueue' = InQueue /\ Spilled' = Spilled
    BY <1>1, <1>10 DEF InQueue, Spilled
  <2> QED
    BY <1>1, <1>4, <1>5, <1>8, <1>10, <2>1 DEF Box!Deliver, Box!NothingVanishes, Kept
<1> QED
  BY <1>7, <1>9, <1>10

\* Writing, reading and ending connections, as far as lines on their way go.
LEMMA FlightStep ==
  ASSUME IInv, [Next]_vars
  PROVE  /\ \A c \in Link : FlushSend(c) \/ SyncPush(c) \/ HandleSyncRequest(c) \/ ReceiverHello(c)
                 \/ Connect(c) \/ Notice(c) \/ ReceiverEOF(c) => InFlight \subseteq InFlight'
         /\ RestartSender => InFlight \subseteq InFlight' /\ InFlight' \subseteq InFlight
         /\ \A c \in Link : Cut(c) => InFlight' \subseteq InFlight
         /\ RestartReceiver => InFlight' \subseteq InFlight
<1>1. toR \in [Link -> Seq(ToReceiver)] /\ link \in [Link -> {"new", "up", "cut", "fin", "closed"}]
  BY DEF IInv, TypeOK, WireType, LinkType
<1>2. ASSUME NEW c \in Link, FlushSend(c) PROVE InFlight \subseteq InFlight'
  <2>1. PICK m \in flush[c], d \in Ready : toR' = Write(toR, {d}, Chat(m.id, m.line))
    BY <1>2 DEF FlushSend, First
  <2>2. Chat(m.id, m.line) \in Envelope
    BY ChatEnvelope DEF IInv, TypeOK, QueueType, Pending
  <2>3. UNCHANGED link
    BY <1>2 DEF FlushSend
  <2> QED
    BY <2>1, <2>2, <2>3, WriteLines DEF IInv
<1>3. ASSUME NEW c \in Link, SyncPush(c) PROVE InFlight \subseteq InFlight'
  <2>1. UNCHANGED link
    BY <1>3 DEF SyncPush
  <2>2. CASE UNCHANGED toR
    BY <2>1, <2>2 DEF InFlight
  <2>3. CASE \E d \in Ready : toR' = Write(toR, {d}, Chat(NewID, Head(push[c])))
    <3>1. Head(push[c]) \in Line
      BY <1>3, SeqTail DEF SyncPush, IInv, TypeOK, SyncType
    <3>2. Chat(NewID, Head(push[c])) \in Envelope
      BY <3>1, ChatEnvelope, NewIDType DEF IInv, TypeOK
    <3> QED
      BY <2>1, <2>3, <3>2, WriteLines DEF IInv
  <2> QED
    BY <1>3, <2>2, <2>3 DEF SyncPush
<1>4. ASSUME NEW c \in Link, HandleSyncRequest(c) PROVE InFlight \subseteq InFlight'
  <2> DEFINE since == GetSince(Head(toS[c]).since)
             datas == [k \in DOMAIN since |-> SyncData(Len(made) + k, since[k])]
  <2>1. datas \in Seq(ToReceiver)
    BY <1>4, DatasType DEF HandleSyncRequest, IInv
  <2>2. toR' = [toR EXCEPT ![c] = toR[c] \o datas] /\ UNCHANGED link
    BY <1>4 DEF HandleSyncRequest
  <2> HIDE DEF datas
  <2>3. \A i \in DOMAIN toR[c] : i \in DOMAIN (toR[c] \o datas) /\ (toR[c] \o datas)[i] = toR[c][i]
    <3>1. toR[c] \in Seq(ToReceiver) /\ Len(toR[c]) \in Nat /\ Len(datas) \in Nat
      BY <1>1, <2>1
    <3> QED
      BY <2>1, <3>1, SeqConcat
  <2>4. LinesOn(toR[c]) \subseteq LinesOn(toR[c] \o datas)
    BY <2>3, LinesOnGrows
  <2> QED
    BY <1>1, <2>2, <2>4, FlightGrows
<1>5. ASSUME NEW c \in Link, ReceiverHello(c) PROVE InFlight \subseteq InFlight'
  <2>1. toR[c] # <<>> /\ Head(toR[c]).type = "hello" /\ toR' = [toR EXCEPT ![c] = Tail(@)] /\ UNCHANGED link
    BY <1>5 DEF ReceiverHello, ReceiverReads
  <2>2. LinesOn(toR[c]) \subseteq LinesOn(Tail(toR[c]))
    <3> SUFFICES ASSUME NEW n, n \in LinesOn(toR[c]) PROVE n \in LinesOn(Tail(toR[c]))
      OBVIOUS
    <3>1. PICK j \in DOMAIN toR[c] : toR[c][j].type \in {"chat", "sync_data"} /\ toR[c][j].line = n
      BY LinesOnIs
    <3>2. toR[c] \in Seq(ToReceiver) /\ Len(toR[c]) \in Nat
      BY <1>1
    <3>3. j # 1
      BY <2>1, <3>1, <3>2, SeqTail
    <3>4. j - 1 \in DOMAIN Tail(toR[c]) /\ Tail(toR[c])[j - 1] = toR[c][j]
      BY <2>1, <3>2, <3>3, SeqTail
    <3> QED
      BY <3>1, <3>4, LinesOnIs
  <2> QED
    BY <1>1, <2>1, <2>2, FlightGrows
<1>6. ASSUME NEW c \in Link, Connect(c) PROVE InFlight \subseteq InFlight'
  BY <1>1, <1>6, FlightGrows DEF Connect
<1>7. ASSUME NEW c \in Link, Notice(c) PROVE InFlight \subseteq InFlight'
  BY <1>1, <1>7, FlightGrows DEF Notice
<1>8. ASSUME NEW c \in Link, ReceiverEOF(c) PROVE InFlight \subseteq InFlight'
  <2>1. LinesOn(toR[c]) = {}
    BY <1>8 DEF ReceiverEOF, LinesOn
  <2> QED
    BY <1>1, <1>8, <2>1 DEF ReceiverEOF, InFlight
<1>9. ASSUME RestartSender PROVE InFlight \subseteq InFlight' /\ InFlight' \subseteq InFlight
  <2>1. UNCHANGED toR /\ \A c \in Link : link[c] \in {"up", "fin"} <=> link'[c] \in {"up", "fin"}
    BY <1>1, <1>9 DEF RestartSender
  <2> QED
    BY <2>1, FlightGrows, FlightShrinks
<1>10. ASSUME NEW c \in Link, Cut(c) PROVE InFlight' \subseteq InFlight
  <2>1. LinesOn(<<>>) = {}
    BY DEF LinesOn
  <2> QED
    BY <1>1, <1>10, <2>1, FlightShrinks DEF Cut
<1>11. ASSUME RestartReceiver PROVE InFlight' \subseteq InFlight
  <2>1. LinesOn(<<>>) = {}
    BY DEF LinesOn
  <2>2. \A c \in Link : toR'[c] = <<>>
    BY <1>11 DEF RestartReceiver
  <2> QED
    BY <2>1, <2>2 DEF InFlight
<1> QED
  BY <1>2, <1>3, <1>4, <1>5, <1>6, <1>7, <1>8, <1>9, <1>10, <1>11

\* Every step of Delivery is a step of the mailbox or leaves it as it is.
LEMMA MailboxStep == IInv /\ DeadIsEmpty /\ [Next]_vars => [Box!Next]_(Box!vars)
<1> SUFFICES ASSUME IInv, DeadIsEmpty, [Next]_vars PROVE [Box!Next]_(Box!vars)
  OBVIOUS
<1> USE DEF Box!Next
<1>1. CASE Enqueue
  BY <1>1, EnqueueStep
<1>2. CASE Broadcast
  BY <1>2, BroadcastStep
<1>3. ASSUME NEW c \in Link, ReceiverChat(c) PROVE Box!Next
  BY <1>3, ChatStep
<1>4. ASSUME NEW c \in Link,
             FlushSend(c) \/ SyncPush(c) \/ HandleSyncRequest(c) \/ ReceiverHello(c)
               \/ Connect(c) \/ Notice(c) \/ ReceiverEOF(c)
      PROVE  Box!Next
  <2>1. InFlight \subseteq InFlight'
    BY <1>4, FlightStep
  <2>2. UNCHANGED <<owed, shownEver, queue>>
    BY <1>4 DEF FlushSend, SyncPush, HandleSyncRequest, ReceiverHello, Connect, Notice, ReceiverEOF,
       sender, receiver
  <2> QED
    BY <2>1, <2>2, ResendStep
<1>5. CASE UNCHANGED <<link, toR, queue, owed, shownEver, spilled>>
  BY <1>5 DEF Box!vars, InQueue, InFlight, Spilled
<1>6. ASSUME NEW c \in Link, FlushRemove(c) PROVE Box!Next
  <2>1. queue' \subseteq queue /\ UNCHANGED <<link, toR, owed, shownEver, spilled>>
    BY <1>6 DEF FlushRemove, Remove, receiver
  <2>2. InFlight' = InFlight /\ Spilled' = Spilled
    BY <2>1 DEF InFlight, Spilled
  <2> QED
    BY <2>1, <2>2, GiveUpStep
<1>7. ASSUME NEW c \in Link, Cut(c) PROVE Box!Next
  <2>1. UNCHANGED <<queue, owed, shownEver>> /\ link[c] = "up" /\ spilled' = spilled \cup LostOn(toR[c])
    BY <1>7 DEF Cut
  <2>2. Spilled' \subseteq Spilled \cup LinesOn(toR[c])
    BY <2>1 DEF Spilled, LostOn, Loss
  <2>3. LinesOn(toR[c]) \subseteq InFlight
    BY <2>1 DEF InFlight
  <2> QED
    BY <1>7, <2>1, <2>2, <2>3, FlightStep, GiveUpStep DEF Kept
<1>8. CASE RestartSender
  <2>1. UNCHANGED <<owed, shownEver>>
    BY <1>8 DEF RestartSender, receiver
  <2>2. CASE UNCHANGED queue
    BY <1>8, <2>1, <2>2, FlightStep, ResendStep
  <2>3. CASE queue' = {} /\ spilled' = spilled \cup {Loss("torn", m.line) : m \in queue}
    <3>1. Spilled' \subseteq Spilled \cup InQueue
      BY <2>3 DEF Spilled, InQueue, Loss
    <3> QED
      BY <1>8, <2>1, <2>3, <3>1, FlightStep, GiveUpStep DEF Kept
  <2> QED
    BY <1>8, <2>2, <2>3 DEF RestartSender
<1>9. CASE RestartReceiver
  <2>1. /\ UNCHANGED <<queue, owed, shownEver>>
        /\ spilled' = spilled \cup UNION {LostOn(toR[c]) : c \in Link}
    BY <1>9 DEF RestartReceiver
  <2>2. LinesOn(<<>>) = {}
    BY DEF LinesOn
  <2>3. \A c \in Link : LinesOn(toR[c]) \subseteq InFlight
    BY <2>2 DEF InFlight, DeadIsEmpty
  <2>4. \A c \in Link : \A x \in LostOn(toR[c]) : x.line \in LinesOn(toR[c])
    BY DEF LostOn, Loss
  <2>5. Spilled' \subseteq Spilled \cup InFlight
    BY <2>1, <2>3, <2>4 DEF Spilled
  <2> QED
    BY <1>9, <2>1, <2>5, FlightStep, GiveUpStep DEF Kept
<1> QED
  BY <1>1, <1>2, <1>3, <1>4, <1>5, <1>6, <1>7, <1>8, <1>9
     DEF Next, vars, sender, receiver, TypeLine, Record, HandleHello, SyncStart, Refill

(* Queue, connections and delta sync implement the mailbox: no interleaving *)
(* of flushes, syncs, breaks and restarts, on any number of links and with  *)
(* any number of lines, takes a line out that is neither displayed nor lost *)
(* in a named way, or displays one that was not there.                      *)
THEOREM ImplementsMailbox == Spec => DeliversAsMailbox
<1>1. Init => Box!Init /\ DeadIsEmpty
  BY DEF Init, Box!Init, DeadIsEmpty, InQueue, InFlight, Spilled, LinesOn
<1>2. IInv => TypeOK
  BY DEF IInv
<1> QED
  BY <1>1, <1>2, IInvInit, IInvStep, DeadIsEmptyStep, MailboxStep, PTL DEF Spec, DeliversAsMailbox, Box!Spec
----------------------------------------------------------------------------
\* The IDs of Q on wire w, and that they grow along it.
IDsOn(w, Q) == {w[i].id : i \in {j \in DOMAIN w : w[j] # Hello /\ w[j].id \in Q}}
Sorted(w, Q) ==
  \A i, j \in DOMAIN w :
    i < j /\ w[i] # Hello /\ w[j] # Hello /\ w[i].id \in Q /\ w[j].id \in Q
      => w[i].id < w[j].id

WireIDs(c) == IDsOn(toR[c], queued)
ShownIDs == {shown[i].id : i \in DOMAIN shown} \cap queued

\* One link after the other.
Live(c) == link[c] \notin {"new", "closed"}
OneAtATime == \A c, d \in Link : Live(c) /\ Live(d) => c = d

\* A hello handler flushes while the sender has the connection, one by one.
FlushIsLive ==
  \A c \in Link :
    /\ flush[c] \cup sent[c] # {} => link[c] \in {"up", "cut"}
    /\ \A m, n \in sent[c] : m = n

QueuedIsMade == queued \subseteq DOMAIN made

(* What was displayed comes before what is on the wire, that before what    *)
(* is still to flush, and that before the rest of the queue.  A message     *)
(* that was sent and not yet removed is on the wire and in the queue.       *)
WireSorted == \A c \in Link : Sorted(toR[c], queued)
WireInOrder ==
  \A c \in Link : \A x \in WireIDs(c) :
    /\ \A y \in ShownIDs : y <= x
    /\ \A m \in flush[c] : x < m.id
    /\ \A m \in queue : x < m.id \/ (x = m.id /\ (link[c] = "fin" \/ m \in sent[c]))
ShownInOrder ==
  \A x \in ShownIDs :
    /\ \A m \in queue : x <= m.id
    /\ \A c \in Link : \A m \in flush[c] : x <= m.id
FlushInOrder ==
  \A c \in Link : \A m \in flush[c], n \in queue :
    n \in flush[c] \/ n \in sent[c] \/ m.id < n.id

InOrder == WireInOrder /\ ShownInOrder /\ FlushInOrder

OrderInv ==
  /\ IInv /\ DeadIsEmpty /\ FlushIsLive /\ QueuedIsMade
  /\ ~sc.parallel => OneAtATime /\ WireSorted /\ InOrder /\ QueuedInOrder
----------------------------------------------------------------------------
\* An envelope written behind the others.
LEMMA AppendIDs ==
  ASSUME NEW w \in Seq(ToReceiver), NEW m \in Envelope, NEW Q \in SUBSET Nat
  PROVE  /\ \A x \in IDsOn(Append(w, m), Q) : x \in IDsOn(w, Q) \/ (x = m.id /\ x \in Q)
         /\ Sorted(w, Q) /\ (m.id \in Q => \A x \in IDsOn(w, Q) : x < m.id)
              => Sorted(Append(w, m), Q)
<1> DEFINE v == Append(w, m)
<1>1. m \in ToReceiver
  BY DEF ToReceiver
<1>2. /\ Len(w) \in Nat /\ DOMAIN w = 1..Len(w) /\ DOMAIN v = 1..(Len(w) + 1)
      /\ \A i \in 1..Len(w) : v[i] = w[i]
      /\ v[Len(w) + 1] = m
  BY <1>1, SeqAppend
<1> HIDE DEF v
<1>3. \A i \in DOMAIN v : (i \in DOMAIN w /\ v[i] = w[i]) \/ (i = Len(w) + 1 /\ v[i] = m)
  BY <1>2
<1>4. \A x \in IDsOn(v, Q) : x \in IDsOn(w, Q) \/ (x = m.id /\ x \in Q)
  BY <1>3 DEF IDsOn
<1>5. ASSUME Sorted(w, Q), m.id \in Q => \A x \in IDsOn(w, Q) : x < m.id,
             NEW i \in DOMAIN v, NEW j \in DOMAIN v, i < j, v[i] # Hello,
             v[j] # Hello, v[i].id \in Q, v[j].id \in Q
      PROVE  v[i].id < v[j].id
  <2>1. i \in DOMAIN w /\ v[i] = w[i]
    BY <1>2, <1>3, <1>5
  <2>2. CASE j \in DOMAIN w /\ v[j] = w[j]
    BY <1>5, <2>1, <2>2 DEF Sorted
  <2>3. CASE v[j] = m
    <3>1. v[i].id \in IDsOn(w, Q)
      BY <1>5, <2>1 DEF IDsOn
    <3> QED BY <1>5, <2>3, <3>1
  <2> QED BY <1>3, <2>2, <2>3
<1>6. Sorted(w, Q) /\ (m.id \in Q => \A x \in IDsOn(w, Q) : x < m.id) => Sorted(v, Q)
  BY <1>5 DEF Sorted
<1> QED BY <1>4, <1>6 DEF v

\* The receiver takes the first message off a wire.
LEMMA TailIDs ==
  ASSUME NEW w \in Seq(ToReceiver), w # <<>>, NEW Q \in SUBSET Nat, Sorted(w, Q)
  PROVE  /\ IDsOn(Tail(w), Q) \subseteq IDsOn(w, Q) /\ Sorted(Tail(w), Q)
         /\ Head(w) # Hello /\ Head(w).id \in Q
              => /\ Head(w).id \in IDsOn(w, Q)
                 /\ \A x \in IDsOn(Tail(w), Q) : Head(w).id < x
<1> DEFINE v == Tail(w)
<1>1. /\ Len(w) \in Nat /\ DOMAIN w = 1..Len(w) /\ DOMAIN v = 1..(Len(w) - 1)
      /\ \A i \in 1..(Len(w) - 1) : v[i] = w[i + 1]
      /\ Head(w) = w[1] /\ 1 \in DOMAIN w
  BY SeqTail
<1> HIDE DEF v
<1>2. \A i \in DOMAIN v : i + 1 \in DOMAIN w /\ 1 < i + 1 /\ v[i] = w[i + 1]
  BY <1>1
<1>3. IDsOn(v, Q) \subseteq IDsOn(w, Q)
  BY <1>2 DEF IDsOn
<1>4. ASSUME NEW i \in DOMAIN v, NEW j \in DOMAIN v, i < j, v[i] # Hello,
             v[j] # Hello, v[i].id \in Q, v[j].id \in Q
      PROVE  v[i].id < v[j].id
  <2>1. i + 1 < j + 1
    BY <1>1, <1>4
  <2> QED BY <1>2, <1>4, <2>1 DEF Sorted
<1>5. ASSUME Head(w) # Hello, Head(w).id \in Q
      PROVE  /\ Head(w).id \in IDsOn(w, Q)
             /\ \A x \in IDsOn(v, Q) : Head(w).id < x
  <2>1. Head(w).id \in IDsOn(w, Q)
    BY <1>1, <1>5 DEF IDsOn
  <2>2. ASSUME NEW i \in DOMAIN v, v[i] # Hello, v[i].id \in Q
        PROVE  Head(w).id < v[i].id
    BY <1>1, <1>2, <1>5, <2>2 DEF Sorted
  <2> QED BY <2>1, <2>2 DEF IDsOn
<1>6. Sorted(v, Q)
  BY <1>4 DEF Sorted
<1> QED BY <1>3, <1>5, <1>6 DEF v

\* Data messages with other IDs behind the others.
LEMMA ConcatIDs ==
  ASSUME NEW w \in Seq(ToReceiver), NEW r \in Seq(ToReceiver), NEW Q \in SUBSET Nat,
         \A i \in DOMAIN r : r[i].id \notin Q
  PROVE  IDsOn(w \o r, Q) \subseteq IDsOn(w, Q) /\ (Sorted(w, Q) => Sorted(w \o r, Q))
<1> DEFINE v == w \o r
<1>1. /\ Len(w) \in Nat /\ Len(r) \in Nat
      /\ DOMAIN w = 1..Len(w) /\ DOMAIN r = 1..Len(r) /\ DOMAIN v = 1..(Len(w) + Len(r))
      /\ \A i \in 1..Len(w) : v[i] = w[i]
      /\ \A i \in 1..Len(r) : v[Len(w) + i] = r[i]
  BY SeqConcat
<1> HIDE DEF v
<1>2. ASSUME NEW i \in DOMAIN v, v[i].id \in Q PROVE i \in DOMAIN w /\ v[i] = w[i]
  <2>1. CASE i <= Len(w)
    BY <1>1, <2>1
  <2>2. CASE ~(i <= Len(w))
    <3>1. i - Len(w) \in 1..Len(r) /\ i = Len(w) + (i - Len(w))
      BY <1>1, <2>2
    <3>2. v[i] = r[i - Len(w)]
      BY <1>1, <3>1
    <3> QED BY <1>1, <1>2, <3>1, <3>2
  <2> QED BY <2>1, <2>2
<1>3. IDsOn(v, Q) \subseteq IDsOn(w, Q)
  BY <1>2 DEF IDsOn
<1>4. Sorted(w, Q) => Sorted(v, Q)
  BY <1>2 DEF Sorted
<1> QED BY <1>3, <1>4 DEF v

\* An empty wire, and one with only the hello.
LEMMA BareIDs ==
  ASSUME NEW Q
  PROVE  /\ IDsOn(<<>>, Q) = {} /\ Sorted(<<>>, Q)
         /\ IDsOn(<<Hello>>, Q) = {} /\ Sorted(<<Hello>>, Q)
BY DEF IDsOn, Sorted

\* Writing an envelope on one of the connections.
LEMMA WriteIDs ==
  ASSUME TypeOK, NEW C, NEW m \in Envelope, NEW c \in Link, WireSorted,
         c \in C /\ link[c] = "up" /\ m.id \in queued => \A x \in WireIDs(c) : x < m.id
  PROVE  LET v == Write(toR, C, m)[c]
         IN  /\ \A x \in IDsOn(v, queued) :
                  \/ x \in WireIDs(c)
                  \/ x = m.id /\ x \in queued /\ c \in C /\ link[c] = "up"
             /\ Sorted(v, queued)
<1>1. toR[c] \in Seq(ToReceiver) /\ queued \in SUBSET Nat /\ Sorted(toR[c], queued)
  BY DEF TypeOK, WireType, HistoryType, WireSorted
<1>2. CASE c \in C /\ link[c] = "up"
  <2>1. Write(toR, C, m)[c] = Append(toR[c], m)
    BY <1>2 DEF Write
  <2> QED BY <1>1, <1>2, <2>1, AppendIDs DEF WireIDs
<1>3. CASE ~(c \in C /\ link[c] = "up")
  <2>1. Write(toR, C, m)[c] = toR[c]
    BY <1>3 DEF Write
  <2> QED BY <1>1, <2>1 DEF WireIDs
<1> QED BY <1>2, <1>3
----------------------------------------------------------------------------
\* The scenario is chosen once.
LEMMA ScKept == [Next]_vars => sc' = sc
<1>1. ASSUME NEW c \in Link, ReceiverChat(c) PROVE sc' = sc
  BY <1>1 DEF ReceiverChat, ReceiverShow, ReceiverDuplicate, ReceiverRefuse,
              ReceiverGarbled, counters
<1> QED
  BY <1>1 DEF Next, vars, counters, TypeLine, Enqueue, Broadcast, Record, Connect,
      HandleHello, FlushSend, FlushRemove, SyncStart, SyncPush, HandleSyncRequest,
      ReceiverHello, Refill, Cut, Notice, ReceiverEOF, RestartSender, RestartReceiver

\* Only the handler of a hello flushes, and the sender then has the connection.
LEMMA FlushIsLiveStep == TypeOK /\ FlushIsLive /\ [Next]_vars => FlushIsLive'
<1> SUFFICES ASSUME TypeOK, FlushIsLive, [Next]_vars, NEW c \in Link
             PROVE  /\ flush'[c] \cup sent'[c] # {} => link'[c] \in {"up", "cut"}
                    /\ \A m, n \in sent'[c] : m = n
  BY DEF FlushIsLive
<1> DEFINE Goal == /\ flush'[c] \cup sent'[c] # {} => link'[c] \in {"up", "cut"}
                   /\ \A m, n \in sent'[c] : m = n
<1> USE DEF TypeOK, LinkType, QueueType
<1>1. CASE UNCHANGED <<link, flush, sent>>
  BY <1>1 DEF FlushIsLive
<1>2. ASSUME NEW d \in Link, Connect(d) PROVE Goal
  BY <1>2 DEF FlushIsLive, Connect
<1>3. ASSUME NEW d \in Link, HandleHello(d) PROVE Goal
  BY <1>3 DEF FlushIsLive, HandleHello, SenderReads
<1>4. ASSUME NEW d \in Link, FlushSend(d) PROVE Goal
  BY <1>4 DEF FlushIsLive, FlushSend
<1>5. ASSUME NEW d \in Link, FlushRemove(d) PROVE Goal
  BY <1>5 DEF FlushIsLive, FlushRemove
<1>6. ASSUME NEW d \in Link, Cut(d) \/ Notice(d) \/ ReceiverEOF(d) PROVE Goal
  BY <1>6 DEF FlushIsLive, Cut, Notice, ReceiverEOF, sender
<1>7. CASE RestartSender
  BY <1>7 DEF RestartSender
<1>8. CASE RestartReceiver
  BY <1>8 DEF FlushIsLive, RestartReceiver
<1>9. ASSUME NEW d \in Link, ReceiverChat(d) PROVE Goal
  BY <1>1, <1>9, ReceiverChatEffect DEF sender
<1> QED
  BY <1>1, <1>2, <1>3, <1>4, <1>5, <1>6, <1>7, <1>8, <1>9
  DEF Next, vars, sender, TypeLine, Enqueue, Broadcast, Record, SyncStart, SyncPush,
      HandleSyncRequest, ReceiverHello, Refill

\* Enqueue makes the IDs that it queues.
LEMMA QueuedIsMadeStep == TypeOK /\ QueuedIsMade /\ [Next]_vars => QueuedIsMade'
<1> SUFFICES ASSUME TypeOK, QueuedIsMade, [Next]_vars PROVE QueuedIsMade'
  OBVIOUS
<1>1. CASE UNCHANGED queued
  BY <1>1, MadeGrows DEF QueuedIsMade
<1>2. CASE Enqueue
  <2>1. CASE lastSeen # {}
    <3>1. queued' = queued \cup {NewID} /\ made' = Append(made, typed)
      BY <1>2, <2>1 DEF Enqueue, Mint
    <3>2. made \in Seq(Line) /\ typed \in Line /\ Len(made) \in Nat
      BY DEF TypeOK, MadeType, CliType, Line
    <3>3. NewID \in DOMAIN made'
      BY <3>1, <3>2, SeqAppend DEF NewID
    <3> QED BY <3>1, <3>3, MadeGrows DEF QueuedIsMade
  <2>2. CASE lastSeen = {}
    BY <1>1, <1>2, <2>2 DEF Enqueue
  <2> QED BY <2>1, <2>2
<1>3. ASSUME NEW c \in Link, ReceiverChat(c) PROVE UNCHANGED queued
  BY <1>3, ReceiverChatEffect DEF sender
<1> QED
  BY <1>1, <1>2, <1>3 DEF Next, vars, sender, TypeLine, Broadcast, Record, Connect,
      HandleHello, FlushSend, FlushRemove, SyncStart, SyncPush, HandleSyncRequest,
      ReceiverHello, Refill, Cut, Notice, ReceiverEOF, RestartSender, RestartReceiver

\* A link comes up when the others are gone.
LEMMA OneAtATimeStep ==
  TypeOK /\ ~sc.parallel /\ OneAtATime /\ [Next]_vars => OneAtATime'
<1> SUFFICES ASSUME TypeOK, ~sc.parallel, OneAtATime, [Next]_vars PROVE OneAtATime'
  OBVIOUS
<1> USE DEF TypeOK, LinkType, OneAtATime, Live
<1>1. CASE UNCHANGED link
  BY <1>1
<1>2. ASSUME NEW d \in Link, Connect(d) PROVE OneAtATime'
  BY <1>2 DEF Connect
<1>3. ASSUME NEW d \in Link, Cut(d) \/ Notice(d) \/ ReceiverEOF(d) PROVE OneAtATime'
  BY <1>3 DEF Cut, Notice, ReceiverEOF
<1>4. ASSUME NEW d \in Link, ReceiverChat(d) PROVE UNCHANGED link
  BY <1>4, ReceiverChatEffect
<1>5. CASE RestartSender \/ RestartReceiver
  <2>1. \A c \in Link : Live(c)' => Live(c)
    BY <1>5 DEF RestartSender, RestartReceiver
  <2> QED BY <2>1
<1> QED
  BY <1>1, <1>2, <1>3, <1>4, <1>5 DEF Next, vars, TypeLine, Enqueue, Broadcast, Record,
      HandleHello, FlushSend, FlushRemove, SyncStart, SyncPush, HandleSyncRequest,
      ReceiverHello, Refill
----------------------------------------------------------------------------
\* No new queued ID comes on a wire, and the wires stay sorted.
WiresKept == WireSorted' /\ \A c \in Link : WireIDs(c)' \subseteq WireIDs(c)

\* The order is kept when the flush stands still and nothing is displayed.
LEMMA OrderKept ==
  ASSUME InOrder, WiresKept, ShownIDs' \subseteq ShownIDs, UNCHANGED <<queue, flush, sent>>,
         \A c \in Link : link'[c] = link[c] \/ WireIDs(c)' = {}
  PROVE  InOrder'
<1>1. WireInOrder'
  BY DEF InOrder, WiresKept, WireInOrder
<1>2. ShownInOrder'
  BY DEF InOrder, ShownInOrder
<1>3. FlushInOrder'
  BY DEF InOrder, FlushInOrder
<1> QED BY <1>1, <1>2, <1>3 DEF InOrder

\* A wire that is left alone or taken from keeps the order.
LEMMA WiresRead ==
  ASSUME TypeOK, WireSorted, UNCHANGED queued,
         \A c \in Link : \/ toR'[c] = toR[c]
                         \/ toR[c] # <<>> /\ toR'[c] = Tail(toR[c])
                         \/ toR'[c] \in {<<>>, <<Hello>>}
  PROVE  WiresKept
<1> SUFFICES ASSUME NEW c \in Link
             PROVE  /\ IDsOn(toR'[c], queued) \subseteq IDsOn(toR[c], queued)
                    /\ Sorted(toR'[c], queued)
  BY DEF WiresKept, WireSorted, WireIDs
<1>1. toR[c] \in Seq(ToReceiver) /\ queued \in SUBSET Nat /\ Sorted(toR[c], queued)
  BY DEF TypeOK, WireType, HistoryType, WireSorted
<1>2. CASE toR'[c] = toR[c]
  BY <1>1, <1>2
<1>3. CASE toR[c] # <<>> /\ toR'[c] = Tail(toR[c])
  BY <1>1, <1>3, TailIDs
<1>4. CASE toR'[c] \in {<<>>, <<Hello>>}
  BY <1>4, BareIDs
<1> QED BY <1>2, <1>3, <1>4

\* A message that is not from the queue is written on some of the wires.
LEMMA WiresWrite ==
  ASSUME TypeOK, WireSorted, UNCHANGED queued, NEW C, NEW m \in Envelope,
         m.id \notin queued, toR' = Write(toR, C, m)
  PROVE  WiresKept
<1> SUFFICES ASSUME NEW c \in Link
             PROVE  /\ IDsOn(toR'[c], queued) \subseteq IDsOn(toR[c], queued)
                    /\ Sorted(toR'[c], queued)
  BY DEF WiresKept, WireSorted, WireIDs
<1> QED BY WriteIDs DEF WireIDs

\* nextEnvelopeID makes an ID that was not queued.
LEMMA NewIsNotQueued ==
  TypeOK /\ QueuedIsMade => NewID \in Nat /\ \A x \in queued : x < NewID
BY DEF TypeOK, MadeType, QueuedIsMade, NewID
----------------------------------------------------------------------------
\* The steps that neither flush nor queue, display or write.
LEMMA IdleOrder ==
  ASSUME TypeOK, WireSorted, InOrder, UNCHANGED <<queue, flush, sent, queued>>,
         shown' \in {shown, <<>>},
         \A c \in Link : \/ toR'[c] = toR[c] /\ link'[c] = link[c]
                         \/ /\ toR[c] # <<>> /\ toR'[c] = Tail(toR[c])
                            /\ link'[c] = link[c]
                         \/ toR'[c] \in {<<>>, <<Hello>>}
  PROVE  WireSorted' /\ InOrder'
<1>1. WiresKept
  BY WiresRead
<1>2. ShownIDs' \subseteq ShownIDs
  BY DEF ShownIDs
<1>3. \A c \in Link : link'[c] = link[c] \/ WireIDs(c)' = {}
  <2>1. \A c \in Link : toR'[c] \in {<<>>, <<Hello>>} => WireIDs(c)' = {}
    BY BareIDs DEF WireIDs
  <2> QED BY <2>1
<1> QED BY <1>1, <1>2, <1>3, OrderKept DEF WiresKept

\* Broadcast and syncMissedTo write a message with a new ID.
LEMMA FreshOrder ==
  ASSUME TypeOK, QueuedIsMade, WireSorted, InOrder, NEW C, NEW n \in Line,
         toR' = Write(toR, C, Chat(NewID, n)),
         UNCHANGED <<queue, flush, sent, queued, shown, link>>
  PROVE  WireSorted' /\ InOrder'
<1>1. NewID \in Nat /\ NewID \notin queued
  BY NewIsNotQueued DEF TypeOK, HistoryType
<1>2. Chat(NewID, n) \in Envelope /\ Chat(NewID, n).id \notin queued
  BY <1>1 DEF Chat, Envelope
<1>3. WiresKept
  BY <1>2, WiresWrite
<1>4. ShownIDs' \subseteq ShownIDs
  BY DEF ShownIDs
<1> QED BY <1>3, <1>4, OrderKept DEF WiresKept

\* handleSyncRequest answers with messages that have new IDs.
LEMMA DataOrder ==
  ASSUME TypeOK, QueuedIsMade, WireSorted, InOrder, NEW c \in Link, HandleSyncRequest(c)
  PROVE  WireSorted' /\ InOrder'
<1> DEFINE since == GetSince(Head(toS[c]).since)
           datas == [i \in DOMAIN since |-> SyncData(Len(made) + i, since[i])]
<1>1. datas \in Seq(ToReceiver) /\ DOMAIN datas = DOMAIN since /\ since \in Seq(Line)
  BY DatasType, RequestType DEF HandleSyncRequest
<1>2. toR' = [toR EXCEPT ![c] = @ \o datas]
      /\ UNCHANGED <<queue, flush, sent, queued, shown, link>>
  BY DEF HandleSyncRequest, receiver
<1>3. \A i \in DOMAIN datas : datas[i].id \notin queued
  <2>1. \A i \in DOMAIN datas : i \in Nat \ {0} /\ datas[i].id = Len(made) + i
    BY <1>1 DEF SyncData
  <2>2. \A x \in queued : x \in Nat /\ x <= Len(made) /\ Len(made) \in Nat
    BY DEF TypeOK, MadeType, QueuedIsMade
  <2> HIDE DEF datas
  <2> QED BY <2>1, <2>2
<1> HIDE DEF datas
<1>4. WiresKept
  <2> SUFFICES ASSUME NEW d \in Link
               PROVE  /\ IDsOn(toR'[d], queued) \subseteq IDsOn(toR[d], queued)
                      /\ Sorted(toR'[d], queued)
    BY <1>2 DEF WiresKept, WireSorted, WireIDs
  <2>1. toR[d] \in Seq(ToReceiver) /\ queued \in SUBSET Nat /\ Sorted(toR[d], queued)
        /\ toR \in [Link -> Seq(ToReceiver)]
    BY DEF TypeOK, WireType, HistoryType, WireSorted
  <2>2. CASE d = c
    <3>1. toR'[d] = toR[d] \o datas
      BY <1>2, <2>1, <2>2
    <3> QED BY <1>1, <1>3, <2>1, <3>1, ConcatIDs
  <2>3. CASE d # c
    BY <1>2, <2>1, <2>3
  <2> QED BY <2>2, <2>3
<1>5. ShownIDs' \subseteq ShownIDs
  BY <1>2 DEF ShownIDs
<1> QED BY <1>2, <1>4, <1>5, OrderKept DEF WiresKept

\* Enqueue puts a message with a new ID behind all others, and drops from the front.
LEMMA EnqueueOrder ==
  ASSUME IInv, QueuedIsMade, WireSorted, InOrder, Enqueue
  PROVE  WireSorted' /\ InOrder'
<1>1. UNCHANGED <<toR, link, flush, sent, shown>>
  BY DEF Enqueue, receiver
<1>2. CASE lastSeen = {}
  <2>1. UNCHANGED <<queue, queued>>
    BY <1>2 DEF Enqueue
  <2> QED BY <1>1, <2>1, IdleOrder DEF IInv
<1>3. CASE lastSeen # {}
  <2> DEFINE new == Item(NewID, typed)
  <2>1. queued' = queued \cup {NewID} /\ new.id = NewID
        /\ \A m \in queue' : m \in queue \/ m = new
    BY <1>3 DEF Enqueue, Item
  <2> HIDE DEF new
  <2>2. NewID \in Nat /\ (\A x \in DOMAIN made : x \in Nat /\ x < NewID)
        /\ (\A x \in queued : x \in Nat /\ x < NewID)
    BY NewIsNotQueued DEF IInv, TypeOK, MadeType, QueuedIsMade, NewID
  <2>3. \A c \in Link : \A i \in DOMAIN toR[c] : toR[c][i] # Hello => toR[c][i].id # NewID
    BY <2>2 DEF IInv, WireGenuine, Genuine
  <2>4. WireSorted' /\ \A c \in Link : WireIDs(c)' = WireIDs(c)
    <3>1. \A c \in Link : WireIDs(c)' = WireIDs(c)
      BY <1>1, <2>1, <2>3 DEF WireIDs, IDsOn
    <3>2. WireSorted'
      BY <1>1, <2>1, <2>3 DEF WireSorted, Sorted
    <3> QED BY <3>1, <3>2
  <2>5. ShownIDs' = ShownIDs
    <3>1. \A i \in DOMAIN shown : shown[i].id # NewID
      BY <2>2 DEF IInv, ShownIsSeen, SeenIsSettled
    <3> QED BY <1>1, <2>1, <3>1 DEF ShownIDs
  <2>6. \A c \in Link : \A m \in flush[c] : m.id < NewID
    BY <2>2 DEF IInv, FlushGenuine, Genuine
  <2>7. (\A c \in Link : \A x \in WireIDs(c) : x < NewID /\ x \in Nat)
        /\ \A x \in ShownIDs : x < NewID /\ x \in Nat
    BY <2>2 DEF WireIDs, IDsOn, ShownIDs
  <2>8. WireInOrder'
    BY <1>1, <2>1, <2>4, <2>5, <2>7 DEF InOrder, WireInOrder
  <2>9. ShownInOrder'
    BY <1>1, <2>1, <2>2, <2>5, <2>7 DEF InOrder, ShownInOrder
  <2>10. FlushInOrder'
    BY <1>1, <2>1, <2>6 DEF InOrder, FlushInOrder
  <2> QED BY <2>4, <2>8, <2>9, <2>10 DEF InOrder
<1> QED BY <1>2, <1>3

\* The hello handler copies the queue: all of it is behind what is on the wire.
LEMMA HelloOrder ==
  ASSUME TypeOK, WireSorted, InOrder, NEW c \in Link, HandleHello(c)
  PROVE  WireSorted' /\ InOrder'
<1>1. /\ UNCHANGED <<toR, link, queue, sent, shown, queued>>
      /\ flush' = [flush EXCEPT ![c] = queue]
      /\ link[c] = "up" /\ sent[c] = {}
  BY DEF HandleHello, SenderReads, receiver
<1>2. flush'[c] = queue /\ \A d \in Link : d # c => flush'[d] = flush[d]
  BY <1>1 DEF TypeOK, QueueType
<1>3. WireSorted' /\ (\A d \in Link : WireIDs(d)' = WireIDs(d)) /\ ShownIDs' = ShownIDs
  BY <1>1 DEF WireSorted, WireIDs, ShownIDs
<1>4. WireInOrder'
  <2> SUFFICES ASSUME NEW d \in Link, NEW x \in WireIDs(d)
               PROVE  /\ \A y \in ShownIDs : y <= x
                      /\ \A m \in flush'[d] : x < m.id
                      /\ \A m \in queue :
                           x < m.id \/ (x = m.id /\ (link[d] = "fin" \/ m \in sent[d]))
    BY <1>1, <1>3 DEF WireInOrder
  <2>1. CASE d # c
    BY <1>2, <2>1 DEF InOrder, WireInOrder
  <2>2. CASE d = c
    <3>1. \A m \in queue : x < m.id
      BY <1>1, <2>2 DEF InOrder, WireInOrder
    <3> QED BY <1>2, <2>2, <3>1 DEF InOrder, WireInOrder
  <2> QED BY <2>1, <2>2
<1>5. ShownInOrder'
  BY <1>1, <1>2, <1>3 DEF InOrder, ShownInOrder
<1>6. FlushInOrder'
  BY <1>1, <1>2 DEF InOrder, FlushInOrder
<1> QED BY <1>3, <1>4, <1>5, <1>6 DEF InOrder

\* SendToWithID writes the first of the rest, on the connection of the handler.
LEMMA FlushSendOrder ==
  ASSUME IInv, FlushIsLive, OneAtATime, WireSorted, InOrder, NEW c \in Link, FlushSend(c)
  PROVE  WireSorted' /\ InOrder'
<1>1. PICK m \in First(flush[c]), d \in Ready :
        /\ toR' = Write(toR, {d}, Chat(m.id, m.line))
        /\ sent' = [sent EXCEPT ![c] = {m}]
        /\ flush' = [flush EXCEPT ![c] = @ \ {m}]
  BY DEF FlushSend
<1>2. UNCHANGED <<link, queue, queued, shown>> /\ flush[c] # {} /\ sent[c] = {}
  BY DEF FlushSend, receiver
<1>3. m \in flush[c] /\ m \in Pending /\ m.id \in Nat /\ m.line \in Line
      /\ \A n \in flush[c] : m.id <= n.id
  BY DEF First, IInv, TypeOK, QueueType, Pending
<1>4. d = c /\ link[c] \in {"up", "cut"}
  BY <1>2 DEF FlushIsLive, OneAtATime, Live, Ready, Conns
<1>5. \A n \in flush[c] : n = m \/ m.id < n.id
  <2> SUFFICES ASSUME NEW n \in flush[c], m.id = n.id PROVE n = m
    BY <1>3 DEF IInv, TypeOK, QueueType, Pending
  <2>1. n.line = m.line
    BY <1>3 DEF IInv, FlushGenuine, Genuine
  <2>2. n \in Pending
    BY DEF IInv, TypeOK, QueueType
  <2> QED BY <1>3, <2>1, <2>2 DEF Pending
<1>6. /\ sent'[c] = {m} /\ flush'[c] = flush[c] \ {m}
      /\ \A e \in Link : e # c => sent'[e] = sent[e] /\ flush'[e] = flush[e]
  BY <1>1 DEF IInv, TypeOK, QueueType
<1>7. \A n \in queue : n = m \/ m.id < n.id
  BY <1>2, <1>3, <1>5 DEF InOrder, FlushInOrder
<1>8. /\ WireSorted'
      /\ \A e \in Link : \A x \in WireIDs(e)' : x \in WireIDs(e) \/ (x = m.id /\ e = c)
  <2>1. Chat(m.id, m.line) \in Envelope /\ Chat(m.id, m.line).id = m.id
    BY <1>3 DEF Chat, Envelope
  <2>2. \A x \in WireIDs(c) : x < m.id
    BY <1>3 DEF InOrder, WireInOrder
  <2>3. ASSUME NEW e \in Link
        PROVE  /\ Sorted(toR'[e], queued)
               /\ \A x \in IDsOn(toR'[e], queued) : x \in WireIDs(e) \/ (x = m.id /\ e = c)
    BY <1>1, <1>4, <2>1, <2>2, WriteIDs DEF IInv
  <2> QED BY <1>2, <2>3 DEF WireSorted, WireIDs
<1>9. ShownIDs' = ShownIDs
  BY <1>2 DEF ShownIDs
<1>10. WireInOrder'
  <2> SUFFICES ASSUME NEW e \in Link, NEW x \in WireIDs(e)'
               PROVE  /\ \A y \in ShownIDs : y <= x
                      /\ \A n \in flush'[e] : x < n.id
                      /\ \A n \in queue :
                           x < n.id \/ (x = n.id /\ (link[e] = "fin" \/ n \in sent'[e]))
    BY <1>2, <1>9 DEF WireInOrder
  <2>1. CASE x \in WireIDs(e) /\ e # c
    BY <1>6, <2>1 DEF InOrder, WireInOrder
  <2>2. CASE x \in WireIDs(e) /\ e = c
    BY <1>2, <1>4, <1>6, <2>2 DEF InOrder, WireInOrder
  <2>3. CASE x = m.id /\ e = c
    <3>1. \A y \in ShownIDs : y <= x
      BY <1>3, <2>3 DEF InOrder, ShownInOrder
    <3>2. \A n \in flush'[e] : x < n.id
      BY <1>5, <1>6, <2>3
    <3>3. \A n \in queue : x < n.id \/ (x = n.id /\ n \in sent'[e])
      BY <1>6, <1>7, <2>3
    <3> QED BY <3>1, <3>2, <3>3
  <2> QED BY <1>8, <2>1, <2>2, <2>3
<1>11. ShownInOrder'
  BY <1>2, <1>6, <1>9 DEF InOrder, ShownInOrder
<1>12. FlushInOrder'
  <2> SUFFICES ASSUME NEW e \in Link, NEW k \in flush'[e], NEW n \in queue
               PROVE  n \in flush'[e] \/ n \in sent'[e] \/ k.id < n.id
    BY <1>2 DEF FlushInOrder
  <2> QED BY <1>2, <1>6 DEF InOrder, FlushInOrder
<1> QED BY <1>8, <1>10, <1>11, <1>12 DEF InOrder

\* Remove takes the message that was sent out of the queue.
LEMMA FlushRemoveOrder ==
  ASSUME TypeOK, FlushIsLive, WireSorted, InOrder, NEW c \in Link, FlushRemove(c)
  PROVE  WireSorted' /\ InOrder'
<1>1. UNCHANGED <<link, toR, flush, queued, shown>> /\ sent' = [sent EXCEPT ![c] = {}]
      /\ queue' = Remove(queue, (CHOOSE m \in sent[c] : TRUE).id)
  BY DEF FlushRemove, receiver
<1>2. PICK m \in sent[c] : m = CHOOSE k \in sent[c] : TRUE
  BY DEF FlushRemove
<1>3. \A n \in sent[c] : n = m
  BY DEF FlushIsLive
<1>4. \A n \in queue' : n \in queue /\ n \notin sent[c]
  BY <1>1, <1>2, <1>3 DEF Remove
<1>5. \A e \in Link : e # c => sent'[e] = sent[e]
  BY <1>1 DEF TypeOK, QueueType
<1>6. WireSorted' /\ (\A d \in Link : WireIDs(d)' = WireIDs(d)) /\ ShownIDs' = ShownIDs
  BY <1>1 DEF WireSorted, WireIDs, ShownIDs
<1>7. WireInOrder'
  <2> SUFFICES ASSUME NEW e \in Link, NEW x \in WireIDs(e)
               PROVE  /\ \A y \in ShownIDs : y <= x
                      /\ \A n \in flush[e] : x < n.id
                      /\ \A n \in queue' :
                           x < n.id \/ (x = n.id /\ (link[e] = "fin" \/ n \in sent'[e]))
    BY <1>1, <1>6 DEF WireInOrder
  <2> QED BY <1>4, <1>5 DEF InOrder, WireInOrder
<1>8. ShownInOrder'
  BY <1>1, <1>4, <1>6 DEF InOrder, ShownInOrder
<1>9. FlushInOrder'
  BY <1>1, <1>4, <1>5 DEF InOrder, FlushInOrder
<1> QED BY <1>6, <1>7, <1>8, <1>9 DEF InOrder

\* What a stopping sender wrote is on its way and may still be in its queue.
LEMMA RestartOrder ==
  ASSUME TypeOK, DeadIsEmpty, WireSorted, InOrder, RestartSender
  PROVE  WireSorted' /\ InOrder'
<1>1. UNCHANGED <<toR, queued, shown>> /\ queue' \subseteq queue
      /\ \A c \in Link : flush'[c] = {} /\ (link[c] \in {"up", "fin"} => link'[c] = "fin")
  BY DEF RestartSender, receiver, TypeOK, LinkType
<1>2. WireSorted' /\ (\A d \in Link : WireIDs(d)' = WireIDs(d)) /\ ShownIDs' = ShownIDs
  BY <1>1 DEF WireSorted, WireIDs, ShownIDs
<1>3. \A c \in Link : WireIDs(c) # {} => link'[c] = "fin"
  BY <1>1, BareIDs DEF DeadIsEmpty, WireIDs
<1>4. WireInOrder'
  <2> SUFFICES ASSUME NEW e \in Link, NEW x \in WireIDs(e)
               PROVE  /\ \A y \in ShownIDs : y <= x
                      /\ \A n \in flush'[e] : x < n.id
                      /\ \A n \in queue' :
                           x < n.id \/ (x = n.id /\ (link'[e] = "fin" \/ n \in sent'[e]))
    BY <1>1, <1>2 DEF WireInOrder
  <2> QED BY <1>1, <1>3 DEF InOrder, WireInOrder
<1>5. ShownInOrder'
  BY <1>1, <1>2 DEF InOrder, ShownInOrder
<1>6. FlushInOrder'
  BY <1>1 DEF FlushInOrder
<1> QED BY <1>2, <1>4, <1>5, <1>6 DEF InOrder

\* The display: what the gate lets through is behind all that was displayed.
LEMMA ShowOrder ==
  ASSUME OrderInv, ~sc.parallel, NEW c \in Link, ReceiverChat(c)
  PROVE  WireSorted' /\ InOrder' /\ QueuedInOrder'
<1> DEFINE h == Head(toR[c])
<1>1. /\ IInv /\ TypeOK /\ WireSorted /\ InOrder /\ OneAtATime
      /\ FlushIsLive /\ DeadIsEmpty /\ QueuedInOrder
  BY DEF OrderInv, IInv
<1>2. /\ ReceiverReads(c, {"chat", "sync_data"})
      /\ UNCHANGED <<link, queue, flush, sent, queued>>
  BY ReceiverChatEffect DEF sender
<1>3. /\ link[c] \in {"up", "fin"} /\ toR[c] # <<>> /\ toR'[c] = Tail(toR[c])
      /\ \A d \in Link : d # c => toR'[d] = toR[d]
      /\ h.type \in {"chat", "sync_data"}
  BY <1>1, <1>2 DEF ReceiverReads, TypeOK, WireType
<1>4. CASE UNCHANGED shown
  <2>1. WireSorted' /\ InOrder'
    BY <1>1, <1>2, <1>3, <1>4, IdleOrder
  <2>2. sc' = sc
    BY ScKept DEF Next
  <2> QED BY <1>1, <1>2, <1>4, <2>1, <2>2 DEF QueuedInOrder
<1>5. CASE ~UNCHANGED shown
  <2>1. h.id \notin seen /\ shown' = Append(shown, h)
    BY <1>5, ReceiverChatEffect
  <2>2. h \in Envelope /\ h # Hello
    <3>1. h \in ToReceiver
      BY <1>1, <1>3, SeqTail DEF TypeOK, WireType
    <3> QED BY <1>3, <3>1 DEF ToReceiver, Hello
  <2>3. /\ toR[c] \in Seq(ToReceiver) /\ queued \in SUBSET Nat /\ Sorted(toR[c], queued)
        /\ shown \in Seq(Envelope)
    BY <1>1 DEF TypeOK, WireType, HistoryType, WireSorted, ShownType
  <2>4. h.id \in queued => /\ h.id \in WireIDs(c)
                           /\ \A x \in WireIDs(c)' : h.id < x
    BY <1>2, <1>3, <2>2, <2>3, TailIDs DEF WireIDs
  <2> HIDE DEF h
  <2>5. /\ Len(shown) \in Nat /\ DOMAIN shown = 1..Len(shown)
        /\ DOMAIN shown' = 1..(Len(shown) + 1)
        /\ \A i \in 1..Len(shown) : shown'[i] = shown[i]
        /\ shown'[Len(shown) + 1] = h
    BY <2>1, <2>2, <2>3, SeqAppend
  <2>6. \A i \in DOMAIN shown' :
          (i \in DOMAIN shown /\ shown'[i] = shown[i]) \/ (i = Len(shown) + 1 /\ shown'[i] = h)
    BY <2>5
  <2>7. WiresKept
    BY <1>1, <1>2, <1>3, WiresRead
  <2>8. \A x \in ShownIDs' : x \in ShownIDs \/ (x = h.id /\ h.id \in queued)
    BY <1>2, <2>6 DEF ShownIDs
  <2>9. \A d \in Link : d # c => WireIDs(d)' = {} /\ flush'[d] = {}
    <3> SUFFICES ASSUME NEW d \in Link, d # c PROVE WireIDs(d)' = {} /\ flush'[d] = {}
      OBVIOUS
    <3>1. link[d] \in {"new", "closed"}
      BY <1>1, <1>3 DEF OneAtATime, Live
    <3>2. toR'[d] = <<>> /\ flush'[d] = {}
      BY <1>1, <1>2, <1>3, <3>1 DEF DeadIsEmpty, FlushIsLive
    <3> QED BY <3>2, BareIDs DEF WireIDs
  <2>10. WireInOrder'
    <3> SUFFICES ASSUME NEW d \in Link, NEW x \in WireIDs(d)'
                 PROVE  /\ \A y \in ShownIDs' : y <= x
                        /\ \A n \in flush[d] : x < n.id
                        /\ \A n \in queue :
                             x < n.id \/ (x = n.id /\ (link[d] = "fin" \/ n \in sent[d]))
      BY <1>2 DEF WireInOrder
    <3>1. d = c /\ x \in WireIDs(c)
      BY <2>7, <2>9 DEF WiresKept
    <3>2. x \in Nat /\ h.id \in Nat
      BY <2>2, <2>3, <3>1 DEF WireIDs, IDsOn, Envelope
    <3>3. \A y \in ShownIDs' : y <= x
      BY <1>1, <2>4, <2>8, <3>1, <3>2 DEF InOrder, WireInOrder
    <3> QED BY <1>1, <3>1, <3>3 DEF InOrder, WireInOrder
  <2>11. ShownInOrder'
    <3> SUFFICES ASSUME NEW x \in ShownIDs'
                 PROVE  /\ \A m \in queue : x <= m.id
                        /\ \A d \in Link : \A m \in flush[d] : x <= m.id
      BY <1>2 DEF ShownInOrder
    <3>1. CASE x \in ShownIDs
      BY <1>1, <3>1 DEF InOrder, ShownInOrder
    <3>2. CASE x = h.id /\ h.id \in queued
      <4>1. x \in WireIDs(c) /\ x \in Nat
        BY <2>3, <2>4, <3>2
      <4>2. (\A m \in queue : m.id \in Nat) /\ \A d \in Link : \A m \in flush[d] : m.id \in Nat
        BY <1>1 DEF TypeOK, QueueType, Pending
      <4>3. \A m \in queue : x <= m.id
        BY <1>1, <4>1, <4>2 DEF InOrder, WireInOrder
      <4>4. \A d \in Link : \A m \in flush[d] : d = c
        BY <1>2, <2>9
      <4>5. \A m \in flush[c] : x <= m.id
        BY <1>1, <4>1, <4>2 DEF InOrder, WireInOrder
      <4> QED BY <4>3, <4>4, <4>5
    <3> QED BY <2>8, <3>1, <3>2
  <2>12. FlushInOrder'
    BY <1>1, <1>2 DEF InOrder, FlushInOrder
  <2>13. QueuedInOrder'
    <3> SUFFICES ASSUME NEW i \in DOMAIN shown', NEW j \in DOMAIN shown', i < j,
                        shown'[i].id \in queued, shown'[j].id \in queued
                 PROVE  shown'[i].id < shown'[j].id
      BY <1>2 DEF QueuedInOrder
    <3>1. i \in DOMAIN shown /\ shown'[i] = shown[i]
      BY <2>5, <2>6
    <3>2. CASE j \in DOMAIN shown /\ shown'[j] = shown[j]
      BY <1>1, <3>1, <3>2 DEF QueuedInOrder
    <3>3. CASE shown'[j] = h
      <4>1. h.id \in WireIDs(c) /\ shown[i].id \in ShownIDs
        BY <2>4, <3>1, <3>3 DEF ShownIDs
      <4>2. shown[i].id <= h.id
        BY <1>1, <4>1 DEF InOrder, WireInOrder
      <4>3. shown[i].id # h.id
        BY <1>1, <2>1, <3>1 DEF IInv, ShownIsSeen
      <4>4. shown[i].id \in Nat /\ h.id \in Nat
        BY <2>2, <2>3, <3>1 DEF Envelope
      <4> QED BY <3>1, <3>3, <4>2, <4>3, <4>4
    <3> QED BY <2>6, <3>2, <3>3
  <2> QED BY <2>7, <2>10, <2>11, <2>12, <2>13 DEF InOrder, WiresKept
<1> QED BY <1>4, <1>5
----------------------------------------------------------------------------
\* Every action keeps the order from the display to the end of the queue.
LEMMA InOrderStep ==
  ASSUME OrderInv, ~sc.parallel, [Next]_vars
  PROVE  WireSorted' /\ InOrder'
<1>1. /\ IInv /\ TypeOK /\ WireSorted /\ InOrder /\ OneAtATime
      /\ FlushIsLive /\ DeadIsEmpty /\ QueuedIsMade
  BY DEF OrderInv, IInv
<1> DEFINE Goal == WireSorted' /\ InOrder'
<1> SUFFICES Goal
  OBVIOUS
<1> HIDE DEF Goal
<1>2. CASE TypeLine \/ Record \/ Refill \/ UNCHANGED vars
  <2>1. UNCHANGED <<toR, link, queue, flush, sent, queued, shown>>
    BY <1>2 DEF TypeLine, Record, Refill, vars, receiver, sender
  <2> QED BY <1>1, <2>1, IdleOrder DEF Goal
<1>3. CASE Enqueue
  BY <1>1, <1>3, EnqueueOrder DEF Goal
<1>4. CASE Broadcast
  <2>1. UNCHANGED <<link, queue, flush, sent, queued, shown>>
        /\ toR' = Write(toR, Ready, Chat(NewID, typed))
    BY <1>4 DEF Broadcast, receiver
  <2>2. typed \in Line
    BY <1>1 DEF TypeOK, CliType, Line
  <2> QED BY <1>1, <2>1, <2>2, FreshOrder DEF Goal
<1>5. ASSUME NEW c \in Link, Connect(c) PROVE Goal
  <2>1. UNCHANGED <<queue, flush, sent, queued, shown>>
    BY <1>5 DEF Connect, receiver
  <2>2. \A d \in Link : \/ toR'[d] = toR[d] /\ link'[d] = link[d]
                        \/ toR'[d] \in {<<>>, <<Hello>>}
    BY <1>1, <1>5 DEF Connect, TypeOK, WireType, LinkType
  <2> QED BY <1>1, <2>1, <2>2, IdleOrder DEF Goal
<1>6. ASSUME NEW c \in Link, HandleHello(c) PROVE Goal
  BY <1>1, <1>6, HelloOrder DEF Goal
<1>7. ASSUME NEW c \in Link, FlushSend(c) PROVE Goal
  BY <1>1, <1>7, FlushSendOrder DEF Goal
<1>8. ASSUME NEW c \in Link, FlushRemove(c) PROVE Goal
  BY <1>1, <1>8, FlushRemoveOrder DEF Goal
<1>9. ASSUME NEW c \in Link, SyncStart(c) PROVE Goal
  <2>1. UNCHANGED <<toR, link, queue, flush, sent, queued, shown>>
    BY <1>9 DEF SyncStart, receiver
  <2> QED BY <1>1, <2>1, IdleOrder DEF Goal
<1>10. ASSUME NEW c \in Link, SyncPush(c) PROVE Goal
  <2>1. UNCHANGED <<link, queue, flush, sent, queued, shown>> /\ push[c] # <<>>
    BY <1>10 DEF SyncPush, receiver
  <2>2. Head(push[c]) \in Line
    BY <1>1, <2>1, SeqTail DEF TypeOK, SyncType
  <2>3. toR' = toR \/ \E d \in Ready : toR' = Write(toR, {d}, Chat(NewID, Head(push[c])))
    BY <1>10 DEF SyncPush
  <2>4. CASE toR' = toR
    BY <1>1, <2>1, <2>4, IdleOrder DEF Goal
  <2>5. ASSUME NEW d \in Ready, toR' = Write(toR, {d}, Chat(NewID, Head(push[c])))
        PROVE  Goal
    BY <1>1, <2>1, <2>2, <2>5, FreshOrder DEF Goal
  <2> QED BY <2>3, <2>4, <2>5
<1>11. ASSUME NEW c \in Link, HandleSyncRequest(c) PROVE Goal
  BY <1>1, <1>11, DataOrder DEF Goal
<1>12. ASSUME NEW c \in Link, ReceiverHello(c) PROVE Goal
  <2>1. UNCHANGED <<link, queue, flush, sent, queued, shown>>
    BY <1>12 DEF ReceiverHello, sender
  <2>2. \A d \in Link : toR'[d] = toR[d] \/ (toR[d] # <<>> /\ toR'[d] = Tail(toR[d]))
    BY <1>1, <1>12 DEF ReceiverHello, ReceiverReads, TypeOK, WireType
  <2> QED BY <1>1, <2>1, <2>2, IdleOrder DEF Goal
<1>13. ASSUME NEW c \in Link, ReceiverChat(c) PROVE Goal
  BY <1>13, ShowOrder DEF Goal
<1>14. ASSUME NEW c \in Link, Cut(c) \/ Notice(c) \/ ReceiverEOF(c) PROVE Goal
  <2>1. UNCHANGED <<queue, flush, sent, queued, shown>>
    BY <1>14 DEF Cut, Notice, ReceiverEOF, receiver, sender
  <2>2. \A d \in Link : \/ toR'[d] = toR[d] /\ link'[d] = link[d]
                        \/ toR'[d] = <<>>
    BY <1>1, <1>14 DEF Cut, Notice, ReceiverEOF, DeadIsEmpty, TypeOK, WireType, LinkType
  <2> QED BY <1>1, <2>1, <2>2, IdleOrder DEF Goal
<1>15. CASE RestartSender
  BY <1>1, <1>15, RestartOrder DEF Goal
<1>16. CASE RestartReceiver
  <2>1. UNCHANGED <<queue, flush, sent, queued>> /\ shown' = <<>>
        /\ \A d \in Link : toR'[d] = <<>>
    BY <1>16 DEF RestartReceiver
  <2> QED BY <1>1, <2>1, IdleOrder DEF Goal
<1> QED
  BY <1>2, <1>3, <1>4, <1>5, <1>6, <1>7, <1>8, <1>9, <1>10, <1>11, <1>12, <1>13,
     <1>14, <1>15, <1>16 DEF Next

\* Only the display, a restart and Enqueue can disturb what was displayed.
LEMMA QueuedInOrderStep ==
  ASSUME OrderInv, ~sc.parallel, [Next]_vars
  PROVE  QueuedInOrder'
<1>1. IInv /\ TypeOK /\ QueuedInOrder /\ sc' = sc
  BY ScKept DEF OrderInv, IInv
<1>2. CASE UNCHANGED <<shown, queued>>
  BY <1>1, <1>2 DEF QueuedInOrder
<1>3. CASE Enqueue
  <2>1. \A i \in DOMAIN shown : shown[i].id # NewID
    BY <1>1 DEF IInv, ShownIsSeen, SeenIsSettled, TypeOK, MadeType, NewID
  <2>2. UNCHANGED shown /\ (queued' = queued \/ queued' = queued \cup {NewID})
    BY <1>3 DEF Enqueue, receiver
  <2> QED BY <1>1, <2>1, <2>2 DEF QueuedInOrder
<1>4. CASE RestartReceiver
  BY <1>4 DEF RestartReceiver, QueuedInOrder
<1>5. ASSUME NEW c \in Link, ReceiverChat(c) PROVE QueuedInOrder'
  BY <1>5, ShowOrder
<1> QED
  BY <1>2, <1>3, <1>4, <1>5 DEF Next, vars, receiver, sender, TypeLine, Broadcast,
      Record, Connect, HandleHello, FlushSend, FlushRemove, SyncStart, SyncPush,
      HandleSyncRequest, ReceiverHello, Refill, Cut, Notice, ReceiverEOF, RestartSender

\* The invariant of the order holds initially ...
LEMMA OrderInit == Init => OrderInv
<1> SUFFICES ASSUME Init PROVE OrderInv
  OBVIOUS
<1>1. IInv
  BY IInvInit
<1>2. DeadIsEmpty /\ FlushIsLive /\ QueuedIsMade /\ OneAtATime /\ QueuedInOrder
  BY DEF Init, DeadIsEmpty, FlushIsLive, QueuedIsMade, OneAtATime, Live, QueuedInOrder
<1>3. WireSorted /\ (\A c \in Link : WireIDs(c) = {}) /\ ShownIDs = {}
  BY BareIDs DEF Init, WireSorted, WireIDs, ShownIDs
<1>4. InOrder
  BY <1>3 DEF Init, InOrder, WireInOrder, ShownInOrder, FlushInOrder
<1> QED BY <1>1, <1>2, <1>3, <1>4 DEF OrderInv

\* ... and is inductive.
LEMMA OrderStep == OrderInv /\ [Next]_vars => OrderInv'
<1> SUFFICES ASSUME OrderInv, [Next]_vars PROVE OrderInv'
  OBVIOUS
<1>1. IInv /\ TypeOK /\ DeadIsEmpty /\ FlushIsLive /\ QueuedIsMade
  BY DEF OrderInv, IInv
<1>2. IInv' /\ DeadIsEmpty' /\ FlushIsLive' /\ QueuedIsMade'
  BY <1>1, IInvStep, DeadIsEmptyStep, FlushIsLiveStep, QueuedIsMadeStep
<1>3. ASSUME ~sc.parallel
      PROVE  OneAtATime' /\ WireSorted' /\ InOrder' /\ QueuedInOrder'
  BY <1>1, <1>3, OneAtATimeStep, InOrderStep, QueuedInOrderStep DEF OrderInv
<1> QED BY <1>2, <1>3, ScKept DEF OrderInv

(* When connections come one at a time, queued messages are displayed in    *)
(* the order of the queue, with any number of flushes, overflows of the     *)
(* queue, breaks and restarts of either node in mid-flush: Pending keeps    *)
(* the order, Remove follows each SendToWithID, and the dedup gate drops    *)
(* what a second flush sends again.                                         *)
THEOREM FlushOrder == Spec => []QueuedInOrder
<1>1. OrderInv => QueuedInOrder
  BY DEF OrderInv, QueuedInOrder
<1> QED BY <1>1, OrderInit, OrderStep, PTL DEF Spec
============================================================================
