------------------------------ MODULE Delivery ------------------------------
(***************************************************************************)
(* How a chat line typed at one node (the sender) reaches one contact (the *)
(* receiver): the command loop that queues or broadcasts it, the persistent*)
(* offline queue and its flush in the hello handler, the delta sync in both*)
(* directions, and the receiver's envelope dedup (main.go, internal/queue, *)
(* internal/dedup, internal/peer/node.go, internal/history).               *)
(*                                                                         *)
(* A Link is one TCP connection between the two, used once; a reconnect is *)
(* a new link, and two links can be up together because each node dials    *)
(* the other when it discovers it.  The queue, the history and the contact *)
(* book are saved inside the call that changes them and come back after a  *)
(* restart (a crash inside Queue.saveLocked excepted); all else            *)
(* is lost.  Only the sender types, so what the receiver's own sync would  *)
(* push is empty, and no contact is blocked.                               *)
(*                                                                         *)
(* Time is abstracted to the length of the sender's history: LastSeen is   *)
(* the number of lines typed when the hello was handled, and GetSince      *)
(* returns the lines typed after that.                                     *)
(***************************************************************************)
EXTENDS Naturals, Sequences, FiniteSets

CONSTANTS
  Link,        \* the connections that can be made, each once
  QueueMax,    \* queue.MaxMessages
  Burst,       \* tokens of a full bucket of the receiver's Limiter
  SyncCap,     \* lines one delta sync sends at most
  Scenarios    \* the settings a behaviour may start in, with its bounds

(* A setting: parallel or not (then a link comes up only when both ends are *)
(* done with the last), torn saves or not (a crash may come between         *)
(* truncating and writing the queue file), and bounds on the lines typed    *)
(* (line n is the n-th), the links that break, the crashes of either node   *)
(* and the envelopes that a rekey made unreadable.                          *)
Scenario ==
  [parallel : BOOLEAN, torn : BOOLEAN,
   lines : Nat, cuts : Nat, crashes : Nat, garbled : Nat]

ASSUME DeliveryAssumption ==
  /\ IsFiniteSet(Link)
  /\ QueueMax \in Nat \ {0} /\ Burst \in Nat \ {0} /\ SyncCap \in Nat
  /\ Scenarios \subseteq Scenario

VARIABLES
  sc,        \* the scenario, chosen at the start
  link,      \* link[c]: "new", "up", "cut" (broken, the sender has not
             \*   noticed), "fin" (the sender is gone, data still arrives), "closed"
  toR, toS,  \* toR[c], toS[c]: what is on its way to the receiver, the sender
  joined,    \* joined[c]: the sender handled the receiver's hello on c
  rjoined,   \* rjoined[c]: the receiver handled the sender's hello on c
  queue,     \* the sender's offline queue, also on disk; IDs give its order
  hist,      \* the sender's history of sent lines, also on disk
  lastSeen,  \* the sender's contact entry: {} or {LastSeen}
  rlastSeen, \* the receiver's contact entry for the sender
  flush,     \* flush[c]: rest of the Pending() copy the handler of c works off
  sent,      \* sent[c]: envelope the handler of c wrote and is about to remove
  sync,      \* sync[c]: {} or {prevSeen}: syncMissedTo of c has not started
  push,      \* push[c]: lines syncMissedTo of c still has to push
  cli,       \* where the command loop is with the current line
  typed,     \* lines typed so far
  made,      \* made[id]: the line envelope id carries; IDs are never reused
  seen,      \* the receiver's dedup set
  shown,     \* envelopes the receiver displayed since it started
  tokens,    \* the Limiter's bucket for the sender's JID
  cuts, crashes, garbled,
  \* history variables, read by no action
  shownEver, \* lines the receiver displayed in any run
  owed,      \* lines queued or sent to a peer
  queued,    \* envelope IDs that Enqueue made
  spilled    \* copies of lines that were lost, with the cause

vars == <<sc, link, toR, toS, joined, rjoined, queue, hist, lastSeen, rlastSeen,
          flush, sent, sync, push, cli, typed, made, seen, shown, tokens,
          cuts, crashes, garbled, shownEver, owed, queued, spilled>>

Hello == [type |-> "hello"]

\* Mutant: the cut-off is moved back past the first line.
RequestEarlier(since) == [type |-> "sync_request", since |-> since - 1]

SyncRequest(since) == [type |-> "sync_request", since |-> since]
Chat(id, n)     == [type |-> "chat", id |-> id, line |-> n]
SyncData(id, n) == [type |-> "sync_data", id |-> id, line |-> n]
Item(id, n)     == [id |-> id, line |-> n]
Loss(why, n)    == [why |-> why, line |-> n]

Idle == [at |-> "idle"]

\* nextEnvelopeID (and the ID Enqueue makes): one that was never used before.
NewID == Len(made) + 1
Mint(n) == made' = Append(made, n)

\* n.conns of the sender, and the connections it can send chat on.
Conns == {c \in Link : link[c] \in {"up", "cut"}}
Ready == {c \in Conns : joined[c]}

\* sendRaw on the connections in C: a broken one swallows the write unnoticed.
Write(w, C, m) == [c \in Link |-> IF c \in C /\ link[c] = "up" THEN Append(w[c], m) ELSE w[c]]
Swallowed(C, n) == IF \E c \in C : link[c] = "cut" THEN {Loss("link", n)} ELSE {}

\* History.GetSince as both delta syncs use it: SyncCap sent lines after the first k.
GetSince(k) == SubSeq(hist, k + 1, IF k + SyncCap < Len(hist) THEN k + SyncCap ELSE Len(hist))

\* Mutant: the queue is worked off newest first.
NewestFirst(q) == {m \in q : \A n \in q : m.id >= n.id}

\* Enqueue appends and makes growing IDs: the first item has the least ID.
First(q) == {m \in q : \A n \in q : m.id <= n.id}

\* Enqueue keeps the newest QueueMax messages.
Overflow(q) == IF Cardinality(q) > QueueMax THEN First(q) ELSE {}

\* Queue.Remove.
Remove(q, id) == {m \in q : m.id # id}

\* The chat lines among the messages of a wire.
LinesOn(w) == {w[i].line : i \in {j \in DOMAIN w : w[j].type \in {"chat", "sync_data"}}}
LostOn(w) == {Loss("link", n) : n \in LinesOn(w)}
----------------------------------------------------------------------------
Init ==
  /\ sc \in Scenarios
  /\ link = [c \in Link |-> "new"]
  /\ toR = [c \in Link |-> <<>>] /\ toS = [c \in Link |-> <<>>]
  /\ joined = [c \in Link |-> FALSE] /\ rjoined = [c \in Link |-> FALSE]
  /\ queue = {} /\ hist = <<>>
  /\ lastSeen \in {{}, {0}} /\ rlastSeen = lastSeen  \* strangers, or met before
  /\ flush = [c \in Link |-> {}] /\ sent = [c \in Link |-> {}]
  /\ sync = [c \in Link |-> {}] /\ push = [c \in Link |-> <<>>]
  /\ cli = Idle /\ typed = 0 /\ made = <<>>
  /\ seen = {} /\ shown = <<>> /\ tokens = Burst
  /\ cuts = 0 /\ crashes = 0 /\ garbled = 0
  /\ shownEver = {} /\ owed = {} /\ queued = {} /\ spilled = {}

receiver == <<rjoined, rlastSeen, seen, shown, tokens, shownEver>>
counters == <<sc, cuts, crashes, garbled>>

(* ConnectTo or an accept on either side: both run setupConn, which         *)
(* registers the connection and sends hello.                                *)
Connect(c) ==
  /\ link[c] = "new"
  /\ sc.parallel \/ \A d \in Link : link[d] \in {"new", "closed"}
  /\ link' = [link EXCEPT ![c] = "up"]
  /\ toR' = [toR EXCEPT ![c] = <<Hello>>]
  /\ toS' = [toS EXCEPT ![c] = <<Hello>>]
  /\ UNCHANGED <<joined, queue, hist, lastSeen, flush, sent, sync, push, cli,
                 typed, made, receiver, counters, owed, queued, spilled>>

\* The command loop reads a line and asks Peers() whether anyone is ready.
TypeLine ==
  /\ cli = Idle
  /\ typed < sc.lines
  /\ typed' = typed + 1
  /\ cli' = [at |-> IF Ready # {} THEN "broadcast" ELSE "enqueue"]
  /\ UNCHANGED <<link, toR, toS, joined, queue, hist, lastSeen, flush, sent,
                 sync, push, made, receiver, counters, owed, queued, spilled>>

\* Nobody was ready: Enqueue for every contact, the receiver if it is one.
Enqueue ==
  /\ cli.at = "enqueue"
  /\ cli' = [at |-> "record"]
  /\ IF lastSeen # {}
       THEN /\ Mint(typed)
            /\ LET q == queue \cup {Item(NewID, typed)}
               IN  /\ queue' = q \ Overflow(q)
                   /\ spilled' = spilled \cup {Loss("full", m.line) : m \in Overflow(q)}
            /\ owed' = owed \cup {typed}
            /\ queued' = queued \cup {NewID}
       ELSE UNCHANGED <<made, queue, owed, queued, spilled>>
  /\ UNCHANGED <<link, toR, toS, joined, hist, lastSeen, flush, sent, sync, push,
                 typed, receiver, counters>>

\* Broadcast: one envelope ID, written to every connection with a key.
Broadcast ==
  /\ cli.at = "broadcast"
  /\ cli' = [at |-> "record"]
  /\ Mint(typed)
  /\ toR' = Write(toR, Ready, Chat(NewID, typed))
  /\ spilled' = spilled \cup Swallowed(Ready, typed)
  /\ owed' = IF Ready = {} THEN owed ELSE owed \cup {typed}
  /\ UNCHANGED <<link, toS, joined, queue, hist, lastSeen, flush, sent, sync,
                 push, typed, receiver, counters, queued>>

\* hist.Add of the line, queued or sent, stamped with the time it gets there.
Record ==
  /\ cli.at = "record"
  /\ cli' = Idle
  /\ hist' = Append(hist, typed)
  /\ UNCHANGED <<link, toR, toS, joined, queue, lastSeen, flush, sent, sync,
                 push, typed, made, receiver, counters, owed, queued, spilled>>

\* The reader of c at the sender takes a message of type t.
SenderReads(c, t) ==
  /\ link[c] = "up"
  /\ flush[c] = {} /\ sent[c] = {}
  /\ toS[c] # <<>> /\ Head(toS[c]).type = t
  /\ toS' = [toS EXCEPT ![c] = Tail(@)]

\* Mutant: the hello handler takes the messages off the queue before it sends.
DrainQueue(c) ==
  /\ SenderReads(c, "hello")
  /\ joined' = [joined EXCEPT ![c] = TRUE]
  /\ lastSeen' = {Len(hist)}
  /\ flush' = [flush EXCEPT ![c] = queue]
  /\ queue' = {}
  /\ sync' = [sync EXCEPT ![c] = lastSeen]
  /\ UNCHANGED <<link, toR, hist, sent, push, cli, typed, made, receiver,
                 counters, owed, queued, spilled>>

(* MsgHello at the sender: set key and JID, capture the previous sighting,  *)
(* refresh the contact and copy the queue.  The flush follows in the same   *)
(* goroutine, delta sync (known contacts only) in a goroutine after it.     *)
HandleHello(c) ==
  /\ SenderReads(c, "hello")
  /\ joined' = [joined EXCEPT ![c] = TRUE]
  /\ lastSeen' = {Len(hist)}
  /\ flush' = [flush EXCEPT ![c] = queue]
  /\ sync' = [sync EXCEPT ![c] = lastSeen]
  /\ UNCHANGED <<link, toR, queue, hist, sent, push, cli, typed, made, receiver,
                 counters, owed, queued, spilled>>

\* Mutant: the flush removes without having sent.
FlushWithoutSend(c) ==
  /\ flush[c] # {} /\ sent[c] = {}
  /\ \E m \in First(flush[c]) :
       /\ sent' = [sent EXCEPT ![c] = {m}]
       /\ flush' = [flush EXCEPT ![c] = @ \ {m}]
  /\ UNCHANGED <<link, toR, toS, joined, queue, hist, lastSeen, sync, push, cli,
                 typed, made, receiver, counters, owed, queued, spilled>>

\* SendToWithID of the next queued message, on any connection with the JID.
FlushSend(c) ==
  /\ flush[c] # {} /\ sent[c] = {}
  /\ \E m \in First(flush[c]), d \in Ready :
       /\ toR' = Write(toR, {d}, Chat(m.id, m.line))
       /\ spilled' = spilled \cup Swallowed({d}, m.line)
       /\ sent' = [sent EXCEPT ![c] = {m}]
       /\ flush' = [flush EXCEPT ![c] = @ \ {m}]
  /\ UNCHANGED <<link, toS, joined, queue, hist, lastSeen, sync, push, cli,
                 typed, made, receiver, counters, owed, queued>>

\* err == nil: MsgQueue.Remove.
FlushRemove(c) ==
  /\ sent[c] # {}
  /\ queue' = Remove(queue, (CHOOSE m \in sent[c] : TRUE).id)
  /\ sent' = [sent EXCEPT ![c] = {}]
  /\ UNCHANGED <<link, toR, toS, joined, hist, lastSeen, flush, sync, push, cli,
                 typed, made, receiver, counters, owed, queued, spilled>>

\* The delta-sync goroutine starts once the flush is done: GetSince(prevSeen).
SyncStart(c) ==
  /\ sync[c] # {}
  /\ flush[c] = {} /\ sent[c] = {}
  /\ push' = [push EXCEPT ![c] = GetSince(CHOOSE k \in sync[c] : TRUE)]
  /\ sync' = [sync EXCEPT ![c] = {}]
  /\ UNCHANGED <<link, toR, toS, joined, queue, hist, lastSeen, flush, sent, cli,
                 typed, made, receiver, counters, owed, queued, spilled>>

\* syncMissedTo: SendTo with a fresh ID; it gives up when no one has the JID.
SyncPush(c) ==
  /\ push[c] # <<>>
  /\ \/ \E d \in Ready :
          /\ Mint(Head(push[c]))
          /\ toR' = Write(toR, {d}, Chat(NewID, Head(push[c])))
          /\ spilled' = spilled \cup Swallowed({d}, Head(push[c]))
          /\ push' = [push EXCEPT ![c] = Tail(@)]
     \/ /\ Ready = {}
        /\ push' = [push EXCEPT ![c] = <<>>]
        /\ UNCHANGED <<made, toR, spilled>>
  /\ UNCHANGED <<link, toS, joined, queue, hist, lastSeen, flush, sent, sync, cli,
                 typed, receiver, counters, owed, queued>>

\* handleSyncRequest: every sent line since then, back on the same connection.
HandleSyncRequest(c) ==
  /\ SenderReads(c, "sync_request")
  /\ LET since == GetSince(Head(toS[c]).since)
     IN  /\ toR' = [toR EXCEPT ![c] = @ \o [i \in DOMAIN since |-> SyncData(Len(made) + i, since[i])]]
         /\ made' = made \o since
  /\ UNCHANGED <<link, joined, queue, hist, lastSeen, flush, sent, sync, push,
                 cli, typed, receiver, counters, owed, queued, spilled>>

\* The reader of c at the receiver takes a message whose type is in T.
ReceiverReads(c, T) ==
  /\ link[c] \in {"up", "fin"}
  /\ toR[c] # <<>> /\ Head(toR[c]).type \in T
  /\ toR' = [toR EXCEPT ![c] = Tail(@)]

sender == <<joined, queue, hist, lastSeen, flush, sent, sync, push, cli, typed,
            made, owed, queued>>

(* MsgHello at the receiver: its own queue and push are empty; it asks for  *)
(* what it missed since it last saw the sender (SyncSince is cut to whole   *)
(* seconds, so a line typed just before that sighting may come again).      *)
(* Limiter.Reset: the bucket is full again.                                 *)
ReceiverHello(c) ==
  /\ ReceiverReads(c, {"hello"})
  /\ rjoined' = [rjoined EXCEPT ![c] = TRUE]
  /\ rlastSeen' = {Len(hist)}
  /\ tokens' = Burst
  /\ IF rlastSeen = {} \/ link[c] # "up"
       THEN UNCHANGED toS
       ELSE \E k \in rlastSeen, cut \in {0, 1} :
              /\ cut <= k
              /\ toS' = [toS EXCEPT ![c] = Append(@, SyncRequest(k - cut))]
  /\ UNCHANGED <<link, sender, seen, shown, shownEver, spilled, counters>>

\* Mutant: no dedup gate.
OpenGate(m) == seen' = seen \cup {m.id}

\* The dedup gate: seen.Add of an ID that is new.
Gate(m) == m.id \notin seen /\ seen' = seen \cup {m.id}

\* allowInbound takes a token for a MsgChat; MsgSyncData is not limited.
Allow(m) ==
  IF m.type = "chat" THEN tokens > 0 /\ tokens' = tokens - 1 ELSE UNCHANGED tokens

\* MsgChat and MsgSyncData that pass the gate and decrypt: display.
ReceiverShow(c) ==
  /\ ReceiverReads(c, {"chat", "sync_data"})
  /\ Gate(Head(toR[c]))
  /\ Allow(Head(toR[c]))
  /\ IF rjoined[c]
       THEN /\ shown' = Append(shown, Head(toR[c]))
            /\ shownEver' = shownEver \cup {Head(toR[c]).line}
       ELSE UNCHANGED <<shown, shownEver>>
  /\ UNCHANGED <<link, toS, sender, spilled, rjoined, rlastSeen, counters>>

\* The gate drops an envelope whose ID it knows.
ReceiverDuplicate(c) ==
  /\ ReceiverReads(c, {"chat", "sync_data"})
  /\ Head(toR[c]).id \in seen
  /\ UNCHANGED <<link, toS, sender, spilled, receiver, counters>>

\* The gate has recorded the ID; then the bucket is empty.
ReceiverRefuse(c) ==
  /\ ReceiverReads(c, {"chat"})
  /\ Gate(Head(toR[c]))
  /\ tokens = 0
  /\ spilled' = spilled \cup {Loss("rate", Head(toR[c]).line)}
  /\ UNCHANGED <<link, toS, sender, rjoined, rlastSeen, shown, tokens, shownEver, counters>>

\* The gate has recorded the ID; then Decrypt fails, a rekey having come between.
ReceiverGarbled(c) ==
  /\ ReceiverReads(c, {"chat", "sync_data"})
  /\ garbled < sc.garbled
  /\ garbled' = garbled + 1
  /\ Gate(Head(toR[c]))
  /\ Allow(Head(toR[c]))
  /\ spilled' = spilled \cup {Loss("key", Head(toR[c]).line)}
  /\ UNCHANGED <<link, toS, sender, rjoined, rlastSeen, shown, shownEver, sc, cuts, crashes>>

ReceiverChat(c) ==
  ReceiverShow(c) \/ ReceiverDuplicate(c) \/ ReceiverRefuse(c) \/ ReceiverGarbled(c)

\* A twentieth of a second passes: Allow will find one more token.
Refill ==
  /\ tokens < Burst
  /\ tokens' = tokens + 1
  /\ UNCHANGED <<link, toR, toS, sender, spilled, rjoined, rlastSeen, seen, shown,
                 shownEver, counters>>

\* The network breaks c; what was on it is lost and the receiver lets it go.
Cut(c) ==
  /\ link[c] = "up"
  /\ cuts < sc.cuts
  /\ cuts' = cuts + 1
  /\ link' = [link EXCEPT ![c] = "cut"]
  /\ spilled' = spilled \cup LostOn(toR[c])
  /\ toR' = [toR EXCEPT ![c] = <<>>]
  /\ toS' = [toS EXCEPT ![c] = <<>>]
  /\ rjoined' = [rjoined EXCEPT ![c] = FALSE]
  /\ UNCHANGED <<joined, queue, hist, lastSeen, flush, sent, sync, push, cli,
                 typed, made, rlastSeen, seen, shown, tokens, shownEver, sc, crashes,
                 garbled, owed, queued>>

\* The sender's read fails: removePeer.
Notice(c) ==
  /\ link[c] = "cut"
  /\ flush[c] = {} /\ sent[c] = {}
  /\ link' = [link EXCEPT ![c] = "closed"]
  /\ joined' = [joined EXCEPT ![c] = FALSE]
  /\ UNCHANGED <<toR, toS, queue, hist, lastSeen, flush, sent, sync, push, cli,
                 typed, made, receiver, counters, owed, queued, spilled>>

\* The receiver reads the sender's end of stream.
ReceiverEOF(c) ==
  /\ link[c] = "fin" /\ toR[c] = <<>>
  /\ link' = [link EXCEPT ![c] = "closed"]
  /\ rjoined' = [rjoined EXCEPT ![c] = FALSE]
  /\ UNCHANGED <<toR, toS, sender, spilled, rlastSeen, seen, shown, tokens, shownEver,
                 counters>>

\* A goroutine of the sender may be inside saveLocked of the queue.
Saving == (cli.at = "enqueue" /\ lastSeen # {}) \/ \E c \in Link : sent[c] # {}

(* The sender stops (/quit, a signal or a crash) and starts again: queue,   *)
(* history and contacts come back from disk.  What it wrote still arrives.  *)
(* saveLocked truncates the file before it writes, and New takes a file it  *)
(* cannot parse for an empty queue.                                         *)
RestartSender ==
  /\ crashes < sc.crashes
  /\ crashes' = crashes + 1
  /\ link' = [c \in Link |-> IF link[c] = "up" THEN "fin"
                             ELSE IF link[c] = "cut" THEN "closed" ELSE link[c]]
  /\ toS' = [c \in Link |-> <<>>]
  /\ joined' = [c \in Link |-> FALSE]
  /\ flush' = [c \in Link |-> {}] /\ sent' = [c \in Link |-> {}]
  /\ sync' = [c \in Link |-> {}] /\ push' = [c \in Link |-> <<>>]
  /\ cli' = Idle
  /\ \/ UNCHANGED <<queue, spilled>>
     \/ /\ sc.torn /\ Saving
        /\ queue' = {}
        /\ spilled' = spilled \cup {Loss("torn", m.line) : m \in queue}
  /\ UNCHANGED <<toR, hist, lastSeen, typed, made, receiver, sc, cuts, garbled, owed, queued>>

(* The receiver stops and starts again: its contacts come back, its dedup   *)
(* set does not, and its connections break.                                 *)
RestartReceiver ==
  /\ crashes < sc.crashes
  /\ crashes' = crashes + 1
  /\ link' = [c \in Link |-> IF link[c] = "up" THEN "cut"
                             ELSE IF link[c] = "fin" THEN "closed" ELSE link[c]]
  /\ spilled' = spilled \cup UNION {LostOn(toR[c]) : c \in Link}
  /\ toR' = [c \in Link |-> <<>>] /\ toS' = [c \in Link |-> <<>>]
  /\ rjoined' = [c \in Link |-> FALSE]
  /\ seen' = {} /\ shown' = <<>> /\ tokens' = Burst
  /\ UNCHANGED <<joined, queue, hist, lastSeen, flush, sent, sync, push, cli,
                 typed, made, rlastSeen, shownEver, sc, cuts, garbled, owed, queued>>

Next ==
  \/ TypeLine \/ Enqueue \/ Broadcast \/ Record
  \/ \E c \in Link :
       \/ Connect(c)
       \/ HandleHello(c) \/ FlushSend(c) \/ FlushRemove(c)
       \/ SyncStart(c) \/ SyncPush(c) \/ HandleSyncRequest(c)
       \/ ReceiverHello(c) \/ ReceiverChat(c)
       \/ Cut(c) \/ Notice(c) \/ ReceiverEOF(c)
  \/ Refill \/ RestartSender \/ RestartReceiver

Spec == Init /\ [][Next]_vars

(* Goroutines that can run do run; the user, the dialing, the network and   *)
(* the crashes are not fair.                                                *)
Fairness ==
  /\ WF_vars(Enqueue \/ Broadcast \/ Record)
  /\ \A c \in Link :
       /\ WF_vars(HandleHello(c) \/ HandleSyncRequest(c))
       /\ WF_vars(FlushSend(c) \/ FlushRemove(c))
       /\ WF_vars(SyncStart(c) \/ SyncPush(c))
       /\ WF_vars(ReceiverHello(c) \/ ReceiverChat(c))

FairSpec == Spec /\ Fairness
----------------------------------------------------------------------------
Line == Nat
Pending == [id : Nat, line : Line]
Envelope == [type : {"chat", "sync_data"}, id : Nat, line : Line]
ToReceiver == {Hello} \cup Envelope
ToSender == {Hello} \cup [type : {"sync_request"}, since : Nat]
Losses == [why : {"link", "full", "rate", "key", "torn"}, line : Line]

LinkType ==
  /\ link \in [Link -> {"new", "up", "cut", "fin", "closed"}]
  /\ joined \in [Link -> BOOLEAN] /\ rjoined \in [Link -> BOOLEAN]
WireType == toR \in [Link -> Seq(ToReceiver)] /\ toS \in [Link -> Seq(ToSender)]
QueueType ==
  /\ queue \subseteq Pending
  /\ flush \in [Link -> SUBSET Pending] /\ sent \in [Link -> SUBSET Pending]
SyncType ==
  /\ hist \in Seq(Line) /\ push \in [Link -> Seq(Line)]
  /\ lastSeen \subseteq Nat /\ rlastSeen \subseteq Nat /\ sync \in [Link -> SUBSET Nat]
CliType == cli \in [at : {"idle", "enqueue", "broadcast", "record"}] /\ typed \in Nat
MadeType == made \in Seq(Line)
ShownType == seen \subseteq Nat /\ shown \in Seq(Envelope)
LimitType ==
  /\ sc \in Scenario /\ tokens \in 0..Burst
  /\ cuts \in 0..sc.cuts /\ crashes \in 0..sc.crashes /\ garbled \in 0..sc.garbled
HistoryType ==
  /\ shownEver \subseteq Line /\ owed \subseteq Line /\ queued \subseteq Nat
  /\ spilled \subseteq Losses

TypeOK ==
  /\ LinkType /\ WireType /\ QueueType /\ SyncType /\ CliType /\ MadeType
  /\ ShownType /\ LimitType /\ HistoryType

(* While the receiver runs, it displays no envelope twice, although two     *)
(* hello handlers may flush the same queued message on two connections and  *)
(* a restarted sender flushes again what it had sent but not yet removed:   *)
(* SendToWithID reuses the ID and the dedup gate of handleMessage drops it. *)
AtMostOncePerEnvelope ==
  \A i, j \in DOMAIN shown : shown[i].id = shown[j].id => i = j

InQueue == {m.line : m \in queue}
InFlight == UNION {LinesOn(toR[c]) : c \in {d \in Link : link[d] \in {"up", "fin"}}}

Spilled == {x.line : x \in spilled}

(* A line that was queued or sent has been displayed, is still queued, is   *)
(* on its way, or a copy of it met one of five named ends: a broken         *)
(* connection, the full queue, the empty bucket, a rekey or a torn save.    *)
(* Nothing else loses it, however flushes, crashes and restarts interleave: *)
(* Remove comes after SendToWithID, Enqueue saves before it returns, and    *)
(* the dedup gate drops only what was displayed or so lost.                 *)
NoOtherLoss == owed \subseteq shownEver \cup InQueue \cup InFlight \cup Spilled

\* The mailbox of the lines typed for the receiver.
Box == INSTANCE Mailbox
  WITH offered <- owed, kept <- InQueue \cup InFlight, shown <- shownEver, lost <- Spilled

(* Queue, connections and delta sync together are one mailbox: a line       *)
(* leaves them only by being displayed or by a loss on record, and none is  *)
(* displayed that was not in them.  Step by step, so that no restart, break *)
(* or second flush takes a line out and puts it back later.                 *)
DeliversAsMailbox == Box!Spec

(* Over one connection at a time, queued messages are displayed in the      *)
(* order they were typed, also when the sender restarts in mid-flush and    *)
(* flushes again: Pending keeps the order of the queue.                     *)
QueuedInOrder ==
  ~sc.parallel => \A i, j \in DOMAIN shown :
    i < j /\ {shown[i].id, shown[j].id} \subseteq queued => shown[i].id < shown[j].id

(* A queued message the hello handler has copied is displayed, unless a     *)
(* connection breaks, a node stops, the receiver's bucket refuses it or a   *)
(* rekey made it unreadable.  That the full queue drops it meanwhile, for a *)
(* line that a stale Peers() still sends to the queue, does not matter: the *)
(* handler works off its copy, and delta sync has the line too.             *)
FlushedIsShown ==
  \A n \in UNION {1..x.lines : x \in Scenarios} :
    (\E c \in Link : \E m \in flush[c] : m.line = n)
      ~> \/ n \in shownEver
         \/ \E x \in spilled : x.line = n /\ x.why \in {"rate", "key"}
         \/ cuts + crashes > 0
============================================================================
