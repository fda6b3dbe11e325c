------------------------- MODULE FileTransferProofs -------------------------
(***************************************************************************)
(* Safety of FileTransfer for any number of connections, chunks, commands, *)
(* cuts and restarts.                                                      *)
(***************************************************************************)
EXTENDS FileTransfer, TLAPS, WellFoundedInduction

\* A handler past RestorePartial holds a transfer object the Manager made.
HandlersHoldObjects ==
  /\ \A c \in Link : reader[c].at \notin {"idle", "restore"}
       => reader[c].obj \in DOMAIN obj
  /\ cli.at = "ask" => cli.obj \in DOMAIN obj

TypeInv == TypeOK /\ HandlersHoldObjects

\* Until the transfer forks, the Manager's entry is the only object there is.
OneObject == ~forked => entry = Len(obj) /\ Len(obj) <= 1

\* Unless the last Checkpoint began while another ran, it is the only one.
OneCheckpoint ==
  ~overlapped =>
    \A c, d \in Link : Checkpointing(c) /\ Checkpointing(d) => c = d

\* A Checkpoint that is the only one writes to the file it has truncated.
FlushesToEmpty ==
  ~overlapped => \A c \in Link : reader[c].at = "flush" => disk = Truncated

\* A chunk has been stored whose Checkpoint has not begun.
SnapshotDue == \E c \in Link : reader[c].at = "snapshot"

\* What a Checkpoint under way writes, and what the last one wrote, is current.
SnapIsCurrent ==
  (~forked /\ ~overlapped /\ entry # 0 /\ ~SnapshotDue) =>
    /\ \A c \in Link : Checkpointing(c) => reader[c].snap = obj[entry]
    /\ (\A c \in Link : ~Checkpointing(c))
         => obj[entry] = {} \/ disk = Partial(obj[entry])

CheckpointInv ==
  OneObject /\ OneCheckpoint /\ FlushesToEmpty /\ SnapIsCurrent
-----------------------------------------------------------------------------
\* What Append does to length, domain and elements.
LEMMA SeqAppend ==
  ASSUME NEW S, NEW s \in Seq(S), NEW x \in S
  PROVE  /\ Append(s, x) \in Seq(S)
         /\ Len(Append(s, x)) = Len(s) + 1
         /\ DOMAIN Append(s, x) = 1..(Len(s) + 1)
         /\ DOMAIN s = 1..Len(s)
         /\ \A i \in 1..Len(s) : Append(s, x)[i] = s[i]
         /\ Append(s, x)[Len(s) + 1] = x
OBVIOUS

\* What Head and Tail return when a handler takes the next message off a wire.
LEMMA SeqTail ==
  ASSUME NEW S, NEW s \in Seq(S), s # <<>>
  PROVE  Tail(s) \in Seq(S) /\ Head(s) \in S
OBVIOUS

\* The missing chunks are sent in the order of their index: there is a least.
LEMMA LeastType ==
  ASSUME NEW s \in SUBSET Chunk, s # {}
  PROVE  Least(s) \in s
<1> DEFINE Before == {ss \in Nat \X Nat : ss[1] < ss[2]}
<1>1. s \subseteq Nat
  BY FileAssumption DEF Chunk
<1>2. OpToRel(<, Nat) = Before
  BY Zenon DEF OpToRel
<1>3. IsWellFoundedOn(Before, Nat)
  BY <1>2, NatLessThanWellFounded, Zenon
<1>4. PICK i \in s : \A j \in s : ~ (<<j, i>> \in Before)
  <2> HIDE DEF Before
  <2> QED BY <1>1, <1>3, WFMin, Zenon
<1>5. ASSUME NEW j \in s PROVE i <= j
  <2>1. j \in Nat /\ i \in Nat
    BY <1>1
  <2>2. j < i => <<j, i>> \in Before
    BY <2>1
  <2>3. ~ (<<j, i>> \in Before)
    BY <1>4
  <2> QED BY <2>1, <2>2, <2>3
<1> QED
  BY <1>5 DEF Least
-----------------------------------------------------------------------------
\* TypeInv in groups of variables that the handlers change together.
WireType ==
  /\ link \in [Link -> {"new", "up", "dead"}]
  /\ toR \in [Link -> Seq(ToReceiver)] /\ toS \in [Link -> Seq(ToSender)]
SenderType ==
  /\ offered \in BOOLEAN /\ known \in BOOLEAN /\ canceled \in BOOLEAN
  /\ cursor \in 0..ChunkTotal /\ spawned \in Nat /\ jobs \in SUBSET Job
StoreType ==
  /\ obj \in Seq(SUBSET Chunk)
  /\ entry \in 0..Len(obj) /\ lock \subseteq DOMAIN obj
  /\ disk \in [state : {"none", "empty", "garbled", "whole"},
               chunks : SUBSET Chunk]
HandlerType ==
  /\ reader \in [Link -> {Idle} \cup Handler]
  /\ cli \in {Idle} \cup Command
  /\ HandlersHoldObjects
RestType ==
  /\ prompted \in BOOLEAN /\ saved \in BOOLEAN
  /\ forked \in BOOLEAN /\ overlapped \in BOOLEAN
  /\ left \in Budget

\* TypeInv is the conjunction of its groups, before and after a step.
LEMMA TypeGroups ==
  /\ TypeInv <=> WireType /\ SenderType /\ StoreType /\ HandlerType /\ RestType
  /\ TypeInv' <=> WireType' /\ SenderType' /\ StoreType' /\ HandlerType' /\ RestType'
BY Zenon DEF TypeInv, TypeOK, WireType, SenderType, StoreType, HandlerType, RestType

\* A step that leaves the variables of a group alone keeps the group.
LEMMA TypeStutters ==
  /\ WireType /\ UNCHANGED <<link, toR, toS>> => WireType'
  /\ SenderType /\ UNCHANGED sender => SenderType'
  /\ StoreType /\ UNCHANGED <<obj, entry, lock, disk>> => StoreType'
  /\ HandlerType /\ UNCHANGED <<obj, reader, cli>> => HandlerType'
  /\ RestType /\ UNCHANGED <<prompted, saved, forked, overlapped, left>>
       => RestType'
BY DEF WireType, SenderType, sender, StoreType, HandlerType,
       HandlersHoldObjects, RestType

\* A message taken off a wire leaves a wire, and is one the wire may carry.
LEMMA TakeType ==
  ASSUME NEW S, NEW w \in [Link -> Seq(S)], NEW c \in Link, NEW t, Next1(w, c, t)
  PROVE  /\ Rest(w, c) \in [Link -> Seq(S)]
         /\ Head(w[c]) \in S /\ Head(w[c]).type = t
BY SeqTail DEF Next1, Rest

\* sendRaw keeps the wires well typed.
LEMMA WrittenType ==
  ASSUME NEW S, NEW w \in [Link -> Seq(S)], NEW c \in Link, NEW m \in S
  PROVE  Written(c, w, m) \in [Link -> Seq(S)]
BY SeqAppend DEF Written

\* The receiver's commands write to the sender or to the bystander.
LEMMA DeliverType ==
  ASSUME toS \in [Link -> Seq(ToSender)], NEW target, NEW m \in ToSender,
         Deliver(target, m)
  PROVE  toS' \in [Link -> Seq(ToSender)]
BY SeqAppend DEF Deliver

\* The command loop and the scheduler count within their bounds.
LEMMA SpendType ==
  ASSUME RestType, NEW what \in Limited,
         Spend(what),
         UNCHANGED <<prompted, saved, forked, overlapped>>
  PROVE  RestType'
BY DEF RestType, Spend, Budget

\* startFileSend and resendChunks start as goroutines of the right type.
LEMMA SpawnType ==
  ASSUME SenderType, NEW d \in {"send", "resend"}, NEW c \in Link,
         NEW todo \in SUBSET Chunk,
         Spawn([id |-> 0, does |-> d, link |-> c, todo |-> todo]),
         UNCHANGED <<offered, known, cursor, canceled>>
  PROVE  SenderType'
BY DEF SenderType, Spawn, Job
\* The sender's handlers, its goroutines and SendFile keep the types.
LEMMA SenderKeepsType ==
  ASSUME TypeInv, NEW c \in Link,
         Connect(c) \/ SendFile(c) \/ SenderStep(c)
  PROVE  TypeInv'
<1> USE TypeGroups
<1>1. CASE Connect(c)
  <2>1. WireType'
    BY <1>1 DEF Connect, WireType
  <2> QED BY <1>1, <2>1, TypeStutters DEF Connect, receiver
<1>2. CASE SendFile(c)
  <2>1. WireType'
    BY <1>2, SeqAppend DEF SendFile, WireType, ToReceiver
  <2>2. SenderType'
    BY <1>2 DEF SendFile, SenderType
  <2> QED BY <1>2, <2>1, <2>2, TypeStutters DEF SendFile, receiver
<1>3. CASE HandleAccept(c)
  <2>1. WireType'
    BY <1>3, TakeType DEF HandleAccept, WireType
  <2>2. SenderType'
    BY <1>3, SpawnType, TypeStutters DEF HandleAccept, sender
  <2> QED BY <1>3, <2>1, <2>2, TypeStutters DEF HandleAccept, receiver
<1>4. CASE HandleReject(c)
  <2>1. WireType'
    BY <1>4, TakeType DEF HandleReject, WireType
  <2>2. SenderType'
    BY <1>4 DEF HandleReject, SenderType
  <2> QED BY <1>4, <2>1, <2>2, TypeStutters DEF HandleReject, receiver
<1>5. CASE HandleChunkRequest(c)
  <2>1. WireType'
    BY <1>5, TakeType DEF HandleChunkRequest, WireType
  <2>2. Head(toS[c]) \in ToSender /\ Head(toS[c]).type = "chunk_request"
    BY <1>5, TakeType DEF HandleChunkRequest, WireType
  <2>3. Head(toS[c]).missing \in SUBSET Chunk
    BY <2>2 DEF ToSender, Accept, Reject
  <2>4. SenderType'
    BY <1>5, <2>3, SpawnType, TypeStutters DEF HandleChunkRequest, sender
  <2> QED BY <1>5, <2>1, <2>4, TypeStutters DEF HandleChunkRequest, receiver
<1> QED BY <1>1, <1>2, <1>3, <1>4, <1>5 DEF SenderStep

\* A goroutine of the sender reads and writes chunks of the file.
LEMMA JobKeepsType ==
  ASSUME TypeInv, NEW j \in jobs, JobStep(j)
  PROVE  TypeInv'
<1> USE TypeGroups
<1>1. j \in Job
  BY DEF SenderType
<1>2. CASE ReadChunk(j)
  <2>1. SenderType'
    <3>1. CASE cursor < ChunkTotal /\ ~canceled
      <4>1. cursor \in Chunk /\ cursor + 1 \in 0..ChunkTotal
        BY <3>1, FileAssumption DEF SenderType, Chunk
      <4>2. [j EXCEPT !.todo = {cursor}] \in Job
        BY <1>1, <4>1 DEF Job
      <4> QED BY <1>2, <3>1, <4>1, <4>2 DEF ReadChunk, SenderType
    <3>2. CASE ~(cursor < ChunkTotal /\ ~canceled)
      BY <1>2, <3>2 DEF ReadChunk, SenderType
    <3> QED BY <3>1, <3>2
  <2> QED BY <1>2, <2>1, TypeStutters DEF ReadChunk, receiver
<1>3. CASE SendChunk(j)
  <2> DEFINE i == Least(j.todo)
             k == [j EXCEPT !.todo = @ \ {i}]
  <2>1. i \in Chunk
    BY <1>1, <1>3, LeastType DEF Job, SendChunk
  <2>2. FileChunk(i) \in ToReceiver
    BY <2>1 DEF FileChunk, ToReceiver
  <2>3. k \in Job
    BY <1>1 DEF Job
  <2>4. WireType'
    BY <1>1, <1>3, <2>2, WrittenType DEF SendChunk, WireType, Job
  <2>5. SenderType'
    BY <1>3, <2>3 DEF SendChunk, SenderType
  <2> QED BY <1>3, <2>4, <2>5, TypeStutters DEF SendChunk, receiver
<1> QED BY <1>2, <1>3 DEF JobStep
\* RestorePartial adds an object and makes it the Manager's entry.
LEMMA RestoreType ==
  ASSUME TypeInv, Restore
  PROVE  /\ obj' \in Seq(SUBSET Chunk) /\ Len(obj') = Len(obj) + 1
         /\ DOMAIN obj \subseteq DOMAIN obj' /\ Len(obj) + 1 \in DOMAIN obj'
         /\ Len(obj) + 1 \in Nat
         /\ entry' = Len(obj) + 1 /\ forked' \in BOOLEAN
BY TypeGroups, SeqAppend DEF Restore, StoreType, RestType

\* A new object keeps the store well typed and the handlers on their objects.
LEMMA NewObjectType ==
  ASSUME TypeInv, obj' \in Seq(SUBSET Chunk), Len(obj') = Len(obj) + 1,
         DOMAIN obj \subseteq DOMAIN obj', entry' = Len(obj) + 1
  PROVE  /\ UNCHANGED <<lock, disk>> => StoreType'
         /\ UNCHANGED <<reader, cli>> => HandlerType'
BY TypeGroups DEF StoreType, HandlerType, HandlersHoldObjects

\* A handler of the receiver that moves on within the MsgFileChunk case.
LEMMA MoveType ==
  ASSUME HandlerType, NEW c \in Link, NEW h \in {Idle} \cup Handler,
         reader' = [reader EXCEPT ![c] = h],
         h.at \notin {"idle", "restore"} => h.obj \in DOMAIN obj',
         DOMAIN obj \subseteq DOMAIN obj', UNCHANGED cli
  PROVE  HandlerType'
BY DEF HandlerType, HandlersHoldObjects

\* A handler past RestorePartial is a Handler with an object of the store.
LEMMA BusyType ==
  ASSUME TypeInv, NEW c \in Link, reader[c].at \notin {"idle", "restore"}
  PROVE  reader[c] \in Handler /\ reader[c].obj \in DOMAIN obj
BY TypeGroups DEF HandlerType, HandlersHoldObjects, Idle

\* The receiver's reader goroutines keep the types.
LEMMA ReaderKeepsType ==
  ASSUME TypeInv, NEW c \in Link, ReaderStep(c)
  PROVE  TypeInv'
<1> USE TypeGroups
<1>1. CASE HandleOffer(c)
  <2>1. WireType'
    BY <1>1, TakeType DEF HandleOffer, WireType
  <2>2. CASE entry # 0
    BY <1>1, <2>1, <2>2, TypeStutters DEF HandleOffer
  <2>3. CASE entry = 0 /\ disk.state = "whole"
    <3>1. Restore
      BY <1>1, <2>3 DEF HandleOffer
    <3>2. StoreType' /\ HandlerType'
      BY <1>1, <3>1, RestoreType, NewObjectType DEF HandleOffer
    <3>3. RestType'
      BY <1>1, <2>3, <3>1, RestoreType DEF HandleOffer, RestType
    <3> QED BY <1>1, <2>1, <3>2, <3>3, TypeStutters DEF HandleOffer
  <2>4. CASE entry = 0 /\ disk.state # "whole"
    <3>1. obj' = Append(obj, {}) /\ entry' = Len(obj) + 1
      BY <1>1, <2>4 DEF HandleOffer
    <3>2. /\ obj' \in Seq(SUBSET Chunk) /\ Len(obj') = Len(obj) + 1
          /\ DOMAIN obj \subseteq DOMAIN obj'
      <4>1. {} \in SUBSET Chunk
        OBVIOUS
      <4> QED BY <3>1, <4>1, SeqAppend DEF StoreType
    <3>3. StoreType' /\ HandlerType'
      BY <1>1, <3>1, <3>2, NewObjectType DEF HandleOffer
    <3>4. RestType'
      BY <1>1, <2>4 DEF HandleOffer, RestType
    <3> QED BY <1>1, <2>1, <3>3, <3>4, TypeStutters DEF HandleOffer
  <2> QED BY <2>2, <2>3, <2>4
<1>2. CASE HandleFileChunk(c)
  <2> DEFINE h == [at |-> IF entry = 0 THEN "restore" ELSE "write",
                   index |-> Head(toR[c]).index, obj |-> entry, snap |-> {}]
  <2>1. WireType'
    BY <1>2, TakeType DEF HandleFileChunk, WireType
  <2>2. Head(toR[c]) \in ToReceiver /\ Head(toR[c]).type = "file_chunk"
    BY <1>2, TakeType DEF HandleFileChunk, WireType
  <2>3. Head(toR[c]).index \in Chunk
    BY <2>2 DEF ToReceiver, Offer
  <2>4. entry \in Nat /\ (entry # 0 => entry \in DOMAIN obj)
    BY DEF StoreType
  <2>5. h \in Handler
    BY <2>3, <2>4 DEF Handler
  <2>6. reader' = [reader EXCEPT ![c] = h] /\ UNCHANGED <<obj, cli>>
    BY <1>2 DEF HandleFileChunk
  <2>7. h.at \notin {"idle", "restore"} => h.obj \in DOMAIN obj'
    BY <2>4, <2>6
  <2>8. HandlerType'
    <3> HIDE DEF h
    <3> QED BY <2>5, <2>6, <2>7, MoveType
  <2> QED BY <1>2, <2>1, <2>8, TypeStutters DEF HandleFileChunk
<1>3. CASE RestoreForChunk(c)
  <2>0. reader[c] \in Handler
    BY <1>3 DEF RestoreForChunk, HandlerType, Idle
  <2>1. CASE disk.state = "whole"
    <3> DEFINE h == [reader[c] EXCEPT !.at = "write", !.obj = Len(obj) + 1]
    <3>1. Restore
      BY <1>3, <2>1 DEF RestoreForChunk
    <3>2. h \in Handler /\ h.obj \in DOMAIN obj'
      BY <2>0, <3>1, RestoreType DEF Handler
    <3>3. reader' = [reader EXCEPT ![c] = h] /\ UNCHANGED cli
      BY <1>3, <2>1 DEF RestoreForChunk, HandlerType
    <3>4. HandlerType'
      <4> HIDE DEF h
      <4> QED BY <3>1, <3>2, <3>3, RestoreType, MoveType
    <3>5. StoreType'
      BY <1>3, <3>1, RestoreType, NewObjectType DEF RestoreForChunk
    <3>6. RestType'
      BY <1>3, <3>1, RestoreType DEF RestoreForChunk, RestType
    <3> QED BY <1>3, <3>4, <3>5, <3>6, TypeStutters DEF RestoreForChunk
  <2>2. CASE disk.state # "whole"
    <3>1. HandlerType'
      BY <1>3, <2>2, MoveType DEF RestoreForChunk, Idle
    <3> QED BY <1>3, <2>2, <3>1, TypeStutters DEF RestoreForChunk
  <2> QED BY <2>1, <2>2
<1>4. CASE WriteChunk(c)
  <2> DEFINE h == [reader[c] EXCEPT !.at = "snapshot"]
  <2>1. reader[c] \in Handler /\ reader[c].obj \in DOMAIN obj
    BY <1>4, BusyType DEF WriteChunk
  <2>2. /\ obj' \in Seq(SUBSET Chunk) /\ Len(obj') = Len(obj)
        /\ DOMAIN obj' = DOMAIN obj
    BY <1>4, <2>1 DEF WriteChunk, StoreType, Handler
  <2>3. StoreType'
    BY <1>4, <2>2 DEF WriteChunk, StoreType
  <2>4. h \in Handler /\ h.obj \in DOMAIN obj'
    BY <2>1, <2>2 DEF Handler
  <2>5. reader' = [reader EXCEPT ![c] = h] /\ UNCHANGED cli
    BY <1>4 DEF WriteChunk, HandlerType
  <2>6. HandlerType'
    <3> HIDE DEF h
    <3> QED BY <2>2, <2>4, <2>5, MoveType
  <2> QED BY <1>4, <2>3, <2>6, TypeStutters DEF WriteChunk
<1>5. CASE Snapshot(c)
  <2>1. reader[c] \in Handler /\ reader[c].obj \in DOMAIN obj
    BY <1>5, BusyType DEF Snapshot
  <2>2. obj[reader[c].obj] \in SUBSET Chunk
    BY <2>1 DEF StoreType
  <2>3. reader' = [reader EXCEPT ![c] = [reader[c] EXCEPT !.at = "truncate",
                                          !.snap = obj[reader[c].obj]]]
    BY <1>5 DEF Snapshot, HandlerType
  <2>4. HandlerType'
    BY <1>5, <2>1, <2>2, <2>3, MoveType DEF Snapshot, Handler
  <2>5. RestType'
    BY <1>5 DEF Snapshot, RestType
  <2> QED BY <1>5, <2>4, <2>5, TypeStutters DEF Snapshot
<1>6. CASE Truncate(c)
  <2>1. reader[c] \in Handler /\ reader[c].obj \in DOMAIN obj
    BY <1>6, BusyType DEF Truncate
  <2>2. HandlerType'
    BY <1>6, <2>1, MoveType DEF Truncate, HandlerType, Handler
  <2>3. StoreType'
    BY <1>6 DEF Truncate, StoreType, Truncated
  <2> QED BY <1>6, <2>2, <2>3, TypeStutters DEF Truncate
<1>7. CASE Flush(c)
  <2>1. reader[c] \in Handler /\ reader[c].obj \in DOMAIN obj
    BY <1>7, BusyType DEF Flush
  <2>2. HandlerType'
    BY <1>7, <2>1, MoveType DEF Flush, HandlerType, Handler
  <2>3. StoreType'
    BY <1>7, <2>1 DEF Flush, StoreType, Overlay, Partial, Garbled, Handler
  <2> QED BY <1>7, <2>2, <2>3, TypeStutters DEF Flush
<1>8. CASE IsComplete(c)
  <2>1. reader[c] \in Handler /\ reader[c].obj \in DOMAIN obj
    BY <1>8, BusyType DEF IsComplete
  <2>2. HandlerType'
    BY <1>8, <2>1, MoveType DEF IsComplete, HandlerType, Handler, Idle
  <2> QED BY <1>8, <2>2, TypeStutters DEF IsComplete
<1>9. CASE SaveFile(c)
  <2>1. reader[c] \in Handler /\ reader[c].obj \in DOMAIN obj
    BY <1>9, BusyType DEF SaveFile
  <2>2. HandlerType'
    BY <1>9, <2>1, MoveType DEF SaveFile, HandlerType, Handler
  <2>3. StoreType'
    BY <1>9, <2>1 DEF SaveFile, StoreType
  <2>4. RestType'
    BY <1>9 DEF SaveFile, RestType
  <2> QED BY <1>9, <2>2, <2>3, <2>4, TypeStutters DEF SaveFile
<1> QED
  BY <1>1, <1>2, <1>3, <1>4, <1>5, <1>6, <1>7, <1>8, <1>9 DEF ReaderStep
\* The receiver's commands keep the types.
LEMMA CommandKeepsType ==
  ASSUME TypeInv, AcceptFile \/ RejectFile \/ RequestResume \/ ResumeStep
  PROVE  TypeInv'
<1> USE TypeGroups
<1>1. Accept \in ToSender /\ Reject \in ToSender
  BY DEF ToSender
<1>2. CASE AcceptFile
  <2>1. WireType'
    BY <1>1, <1>2, DeliverType DEF AcceptFile, WireType
  <2>2. RestType'
    BY <1>2, SpendType DEF Limited, AcceptFile, receiver
  <2> QED BY <1>2, <2>1, <2>2, TypeStutters DEF AcceptFile, receiver
<1>3. CASE RejectFile
  <2>1. WireType'
    BY <1>1, <1>3, DeliverType DEF RejectFile, WireType
  <2>2. RestType'
    BY <1>3, SpendType DEF Limited, RejectFile, receiver
  <2> QED BY <1>3, <2>1, <2>2, TypeStutters DEF RejectFile, receiver
<1>4. CASE RequestResume
  <2>1. HandlerType'
    BY <1>4 DEF RequestResume, HandlerType, HandlersHoldObjects, Command,
                StoreType
  <2>2. RestType'
    BY <1>4, SpendType DEF Limited, RequestResume
  <2> QED BY <1>4, <2>1, <2>2, TypeStutters DEF RequestResume
<1>5. CASE RestoreForResume
  <2>1. CASE disk.state = "whole"
    <3>1. Restore /\ cli' = [at |-> "ask", obj |-> Len(obj) + 1]
      BY <1>5, <2>1 DEF RestoreForResume
    <3>2. StoreType'
      BY <1>5, <3>1, RestoreType, NewObjectType DEF RestoreForResume
    <3>3. HandlerType'
      BY <1>5, <3>1, RestoreType
      DEF RestoreForResume, HandlerType, HandlersHoldObjects, Command
    <3>4. RestType'
      BY <1>5, <3>1, RestoreType DEF RestoreForResume, RestType
    <3> QED BY <1>5, <3>2, <3>3, <3>4, TypeStutters DEF RestoreForResume
  <2>2. CASE disk.state # "whole"
    <3>1. HandlerType'
      BY <1>5, <2>2
      DEF RestoreForResume, HandlerType, HandlersHoldObjects, Idle
    <3> QED BY <1>5, <2>2, <3>1, TypeStutters DEF RestoreForResume
  <2> QED BY <2>1, <2>2
<1>6. CASE AskForMissing
  <2> DEFINE missing == Chunk \ obj[cli.obj]
  <2>1. ChunkRequest(missing) \in ToSender
    BY DEF ChunkRequest, ToSender
  <2>2. WireType'
    BY <1>6, <2>1, DeliverType DEF AskForMissing, WireType
  <2>3. HandlerType'
    BY <1>6 DEF AskForMissing, HandlerType, HandlersHoldObjects, Idle
  <2> QED BY <1>6, <2>2, <2>3, TypeStutters DEF AskForMissing
<1> QED BY <1>2, <1>3, <1>4, <1>5, <1>6 DEF ResumeStep

\* A broken connection and the restart of either node keep the types.
LEMMA FailureKeepsType ==
  ASSUME TypeInv, (\E c \in Link : Cut(c)) \/ RestartSender \/ RestartReceiver
  PROVE  TypeInv'
<1> USE TypeGroups
<1>1. ASSUME NEW c \in Link, Cut(c) PROVE TypeInv'
  <2>1. WireType'
    BY <1>1 DEF Cut, WireType
  <2>2. RestType'
    BY <1>1, SpendType DEF Limited, Cut, receiver
  <2> QED BY <1>1, <2>1, <2>2, TypeStutters DEF Cut, receiver
<1>2. Disconnected => WireType'
  BY DEF Disconnected, WireType
<1>3. CASE RestartSender
  <2>1. RestType'
    BY <1>3, SpendType DEF Limited, RestartSender, receiver
  <2>2. SenderType'
    BY <1>3 DEF RestartSender, SenderType
  <2> QED
    BY <1>2, <1>3, <2>1, <2>2, TypeStutters DEF RestartSender, receiver
<1>4. CASE RestartReceiver
  <2>1. StoreType'
    BY <1>4 DEF RestartReceiver, StoreType
  <2>2. HandlerType'
    BY <1>4 DEF RestartReceiver, HandlerType, HandlersHoldObjects, Idle
  <2>3. RestType'
    <3>1. left' \in Budget
      BY <1>4 DEF RestartReceiver, RestType, Spend, Budget, Limited
    <3>2. /\ forked' = FALSE /\ overlapped' = FALSE
          /\ prompted' = prompted /\ saved' = saved
      BY <1>4 DEF RestartReceiver
    <3> QED BY <3>1, <3>2 DEF RestType
  <2> QED BY <1>2, <1>4, <2>1, <2>2, <2>3, TypeStutters DEF RestartReceiver
<1> QED BY <1>1, <1>3, <1>4

\* Every step keeps the types.
LEMMA TypeStep == TypeInv /\ [Next]_vars => TypeInv'
<1> SUFFICES ASSUME TypeInv, [Next]_vars PROVE TypeInv'
  OBVIOUS
<1>1. CASE UNCHANGED vars
  BY <1>1, TypeGroups, TypeStutters DEF vars, sender
<1>2. CASE Next
  BY <1>2, SenderKeepsType, JobKeepsType, ReaderKeepsType, CommandKeepsType,
     FailureKeepsType DEF Next
<1> QED BY <1>1, <1>2

\* The nodes start well typed.
LEMMA TypeInit == Init => TypeInv
<1> SUFFICES ASSUME Init PROVE TypeInv
  OBVIOUS
<1>1. WireType
  BY DEF Init, WireType
<1>2. SenderType
  <2>1. cursor \in 0..ChunkTotal /\ spawned \in Nat
    BY FileAssumption DEF Init
  <2> QED BY <2>1 DEF Init, SenderType
<1>3. StoreType
  BY DEF Init, StoreType, NoPartial
<1>4. HandlerType
  BY DEF Init, HandlerType, HandlersHoldObjects, Idle
<1>5. RestType
  BY FileAssumption DEF Init, RestType
<1> QED BY <1>1, <1>2, <1>3, <1>4, <1>5, TypeGroups

(* Type correctness of every handler, goroutine and command of the two      *)
(* nodes: chunk indexes stay within the file, and a handler that lets go of *)
(* the Manager's lock still holds an object the Manager made.               *)
THEOREM TypeCorrect == Spec => []TypeOK
<1>1. TypeInv => TypeOK
  BY DEF TypeInv
<1> QED BY <1>1, TypeInit, TypeStep, PTL DEF Spec
-----------------------------------------------------------------------------
\* A step that touches neither the store nor a handler keeps the invariant.
LEMMA CheckpointStutters ==
  ASSUME CheckpointInv,
         UNCHANGED <<obj, entry, disk, reader, forked, overlapped>>
  PROVE  CheckpointInv'
BY DEF CheckpointInv, OneObject, OneCheckpoint, FlushesToEmpty, SnapIsCurrent,
       SnapshotDue, Checkpointing

\* A handler that moves on outside Checkpoint keeps the invariant.
LEMMA CheckpointMoves ==
  ASSUME TypeInv, CheckpointInv, NEW c \in Link,
         \A d \in Link \ {c} : reader'[d] = reader[d],
         reader[c].at \notin {"snapshot", "truncate", "flush"},
         reader'[c].at \notin {"snapshot", "truncate", "flush"},
         UNCHANGED <<obj, entry, disk, forked, overlapped>>
  PROVE  CheckpointInv'
<1>1. \A d \in Link : /\ Checkpointing(d)' <=> Checkpointing(d)
                      /\ (reader[d].at = "snapshot")' <=> reader[d].at = "snapshot"
                      /\ (reader[d].at = "flush")' <=> reader[d].at = "flush"
                      /\ Checkpointing(d) => reader'[d].snap = reader[d].snap
  BY DEF Checkpointing, TypeInv, TypeOK
<1>2. SnapshotDue' <=> SnapshotDue
  BY <1>1 DEF SnapshotDue
<1> QED
  BY <1>1, <1>2 DEF CheckpointInv, OneObject, OneCheckpoint, FlushesToEmpty, SnapIsCurrent

\* While the Manager has no entry, no handler is past RestorePartial.
LEMMA NobodyYet ==
  ASSUME TypeInv, CheckpointInv, ~forked, entry = 0
  PROVE  /\ obj = <<>>
         /\ \A c \in Link : reader[c].at \in {"idle", "restore"}
<1>1. obj \in Seq(SUBSET Chunk) /\ Len(obj) = 0
  BY DEF TypeInv, TypeOK, CheckpointInv, OneObject
<1>2. obj = <<>> /\ DOMAIN obj = {}
  BY <1>1
<1> QED BY <1>2 DEF TypeInv, HandlersHoldObjects

(* The first object of the store: new and empty, or what RestorePartial     *)
(* read from the checkpoint; a handler may have moved on to write to it.    *)
LEMMA FirstObject ==
  ASSUME TypeInv, CheckpointInv, NEW chunks \in SUBSET Chunk,
         obj' = Append(obj, chunks), entry' = Len(obj) + 1,
         ~forked' => ~forked /\ entry = 0,
         chunks = {} \/ disk = Partial(chunks),
         UNCHANGED <<disk, overlapped>>,
         \A d \in Link : reader'[d] = reader[d] \/ reader'[d].at = "write"
  PROVE  CheckpointInv'
<1>1. \A d \in Link : reader'[d].at \in {"snapshot", "truncate", "flush"}
         => reader'[d] = reader[d]
  OBVIOUS
<1>2. OneCheckpoint'
  BY <1>1 DEF CheckpointInv, OneCheckpoint, Checkpointing
<1>3. FlushesToEmpty'
  BY <1>1 DEF CheckpointInv, FlushesToEmpty
<1>4. CASE forked'
  BY <1>2, <1>3, <1>4 DEF CheckpointInv, OneObject, SnapIsCurrent
<1>5. CASE ~forked'
  <2>1. obj = <<>> /\ \A d \in Link : reader[d].at \in {"idle", "restore"}
    BY <1>5, NobodyYet
  <2>2. obj' = <<chunks>> /\ entry' = 1
    BY <2>1
  <2>3. \A d \in Link : ~Checkpointing(d)'
    BY <2>1, <1>1 DEF Checkpointing
  <2>4. OneObject' /\ SnapIsCurrent'
    BY <2>2, <2>3 DEF OneObject, SnapIsCurrent
  <2> QED BY <1>2, <1>3, <2>4 DEF CheckpointInv
<1> QED BY <1>4, <1>5

\* The reader goroutines keep the invariant.
LEMMA ReaderKeepsCheckpoint ==
  ASSUME TypeInv, CheckpointInv, NEW c \in Link, ReaderStep(c)
  PROVE  CheckpointInv'
<1>0. reader \in [Link -> {Idle} \cup Handler] /\ disk.chunks \in SUBSET Chunk
  BY DEF TypeInv, TypeOK
<1>a. disk.state = "whole" => disk = Partial(disk.chunks)
  BY DEF TypeInv, TypeOK, Partial
<1>1. CASE HandleOffer(c)
  <2>1. CASE entry # 0
    BY <1>1, <2>1, CheckpointStutters DEF HandleOffer
  <2>2. CASE entry = 0 /\ disk.state = "whole"
    BY <1>0, <1>a, <1>1, <2>2, FirstObject DEF HandleOffer, Restore
  <2>3. CASE entry = 0 /\ disk.state # "whole"
    <3>1. {} \in SUBSET Chunk
      OBVIOUS
    <3>2. obj' = Append(obj, {}) /\ entry' = Len(obj) + 1 /\ forked' = forked
      BY <1>1, <2>3 DEF HandleOffer
    <3> QED BY <1>1, <2>3, <3>1, <3>2, FirstObject DEF HandleOffer
  <2> QED BY <2>1, <2>2, <2>3
<1>2. CASE HandleFileChunk(c)
  <2>1. /\ reader[c].at = "idle" /\ reader'[c].at \in {"restore", "write"}
        /\ \A d \in Link \ {c} : reader'[d] = reader[d]
    BY <1>0, <1>2 DEF HandleFileChunk, Idle
  <2> QED BY <1>2, <2>1, CheckpointMoves DEF HandleFileChunk
<1>3. CASE RestoreForChunk(c)
  <2>1. CASE disk.state = "whole"
    <3>1. Restore /\ UNCHANGED <<disk, overlapped>>
      BY <1>3, <2>1 DEF RestoreForChunk
    <3>2. reader' = [reader EXCEPT ![c] = [reader[c] EXCEPT
                       !.at = "write", !.obj = Len(obj) + 1]]
      BY <1>0, <1>3, <2>1 DEF RestoreForChunk
    <3>3. reader[c] \in Handler
      BY <1>0, <1>3 DEF RestoreForChunk, Idle
    <3>4. \A d \in Link : reader'[d] = reader[d] \/ reader'[d].at = "write"
      BY <1>0, <3>2, <3>3 DEF Handler
    <3> QED BY <1>0, <1>a, <2>1, <3>1, <3>4, FirstObject DEF Restore
  <2>2. CASE disk.state # "whole"
    BY <1>0, <1>3, <2>2, CheckpointMoves DEF RestoreForChunk, Idle
  <2> QED BY <2>1, <2>2
<1>4. CASE WriteChunk(c)
  <2>1. reader'[c].at = "snapshot"
    BY <1>0, <1>4 DEF WriteChunk
  <2>2. \A d \in Link : Checkpointing(d)' <=> Checkpointing(d)
    BY <1>0, <1>4 DEF WriteChunk, Checkpointing
  <2>3. \A d \in Link : (reader[d].at = "flush")' <=> reader[d].at = "flush"
    BY <1>0, <1>4 DEF WriteChunk
  <2>4. SnapIsCurrent'
    BY <2>1 DEF SnapIsCurrent, SnapshotDue
  <2>5. OneObject'
    BY <1>4 DEF WriteChunk, CheckpointInv, OneObject, TypeInv, TypeOK
  <2> QED
    BY <1>4, <2>2, <2>3, <2>4, <2>5
    DEF WriteChunk, CheckpointInv, OneCheckpoint, FlushesToEmpty
<1>5. CASE Snapshot(c)
  <2>1. reader[c] \in Handler /\ reader[c].obj \in DOMAIN obj
    BY <1>5, BusyType DEF Snapshot
  <2>2. /\ reader'[c].at = "truncate" /\ reader'[c].snap = obj[reader[c].obj]
        /\ \A d \in Link \ {c} : reader'[d] = reader[d]
    BY <1>0, <1>5, <2>1 DEF Snapshot, Handler
  <2>3. OneObject'
    BY <1>5 DEF Snapshot, CheckpointInv, OneObject
  <2>4. CASE overlapped'
    BY <2>3, <2>4 DEF CheckpointInv, OneCheckpoint, FlushesToEmpty, SnapIsCurrent
  <2>5. CASE ~overlapped'
    <3>1. \A d \in Link : ~Checkpointing(d)
      BY <1>5, <2>5 DEF Snapshot
    <3>2. \A d \in Link : Checkpointing(d)' => d = c
      BY <2>2, <3>1 DEF Checkpointing
    <3>3. OneCheckpoint'
      BY <3>2 DEF OneCheckpoint
    <3>4. FlushesToEmpty'
      BY <2>2, <3>1 DEF FlushesToEmpty, Checkpointing
    <3>5. ~forked => reader[c].obj = entry
      BY <2>1 DEF CheckpointInv, OneObject, TypeInv, TypeOK
    <3>6. Checkpointing(c)'
      BY <2>2 DEF Checkpointing
    <3>7. SnapIsCurrent'
      BY <1>5, <2>2, <3>2, <3>5, <3>6 DEF Snapshot, SnapIsCurrent
    <3> QED BY <2>3, <3>3, <3>4, <3>7 DEF CheckpointInv
  <2> QED BY <2>4, <2>5
<1>6. CASE Truncate(c)
  <2>1. reader[c] \in Handler
    BY <1>6, BusyType DEF Truncate
  <2>2. /\ reader'[c].at = "flush" /\ reader'[c].snap = reader[c].snap
        /\ \A d \in Link \ {c} : reader'[d] = reader[d]
    BY <1>0, <1>6, <2>1 DEF Truncate, Handler
  <2>3. \A d \in Link : /\ Checkpointing(d)' <=> Checkpointing(d)
                        /\ reader'[d].snap = reader[d].snap
    BY <1>6, <2>2 DEF Truncate, Checkpointing
  <2>4. SnapshotDue' <=> SnapshotDue
    BY <1>6, <2>2 DEF Truncate, SnapshotDue
  <2>5. Checkpointing(c)
    BY <1>6 DEF Truncate, Checkpointing
  <2> QED
    BY <1>6, <2>2, <2>3, <2>4, <2>5
    DEF Truncate, CheckpointInv, OneObject, OneCheckpoint, FlushesToEmpty, SnapIsCurrent
<1>7. CASE Flush(c)
  <2>1. reader[c] \in Handler
    BY <1>7, BusyType DEF Flush
  <2>2. /\ reader'[c].at = "check"
        /\ \A d \in Link \ {c} : reader'[d] = reader[d]
    BY <1>0, <1>7, <2>1 DEF Flush, Handler
  <2>3. Checkpointing(c)
    BY <1>7 DEF Flush, Checkpointing
  <2>4. SnapshotDue' <=> SnapshotDue
    BY <1>7, <2>2 DEF Flush, SnapshotDue
  <2>5. OneObject' /\ OneCheckpoint'
    BY <1>7, <2>2 DEF Flush, CheckpointInv, OneObject, OneCheckpoint, Checkpointing
  <2>6. ~overlapped => \A d \in Link : ~Checkpointing(d)'
    BY <2>2, <2>3 DEF CheckpointInv, OneCheckpoint, Checkpointing
  <2>7. FlushesToEmpty'
    BY <1>7, <2>6 DEF Flush, FlushesToEmpty, Checkpointing
  <2>8. ~overlapped => disk' = Partial(reader[c].snap)
    BY <1>7 DEF Flush, Overlay, CheckpointInv, FlushesToEmpty, Truncated
  <2>9. SnapIsCurrent'
    BY <1>7, <2>3, <2>4, <2>6, <2>8 DEF Flush, CheckpointInv, SnapIsCurrent
  <2> QED BY <2>5, <2>7, <2>9 DEF CheckpointInv
<1>8. CASE IsComplete(c)
  BY <1>0, <1>8, CheckpointMoves DEF IsComplete, Idle, Handler
<1>9. CASE SaveFile(c)
  <2>1. /\ reader' = [reader EXCEPT ![c].at = "stuck"]
        /\ UNCHANGED <<obj, entry, disk, forked, overlapped>>
    BY <1>9 DEF SaveFile
  <2>2. reader[c] \in Handler
    BY <1>9, BusyType DEF SaveFile
  <2>3. /\ reader[c].at = "save" /\ reader'[c].at = "stuck"
        /\ \A d \in Link \ {c} : reader'[d] = reader[d]
    BY <1>0, <1>9, <2>1, <2>2 DEF SaveFile, Handler
  <2> QED BY <2>1, <2>3, CheckpointMoves
<1> QED
  BY <1>1, <1>2, <1>3, <1>4, <1>5, <1>6, <1>7, <1>8, <1>9 DEF ReaderStep

\* Every other step keeps it: only RestorePartial and a restart can touch it.
LEMMA CheckpointStep ==
  TypeInv /\ CheckpointInv /\ [Next]_vars => CheckpointInv'
<1> SUFFICES ASSUME TypeInv, CheckpointInv, [Next]_vars PROVE CheckpointInv'
  OBVIOUS
<1>1. CASE UNCHANGED vars
  BY <1>1, CheckpointStutters DEF vars
<1>2. ASSUME NEW c \in Link, Connect(c) \/ SendFile(c) \/ SenderStep(c) \/ Cut(c)
      PROVE  CheckpointInv'
  BY <1>2, CheckpointStutters
  DEF Connect, SendFile, SenderStep, HandleAccept, HandleReject,
      HandleChunkRequest, Cut, receiver
<1>3. ASSUME NEW j \in jobs, JobStep(j)
      PROVE  CheckpointInv'
  BY <1>3, CheckpointStutters DEF JobStep, ReadChunk, SendChunk, receiver
<1>4. CASE AcceptFile \/ RejectFile \/ RequestResume \/ AskForMissing \/ RestartSender
  BY <1>4, CheckpointStutters
  DEF AcceptFile, RejectFile, RequestResume, AskForMissing, RestartSender, receiver
<1>5. CASE RestoreForResume
  <2>1. CASE disk.state = "whole"
    BY <1>5, <2>1, FirstObject
    DEF RestoreForResume, Restore, Partial, TypeInv, TypeOK
  <2>2. CASE disk.state # "whole"
    BY <1>5, <2>2, CheckpointStutters DEF RestoreForResume
  <2> QED BY <2>1, <2>2
<1>6. CASE RestartReceiver
  <2>1. /\ obj' = <<>> /\ entry' = 0
        /\ \A c \in Link : reader'[c].at = "idle"
    BY <1>6 DEF RestartReceiver, Idle
  <2> QED
    BY <2>1 DEF CheckpointInv, OneObject, OneCheckpoint, FlushesToEmpty,
                SnapIsCurrent, Checkpointing
<1> QED
  BY <1>1, <1>2, <1>3, <1>4, <1>5, <1>6, ReaderKeepsCheckpoint DEF Next, ResumeStep

(* Resume asks again for no chunk that arrived: once the checkpoints are    *)
(* written, the partial file that RestorePartial would read holds exactly   *)
(* the chunks of the transfer, however the readers of several connections,  *)
(* the command loop, cuts and restarts interleaved, unless the last two     *)
(* checkpoints overlapped or the transfer forked.                           *)
THEOREM CheckpointSurvives == Spec => []CheckpointIsCurrent
<1>1. Init => TypeInv /\ CheckpointInv
  <2>1. Init => CheckpointInv
    BY DEF Init, CheckpointInv, OneObject, OneCheckpoint, FlushesToEmpty,
           SnapIsCurrent, Checkpointing, Idle
  <2> QED BY <2>1, TypeInit
<1>2. CheckpointInv => CheckpointIsCurrent
  BY DEF CheckpointInv, SnapIsCurrent, SnapshotDue, Checkpointing, CheckpointIsCurrent
<1>3. TypeInv /\ CheckpointInv /\ [Next]_vars => (TypeInv /\ CheckpointInv)'
  BY TypeStep, CheckpointStep
<1> QED BY <1>1, <1>2, <1>3, PTL DEF Spec
=============================================================================
