---------------------------- MODULE FileTransfer ----------------------------
(***************************************************************************)
(* One file on its way from a sender to a receiver: the offer, the accept, *)
(* the chunks, the checkpoint the receiver writes after each of them, and  *)
(* the resume after a broken connection or a restart (internal/            *)
(* filetransfer/filetransfer.go and the file handlers of internal/peer/    *)
(* node.go).                                                               *)
(*                                                                         *)
(* At the sender each accept and each chunk request starts a goroutine of  *)
(* its own; at the receiver every connection has its reader, and the       *)
(* command loop may resume at any time.  The handlers are split where they *)
(* release a lock or touch a file, so that all of these interleave.        *)
(*                                                                         *)
(* A Link is one connection between the two, used once.  What the transfer *)
(* object of the receiver holds is the set of chunk indexes; the bytes are *)
(* those of the sender's file, which nobody changes.                       *)
(***************************************************************************)
EXTENDS Integers, Sequences, FiniteSets

CONSTANTS
  Link,         \* the connections that may be made between the two nodes
  ChunkTotal,   \* chunks of the file
  Bystander,    \* TRUE: the receiver has a session with a third node too
  Budgets       \* the bounds a behaviour may start with

(* A budget bounds the /accept, /resume and /reject commands, the           *)
(* connections that break and the restarts of either node.                  *)
Limited == {"accept", "resume", "reject", "cut", "restart"}
Budget == [Limited -> Nat]

ASSUME FileAssumption ==
  /\ ChunkTotal \in Nat /\ Bystander \in BOOLEAN
  /\ Budgets \subseteq Budget

Chunk == 0..(ChunkTotal - 1)

VARIABLES
  link,      \* link[c]: "new", "up" or "dead"
  toR, toS,  \* messages on their way to the receiver, to the sender
  offered,   \* the user has called SendFile
  known,     \* the sender's Manager.transfers has the transfer
  cursor,    \* its chunksSent
  canceled,  \* its Status is "canceled" and its file closed
  jobs,      \* goroutines of the sender: startFileSend and resendChunks
  spawned,   \* how many of them were started
  obj,       \* the receiver's Transfer objects: the chunks of each
  entry,     \* index in obj of Manager.transfers[id]; 0: no entry
  lock,      \* objects whose mu is write-locked for good
  disk,      \* <id>.chunks, with its <id>.meta
  reader,    \* reader[c]: where the MsgFileChunk handler of c is
  cli,       \* where the receiver's command loop is in RequestResume
  prompted,  \* the receiver's user has been shown the file's ID
  saved,     \* the file is in the download directory
  left,      \* what is left of the budget
  forked,    \* history: two objects were alive under the one ID
  overlapped \* history: the last Checkpoint began while another ran

sender == <<offered, known, cursor, canceled, jobs, spawned>>
receiver == <<obj, entry, lock, disk, reader, cli, prompted, saved,
              forked, overlapped>>
vars == <<link, toR, toS, offered, known, cursor, canceled, jobs, spawned,
          obj, entry, lock, disk, reader, cli, prompted, saved, left, forked,
          overlapped>>

Offer == [type |-> "file_offer"]
Accept == [type |-> "file_accept"]
Reject == [type |-> "file_reject"]
FileChunk(i) == [type |-> "file_chunk", index |-> i]
ChunkRequest(missing) == [type |-> "chunk_request", missing |-> missing]

Idle == [at |-> "idle"]

\* The partial file: missing, truncated and not yet written, mixed, readable.
NoPartial == [state |-> "none", chunks |-> {}]
Truncated == [state |-> "empty", chunks |-> {}]
Garbled == [state |-> "garbled", chunks |-> {}]
Partial(s) == [state |-> "whole", chunks |-> s]

\* sendRaw on a connection: what is written to a broken one vanishes.
Written(c, wire, m) ==
  IF link[c] = "up" THEN [wire EXCEPT ![c] = Append(@, m)] ELSE wire

Spend(what) == left[what] > 0 /\ left' = [left EXCEPT ![what] = @ - 1]

Least(s) == CHOOSE i \in s : \A j \in s : i <= j
----------------------------------------------------------------------------
Init ==
  /\ link = [c \in Link |-> "new"]
  /\ toR = [c \in Link |-> <<>>] /\ toS = [c \in Link |-> <<>>]
  /\ offered = FALSE /\ known = FALSE /\ cursor = 0 /\ canceled = FALSE
  /\ jobs = {} /\ spawned = 0
  /\ obj = <<>> /\ entry = 0 /\ lock = {} /\ disk = NoPartial
  /\ reader = [c \in Link |-> Idle] /\ cli = Idle
  /\ prompted = FALSE /\ saved = FALSE
  /\ left \in Budgets
  /\ forked = FALSE /\ overlapped = FALSE

\* setupConn on both sides, up to a session key.
Connect(c) ==
  /\ link[c] = "new"
  /\ link' = [link EXCEPT ![c] = "up"]
  /\ UNCHANGED <<toR, toS, sender, receiver, left>>

\* SendFile, SendFileMulticast, SendFileGroup: a transfer and its offer.
SendFile(c) ==
  /\ ~offered
  /\ link[c] = "up"
  /\ offered' = TRUE /\ known' = TRUE
  /\ toR' = [toR EXCEPT ![c] = Append(@, Offer)]
  /\ UNCHANGED <<link, toS, cursor, canceled, jobs, spawned, receiver, left>>

\* The next message of type t on wire[c], taken off it.
Next1(wire, c, t) == wire[c] # <<>> /\ Head(wire[c]).type = t
Rest(wire, c) == [wire EXCEPT ![c] = Tail(@)]

Spawn(job) ==
  /\ jobs' = jobs \cup {[job EXCEPT !.id = spawned]}
  /\ spawned' = spawned + 1

\* MsgFileAccept: go startFileSend, which returns if it has no transfer.
HandleAccept(c) ==
  /\ Next1(toS, c, "file_accept")
  /\ toS' = Rest(toS, c)
  /\ IF known THEN Spawn([id |-> 0, does |-> "send", link |-> c, todo |-> {}])
              ELSE UNCHANGED <<jobs, spawned>>
  /\ UNCHANGED <<link, toR, offered, known, cursor, canceled, receiver, left>>

\* MsgFileReject: Cancel.
HandleReject(c) ==
  /\ Next1(toS, c, "file_reject")
  /\ toS' = Rest(toS, c)
  /\ canceled' = (canceled \/ known)
  /\ UNCHANGED <<link, toR, offered, known, cursor, jobs, spawned, receiver,
                 left>>

\* MsgChunkRequest: go resendChunks.
HandleChunkRequest(c) ==
  /\ Next1(toS, c, "chunk_request")
  /\ toS' = Rest(toS, c)
  /\ IF known /\ Head(toS[c]).missing # {}
       THEN Spawn([id |-> 0, does |-> "resend", link |-> c,
                   todo |-> Head(toS[c]).missing])
       ELSE UNCHANGED <<jobs, spawned>>
  /\ UNCHANGED <<link, toR, offered, known, cursor, canceled, receiver, left>>

\* Mutant: one chunk more than the file has.
ReadPastEnd(j) ==
  /\ j.does = "send" /\ j.todo = {}
  /\ IF cursor <= ChunkTotal /\ ~canceled
       THEN /\ jobs' = (jobs \ {j}) \cup {[j EXCEPT !.todo = {cursor}]}
            /\ cursor' = cursor + 1
       ELSE /\ jobs' = jobs \ {j}
            /\ UNCHANGED cursor
  /\ UNCHANGED <<link, toR, toS, offered, known, canceled, spawned, receiver,
                 left>>

\* Mutant: the last chunk is left out.
StopShort(j) ==
  /\ j.does = "send" /\ j.todo = {}
  /\ IF cursor < ChunkTotal - 1 /\ ~canceled
       THEN /\ jobs' = (jobs \ {j}) \cup {[j EXCEPT !.todo = {cursor}]}
            /\ cursor' = cursor + 1
       ELSE /\ jobs' = jobs \ {j}
            /\ UNCHANGED cursor
  /\ UNCHANGED <<link, toR, toS, offered, known, canceled, spawned, receiver,
                 left>>

\* ReadChunk under t.mu: the next chunk, unless the file is sent or closed.
ReadChunk(j) ==
  /\ j.does = "send" /\ j.todo = {}
  /\ IF cursor < ChunkTotal /\ ~canceled
       THEN /\ jobs' = (jobs \ {j}) \cup {[j EXCEPT !.todo = {cursor}]}
            /\ cursor' = cursor + 1
       ELSE /\ jobs' = jobs \ {j}
            /\ UNCHANGED cursor
  /\ UNCHANGED <<link, toR, toS, offered, known, canceled, spawned, receiver,
                 left>>

\* Mutant: resendChunks returns after its first chunk.
SendOneChunk(j) ==
  /\ j.todo # {}
  /\ toR' = Written(j.link, toR, FileChunk(Least(j.todo)))
  /\ jobs' = (jobs \ {j})
             \cup (IF j.does = "resend" THEN {} ELSE {[j EXCEPT !.todo = {}]})
  /\ UNCHANGED <<link, toS, offered, known, cursor, canceled, spawned, receiver,
                 left>>

\* startFileSend and resendChunks: sendRaw of the chunk read.
SendChunk(j) ==
  /\ j.todo # {}
  /\ LET i == Least(j.todo)
         k == [j EXCEPT !.todo = @ \ {i}]
     IN  /\ toR' = Written(j.link, toR, FileChunk(i))
         /\ jobs' = (jobs \ {j})
                    \cup (IF k.does = "resend" /\ k.todo = {} THEN {} ELSE {k})
  /\ UNCHANGED <<link, toS, offered, known, cursor, canceled, spawned,
                 receiver, left>>
----------------------------------------------------------------------------
\* RestorePartial: a readable checkpoint becomes a new object of the Manager.
Restore ==
  /\ obj' = Append(obj, disk.chunks)
  /\ entry' = Len(obj) + 1
  /\ forked' = (forked \/ entry # 0)

\* MsgFileOffer: known already, restored, or a new transfer.
HandleOffer(c) ==
  /\ reader[c] = Idle
  /\ Next1(toR, c, "file_offer")
  /\ toR' = Rest(toR, c)
  /\ CASE entry # 0 -> UNCHANGED <<obj, entry, prompted, forked>>
       [] entry = 0 /\ disk.state = "whole" -> Restore /\ UNCHANGED prompted
       [] OTHER -> /\ obj' = Append(obj, {})
                   /\ entry' = Len(obj) + 1
                   /\ prompted' = TRUE
                   /\ UNCHANGED forked
  /\ UNCHANGED <<link, toS, sender, lock, disk, reader, cli, saved, left,
                 overlapped>>

\* MsgFileChunk: GetTransfer.
HandleFileChunk(c) ==
  /\ reader[c] = Idle
  /\ Next1(toR, c, "file_chunk")
  /\ toR' = Rest(toR, c)
  /\ reader' = [reader EXCEPT ![c] =
       [at |-> IF entry = 0 THEN "restore" ELSE "write",
        index |-> Head(toR[c]).index, obj |-> entry, snap |-> {}]]
  /\ UNCHANGED <<link, toS, sender, obj, entry, lock, disk, cli, prompted,
                 saved, left, forked, overlapped>>

\* MsgFileChunk: RestorePartial, or the chunk is dropped.
RestoreForChunk(c) ==
  /\ reader[c].at = "restore"
  /\ IF disk.state = "whole"
       THEN /\ Restore
            /\ reader' = [reader EXCEPT ![c].at = "write",
                                        ![c].obj = Len(obj) + 1]
       ELSE /\ reader' = [reader EXCEPT ![c] = Idle]
            /\ UNCHANGED <<obj, entry, forked>>
  /\ UNCHANGED <<link, toR, toS, sender, lock, disk, cli, prompted, saved,
                 left, overlapped>>

\* WriteChunk under t.mu.
WriteChunk(c) ==
  /\ reader[c].at = "write"
  /\ reader[c].obj \notin lock
  /\ obj' = [obj EXCEPT ![reader[c].obj] = @ \cup {reader[c].index}]
  /\ reader' = [reader EXCEPT ![c].at = "snapshot"]
  /\ UNCHANGED <<link, toR, toS, sender, entry, lock, disk, cli, prompted,
                 saved, left, forked, overlapped>>

Checkpointing(c) == reader[c].at \in {"truncate", "flush"}

\* Mutant: the checkpoint is taken before the chunk is stored.
SnapshotBefore(c) ==
  /\ reader[c].at = "snapshot"
  /\ reader[c].obj \notin lock
  /\ reader' = [reader EXCEPT ![c].at = "truncate",
                  ![c].snap = obj[reader[c].obj] \ {reader[c].index}]
  /\ overlapped' = (\E d \in Link : Checkpointing(d))
  /\ UNCHANGED <<link, toR, toS, sender, obj, entry, lock, disk, cli, prompted,
                 saved, left, forked>>

\* Checkpoint: the copy of the chunks, under t.mu.RLock.
Snapshot(c) ==
  /\ reader[c].at = "snapshot"
  /\ reader[c].obj \notin lock
  /\ reader' = [reader EXCEPT ![c].at = "truncate",
                              ![c].snap = obj[reader[c].obj]]
  /\ overlapped' = (\E d \in Link : Checkpointing(d))
  /\ UNCHANGED <<link, toR, toS, sender, obj, entry, lock, disk, cli,
                 prompted, saved, left, forked>>

\* Checkpoint: os.WriteFile opens its file with O_TRUNC ...
Truncate(c) ==
  /\ reader[c].at = "truncate"
  /\ disk' = Truncated
  /\ reader' = [reader EXCEPT ![c].at = "flush"]
  /\ UNCHANGED <<link, toR, toS, sender, obj, entry, lock, cli, prompted,
                 saved, left, forked, overlapped>>

(* ... and writes from offset 0: over what another goroutine has written    *)
(* since the truncation, if any, whose tail stays when it is longer.        *)
Overlay(snap) ==
  IF disk.state = "empty" \/ (disk.state = "whole" /\ disk.chunks \subseteq snap)
    THEN {Partial(snap)}
    ELSE IF disk.state = "whole" /\ snap \subseteq disk.chunks
      THEN {Garbled}
      ELSE {Partial(snap), Garbled}

\* Checkpoint: the write; then IsComplete decides on SaveFile.
Flush(c) ==
  /\ reader[c].at = "flush"
  /\ disk' \in Overlay(reader[c].snap)
  /\ reader' = [reader EXCEPT ![c].at = "check"]
  /\ UNCHANGED <<link, toR, toS, sender, obj, entry, lock, cli, prompted,
                 saved, left, forked, overlapped>>

\* IsComplete, under t.mu.RLock.
IsComplete(c) ==
  /\ reader[c].at = "check"
  /\ reader[c].obj \notin lock
  /\ reader' = [reader EXCEPT ![c] =
       IF Cardinality(obj[@.obj]) >= ChunkTotal
         THEN [@ EXCEPT !.at = "save"] ELSE Idle]
  /\ UNCHANGED <<link, toR, toS, sender, obj, entry, lock, disk, cli,
                 prompted, saved, left, forked, overlapped>>

(* SaveFile takes t.mu and calls IsComplete, whose RLock waits for every    *)
(* writer, the caller included; only if it were granted would the file be   *)
(* written, the checkpoint cleared and the lock released.                   *)
SaveFile(c) ==
  /\ reader[c].at = "save"
  /\ reader[c].obj \notin lock
  /\ LET held == lock \cup {reader[c].obj}
     IN  IF reader[c].obj \in held
           THEN /\ lock' = held
                /\ reader' = [reader EXCEPT ![c].at = "stuck"]
                /\ UNCHANGED <<disk, saved>>
           ELSE /\ saved' = TRUE
                /\ disk' = NoPartial
                /\ reader' = [reader EXCEPT ![c] = Idle]
                /\ UNCHANGED lock
  /\ UNCHANGED <<link, toR, toS, sender, obj, entry, cli, prompted, left,
                 forked, overlapped>>
----------------------------------------------------------------------------
\* The connection of a command: any with a session, the sender's or not.
Target ==
  {c \in Link : link[c] = "up"} \cup (IF Bystander THEN {"bystander"} ELSE {})

\* The bystander has no such transfer and ignores the message.
Deliver(target, m) ==
  toS' = IF target \in Link THEN [toS EXCEPT ![target] = Append(@, m)] ELSE toS

\* AcceptFile, from the /accept command.
AcceptFile ==
  /\ cli = Idle /\ prompted
  /\ Spend("accept")
  /\ \E target \in Target : Deliver(target, Accept)
  /\ UNCHANGED <<link, toR, sender, receiver>>

\* RejectFile, from the /reject command.
RejectFile ==
  /\ cli = Idle /\ prompted
  /\ Spend("reject")
  /\ \E target \in Target : Deliver(target, Reject)
  /\ UNCHANGED <<link, toR, sender, receiver>>

\* RequestResume, from the /resume command: GetTransfer.
RequestResume ==
  /\ cli = Idle /\ prompted
  /\ Spend("resume")
  /\ cli' = [at |-> IF entry = 0 THEN "restore" ELSE "ask", obj |-> entry]
  /\ UNCHANGED <<link, toR, toS, sender, obj, entry, lock, disk, reader,
                 prompted, saved, forked, overlapped>>

\* RequestResume: RestorePartial, or "unknown transfer".
RestoreForResume ==
  /\ cli.at = "restore"
  /\ IF disk.state = "whole"
       THEN /\ Restore
            /\ cli' = [at |-> "ask", obj |-> Len(obj) + 1]
       ELSE /\ cli' = Idle
            /\ UNCHANGED <<obj, entry, forked>>
  /\ UNCHANGED <<link, toR, toS, sender, lock, disk, reader, prompted, saved,
                 left, overlapped>>

\* RequestResume: MissingChunks, and the request unless there are none.
AskForMissing ==
  /\ cli.at = "ask"
  /\ cli.obj \notin lock
  /\ LET missing == Chunk \ obj[cli.obj]
     IN  IF missing = {} \/ Target = {}
           THEN UNCHANGED toS
           ELSE \E target \in Target : Deliver(target, ChunkRequest(missing))
  /\ cli' = Idle
  /\ UNCHANGED <<link, toR, sender, obj, entry, lock, disk, reader, prompted,
                 saved, left, forked, overlapped>>
----------------------------------------------------------------------------
\* A connection breaks: what it still carries is lost.
Cut(c) ==
  /\ link[c] = "up"
  /\ Spend("cut")
  /\ link' = [link EXCEPT ![c] = "dead"]
  /\ toR' = [toR EXCEPT ![c] = <<>>] /\ toS' = [toS EXCEPT ![c] = <<>>]
  /\ UNCHANGED <<sender, receiver>>

Disconnected ==
  /\ link' = [c \in Link |-> IF link[c] = "up" THEN "dead" ELSE link[c]]
  /\ toR' = [c \in Link |-> <<>>] /\ toS' = [c \in Link |-> <<>>]

\* NewManager at the sender: transfers are kept in memory only.
RestartSender ==
  /\ Spend("restart")
  /\ Disconnected
  /\ known' = FALSE /\ jobs' = {}
  /\ UNCHANGED <<offered, cursor, canceled, spawned, receiver>>

\* NewManager at the receiver: the partial file is what is left.
RestartReceiver ==
  /\ Spend("restart")
  /\ Disconnected
  /\ obj' = <<>> /\ entry' = 0 /\ lock' = {}
  /\ reader' = [c \in Link |-> Idle] /\ cli' = Idle
  /\ forked' = FALSE /\ overlapped' = FALSE
  /\ UNCHANGED <<disk, prompted, saved, sender>>

SenderStep(c) == HandleAccept(c) \/ HandleReject(c) \/ HandleChunkRequest(c)

JobStep(j) == ReadChunk(j) \/ SendChunk(j)

ReaderStep(c) ==
  \/ HandleOffer(c) \/ HandleFileChunk(c) \/ RestoreForChunk(c) \/ WriteChunk(c)
  \/ Snapshot(c) \/ Truncate(c) \/ Flush(c) \/ IsComplete(c) \/ SaveFile(c)

ResumeStep == RestoreForResume \/ AskForMissing

Next ==
  \/ \E c \in Link :
       Connect(c) \/ SendFile(c) \/ SenderStep(c) \/ ReaderStep(c) \/ Cut(c)
  \/ \E j \in jobs : JobStep(j)
  \/ AcceptFile \/ RejectFile \/ RequestResume \/ ResumeStep
  \/ RestartSender \/ RestartReceiver

Spec == Init /\ [][Next]_vars

(* The readers, the goroutines they start and the command loop run on; the  *)
(* user, the network and a restart are not fair.                            *)
Fairness ==
  /\ \A c \in Link : WF_vars(SenderStep(c)) /\ WF_vars(ReaderStep(c))
  /\ \A n \in UNION {0..(b.accept + b.resume) : b \in Budgets} :
       WF_vars(\E j \in jobs : j.id = n /\ JobStep(j))
  /\ WF_vars(ResumeStep)

FairSpec == Spec /\ Fairness
----------------------------------------------------------------------------
Job == [id : Nat, does : {"send", "resend"}, link : Link, todo : SUBSET Chunk]
ToReceiver == {Offer} \cup [type : {"file_chunk"}, index : Chunk]
ToSender ==
  {Accept, Reject} \cup [type : {"chunk_request"}, missing : SUBSET Chunk]
Handler ==
  [at : {"restore", "write", "snapshot", "truncate", "flush", "check", "save",
         "stuck"},
   index : Chunk, obj : Nat, snap : SUBSET Chunk]
Command == [at : {"restore", "ask"}, obj : Nat]

TypeOK ==
  /\ link \in [Link -> {"new", "up", "dead"}]
  /\ toR \in [Link -> Seq(ToReceiver)] /\ toS \in [Link -> Seq(ToSender)]
  /\ offered \in BOOLEAN /\ known \in BOOLEAN /\ canceled \in BOOLEAN
  /\ cursor \in 0..ChunkTotal /\ spawned \in Nat
  /\ jobs \in SUBSET Job
  /\ obj \in Seq(SUBSET Chunk)
  /\ entry \in 0..Len(obj) /\ lock \subseteq DOMAIN obj
  /\ disk \in [state : {"none", "empty", "garbled", "whole"}, chunks : SUBSET Chunk]
  /\ reader \in [Link -> {Idle} \cup Handler]
  /\ cli \in {Idle} \cup Command
  /\ prompted \in BOOLEAN /\ saved \in BOOLEAN
  /\ forked \in BOOLEAN /\ overlapped \in BOOLEAN
  /\ left \in Budget

\* The receiver's transfer has every chunk.
Whole == entry # 0 /\ obj[entry] = Chunk

(* What the receiver has of a file survives a restart: when no Checkpoint   *)
(* is being written, the partial file can be read and holds every chunk of  *)
(* the transfer, so that RequestResume asks again for none of them; unless  *)
(* the last two checkpoints overlapped or the transfer forked.              *)
CheckpointIsCurrent ==
  (/\ entry # 0 /\ obj[entry] # {}
   /\ ~forked /\ ~overlapped
   /\ \A c \in Link : reader[c].at \notin {"snapshot", "truncate", "flush"})
  => disk = Partial(obj[entry])

Asked(t) == \E c \in Link : \E i \in DOMAIN toS[c] : toS[c][i].type = t
Broken == canceled \/ forked \/ \E c \in Link : link[c] = "dead"

(* An accept that reaches the sender brings the whole file, if nothing      *)
(* breaks, is rejected or forks on the way: when two accepts have started   *)
(* two startFileSend goroutines, on one connection or on two, they share    *)
(* the cursor of ReadChunk, and only together do they send every chunk to   *)
(* the MsgFileChunk handlers.                                               *)
AcceptBringsAll == Asked("file_accept") ~> (Whole \/ Broken)

(* A chunk request that reaches a sender that still has the transfer brings *)
(* all that is missing, whatever was lost before: RequestResume and         *)
(* resendChunks, unless the connection of the request breaks.               *)
ResumeBringsAll ==
  \A c \in Link :
    (known /\ \E i \in DOMAIN toS[c] : toS[c][i].type = "chunk_request")
      ~> (Whole \/ forked \/ link[c] = "dead")
=============================================================================
