# korik: TLA+ models, model checks and proofs

korik is a peer-to-peer encrypted chat program written in Go. Each user runs one
process, a *node*, that talks to other nodes over TCP, or over UDP after hole punching.
This directory holds TLA+ models of its core, the TLC configurations that check them on
small instances, and TLAPS proofs for every value of the constants. All paths below are
relative to the repository root.

## 1. The system

### Components, their state and operations

| Component | Source | State | Operations |
|---|---|---|---|
| peer session | `internal/peer/node.go`, `internet.go`, `udp_adapter.go`, `internal/crypto` | per connection: session key, ready or not; per address: one pending ephemeral (`rekeySlots`), time of the last rekey | `setupConn`, `ConnectPeerPublicAddr`, handlers of `MsgHello`, `MsgRekey`, `MsgChat`, `maybeRekey`, `SendToWithID` |
| chat delivery | `main.go` (default branch), `node.go` | `n.conns`, envelope IDs | command loop, `broadcastWithReply`, flush in the hello handler, `syncMissedTo`, `handleSyncRequest`, `handleSyncData` |
| message queue | `internal/queue` | list of unsent messages, saved to one file | `Enqueue`, `Pending`, `Remove`, `New` |
| dedup set | `internal/dedup` | envelope IDs seen | `Add` |
| chat history | `internal/history`, `main.go` | a window of messages with their expiry, saved to one file; the TTL of new ones | `NewWithTail`, `Add`, `SetTTL`, `PruneExpired`, `Clear`, `GetSince`; `/export-data`, `/import-data` |
| contacts | `internal/contacts` | entries with LastSeen and Blocked | `Add`, `UpdateLastSeen`, `SetBlocked` |
| rate limits | `internal/ratelimit` | token buckets | `Limiter.Allow`, `PeerGuard`, `ConnectionGuard` |
| file transfer | `internal/filetransfer`, `node.go` | send and receive transfers, a partial file per incoming one | offer, accept, reject, chunks, checkpoint, restore, resume, save |
| connection table | `node.go`, `internal/circuit` | `n.conns`, last heartbeat, breaker per address | `ConnectTo`, `ConnectWithRetry`, `setupConn`, `removePeer`, `StartHeartbeat` |
| group chat | `internal/group`, `node.go`, `main.go` | per node: a copy of each room, with its key and member list, saved to one file | `CreateRoom`, `InviteToRoom`, `LeaveRoom`, `RekeyRoom`, `SendGroup`, handlers of `MsgGroupInvite`, `MsgGroupLeave`, `MsgGroupChat` |
| discovery | `internal/peer/discovery.go` | none kept | UDP announcements that lead to a dial |
| NAT traversal | `internal/peer/internet.go`, `internal/nat` | `udpPeers`, candidates | `ConnectWithCandidates`, `readLoop`, hole punching, STUN queries |
| command line | `main.go`, `internal/shell`, `ui`, `setup` | current line | commands |
| identity, backup, update, configuration, diagnostics | the remaining packages | files | I/O, formatting |

### How they interact

A node has one reader goroutine per connection (`setupConn`, then `handleMessage`), one
heartbeat goroutine, one command loop, and short-lived goroutines that handlers start
(delta sync, `startFileSend`, `resendChunks`). They share `n.conns` under `n.mu`,
`rekeySlots` and `lastRekey` under mutexes of their own, and the stores, each of which
locks itself and saves inside the call that changes it. Nodes share nothing: they exchange
JSON messages. Nothing is acknowledged, and `sendRaw` ignores write errors.

### What is hard about it

- goroutines of one node interleave between two locks: the rekey slot is looked up in one
  critical section and answered in another; the command loop decides to queue on a
  snapshot of the peers; a checkpoint is copied under a lock and written without it;
  `RekeyRoom` ranges over a member list that a reader compacts in place;
- every node has its own copy of a room, and nothing orders the invitations, departures
  and rekeys that different nodes send;
- two connections to the same peer are normal, as each node dials the other: two hello
  handlers flush one queue, two readers write one transfer;
- writes to a dead connection succeed; a node may stop between any two steps, and only
  what is on disk comes back; files are rewritten in place;
- UDP loses and reorders, and the hole-punch burst duplicates hello;
- discovery, commands and retries dial one address at once, and the table is looked up,
  filled and emptied in separate critical sections, by address;
- three cuts (tail, window, expiry) and two writers (save, restore) work on the history;
- limits: 1000 queued messages, 40 tokens, 50 lines per delta sync, one rekey slot, five
  failures that open the breaker, 500 messages of history in memory.

### What makes each component correct

- session: both ends hold the same key once no rekey is under way, no exchange echoes, a
  key never returns to an earlier one, an initiated rekey completes;
- delivery: no envelope is displayed twice, a line that was queued or sent does not
  disappear, queued lines keep their order, what is flushed is displayed;
- file transfer: what was received survives a restart, an accept brings the whole file, a
  resume brings what is missing, a whole file is saved;
- group chat: members end up with one key and one list, who has left does not get a newer
  key, a line reaches the members who are online;
- connections: no dead connection stays listed, an open one is listed, a peer that can be
  reached is connected again, a silent one is not shown as alive;
- history: what is shown is the end of the conversation without gaps, and is on disk; what
  expired leaves both and does not return.

## 2. The modules and the code

Session, Delivery and Connections have a constant `Scenarios`, a set of settings with their
bounds, one of which each behaviour picks in `Init` and keeps in `sc`; so that one run covers
TCP and UDP, one connection and two, every way to dial.

### Session

One connection between a dialer and an acceptor. `opened`, `ready` and `key` are a
`peerConn`'s registration and session key; `slot` and `due` are the entries of `rekeySlots`
and `lastRekey` under the connection's address; `wire` is what is on its way; `reader`,
`beat` and `cli` say where the reader, the heartbeat and the command loop of each node are.
A handler is split where it releases a lock: `HandleRekey` (up to `rekeySlots.mu.Unlock`),
`AnswerRekey` (generate and send), `MixRekey` (`pc.sessionKey = mixed`), `StampRekey`
(`lastRekey`). `InitiateRekey`, `SendRekey` and `StampBeat` are `maybeRekey`, during which
`rekeyMu` is held; `ReadKey` and `SendChat` are the two halves of `SendToWithID`. `Punch`
is the hole-punch burst, `Lose` a datagram lost or pushed onto a full channel, `Redial` a
reconnect: slots and times are kept by address, so the dialer finds its old ones again.
Keys are symbolic: the static key is the empty sequence, `MixKeys` appends a secret, the
secret of two ephemerals is the set of the two.

`upset` is a history variable that records, by name, the events after which the two keys
may part: a hello on a rekeyed session, a reordered message, a message that came before
the key, a slot that is overwritten, filled while the reader answers, or left over from
the last connection, and a lost rekey message. The safety properties are stated for
connections on which none of them happened; all seven do occur in the code.

### Delivery

One sender, who types lines, and one receiver. A `Link` is one connection, used once.
`TypeLine` reads a line and asks `Peers()`, `Enqueue` or `Broadcast` acts on that answer,
`Record` is `hist.Add`. `HandleHello` is the handler up to the copy of the queue,
`FlushSend` and `FlushRemove` are one iteration of the flush, `SyncStart` and `SyncPush`
are `syncMissedTo`, `HandleSyncRequest` answers the receiver's request. `ReceiverHello`
asks for what was missed; `ReceiverShow`, `ReceiverDuplicate`, `ReceiverRefuse` and
`ReceiverGarbled` are the outcomes of a chat or sync message: dedup gate first, then the
limiter, then decryption. `Cut`, `Notice` and `ReceiverEOF` are a break and its discovery;
`RestartSender` and `RestartReceiver` keep what is on disk. With `sc.torn`, a stop inside
`saveLocked` empties the queue file, which `New` takes for an empty queue.

Time is abstracted to the length of the sender's history. That a rekey makes an envelope
unreadable is a bounded choice here (`ReceiverGarbled`); Session says when it happens.

`spilled` records every copy of a line that is lost, with its cause: `link` (written to a
broken connection or on it when it broke), `full` (pushed out of the queue), `rate`
(refused by the limiter after the gate recorded its ID), `key` (unreadable), `torn`.

`Mailbox` says what all this promises to somebody who sees neither connections nor files:
lines are accepted, kept, displayed, or lost on record; a kept line does not vanish, and
only a kept line is displayed. `Box` in Delivery maps it: offered is what was queued or
sent, kept is what is in the queue or on a connection, shown and lost are `shownEver` and
the lines of `spilled`. `DeliversAsMailbox` says that every step of Delivery is a step of
Mailbox or leaves it alone. It says more than `NoOtherLoss`, which speaks of each state: here
a line cannot be absent in between and be put back by a restart or a second flush.

### FileTransfer

One file. `HandleAccept` and `HandleChunkRequest` start goroutines at the sender
(`jobs`), which share the cursor `ReadChunk` advances; `SendChunk` is their `sendRaw`. At
the receiver the `MsgFileChunk` handler is split into `HandleFileChunk` (`GetTransfer`),
`RestoreForChunk`, `WriteChunk`, `Snapshot`, `Truncate`, `Flush`, `IsComplete` and
`SaveFile`. `obj` holds the chunks of every `Transfer` object created since the start and
`entry` names the one in `Manager.transfers`, because two restores may create two. `disk`
is the partial file: two `os.WriteFile` calls that overlap may leave the shorter text in
front of the longer one's tail, which does not parse (`Garbled`). The user's commands need
`prompted`: nobody can type an ID he has not been shown.

`SaveFile` takes `t.mu` and calls `IsComplete`, which takes it again for reading. Go's
`sync.RWMutex` is not reentrant, so `SaveFile` never returns; what follows it in the
handler (`ClearPartial`, `MsgFileComplete`) is unreachable and not modelled beyond the
branch that would be taken. `forked` and `overlapped` are history variables.

### Group

One room at a set of nodes. `room[n]` is n's copy (`Store.rooms`), `wire[n][m]` what is on
its way on the one connection of a pair, `conn` the pairs with a ready session. A command
of the user and a handler are one step each, with two exceptions, both on the command
loop's side and both visible in `cli[n]`. `InviteToRoom` is split at `sendRaw`: the
invitation carries the list from before `AddMember`, and a reader may change the list in
between. `RekeyRoom` is `Store.Rekey` followed by one `RekeyMember` and one `AddMember`
for each slot of the list. Its `range` has copied the slice header but not the slots, and
`RemoveMember` writes the remaining members to the front of the same backing array
(`Overlay`), so a departure moves a member into a slot the loop has passed. An invitation
that arrives in the middle puts another `Room` in the store, and the loop goes on over the
old list (`shared`).

`LeaveRoom` and `SendGroup` are one step: they write to their connections one after the
other, and what happens in between (a peer that takes a departure and at once invites the
leaver again, before `LeaveRoom` has removed him from his own list) is left out. A break
is noticed at both ends at once; writes to a dead connection are Delivery's subject. A
save is whole.

`upset` records the events after which copies may differ for good: a rekey by a node that
does not know all members or does not hold the newest key, or that crosses another
command; a member who is offline during a rekey or a departure; the `AddMember` that adds
back who left during `sendRaw`; a copy replaced by an older key, with a member its owner
knew to be gone, after its owner had left, or under a running command; the shifted slot;
an invitation refused by the limiter; a message lost with its connection; a stop in the
middle of a command. Each of them was seen to be necessary: without it one of the first
two properties below fails. `gone`, `barred`, `healed` and `due` are history as well, and
no guard reads any of these variables.

### Connections

One node and one peer, which has a TCP address and a public UDP address; `table` and `utable`
are their places in `n.conns`. A `Dial` is a goroutine: a call of `ConnectTo` and, when the
dial works, the `setupConn` that follows. `at` says how far it is: `LookUp` (the critical
section at the top of `ConnectTo`), `Skip` (the breaker), `DialFails` or `DialSucceeds`,
`Register` (`n.conns[addr] = pc`, whatever was there), `Hello`, `Lose`, `RemovePeer` (the
one in the read loop) and `DeferredRemovePeer` (the one when `setupConn` returns), both of
which delete whatever is listed. `Announce` is the discovery listener, `TypeConnect` the
command `/connect`, `Attempt`, `RetryDone` and `RetryTimeout` are `ConnectWithRetry`,
`TryTCP`, `StageDone` and `StageTimeout` the stages of `ConnectWithCandidates`. The two
direct stages are one, with one candidate, as they differ only in the address. `Datagram` is
`readLoop` on a new address and `Punch` is `ConnectPeerPublicAddr`: whoever is first makes
the `udpConn` and starts its goroutine, and nobody does so again, since `udpPeers` is never
emptied (`UdpRefuse`). The breaker's `blockedAt` is "hot" within the cooldown and "cool"
after it; a beat is "stale" after 60 seconds.

Connections that the peer opens come from a port used once, hence have their own places in
the table; they are left out. `raced` records that a lookup was made while another dial of
the address, or the end of one, was under way, and `refused` that the peer's hello did not
match its JID.

### History

One node. `mem` is `h.messages`, `disk` the file as `load` would find it, `backup` what the
last bundle says. A list of messages is a set of numbered ones: `Add` appends, and all cuts
keep the end, so the order is that of the numbers. `Start` is `NewWithTail`; `PruneExpired`
is start-up's call and later the ticker's; every change is followed by `SaveOpen` and
`SaveWrite` while `h.mu` is held, as `os.WriteFile` truncates and then writes. `SaveFails`
is a save that fails before or after the truncation. `ImportData` and `ImportWrite` write
the file without the lock; where two writers overlap the text may be `Garbage`, which `load`
refuses, and so it does an empty file: `main` then exits, and `Start` has no next step.
`gone` records what a stop, a fault, a restore or `Clear` cost, `astray` that the file was
last touched by a restore or a failed save; the properties are stated with these
reservations. Messages received over two connections may be added in another order than they
were sent; the number is the order of `Add`.

### Composition

Delivery, FileTransfer and Group rest on sessions that Session describes, and use of them
only that a connection becomes ready, carries messages in order, and may break; Connections
says when it becomes ready again, and that two at once are possible. Delivery's `hist` is the
window of History before any cut. MCSession, MCDelivery, MCFileTransfer and MCConnections extend four of the modules with what a comment or document of the
repository claims and the code does not keep.

## 3. The runs

| Run | Module | Outcome | What it shows |
|---|---|---|---|
| Session | MCSession | pass | two rekeys from either side, over TCP with two reconnects, over UDP with a second hello, loss and reordering: `KeysAgreeUnlessUpset`, `OneAnswerEach`, `QuietChatIsRead`, `KeyOnlyGrows`, and `RekeyCompletes` under fairness |
| SessionDupHello | MCSession | violation | a duplicate hello after a rekey resets the key |
| Delivery | MCDelivery | pass | two connections at once, a break and a restart of either node; one at a time, bucket and sync at their limits, a torn save or an unreadable envelope: `AtMostOncePerEnvelope`, `NoOtherLoss`, `QueuedInOrder` |
| DeliveryLive | MCDelivery | pass | one connection, three lines for a queue of two, or two lines and every fault: the refinement `DeliversAsMailbox`, and `FlushedIsShown` under fairness |
| DeliveryTwice | MCDelivery | violation | a queued line is displayed from the flush, and again from the answer to the sync request |
| DeliveryStranded | MCDelivery | violation | a line is left in the queue while the peer is online |
| FileTransfer | MCFileTransfer | pass | two accepts, or an accept and a resume, with a reject, a break and a restart: `CheckpointIsCurrent`, and under fairness `AcceptBringsAll`, `ResumeBringsAll` |
| FileSave | MCFileTransfer | violation | the last chunk's handler blocks in `SaveFile` |
| Group | MCGroup | pass | three nodes, four commands, one fault: `MembersAgreeWhenQuiet`, `LeaverGetsNoNewKey`, `SettledLineIsShown` |
| Connections | MCConnections | pass | discovery, `/connect`, `/retry` and a bundle against an address that breaks, refuses and comes back: `EntryWillGo`, `OpenIsListed`, and under fairness `EventuallyConnected`, `BundleFindsAWay` |
| ConnectionsStale | MCConnections | violation | a peer that falls silent stays listed as ready |
| History | MCHistory | pass | four messages, a window of three, a tail of two, two stops, failed saves, restores or clearings: `NoHoles`, `RecentIsKept`, `QuietIsStored`, `NeverComesBack`, and `ExpiredLeaves` under fairness |

### Bounds, and why they are enough

- Session: `asks` and `answers` of a setting bound the rekeys of a connection to two each: all
  the ways two exchanges can cross need two, one from each side or two from one. One chat
  is enough to be encrypted before and read after a rekey. Two drops let an old slot meet
  a new connection twice. One extra hello stands for the five of the burst: each is
  handled alike.
- Delivery: two links are the two connections of a pair of nodes, or one and its
  successor. With both at once one line suffices, because the duplicates come from two
  flushes of one item; one at a time there are two lines, one token and one line per delta
  sync, and DeliveryLive has three lines with room for two in the queue, so that every limit
  is exceeded. One crash may come between any two steps.
- FileTransfer: two chunks, so that some are there and some are missing; two accepts, so
  that two goroutines share the cursor and two readers checkpoint at once, with a reject or
  with a break and a restart; and an accept and a resume, so that after a break or a restart
  a reader and the command loop both restore. `Budgets` holds these combinations, as liveness
  is checked over all of them; two accepts, a resume, a reject, a break and a restart in one
  behaviour were checked for the invariants in a longer run that is not kept, and the proofs
  cover them for every budget.
- Group: three nodes are the least for which a list has a member who is neither inviter
  nor invited, and for which a departure can shift a slot (list a, b, c: c rekeys, a
  leaves once the first slot is read, b is skipped). Four commands are two invitations
  and two more, so that a rekey can cross a departure, an invitation or another rekey, or
  be followed by a line; one fault may come between any two steps. Five commands without
  a fault were checked as well, in a longer run that is not kept.
- Connections: two dials overlap in every way that two can; three were checked as well, in a
  longer run that is not kept. A threshold of two and three faults let the breaker open,
  close and open again. Each setting of MCConnections is one way to dial, or two together.
- History: a window of three, a tail of two and four messages, so that each limit cuts
  before the other does; a TTL of one in three units of time, so that a message expires in
  memory, on disk while the program is down, and in a bundle.
- Links are interchangeable, and so are the nodes other than the creator of the room: `LinkSymmetry` and
  `NodeSymmetry` are used in safety runs, never for liveness.
- Deadlock is not checked: with the bounds used up and the user silent, nodes rest.

### Fairness

Weak fairness of each goroutine that can run: readers, the heartbeat once it has begun a
rekey, the command loop once it has read a line, the goroutines handlers start. The Go
scheduler is preemptive and every blocking operation on these paths is modelled as a
guard. In Session, Delivery, FileTransfer and Group the user, the clock, dialing, breaks,
losses and restarts are not fair. Connections is about what happens in the long run, so
there timers run out, a retry that was asked for goes on, the peer announces itself every
second (`broadcastPresence`), its hello arrives sooner or later, an address that can be
reached at all is reachable again after an outage, and the heartbeat ticks; whether a peer
falls silent or is heard again is open; that UDP hellos arrive is the assumption of hole punching, that the two NATs let the bursts through. In
History the ticker and a save once begun are fair, while the program runs.

### Disagreements between code and text

- `internal/peer/internet.go:115` calls duplicate hellos idempotent. The handler assigns
  `pc.sessionKey` before it looks at `alreadyJoined` (SessionDupHello).
- `internal/dedup/dedup.go:8` promises that no logical message is delivered twice. The
  answer to a sync request sends from the history, under fresh IDs, what the flush has sent
  under the queue's, and the receiver displays both (DeliveryTwice).
- `internal/queue/queue.go:20` says the queue flushes when peers come online. A line
  queued on an old `Peers()` answer after the flush has copied the queue waits for the next
  hello, however long the peer stays (DeliveryStranded).
- `README.md:136` says a received file is saved. `SaveFile` locks itself out (FileSave);
  the reader of that connection stays blocked, so chat from that peer stops as well, and
  `/resume` of that file blocks the command loop.
- `internal/peer/node.go:303` has the heartbeat drop stale peers, and `requirements.md:174`
  has it declare the connection dead. It forgets the time of the last beat and keeps the
  connection, so a peer that falls silent without a read error stays listed, and discovery
  does not dial it again (ConnectionsStale).

Less direct ones show as reservations of passing properties. A hazard that is such a
reservation is described by the model and excused by the property: the run shows that it is
the only way the property fails, not that it does not happen. The keys part after each of
the seven upsets, and nothing but the next reconnect brings them together; each of the five
causes in `spilled` loses a line for good unless delta sync happens to cover it; with two
connections at once (`sc.parallel`) a flush may spread over both and `QueuedInOrder` fails,
so it is stated for one connection at a time; the copies of a room stay apart after each of
the upsets of Group until somebody who knows all members rekeys, although the comment at
`internal/peer/node.go:1362` has a rekey re-invite every remaining member who is online,
and the one at `:1337` has `LeaveRoom` drop the local copy, which it keeps.

The models of the connections and of the history show more of the kind, which need no
run to be seen:

- `README.md:38` has a broken connection dialled again. `reconnectAddr` is written and never
  read: only discovery redials, hence `EventuallyConnected` is stated for it alone.
- `circuit.go:9` speaks of failed handshakes; only a failed dial counts. A peer that accepts
  and then closes is dialled for ever.
- `history.go:30` has the full file stay on disk while the tail is in memory. The next `Add`
  or `PruneExpired` saves the tail over it (`QuietIsStored` holds because of `tailOnly`).
- `requirements.md:219` has an expired message deleted from history. What expired while the
  program was down is dropped by `load`, so start-up's `PruneExpired` removes nothing and does
  not save: it stays in the file until the next message.
- `main.go:813` asks for a restart after `/import-data`. A message before that restart
  overwrites the restored history.

## 4. The proofs

`DeliveryProofs` proves, for every finite set of links and every value of the bounds
(assumption `DeliveryAssumption`, which TLC evaluates in the Delivery runs):

- `TypeCorrect`: `Spec => []TypeOK`;
- `AtMostOnce`: `Spec => []AtMostOncePerEnvelope`;
- `Conservation`: `Spec => []NoOtherLoss`.

`NoOtherLoss` is not inductive: the flush takes an item off the queue one step after it
has written it, and in between nothing in the property says that the written copy is still
around; and the dedup gate drops an envelope because of its ID, which says nothing of its
line. The inductive invariant `IInv` adds

- `QueueGenuine`, `FlushGenuine`, `WireGenuine`: an ID carries the same line wherever it is;
- `HelloFirst`: no chat reaches the receiver before the sender's hello, so no envelope is
  dropped for want of a key;
- `SeenIsSettled`: the gate holds only IDs whose line was displayed or lost by name, so a
  dropped duplicate loses nothing;
- `ShownIsSeen`: what is displayed is in the gate, which gives `AtMostOncePerEnvelope`;
- `SentIsSafe`: what a flush is about to remove is displayed, on its way or lost by name;
- `OwedIsKept`: `NoOtherLoss` in the form the induction needs.

The lemma that carries the argument is `SafeGrows`: a line that is displayed, on its way
or lost by name remains so in every step. TLC checked `IInv` on the Delivery instances
before it was proved.

`GroupProofs` proves, for every finite set of nodes and every bound (`GroupAssumption`):

- `TypeCorrect`: `Spec => []TypeOK`, with one copy per node and no name twice in a list;
- `LeaverExcluded`: `Spec => []LeaverGetsNoNewKey`.

The second is about the leaver's own copy, which only an invitation changes; so the
invariant has to follow the list from the copy of the node that handled the departure to
the invitations it sends and the copies these produce, which send invitations in turn.
`Barring` says it of all of them: who is gone is not on the list (`GoneIsUnlisted`); where
a barred key is held, neither the list nor the slots of a running loop name the barred node
(`BarredIsOut`); and no invitation with it names him or is on its way to him
(`BarredIsUninvited`). `KeysMade` makes a new key differ from all that exist, `ToOthers`
says that nobody writes to himself, and `BusyHasRoom` that a command under way has a room.
TLC checked this `IInv` too before it was proved.

`AgreementProofs` goes on from there and proves, for the same constants,

- `MembersAgree`: `Spec => []MembersAgreeWhenQuiet`;
- `LineShown`: `Spec => []SettledLineIsShown`.

Both speak of a room at rest; what brings the copies together happens while it is not. As
long as `upset` is empty, `Settling` says what holds on the way: whoever is listed has a copy
or an invitation on the way (`ListedAreKnown`), every command under way and every invitation
has the newest key (`NewestKey`), who announces his departure has not come back
(`LeaverIsOut`), who is in has the newest key or is still to be sent it (`MembersGetKey`), and
the slots that RekeyRoom ranges over are the list as far as it goes (`SliceIsList`), so that
AddMember writes into the same backing array without disturbing the loop. After a rekey,
`Healing(n)` says that the node n that typed it is the only one to invite (`Alone`), and that
its list, each list it has sent and each copy that took one over miss nobody who is in and
name nobody else who is not accounted for: either n is about to invite him, which will be an
upset (`Mistaken`), or all who are in have heard or will hear that he left (`Told`). At rest
the first is impossible, and the second contradicts `GoneIsUnlisted` of `IInv`. `Unmade`
rules out messages and copies before CreateRoom. For the lines, `DueIsOnTheWay` says that
each one still due is on a wire under the key of who it is due to, from somebody on his list.
TLC checked all of this on the instance of the run, and with five commands and no fault.

`MailboxProofs` proves `ImplementsMailbox`: `Spec => DeliversAsMailbox`, for the same
constants as DeliveryProofs and from its invariant `IInv`. Each action of Delivery is
mapped to the action of Mailbox it implements: `Enqueue` and `Broadcast` to `Accept`,
`ReceiverChat` to `Deliver` or `GiveUp`, the flush, the sync and the hellos to `Resend`, a
break, a restart and the removal from the queue to `GiveUp`. That a line the flush removes
from the queue does not vanish is `SentIsSafe` of `IInv`; that a connection which is not up
holds nothing that still counts is an invariant of its own (`DeadIsEmpty`).

It also proves `FlushOrder`: `Spec => []QueuedInOrder` of Delivery, also for any number
of restarts in mid-flush. The property speaks of what was displayed; what decides the order
is further back. The invariant `InOrder` lines up the whole way: what was displayed comes
before what is on the wire, that before what the handler has still to flush, and that before
the rest of the queue. The one overlap is a message that was sent and not yet removed, which
is on the wire and in the queue; when the sender stops just then the next flush sends it
again, and it is behind what was displayed or in the dedup set. A message that the full queue
drops while the handler still holds its copy is flushed all the same, which is why flush and
queue are separate links of the chain. `OneAtATime` and `FlushIsLive` say that the handler
writes to the connection whose wire is meant. TLC checked the invariant first, on the
instances of the run and on larger ones.

`HistoryProofs` proves, for every limit, TTL and bound (`HistoryAssumption`), `TypeCorrect`,
`WindowHasNoHoles`, `RecentStays`, `WindowIsStored` and `ExpiredStaysOut`. `NoHoles` and
`RecentIsKept` speak of the window, which a restart rebuilds from the file; so the invariant
has to say the same of the file as long as no restore or failed save has touched it
(`FileNoHoles`, `FileRecentIsKept`), and that nothing runs while the program is down
(`DownIsIdle`). The cuts need facts about cardinalities: the newest n of a set that lacks
only old elements are those of the whole.

`ConnectionsProofs` proves, for every finite set of dials, every threshold and setting
(`ConnectionsAssumption`), `TypeCorrect`, `NoDeadEntry` (`EntryWillGo`) and `NoOrphan`
(`OpenIsListed`). The invariant adds `OneAtATime`: as long as no lookup has met another dial
under way, there is at most one goroutine between its lookup and its end, and the table
holds it exactly while it is open or lost. `AttemptLeft` (a retry that sleeps has an attempt
left) bounds the counter of `ConnectWithRetry`.

`SessionProofs` proves, for any settings (`SessionAssumption`), hence any number of rekeys,
chats, losses and reconnects, over TCP and UDP:

- `TypeCorrect`: `Spec => []TypeOK`;
- `KeyGrows`: `Spec => KeyOnlyGrows`, from `HelloFirst`: over TCP a hello is the first message
  on a wire and has been read once there is a key, so that nothing sets the key back;
- `KeysAgree`: `Spec => []KeysAgreeUnlessUpset`;
- `OneAnswer`: `Spec => []OneAnswerEach`;
- `QuietChatRead`: `Spec => []QuietChatIsRead`.

`KeysAgreeUnlessUpset` speaks only of moments at which no exchange is under way. The invariant
`Phases` says what all others look like: a connection on which nothing in `upset` happened is
in one of five phases. It is at rest; one side has asked; it has been answered and has not
yet taken the answer; both have asked at once; or the side that answered has asked again
before its answer was taken. In each it fixes the slots, the rekey messages on either wire
and their order, and how the two keys differ, where a secret that a handler has computed
counts as mixed in (`Coming`). That these five are all is the content of the proof: every step
of the readers and heartbeats leads from one to one of them, or is on record in `upset`. How
many answers are open is fixed by the phase, which gives `OneAnswerEach`. `QuietInv` adds that
a chat written at rest stays ahead of every rekey on its wire, and under the key its reader
has until then.

`FileTransferProofs` proves, for any set of connections, any number of chunks and any bounds
(`FileAssumption`), `TypeCorrect` and `CheckpointSurvives`: `Spec => []CheckpointIsCurrent`.
Types need `HandlersHoldObjects`: a handler that has passed `RestorePartial` holds an object
the manager made. `CheckpointIsCurrent` needs to know what a checkpoint under way will write:
as long as the transfer has not forked there is one object (`OneObject`); as long as
checkpoints do not overlap there is one, and it writes to the file it has truncated
(`OneCheckpoint`, `FlushesToEmpty`); and unless a chunk has been stored whose checkpoint has
not begun, what it holds, or what the last one wrote, are the chunks of that object
(`SnapIsCurrent`).

Only model-checked: the liveness properties (`RekeyCompletes`, `FlushedIsShown`, `AcceptBringsAll`,
`ResumeBringsAll`, `EventuallyConnected`, `BundleFindsAWay`,
`ExpiredLeaves`). TLAPS has no support for liveness under fairness or ENABLED, nor for
induction over data with an operator parameter, and its SMT backend cannot be used with
RECURSIVE operators; the modules therefore contain none.

## 5. Not modelled

- Eviction from the dedup set: its 10,000 IDs and its TTL are beyond the bounds of Delivery.
- `sendRaw` blocks while it holds `n.mu`; the models take a write as one step. Two nodes
  whose buffers are full could wait for each other's readers; nothing in the code says how
  much a socket takes.
- Several addresses of one peer in Connections, and the start of internet mode while
  `-connect-public` is already dialling.
- A torn `groups.json`: `New` refuses it and the program exits at the start.
- STUN, the gathering and sorting of candidates, the text of announcements, the encryption of
  backups, contacts, update, configuration, setup, user interface: socket and file I/O,
  stateless functions or output, without a state machine that interleaves with the rest.
- Cryptography: keys are symbolic and encryption is perfect.
- `PruneExpiredPartials`, `FlushQueue`, `QueueOrSend`, `MarkAttempt`, `PeerGuard`,
  `ConnectionGuard`, `LoadOlder` and `GetPage`: no caller in the program.
- A file of zero bytes, which has no chunk to complete it, and the cap of the queue across
  several addressees: FileTransfer has one file of some chunks, Delivery one addressee.

## 6. Plan

Done: Session, Delivery, FileTransfer, Group, Connections, History and their checks; Mailbox
and its refinement; the proofs of every invariant that the passing runs check.
