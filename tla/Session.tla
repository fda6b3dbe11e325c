------------------------------ MODULE Session ------------------------------
(***************************************************************************)
(* The end-to-end session of one connection between two korik nodes: the   *)
(* hello handshake that sets the session key to the static ECDH key, the   *)
(* heartbeat's periodic rekey with its slot of one pending ephemeral, and  *)
(* chat encrypted under whatever key the sender read (internal/peer/       *)
(* node.go, internet.go, internal/crypto/crypto.go).                       *)
(*                                                                         *)
(* Each node runs three goroutines on the connection: the reader (setupConn*)
(* -> handleMessage), the heartbeat (StartHeartbeat -> maybeRekey) and the *)
(* command loop that sends chat.  A handler is split where it releases a   *)
(* lock, so that the goroutines of one node interleave as they do in Go.   *)
(*                                                                         *)
(* Keys are symbolic: the static key is <<>>, MixKeys appends a shared     *)
(* secret, and ECDH of two ephemerals is the set of the two, so two keys   *)
(* are equal exactly when they mix the same secrets in the same order.     *)
(***************************************************************************)
EXTENDS Naturals, Sequences, FiniteSets

CONSTANT
  Scenarios  \* the settings a behaviour may start in, with its bounds

(* A setting: the transport (UDP loses and reorders), the copies of hello   *)
(* the hole-punch burst of a UDP dialer writes, and bounds on the rekeys    *)
(* initiated and answered on one connection, on the chat messages sent and  *)
(* on the times the connection is lost and dialled again.                   *)
Scenario ==
  [via : {"tcp", "udp"}, copies : Nat,
   asks : Nat, answers : Nat, chats : Nat, drops : Nat]

ASSUME SessionAssumption == Scenarios \subseteq Scenario

(* The dialer keeps the same n.conns key over a reconnect (the listener's   *)
(* address); the acceptor sees a new ephemeral port, hence a new key.       *)
Side == {"dialer", "acceptor"}
Other(s) == IF s = "dialer" THEN "acceptor" ELSE "dialer"

VARIABLES
  sc,       \* the scenario, chosen at the start
  opened,   \* opened[s]: setupConn of s has sent its hello and reads
  punch,    \* punch[s]: hello copies the punch goroutine of s still writes
  ready,    \* ready[s]: pc.sessionKey # nil
  key,      \* key[s]: pc.sessionKey, as the sequence of mixed-in secrets
  slot,     \* slot[s]: rekeySlots.keys[pc.addr], {} or one ephemeral
  due,      \* due[s]: lastRekey[pc.addr] is zero or older than 10 minutes
  wire,     \* wire[s]: messages on their way to s
  reader,   \* reader[s]: where the MsgRekey handler of s is
  beat,     \* beat[s]: where maybeRekey of s is (it holds rekeyMu)
  cli,      \* cli[s]: the key the command loop of s read, not yet sent
  chats,    \* chats sent so far
  drops,    \* connections lost so far
  asked,    \* rekeys initiated on this connection
  answered, \* rekeys answered with a response ephemeral on it
  upset,    \* history: events of this connection that can part the two keys
  unread    \* history: chats of this connection that did not decrypt

vars == <<sc, opened, punch, ready, key, slot, due, wire, reader, beat, cli,
          chats, drops, asked, answered, upset, unread>>

\* GenerateKey: an ephemeral that no node has generated before.
Fresh == <<drops, asked + answered>>
ECDH(e, f) == {e, f}

\* Mutant: MixKeys forgets the old key.
ForgetOldKey(old, shared) == <<shared>>

MixKeys(old, shared) == Append(old, shared)

Hello   == [type |-> "hello"]
Rekey(e) == [type |-> "rekey", pub |-> e]
Chat(k, q) == [type |-> "chat", key |-> k, quiet |-> q]

Idle == [at |-> "idle"]

\* sendRaw: one write and flush under n.mu; the transport keeps TCP's order.
SendRaw(s, m) == wire' = [wire EXCEPT ![Other(s)] = Append(@, m)]

\* The position the reader of s takes its next message from.
Readable(s) == IF sc.via = "udp" THEN DOMAIN wire[s] ELSE DOMAIN wire[s] \cap {1}

RemoveAt(q, i) == SubSeq(q, 1, i - 1) \o SubSeq(q, i + 1, Len(q))

\* No rekey is under way: nothing on the wire, no slot, no goroutine in one.
Quiet ==
  \A s \in Side :
    /\ slot[s] = {}
    /\ reader[s] = Idle
    /\ beat[s] = Idle
    /\ \A i \in DOMAIN wire[s] : wire[s][i].type # "rekey"
----------------------------------------------------------------------------
Init ==
  /\ sc \in Scenarios
  /\ opened = [s \in Side |-> FALSE]
  /\ punch = [s \in Side |-> IF sc.via = "udp" /\ s = "dialer" THEN sc.copies ELSE 0]
  /\ ready = [s \in Side |-> FALSE]
  /\ key = [s \in Side |-> <<>>]
  /\ slot = [s \in Side |-> {}]
  /\ due = [s \in Side |-> TRUE]
  /\ wire = [s \in Side |-> <<>>]
  /\ reader = [s \in Side |-> Idle]
  /\ beat = [s \in Side |-> Idle]
  /\ cli = [s \in Side |-> Idle]
  /\ chats = 0 /\ drops = 0
  /\ asked = 0 /\ answered = 0 /\ upset = {} /\ unread = {}

\* setupConn: register the connection, send hello, start reading.
SetupConn(s) ==
  /\ ~opened[s]
  /\ opened' = [opened EXCEPT ![s] = TRUE]
  /\ SendRaw(s, Hello)
  /\ UNCHANGED <<sc, punch, ready, key, slot, due, reader, beat, cli, chats,
                 drops, asked, answered, upset, unread>>

\* Mutant: the burst writes one copy too many.
PunchOnceMore(s) ==
  /\ punch[s] >= 0
  /\ punch' = [punch EXCEPT ![s] = @ - 1]
  /\ SendRaw(s, Hello)
  /\ UNCHANGED <<sc, opened, ready, key, slot, due, reader, beat, cli, chats,
                 drops, asked, answered, upset, unread>>

\* ConnectPeerPublicAddr's goroutine: one more copy of hello.
Punch(s) ==
  /\ punch[s] > 0
  /\ punch' = [punch EXCEPT ![s] = @ - 1]
  /\ SendRaw(s, Hello)
  /\ UNCHANGED <<sc, opened, ready, key, slot, due, reader, beat, cli, chats,
                 drops, asked, answered, upset, unread>>

\* The reader of s takes message i of type t off the wire.
Receive(s, i, t) ==
  /\ opened[s]
  /\ reader[s] = Idle
  /\ i \in Readable(s)
  /\ wire[s][i].type = t
  /\ wire' = [wire EXCEPT ![s] = RemoveAt(@, i)]

\* What taking message i may do to the agreement of the keys.
Reordered(s, i) == IF i > 1 THEN {"reorder"} ELSE {}
NoKey(s) == IF ready[s] THEN {} ELSE {"nokey"}

\* MsgHello: the key is set to the static one, joined before or not.
HandleHello(s, i) ==
  /\ Receive(s, i, "hello")
  /\ ready' = [ready EXCEPT ![s] = TRUE]
  /\ key' = [key EXCEPT ![s] = <<>>]
  /\ upset' = upset \cup Reordered(s, i)
                    \cup (IF ready[s] /\ key[s] # <<>> THEN {"hello"} ELSE {})
  /\ UNCHANGED <<sc, opened, punch, slot, due, reader, beat, cli, chats,
                 drops, asked, answered, unread>>

\* MsgChat: dropped without a key, unreadable under another key.
HandleChat(s, i) ==
  /\ Receive(s, i, "chat")
  /\ unread' = unread \cup (IF ready[s] /\ wire[s][i].key = key[s]
                              THEN {} ELSE {wire[s][i]})
  /\ upset' = upset \cup NoKey(s)
  /\ UNCHANGED <<sc, opened, punch, ready, key, slot, due, reader, beat, cli,
                 chats, drops, asked, answered>>

\* Mutant: every MsgRekey is answered, the reply to our own included.
AnswerEveryRekey(s, i) ==
  /\ Receive(s, i, "rekey")
  /\ IF ready[s]
       THEN /\ reader' = [reader EXCEPT ![s] = [at |-> "answer", theirs |-> wire[s][i].pub]]
            /\ slot' = [slot EXCEPT ![s] = {}]
       ELSE UNCHANGED <<reader, slot>>
  /\ upset' = upset \cup Reordered(s, i) \cup NoKey(s)
  /\ UNCHANGED <<sc, opened, punch, ready, key, due, beat, cli, chats, drops,
                 asked, answered, unread>>

\* Mutant: the slot is used and not deleted.
KeepSlot(s, i) ==
  /\ Receive(s, i, "rekey")
  /\ IF ready[s]
       THEN reader' = [reader EXCEPT ![s] =
              IF slot[s] = {}
                THEN [at |-> "answer", theirs |-> wire[s][i].pub]
                ELSE [at |-> "mix", shared |->
                        ECDH(CHOOSE e \in slot[s] : TRUE, wire[s][i].pub)]]
       ELSE UNCHANGED reader
  /\ upset' = upset \cup Reordered(s, i) \cup NoKey(s)
  /\ UNCHANGED <<sc, opened, punch, ready, key, slot, due, beat, cli, chats, drops,
                 asked, answered, unread>>

\* MsgRekey up to rekeySlots.mu.Unlock: take the slot if there is one.
HandleRekey(s, i) ==
  /\ Receive(s, i, "rekey")
  /\ IF ready[s]
       THEN /\ reader' = [reader EXCEPT ![s] =
                 IF slot[s] = {}
                   THEN [at |-> "answer", theirs |-> wire[s][i].pub]
                   ELSE [at |-> "mix", shared |->
                           ECDH(CHOOSE e \in slot[s] : TRUE, wire[s][i].pub)]]
            /\ slot' = [slot EXCEPT ![s] = {}]
       ELSE UNCHANGED <<reader, slot>>
  /\ upset' = upset \cup Reordered(s, i) \cup NoKey(s)
  /\ UNCHANGED <<sc, opened, punch, ready, key, due, beat, cli, chats, drops,
                 asked, answered, unread>>

\* Mutant: the responder replies and keeps its old key.
AnswerOnly(s) ==
  /\ reader[s].at = "answer"
  /\ answered < sc.answers
  /\ answered' = answered + 1
  /\ reader' = [reader EXCEPT ![s] = [at |-> "stamp"]]
  /\ SendRaw(s, Rekey(Fresh))
  /\ UNCHANGED <<sc, opened, punch, ready, key, slot, due, beat, cli, chats, drops,
                 asked, upset, unread>>

\* MsgRekey without a slot: generate a response ephemeral and send it back.
AnswerRekey(s) ==
  /\ reader[s].at = "answer"
  /\ answered < sc.answers
  /\ answered' = answered + 1
  /\ reader' = [reader EXCEPT ![s] = [at |-> "mix", shared |-> ECDH(Fresh, @.theirs)]]
  /\ SendRaw(s, Rekey(Fresh))
  /\ UNCHANGED <<sc, opened, punch, ready, key, slot, due, beat, cli, chats, drops,
                 asked, upset, unread>>

\* MsgRekey: pc.sessionKey = MixKeys(oldKey, shared) under n.mu.
MixRekey(s) ==
  /\ reader[s].at = "mix"
  /\ key' = [key EXCEPT ![s] = MixKeys(@, reader[s].shared)]
  /\ reader' = [reader EXCEPT ![s] = [at |-> "stamp"]]
  /\ UNCHANGED <<sc, opened, punch, ready, slot, due, wire, beat, cli, chats,
                 drops, asked, answered, upset, unread>>

\* MsgRekey: lastRekey[pc.addr] = now, once maybeRekey has released rekeyMu.
StampRekey(s) ==
  /\ reader[s].at = "stamp"
  /\ beat[s] = Idle
  /\ due' = [due EXCEPT ![s] = FALSE]
  /\ reader' = [reader EXCEPT ![s] = Idle]
  /\ UNCHANGED <<sc, opened, punch, ready, key, slot, wire, beat, cli, chats,
                 drops, asked, answered, upset, unread>>

\* maybeRekey, initiateRekey up to rekeySlots.mu.Unlock: fill the slot.
InitiateRekey(s) ==
  /\ opened[s] /\ ready[s] /\ due[s]
  /\ beat[s] = Idle
  /\ asked < sc.asks
  /\ asked' = asked + 1
  /\ slot' = [slot EXCEPT ![s] = {Fresh}]
  /\ beat' = [beat EXCEPT ![s] = [at |-> "send", pub |-> Fresh]]
  /\ upset' = upset \cup (IF slot[s] # {} THEN {"overwrite"} ELSE {})
                    \cup (IF reader[s].at = "answer" THEN {"race"} ELSE {})
  /\ UNCHANGED <<sc, opened, punch, ready, key, due, wire, reader, cli, chats,
                 drops, answered, unread>>

\* initiateRekey: sendRaw of our ephemeral.
SendRekey(s) ==
  /\ beat[s].at = "send"
  /\ SendRaw(s, Rekey(beat[s].pub))
  /\ beat' = [beat EXCEPT ![s] = [at |-> "stamp"]]
  /\ UNCHANGED <<sc, opened, punch, ready, key, slot, due, reader, cli, chats,
                 drops, asked, answered, upset, unread>>

\* maybeRekey: lastRekey[pc.addr] = now; rekeyMu is released.
StampBeat(s) ==
  /\ beat[s].at = "stamp"
  /\ due' = [due EXCEPT ![s] = FALSE]
  /\ beat' = [beat EXCEPT ![s] = Idle]
  /\ UNCHANGED <<sc, opened, punch, ready, key, slot, wire, reader, cli, chats,
                 drops, asked, answered, upset, unread>>

\* More than ten minutes have passed since lastRekey[pc.addr].
TenMinutes(s) ==
  /\ ~due[s]
  /\ due' = [due EXCEPT ![s] = TRUE]
  /\ UNCHANGED <<sc, opened, punch, ready, key, slot, wire, reader, beat, cli,
                 chats, drops, asked, answered, upset, unread>>

\* SendTo, Broadcast: read the session key under n.mu ...
ReadKey(s) ==
  /\ ready[s]
  /\ cli[s] = Idle
  /\ chats < sc.chats
  /\ chats' = chats + 1
  /\ cli' = [cli EXCEPT ![s] = [at |-> "send", key |-> key[s]]]
  /\ UNCHANGED <<sc, opened, punch, ready, key, slot, due, wire, reader, beat,
                 drops, asked, answered, upset, unread>>

\* ... and, the lock released and taken again, write the ciphertext.
SendChat(s) ==
  /\ cli[s].at = "send"
  /\ SendRaw(s, Chat(cli[s].key, Quiet /\ cli[s].key = key[s]))
  /\ cli' = [cli EXCEPT ![s] = Idle]
  /\ UNCHANGED <<sc, opened, punch, ready, key, slot, due, reader, beat, chats,
                 drops, asked, answered, upset, unread>>

(* The connection breaks and the dialer dials again.  The new peerConns     *)
(* start without a key; rekeySlots and lastRekey are keyed by address, so   *)
(* the dialer keeps its entries and the acceptor's new address has none.    *)
(* Goroutines still inside a step touch only the old connection: letting    *)
(* them finish first gives the same states.                                 *)
Redial ==
  /\ sc.via = "tcp"
  /\ drops < sc.drops
  /\ \A s \in Side : opened[s] /\ reader[s] = Idle /\ beat[s] = Idle /\ cli[s] = Idle
  /\ drops' = drops + 1
  /\ opened' = [s \in Side |-> FALSE]
  /\ ready' = [s \in Side |-> FALSE]
  /\ key' = [s \in Side |-> <<>>]
  /\ wire' = [s \in Side |-> <<>>]
  /\ slot' = [slot EXCEPT !["acceptor"] = {}]
  /\ due' = [due EXCEPT !["acceptor"] = TRUE]
  /\ upset' = IF slot["dialer"] # {} THEN {"stale"} ELSE {}
  /\ asked' = 0 /\ answered' = 0 /\ unread' = {}
  /\ UNCHANGED <<sc, punch, reader, beat, cli, chats>>

\* The network, or push on a full channel, drops a datagram.
Lose(s, i) ==
  /\ sc.via = "udp"
  /\ i \in DOMAIN wire[s]
  /\ wire' = [wire EXCEPT ![s] = RemoveAt(@, i)]
  /\ upset' = upset \cup (IF wire[s][i].type = "rekey" THEN {"loss"} ELSE {})
  /\ UNCHANGED <<sc, opened, punch, ready, key, slot, due, reader, beat, cli,
                 chats, drops, asked, answered, unread>>

ReaderStep(s) ==
  \/ \E i \in DOMAIN wire[s] : HandleHello(s, i) \/ HandleChat(s, i) \/ HandleRekey(s, i)
  \/ AnswerRekey(s) \/ MixRekey(s) \/ StampRekey(s)

BeatStep(s) == InitiateRekey(s) \/ SendRekey(s) \/ StampBeat(s)

CliStep(s) == ReadKey(s) \/ SendChat(s)

Next ==
  \/ \E s \in Side :
       \/ SetupConn(s) \/ Punch(s) \/ ReaderStep(s) \/ BeatStep(s) \/ CliStep(s)
       \/ TenMinutes(s)
       \/ \E i \in DOMAIN wire[s] : Lose(s, i)
  \/ Redial

Spec == Init /\ [][Next]_vars

(* The goroutines of a node run on; the clock, the user, the loss of the    *)
(* connection or of a datagram are not fair.                                *)
Fairness ==
  \A s \in Side :
    /\ WF_vars(SetupConn(s)) /\ WF_vars(ReaderStep(s))
    /\ WF_vars(SendRekey(s) \/ StampBeat(s)) /\ WF_vars(SendChat(s))

FairSpec == Spec /\ Fairness
----------------------------------------------------------------------------
Ephemeral == Nat \X Nat
Key == Seq(SUBSET Ephemeral)
Message ==
  {Hello} \cup [type : {"rekey"}, pub : Ephemeral]
          \cup [type : {"chat"}, key : Key, quiet : BOOLEAN]
ReaderState ==
  {Idle, [at |-> "stamp"]} \cup [at : {"answer"}, theirs : Ephemeral]
                           \cup [at : {"mix"}, shared : SUBSET Ephemeral]
BeatState == {Idle, [at |-> "stamp"]} \cup [at : {"send"}, pub : Ephemeral]
CliState == {Idle} \cup [at : {"send"}, key : Key]
Upset == {"hello", "reorder", "nokey", "overwrite", "race", "stale", "loss"}

TypeOK ==
  /\ sc \in Scenario
  /\ opened \in [Side -> BOOLEAN]
  /\ punch \in [Side -> 0..sc.copies]
  /\ ready \in [Side -> BOOLEAN]
  /\ key \in [Side -> Key]
  /\ slot \in [Side -> SUBSET Ephemeral]
  /\ due \in [Side -> BOOLEAN]
  /\ wire \in [Side -> Seq(Message)]
  /\ reader \in [Side -> ReaderState]
  /\ beat \in [Side -> BeatState]
  /\ cli \in [Side -> CliState]
  /\ chats \in Nat /\ drops \in Nat /\ asked \in Nat /\ answered \in Nat
  /\ upset \subseteq Upset
  /\ unread \subseteq Message

(* Once every exchange has run its course the two nodes hold the same key,  *)
(* whoever initiated and however the goroutines interleaved, both at once   *)
(* included, unless one of the events named in upset happened on this       *)
(* connection: the MsgRekey handler and initiateRekey.                      *)
KeysAgreeUnlessUpset ==
  (Quiet /\ upset = {} /\ \A s \in Side : ready[s]) => key["dialer"] = key["acceptor"]

(* An initiated rekey draws at most one answer, so that no exchange echoes  *)
(* between the nodes, as long as nothing in upset happened: the MsgRekey    *)
(* handler answers without filling a slot.                                  *)
OneAnswerEach == upset = {} => answered <= asked

(* A chat written while no rekey was under way, under the key its sender    *)
(* holds, is decrypted by the receiver even if a rekey starts behind it:    *)
(* SendToWithID against the MsgRekey and MsgChat handlers.                  *)
QuietChatIsRead == upset = {} => \A m \in unread : ~m.quiet

(* On one TCP connection a session key is only ever extended with fresh     *)
(* secrets: it never returns to an earlier key, the static one least of     *)
(* all, which is what initiateRekey rotates for.                            *)
KeyOnlyGrows ==
  [][\A s \in Side : sc.via = "tcp" /\ ready[s] /\ drops' = drops =>
        /\ ready'[s]
        /\ Len(key[s]) <= Len(key'[s])
        /\ SubSeq(key'[s], 1, Len(key[s])) = key[s]]_vars

(* An initiated rekey completes: initiateRekey's ephemeral leaves the slot, *)
(* unless something in upset happens first.                                 *)
RekeyCompletes ==
  \A s \in Side : slot[s] # {} ~> slot[s] = {} \/ upset # {}
============================================================================
