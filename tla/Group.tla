------------------------------- MODULE Group -------------------------------
(***************************************************************************)
(* One group room at several nodes: every node keeps its own copy of the   *)
(* room (key and member list) and changes it by /group create, invite,     *)
(* leave and rekey and by the messages those commands send                 *)
(* (internal/group/group.go, the group handlers of internal/peer/node.go   *)
(* and handleGroupCommand of main.go).                                     *)
(*                                                                         *)
(* A pair of nodes has at most one connection, with a session key that     *)
(* both agree on (see Session); it keeps order and may break.  Envelope    *)
(* IDs are fresh, so the dedup gate lets all through.  A handler is one    *)
(* step, and so are LeaveRoom and SendGroup.  InviteToRoom is two, because *)
(* the list it adds to may change while sendRaw writes, and RekeyRoom is   *)
(* two per member: it ranges over room.Members without the store's lock,   *)
(* and RemoveMember, called by a reader, compacts the list in the same     *)
(* backing array.  A slot is read whole: it is a string header, and all    *)
(* JIDs are of one length.                                                 *)
(*                                                                         *)
(* Keys are numbers in the order they are made.  The store is saved inside *)
(* each call that changes it, so a restart brings the room back.           *)
(***************************************************************************)
EXTENDS Naturals, Sequences, FiniteSets

CONSTANTS
  Node,
  Creator,     \* the node that types /group create
  MaxCommands, \* bound: /group invite, rekey, leave and /g commands
  MaxFaults    \* bound: broken connections, restarts, refused messages

ASSUME GroupAssumption ==
  /\ IsFiniteSet(Node) /\ Creator \in Node
  /\ MaxCommands \in Nat /\ MaxFaults \in Nat

VARIABLES
  room,    \* room[n]: n's copy, {} or {[key, members]}
  cli,     \* cli[n]: what n's command loop is doing to the room
  wire,    \* wire[n][m]: messages from n to m
  conn,    \* the pairs that are connected and ready
  keys,    \* keys made so far; the last is the newest
  shown,   \* shown[n]: lines n displayed
  commands, faults,
  \* history variables, read by no action's guard
  upset,   \* the events after which the copies may differ for good
  healed,  \* nobody was invited since the last rekey
  due,     \* <<line, node>>: sent to a room at rest that has not changed since
  gone,    \* gone[n]: nodes n removed on their own word and did not ask back
  barred   \* <<key, node>>: node was in gone[n] when n made key

vars == <<room, cli, wire, conn, keys, shown, commands, faults, upset, healed,
          due, gone, barred>>
counters == <<commands, faults>>
history == <<upset, healed, due, gone, barred>>

Invite(r) == [type |-> "group_invite", key |-> r.key, members |-> r.members]
Leave     == [type |-> "group_leave"]
Chat(k, l) == [type |-> "group_chat", key |-> k, line |-> l]

Elements(s) == {s[i] : i \in DOMAIN s}

\* Store.Get, IsMember, AddMember and RemoveMember on a copy of the room.
HasRoom(n) == room[n] # {}
Room(n) == CHOOSE r \in room[n] : TRUE
View(n) == IF HasRoom(n) THEN Elements(Room(n).members) ELSE {}
IsMember(n, m) == m \in View(n)
AddTo(s, m) == IF m \in Elements(s) THEN s ELSE Append(s, m)

\* Mutant: nobody is taken off the list.
RemoveNobody(s, m) == s

(* RemoveMember keeps the others, in order; no JID is in a list twice.      *)
RemoveFrom(s, m) ==
  IF m \in Elements(s)
    THEN LET k == CHOOSE i \in DOMAIN s : s[i] = m
         IN  [i \in 1..(Len(s) - 1) |-> IF i < k THEN s[i] ELSE s[i + 1]]
    ELSE s

(* The command loop: idle, or with a member that InviteToRoom has still to  *)
(* add, and in RekeyRoom the slots of the slice its range loop has still to *)
(* read.  shared: the slice is still the backing array of the room's list.  *)
Idle == [array |-> <<>>, next |-> 1, shared |-> FALSE, add |-> {}]
Finished(c) == c.add = {} /\ c.next > Len(c.array)
Settle(c) == IF Finished(c) THEN Idle ELSE c

(* What the range loop sees after the store has written list s into the     *)
(* same backing array: the slots s covers are new, those after it are not.  *)
Overlay(c, s) ==
  IF c.shared
    THEN [c EXCEPT !.array = [i \in DOMAIN @ |-> IF i <= Len(s) THEN s[i] ELSE @[i]]]
    ELSE c
Unread(c) == {c.array[i] : i \in {j \in DOMAIN c.array : j >= c.next}}

\* Mutant: an invitation is stored beside the copy that is there.
AddBeside(n, r) == room' = [room EXCEPT ![n] = @ \cup {r}]

\* Mutant: an invitation to a room one already has is ignored.
AddOnce(n, r) == room' = IF HasRoom(n) THEN room ELSE [room EXCEPT ![n] = {r}]

\* Store.Add: the copy is overwritten.
Add(n, r) == room' = [room EXCEPT ![n] = {r}]

\* Store.AddMember and Store.RemoveMember at n, with the new list s.
SetMembers(n, s) == room' = [room EXCEPT ![n] = {[Room(n) EXCEPT !.members = s]}]

Connected(n, m) == {n, m} \in conn
Peers(n) == {m \in Node \ {n} : Connected(n, m)}

Sent(n, M, msg) ==
  [wire EXCEPT ![n] = [m \in Node |-> IF m \in M THEN Append(@[m], msg) ELSE @[m]]]

On(w, t) == \E i \in DOMAIN w : w[i].type = t
Invited(m) == \E n \in Node : On(wire[n][m], "group_invite")

\* Those who count themselves in, or are about to.
Members == {m \in Node : IsMember(m, m) \/ Invited(m)}

\* No command is under way and no invitation or departure is on the wire.
Quiet ==
  \A n \in Node :
    /\ cli[n] = Idle
    /\ \A m \in Node : ~On(wire[n][m], "group_invite") /\ ~On(wire[n][m], "group_leave")

Upset(S) == upset' = upset \cup S
When(b, why) == IF b THEN {why} ELSE {}
----------------------------------------------------------------------------
Init ==
  /\ room = [n \in Node |-> {}]
  /\ cli = [n \in Node |-> Idle]
  /\ wire = [n \in Node |-> [m \in Node |-> <<>>]]
  /\ conn = {{n, m} : n, m \in Node} \ {{n} : n \in Node}
  /\ keys = 0 /\ shown = [n \in Node |-> {}]
  /\ commands = 0 /\ faults = 0
  /\ upset = {} /\ healed = FALSE /\ due = {}
  /\ gone = [n \in Node |-> {}] /\ barred = {}

\* CreateRoom.
CreateRoom ==
  /\ keys = 0
  /\ keys' = 1
  /\ room' = [room EXCEPT ![Creator] = {[key |-> 1, members |-> <<Creator>>]}]
  /\ UNCHANGED <<cli, wire, conn, shown, counters, history>>

\* The user at n types a command while the command loop is free.
Types(n) ==
  /\ cli[n] = Idle
  /\ commands < MaxCommands
  /\ commands' = commands + 1

\* InviteToRoom up to sendRaw: the payload has the list as it is before AddMember.
SendInvite(n, m) == wire' = Sent(n, {m}, Invite(Room(n)))

\* /group invite: anyone with a copy may, also who has left.
InviteToRoom(n, m) ==
  /\ Types(n) /\ HasRoom(n) /\ m \in Peers(n)
  /\ SendInvite(n, m)
  /\ cli' = [cli EXCEPT ![n].add = {m}]
  /\ Upset(When(Room(n).key # keys, "old key"))
  /\ healed' = FALSE /\ due' = {}
  /\ gone' = [gone EXCEPT ![n] = @ \ {m}]
  /\ barred' = barred \ {<<Room(n).key, m>>}
  /\ UNCHANGED <<room, conn, keys, shown, faults>>

\* InviteToRoom after sendRaw: AddMember.
AddMember(n) ==
  /\ \E m \in cli[n].add :
       LET s == AddTo(Room(n).members, m)
       IN  /\ SetMembers(n, s)
           /\ cli' = [cli EXCEPT ![n] = Settle([Overlay(@, s) EXCEPT !.add = {}])]
           /\ Upset(When(m \in gone[n], "added back"))
  /\ UNCHANGED <<wire, conn, keys, shown, counters, healed, due, gone, barred>>

(* RekeyRoom: Store.Rekey rotates the key in place, then the range loop     *)
(* over the list begins.                                                    *)
RekeyRoom(n) ==
  /\ Types(n) /\ HasRoom(n)
  /\ keys' = keys + 1
  /\ room' = [room EXCEPT ![n] = {[Room(n) EXCEPT !.key = keys + 1]}]
  /\ cli' = [cli EXCEPT ![n] = Settle([array |-> Room(n).members, next |-> 1,
                                       shared |-> TRUE, add |-> {}])]
  /\ Upset(When(~(Members \subseteq View(n)), "unknown member")
             \cup When(Room(n).key # keys, "old key")
             \cup When(~Quiet, "crossed"))
  /\ healed' = TRUE /\ due' = {}
  /\ barred' = barred \cup {<<keys + 1, m>> : m \in gone[n]}
  /\ UNCHANGED <<wire, conn, shown, faults, gone>>

(* One round of the range loop: read a slot, skip self and who is offline,  *)
(* and send the invitation with what the store holds now.                   *)
RekeyMember(n) ==
  /\ cli[n].add = {} /\ cli[n].next <= Len(cli[n].array)
  /\ LET m == cli[n].array[cli[n].next]
         c == [cli[n] EXCEPT !.next = @ + 1]
     IN  IF m \in Peers(n)
           THEN /\ SendInvite(n, m)
                /\ cli' = [cli EXCEPT ![n] = [c EXCEPT !.add = {m}]]
                /\ UNCHANGED upset
           ELSE /\ cli' = [cli EXCEPT ![n] = Settle(c)]
                /\ Upset(When(m # n, "offline"))
                /\ UNCHANGED wire
  /\ UNCHANGED <<room, conn, keys, shown, counters, healed, due, gone, barred>>

(* LeaveRoom: tell every peer, then remove oneself; the copy is kept.       *)
LeaveRoom(n) ==
  /\ Types(n) /\ HasRoom(n)
  /\ wire' = Sent(n, Peers(n), Leave)
  /\ SetMembers(n, RemoveFrom(Room(n).members, n))
  /\ Upset(When(~(Members \ {n} \subseteq Peers(n)), "offline"))
  /\ due' = {}
  /\ UNCHANGED <<cli, conn, keys, shown, faults, healed, gone, barred>>

\* Mutant: the loop over the peers ends after the first member.
FirstRecipient(n) == LET M == Peers(n) \cap View(n) IN IF M = {} THEN M ELSE {CHOOSE m \in M : TRUE}

\* SendGroup's loop over the peers: the members that are online.
Recipients(n) == Peers(n) \cap View(n)

\* SendGroup: one ciphertext under the room key, on every recipient's connection.
SendGroup(n) ==
  /\ Types(n) /\ HasRoom(n) /\ IsMember(n, n)
  /\ wire' = Sent(n, Recipients(n), Chat(Room(n).key, commands + 1))
  /\ due' = IF Quiet /\ upset = {} /\ healed
              THEN due \cup {<<commands + 1, m>> : m \in Members \cap Peers(n)} ELSE due
  /\ UNCHANGED <<room, cli, conn, keys, shown, faults, upset, healed, gone, barred>>

\* The reader at n of its connection with p takes a message of type t.
Reads(n, p, t) ==
  /\ wire[p][n] # <<>> /\ Head(wire[p][n]).type = t
  /\ wire' = [wire EXCEPT ![p][n] = Tail(@)]

(* handleGroupInvite: the copy is replaced by what the inviter holds, with  *)
(* oneself in it.  A range loop of n goes on over the old list.             *)
HandleGroupInvite(n, p) ==
  /\ Reads(n, p, "group_invite")
  /\ LET msg == Head(wire[p][n])
     IN  /\ Add(n, [key |-> msg.key, members |-> AddTo(msg.members, n)])
         /\ cli' = [cli EXCEPT ![n].shared = FALSE]
         /\ Upset(When(HasRoom(n) /\ ~IsMember(n, n), "rejoined")
                    \cup When(HasRoom(n) /\ msg.key < Room(n).key, "old key")
                    \cup When(gone[n] \cap Elements(msg.members) # {}, "listed again")
                    \cup When(cli[n] # Idle, "replaced"))
         /\ gone' = [gone EXCEPT ![n] = @ \ Elements(msg.members)]
  /\ UNCHANGED <<conn, keys, shown, counters, healed, due, barred>>

\* MsgGroupLeave: RemoveMember, in the backing array that a range loop may read.
HandleGroupLeave(n, p) ==
  /\ Reads(n, p, "group_leave")
  /\ IF HasRoom(n)
       THEN LET s == RemoveFrom(Room(n).members, p)
                c == Overlay(cli[n], s)
            IN  /\ SetMembers(n, s)
                /\ cli' = [cli EXCEPT ![n] = c]
                /\ gone' = [gone EXCEPT ![n] = @ \cup {p}]
                /\ Upset(When(~(Unread(cli[n]) \ {p} \subseteq Unread(c)), "shifted"))
       ELSE UNCHANGED <<room, cli, gone, upset>>
  /\ UNCHANGED <<conn, keys, shown, counters, healed, due, barred>>

\* handleGroupChat: both must be members in n's copy, and the key must fit.
HandleGroupChat(n, p) ==
  /\ Reads(n, p, "group_chat")
  /\ LET msg == Head(wire[p][n])
     IN  IF HasRoom(n) /\ IsMember(n, p) /\ IsMember(n, n) /\ Room(n).key = msg.key
           THEN /\ shown' = [shown EXCEPT ![n] = @ \cup {msg.line}]
                /\ due' = due \ {<<msg.line, n>>}
           ELSE UNCHANGED <<shown, due>>
  /\ UNCHANGED <<room, cli, conn, keys, counters, upset, healed, gone, barred>>

\* allowInbound is false: the bucket of p is empty at n.  Leave is not limited.
Refuse(n, p) ==
  /\ faults < MaxFaults
  /\ faults' = faults + 1
  /\ Reads(n, p, "group_invite") \/ Reads(n, p, "group_chat")
  /\ Upset(When(Head(wire[p][n]).type = "group_invite", "refused"))
  /\ due' = {}
  /\ UNCHANGED <<room, cli, conn, keys, shown, commands, healed, gone, barred>>

\* The connections in C break, and what is on them is lost.
Lost(C) == wire' = [n \in Node |-> [m \in Node |-> IF {n, m} \in C THEN <<>> ELSE wire[n][m]]]
Carry(C) == \E n, m \in Node :
  {n, m} \in C /\ (On(wire[n][m], "group_invite") \/ On(wire[n][m], "group_leave"))

Drop(C) ==
  /\ conn' = conn \ C
  /\ Lost(C)
  /\ due' = {}

Break(n, m) ==
  /\ faults < MaxFaults
  /\ faults' = faults + 1
  /\ Connected(n, m)
  /\ Drop({{n, m}})
  /\ Upset(When(Carry({{n, m}}), "lost"))
  /\ UNCHANGED <<room, cli, keys, shown, commands, healed, gone, barred>>

\* A node stops and starts again: the store comes back, the command loop does not.
Restart(n) ==
  /\ faults < MaxFaults
  /\ faults' = faults + 1
  /\ Drop({{n, m} : m \in Peers(n)})
  /\ cli' = [cli EXCEPT ![n] = Idle]
  /\ Upset(When(Carry({{n, m} : m \in Peers(n)}), "lost") \cup When(cli[n] # Idle, "stopped"))
  /\ UNCHANGED <<room, keys, shown, commands, healed, gone, barred>>

\* The two find each other again and say hello.
Connect(n, m) ==
  /\ n # m /\ ~Connected(n, m)
  /\ conn' = conn \cup {{n, m}}
  /\ UNCHANGED <<room, cli, wire, keys, shown, counters, history>>

\* handleGroupCommand and /g.
Command(n) ==
  \/ \E m \in Node : InviteToRoom(n, m)
  \/ AddMember(n) \/ RekeyRoom(n) \/ RekeyMember(n)
  \/ LeaveRoom(n) \/ SendGroup(n)

Next ==
  \/ CreateRoom
  \/ \E n \in Node : Command(n) \/ Restart(n)
  \/ \E n, m \in Node :
       \/ HandleGroupInvite(n, m) \/ HandleGroupLeave(n, m) \/ HandleGroupChat(n, m)
       \/ Refuse(n, m) \/ Break(n, m) \/ Connect(n, m)

Spec == Init /\ [][Next]_vars
----------------------------------------------------------------------------
Listing == {s \in Seq(Node) : \A i, j \in DOMAIN s : s[i] = s[j] => i = j}
Copy == [key : Nat, members : Listing]
Message == [type : {"group_invite"}, key : Nat, members : Listing]
             \cup [type : {"group_leave"}]
             \cup [type : {"group_chat"}, key : Nat, line : Nat]
Cli == [array : Seq(Node), next : Nat \ {0}, shared : BOOLEAN, add : SUBSET Node]

TypeOK ==
  /\ room \in [Node -> SUBSET Copy] /\ \A n \in Node : \A r, s \in room[n] : r = s
  /\ cli \in [Node -> Cli] /\ wire \in [Node -> [Node -> Seq(Message)]]
  /\ conn \subseteq SUBSET Node /\ keys \in Nat /\ shown \in [Node -> SUBSET Nat]
  /\ gone \in [Node -> SUBSET Node] /\ barred \subseteq Nat \X Node
  /\ commands \in 0..MaxCommands /\ faults \in 0..MaxFaults

(* Once nothing is under way, all who count themselves in hold one key; and *)
(* if nobody was invited since the last rekey, they also agree on who is    *)
(* in, whatever they thought before: RekeyRoom's invitations replace every  *)
(* copy by the rekeyer's.  The events that spoil it for good are named in   *)
(* upset.                                                                   *)
MembersAgreeWhenQuiet ==
  Quiet /\ upset = {} =>
    \A p, q \in Members :
      /\ Room(p).key = Room(q).key
      /\ healed => View(p) = View(q)

(* Who leaves a room does not get a key made after that by a node that has  *)
(* heard of it and was sent no list with him since, unless somebody invites *)
(* him with that key: RekeyRoom invites only who is in the list, and        *)
(* MsgGroupLeave takes him off it.  Excepted are a departure handled        *)
(* between sendRaw and AddMember of an invitation, and a room that is       *)
(* replaced under a running RekeyRoom or InviteToRoom.                      *)
LeaverGetsNoNewKey ==
  upset \cap {"added back", "replaced"} = {} =>
    \A x \in barred : HasRoom(x[2]) => Room(x[2]).key # x[1]

(* A line sent to a room that is at rest after a rekey is displayed by      *)
(* every member online, unless the room changes or the network fails before *)
(* it arrives.                                                              *)
SettledLineIsShown ==
  (\A n, m \in Node : wire[n][m] = <<>>) => due = {}
============================================================================
