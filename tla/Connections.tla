---------------------------- MODULE Connections ----------------------------
(***************************************************************************)
(* How one node gets and keeps a connection to one peer: the connection    *)
(* table of internal/peer/node.go, the dials that discovery, /connect,     *)
(* /retry and /connect-candidates start, the circuit breaker, the UDP      *)
(* socket of internet mode, and the heartbeat.                             *)
(*                                                                         *)
(* The peer has one TCP address, which it announces, and one public UDP    *)
(* address.  The table n.conns has one place for each.  A Dial is a call   *)
(* of ConnectTo on a goroutine of its own and then the goroutine of        *)
(* setupConn that comes of it; its name is free again when that is over.   *)
(* Connections that the peer opens come from a port used once, so they     *)
(* have places of their own in the table and are left out.  A bundle names *)
(* the two addresses; its direct stages are one, as they differ in nothing *)
(* but the address.                                                        *)
(***************************************************************************)
EXTENDS Naturals, FiniteSets

CONSTANTS
  Dial,        \* names of the dials and connections that can be under way
  Threshold,   \* circuit.Breaker: failures that open it (5)
  MaxAttempts, \* attempts of ConnectWithRetry (5 and 10)
  Scenarios    \* the settings a behaviour may start in, with its bounds

(* A setting: who dials (the discovery listener or not, /connect or not,    *)
(* /retry or not, a candidate bundle or not), whether internet mode is on,  *)
(* whether the peer's TCP address can be reached at the start, and a bound  *)
(* on the faults: connections lost, bad hellos, outages of the address.     *)
Scenario ==
  [discovery : BOOLEAN, connect : BOOLEAN, retry : BOOLEAN, bundle : BOOLEAN,
   internet : BOOLEAN, reach : BOOLEAN, faults : Nat]

ASSUME ConnectionsAssumption ==
  /\ Threshold \in Nat \ {0} /\ MaxAttempts \in Nat \ {0}
  /\ Scenarios \subseteq Scenario
  /\ IsFiniteSet(Dial)

VARIABLES
  sc,       \* the scenario
  table,    \* n.conns[tcp address]: {} or {the connection listed}
  at,       \* at[c]: how far the goroutine of c is
  caller,   \* caller[c]: who waits for ConnectTo to return, or "none"
  joined,   \* joined[c]: its session key is set
  failures, \* Breaker.failures of the address
  blocked,  \* Breaker.blockedAt: "no", "hot", "cool" (cooldown is over)
  reach,    \* the TCP address can be reached
  typed,    \* /connect was given
  retry,    \* ConnectWithRetry: where it is, and its attempt
  bundle,   \* ConnectWithCandidates: where it is
  udp,      \* udpPeers[public address]: "none", "live", "closed"
  ureader,  \* the setupConn goroutine of that udpConn
  ujoined,  \* its session key is set
  utable,   \* n.conns[public address] is there
  beat,     \* lastBeat of the peer: "none", "fresh", "stale" (over 60 s old)
  faults,
  \* history variables, read by no action
  raced,    \* a lookup was made while another dial of the address was under way
  refused   \* the peer's hello on the UDP address did not match its JID

vars == <<sc, table, at, caller, joined, failures, blocked, reach, typed,
          retry, bundle, udp, ureader, ujoined, utable, beat, faults, raced,
          refused>>

breaker == <<failures, blocked>>
tcp == <<table, at, caller, joined, breaker>>
udpvars == <<udp, ureader, ujoined, utable, refused>>
users == <<typed, retry, bundle>>

Off == [at |-> "off", attempt |-> 0]

Fault == faults < sc.faults /\ faults' = faults + 1

\* A connection is listed and its session key set.
TcpReady == \E c \in table : joined[c]
\* waitForPeerJID: some connection of the peer is.
PeerReady == TcpReady \/ (utable /\ ujoined)

Init ==
  /\ sc \in Scenarios
  /\ table = {} /\ at = [c \in Dial |-> "idle"]
  /\ caller = [c \in Dial |-> "none"] /\ joined = [c \in Dial |-> FALSE]
  /\ failures = 0 /\ blocked = "no" /\ reach = sc.reach
  /\ typed = FALSE /\ retry = Off /\ bundle = "off"
  /\ udp = "none" /\ ureader = "none" /\ ujoined = FALSE /\ utable = FALSE
  /\ beat = "none" /\ faults = 0 /\ raced = FALSE /\ refused = FALSE
----------------------------------------------------------------------------
(* Who calls ConnectTo.                                                     *)

\* A call of ConnectTo, on whose return `who' waits.
Call(c, who) ==
  /\ at[c] = "idle"
  /\ at' = [at EXCEPT ![c] = "called"]
  /\ caller' = [caller EXCEPT ![c] = who]

\* listenDiscoveryFamily hears the peer, which announces itself every second.
Announce(c) ==
  /\ sc.discovery /\ table = {}
  /\ Call(c, "none")
  /\ UNCHANGED <<sc, table, joined, breaker, reach, users, udpvars, beat,
                 faults, raced>>

\* The command /connect.
TypeConnect(c) ==
  /\ sc.connect /\ ~typed
  /\ typed' = TRUE /\ Call(c, "none")
  /\ UNCHANGED <<sc, table, joined, breaker, reach, retry, bundle, udpvars,
                 beat, faults, raced>>

\* ConnectWithRetry: its next attempt, after the command or after its sleep.
Attempt(c) ==
  /\ sc.retry /\ retry.at \in {"off", "sleeping"}
  /\ retry' = [at |-> "calling", attempt |-> retry.attempt + 1]
  /\ Call(c, "retry")
  /\ UNCHANGED <<sc, table, joined, breaker, reach, typed, bundle, udpvars,
                 beat, faults, raced>>

\* ConnectWithCandidates: its first stages, the TCP candidates.
TryTCP(c) ==
  /\ sc.bundle /\ bundle = "off"
  /\ bundle' = "dialing" /\ Call(c, "bundle")
  /\ UNCHANGED <<sc, table, joined, breaker, reach, typed, retry, udpvars,
                 beat, faults, raced>>

\* What ConnectWithRetry does when an attempt has brought nothing.
GiveUpOrSleep ==
  [retry EXCEPT !.at = IF retry.attempt >= MaxAttempts THEN "gaveup"
                       ELSE "sleeping"]

\* ConnectTo of c returns, with or without an error, to whoever waits for it.
Return(c, ok) ==
  /\ caller' = [caller EXCEPT ![c] = "none"]
  /\ retry' = IF caller[c] # "retry" THEN retry
              ELSE IF ok THEN [retry EXCEPT !.at = "waiting"] ELSE GiveUpOrSleep
  /\ bundle' = IF caller[c] = "bundle" THEN "waitTCP" ELSE bundle
  /\ UNCHANGED typed
----------------------------------------------------------------------------
(* ConnectTo and the circuit breaker.                                       *)

\* Another goroutine may still put the address into the table, or take it out.
UnderWay(c) == at[c] \in {"looked", "dialing", "dialed", "leaving"}

\* Mutant: ConnectTo relies on its callers' lookup.
LookUpNothing(c) ==
  /\ at[c] = "called"
  /\ at' = [at EXCEPT ![c] = "looked"]
  /\ raced' = (raced \/ \E d \in Dial \ {c} : UnderWay(d))
  /\ UNCHANGED <<sc, table, caller, users, joined, breaker, reach, udpvars,
                 beat, faults>>

\* ConnectTo looks the address up, under n.mu.
LookUp(c) ==
  /\ at[c] = "called"
  /\ IF table # {}
       THEN at' = [at EXCEPT ![c] = "idle"] /\ Return(c, TRUE)
       ELSE at' = [at EXCEPT ![c] = "looked"] /\ UNCHANGED <<caller, users>>
  /\ raced' = (raced \/ \E d \in Dial \ {c} : UnderWay(d))
  /\ UNCHANGED <<sc, table, joined, breaker, reach, udpvars, beat, faults>>

\* Mutant: the cooldown is not looked at.
SkipAlways(c) ==
  /\ at[c] = "looked"
  /\ IF blocked # "no"
       THEN at' = [at EXCEPT ![c] = "idle"] /\ Return(c, FALSE)
       ELSE at' = [at EXCEPT ![c] = "dialing"] /\ UNCHANGED <<caller, users>>
  /\ UNCHANGED <<sc, table, joined, breaker, reach, udpvars, beat, faults,
                 raced>>

\* Breaker.Skip: no dial within the cooldown; after it the count is new.
Skip(c) ==
  /\ at[c] = "looked"
  /\ IF blocked = "hot"
       THEN /\ at' = [at EXCEPT ![c] = "idle"] /\ Return(c, FALSE)
            /\ UNCHANGED breaker
       ELSE /\ at' = [at EXCEPT ![c] = "dialing"] /\ UNCHANGED <<caller, users>>
            /\ blocked' = "no"
            /\ failures' = IF blocked = "cool" THEN 0 ELSE failures
  /\ UNCHANGED <<sc, table, joined, reach, udpvars, beat, faults, raced>>

\* net.DialTimeout fails: Breaker.RecordFailure.
DialFails(c) ==
  /\ at[c] = "dialing" /\ ~reach
  /\ at' = [at EXCEPT ![c] = "idle"] /\ Return(c, FALSE)
  /\ failures' = IF failures < Threshold THEN failures + 1 ELSE failures
  /\ blocked' = IF failures' >= Threshold THEN "hot" ELSE blocked
  /\ UNCHANGED <<sc, table, joined, reach, udpvars, beat, faults, raced>>

\* It succeeds: ConnectTo starts setupConn and returns.
DialSucceeds(c) ==
  /\ at[c] = "dialing" /\ reach
  /\ at' = [at EXCEPT ![c] = "dialed"] /\ Return(c, TRUE)
  /\ UNCHANGED <<sc, table, joined, breaker, reach, udpvars, beat, faults,
                 raced>>

\* Breaker.cooldown passes.
CoolDown ==
  /\ blocked = "hot" /\ blocked' = "cool"
  /\ UNCHANGED <<sc, table, at, caller, joined, failures, reach, users, udpvars,
                 beat, faults, raced>>
----------------------------------------------------------------------------
(* setupConn and the connection table.                                      *)

\* Mutant: the table has a place for every connection.
RegisterBeside(c) ==
  /\ at[c] = "dialed"
  /\ at' = [at EXCEPT ![c] = "open"] /\ table' = table \cup {c}
  /\ UNCHANGED <<sc, caller, joined, breaker, reach, users, udpvars, beat,
                 faults, raced>>

\* setupConn lists the connection, whatever is listed, and sends its hello.
Register(c) ==
  /\ at[c] = "dialed"
  /\ at' = [at EXCEPT ![c] = "open"] /\ table' = {c}
  /\ UNCHANGED <<sc, caller, joined, breaker, reach, users, udpvars, beat,
                 faults, raced>>

\* The peer's hello: the session key, and Breaker.RecordSuccess.
Hello(c) ==
  /\ at[c] = "open" /\ ~joined[c]
  /\ joined' = [joined EXCEPT ![c] = TRUE]
  /\ failures' = 0 /\ blocked' = "no"
  /\ UNCHANGED <<sc, table, at, caller, reach, users, udpvars, beat,
                 faults, raced>>

\* The connection breaks, or is closed for a hello that does not match its JID.
Lose(c) ==
  /\ at[c] = "open" /\ Fault
  /\ at' = [at EXCEPT ![c] = "lost"]
  /\ UNCHANGED <<sc, table, caller, joined, breaker, reach, users, udpvars,
                 beat, raced>>

\* Mutant: the read error ends the loop and nothing else.
LeaveListed(c) ==
  /\ at[c] = "lost"
  /\ at' = [at EXCEPT ![c] = "leaving"]
  /\ joined' = [joined EXCEPT ![c] = FALSE]
  /\ UNCHANGED <<sc, table, caller, breaker, reach, users, udpvars, beat,
                 faults, raced>>

\* The read fails: removePeer takes out what is listed at the address, whichever
\* connection that is.
RemovePeer(c) ==
  /\ at[c] = "lost"
  /\ at' = [at EXCEPT ![c] = "leaving"] /\ table' = {}
  /\ joined' = [joined EXCEPT ![c] = FALSE]
  /\ UNCHANGED <<sc, caller, breaker, reach, users, udpvars, beat,
                 faults, raced>>

\* And so does the deferred removePeer when setupConn returns.
DeferredRemovePeer(c) ==
  /\ at[c] = "leaving"
  /\ at' = [at EXCEPT ![c] = "idle"] /\ table' = {}
  /\ UNCHANGED <<sc, caller, joined, breaker, reach, users, udpvars, beat,
                 faults, raced>>
----------------------------------------------------------------------------
(* ConnectWithRetry and ConnectWithCandidates, once ConnectTo has returned. *)

\* Within two seconds the connection was ready.
RetryDone ==
  /\ retry.at = "waiting" /\ TcpReady
  /\ retry' = [retry EXCEPT !.at = "done"]
  /\ UNCHANGED <<sc, tcp, reach, typed, bundle, udpvars, beat, faults, raced>>

\* It was not: give up, or back off and try again.
RetryTimeout ==
  /\ retry.at = "waiting" /\ ~TcpReady
  /\ retry' = GiveUpOrSleep
  /\ UNCHANGED <<sc, tcp, reach, typed, bundle, udpvars, beat, faults, raced>>

\* ConnectPeerPublicAddr: a udpConn and its goroutine, if there is none yet.
Punch ==
  /\ udp' = IF udp = "none" THEN "live" ELSE udp
  /\ ureader' = IF udp = "none" THEN "dialed" ELSE ureader

\* A stage of ConnectWithCandidates has worked.
StageDone ==
  /\ bundle \in {"waitTCP", "waitUDP", "waitPunch"} /\ PeerReady
  /\ bundle' = "done"
  /\ UNCHANGED <<sc, tcp, reach, typed, retry, udpvars, beat, faults, raced>>

\* Mutant: the stages end with the direct ones.
EndWithDirect ==
  /\ bundle \in {"waitTCP", "waitUDP", "waitPunch"} /\ ~PeerReady
  /\ bundle' = "failed"
  /\ UNCHANGED <<sc, tcp, reach, typed, retry, udpvars, beat, faults, raced>>

\* It has not, in its time: the next stage, the UDP ones only in internet mode.
StageTimeout ==
  /\ bundle \in {"waitTCP", "waitUDP", "waitPunch"} /\ ~PeerReady
  /\ IF bundle = "waitPunch" \/ ~sc.internet
       THEN bundle' = "failed" /\ UNCHANGED <<udp, ureader>>
       ELSE /\ bundle' = IF bundle = "waitTCP" THEN "waitUDP" ELSE "waitPunch"
            /\ Punch
  /\ UNCHANGED <<sc, tcp, reach, typed, retry, ujoined, utable, refused, beat,
                 faults, raced>>
----------------------------------------------------------------------------
(* Internet mode: one udpConn for the peer, made by whoever is first.       *)

\* readLoop: the peer's first datagram comes before a punch of ours.
Datagram ==
  /\ sc.internet /\ sc.bundle /\ udp = "none"
  /\ Punch
  /\ UNCHANGED <<sc, tcp, reach, users, ujoined, utable, refused, beat, faults,
                 raced>>

\* setupConn of the udpConn lists it.
UdpRegister ==
  /\ ureader = "dialed" /\ ureader' = "open" /\ utable' = TRUE
  /\ UNCHANGED <<sc, tcp, reach, users, udp, ujoined, refused, beat, faults,
                 raced>>

\* One of the peer's hellos, the first: the session key.
UdpHello ==
  /\ ureader = "open" /\ ~ujoined /\ ujoined' = TRUE
  /\ UNCHANGED <<sc, tcp, reach, users, udp, ureader, utable, refused, beat,
                 faults, raced>>

\* A hello that does not match its JID closes the udpConn for good: udpPeers
\* keeps it, so no goroutine is ever started for the address again.
UdpRefuse ==
  /\ ureader = "open" /\ Fault
  /\ udp' = "closed" /\ ureader' = "gone" /\ ujoined' = FALSE /\ utable' = FALSE
  /\ refused' = TRUE
  /\ UNCHANGED <<sc, tcp, reach, users, beat, raced>>
----------------------------------------------------------------------------
(* The heartbeat.                                                           *)

\* A MsgHeartbeat of the peer, on a connection whose hello was handled.
Beat ==
  /\ (\E c \in Dial : at[c] = "open" /\ joined[c]) \/ ujoined
  /\ beat # "fresh" /\ beat' = "fresh"
  /\ UNCHANGED <<sc, tcp, reach, users, udpvars, faults, raced>>

\* 60 seconds without one.
Silence ==
  /\ beat = "fresh" /\ beat' = "stale"
  /\ UNCHANGED <<sc, tcp, reach, users, udpvars, faults, raced>>

\* StartHeartbeat's tick forgets a stale beat; the connection stays listed.
HeartbeatTick ==
  /\ beat = "stale" /\ beat' = "none"
  /\ UNCHANGED <<sc, tcp, reach, users, udpvars, faults, raced>>
----------------------------------------------------------------------------
\* The peer's address cannot be reached for a while.
Outage ==
  /\ reach /\ Fault /\ reach' = FALSE
  /\ UNCHANGED <<sc, tcp, users, udpvars, beat, raced>>

Recover ==
  /\ ~reach /\ sc.reach /\ reach' = TRUE
  /\ UNCHANGED <<sc, tcp, users, udpvars, beat, faults, raced>>

Step(c) == \/ LookUp(c) \/ Skip(c) \/ DialFails(c) \/ DialSucceeds(c)
           \/ Register(c) \/ Hello(c) \/ RemovePeer(c) \/ DeferredRemovePeer(c)

Next ==
  \/ \E c \in Dial : \/ Announce(c) \/ TypeConnect(c) \/ Attempt(c) \/ TryTCP(c)
                     \/ Step(c) \/ Lose(c)
  \/ CoolDown \/ Outage \/ Recover
  \/ RetryDone \/ RetryTimeout \/ StageDone \/ StageTimeout
  \/ Datagram \/ UdpRegister \/ UdpHello \/ UdpRefuse
  \/ Beat \/ Silence \/ HeartbeatTick

Spec == Init /\ [][Next]_vars

(* Goroutines go on, the peer keeps announcing itself and sending hellos,   *)
(* and is reachable again from time to time; timers run out.                *)
FairSpec ==
  /\ Spec
  /\ \A c \in Dial : WF_vars(Step(c))
  /\ WF_vars(\E c \in Dial : Announce(c))
  /\ WF_vars(\E c \in Dial : Attempt(c)) /\ WF_vars(\E c \in Dial : TryTCP(c))
  /\ WF_vars(CoolDown) /\ WF_vars(Recover)
  /\ WF_vars(RetryDone \/ RetryTimeout) /\ WF_vars(StageDone \/ StageTimeout)
  /\ WF_vars(UdpRegister) /\ WF_vars(UdpHello)
  /\ WF_vars(HeartbeatTick)
----------------------------------------------------------------------------
(* Type correctness; the table has one place for the address.               *)
TypeOK ==
  /\ sc \in Scenarios
  /\ table \subseteq Dial /\ \A c, d \in table : c = d
  /\ at \in [Dial -> {"idle", "called", "looked", "dialing", "dialed", "open",
                      "lost", "leaving"}]
  /\ caller \in [Dial -> {"none", "retry", "bundle"}]
  /\ joined \in [Dial -> BOOLEAN]
  /\ failures \in 0..Threshold /\ blocked \in {"no", "hot", "cool"}
  /\ retry \in [at : {"off", "calling", "waiting", "sleeping", "done",
                      "gaveup"},
                attempt : 0..MaxAttempts]
  /\ bundle \in {"off", "dialing", "waitTCP", "waitUDP", "waitPunch", "done",
                 "failed"}
  /\ udp \in {"none", "live", "closed"}
  /\ ureader \in {"none", "dialed", "open", "gone"}
  /\ ujoined \in BOOLEAN /\ utable \in BOOLEAN /\ reach \in BOOLEAN
  /\ typed \in BOOLEAN /\ raced \in BOOLEAN /\ refused \in BOOLEAN
  /\ beat \in {"none", "fresh", "stale"}
  /\ faults \in 0..sc.faults

(* node.go:464-493, 1074-1085: an entry of the table is never of a          *)
(* connection whose goroutine is past the point where it takes it out, so   *)
(* no dead connection stays listed and keeps the address from being dialled.*)
EntryWillGo == \A c \in table : at[c] \in {"open", "lost"}

(* node.go:229-257: an open connection is listed, so that it is sent to and *)
(* no second one is made, unless two dials of the address overlapped, or a  *)
(* dial the end of the connection before.                                   *)
OpenIsListed == ~raced => \A c \in Dial : at[c] = "open" => table = {c}

(* circuit.go:36-70, discovery.go:165-203: discovery brings back a peer that*)
(* can be reached: after the last fault, whatever dials overlapped and      *)
(* however often the breaker opened, a ready connection is listed for good. *)
EventuallyConnected == sc.discovery => <>[]TcpReady

(* internet.go:181-270: a bundle finds a way: with internet mode on, the    *)
(* peer is ready sooner or later, be its TCP address reachable or not,      *)
(* unless its hello is refused on the UDP address.                          *)
BundleFindsAWay == (sc.bundle /\ sc.internet) => <>(PeerReady \/ refused)
============================================================================
