------------------------- MODULE ConnectionsProofs -------------------------
(***************************************************************************)
(* Proofs about Connections: its types, that no entry outlives the         *)
(* goroutine that takes it out, and that an open connection is listed      *)
(* unless dials overlapped, for every number of dials and every setting.   *)
(***************************************************************************)
EXTENDS Connections, TLAPS

Where == {"idle", "called", "looked", "dialing", "dialed", "open", "lost",
          "leaving"}

\* The goroutine of c has looked up the address and is not over.
Active(c) == UnderWay(c) \/ at[c] \in {"open", "lost"}

(* Without a race only one goroutine is active, and the table is its: empty *)
(* before it lists its connection and after it has taken it out.            *)
OneAtATime ==
  ~raced =>
    /\ \A c, d \in Dial : Active(c) /\ Active(d) => c = d
    /\ \A c \in Dial : at[c] \in {"open", "lost"} => table = {c}
    /\ \A c \in Dial : UnderWay(c) => table = {}

\* The part of the state the invariant is about.
TableType ==
  /\ at \in [Dial -> Where]
  /\ table \subseteq Dial /\ \A c, d \in table : c = d
  /\ raced \in BOOLEAN

Inv == TableType /\ EntryWillGo /\ OneAtATime

(* The initial state satisfies the invariant.                               *)
LEMMA InitInv == Init => Inv
BY DEF Init, Inv, TableType, Where, EntryWillGo, OneAtATime, Active, UnderWay

(* A step that leaves the table, the goroutines and the ghost alone.        *)
LEMMA FrameStep ==
  ASSUME Inv, UNCHANGED <<table, at, raced>>
  PROVE  Inv'
BY DEF Inv, TableType, EntryWillGo, OneAtATime, Active, UnderWay

(* A step of one goroutine that touches neither the table nor the ghost and *)
(* stays on its side: active and before listing, or not active.             *)
LEMMA MoveStep ==
  ASSUME Inv, NEW c \in Dial, NEW w \in Where,
         at' = [at EXCEPT ![c] = w], UNCHANGED <<table, raced>>,
         \/ w \in {"idle", "called"} /\ ~Active(c)
         \/ w = "idle" /\ UnderWay(c)
         \/ w \in {"dialing", "dialed"} /\ UnderWay(c)
         \/ w = "lost" /\ at[c] = "open"
  PROVE  Inv'
<1>1. TableType'
  BY DEF Inv, TableType
<1>2. \A d \in Dial : at'[d] = IF d = c THEN w ELSE at[d]
  BY DEF Inv, TableType
<1>3. EntryWillGo'
  <2> SUFFICES ASSUME NEW d \in table PROVE at'[d] \in {"open", "lost"}
    BY DEF EntryWillGo
  <2>1. d \in Dial /\ at[d] \in {"open", "lost"}
    BY DEF Inv, TableType, EntryWillGo
  <2> QED
    BY <2>1, <1>2 DEF Active, UnderWay
<1>4. OneAtATime'
  BY <1>2 DEF Inv, OneAtATime, Active, UnderWay, Where
<1> QED
  BY <1>1, <1>3, <1>4 DEF Inv

(* Every step preserves the invariant.                                      *)
LEMMA InvStep == Inv /\ [Next]_vars => Inv'
<1> SUFFICES ASSUME Inv, [Next]_vars PROVE Inv'
  OBVIOUS
<1>t. TableType
  BY DEF Inv
<1>1. ASSUME NEW c \in Dial, Announce(c) \/ TypeConnect(c) \/ Attempt(c) \/ TryTCP(c)
      PROVE  Inv'
  <2>1. /\ at[c] = "idle" /\ at' = [at EXCEPT ![c] = "called"]
        /\ UNCHANGED <<table, raced>>
    BY <1>1 DEF Announce, TypeConnect, Attempt, TryTCP, Call
  <2>2. ~Active(c) /\ "called" \in Where
    BY <2>1 DEF Active, UnderWay, Where
  <2> QED
    BY <2>1, <2>2, MoveStep
<1>2. ASSUME NEW c \in Dial, LookUp(c) PROVE Inv'
  <2>0. /\ at[c] = "called" /\ UNCHANGED table
        /\ raced' = (raced \/ \E d \in Dial \ {c} : UnderWay(d))
    BY <1>2 DEF LookUp
  <2>a. ~Active(c) /\ {"idle", "looked"} \subseteq Where
    BY <2>0 DEF Active, UnderWay, Where
  <2>1. CASE table # {} /\ at' = [at EXCEPT ![c] = "idle"]
    <3>1. \A d \in Dial : at'[d] = IF d = c THEN "idle" ELSE at[d]
      BY <2>1, <1>t DEF TableType
    <3>2. TableType'
      BY <2>0, <2>1, <2>a, <1>t DEF TableType
    <3>3. EntryWillGo'
      BY <3>1, <2>0, <1>t DEF Inv, EntryWillGo, TableType
    <3>4. OneAtATime'
      BY <3>1, <2>0 DEF Inv, OneAtATime, Active, UnderWay
    <3> QED
      BY <3>2, <3>3, <3>4 DEF Inv
  <2>2. CASE table = {} /\ at' = [at EXCEPT ![c] = "looked"]
    <3>1. \A d \in Dial : at'[d] = IF d = c THEN "looked" ELSE at[d]
      BY <2>2, <1>t DEF TableType
    <3>2. TableType'
      BY <2>0, <2>2, <2>a, <1>t DEF TableType
    <3>3. EntryWillGo'
      BY <2>0, <2>2 DEF EntryWillGo
    <3>4. OneAtATime'
      <4> SUFFICES ASSUME ~raced' PROVE OneAtATime'
        BY DEF OneAtATime
      <4>1. ~raced /\ \A d \in Dial \ {c} : ~UnderWay(d)
        BY <2>0
      <4>2. \A d \in Dial \ {c} : at[d] \notin {"open", "lost"}
        BY <4>1, <2>2 DEF Inv, OneAtATime
      <4>3. \A d \in Dial \ {c} : ~Active(d)'
        BY <4>1, <4>2, <3>1 DEF Active, UnderWay
      <4> QED
        BY <4>3, <3>1, <2>0, <2>2 DEF OneAtATime, Active, UnderWay
    <3> QED
      BY <3>2, <3>3, <3>4 DEF Inv
  <2> QED
    BY <2>1, <2>2, <1>2 DEF LookUp
<1>3. ASSUME NEW c \in Dial, Skip(c) \/ DialFails(c) \/ DialSucceeds(c)
      PROVE  Inv'
  <2>1. PICK w \in {"idle", "dialing", "dialed"} : at' = [at EXCEPT ![c] = w]
    BY <1>3 DEF Skip, DialFails, DialSucceeds
  <2>2. UnderWay(c) /\ w \in Where /\ UNCHANGED <<table, raced>>
    BY <1>3 DEF Skip, DialFails, DialSucceeds, UnderWay, Where
  <2> QED
    BY <2>1, <2>2, MoveStep
<1>4. ASSUME NEW c \in Dial, Register(c) PROVE Inv'
  <2>0. /\ at[c] = "dialed" /\ at' = [at EXCEPT ![c] = "open"] /\ table' = {c}
        /\ raced' = raced
    BY <1>4 DEF Register
  <2>1. \A d \in Dial : at'[d] = IF d = c THEN "open" ELSE at[d]
    BY <2>0, <1>t DEF TableType
  <2>2. TableType'
    BY <2>0, <1>t DEF TableType, Where
  <2>3. EntryWillGo'
    BY <2>0, <2>1 DEF EntryWillGo
  <2>4. OneAtATime'
    BY <2>0, <2>1 DEF Inv, OneAtATime, Active, UnderWay
  <2> QED
    BY <2>2, <2>3, <2>4 DEF Inv
<1>5. ASSUME NEW c \in Dial, Lose(c) PROVE Inv'
  <2>1. /\ at[c] = "open" /\ at' = [at EXCEPT ![c] = "lost"] /\ "lost" \in Where
        /\ UNCHANGED <<table, raced>>
    BY <1>5 DEF Lose, Where
  <2> QED
    BY <2>1, MoveStep
<1>6. ASSUME NEW c \in Dial, RemovePeer(c) \/ DeferredRemovePeer(c) PROVE Inv'
  <2>0. PICK w \in {"leaving", "idle"} :
          /\ at' = [at EXCEPT ![c] = w] /\ table' = {} /\ raced' = raced
          /\ at[c] \in {"lost", "leaving"}
    BY <1>6 DEF RemovePeer, DeferredRemovePeer
  <2>1. \A d \in Dial : at'[d] = IF d = c THEN w ELSE at[d]
    BY <2>0, <1>t DEF TableType
  <2>2. TableType' /\ EntryWillGo'
    BY <2>0, <1>t DEF TableType, Where, EntryWillGo
  <2>3. OneAtATime'
    BY <2>0, <2>1 DEF Inv, OneAtATime, Active, UnderWay
  <2> QED
    BY <2>2, <2>3 DEF Inv
<1>7. ASSUME NEW c \in Dial, Hello(c) PROVE Inv'
  BY <1>7, FrameStep DEF Hello
<1>8. CASE CoolDown \/ Outage \/ Recover \/ UNCHANGED vars
  BY <1>8, FrameStep DEF CoolDown, Outage, Recover, vars, tcp
<1>9. CASE RetryDone \/ RetryTimeout \/ StageDone \/ StageTimeout
  BY <1>9, FrameStep DEF RetryDone, RetryTimeout, StageDone, StageTimeout, tcp
<1>10. CASE Datagram \/ UdpRegister \/ UdpHello \/ UdpRefuse
  BY <1>10, FrameStep DEF Datagram, UdpRegister, UdpHello, UdpRefuse, tcp
<1>11. CASE Beat \/ Silence \/ HeartbeatTick
  BY <1>11, FrameStep DEF Beat, Silence, HeartbeatTick, tcp
<1> QED
  BY <1>1, <1>2, <1>3, <1>4, <1>5, <1>6, <1>7, <1>8, <1>9, <1>10, <1>11
     DEF Next, Step

----------------------------------------------------------------------------
\* ConnectWithRetry only begins an attempt that is left to it.
AttemptLeft == retry.at \in {"off", "sleeping"} => retry.attempt < MaxAttempts

(* What a return of ConnectTo leaves behind is of the declared type.        *)
LEMMA ReturnType ==
  ASSUME TypeOK, AttemptLeft, NEW c \in Dial, NEW ok \in BOOLEAN, Return(c, ok)
  PROVE  /\ caller' \in [Dial -> {"none", "retry", "bundle"}]
         /\ retry' \in [at : {"off", "calling", "waiting", "sleeping", "done",
                              "gaveup"}, attempt : 0..MaxAttempts]
         /\ bundle' \in {"off", "dialing", "waitTCP", "waitUDP", "waitPunch",
                         "done", "failed"}
         /\ typed' \in BOOLEAN /\ AttemptLeft'
<1> USE ConnectionsAssumption
<1>1. /\ retry \in [at : {"off", "calling", "waiting", "sleeping", "done",
                         "gaveup"}, attempt : 0..MaxAttempts]
      /\ retry.attempt \in Nat
  BY DEF TypeOK
<1>2. /\ GiveUpOrSleep \in [at : {"off", "calling", "waiting", "sleeping",
                                  "done", "gaveup"}, attempt : 0..MaxAttempts]
      /\ GiveUpOrSleep.at = "sleeping" => GiveUpOrSleep.attempt < MaxAttempts
      /\ GiveUpOrSleep.at # "off"
  BY <1>1 DEF GiveUpOrSleep
<1>3. retry' \in {retry, [retry EXCEPT !.at = "waiting"], GiveUpOrSleep}
  BY DEF Return
<1>4. /\ retry' \in [at : {"off", "calling", "waiting", "sleeping", "done",
                          "gaveup"}, attempt : 0..MaxAttempts]
      /\ AttemptLeft'
  BY <1>1, <1>2, <1>3 DEF AttemptLeft
<1>5. /\ caller' \in [Dial -> {"none", "retry", "bundle"}]
      /\ bundle' \in {"off", "dialing", "waitTCP", "waitUDP", "waitPunch",
                      "done", "failed"}
      /\ typed' \in BOOLEAN
  BY DEF Return, TypeOK
<1> QED
  BY <1>4, <1>5

(* Type correctness is preserved.                                           *)
LEMMA TypeStep ==
  ASSUME TypeOK, AttemptLeft, [Next]_vars
  PROVE  TypeOK' /\ AttemptLeft'
<1> USE ConnectionsAssumption
<1>a. sc.faults \in Nat
  BY DEF TypeOK, Scenario
<1>1. ASSUME NEW c \in Dial, Announce(c) \/ TypeConnect(c) \/ TryTCP(c)
      PROVE  TypeOK' /\ AttemptLeft'
  <2>1. CASE Announce(c)
    BY <2>1 DEF Announce, Call, TypeOK, AttemptLeft, breaker, udpvars, users
  <2>2. CASE TypeConnect(c)
    BY <2>2 DEF TypeConnect, Call, TypeOK, AttemptLeft, breaker, udpvars
  <2>3. CASE TryTCP(c)
    BY <2>3 DEF TryTCP, Call, TypeOK, AttemptLeft, breaker, udpvars
  <2> QED
    BY <1>1, <2>1, <2>2, <2>3
<1>2. ASSUME NEW c \in Dial, Attempt(c) PROVE TypeOK' /\ AttemptLeft'
  <2>1. retry.attempt \in Nat /\ retry.attempt < MaxAttempts
    BY <1>2 DEF Attempt, AttemptLeft, TypeOK
  <2>2. /\ retry' \in [at : {"off", "calling", "waiting", "sleeping", "done",
                            "gaveup"}, attempt : 0..MaxAttempts]
        /\ retry'.at = "calling"
    BY <1>2, <2>1 DEF Attempt
  <2> QED
    BY <1>2, <2>2 DEF Attempt, Call, TypeOK, AttemptLeft, breaker, udpvars
<1>3. ASSUME NEW c \in Dial, LookUp(c) \/ Skip(c) \/ DialFails(c) \/ DialSucceeds(c)
      PROVE  TypeOK' /\ AttemptLeft'
  <2>1. /\ caller' \in [Dial -> {"none", "retry", "bundle"}]
        /\ retry' \in [at : {"off", "calling", "waiting", "sleeping", "done",
                             "gaveup"}, attempt : 0..MaxAttempts]
        /\ bundle' \in {"off", "dialing", "waitTCP", "waitUDP", "waitPunch",
                        "done", "failed"}
        /\ typed' \in BOOLEAN /\ AttemptLeft'
    <3>1. CASE Return(c, TRUE)
      BY <3>1, ReturnType
    <3>2. CASE Return(c, FALSE)
      BY <3>2, ReturnType
    <3>3. CASE UNCHANGED <<caller, users>>
      BY <3>3 DEF users, TypeOK, AttemptLeft
    <3> QED
      BY <1>3, <3>1, <3>2, <3>3 DEF LookUp, Skip, DialFails, DialSucceeds
  <2>2. at' \in [Dial -> {"idle", "called", "looked", "dialing", "dialed", "open",
                         "lost", "leaving"}]
    <3>1. PICK w \in Where : at' = [at EXCEPT ![c] = w]
      BY <1>3 DEF LookUp, Skip, DialFails, DialSucceeds, Where
    <3> QED
      BY <3>1 DEF TypeOK, Where
  <2>3. failures' \in 0..Threshold /\ blocked' \in {"no", "hot", "cool"}
    <3>1. CASE LookUp(c) \/ DialSucceeds(c)
      BY <3>1 DEF LookUp, DialSucceeds, TypeOK, breaker
    <3>2. CASE Skip(c)
      <4>1. failures \in 0..Threshold /\ blocked \in {"no", "hot", "cool"}
        BY DEF TypeOK
      <4>2. \/ failures' = failures /\ blocked' = blocked
            \/ failures' \in {0, failures} /\ blocked' = "no"
        BY <3>2 DEF Skip, breaker
      <4>3. 0 \in 0..Threshold
        BY ConnectionsAssumption
      <4> QED
        BY <4>1, <4>2, <4>3
    <3>3. CASE DialFails(c)
      BY <3>3 DEF DialFails, TypeOK
    <3> QED
      BY <1>3, <3>1, <3>2, <3>3
  <2>4. raced' \in BOOLEAN
    BY <1>3 DEF LookUp, Skip, DialFails, DialSucceeds, TypeOK
  <2>5. UNCHANGED <<sc, table, joined, reach, udp, ureader, ujoined, utable,
                    refused, beat, faults>>
    BY <1>3 DEF LookUp, Skip, DialFails, DialSucceeds, udpvars
  <2> QED
    BY <2>1, <2>2, <2>3, <2>4, <2>5 DEF TypeOK
<1>4. ASSUME NEW c \in Dial,
             \/ Register(c) \/ Hello(c) \/ RemovePeer(c) \/ DeferredRemovePeer(c)
      PROVE  TypeOK' /\ AttemptLeft'
  <2>1. CASE Register(c)
    BY <2>1 DEF Register, TypeOK, AttemptLeft, breaker,
           udpvars, users
  <2>2. CASE Hello(c)
    BY <2>2 DEF Hello, TypeOK, AttemptLeft, breaker,
           udpvars, users
  <2>3. CASE RemovePeer(c)
    BY <2>3 DEF RemovePeer, TypeOK, AttemptLeft, breaker,
           udpvars, users
  <2>4. CASE DeferredRemovePeer(c)
    BY <2>4 DEF DeferredRemovePeer, TypeOK, AttemptLeft, breaker,
           udpvars, users
  <2> QED
    BY <1>4, <2>1, <2>2, <2>3, <2>4
<1>5. ASSUME NEW c \in Dial, Lose(c) PROVE TypeOK' /\ AttemptLeft'
  <2>1. faults' \in 0..sc'.faults
    BY <1>5, <1>a DEF Lose, Fault, TypeOK
  <2>2. at' \in [Dial -> {"idle", "called", "looked", "dialing", "dialed", "open",
                         "lost", "leaving"}]
    BY <1>5 DEF Lose, TypeOK
  <2> QED
    BY <1>5, <2>1, <2>2 DEF Lose, TypeOK, AttemptLeft, breaker, udpvars, users
<1>6. CASE CoolDown \/ Recover \/ Beat \/ Silence \/ HeartbeatTick
  <2>1. CASE CoolDown
    BY <2>1 DEF CoolDown, TypeOK, AttemptLeft, tcp, breaker,
           udpvars, users
  <2>2. CASE Recover
    BY <2>2 DEF Recover, TypeOK, AttemptLeft, tcp, breaker,
           udpvars, users
  <2>3. CASE Beat
    BY <2>3 DEF Beat, TypeOK, AttemptLeft, tcp, breaker,
           udpvars, users
  <2>4. CASE Silence
    BY <2>4 DEF Silence, TypeOK, AttemptLeft, tcp, breaker,
           udpvars, users
  <2>5. CASE HeartbeatTick
    BY <2>5 DEF HeartbeatTick, TypeOK, AttemptLeft, tcp, breaker,
           udpvars, users
  <2> QED
    BY <1>6, <2>1, <2>2, <2>3, <2>4, <2>5
<1>7. CASE Outage \/ UdpRefuse
  <2>1. faults' \in 0..sc'.faults
    BY <1>7, <1>a DEF Outage, UdpRefuse, Fault, TypeOK
  <2>2. CASE Outage
    <3>1. /\ reach' \in BOOLEAN
          /\ UNCHANGED <<sc, table, at, caller, joined, failures, blocked, typed,
                         retry, bundle, udp, ureader, ujoined, utable, beat,
                         raced, refused>>
      BY <2>2 DEF Outage, tcp, breaker, udpvars, users
    <3> QED
      BY <2>1, <3>1 DEF TypeOK, AttemptLeft
  <2>3. CASE UdpRefuse
    <3>1. /\ udp' = "closed" /\ ureader' = "gone" /\ ujoined' \in BOOLEAN
          /\ utable' \in BOOLEAN /\ refused' \in BOOLEAN
          /\ UNCHANGED <<sc, table, at, caller, joined, failures, blocked, reach,
                         typed, retry, bundle, beat, raced>>
      BY <2>3 DEF UdpRefuse, tcp, breaker, users
    <3> QED
      BY <2>1, <3>1 DEF TypeOK, AttemptLeft
  <2> QED
    BY <1>7, <2>2, <2>3
<1>8. CASE RetryDone \/ RetryTimeout
  <2>1. retry' \in {[retry EXCEPT !.at = "done"], GiveUpOrSleep}
    BY <1>8 DEF RetryDone, RetryTimeout
  <2>2. /\ retry' \in [at : {"off", "calling", "waiting", "sleeping", "done",
                            "gaveup"}, attempt : 0..MaxAttempts]
        /\ AttemptLeft'
    BY <2>1 DEF GiveUpOrSleep, TypeOK, AttemptLeft
  <2> QED
    BY <1>8, <2>2 DEF RetryDone, RetryTimeout, TypeOK, tcp, breaker, udpvars
<1>9. CASE StageDone \/ StageTimeout \/ Datagram
  <2>1. CASE StageDone
    BY <2>1 DEF StageDone, Punch, TypeOK, AttemptLeft, tcp, breaker,
           udpvars, users
  <2>2. CASE StageTimeout
    BY <2>2 DEF StageTimeout, Punch, TypeOK, AttemptLeft, tcp, breaker,
           udpvars, users
  <2>3. CASE Datagram
    BY <2>3 DEF Datagram, Punch, TypeOK, AttemptLeft, tcp, breaker,
           udpvars, users
  <2> QED
    BY <1>9, <2>1, <2>2, <2>3
<1>10. CASE UdpRegister \/ UdpHello \/ UNCHANGED vars
  <2>1. CASE UdpRegister
    BY <2>1 DEF UdpRegister, TypeOK, AttemptLeft, tcp, breaker,
           udpvars, users
  <2>2. CASE UdpHello
    BY <2>2 DEF UdpHello, TypeOK, AttemptLeft, tcp, breaker,
           udpvars, users
  <2>3. CASE UNCHANGED vars
    BY <2>3 DEF vars, TypeOK, AttemptLeft
  <2> QED
    BY <1>10, <2>1, <2>2, <2>3
<1> QED
  BY <1>1, <1>2, <1>3, <1>4, <1>5, <1>6, <1>7, <1>8, <1>9, <1>10 DEF Next, Step

(* Every reachable state is of the declared type, for every number of dials *)
(* and every setting; the address has one place in node.go's table.         *)
THEOREM TypeCorrect == Spec => []TypeOK
<1>1. Init => TypeOK /\ AttemptLeft
  <2> SUFFICES ASSUME Init PROVE TypeOK /\ AttemptLeft
    OBVIOUS
  <2>1. sc \in Scenario /\ sc.faults \in Nat /\ reach \in BOOLEAN
    BY ConnectionsAssumption DEF Init, Scenario
  <2>2. /\ retry \in [at : {"off", "calling", "waiting", "sleeping", "done",
                            "gaveup"}, attempt : 0..MaxAttempts]
        /\ AttemptLeft
    BY ConnectionsAssumption DEF Init, Off, AttemptLeft
  <2>3. faults \in 0..sc.faults /\ failures \in 0..Threshold
    BY <2>1, ConnectionsAssumption DEF Init
  <2>4. /\ sc \in Scenarios /\ table \subseteq Dial
        /\ \A c, d \in table : c = d
        /\ at \in [Dial -> {"idle", "called", "looked", "dialing", "dialed",
                           "open", "lost", "leaving"}]
        /\ caller \in [Dial -> {"none", "retry", "bundle"}]
        /\ joined \in [Dial -> BOOLEAN] /\ blocked \in {"no", "hot", "cool"}
    BY DEF Init
  <2>5. /\ bundle \in {"off", "dialing", "waitTCP", "waitUDP", "waitPunch",
                       "done", "failed"}
        /\ udp \in {"none", "live", "closed"}
        /\ ureader \in {"none", "dialed", "open", "gone"}
        /\ ujoined \in BOOLEAN /\ utable \in BOOLEAN /\ typed \in BOOLEAN
        /\ raced \in BOOLEAN /\ refused \in BOOLEAN
        /\ beat \in {"none", "fresh", "stale"}
    BY DEF Init
  <2> QED
    BY <2>1, <2>2, <2>3, <2>4, <2>5 DEF TypeOK
<1>2. TypeOK /\ AttemptLeft /\ [Next]_vars => TypeOK' /\ AttemptLeft'
  BY TypeStep
<1> QED
  BY <1>1, <1>2, PTL DEF Spec

(* The invariant of node.go's connection table holds in every reachable     *)
(* state.                                                                   *)
THEOREM Invariance == Spec => []Inv
BY InitInv, InvStep, PTL DEF Spec

(* node.go:464-493: for every number of dials, no dead connection stays     *)
(* listed.                                                                  *)
THEOREM NoDeadEntry == Spec => []EntryWillGo
<1>1. Inv => EntryWillGo
  BY DEF Inv
<1> QED
  BY <1>1, Invariance, PTL

(* node.go:229-257: for every number of dials, an open connection is the    *)
(* one listed, unless dials of the address overlapped.                      *)
THEOREM NoOrphan == Spec => []OpenIsListed
<1>1. Inv => OpenIsListed
  BY DEF Inv, OneAtATime, OpenIsListed
<1> QED
  BY <1>1, Invariance, PTL
============================================================================
