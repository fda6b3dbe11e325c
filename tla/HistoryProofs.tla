--------------------------- MODULE HistoryProofs ---------------------------
(***************************************************************************)
(* Proofs about History: its types, and that the window is the end of the  *)
(* conversation (NoHoles), loses only what is old (RecentIsKept) and is on *)
(* disk once its save is done (QuietIsStored).  The invariant that carries *)
(* them says the same of the file, which is what the next start reads.     *)
(***************************************************************************)
EXTENDS History, FiniteSetTheorems, TLAPS

\* The file can be loaded.
Readable == disk.text \in {"missing", "whole"}

\* A message the window holds, or that a stop would count as lost.
Covered(m) == phase # "down" /\ (astray \/ m \in mem)

\* NoHoles and RecentIsKept, said of the file.
FileNoHoles ==
  Readable =>
    \A m \in disk.msgs : \A k \in Newer(added, m) :
      k \in disk.msgs \/ Expired(k) \/ k \in gone \/ Covered(k)

FileRecentIsKept ==
  Readable =>
    \A m \in added : \/ m \in disk.msgs \cup gone \/ Expired(m) \/ Covered(m)
                     \/ ~Spared(Cardinality(Newer(added, m)) + 1)

\* Only a running program has a window and a writer.
DownIsIdle == phase = "down" => mem = {} /\ saving = "no" /\ restore = "no"

Inv ==
  /\ TypeOK /\ IsFiniteSet(added) /\ DownIsIdle
  /\ NoHoles /\ RecentIsKept /\ QuietIsStored
  /\ FileNoHoles /\ FileRecentIsKept
----------------------------------------------------------------------------
(* Newest(S, n) is a part of S that is closed upwards.                      *)
LEMMA NewestIsEnd ==
  ASSUME NEW S, IsFiniteSet(S), S \subseteq Message, NEW n \in Nat
  PROVE  /\ Newest(S, n) \subseteq S
         /\ \A m \in Newest(S, n) : \A k \in Newer(S, m) : k \in Newest(S, n)
<1>1. Newest(S, n) \subseteq S
  BY DEF Newest
<1>2. ASSUME NEW m \in Newest(S, n), NEW k \in Newer(S, m)
      PROVE  k \in Newest(S, n)
  <2>1. Newer(S, k) \subseteq Newer(S, m)
    BY <1>1, <1>2 DEF Newer, Message
  <2>2. IsFiniteSet(Newer(S, m))
    BY FS_Subset DEF Newer
  <2>3. /\ IsFiniteSet(Newer(S, k))
        /\ Cardinality(Newer(S, k)) <= Cardinality(Newer(S, m))
    BY <2>1, <2>2, FS_Subset
  <2>4. Cardinality(Newer(S, m)) \in Nat /\ Cardinality(Newer(S, k)) \in Nat
    BY <2>2, <2>3, FS_CardinalityType
  <2>5. k \in S /\ Cardinality(Newer(S, m)) < n
    BY <1>2 DEF Newer, Newest
  <2> QED
    BY <2>3, <2>4, <2>5 DEF Newest
<1> QED
  BY <1>1, <1>2

(* What Newest leaves out has n successors, in S and in every larger set.   *)
LEMMA LeftOutIsOld ==
  ASSUME NEW T, IsFiniteSet(T), T \subseteq Message,
         NEW S \in SUBSET T, NEW n \in Nat,
         NEW m \in S \ Newest(S, n)
  PROVE  /\ Cardinality(Newer(T, m)) \in Nat
         /\ Cardinality(Newer(T, m)) >= n
         /\ Cardinality(S) \in Nat /\ Cardinality(S) > n
<1>1. IsFiniteSet(S) /\ IsFiniteSet(Newer(T, m)) /\ IsFiniteSet(Newer(S, m))
  BY FS_Subset DEF Newer
<1>2. /\ Cardinality(S) \in Nat /\ Cardinality(Newer(T, m)) \in Nat
      /\ Cardinality(Newer(S, m)) \in Nat
  BY <1>1, FS_CardinalityType
<1>3. Cardinality(Newer(S, m)) >= n
  BY <1>2 DEF Newest
<1>4. Cardinality(Newer(S, m)) <= Cardinality(Newer(T, m))
  <2>1. Newer(S, m) \in SUBSET Newer(T, m)
    BY DEF Newer
  <2> QED
    BY <2>1, <1>1, FS_Subset
<1>5. Cardinality(Newer(S, m)) < Cardinality(S)
  <2>0. Newer(S, m) \in SUBSET S
    BY DEF Newer
  <2>1. m \in S /\ m \notin Newer(S, m)
    BY DEF Newer, Message
  <2>2. Cardinality(Newer(S, m)) <= Cardinality(S)
    BY <2>0, <1>1, FS_Subset
  <2>3. Cardinality(Newer(S, m)) # Cardinality(S)
    BY <2>0, <2>1, <1>1, FS_Subset
  <2> QED
    BY <2>2, <2>3, <1>2
<1> QED
  BY <1>2, <1>3, <1>4, <1>5

(* The two facts for a limit that may be 0, that is none.                   *)
LEMMA LimitIsEnd ==
  ASSUME NEW S, IsFiniteSet(S), S \subseteq Message, NEW n \in Nat
  PROVE  /\ Limit(S, n) \subseteq S
         /\ \A m \in Limit(S, n) : \A k \in Newer(S, m) : k \in Limit(S, n)
BY NewestIsEnd DEF Limit, Newer

LEMMA CutIsOld ==
  ASSUME NEW T, IsFiniteSet(T), T \subseteq Message,
         NEW S \in SUBSET T, NEW n \in Nat,
         NEW m \in S \ Limit(S, n)
  PROVE  /\ n > 0
         /\ Cardinality(Newer(T, m)) \in Nat /\ Cardinality(Newer(T, m)) >= n
         /\ Cardinality(S) \in Nat /\ Cardinality(S) > n
BY LeftOutIsOld DEF Limit

(* The last message is within every limit.                                  *)
LEMMA LastIsKept ==
  ASSUME NEW S, NEW m \in S, Newer(S, m) = {}, NEW n \in Nat
  PROVE  m \in Limit(S, n)
BY FS_EmptySet DEF Limit, Newest

(* A message past the limits stays past them when more are added.           *)
LEMMA PastStaysPast ==
  ASSUME NEW T, IsFiniteSet(T), NEW S \in SUBSET T, NEW m,
         ~Spared(Cardinality(Newer(S, m)) + 1)
  PROVE  ~Spared(Cardinality(Newer(T, m)) + 1)
<1>1. IsFiniteSet(Newer(T, m)) /\ Newer(S, m) \in SUBSET Newer(T, m)
  BY FS_Subset DEF Newer
<1>2. /\ IsFiniteSet(Newer(S, m))
      /\ Cardinality(Newer(S, m)) <= Cardinality(Newer(T, m))
  BY <1>1, FS_Subset
<1>3. Cardinality(Newer(S, m)) \in Nat /\ Cardinality(Newer(T, m)) \in Nat
  BY <1>1, <1>2, FS_CardinalityType
<1> QED
  BY <1>2, <1>3, HistoryAssumption DEF Spared

(* What a limit cuts is past it.                                            *)
LEMMA CutIsPast ==
  ASSUME NEW T, IsFiniteSet(T), T \subseteq Message,
         NEW S \in SUBSET T, NEW n \in {MaxSize, TailLimit},
         NEW m \in S \ Limit(S, n)
  PROVE  ~Spared(Cardinality(Newer(T, m)) + 1)
<1>1. n \in Nat
  BY HistoryAssumption
<1>2. /\ n > 0
      /\ Cardinality(Newer(T, m)) \in Nat /\ Cardinality(Newer(T, m)) >= n
  BY <1>1, CutIsOld
<1> QED
  BY <1>1, <1>2, HistoryAssumption DEF Spared
----------------------------------------------------------------------------
(* The initial state satisfies the invariant.                               *)
LEMMA InitInv == Init => Inv
<1> SUFFICES ASSUME Init PROVE Inv
  OBVIOUS
<1> USE DEF Init, Missing
<1>1. TypeOK
  BY DEF TypeOK
<1>2. IsFiniteSet(added)
  BY FS_EmptySet
<1> QED
  BY <1>1, <1>2
     DEF Inv, DownIsIdle, NoHoles, RecentIsKept, QuietIsStored, FileNoHoles,
         FileRecentIsKept, Newer

(* The message Add makes is new and of the declared type.                   *)
LEMMA FreshIsNew ==
  ASSUME TypeOK, count' = count + 1, added' = added \cup {Fresh}
  PROVE  /\ Fresh \in Message /\ Fresh.n \in 1..count'
         /\ Fresh \notin added
         /\ \A m \in added : m.n < Fresh.n /\ m.n \in 1..count'
         /\ added' \subseteq Message
         /\ \A m, k \in added' : m.n = k.n => m = k
<1>1. Fresh \in Message /\ Fresh.n = count + 1
  BY DEF Fresh, Message, TypeOK
<1>2. \A m \in added : m.n \in Nat /\ m.n < count + 1
  BY DEF TypeOK
<1> QED
  BY <1>1, <1>2 DEF TypeOK

(* Type correctness is preserved, and the ghost set of messages is finite.  *)
LEMMA TypeStep ==
  ASSUME TypeOK, IsFiniteSet(added), DownIsIdle, [Next]_vars
  PROVE  TypeOK' /\ IsFiniteSet(added)' /\ DownIsIdle'
<1> USE HistoryAssumption
<1>a. \A S : Limit(Unexpired(S), MaxSize) \subseteq S
  BY DEF Limit, Newest, Unexpired
<1>1. CASE Start
  <2>1. Limit(Unexpired(disk.msgs), TailLimit) \subseteq disk.msgs
    BY DEF Limit, Newest, Unexpired
  <2>2. mem' \subseteq added
    BY <1>1, <2>1 DEF Start, TypeOK
  <2> QED
    BY <1>1, <2>2 DEF Start, TypeOK, DownIsIdle
<1>2. CASE Add
  <2>1. /\ Fresh \in Message /\ Fresh.n \in 1..count'
        /\ \A m \in added : m.n < Fresh.n /\ m.n \in 1..count'
        /\ added' \subseteq Message
        /\ \A m, k \in added' : m.n = k.n => m = k
    BY <1>2, FreshIsNew DEF Add
  <2>2. mem' \subseteq mem \cup {Fresh}
    BY <1>2, <1>a DEF Add
  <2>3. mem' \subseteq added' /\ gone' \subseteq added'
    BY <1>2, <2>2 DEF Add, TypeOK
  <2>4. disk' \in [text : {"missing", "empty", "garbage", "whole"},
                   msgs : SUBSET added']
    BY <1>2 DEF Add, TypeOK
  <2>5. backup' \subseteq SUBSET added'
    BY <1>2 DEF Add, TypeOK
  <2>6. IsFiniteSet(added')
    BY <1>2, FS_AddElement DEF Add
  <2>7. /\ disk'.text # "whole" => disk'.msgs = {}
        /\ phase' = "up" /\ saving' = "open" /\ restore' \in {"no", "write"}
        /\ now' \in Nat /\ count' \in Nat /\ upsets' \in Nat /\ ttl' \in Nat
        /\ tailOnly' \in BOOLEAN /\ astray' \in BOOLEAN
    BY <1>2 DEF Add, Free, TypeOK
  <2>8. \A m \in added' : m.n \in 1..count'
    BY <1>2, <2>1 DEF Add
  <2> QED
    BY <2>1, <2>3, <2>4, <2>5, <2>6, <2>7, <2>8 DEF TypeOK, DownIsIdle
<1>3. CASE PruneExpired
  BY <1>3 DEF PruneExpired, TypeOK, DownIsIdle, Unexpired
<1>4. CASE Clear
  BY <1>4 DEF Clear, Free, Upset, TypeOK, DownIsIdle
<1>5. CASE \E d \in Ttls : SetTTL(d)
  BY <1>5 DEF SetTTL, Free, TypeOK, DownIsIdle
<1>6. CASE SaveOpen
  BY <1>6 DEF SaveOpen, Emptied, TypeOK, DownIsIdle
<1>7. CASE SaveWrite
  <2>1. disk' \in {Whole(mem), Garbage}
    BY <1>7 DEF SaveWrite, Written
  <2> QED
    BY <1>7, <2>1 DEF SaveWrite, Whole, Garbage, TypeOK, DownIsIdle
<1>8. CASE SaveFails
  BY <1>8 DEF SaveFails, Garbage, Upset, TypeOK, DownIsIdle
<1>9. CASE ExportData
  <2>1. backup' \subseteq SUBSET added
    BY <1>9 DEF ExportData, TypeOK
  <2> QED
    BY <1>9, <2>1 DEF ExportData, Upset, TypeOK, DownIsIdle
<1>10. CASE ImportData
  BY <1>10 DEF ImportData, Emptied, TypeOK, DownIsIdle
<1>11. CASE ImportWrite
  <2>1. PICK S \in backup : disk' \in {Whole(S), Garbage}
    BY <1>11 DEF ImportWrite, Written
  <2>2. S \subseteq added
    BY <2>1 DEF TypeOK
  <2> QED
    BY <1>11, <2>1, <2>2 DEF ImportWrite, Whole, Garbage, TypeOK, DownIsIdle
<1>12. CASE Stop
  <2>1. gone' \subseteq added
    BY <1>12 DEF Stop, TypeOK
  <2>2. /\ phase' = "down" /\ mem' = {} /\ tailOnly' = FALSE /\ ttl' = 0
        /\ saving' = "no" /\ restore' = "no" /\ upsets' = upsets + 1
        /\ UNCHANGED <<disk, backup, now, count, added, astray>>
    BY <1>12 DEF Stop, Upset
  <2>3. IsFiniteSet(added)' /\ DownIsIdle'
    BY <2>2 DEF DownIsIdle
  <2>4. tailOnly' \in BOOLEAN /\ astray' \in BOOLEAN
    BY <2>2 DEF TypeOK
  <2>5. /\ mem' \subseteq added' /\ phase' \in {"down", "starting", "up"}
        /\ saving' \in {"no", "open", "write"} /\ restore' \in {"no", "write"}
        /\ ttl' \in Nat /\ upsets' \in Nat
    BY <2>2 DEF TypeOK
  <2>6. TypeOK'
    BY <2>1, <2>2, <2>4, <2>5 DEF TypeOK
  <2> QED
    BY <2>3, <2>6
<1>13. CASE Tick
  BY <1>13 DEF Tick, TypeOK, DownIsIdle
<1>14. CASE UNCHANGED vars
  BY <1>14 DEF vars, TypeOK, DownIsIdle
<1> QED
  BY <1>1, <1>2, <1>3, <1>4, <1>5, <1>6, <1>7, <1>8, <1>9, <1>10, <1>11,
     <1>12, <1>13, <1>14 DEF Next

(* Time only passes.                                                        *)
LEMMA ExpiredStays ==
  ASSUME TypeOK, [Next]_vars, NEW m \in added, Expired(m)
  PROVE  Expired(m)'
<1>1. now' = now \/ now' = now + 1
  BY DEF Next, vars, Start, Add, PruneExpired, Clear, SetTTL, SaveOpen,
         SaveWrite, SaveFails, ExportData, ImportData, ImportWrite, Stop, Tick
<1>2. now \in Nat /\ m.exp \in Nat
  BY DEF TypeOK, Message
<1> QED
  BY <1>1, <1>2 DEF Expired

(* Start: the window is the unexpired end of the file.                      *)
LEMMA StartStep ==
  ASSUME Inv, Start
  PROVE  /\ NoHoles' /\ RecentIsKept' /\ QuietIsStored'
         /\ FileNoHoles' /\ FileRecentIsKept'
<1> DEFINE U == Unexpired(disk.msgs)
<1> USE HistoryAssumption
<1>1. /\ mem' = Limit(U, TailLimit) /\ UNCHANGED <<disk, added, gone, now>>
      /\ Readable /\ phase = "down"
      /\ tailOnly' = (TailLimit > 0 /\ Cardinality(U) > TailLimit)
  BY DEF Start, Readable
<1>2. /\ U \in SUBSET disk.msgs /\ disk.msgs \in SUBSET added
      /\ added \subseteq Message /\ IsFiniteSet(added)
  BY DEF Inv, TypeOK, Unexpired
<1>3. IsFiniteSet(disk.msgs) /\ IsFiniteSet(U) /\ U \subseteq Message
  BY <1>2, FS_Subset
<1>4. \A m \in disk.msgs : \A k \in Newer(added, m) :
        k \in disk.msgs \/ Expired(k) \/ k \in gone
  BY <1>1 DEF Inv, FileNoHoles, Covered
<1>5. \A m \in added : \/ m \in disk.msgs \cup gone \/ Expired(m)
                       \/ ~Spared(Cardinality(Newer(added, m)) + 1)
  BY <1>1 DEF Inv, FileRecentIsKept, Covered
<1>6. /\ Limit(U, TailLimit) \subseteq U
      /\ \A m \in Limit(U, TailLimit) : \A k \in Newer(U, m) :
           k \in Limit(U, TailLimit)
  BY <1>3, LimitIsEnd
<1>7. \A m \in disk.msgs : m \in U \/ Expired(m)
  BY DEF Unexpired
<1>8. NoHoles'
  BY <1>1, <1>2, <1>4, <1>6, <1>7 DEF NoHoles, Newer, Expired
<1>9. RecentIsKept'
  <2>1. ASSUME NEW m \in U \ Limit(U, TailLimit)
        PROVE  ~Spared(Cardinality(Newer(added, m)) + 1)
    BY <1>2, CutIsPast
  <2> QED
    BY <2>1, <1>1, <1>5, <1>7 DEF RecentIsKept, Expired
<1>10. QuietIsStored'
  <2>1. ASSUME NEW m \in U \ Limit(U, TailLimit)
        PROVE  /\ TailLimit > 0 /\ Cardinality(U) > TailLimit
               /\ Cardinality(Newer(disk.msgs, m)) >= TailLimit
    BY <1>2, <1>3, CutIsOld
  <2>2. mem' \subseteq disk'.msgs
    BY <1>1, <1>2, <1>6
  <2>3. ASSUME NEW m \in disk.msgs \ Limit(U, TailLimit)
        PROVE  \/ Expired(m)
               \/ tailOnly' /\ Cardinality(Newer(disk.msgs, m)) >= TailLimit
    BY <2>1, <1>1, <1>7
  <2>4. disk'.text \in {"missing", "whole"}
    BY <1>1 DEF Readable
  <2> QED
    BY <2>2, <2>3, <2>4, <1>1 DEF QuietIsStored, Expired
<1>11. FileNoHoles'
  BY <1>1, <1>4 DEF FileNoHoles, Expired
<1>12. FileRecentIsKept'
  BY <1>1, <1>5 DEF FileRecentIsKept, Expired
<1> QED
  BY <1>8, <1>9, <1>10, <1>11, <1>12

(* Add: the limit spares the new message and cuts only what is past it, and *)
(* what it cuts was saved before.                                           *)
LEMMA AddStep ==
  ASSUME Inv, Add
  PROVE  /\ NoHoles' /\ RecentIsKept' /\ QuietIsStored'
         /\ FileNoHoles' /\ FileRecentIsKept'
<1> DEFINE S == Unexpired(mem \cup {Fresh})
<1> USE HistoryAssumption
<1>1. /\ mem' = Limit(S, MaxSize) /\ UNCHANGED <<disk, gone, now, phase, astray>>
      /\ added' = added \cup {Fresh} /\ count' = count + 1
      /\ phase # "down" /\ saving = "no" /\ saving' = "open"
  BY DEF Add, Free
<1>2. /\ Fresh \in Message /\ Fresh \notin added /\ added' \subseteq Message
      /\ \A m \in added : m.n < Fresh.n
  BY <1>1, FreshIsNew DEF Inv
<1>3. IsFiniteSet(added') /\ IsFiniteSet(added)
  BY <1>1, FS_AddElement DEF Inv
<1>4. S \in SUBSET added'
  BY <1>1 DEF Inv, TypeOK, Unexpired
<1>5. IsFiniteSet(S) /\ S \subseteq Message
  BY <1>2, <1>3, <1>4, FS_Subset
<1>6. /\ Limit(S, MaxSize) \subseteq S
      /\ \A m \in Limit(S, MaxSize) : \A k \in Newer(S, m) :
           k \in Limit(S, MaxSize)
  BY <1>5, LimitIsEnd
<1>7. Fresh \in S
  BY DEF Inv, TypeOK, Unexpired, Expired, Fresh
<1>8. Newer(added', Fresh) = {} /\ Newer(S, Fresh) = {}
  BY <1>1, <1>2, <1>4 DEF Newer, Message
<1>9. Fresh \in mem'
  BY <1>1, <1>7, <1>8, LastIsKept
<1>10. \A m \in mem : m \in S \/ Expired(m)
  BY DEF Unexpired
<1>11. NoHoles'
  <2> SUFFICES ASSUME NEW m \in mem', NEW k \in Newer(added', m)
               PROVE  k \in mem' \/ Expired(k)' \/ k \in gone'
    BY DEF NoHoles, Newer
  <2>1. CASE m = Fresh
    BY <2>1, <1>8
  <2>2. CASE k = Fresh
    BY <2>2, <1>9
  <2>3. CASE m # Fresh /\ k # Fresh
    <3>1. m \in mem
      BY <2>3, <1>1, <1>6 DEF Unexpired
    <3>2. k \in Newer(added, m)
      BY <2>3, <1>1 DEF Newer
    <3>3. k \in mem \/ Expired(k) \/ k \in gone
      BY <3>1, <3>2, <1>1 DEF Inv, NoHoles
    <3>4. CASE k \in S
      <4>1. k \in Newer(S, m)
        BY <3>4 DEF Newer
      <4> QED
        BY <4>1, <1>1, <1>6
    <3> QED
      BY <3>3, <3>4, <1>1, <1>10 DEF Expired
  <2> QED
    BY <2>1, <2>2, <2>3
<1>12. ASSUME NEW m \in added,
              m \in mem \/ ~Spared(Cardinality(Newer(added, m)) + 1)
       PROVE  \/ m \in mem' \/ Expired(m)
              \/ ~Spared(Cardinality(Newer(added', m)) + 1)
  <2>1. CASE m \in S \ Limit(S, MaxSize)
    BY <2>1, <1>2, <1>3, <1>4, CutIsPast
  <2>2. CASE ~Spared(Cardinality(Newer(added, m)) + 1)
    BY <2>2, <1>1, <1>3, PastStaysPast
  <2> QED
    BY <2>1, <2>2, <1>12, <1>1, <1>10
<1>13. RecentIsKept'
  <2>1. ASSUME NEW m \in added, m \notin mem', m \notin gone
        PROVE  Expired(m) \/ ~Spared(Cardinality(Newer(added', m)) + 1)
    <3>1. \/ m \in mem \/ Expired(m)
          \/ ~Spared(Cardinality(Newer(added, m)) + 1)
      BY <2>1, <1>1 DEF Inv, RecentIsKept
    <3> QED
      BY <3>1, <1>12, <2>1
  <2> QED
    BY <2>1, <1>1, <1>9 DEF RecentIsKept, Expired
<1>14. QuietIsStored'
  BY <1>1 DEF QuietIsStored
<1>15. FileNoHoles'
  <2> SUFFICES ASSUME Readable, NEW m \in disk.msgs, NEW k \in Newer(added', m)
               PROVE  \/ k \in disk.msgs \/ Expired(k) \/ k \in gone
                      \/ Covered(k)'
    BY <1>1 DEF FileNoHoles, Readable, Newer, Expired
  <2>1. CASE k = Fresh
    BY <2>1, <1>1, <1>9 DEF Covered
  <2>2. CASE astray
    BY <2>2, <1>1 DEF Covered
  <2>3. CASE k # Fresh /\ ~astray
    <3>1. mem \subseteq disk.msgs
      BY <2>3, <1>1 DEF Inv, QuietIsStored
    <3>2. k \in Newer(added, m)
      BY <2>3, <1>1 DEF Newer
    <3>3. k \in disk.msgs \/ Expired(k) \/ k \in gone \/ k \in mem
      BY <3>2, <2>3 DEF Inv, FileNoHoles, Covered
    <3> QED
      BY <3>1, <3>3
  <2> QED
    BY <2>1, <2>2, <2>3
<1>16. FileRecentIsKept'
  <2> SUFFICES ASSUME Readable, NEW m \in added'
               PROVE  \/ m \in disk.msgs \cup gone \/ Expired(m) \/ Covered(m)'
                      \/ ~Spared(Cardinality(Newer(added', m)) + 1)
    BY <1>1 DEF FileRecentIsKept, Readable, Expired
  <2>1. CASE m = Fresh
    BY <2>1, <1>1, <1>9 DEF Covered
  <2>2. CASE astray
    BY <2>2, <1>1 DEF Covered
  <2>3. CASE m # Fresh /\ ~astray
    <3>1. m \in added
      BY <2>3, <1>1
    <3>2. \/ m \in disk.msgs \cup gone \/ Expired(m) \/ m \in mem
          \/ ~Spared(Cardinality(Newer(added, m)) + 1)
      BY <3>1, <2>3 DEF Inv, FileRecentIsKept, Covered
    <3> QED
      BY <3>1, <3>2, <1>1, <1>12 DEF Covered
  <2> QED
    BY <2>1, <2>2, <2>3
<1> QED
  BY <1>11, <1>13, <1>14, <1>15, <1>16

(* Steps that change neither the window nor the set of messages, nor the    *)
(* file: the clock, SetTTL, ExportData, and a step that changes nothing.    *)
LEMMA StillStep ==
  ASSUME Inv, [Next]_vars,
         UNCHANGED <<phase, mem, tailOnly, saving, disk, added, gone, astray>>
  PROVE  /\ NoHoles' /\ RecentIsKept' /\ QuietIsStored'
         /\ FileNoHoles' /\ FileRecentIsKept'
<1>1. \A m \in added : Expired(m) => Expired(m)'
  BY ExpiredStays DEF Inv
<1>2. disk.msgs \subseteq added
  BY DEF Inv, TypeOK
<1>3. NoHoles'
  BY <1>1 DEF Inv, NoHoles, Newer
<1>4. RecentIsKept'
  BY <1>1 DEF Inv, RecentIsKept
<1>5. QuietIsStored'
  BY <1>1, <1>2 DEF Inv, QuietIsStored
<1>6. FileNoHoles'
  BY <1>1 DEF Inv, FileNoHoles, Readable, Covered, Newer
<1>7. FileRecentIsKept'
  BY <1>1 DEF Inv, FileRecentIsKept, Readable, Covered
<1> QED
  BY <1>3, <1>4, <1>5, <1>6, <1>7

(* PruneExpired takes only expired messages out of the window.              *)
LEMMA PruneStep ==
  ASSUME Inv, PruneExpired
  PROVE  /\ NoHoles' /\ RecentIsKept' /\ QuietIsStored'
         /\ FileNoHoles' /\ FileRecentIsKept'
<1>1. /\ UNCHANGED <<disk, added, gone, now, astray, tailOnly>>
      /\ phase # "down" /\ phase' # "down" /\ saving = "no"
      /\ mem' \subseteq mem /\ \A m \in mem : m \in mem' \/ Expired(m)
      /\ saving' = "no" => mem' = mem
  BY DEF PruneExpired, Unexpired
<1>2. NoHoles'
  BY <1>1 DEF Inv, NoHoles, Newer, Expired
<1>3. RecentIsKept'
  BY <1>1 DEF Inv, RecentIsKept, Expired
<1>4. QuietIsStored'
  BY <1>1 DEF Inv, QuietIsStored, Expired
<1>5. FileNoHoles'
  BY <1>1 DEF Inv, FileNoHoles, Readable, Covered, Newer, Expired
<1>6. FileRecentIsKept'
  BY <1>1 DEF Inv, FileRecentIsKept, Readable, Covered, Expired
<1> QED
  BY <1>2, <1>3, <1>4, <1>5, <1>6

(* After Clear every message counts as lost.                                *)
LEMMA ClearStep ==
  ASSUME Inv, Clear
  PROVE  /\ NoHoles' /\ RecentIsKept' /\ QuietIsStored'
         /\ FileNoHoles' /\ FileRecentIsKept'
BY DEF Clear, NoHoles, RecentIsKept, QuietIsStored, FileNoHoles,
       FileRecentIsKept, Newer

(* A write that leaves the file unreadable, or astray: the window is as it  *)
(* was, and of the file nothing is claimed that astray does not cover.      *)
LEMMA StrayStep ==
  ASSUME Inv, UNCHANGED <<phase, mem, added, gone, now>>, phase # "down",
         disk'.text \notin {"missing", "whole"} \/ astray',
         astray' \/ saving' # "no"
  PROVE  /\ NoHoles' /\ RecentIsKept' /\ QuietIsStored'
         /\ FileNoHoles' /\ FileRecentIsKept'
<1>1. NoHoles' /\ RecentIsKept'
  BY DEF Inv, NoHoles, RecentIsKept, Newer, Expired
<1>2. QuietIsStored'
  BY DEF QuietIsStored
<1>3. FileNoHoles' /\ FileRecentIsKept'
  BY DEF FileNoHoles, FileRecentIsKept, Readable, Covered
<1> QED
  BY <1>1, <1>2, <1>3

(* A save that goes through makes the file the window.                      *)
LEMMA SavedStep ==
  ASSUME Inv, UNCHANGED <<phase, mem, added, gone, now>>, phase # "down",
         disk' = Whole(mem)
  PROVE  /\ NoHoles' /\ RecentIsKept' /\ QuietIsStored'
         /\ FileNoHoles' /\ FileRecentIsKept'
<1>1. NoHoles' /\ RecentIsKept'
  BY DEF Inv, NoHoles, RecentIsKept, Newer, Expired
<1>2. disk'.text = "whole" /\ disk'.msgs = mem
  BY DEF Whole
<1>3. QuietIsStored'
  BY <1>2 DEF QuietIsStored
<1>4. FileNoHoles'
  BY <1>1, <1>2 DEF FileNoHoles, NoHoles
<1>5. FileRecentIsKept'
  BY <1>1, <1>2 DEF FileRecentIsKept, RecentIsKept
<1> QED
  BY <1>1, <1>3, <1>4, <1>5

(* At a stop what the file lacks is counted as lost.                        *)
LEMMA StopStep ==
  ASSUME Inv, Stop
  PROVE  /\ NoHoles' /\ RecentIsKept' /\ QuietIsStored'
         /\ FileNoHoles' /\ FileRecentIsKept'
<1>1. /\ phase' = "down" /\ UNCHANGED <<disk, added, now>>
      /\ \A m \in added : Covered(m) => m \in disk.msgs \/ m \in gone'
      /\ gone \subseteq gone'
  BY DEF Stop, Covered
<1>2. NoHoles' /\ RecentIsKept' /\ QuietIsStored'
  BY <1>1 DEF NoHoles, RecentIsKept, QuietIsStored
<1>3. FileNoHoles'
  BY <1>1 DEF Inv, FileNoHoles, Readable, Newer, Expired
<1>4. FileRecentIsKept'
  BY <1>1 DEF Inv, FileRecentIsKept, Readable, Expired
<1> QED
  BY <1>2, <1>3, <1>4

(* Every step preserves the invariant.                                      *)
LEMMA InvStep == Inv /\ [Next]_vars => Inv'
<1> SUFFICES ASSUME Inv, [Next]_vars PROVE Inv'
  OBVIOUS
<1> DEFINE Rest == /\ NoHoles' /\ RecentIsKept' /\ QuietIsStored'
                   /\ FileNoHoles' /\ FileRecentIsKept'
<1>0. TypeOK' /\ IsFiniteSet(added)' /\ DownIsIdle'
  BY TypeStep DEF Inv
<1> SUFFICES Rest
  BY <1>0 DEF Inv
<1>a. /\ saving # "no" => phase # "down"
      /\ restore # "no" => phase # "down"
  BY DEF Inv, DownIsIdle
<1>1. CASE Start
  BY <1>1, StartStep
<1>2. CASE Add
  BY <1>2, AddStep
<1>3. CASE PruneExpired
  BY <1>3, PruneStep
<1>4. CASE Clear
  BY <1>4, ClearStep
<1>5. CASE (\E d \in Ttls : SetTTL(d)) \/ ExportData \/ Tick \/ UNCHANGED vars
  <2>1. UNCHANGED <<phase, mem, tailOnly, saving, disk, added, gone, astray>>
    BY <1>5 DEF SetTTL, ExportData, Tick, vars
  <2> QED
    BY <2>1, StillStep
<1>6. CASE SaveOpen
  <2>1. /\ UNCHANGED <<phase, mem, added, gone, now>> /\ phase # "down"
        /\ disk'.text \notin {"missing", "whole"} /\ saving' # "no"
    BY <1>6, <1>a DEF SaveOpen, Emptied
  <2> QED
    BY <2>1, StrayStep
<1>7. CASE SaveWrite
  <2>1. /\ UNCHANGED <<phase, mem, added, gone, now>> /\ phase # "down"
        /\ disk' \in {Whole(mem), Garbage}
        /\ disk' = Garbage => astray'
    BY <1>7, <1>a DEF SaveWrite, Written
  <2>2. CASE disk' = Whole(mem)
    BY <2>1, <2>2, SavedStep
  <2>3. CASE disk' = Garbage
    <3>1. disk'.text \notin {"missing", "whole"} /\ astray'
      BY <2>1, <2>3 DEF Garbage
    <3> QED
      BY <2>1, <3>1, StrayStep
  <2> QED
    BY <2>1, <2>2, <2>3
<1>8. CASE SaveFails \/ ImportData \/ ImportWrite
  <2>1. UNCHANGED <<phase, mem, added, gone, now>> /\ phase # "down" /\ astray'
    BY <1>8, <1>a DEF SaveFails, ImportData, ImportWrite
  <2> QED
    BY <2>1, StrayStep
<1>9. CASE Stop
  BY <1>9, StopStep
<1> QED
  BY <1>1, <1>2, <1>3, <1>4, <1>5, <1>6, <1>7, <1>8, <1>9 DEF Next

(* The invariant holds of every reachable state: what Start, Add, the prunes *)
(* and the saves of history.go do to the window and to the file.            *)
THEOREM Invariance == Spec => []Inv
BY InitInv, InvStep, PTL DEF Spec

(* Every reachable state is of the declared type.                           *)
THEOREM TypeCorrect == Spec => []TypeOK
<1>1. Inv => TypeOK
  BY DEF Inv
<1> QED
  BY <1>1, Invariance, PTL

(* history.go:62-90: for all limits and bounds, behind a message the window *)
(* holds only expired and accounted-for messages are missing.               *)
THEOREM WindowHasNoHoles == Spec => []NoHoles
<1>1. Inv => NoHoles
  BY DEF Inv
<1> QED
  BY <1>1, Invariance, PTL

(* history.go:62-90: for all limits and bounds, the limits cost only        *)
(* messages with at least as many successors.                               *)
THEOREM RecentStays == Spec => []RecentIsKept
<1>1. Inv => RecentIsKept
  BY DEF Inv
<1> QED
  BY <1>1, Invariance, PTL

(* history.go:282-289: for all limits and bounds, the window is on disk     *)
(* when its save is done.                                                   *)
THEOREM WindowIsStored == Spec => []QuietIsStored
<1>1. Inv => QuietIsStored
  BY DEF Inv
<1> QED
  BY <1>1, Invariance, PTL

(* history.go:119-132, 278: no step brings an expired message into the      *)
(* window.                                                                  *)
THEOREM ExpiredStaysOut == Spec => NeverComesBack
<1>1. ASSUME TypeOK, [Next]_vars
      PROVE  [\A m \in mem' \ mem : ~Expired(m)']_vars
  <2>1. CASE Start
    BY <2>1 DEF Start, Limit, Newest, Unexpired, Expired
  <2>2. CASE Add
    BY <2>2 DEF Add, Limit, Newest, Unexpired, Expired
  <2>3. CASE ~Start /\ ~Add
    <3>1. mem' \subseteq mem
      BY <2>3, <1>1 DEF Next, vars, PruneExpired, Clear, SetTTL, SaveOpen,
         SaveWrite, SaveFails, ExportData, ImportData, ImportWrite, Stop, Tick,
         Unexpired
    <3> QED
      BY <3>1
  <2> QED
    BY <2>1, <2>2, <2>3
<1> QED
  BY <1>1, TypeCorrect, PTL DEF Spec, NeverComesBack
============================================================================
