------------------------------ MODULE History ------------------------------
(***************************************************************************)
(* The chat history of one node (internal/history, and its uses in main.go *)
(* and internal/peer): a window of messages in memory, the file it is saved*)
(* to by every call that changes it, disappearing messages, the tail that  *)
(* start-up keeps of a long file, and the backup that /import-data puts in *)
(* the file's place while the program runs.                                *)
(*                                                                         *)
(* Message n is the n-th ever added.  Add appends, every cut keeps the end *)
(* and the backup is an earlier file, so a list of messages is always in   *)
(* the order of n and a set stands for it.  h.mu is held from a change to  *)
(* the end of its save; the save itself is os.WriteFile, which truncates   *)
(* the file and then writes it, and a program can end at any point of it.  *)
(* totalStored, which only the wording of a hint depends on, is left out.  *)
(***************************************************************************)
EXTENDS Naturals, FiniteSets

CONSTANTS
  MaxSize,    \* History.maxSize (-history, 1000 by default); 0: no limit
  TailLimit,  \* messages start-up keeps in memory (500); 0: all
  Ttls,       \* what /disappearing and /ephemeral may set; 0: off
  \* bounds of the model
  MaxMsgs, MaxTime,
  MaxUpsets   \* stops, failed saves, exports and calls of Clear, together

ASSUME HistoryAssumption ==
  /\ MaxSize \in Nat /\ TailLimit \in Nat
  /\ Ttls \subseteq Nat
  /\ MaxMsgs \in Nat /\ MaxTime \in Nat /\ MaxUpsets \in Nat

VARIABLES
  phase,    \* "down", "starting" (loaded, start-up prune to come), "up"
  mem,      \* h.messages
  tailOnly, \* h.tailOnly
  ttl,      \* h.ttl
  saving,   \* save: "no", "open" (file not yet touched), "write" (truncated)
  restore,  \* restoreBackupPayload's write of history.json, in the same steps
  disk,     \* history.json: whether and how it can be read, and what it says
  backup,   \* {} or {the messages of the bundle /export-data made last}
  now,      \* the clock
  count,    \* messages added so far
  upsets,   \* stops, failed saves, exports and calls of Clear so far
  \* history variables, read by no action
  added,    \* every message ever added
  gone,     \* messages that a stop, a fault, a restore or Clear cost
  astray    \* the file was last touched by a restore or a failed save

vars == <<phase, mem, tailOnly, ttl, saving, restore, disk, backup,
          now, count, upsets, added, gone, astray>>

\* A ChatMessage; exp is ExpiresAt, 0 its zero value.
Message == [n : Nat, exp : Nat]

\* What os.ReadFile and json.Unmarshal make of the file.
Missing == [text |-> "missing", msgs |-> {}]
Emptied == [text |-> "empty", msgs |-> {}]
Garbage == [text |-> "garbage", msgs |-> {}]
Whole(S) == [text |-> "whole", msgs |-> S]

Expired(m) == m.exp # 0 /\ now > m.exp

\* Mutant: nothing is taken out.
KeepAll(S) == S

\* pruneExpiredLocked.
Unexpired(S) == {m \in S : ~Expired(m)}

Newer(S, m) == {k \in S : k.n > m.n}

\* Mutant: the cut keeps the beginning of the list.
Oldest(S, n) == {m \in S : Cardinality({k \in S : k.n < m.n}) < n}

\* Mutant: the cut keeps one message too few.
NewestButOne(S, n) == {m \in S : Cardinality(Newer(S, m)) + 1 < n}

\* messages[len(messages)-n:] where there are more than n.
Newest(S, n) == {m \in S : Cardinality(Newer(S, m)) < n}

\* Both limits take 0 for none.
Limit(S, n) == IF n > 0 THEN Newest(S, n) ELSE S

\* os.WriteFile's write: over what a second writer left it may mix the two.
Written(S) == IF disk = Emptied THEN {Whole(S)} ELSE {Whole(S), Garbage}
----------------------------------------------------------------------------
Init ==
  /\ phase = "down" /\ mem = {} /\ tailOnly = FALSE /\ ttl = 0
  /\ saving = "no" /\ restore = "no"
  /\ disk = Missing /\ backup = {}
  /\ now = 1 /\ count = 0 /\ upsets = 0
  /\ added = {} /\ gone = {} /\ astray = FALSE

\* NewWithTail and load.  A file that does not parse ends the program in main.
Start ==
  /\ phase = "down"
  /\ disk.text \in {"missing", "whole"}
  /\ phase' = "starting"
  /\ mem' = Limit(Unexpired(disk.msgs), TailLimit)
  /\ tailOnly' =
       (TailLimit > 0 /\ Cardinality(Unexpired(disk.msgs)) > TailLimit)
  /\ astray' = FALSE
  /\ UNCHANGED <<ttl, saving, restore, disk, backup, now, count, upsets,
                 added, gone>>

Upset == upsets < MaxUpsets /\ upsets' = upsets + 1

\* h.mu is free and main is in its loop.
Free == phase = "up" /\ saving = "no"

\* Mutant: the new message takes the place in the order of the one before.
Again == [n |-> count, exp |-> IF ttl > 0 THEN now + ttl ELSE 0]

\* The message Add makes of its argument: msg.ExpiresAt where a TTL is set.
Fresh == [n |-> count + 1, exp |-> IF ttl > 0 THEN now + ttl ELSE 0]

\* Mutant: the new message is only kept in memory.
AddUnsaved ==
  /\ Free /\ count < MaxMsgs
  /\ count' = count + 1 /\ added' = added \cup {Fresh}
  /\ mem' = Limit(Unexpired(mem \cup {Fresh}), MaxSize)
  /\ UNCHANGED <<phase, tailOnly, ttl, saving, restore, disk, backup, now,
                 upsets, gone, astray>>

\* Add, for a line typed, received or forwarded; the save follows.
Add ==
  /\ Free /\ count < MaxMsgs
  /\ count' = count + 1 /\ added' = added \cup {Fresh}
  /\ mem' = Limit(Unexpired(mem \cup {Fresh}), MaxSize)
  /\ saving' = "open"
  /\ UNCHANGED <<phase, tailOnly, ttl, restore, disk, backup, now, upsets,
                 gone, astray>>

\* SetTTL, by /disappearing and /ephemeral; it is not saved.
SetTTL(d) ==
  /\ Free /\ restore = "no" /\ ttl' = d
  /\ UNCHANGED <<phase, mem, tailOnly, saving, restore, disk, backup,
                 now, count, upsets, added, gone, astray>>

\* Mutant: the pruned list is not saved.
PruneUnsaved ==
  LET kept == Unexpired(mem) IN
  /\ phase # "down" /\ saving = "no"
  /\ phase = "starting" \/ kept # mem
  /\ phase' = "up" /\ mem' = kept
  /\ UNCHANGED <<tailOnly, ttl, saving, restore, disk, backup, now, count,
                 upsets, added, gone, astray>>

\* PruneExpired, by main at start-up and then by its ticker: a save follows
\* when something was removed, and only then.
PruneExpired ==
  LET kept == Unexpired(mem) IN
  /\ phase # "down" /\ saving = "no"
  /\ phase = "starting" \/ kept # mem
  /\ phase' = "up" /\ mem' = kept
  /\ saving' = IF kept = mem THEN "no" ELSE "open"
  /\ UNCHANGED <<tailOnly, ttl, restore, disk, backup, now, count, upsets,
                 added, gone, astray>>

\* Clear, which only the tests call.
Clear ==
  /\ Free /\ mem # {} /\ Upset
  /\ mem' = {} /\ saving' = "open" /\ gone' = added
  /\ UNCHANGED <<phase, tailOnly, ttl, restore, disk, backup, now, count,
                 added, astray>>

\* save: os.WriteFile has truncated the file.
SaveOpen ==
  /\ saving = "open" /\ saving' = "write" /\ disk' = Emptied
  /\ UNCHANGED <<phase, mem, tailOnly, ttl, restore, backup, now,
                 count, upsets, added, gone, astray>>

\* save: and has written it.  The lock is free again.
SaveWrite ==
  /\ saving = "write" /\ saving' = "no"
  /\ disk' \in Written(mem)
  /\ astray' = (disk' = Garbage \/ restore # "no")
  /\ UNCHANGED <<phase, mem, tailOnly, ttl, restore, backup, now,
                 count, upsets, added, gone>>

\* save fails on the directory, on opening the file or half way through; the
\* callers drop the error.
SaveFails ==
  /\ saving # "no" /\ Upset
  /\ saving' = "no" /\ astray' = TRUE
  /\ disk' = IF saving = "open" THEN disk ELSE Garbage
  /\ UNCHANGED <<phase, mem, tailOnly, ttl, restore, backup, now,
                 count, added, gone>>
----------------------------------------------------------------------------
\* buildBackupPayload and Export.  Text that is not JSON makes Marshal fail, an
\* empty or a missing file makes a bundle without a history.
ExportData ==
  /\ phase = "up" /\ restore = "no" /\ Upset
  /\ disk.text # "garbage"
  /\ backup' = IF disk.text = "whole" THEN {disk.msgs} ELSE {}
  /\ UNCHANGED <<phase, mem, tailOnly, ttl, saving, restore, disk, now,
                 count, added, gone, astray>>

\* restoreBackupPayload: the bundle's history goes to the file, without h.mu
\* and without a word to the History in memory.
ImportData ==
  /\ phase = "up" /\ restore = "no" /\ backup # {}
  /\ restore' = "write" /\ disk' = Emptied /\ astray' = TRUE
  /\ UNCHANGED <<phase, mem, tailOnly, ttl, saving, backup, now, count,
                 upsets, added, gone>>

ImportWrite ==
  /\ restore = "write" /\ restore' = "no"
  /\ \E S \in backup : disk' \in Written(S)
  /\ astray' = TRUE
  /\ UNCHANGED <<phase, mem, tailOnly, ttl, saving, backup, now, count,
                 upsets, added, gone>>

\* A crash, or /quit: main returns without waiting for a save.
Stop ==
  /\ phase # "down" /\ Upset
  /\ phase' = "down" /\ mem' = {} /\ tailOnly' = FALSE /\ ttl' = 0
  /\ saving' = "no" /\ restore' = "no"
  /\ gone' = gone \cup ((IF astray THEN added ELSE mem) \ disk.msgs)
  /\ UNCHANGED <<disk, backup, now, count, added, astray>>

\* Time passes.
Tick ==
  /\ now < MaxTime /\ now' = now + 1
  /\ UNCHANGED <<phase, mem, tailOnly, ttl, saving, restore, disk,
                 backup, count, upsets, added, gone, astray>>

Next ==
  \/ Start \/ Stop \/ Tick
  \/ Add \/ PruneExpired \/ Clear
  \/ \E d \in Ttls : SetTTL(d)
  \/ SaveOpen \/ SaveWrite \/ SaveFails
  \/ ExportData \/ ImportData \/ ImportWrite

Spec == Init /\ [][Next]_vars

(* The ticker fires every minute and a save goes on once begun, as long as  *)
(* the program runs.                                                        *)
FairSpec == Spec /\ WF_vars(PruneExpired) /\ WF_vars(SaveOpen \/ SaveWrite)
----------------------------------------------------------------------------
(* Type correctness; the messages in memory, in the file and in the bundle  *)
(* are messages that were added, each once, in their order.                 *)
TypeOK ==
  /\ phase \in {"down", "starting", "up"}
  /\ added \subseteq Message
  /\ \A m \in added : m.n \in 1..count
  /\ \A m, k \in added : m.n = k.n => m = k
  /\ mem \subseteq added /\ gone \subseteq added
  /\ disk \in [text : {"missing", "empty", "garbage", "whole"},
              msgs : SUBSET added]
  /\ disk.text # "whole" => disk.msgs = {}
  /\ backup \subseteq SUBSET added
  /\ saving \in {"no", "open", "write"} /\ restore \in {"no", "write"}
  /\ now \in Nat /\ count \in Nat /\ upsets \in Nat /\ ttl \in Nat
  /\ tailOnly \in BOOLEAN /\ astray \in BOOLEAN

(* history.go:54-93: the window is the end of the                           *)
(* conversation.  Behind a message it still holds there is no gap: each     *)
(* later one is there too, unless it expired, or a stop, a fault, a restore *)
(* or Clear cost it.  Across restarts, cuts and failed saves.               *)
NoHoles ==
  phase # "down" =>
    \A m \in mem : \A k \in Newer(added, m) :
      k \in mem \/ Expired(k) \/ k \in gone

\* The last n messages are within both limits.
Spared(n) == /\ MaxSize > 0 => n <= MaxSize
             /\ TailLimit > 0 => n <= TailLimit

(* history.go:63-66, 83-90: the limits only cost what is old.  A message    *)
(* with fewer successors than either limit allows is in the window, unless  *)
(* it expired, or a stop, a fault, a restore or Clear cost it.              *)
RecentIsKept ==
  phase # "down" =>
    \A m \in added \ (mem \cup gone) :
      Expired(m) \/ ~Spared(Cardinality(Newer(added, m)) + 1)

(* history.go:282-289: what the window shows is on disk once the save that  *)
(* goes with a change is done, so a stop costs nothing then; and what is    *)
(* only on disk is expired or was cut off by the tail start-up keeps.  Not  *)
(* so after a failed save, nor after a restore, which leaves the window.    *)
QuietIsStored ==
  (phase # "down" /\ saving = "no" /\ ~astray) =>
    /\ disk.text \in {"missing", "whole"}
    /\ mem \subseteq disk.msgs
    /\ \A m \in disk.msgs \ mem :
         \/ Expired(m)
         \/ tailOnly /\ Cardinality(Newer(disk.msgs, m)) >= TailLimit

(* history.go:119-132, 278: a message whose time has passed never comes     *)
(* back into the window, through a restart or a restored backup either.     *)
NeverComesBack == [][\A m \in mem' \ mem : ~Expired(m)']_vars

(* main.go:264-271: an expired message in the window leaves the window and  *)
(* the file, unless the program stops first or the file goes astray.        *)
ExpiredLeaves ==
  \A n \in 1..MaxMsgs :
    (phase # "down" /\ \E m \in mem : m.n = n /\ Expired(m))
      ~> \/ phase = "down" \/ astray
         \/ \A m \in mem \cup disk.msgs : m.n # n
============================================================================
