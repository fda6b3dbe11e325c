----------------------------- MODULE MCDelivery -----------------------------
(***************************************************************************)
(* Instances of Delivery for TLC, and what comments of the code promise of *)
(* delivery without Delivery's reservations.                               *)
(***************************************************************************)
EXTENDS Delivery, TLC

Setting(parallel, torn, lines, c, k, g) ==
  [parallel |-> parallel, torn |-> torn, lines |-> lines,
   cuts |-> c, crashes |-> k, garbled |-> g]

\* Two connections at once, a cut and a crash; one after the other, a torn save,
\* or a rekey (SingleLink has them together).
MCScenarios ==
  {Setting(TRUE, FALSE, 1, 1, 1, 0),
   Setting(FALSE, TRUE, 2, 0, 1, 0), Setting(FALSE, FALSE, 2, 0, 0, 1)}

\* One connection: that holds, three lines, so that the queue overflows; and
\* that may break in every way the code handles, two lines.
SingleLink == {Setting(FALSE, FALSE, 3, 0, 0, 0), Setting(FALSE, TRUE, 2, 1, 1, 1)}

\* One connection that holds, one line.
OneLine == {Setting(FALSE, FALSE, 1, 0, 0, 0)}

LinkSymmetry == Permutations(Link)

(* dedup.go:8: "reconnects, retries, and replays never deliver the same     *)
(* logical message twice".  A line that a running receiver has displayed    *)
(* from the queue, retried when the sender reconnected, it does not display *)
(* again.                                                                   *)
NeverTheSameLineTwice ==
  \A i, j \in DOMAIN shown :
    shown[i].id \in queued /\ i < j => shown[i].line # shown[j].line

(* queue.go:20: "Queue persists unsent messages and flushes them when peers *)
(* come online".  When all is done and the peer is online, nothing addressed*)
(* to it is left in the queue.                                              *)
NothingStranded ==
  (/\ cli = Idle
   /\ \E c \in Ready : link[c] = "up"
   /\ \A c \in Link : flush[c] = {} /\ sent[c] = {} /\ toS[c] = <<>>)
  => queue = {}
============================================================================
