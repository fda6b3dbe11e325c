------------------------------ MODULE Mailbox ------------------------------
(***************************************************************************)
(* What delivery of chat lines promises, without connections, envelopes or *)
(* files: a line that has been accepted is kept until it is displayed or   *)
(* its loss is on record, and only a line that is kept is displayed.       *)
(* Delivery is shown to implement it.                                      *)
(***************************************************************************)

VARIABLES
  offered,  \* lines accepted for the addressee
  kept,     \* lines of which the mailbox holds a copy
  shown,    \* lines displayed at the addressee
  lost      \* lines of which a copy is known to be lost

vars == <<offered, kept, shown, lost>>

Init == offered = {} /\ kept = {} /\ shown = {} /\ lost = {}

\* A line that is no longer kept has been displayed or is known to be lost.
NothingVanishes == kept \subseteq kept' \cup shown' \cup lost'

\* One more line is accepted; it may push out others.
Accept ==
  /\ \E n \in offered' :
       /\ offered' = offered \cup {n}
       /\ n \in kept' \cup lost'
       /\ kept' \subseteq kept \cup {n}
       /\ lost \subseteq lost' /\ lost' \subseteq lost \cup kept \cup {n}
  /\ shown' = shown
  /\ NothingVanishes

\* A kept line is displayed.
Deliver ==
  /\ \E n \in kept : shown' = shown \cup {n}
  /\ kept' \subseteq kept
  /\ UNCHANGED <<offered, lost>>
  /\ NothingVanishes

\* Copies are given up, because they are lost or because they are spent.
GiveUp ==
  /\ kept' \subseteq kept
  /\ lost \subseteq lost' /\ lost' \subseteq lost \cup kept
  /\ UNCHANGED <<offered, shown>>
  /\ NothingVanishes

\* Copies of lines, accepted or from the records, are sent once more.
Resend ==
  /\ kept \subseteq kept' /\ lost \subseteq lost'
  /\ UNCHANGED <<offered, shown>>

Next == Accept \/ Deliver \/ GiveUp \/ Resend

Spec == Init /\ [][Next]_vars
============================================================================
