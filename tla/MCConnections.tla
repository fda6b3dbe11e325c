--------------------------- MODULE MCConnections ---------------------------
(***************************************************************************)
(* Instances of Connections for TLC, and what a comment of the code says   *)
(* of the heartbeat.                                                       *)
(***************************************************************************)
EXTENDS Connections

None == [discovery |-> FALSE, connect |-> FALSE, retry |-> FALSE,
         bundle |-> FALSE, internet |-> FALSE, reach |-> TRUE, faults |-> 0]

\* Discovery with a command beside it; the commands without discovery; a bundle
\* with and without internet mode, over a TCP address that never answers too.
MCScenarios ==
  {[None EXCEPT !.discovery = TRUE, !.connect = TRUE, !.faults = 3],
   [None EXCEPT !.discovery = TRUE, !.retry = TRUE, !.faults = 3],
   [None EXCEPT !.connect = TRUE, !.retry = TRUE, !.faults = 2],
   [None EXCEPT !.retry = TRUE, !.reach = FALSE],
   [None EXCEPT !.bundle = TRUE, !.internet = TRUE, !.faults = 2],
   [None EXCEPT !.bundle = TRUE, !.internet = TRUE, !.reach = FALSE, !.faults = 1],
   [None EXCEPT !.bundle = TRUE, !.reach = FALSE]}

\* Discovery alone, and no connection that breaks.
Undisturbed == {[None EXCEPT !.discovery = TRUE]}

(* node.go:303: "StartHeartbeat sends periodic ping/heartbeat and drops     *)
(* stale peers".  A peer whose last heartbeat is over 60 s old is heard of  *)
(* again, or sooner or later no connection of it is listed as ready: one    *)
(* that stays listed keeps discovery from dialling the address.             *)
StaleIsDropped == (beat = "stale") ~> (beat = "fresh" \/ ~PeerReady)
============================================================================
