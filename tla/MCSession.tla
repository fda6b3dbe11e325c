----------------------------- MODULE MCSession -----------------------------
(***************************************************************************)
(* Instances of Session for TLC, and what a comment of the code claims of  *)
(* the handshake without the reservations Session makes.                   *)
(***************************************************************************)
EXTENDS Session

Over(via, copies, asks, answers, lines, redials) ==
  [via |-> via, copies |-> copies, asks |-> asks, answers |-> answers,
   chats |-> lines, drops |-> redials]

\* TCP with two redials; UDP with the burst, with a chat, and with both.
MCScenarios ==
  {Over("tcp", 0, 2, 2, 1, 2), Over("udp", 1, 2, 2, 0, 0),
   Over("udp", 0, 2, 2, 1, 0), Over("udp", 1, 1, 1, 1, 0)}

\* UDP, one rekey and one copy of hello.
DupHello == {Over("udp", 1, 1, 1, 0, 0)}

(* internet.go:115 on the hole-punch burst: "Duplicate hello messages are   *)
(* safe to receive multiple times (idempotent, session key result is        *)
(* deterministic)".  A hello received on a session leaves its key alone.    *)
DuplicateHelloIsIdempotent ==
  [][\A s \in Side :
       ready[s] /\ (\E i \in DOMAIN wire[s] : HandleHello(s, i)) => key'[s] = key[s]]_vars
============================================================================
