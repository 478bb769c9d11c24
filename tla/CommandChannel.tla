--------------------------- MODULE CommandChannel ---------------------------
(***************************************************************************)
(* What HCI_send_command followed by HCI_wait_response promises its caller *)
(* (src/inc/hci.h:75-78, 116-122): a request is answered, and the caller   *)
(* goes on when its request has been answered, not before.                 *)
(***************************************************************************)
CONSTANT Op     \* the commands

VARIABLES
  phase,        \* of the one request the channel can hold
  op            \* the last command requested

TypeOK == phase \in {"ready", "asked", "answered"} /\ op \in Op \cup {"NONE"}

Init == phase = "ready" /\ op = "NONE"

\* The caller sends a command.
Request == phase = "ready" /\ phase' = "asked" /\ op' \in Op

\* The controller's answer to it has been handled.
Respond == phase = "asked" /\ phase' = "answered" /\ UNCHANGED op

\* The caller goes on.
Resume == phase = "answered" /\ phase' = "ready" /\ UNCHANGED op

Next == Request \/ Respond \/ Resume

Spec == Init /\ [][Next]_<<phase, op>>
=============================================================================
