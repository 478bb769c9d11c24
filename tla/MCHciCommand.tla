---------------------------- MODULE MCHciCommand ----------------------------
(***************************************************************************)
(* Values of HciCommand's constants for TLC.                               *)
(***************************************************************************)
EXTENDS HciCommand

\* Every call but the reset of a running controller.
ColdCalls == Call \ {"HCI_init", "HCI_reset"}

\* The reset of a running controller among calls of the other kinds.
WarmCalls == {"HCI_reset", "HCI_get_bt_addr", "GAP_connect"}

\* The calls whose state bookkeeping is right for an application that asks
\* HCI_get_state first: GAP_deinit stops advertising and scanning, and toggles
\* the state the wrong way for at least one of them.
TrackedCalls == ColdCalls \ {"GAP_deinit"}

\* Commands of each kind of answer that the controller may refuse.
SomeRefused == {"RESET", "READ_BD_ADDR", "ADV_ENABLE", "SCAN_DISABLE", "CREATE_CONNECTION"}

NoneRefused == {}
=============================================================================
