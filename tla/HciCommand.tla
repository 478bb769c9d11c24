----------------------------- MODULE HciCommand -----------------------------
(***************************************************************************)
(* The command/response handshake of src/hci.c: the application thread     *)
(* sends a command and spins in HCI_wait_response (or HCI_reset), the UART *)
(* interrupt runs HCI_handle_event, and the controller answers.  The GAP   *)
(* procedures of src/gap.c are the scripts of commands the calls send.     *)
(* Events travel whole; their bytes are the subject of module HciRx.       *)
(***************************************************************************)
EXTENDS Naturals, Sequences

CONSTANTS
  AppCalls,   \* the calls the application makes once HCI_init has returned
  Careful,    \* the application asks HCI_get_state before each call
  Connectable,\* it advertises as connectable: a peer may connect
  IrqInGap,   \* an answer may be handled before waiting_response is set
  MayRefuse,  \* the commands the controller may answer with an error status
  MaxQueue    \* bound on what is queued towards the host and the controller

(* Commands, by op code; the two values of an enable flag are two commands *)
(* with one op code (see OpCode).                                          *)
Command ==
  {"RESET", "MINIDRIVER", "WRITE_RAM", "WRITE_BD_ADDR", "READ_BD_ADDR",
   "READ_LOCAL_VERSION", "WRITE_LOCAL_NAME", "UPDATE_BAUDRATE",
   "SET_EVENT_MASK", "SET_ADV_PARAMS", "SET_ADV_DATA", "SET_SCAN_RSP_DATA",
   "ADV_ENABLE", "ADV_DISABLE", "SET_SCAN_PARAMS", "SCAN_ENABLE",
   "SCAN_DISABLE", "CREATE_CONNECTION", "CONNECTION_UPDATE", "DISCONNECT"}

OpCode(c) == CASE c \in {"ADV_ENABLE", "ADV_DISABLE"}   -> "SET_ADVERTISE_ENABLE"
               [] c \in {"SCAN_ENABLE", "SCAN_DISABLE"} -> "SET_SCAN_ENABLE"
               [] OTHER                                 -> c

\* Answered by Command Status first; the others by Command Complete.
StatusAnswered == {"CREATE_CONNECTION", "CONNECTION_UPDATE", "DISCONNECT"}

\* The commands whose caller copies the answer out of rx_buffer.
ReadCommand == {"READ_BD_ADDR", "READ_LOCAL_VERSION"}

\* The commands each call sends, in order.  HCI_init downloads one record.
Script ==
  [ HCI_init              |-> <<"RESET", "MINIDRIVER", "WRITE_RAM">>,
    HCI_reset             |-> <<"RESET">>,
    HCI_get_bt_addr       |-> <<"READ_BD_ADDR">>,
    HCI_get_module_status |-> <<"READ_LOCAL_VERSION">>,
    HCI_disconnect        |-> <<"DISCONNECT">>,
    HCI_BLE_connection_update  |-> <<"CONNECTION_UPDATE">>,
    HCI_BLE_set_event_mask     |-> <<"SET_EVENT_MASK">>,
    HCI_bcm4345_set_baudrate   |-> <<"UPDATE_BAUDRATE">>,
    GAP_init              |-> <<"WRITE_BD_ADDR">>,
    GAP_deinit            |-> <<"ADV_DISABLE", "SCAN_DISABLE">>,
    GAP_set_device_name   |-> <<"WRITE_LOCAL_NAME", "SET_ADV_DATA">>,
    GAP_set_advertising_parameters |-> <<"SET_ADV_PARAMS">>,
    GAP_set_advertising_data   |-> <<"SET_ADV_DATA">>,
    GAP_set_scan_response_data |-> <<"SET_SCAN_RSP_DATA">>,
    GAP_set_scan_parameters    |-> <<"SET_SCAN_PARAMS">>,
    GAP_start_advertising |-> <<"SET_ADV_PARAMS", "ADV_ENABLE">>,
    GAP_stop_advertising  |-> <<"ADV_DISABLE">>,
    GAP_start_scanning    |-> <<"SET_SCAN_PARAMS", "SCAN_ENABLE">>,
    GAP_stop_scanning     |-> <<"SCAN_DISABLE">>,
    GAP_connect           |-> <<"CREATE_CONNECTION">> ]

Call == DOMAIN Script

ASSUME ConstantsAssumption ==
  /\ AppCalls \subseteq Call \ {"HCI_init"}
  /\ Careful \in BOOLEAN
  /\ Connectable \in BOOLEAN
  /\ IrqInGap \in BOOLEAN
  /\ MayRefuse \subseteq Command
  /\ MaxQueue \in Nat \ {0}

HCIState == {"IDLE", "ON", "ADVERTISING", "SCANNING", "CONNECTING", "DISCONNECTED"}

\* Events: the two answers, and what the radio reports by itself.
AnswerEvent == [type : {"COMMAND_COMPLETE", "COMMAND_STATUS"},
                cmd : Command, ok : BOOLEAN]
RadioEvent  == [type : {"ADV_REPORT", "CONNECTION_COMPLETE", "DISCONNECTION_COMPLETE"}]
Event       == AnswerEvent \cup RadioEvent

VARIABLES
  pc,                \* where the application thread is
  call, script, cmd, \* the call it is in, what is left to send, last command sent
  waiting_response, hci_state,
  rxLow, rxHigh,     \* whose bytes fill rx_buffer[7..10] and rx_buffer[11..12],
  rxEnd,             \* and rx_buffer[13..14], beyond an address's six bytes
  rxPartial,         \* the low half of the packet at the head has been stored
  info,              \* what the last read call copied out of rx_buffer
  toCtrl, toHost,    \* commands and events in flight
  adv, scan, link,   \* the controller's radio
  early, refused     \* history: cmd was answered before its wait began; a
                     \* command of the call was answered with an error

mainVars == <<pc, call, script, cmd, info>>
rxVars   == <<waiting_response, hci_state, rxLow, rxHigh, rxEnd, rxPartial>>
radio    == <<adv, scan, link>>
vars     == <<mainVars, rxVars, toCtrl, toHost, radio, early, refused>>

Content == Command \cup {"NONE", "RADIO"}

TypeOK ==
  /\ pc \in {"idle", "send", "sent", "wait", "reset_wait", "copyLow", "copyHigh"}
  /\ call \in Call \cup {"none"}
  /\ script \in Seq(Command)
  /\ cmd \in Command \cup {"NONE"}
  /\ waiting_response \in BOOLEAN
  /\ hci_state \in HCIState
  /\ rxLow \in Content /\ rxHigh \in Content /\ rxEnd \in Content
  /\ rxPartial \in BOOLEAN
  /\ info \in [low : Content, high : Content, end : Content]
  /\ toCtrl \in Seq(Command)
  /\ toHost \in Seq(Event)
  /\ adv \in BOOLEAN /\ scan \in BOOLEAN /\ link \in {"none", "pending", "up"}
  /\ early \in BOOLEAN /\ refused \in BOOLEAN

Init ==
  /\ pc = "idle" /\ call = "none" /\ script = <<>> /\ cmd = "NONE"
  /\ waiting_response = FALSE /\ hci_state = "IDLE"
  /\ rxLow = "NONE" /\ rxHigh = "NONE" /\ rxEnd = "NONE" /\ rxPartial = FALSE
  /\ info = [low |-> "NONE", high |-> "NONE", end |-> "NONE"]
  /\ toCtrl = <<>> /\ toHost = <<>>
  /\ adv = FALSE /\ scan = FALSE /\ link = "none"
  /\ early = FALSE /\ refused = FALSE

IsAnswer(e) == e.type \in {"COMMAND_COMPLETE", "COMMAND_STATUS"}

\* The controller owes an answer, or one is on its way to the host.
AnswerDue == \/ toCtrl # <<>>
             \/ \E i \in DOMAIN toHost : IsAnswer(toHost[i])

-----------------------------------------------------------------------------
(* The application thread.                                                 *)

\* What HCI_get_state returns when a careful application makes the call.
ExpectedState(c) == CASE c = "GAP_stop_advertising" -> "ADVERTISING"
                      [] c = "GAP_stop_scanning"    -> "SCANNING"
                      [] OTHER                      -> "ON"

MakeCall(c) ==
  /\ pc = "idle"
  /\ IF call = "none" THEN c = "HCI_init"
     ELSE c \in AppCalls /\ (Careful => hci_state = ExpectedState(c))
  /\ pc' = "send" /\ call' = c /\ script' = Script[c]
  /\ refused' = FALSE
  /\ UNCHANGED <<cmd, info, rxVars, toCtrl, toHost, radio, early>>

\* HCI_send_command: the packet is in the UART once hw_transmit_buffer returns.
\* The bound only bites when resets that nobody waits for pile up.
HCI_send_command ==
  /\ pc = "send"
  /\ Len(toCtrl) + Len(toHost) <= MaxQueue
  /\ cmd' = Head(script) /\ script' = Tail(script)
  /\ toCtrl' = Append(toCtrl, Head(script))
  /\ pc' = "sent" /\ early' = FALSE
  /\ UNCHANGED <<call, info, rxVars, toHost, radio, refused>>

\* waiting_response = true, in HCI_wait_response or in HCI_reset.
BeginWait ==
  /\ pc = "sent"
  /\ waiting_response' = TRUE
  /\ pc' = IF cmd = "RESET" THEN "reset_wait" ELSE "wait"
  /\ UNCHANGED <<call, script, cmd, info, hci_state, rxLow, rxHigh, rxEnd,
                 rxPartial, toCtrl, toHost, radio, early, refused>>

\* The next command of the script, or the return of the call.
Continue == pc' = IF script = <<>> THEN "idle" ELSE "send"

\* Slip: the wait gives up on a timeout, as hci.c:37-39 would have it.
WaitGivesUp ==
  /\ pc = "wait"
  /\ IF cmd \in ReadCommand THEN pc' = "copyLow" ELSE Continue
  /\ hci_state' = IF call = "HCI_init" /\ script = <<>> THEN "ON" ELSE hci_state
  /\ UNCHANGED <<call, script, cmd, info, waiting_response, rxLow, rxHigh,
                 rxEnd, rxPartial, toCtrl, toHost, radio, early, refused>>

\* The spin of HCI_wait_response ends; HCI_init ends by setting the state.
HCI_wait_response ==
  /\ pc = "wait" /\ ~waiting_response
  /\ IF cmd \in ReadCommand THEN pc' = "copyLow" ELSE Continue
  /\ hci_state' = IF call = "HCI_init" /\ script = <<>> THEN "ON" ELSE hci_state
  /\ UNCHANGED <<call, script, cmd, info, waiting_response, rxLow, rxHigh,
                 rxEnd, rxPartial, toCtrl, toHost, radio, early, refused>>

\* HCI_reset spins on the state, not on the flag.
HCI_reset ==
  /\ pc = "reset_wait" /\ hci_state = "ON"
  /\ Continue
  /\ UNCHANGED <<call, script, cmd, info, rxVars, toCtrl, toHost, radio, early, refused>>

\* HCI_get_module_status and HCI_get_bt_addr read rx_buffer[7..14] in several
\* statements, with interrupts enabled; HCI_get_bt_addr copies as many bytes as
\* a pointer has, eight, not the six of an address.
CopyLow ==
  /\ pc = "copyLow"
  /\ info' = [info EXCEPT !.low = rxLow]
  /\ pc' = "copyHigh"
  /\ UNCHANGED <<call, script, cmd, rxVars, toCtrl, toHost, radio, early, refused>>

CopyHigh ==
  /\ pc = "copyHigh"
  /\ info' = [info EXCEPT !.high = rxHigh, !.end = rxEnd]
  /\ Continue
  /\ UNCHANGED <<call, script, cmd, rxVars, toCtrl, toHost, radio, early, refused>>

Main == \/ HCI_send_command \/ BeginWait \/ HCI_wait_response \/ HCI_reset
        \/ CopyLow \/ CopyHigh

-----------------------------------------------------------------------------
(* The UART interrupt: HCI_handle_hw_rx up to the end of a packet, then    *)
(* HCI_handle_event.                                                       *)

\* Packets that reach beyond rx_buffer[6].
Long(e) == IF IsAnswer(e) THEN e.ok /\ e.cmd \in ReadCommand
           ELSE e.type # "DISCONNECTION_COMPLETE"

Owner(e) == IF IsAnswer(e) THEN e.cmd ELSE "RADIO"

\* Of these all but the answer with an address reach beyond rx_buffer[12].
FillsEnd(owner) == owner # "READ_BD_ADDR"

\* May the packet at the head be taken from the UART now?
MayReceive == /\ toHost # <<>>
              /\ IrqInGap \/ pc # "sent" \/ ~IsAnswer(Head(toHost))

\* An interrupt that ends in the middle of a long packet.
ReceivePart ==
  /\ MayReceive /\ Long(Head(toHost)) /\ ~rxPartial
  /\ rxPartial' = TRUE /\ rxLow' = Owner(Head(toHost))
  /\ UNCHANGED <<mainVars, waiting_response, hci_state, rxHigh, rxEnd, toCtrl,
                 toHost, radio, early, refused>>

\* Slip: the enable commands set the state instead of toggling it.
EnableAlwaysStarts(op) ==
  CASE op \in {"RESET", "SET_SCAN_PARAMS", "READ_BD_ADDR"} -> "ON"
    [] op = "SET_ADVERTISE_ENABLE" -> "ADVERTISING"
    [] op = "SET_SCAN_ENABLE"      -> "SCANNING"
    [] OTHER -> hci_state

\* The state after a successful Command Complete for an op code.
CompleteState(op) ==
  CASE op \in {"RESET", "SET_SCAN_PARAMS", "READ_BD_ADDR"} -> "ON"
    [] op = "SET_ADVERTISE_ENABLE" ->
         IF hci_state = "ADVERTISING" THEN "ON" ELSE "ADVERTISING"
    [] op = "SET_SCAN_ENABLE" ->
         IF hci_state = "SCANNING" THEN "ON" ELSE "SCANNING"
    [] OTHER -> hci_state

\* Slip: the flag is cleared after the check of the status, not before it.
ClearedOnSuccess(e) ==
  /\ waiting_response' = (waiting_response /\ ~e.ok)
  /\ hci_state' = IF e.ok THEN CompleteState(OpCode(e.cmd)) ELSE hci_state

HCI_handle_command_complete_event(e) ==
  /\ waiting_response' = FALSE
  /\ hci_state' = IF e.ok THEN CompleteState(OpCode(e.cmd)) ELSE hci_state

\* Slip: the connection is taken for up when the request is acknowledged.
ConnectedOnStatus(e) ==
  /\ hci_state' = IF e.ok /\ e.cmd = "CREATE_CONNECTION" THEN "CONNECTED" ELSE hci_state
  /\ UNCHANGED waiting_response

HCI_handle_command_status_event(e) ==
  /\ hci_state' = IF ~e.ok THEN hci_state
                  ELSE CASE e.cmd = "CREATE_CONNECTION" -> "CONNECTING"
                         [] e.cmd = "DISCONNECT"        -> "DISCONNECTED"
                         [] OTHER                       -> hci_state
  /\ UNCHANGED waiting_response

\* Slip: every event ends the wait, as if only answers ever came.
AnyEventWakes(e) ==
  \/ e.type = "COMMAND_COMPLETE" /\ HCI_handle_command_complete_event(e)
  \/ e.type # "COMMAND_COMPLETE" /\ waiting_response' = FALSE /\ UNCHANGED hci_state

\* HCI_handle_event; the handlers of the radio's own events are empty.
HCI_handle_event(e) ==
  \/ /\ e.type = "COMMAND_COMPLETE"
     /\ HCI_handle_command_complete_event(e)
  \/ /\ e.type = "COMMAND_STATUS"
     /\ HCI_handle_command_status_event(e)
  \/ /\ ~IsAnswer(e)
     /\ UNCHANGED <<waiting_response, hci_state>>

ReceivePacket ==
  /\ MayReceive
  /\ LET e == Head(toHost) IN
       /\ Long(e) => rxPartial
       /\ HCI_handle_event(e)
       /\ rxHigh' = IF Long(e) THEN Owner(e) ELSE rxHigh
       /\ rxEnd'  = IF Long(e) /\ FillsEnd(Owner(e)) THEN Owner(e) ELSE rxEnd
       /\ early' = (early \/ (pc = "sent" /\ IsAnswer(e) /\ e.cmd = cmd))
       /\ refused' = (refused \/ (IsAnswer(e) /\ ~e.ok))
  /\ rxPartial' = FALSE
  /\ toHost' = Tail(toHost)
  /\ UNCHANGED <<mainVars, rxLow, toCtrl, radio>>

Irq == ReceivePart \/ ReceivePacket

-----------------------------------------------------------------------------
(* The controller (external): answers in order, one event per command.     *)

Effect(c) ==
  /\ adv'  = CASE c = "ADV_ENABLE" -> TRUE
               [] c \in {"ADV_DISABLE", "RESET"} -> FALSE
               [] OTHER -> adv
  /\ scan' = CASE c = "SCAN_ENABLE" -> TRUE
               [] c \in {"SCAN_DISABLE", "RESET"} -> FALSE
               [] OTHER -> scan
  /\ link' = CASE c = "CREATE_CONNECTION" -> "pending"
               [] c \in {"DISCONNECT", "RESET"} -> "none"
               [] OTHER -> link

AnswerTo(c, ok) ==
  [type |-> IF c \in StatusAnswered THEN "COMMAND_STATUS" ELSE "COMMAND_COMPLETE",
   cmd  |-> c, ok |-> ok]

Accept ==
  /\ toCtrl # <<>>
  /\ Effect(Head(toCtrl))
  /\ toHost' = Append(toHost, AnswerTo(Head(toCtrl), TRUE))
  /\ toCtrl' = Tail(toCtrl)
  /\ UNCHANGED <<mainVars, rxVars, early, refused>>

Refuse ==
  /\ toCtrl # <<>> /\ Head(toCtrl) \in MayRefuse
  /\ toHost' = Append(toHost, AnswerTo(Head(toCtrl), FALSE))
  /\ toCtrl' = Tail(toCtrl)
  /\ UNCHANGED <<mainVars, rxVars, radio, early, refused>>

Emit(type) ==
  /\ Len(toHost) < MaxQueue
  /\ toHost' = Append(toHost, [type |-> type])
  /\ UNCHANGED <<mainVars, rxVars, toCtrl, early, refused>>

Report     == scan /\ Emit("ADV_REPORT") /\ UNCHANGED radio
LinkUp     == /\ link = "pending" /\ Emit("CONNECTION_COMPLETE")
              /\ link' = "up" /\ UNCHANGED <<adv, scan>>
\* A peer connects to the advertiser, which stops advertising by itself.
PeerConnects == /\ Connectable /\ adv /\ link = "none"
                /\ Emit("CONNECTION_COMPLETE")
                /\ adv' = FALSE /\ link' = "up" /\ UNCHANGED scan
LinkLost   == /\ link = "up" /\ Emit("DISCONNECTION_COMPLETE")
              /\ link' = "none" /\ UNCHANGED <<adv, scan>>

Controller == Accept \/ Refuse

-----------------------------------------------------------------------------

Next == \/ \E c \in Call : MakeCall(c)
        \/ Main
        \/ Irq
        \/ Controller
        \/ Report \/ LinkUp \/ PeerConnects \/ LinkLost

Spec == Init /\ [][Next]_vars

\* The CPU runs, the UART interrupt is served, the controller answers; the
\* application need not make calls and the radio need not report.
Fairness == WF_vars(Main) /\ WF_vars(Irq) /\ WF_vars(Controller)

FairSpec == Spec /\ Fairness

-----------------------------------------------------------------------------
(* Properties.                                                             *)

\* The thread spins and nothing that could end the spin is under way.
Stuck == /\ ~AnswerDue
         /\ \/ pc = "wait" /\ waiting_response
            \/ pc = "reset_wait" /\ hci_state # "ON"

\* The three ways the handshake is known to fail.
Excused == \/ early /\ cmd # "RESET"
           \/ cmd \in StatusAnswered
           \/ cmd = "RESET" /\ refused

\* The application thread hangs for one of three reasons only: the answer was
\* handled before HCI_wait_response set its flag, the command is answered by
\* Command Status, or the controller refused the reset.  Every other command,
\* under every interleaving, is answered while somebody is waiting.
HangCause == Stuck => Excused

\* HCI_wait_response (or HCI_reset) returns only when the controller's answer
\* to the command has been handled: no answer is outstanding when the thread
\* is about to go on, and none when the application has the processor.
WakeMeansAnswered ==
  \/ pc = "idle"
  \/ pc = "wait" /\ ~waiting_response
  \/ pc = "reset_wait" /\ hci_state = "ON"
  => ~AnswerDue

\* A command leaves only when the one before it was answered: the code ignores
\* num_cmd_packets, so this is all the flow control the controller gets.
OneCommandAtATime == [][HCI_send_command => ~AnswerDue]_vars

\* Between commands HCI_get_state tells whether the radio advertises or scans,
\* although the handler toggles the state without looking at the enable flag.
StateTracksRadio ==
  ~AnswerDue => /\ (hci_state = "ADVERTISING") = adv
                /\ (hci_state = "SCANNING") = scan

\* What a read call that was answered with success returns is from its own
\* answer or from one of the others; an address has no bytes at the end.
ReadFrom(others) ==
  pc = "idle" /\ cmd \in ReadCommand /\ ~refused =>
    /\ info.low \in {cmd} \cup others /\ info.high \in {cmd} \cup others
    /\ FillsEnd(cmd) => info.end \in {cmd} \cup others

\* A read call of an application whose radio is silent when it reads returns
\* its own answer, whole.  (HCI_get_bt_addr returns two bytes more than the
\* address, left in rx_buffer by an earlier packet; nothing is said of them.)
ReadIsOwn == ReadFrom({})

\* A read call of any application may return a mixture, for packets go on to
\* arrive while it copies; but what is not from its answer is from a packet the
\* radio sent by itself, never from the answer to an earlier command.
ReadIsOwnOrRadio == ReadFrom({"RADIO"})

\* Every command that is sent leads back to the application.
CallReturns == pc = "sent" ~> pc = "idle"

\* ... or to one of the three known hangs.
CallReturnsOrExcused == pc = "sent" ~> (pc = "idle" \/ Excused)

\* The handshake as its caller sees it.
Phase == IF pc \notin {"sent", "wait", "reset_wait"} THEN "ready"
         ELSE IF AnswerDue THEN "asked" ELSE "answered"

Channel == INSTANCE CommandChannel WITH Op <- Command, phase <- Phase, op <- cmd

\* The handshake implements the channel's safety, whatever the timing.
ImplementsChannel == Channel!Spec

=============================================================================
