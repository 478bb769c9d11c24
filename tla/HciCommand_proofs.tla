-------------------------- MODULE HciCommand_proofs --------------------------
(***************************************************************************)
(* Theorems of HciCommand for every value of its constants: why a call     *)
(* hangs, that the handshake is a CommandChannel, that the state follows   *)
(* the radio, and that a read returns its own answer.                      *)
(***************************************************************************)
EXTENDS HciCommand, SequenceTheorems, TLAPS

-----------------------------------------------------------------------------
(* Sequences.                                                              *)

LEMMA AppendFacts ==
  ASSUME NEW S, NEW s \in Seq(S), NEW x \in S
  PROVE  /\ Append(s, x) \in Seq(S)
         /\ Append(s, x) # <<>>
         /\ Len(Append(s, x)) = Len(s) + 1
         /\ DOMAIN Append(s, x) = 1 .. Len(s) + 1
         /\ \A i \in 1 .. Len(s) : Append(s, x)[i] = s[i]
         /\ Append(s, x)[Len(s) + 1] = x
OBVIOUS

LEMMA TailFacts ==
  ASSUME NEW S, NEW s \in Seq(S), s # <<>>
  PROVE  /\ Len(s) \in Nat \ {0}
         /\ Head(s) = s[1] /\ Head(s) \in S
         /\ Tail(s) \in Seq(S)
         /\ Len(Tail(s)) = Len(s) - 1
         /\ DOMAIN Tail(s) = 1 .. Len(s) - 1
         /\ \A i \in 1 .. Len(s) - 1 : Tail(s)[i] = s[i + 1]
         /\ (Tail(s) = <<>>) <=> (Len(s) = 1)
<1>1. Len(s) \in Nat \ {0} /\ DOMAIN s = 1 .. Len(s)
  BY EmptySeq, LenProperties
<1>2. /\ Head(s) \in S /\ Tail(s) \in Seq(S) /\ Len(Tail(s)) = Len(s) - 1
      /\ \A i \in 1 .. Len(Tail(s)) : Tail(s)[i] = s[i + 1]
  BY HeadTailProperties
<1>3. Head(s) = s[1]
  OBVIOUS
<1>4. DOMAIN Tail(s) = 1 .. Len(s) - 1
  BY <1>2, LenProperties
<1>5. (Tail(s) = <<>>) <=> (Len(s) = 1)
  BY <1>1, <1>2, EmptySeq
<1> QED BY <1>1, <1>2, <1>3, <1>4, <1>5

LEMMA ScriptFacts ==
  ASSUME NEW c \in Call
  PROVE  /\ Script[c] \in Seq(Command) /\ Script[c] # <<>>
         /\ c \notin {"HCI_init", "HCI_reset"} =>
              \A i \in DOMAIN Script[c] : Script[c][i] # "RESET"
<1>1. \E n \in 1 .. 3 : Script[c] \in [1 .. n -> Command]
  BY DEF Call, Script, Command
<1>2. Script[c] \in Seq(Command)
  BY <1>1, SeqDef
<1>3. Script[c] # <<>>
  BY DEF Call, Script
<1>4. ASSUME c \notin {"HCI_init", "HCI_reset"}, NEW i \in DOMAIN Script[c]
      PROVE  Script[c][i] # "RESET"
  BY <1>4 DEF Call, Script
<1> QED BY <1>2, <1>3, <1>4

LEMMA InitScript == /\ Script["HCI_init"] = <<"RESET", "MINIDRIVER", "WRITE_RAM">>
                    /\ "HCI_init" \in Call
BY DEF Call, Script

-----------------------------------------------------------------------------
(* Type correctness.                                                       *)

\* A command is left to send when the thread is about to send one.
ScriptReady == pc = "send" => script # <<>>

TypeInv == TypeOK /\ ScriptReady

LEMMA EventFacts ==
  ASSUME NEW e \in Event
  PROVE  /\ IsAnswer(e) => e.cmd \in Command /\ e.ok \in BOOLEAN
         /\ Owner(e) \in Content
BY DEF Event, AnswerEvent, RadioEvent, IsAnswer, Owner, Content

LEMMA AnswerFacts ==
  ASSUME NEW c \in Command, NEW ok \in BOOLEAN
  PROVE  /\ AnswerTo(c, ok) \in Event
         /\ IsAnswer(AnswerTo(c, ok))
         /\ AnswerTo(c, ok).cmd = c
         /\ AnswerTo(c, ok).type = "COMMAND_STATUS" <=> c \in StatusAnswered
BY DEF AnswerTo, Event, AnswerEvent, IsAnswer

LEMMA RadioFacts ==
  ASSUME NEW type \in {"ADV_REPORT", "CONNECTION_COMPLETE", "DISCONNECTION_COMPLETE"}
  PROVE  [type |-> type] \in Event /\ ~IsAnswer([type |-> type])
BY DEF Event, RadioEvent, IsAnswer

LEMMA TypeInit == Init => TypeInv
<1> SUFFICES ASSUME Init PROVE TypeInv
  OBVIOUS
<1>1. script \in Seq(Command) /\ toCtrl \in Seq(Command) /\ toHost \in Seq(Event)
  BY EmptySeq DEF Init
<1>2. info \in [low : Content, high : Content, end : Content]
  BY DEF Init, Content
<1> QED BY <1>1, <1>2 DEF Init, TypeInv, TypeOK, ScriptReady, HCIState, Content

LEMMA TypeStep == TypeInv /\ [Next]_vars => TypeInv'
<1> SUFFICES ASSUME TypeInv, [Next]_vars
             PROVE  TypeInv'
  OBVIOUS
<1> USE DEF TypeInv, TypeOK, ScriptReady
<1>1. ASSUME NEW c \in Call, MakeCall(c)
      PROVE  TypeInv'
  BY <1>1, ScriptFacts DEF MakeCall, rxVars, radio
<1>2. CASE HCI_send_command
  <2>1. Head(script) \in Command /\ Tail(script) \in Seq(Command)
    BY <1>2, TailFacts DEF HCI_send_command
  <2>2. toCtrl' \in Seq(Command)
    BY <1>2, <2>1, AppendFacts DEF HCI_send_command
  <2> QED BY <1>2, <2>1, <2>2 DEF HCI_send_command, rxVars, radio
<1>3. CASE BeginWait
  BY <1>3 DEF BeginWait, radio
<1>4. CASE HCI_wait_response
  BY <1>4 DEF HCI_wait_response, Continue, HCIState, radio
<1>5. CASE HCI_reset
  BY <1>5 DEF HCI_reset, Continue, rxVars, radio
<1>6. CASE CopyLow
  BY <1>6 DEF CopyLow, rxVars, radio
<1>7. CASE CopyHigh
  BY <1>7 DEF CopyHigh, Continue, rxVars, radio
<1>8. CASE ReceivePart
  <2>1. Owner(Head(toHost)) \in Content
    BY <1>8, TailFacts, EventFacts DEF ReceivePart, MayReceive
  <2> QED BY <1>8, <2>1 DEF ReceivePart, mainVars, radio
<1>9. CASE ReceivePacket
  <2> DEFINE e == Head(toHost)
  <2>1. e \in Event /\ Tail(toHost) \in Seq(Event)
    BY <1>9, TailFacts DEF ReceivePacket, MayReceive
  <2>2. /\ waiting_response' \in BOOLEAN
        /\ hci_state' \in HCIState
    BY <1>9, <2>1 DEF ReceivePacket, HCI_handle_event, HCI_handle_command_complete_event,
          HCI_handle_command_status_event, CompleteState, HCIState
  <2>3. rxHigh' \in Content /\ rxEnd' \in Content /\ early' \in BOOLEAN /\ refused' \in BOOLEAN
    BY <1>9, <2>1, EventFacts DEF ReceivePacket
  <2> QED BY <1>9, <2>1, <2>2, <2>3 DEF ReceivePacket, mainVars, radio
<1>10. CASE Accept \/ Refuse
  <2>1. Head(toCtrl) \in Command /\ Tail(toCtrl) \in Seq(Command)
    BY <1>10, TailFacts DEF Accept, Refuse
  <2>2. toHost' \in Seq(Event)
    <3>1. PICK ok \in BOOLEAN : toHost' = Append(toHost, AnswerTo(Head(toCtrl), ok))
      BY <1>10 DEF Accept, Refuse
    <3> QED BY <2>1, <3>1, AppendFacts, AnswerFacts
  <2>3. adv' \in BOOLEAN /\ scan' \in BOOLEAN /\ link' \in {"none", "pending", "up"}
    BY <1>10 DEF Accept, Refuse, Effect, radio
  <2> QED BY <1>10, <2>1, <2>2, <2>3 DEF Accept, Refuse, mainVars, rxVars
<1>11. CASE Report \/ LinkUp \/ PeerConnects \/ LinkLost
  <2>1. toHost' \in Seq(Event)
    <3>1. PICK type \in {"ADV_REPORT", "CONNECTION_COMPLETE", "DISCONNECTION_COMPLETE"} :
            toHost' = Append(toHost, [type |-> type])
      BY <1>11 DEF Report, LinkUp, PeerConnects, LinkLost, Emit
    <3> QED BY <3>1, AppendFacts, RadioFacts
  <2>2. adv' \in BOOLEAN /\ scan' \in BOOLEAN /\ link' \in {"none", "pending", "up"}
    BY <1>11 DEF Report, LinkUp, PeerConnects, LinkLost, radio
  <2>3. UNCHANGED <<mainVars, rxVars, toCtrl, early, refused>>
    BY <1>11 DEF Report, LinkUp, PeerConnects, LinkLost, Emit
  <2> QED BY <2>1, <2>2, <2>3 DEF mainVars, rxVars
<1>12. CASE UNCHANGED vars
  BY <1>12 DEF vars, mainVars, rxVars, radio
<1> QED
  BY <1>1, <1>2, <1>3, <1>4, <1>5, <1>6, <1>7, <1>8, <1>9, <1>10, <1>11, <1>12
  DEF Next, Main, Irq, Controller

LEMMA TypeInvariant == Spec => []TypeInv
<1>1. Init => TypeInv
  BY TypeInit
<1>2. TypeInv /\ [Next]_vars => TypeInv'
  BY TypeStep
<1> QED BY <1>1, <1>2, PTL DEF Spec

\* The variables keep the types of the program's, and hci_state never takes
\* HCI_STATE_WAITING_RESPONSE, CONNECTED, SLEEP or ERROR: nothing sets them.
THEOREM TypeCorrect == Spec => []TypeOK
<1>1. TypeInv => TypeOK
  BY DEF TypeInv
<1> QED BY <1>1, TypeInvariant, PTL

-----------------------------------------------------------------------------
(* Why the application thread can hang.                                    *)

\* Which of the two events answers a command depends on the command alone.
AnswerShape ==
  \A i \in DOMAIN toHost : IsAnswer(toHost[i]) =>
    (toHost[i].type = "COMMAND_STATUS" <=> toHost[i].cmd \in StatusAnswered)

\* The last answer outstanding is to the last command sent.
LastIsMine ==
  /\ toCtrl # <<>> => toCtrl[Len(toCtrl)] = cmd
  /\ \A i \in DOMAIN toHost : IsAnswer(toHost[i]) =>
       \/ toHost[i].cmd = cmd
       \/ toCtrl # <<>>
       \/ \E j \in DOMAIN toHost : j > i /\ IsAnswer(toHost[j])

\* HCI_reset waits for the reset, HCI_wait_response for the other commands.
WaitKind == /\ pc = "wait" => cmd # "RESET"
            /\ pc = "reset_wait" => cmd = "RESET"

\* What has become of the command in hand once its answer has been handled.
Awaited ==
  pc \in {"sent", "wait", "reset_wait"} /\ ~AnswerDue =>
    IF cmd = "RESET"
    THEN refused \/ hci_state = "ON"
    ELSE early \/ cmd \in StatusAnswered \/ (pc = "wait" /\ ~waiting_response)

HangInv == AnswerShape /\ LastIsMine /\ WaitKind /\ Awaited

LEMMA HangInit == Init => HangInv
BY DEF Init, HangInv, AnswerShape, LastIsMine, WaitKind, Awaited

LEMMA HangInvGivesCause == HangInv => HangCause
BY DEF HangInv, WaitKind, Awaited, HangCause, Stuck, Excused

\* An answer is outstanding after the controller has given one.
LEMMA Answered ==
  ASSUME TypeInv, Accept \/ Refuse
  PROVE  /\ AnswerDue'
         /\ AnswerShape => AnswerShape'
         /\ LastIsMine => LastIsMine'
<1>1. PICK ok \in BOOLEAN : toHost' = Append(toHost, AnswerTo(Head(toCtrl), ok))
  BY DEF Accept, Refuse
<1> DEFINE a == AnswerTo(Head(toCtrl), ok)
           n == Len(toHost) + 1
<1>2. /\ toCtrl # <<>> /\ toCtrl' = Tail(toCtrl) /\ cmd' = cmd
      /\ toCtrl \in Seq(Command) /\ toHost \in Seq(Event)
  BY DEF Accept, Refuse, mainVars, TypeInv, TypeOK
<1>3. /\ Head(toCtrl) = toCtrl[1] /\ Head(toCtrl) \in Command
      /\ Len(toCtrl) \in Nat \ {0} /\ Len(Tail(toCtrl)) = Len(toCtrl) - 1
      /\ \A k \in 1 .. Len(toCtrl) - 1 : Tail(toCtrl)[k] = toCtrl[k + 1]
      /\ (Tail(toCtrl) = <<>>) <=> (Len(toCtrl) = 1)
  BY <1>2, TailFacts
<1>4. /\ a \in Event /\ IsAnswer(a) /\ a.cmd = Head(toCtrl)
      /\ a.type = "COMMAND_STATUS" <=> a.cmd \in StatusAnswered
  BY <1>3, AnswerFacts
<1>5. /\ DOMAIN toHost = 1 .. Len(toHost) /\ Len(toHost) \in Nat
      /\ DOMAIN toHost' = 1 .. n
      /\ \A i \in 1 .. Len(toHost) : toHost'[i] = toHost[i]
      /\ toHost'[n] = a
  BY <1>1, <1>2, <1>4, AppendFacts, LenProperties
<1>6. AnswerDue'
  BY <1>4, <1>5 DEF AnswerDue
<1>7. AnswerShape => AnswerShape'
  BY <1>4, <1>5 DEF AnswerShape
<1>8. ASSUME LastIsMine
      PROVE  LastIsMine'
  <2>1. toCtrl[Len(toCtrl)] = cmd
    BY <1>2, <1>8 DEF LastIsMine
  <2>2. toCtrl' # <<>> => toCtrl'[Len(toCtrl')] = cmd'
    BY <1>2, <1>3, <2>1
  <2>3. ASSUME NEW i \in DOMAIN toHost', IsAnswer(toHost'[i]), toCtrl' = <<>>
        PROVE  \/ toHost'[i].cmd = cmd'
               \/ \E j \in DOMAIN toHost' : j > i /\ IsAnswer(toHost'[j])
    <3>1. a.cmd = cmd'
      BY <1>2, <1>3, <1>4, <2>1, <2>3
    <3> QED BY <1>4, <1>5, <3>1
  <2> QED BY <2>2, <2>3 DEF LastIsMine, IsAnswer
<1> QED BY <1>6, <1>7, <1>8

\* What the radio reports by itself changes nothing of the handshake.
LEMMA Reported ==
  ASSUME TypeInv, Report \/ LinkUp \/ PeerConnects \/ LinkLost
  PROVE  /\ AnswerDue' = AnswerDue
         /\ AnswerShape => AnswerShape'
         /\ LastIsMine => LastIsMine'
         /\ UNCHANGED <<mainVars, rxVars, toCtrl, early, refused>>
<1>1. PICK type \in {"ADV_REPORT", "CONNECTION_COMPLETE", "DISCONNECTION_COMPLETE"} :
        toHost' = Append(toHost, [type |-> type])
  BY DEF Report, LinkUp, PeerConnects, LinkLost, Emit
<1>2. UNCHANGED <<mainVars, rxVars, toCtrl, early, refused>>
  BY DEF Report, LinkUp, PeerConnects, LinkLost, Emit
<1> DEFINE r == [type |-> type]
           n == Len(toHost) + 1
<1>3. r \in Event /\ ~IsAnswer(r)
  BY RadioFacts
<1>4. /\ DOMAIN toHost = 1 .. Len(toHost) /\ Len(toHost) \in Nat
      /\ DOMAIN toHost' = 1 .. n
      /\ \A i \in 1 .. Len(toHost) : toHost'[i] = toHost[i]
      /\ toHost'[n] = r
  BY <1>1, <1>3, AppendFacts, LenProperties DEF TypeInv, TypeOK
<1>5. \A i \in DOMAIN toHost' : IsAnswer(toHost'[i]) => i \in DOMAIN toHost
  BY <1>3, <1>4
<1>6. \A i \in DOMAIN toHost : i \in DOMAIN toHost' /\ toHost'[i] = toHost[i]
  BY <1>4
<1> HIDE DEF r, n
<1>7. AnswerDue' = AnswerDue
  BY <1>2, <1>5, <1>6 DEF AnswerDue
<1>8. AnswerShape => AnswerShape'
  BY <1>5, <1>6 DEF AnswerShape
<1>9. LastIsMine => LastIsMine'
  BY <1>2, <1>5, <1>6 DEF LastIsMine, mainVars
<1> QED BY <1>2, <1>7, <1>8, <1>9

\* What the handling of the packet at the head leaves behind.
LEMMA Received ==
  ASSUME TypeInv, ReceivePacket
  PROVE  /\ toHost # <<>> /\ Head(toHost) \in Event
         /\ IsAnswer(Head(toHost)) => AnswerDue
         /\ AnswerDue' => AnswerDue
         /\ ~IsAnswer(Head(toHost)) => AnswerDue' = AnswerDue
         /\ AnswerShape => AnswerShape'
         /\ LastIsMine => LastIsMine'
         /\ LastIsMine /\ IsAnswer(Head(toHost)) /\ ~AnswerDue' => Head(toHost).cmd = cmd
<1>1. /\ toHost # <<>> /\ toHost \in Seq(Event)
      /\ toHost' = Tail(toHost) /\ toCtrl' = toCtrl /\ cmd' = cmd
  BY DEF ReceivePacket, MayReceive, mainVars, TypeInv, TypeOK
<1> DEFINE e == Head(toHost)
           n == Len(toHost)
<1>2. /\ n \in Nat \ {0} /\ DOMAIN toHost = 1 .. n
      /\ e = toHost[1] /\ e \in Event
      /\ DOMAIN toHost' = 1 .. n - 1
      /\ \A i \in 1 .. n - 1 : toHost'[i] = toHost[i + 1]
  BY <1>1, TailFacts, LenProperties
<1>3. \A i \in DOMAIN toHost : i = 1 \/ (i - 1 \in DOMAIN toHost' /\ toHost'[i - 1] = toHost[i])
  BY <1>2
<1>4. \A i \in DOMAIN toHost' : i + 1 \in DOMAIN toHost /\ toHost'[i] = toHost[i + 1]
  BY <1>2
<1>5. 1 \in DOMAIN toHost /\ DOMAIN toHost \subseteq Nat /\ DOMAIN toHost' \subseteq Nat
  BY <1>2
<1>6. e = toHost[1] /\ e \in Event
  BY <1>2
<1> HIDE DEF e, n
<1>7. /\ IsAnswer(e) => AnswerDue
      /\ AnswerDue' => AnswerDue
      /\ ~IsAnswer(e) => AnswerDue' = AnswerDue
  BY <1>1, <1>3, <1>4, <1>5, <1>6 DEF AnswerDue
<1>8. AnswerShape => AnswerShape'
  BY <1>4 DEF AnswerShape
<1>9. ASSUME LastIsMine
      PROVE  LastIsMine'
  <2>1. toCtrl' # <<>> => toCtrl'[Len(toCtrl')] = cmd'
    BY <1>1, <1>9 DEF LastIsMine
  <2>2. ASSUME NEW i \in DOMAIN toHost', IsAnswer(toHost'[i]), toCtrl' = <<>>,
               toHost'[i].cmd # cmd'
        PROVE  \E j \in DOMAIN toHost' : j > i /\ IsAnswer(toHost'[j])
    <3>1. PICK k \in DOMAIN toHost : k > i + 1 /\ IsAnswer(toHost[k])
      BY <1>1, <1>4, <1>9, <2>2 DEF LastIsMine
    <3>2. k - 1 \in DOMAIN toHost' /\ toHost'[k - 1] = toHost[k] /\ k - 1 > i
      BY <1>3, <1>5, <3>1
    <3> QED BY <3>1, <3>2
  <2> QED BY <2>1, <2>2 DEF LastIsMine, IsAnswer
<1>10. ASSUME LastIsMine, IsAnswer(e), ~AnswerDue'
       PROVE  e.cmd = cmd
  <2>1. toCtrl = <<>> /\ \A j \in DOMAIN toHost : j > 1 => ~IsAnswer(toHost[j])
    <3>1. toCtrl = <<>> /\ \A i \in DOMAIN toHost' : ~IsAnswer(toHost'[i])
      BY <1>1, <1>10 DEF AnswerDue, IsAnswer
    <3> QED BY <1>3, <3>1
  <2> QED BY <1>5, <1>6, <1>10, <2>1 DEF LastIsMine
<1> QED BY <1>1, <1>6, <1>7, <1>8, <1>9, <1>10 DEF e

LEMMA HangStep == TypeInv /\ HangInv /\ [Next]_vars => HangInv'
<1> SUFFICES ASSUME TypeInv, HangInv, [Next]_vars
             PROVE  HangInv'
  OBVIOUS
<1> USE DEF HangInv
<1>1. ASSUME NEW c \in Call, MakeCall(c)
      PROVE  HangInv'
  BY <1>1 DEF MakeCall, AnswerShape, LastIsMine, WaitKind, Awaited
<1>2. CASE HCI_send_command
  <2>1. /\ toCtrl' # <<>> /\ toCtrl'[Len(toCtrl')] = cmd'
        /\ toHost' = toHost /\ pc' = "sent"
    <3>1. Head(script) \in Command
      BY <1>2, TailFacts DEF HCI_send_command, TypeInv, TypeOK, ScriptReady
    <3> QED BY <1>2, <3>1, AppendFacts DEF HCI_send_command, TypeInv, TypeOK
  <2>2. AnswerDue'
    BY <2>1 DEF AnswerDue
  <2> QED BY <2>1, <2>2 DEF AnswerShape, LastIsMine, WaitKind, Awaited, IsAnswer
<1>3. CASE BeginWait
  <2>1. AnswerDue' = AnswerDue
    BY <1>3 DEF BeginWait, AnswerDue
  <2> QED BY <1>3, <2>1 DEF BeginWait, AnswerShape, LastIsMine, WaitKind, Awaited
<1>4. CASE HCI_wait_response \/ HCI_reset \/ CopyLow \/ CopyHigh
  <2>1. pc' \in {"idle", "send", "copyLow", "copyHigh"}
    BY <1>4 DEF HCI_wait_response, HCI_reset, CopyLow, CopyHigh, Continue
  <2>2. UNCHANGED <<toHost, toCtrl, cmd>>
    BY <1>4 DEF HCI_wait_response, HCI_reset, CopyLow, CopyHigh, rxVars
  <2> QED BY <2>1, <2>2 DEF AnswerShape, LastIsMine, WaitKind, Awaited
<1>5. CASE ReceivePart \/ UNCHANGED vars
  <2>1. UNCHANGED <<pc, cmd, waiting_response, hci_state, toCtrl, toHost, early, refused>>
    BY <1>5 DEF ReceivePart, mainVars, vars, rxVars
  <2>2. AnswerDue' = AnswerDue
    BY <2>1 DEF AnswerDue
  <2> QED BY <2>1, <2>2 DEF AnswerShape, LastIsMine, WaitKind, Awaited
<1>6. CASE ReceivePacket
  <2> DEFINE e == Head(toHost)
  <2>1. /\ AnswerShape' /\ LastIsMine'
        /\ AnswerDue' => AnswerDue
        /\ ~IsAnswer(e) => AnswerDue' = AnswerDue
        /\ IsAnswer(e) /\ ~AnswerDue' => e.cmd = cmd
    BY <1>6, Received
  <2>2. pc' = pc /\ cmd' = cmd
    BY <1>6 DEF ReceivePacket, mainVars
  <2>3. CASE ~IsAnswer(e)
    <3>1. UNCHANGED <<waiting_response, hci_state, early, refused>>
      BY <1>6, <2>3, EventFacts DEF ReceivePacket, HCI_handle_event, IsAnswer, TypeInv, TypeOK
    <3> QED BY <2>1, <2>2, <2>3, <3>1 DEF WaitKind, Awaited
  <2>4. CASE IsAnswer(e) /\ ~AnswerDue'
    <3>1. e.type = "COMMAND_STATUS" <=> cmd \in StatusAnswered
      <4>1. 1 \in DOMAIN toHost /\ e = toHost[1]
        BY <1>6, TailFacts, LenProperties DEF ReceivePacket, MayReceive, TypeInv, TypeOK
      <4> QED BY <2>1, <2>4, <4>1 DEF AnswerShape
    <3>2. CASE cmd = "RESET"
      <4>1. e.type = "COMMAND_COMPLETE" /\ OpCode(e.cmd) = "RESET"
        BY <2>1, <2>4, <3>1, <3>2 DEF StatusAnswered, IsAnswer, OpCode
      <4>2. IF e.ok THEN hci_state' = "ON" ELSE refused'
        BY <1>6, <2>4, <4>1 DEF ReceivePacket, HCI_handle_event,
             HCI_handle_command_complete_event, CompleteState, IsAnswer
      <4> QED BY <2>1, <2>2, <3>2, <4>2 DEF WaitKind, Awaited
    <3>3. CASE cmd # "RESET" /\ cmd \in StatusAnswered
      BY <2>1, <2>2, <3>3 DEF WaitKind, Awaited
    <3>4. CASE cmd # "RESET" /\ cmd \notin StatusAnswered
      <4>1. ~waiting_response'
        BY <1>6, <2>4, <3>1, <3>4 DEF ReceivePacket, HCI_handle_event,
             HCI_handle_command_complete_event, IsAnswer
      <4>2. pc = "sent" => early'
        BY <1>6, <2>1, <2>4 DEF ReceivePacket
      <4> QED BY <2>1, <2>2, <3>4, <4>1, <4>2 DEF WaitKind, Awaited
    <3> QED BY <3>2, <3>3, <3>4
  <2>5. CASE AnswerDue'
    BY <2>1, <2>2, <2>5 DEF WaitKind, Awaited
  <2> QED BY <2>3, <2>4, <2>5
<1>7. CASE Accept \/ Refuse
  <2>1. pc' = pc /\ cmd' = cmd
    BY <1>7 DEF Accept, Refuse, mainVars
  <2> QED BY <1>7, <2>1, Answered DEF WaitKind, Awaited
<1>8. CASE Report \/ LinkUp \/ PeerConnects \/ LinkLost
  BY <1>8, Reported DEF WaitKind, Awaited, mainVars, rxVars
<1> QED
  BY <1>1, <1>2, <1>3, <1>4, <1>5, <1>6, <1>7, <1>8 DEF Next, Main, Irq, Controller

LEMMA HangInvariant == Spec => []HangInv
<1>1. Init => HangInv
  BY HangInit
<1>2. TypeInv /\ HangInv /\ [Next]_vars => HangInv'
  BY HangStep
<1> QED BY <1>1, <1>2, TypeInvariant, PTL DEF Spec

\* Whatever the application calls and whatever the timing, the application
\* thread hangs for one of the three reasons Excused lists.
THEOREM HangsAreExcused == Spec => []HangCause
BY HangInvGivesCause, HangInvariant, PTL

-----------------------------------------------------------------------------
(* The handshake of an application that never resets a running controller. *)

\* No more than one answer is outstanding, on either side of the link.
OneOutstanding ==
  /\ toCtrl # <<>> => Len(toCtrl) = 1 /\ \A i \in DOMAIN toHost : ~IsAnswer(toHost[i])
  /\ \A i, j \in DOMAIN toHost : IsAnswer(toHost[i]) /\ IsAnswer(toHost[j]) => i = j

\* Where the thread is, the answer to its last command has been handled.
Settled ==
  \/ pc \notin {"sent", "wait", "reset_wait"}
  \/ pc = "wait" /\ ~waiting_response
  \/ pc # "wait" /\ cmd = "RESET" /\ hci_state = "ON"
  => ~AnswerDue

\* A reset is sent by HCI_init only, while the state is not ON yet.
ColdReset ==
  /\ call = "none" => pc = "idle" /\ hci_state = "IDLE"
  /\ \A i \in DOMAIN script : script[i] = "RESET" => i = 1 /\ pc = "send" /\ hci_state # "ON"

ColdInv == OneOutstanding /\ Settled /\ ColdReset

LEMMA ColdInit == Init => ColdInv
BY DEF Init, ColdInv, OneOutstanding, Settled, ColdReset, AnswerDue

LEMMA ColdStep ==
  ASSUME "HCI_reset" \notin AppCalls
  PROVE  TypeInv /\ HangInv /\ ColdInv /\ [Next]_vars => ColdInv'
<1> SUFFICES ASSUME TypeInv, HangInv, ColdInv, [Next]_vars
             PROVE  ColdInv'
  OBVIOUS
<1> USE DEF ColdInv
<1>1. ASSUME NEW c \in Call, MakeCall(c)
      PROVE  ColdInv'
  <2>1. /\ AnswerDue' = AnswerDue /\ ~AnswerDue
        /\ pc' = "send" /\ hci_state' = hci_state /\ call' = c /\ script' = Script[c]
        /\ toCtrl' = toCtrl /\ toHost' = toHost
    BY <1>1 DEF MakeCall, AnswerDue, Settled, rxVars
  <2>2. c # "none"
    BY DEF Call, Script
  <2>3. CASE call = "none"
    <3>1. Script[c] = <<"RESET", "MINIDRIVER", "WRITE_RAM">> /\ hci_state # "ON"
      BY <1>1, <2>3, InitScript DEF MakeCall, ColdReset
    <3>2. ColdReset'
      BY <2>1, <2>2, <3>1 DEF ColdReset
    <3> QED BY <2>1, <3>2 DEF OneOutstanding, Settled, IsAnswer
  <2>4. CASE call # "none"
    <3>1. c \notin {"HCI_init", "HCI_reset"}
      BY <1>1, <2>4, ConstantsAssumption DEF MakeCall
    <3>2. \A i \in DOMAIN script' : script'[i] # "RESET"
      BY <2>1, <3>1, ScriptFacts
    <3>3. ColdReset'
      BY <2>1, <2>2, <3>2 DEF ColdReset
    <3> QED BY <2>1, <3>3 DEF OneOutstanding, Settled, IsAnswer
  <2> QED BY <2>3, <2>4
<1>2. CASE HCI_send_command
  <2>1. ~AnswerDue
    BY <1>2 DEF HCI_send_command, Settled
  <2>2. /\ Head(script) = script[1] /\ 1 \in DOMAIN script /\ Head(script) \in Command
        /\ DOMAIN script' \subseteq Nat \ {0}
        /\ \A i \in DOMAIN script' : i + 1 \in DOMAIN script /\ script'[i] = script[i + 1]
    BY <1>2, TailFacts, LenProperties DEF HCI_send_command, TypeInv, TypeOK, ScriptReady
  <2>3. OneOutstanding'
    <3>1. Len(toCtrl') = 1
      BY <1>2, <2>1, <2>2 DEF HCI_send_command, AnswerDue
    <3> QED BY <1>2, <2>1, <3>1 DEF HCI_send_command, OneOutstanding, AnswerDue
  <2>4. pc' = "sent" /\ cmd' = Head(script) /\ call' = call /\ hci_state' = hci_state
    BY <1>2 DEF HCI_send_command, rxVars
  <2>5. cmd' = "RESET" => hci_state' # "ON"
    BY <2>2, <2>4 DEF ColdReset
  <2>6. ColdReset'
    BY <1>2, <2>2, <2>4 DEF ColdReset, HCI_send_command
  <2> QED BY <2>3, <2>4, <2>5, <2>6 DEF Settled
<1>3. CASE BeginWait
  <2>1. AnswerDue' = AnswerDue
    BY <1>3 DEF BeginWait, AnswerDue
  <2> QED BY <1>3, <2>1 DEF BeginWait, OneOutstanding, Settled, ColdReset, IsAnswer
<1>4. CASE HCI_wait_response \/ HCI_reset \/ CopyLow \/ CopyHigh
  <2>1. ~AnswerDue
    BY <1>4 DEF HCI_wait_response, HCI_reset, CopyLow, CopyHigh, Settled, HangInv, WaitKind
  <2>2. /\ UNCHANGED <<call, script, toHost, toCtrl>> /\ pc # "idle" /\ pc # "send"
        /\ pc' \in {"idle", "send", "copyLow", "copyHigh"}
    BY <1>4 DEF HCI_wait_response, HCI_reset, CopyLow, CopyHigh, Continue, rxVars
  <2>3. ~AnswerDue'
    BY <2>1, <2>2 DEF AnswerDue
  <2> QED BY <2>2, <2>3 DEF OneOutstanding, Settled, ColdReset, IsAnswer
<1>5. CASE ReceivePart \/ UNCHANGED vars
  <2>1. UNCHANGED <<pc, call, script, cmd, waiting_response, hci_state, toCtrl, toHost>>
    BY <1>5 DEF ReceivePart, mainVars, vars, rxVars
  <2>2. AnswerDue' = AnswerDue
    BY <2>1 DEF AnswerDue
  <2> QED BY <2>1, <2>2 DEF OneOutstanding, Settled, ColdReset, IsAnswer
<1>6. CASE ReceivePacket
  <2> DEFINE e == Head(toHost)
  <2>1. UNCHANGED <<pc, call, script, cmd, toCtrl>>
    BY <1>6 DEF ReceivePacket, mainVars
  <2>2. /\ 1 \in DOMAIN toHost /\ e = toHost[1] /\ DOMAIN toHost' \subseteq Nat \ {0}
        /\ \A i \in DOMAIN toHost' : i + 1 \in DOMAIN toHost /\ toHost'[i] = toHost[i + 1]
    BY <1>6, TailFacts, LenProperties DEF ReceivePacket, MayReceive, TypeInv, TypeOK
  <2> HIDE DEF e
  <2>3. OneOutstanding'
    <3>1. ASSUME NEW i \in DOMAIN toHost', NEW j \in DOMAIN toHost',
                 IsAnswer(toHost'[i]), IsAnswer(toHost'[j])
          PROVE  i = j
      <4>1. i + 1 = j + 1
        BY <2>2, <3>1 DEF OneOutstanding
      <4> QED BY <2>2, <4>1
    <3>2. toCtrl' # <<>> =>
            Len(toCtrl') = 1 /\ \A i \in DOMAIN toHost' : ~IsAnswer(toHost'[i])
      BY <2>1, <2>2 DEF OneOutstanding
    <3> QED BY <3>1, <3>2 DEF OneOutstanding, IsAnswer
  <2>4. CASE ~IsAnswer(e)
    <3>1. UNCHANGED <<waiting_response, hci_state>> /\ AnswerDue' = AnswerDue
      BY <1>6, <2>4, Received, EventFacts DEF e, ReceivePacket, HCI_handle_event, IsAnswer
    <3> QED BY <2>1, <2>3, <3>1 DEF Settled, ColdReset
  <2>5. CASE IsAnswer(e)
    <3>1. AnswerDue
      BY <2>2, <2>5 DEF AnswerDue
    <3>2. pc \in {"sent", "wait", "reset_wait"}
      BY <3>1 DEF Settled
    <3>3. ~AnswerDue'
      <4>1. toCtrl = <<>>
        BY <2>2, <2>5 DEF OneOutstanding
      <4>2. ASSUME NEW i \in DOMAIN toHost' PROVE ~IsAnswer(toHost'[i])
        BY <2>2, <2>5 DEF OneOutstanding
      <4> QED BY <2>1, <4>1, <4>2 DEF AnswerDue, IsAnswer
    <3> QED BY <2>1, <2>3, <3>2, <3>3 DEF Settled, ColdReset
  <2> QED BY <2>4, <2>5
<1>7. CASE Accept \/ Refuse
  <2>1. UNCHANGED <<mainVars, rxVars>> /\ AnswerDue /\ AnswerDue'
    BY <1>7, Answered DEF Accept, Refuse, AnswerDue
  <2>2. toCtrl # <<>> /\ toCtrl' = Tail(toCtrl) /\ toCtrl \in Seq(Command)
        /\ toHost \in Seq(Event)
    BY <1>7 DEF Accept, Refuse, TypeInv, TypeOK
  <2>3. toCtrl' = <<>>
    BY <2>2, TailFacts DEF OneOutstanding
  <2>4. PICK ok \in BOOLEAN : toHost' = Append(toHost, AnswerTo(Head(toCtrl), ok))
    BY <1>7 DEF Accept, Refuse
  <2>5. /\ DOMAIN toHost = 1 .. Len(toHost) /\ DOMAIN toHost' = 1 .. Len(toHost) + 1
        /\ \A i \in 1 .. Len(toHost) : toHost'[i] = toHost[i]
    BY <2>2, <2>4, TailFacts, AnswerFacts, AppendFacts, LenProperties
  <2>6. \A i \in DOMAIN toHost' : IsAnswer(toHost'[i]) => i = Len(toHost) + 1
    BY <2>2, <2>5, LenProperties DEF OneOutstanding
  <2>7. OneOutstanding'
    BY <2>3, <2>6 DEF OneOutstanding, IsAnswer
  <2> QED BY <2>1, <2>7 DEF Settled, ColdReset, mainVars, rxVars
<1>8. CASE Report \/ LinkUp \/ PeerConnects \/ LinkLost
  <2>1. UNCHANGED <<mainVars, rxVars, toCtrl>> /\ AnswerDue' = AnswerDue
    BY <1>8, Reported
  <2>2. PICK type \in {"ADV_REPORT", "CONNECTION_COMPLETE", "DISCONNECTION_COMPLETE"} :
          toHost' = Append(toHost, [type |-> type])
    BY <1>8 DEF Report, LinkUp, PeerConnects, LinkLost, Emit
  <2>3. \A i \in DOMAIN toHost' :
          \/ ~IsAnswer(toHost'[i])
          \/ i \in DOMAIN toHost /\ toHost'[i] = toHost[i]
    <3>1. toHost \in Seq(Event)
      BY DEF TypeInv, TypeOK
    <3> DEFINE r == [type |-> type]
    <3>2. r \in Event /\ ~IsAnswer(r) /\ toHost' = Append(toHost, r)
      BY <2>2, RadioFacts
    <3> HIDE DEF r
    <3> QED BY <3>1, <3>2, AppendFacts, LenProperties
  <2>4. OneOutstanding'
    BY <2>1, <2>3 DEF OneOutstanding, IsAnswer
  <2> QED BY <2>1, <2>4 DEF Settled, ColdReset, mainVars, rxVars
<1> QED
  BY <1>1, <1>2, <1>3, <1>4, <1>5, <1>6, <1>7, <1>8 DEF Next, Main, Irq, Controller

LEMMA ColdInvariant ==
  ASSUME "HCI_reset" \notin AppCalls
  PROVE  Spec => []ColdInv
<1>1. Init => ColdInv
  BY ColdInit
<1>2. TypeInv /\ HangInv /\ ColdInv /\ [Next]_vars => ColdInv'
  BY ColdStep
<1> QED BY <1>1, <1>2, TypeInvariant, HangInvariant, PTL DEF Spec

\* HCI_wait_response, and HCI_reset inside HCI_init, return only after the
\* answer to their own command has been handled, whatever the timing.
THEOREM WakesAreAnswered ==
  ASSUME "HCI_reset" \notin AppCalls
  PROVE  Spec => []WakeMeansAnswered
<1>1. HangInv /\ ColdInv => WakeMeansAnswered
  BY DEF HangInv, WaitKind, ColdInv, Settled, WakeMeansAnswered
<1> QED BY <1>1, HangInvariant, ColdInvariant, PTL

\* The controller is never sent a command while it owes the answer to another,
\* although the code ignores num_cmd_packets.
THEOREM CommandsDoNotOverlap ==
  ASSUME "HCI_reset" \notin AppCalls
  PROVE  Spec => OneCommandAtATime
<1>1. ColdInv /\ [Next]_vars => [HCI_send_command => ~AnswerDue]_vars
  BY DEF ColdInv, Settled, HCI_send_command
<1> QED BY <1>1, ColdInvariant, PTL DEF Spec, OneCommandAtATime

LEMMA ChannelStep ==
  ASSUME "HCI_reset" \notin AppCalls
  PROVE  TypeInv /\ HangInv /\ ColdInv /\ ColdInv' /\ [Next]_vars
           => [Channel!Next]_<<Phase, cmd>>
<1> SUFFICES ASSUME TypeInv, HangInv, ColdInv, ColdInv', [Next]_vars
             PROVE  Channel!Next \/ UNCHANGED <<Phase, cmd>>
  BY DEF Channel!Next, Channel!Request, Channel!Respond, Channel!Resume
<1> USE DEF ColdInv
<1>1. ASSUME NEW c \in Call, MakeCall(c)
      PROVE  UNCHANGED <<Phase, cmd>>
  BY <1>1 DEF MakeCall, Phase
<1>2. CASE HCI_send_command
  <2>1. Head(script) \in Command /\ toCtrl' # <<>>
    BY <1>2, TailFacts, AppendFacts DEF HCI_send_command, TypeInv, TypeOK, ScriptReady
  <2>2. Phase = "ready" /\ Phase' = "asked" /\ cmd' \in Command
    BY <1>2, <2>1 DEF HCI_send_command, Phase, AnswerDue
  <2> QED BY <2>2 DEF Channel!Next, Channel!Request
<1>3. CASE BeginWait
  <2>1. AnswerDue' = AnswerDue
    BY <1>3 DEF BeginWait, AnswerDue
  <2> QED BY <1>3, <2>1 DEF BeginWait, Phase
<1>4. CASE HCI_wait_response \/ HCI_reset
  <2>1. ~AnswerDue /\ pc \in {"wait", "reset_wait"}
    BY <1>4 DEF HCI_wait_response, HCI_reset, Settled, HangInv, WaitKind
  <2>2. pc' \in {"idle", "send", "copyLow"} /\ cmd' = cmd
    BY <1>4 DEF HCI_wait_response, HCI_reset, Continue
  <2> QED BY <2>1, <2>2 DEF Channel!Next, Channel!Resume, Phase
<1>5. CASE CopyLow \/ CopyHigh
  BY <1>5 DEF CopyLow, CopyHigh, Continue, Phase
<1>6. CASE ReceivePart \/ UNCHANGED vars
  <2>1. UNCHANGED <<pc, cmd, toCtrl, toHost>>
    BY <1>6 DEF ReceivePart, mainVars, vars
  <2> QED BY <2>1 DEF Phase, AnswerDue
<1>7. CASE ReceivePacket
  <2>1. pc' = pc /\ cmd' = cmd
    BY <1>7 DEF ReceivePacket, mainVars
  <2>2. AnswerDue' => AnswerDue
    BY <1>7, Received
  <2>3. CASE AnswerDue' = AnswerDue
    BY <2>1, <2>3 DEF Phase
  <2>4. CASE AnswerDue /\ ~AnswerDue'
    <3>1. pc \in {"sent", "wait", "reset_wait"}
      BY <2>4 DEF Settled
    <3> QED BY <2>1, <2>4, <3>1 DEF Channel!Next, Channel!Respond, Phase
  <2> QED BY <2>2, <2>3, <2>4 DEF AnswerDue
<1>8. CASE Accept \/ Refuse
  <2>1. pc' = pc /\ cmd' = cmd /\ AnswerDue /\ AnswerDue'
    BY <1>8, Answered DEF Accept, Refuse, AnswerDue, mainVars
  <2> QED BY <2>1 DEF Phase
<1>9. CASE Report \/ LinkUp \/ PeerConnects \/ LinkLost
  BY <1>9, Reported DEF Phase, mainVars
<1> QED
  BY <1>1, <1>2, <1>3, <1>4, <1>5, <1>6, <1>7, <1>8, <1>9 DEF Next, Main, Irq, Controller

\* The handshake implements the abstract channel: each request is answered
\* once before its caller goes on, whatever the timing.
THEOREM HandshakeIsChannel ==
  ASSUME "HCI_reset" \notin AppCalls
  PROVE  Spec => ImplementsChannel
<1>1. Init => Channel!Init
  BY DEF Init, Channel!Init, Phase
<1>2. TypeInv /\ HangInv /\ ColdInv /\ ColdInv' /\ [Next]_vars
        => [Channel!Next]_<<Phase, cmd>>
  BY ChannelStep
<1> QED
  BY <1>1, <1>2, TypeInvariant, HangInvariant, ColdInvariant, PTL
  DEF Spec, ImplementsChannel, Channel!Spec

-----------------------------------------------------------------------------
(* The state and the radio.  That hci_state tracks the radio between       *)
(* commands is not inductive: while an answer is on its way the radio is   *)
(* ahead of the state, and a toggle goes the right way only if the command *)
(* was sent in the right state.                                            *)

Silent(st) == st \notin {"ADVERTISING", "SCANNING"}

\* The commands whose answer toggles the state.
Toggles(c) == c \in {"ADV_ENABLE", "ADV_DISABLE", "SCAN_ENABLE", "SCAN_DISABLE"}

\* State st is one in which command c does to it what it does to the radio.
Fits(c, st) ==
  /\ c = "ADV_DISABLE" => st = "ADVERTISING"
  /\ c = "SCAN_DISABLE" => st = "SCANNING"
  /\ c \in {"ADV_ENABLE", "SCAN_ENABLE", "RESET", "SET_SCAN_PARAMS"} \cup ReadCommand
             \cup StatusAnswered => Silent(st)

Tracks(st) == (adv <=> st = "ADVERTISING") /\ (scan <=> st = "SCANNING")

\* A state that tracks the radio as well as the one answer e leads to.
Handled(e) == IF e.ok THEN CompleteState(OpCode(e.cmd)) ELSE hci_state

\* The state tracks the radio, or will when the answer on its way is handled.
RadioTracked ==
  /\ (\A i \in DOMAIN toHost : ~IsAnswer(toHost[i])) => Tracks(hci_state)
  /\ \A i \in DOMAIN toHost : IsAnswer(toHost[i]) => Tracks(Handled(toHost[i]))

\* What is left to send, and what is outstanding, fits the state, and a
\* command that toggles it is the last of its call.
ScriptFits ==
  /\ \A i \in DOMAIN script :
       Fits(script[i], hci_state) /\ (Toggles(script[i]) => i = Len(script))
  /\ pc \in {"sent", "wait", "reset_wait"} /\ Toggles(cmd) => script = <<>>
  /\ pc \notin {"idle", "send"} /\ (AnswerDue \/ ~Toggles(cmd)) => Fits(cmd, hci_state)

\* HCI_init toggles nothing and starts from a silent radio.
Booting ==
  call \in {"none", "HCI_init"} =>
    /\ Silent(hci_state) /\ ~Toggles(cmd)
    /\ \A i \in DOMAIN script : ~Toggles(script[i])

\* A command that Command Status answers is the last one: its wait never ends.
StatusHangs ==
  cmd \in StatusAnswered => pc = "sent" \/ (pc = "wait" /\ waiting_response)

\* Only such a command opens a link, and once the controller has stopped
\* scanning its reports are all ahead of the answer that says so.
Quiet ==
  /\ link # "none" => cmd \in StatusAnswered
  /\ \A i \in DOMAIN toHost : ~IsAnswer(toHost[i]) /\ ~scan =>
       \/ cmd \in StatusAnswered
       \/ \E j \in DOMAIN toHost : j > i /\ IsAnswer(toHost[j]) /\ toHost[j].cmd = "SCAN_DISABLE"

TrackInv == RadioTracked /\ ScriptFits /\ Booting /\ StatusHangs /\ Quiet

\* Two states that are one to the radio.
Alike(st, new) == st = new \/ (Silent(st) /\ Silent(new))

LEMMA AlikeFacts ==
  ASSUME NEW st, NEW new, Alike(st, new)
  PROVE  /\ Silent(st) => Silent(new)
         /\ \A c : Fits(c, st) => Fits(c, new)
         /\ Tracks(st) => Tracks(new)
BY DEF Alike, Silent, Fits, Tracks

\* The commands of a call fit the state the call is made in.
LEMMA ScriptsFit ==
  ASSUME NEW c \in Call, c \notin {"HCI_reset", "GAP_deinit"}
  PROVE  /\ \A i \in DOMAIN Script[c] :
              /\ Fits(Script[c][i], IF c = "HCI_init" THEN "IDLE" ELSE ExpectedState(c))
              /\ Toggles(Script[c][i]) => i = Len(Script[c])
         /\ c = "HCI_init" => \A i \in DOMAIN Script[c] : ~Toggles(Script[c][i])
<1>1. ASSUME NEW i \in DOMAIN Script[c]
      PROVE  Fits(Script[c][i], IF c = "HCI_init" THEN "IDLE" ELSE ExpectedState(c))
  BY <1>1 DEF Call, Script, Fits, Silent, ExpectedState, ReadCommand, StatusAnswered
<1>2. ASSUME NEW i \in DOMAIN Script[c], Toggles(Script[c][i])
      PROVE  i = Len(Script[c]) /\ c # "HCI_init"
  <2>1. c # "HCI_init"
    BY <1>2 DEF Script, Toggles
  <2>2. Len(Script[c]) \in {1, 2} /\ DOMAIN Script[c] = 1 .. Len(Script[c])
    BY <2>1 DEF Call, Script
  <2>3. CASE c \in {"GAP_set_device_name", "GAP_start_advertising", "GAP_start_scanning"}
    <3>1. Script[c][1] \in {"WRITE_LOCAL_NAME", "SET_ADV_PARAMS", "SET_SCAN_PARAMS"}
      <4>1. /\ Script["GAP_set_device_name"] = <<"WRITE_LOCAL_NAME", "SET_ADV_DATA">>
            /\ Script["GAP_start_advertising"] = <<"SET_ADV_PARAMS", "ADV_ENABLE">>
            /\ Script["GAP_start_scanning"] = <<"SET_SCAN_PARAMS", "SCAN_ENABLE">>
        BY DEF Script
      <4>2. /\ Script["GAP_set_device_name"][1] = "WRITE_LOCAL_NAME"
            /\ Script["GAP_start_advertising"][1] = "SET_ADV_PARAMS"
            /\ Script["GAP_start_scanning"][1] = "SET_SCAN_PARAMS"
        BY <4>1
      <4> HIDE DEF Script
      <4>3. CASE c = "GAP_set_device_name"
        BY <4>2, <4>3
      <4>4. CASE c = "GAP_start_advertising"
        BY <4>2, <4>4
      <4>5. CASE c = "GAP_start_scanning"
        BY <4>2, <4>5
      <4> QED BY <2>3, <4>3, <4>4, <4>5
    <3>2. i # 1
      BY <1>2, <3>1 DEF Toggles
    <3> DEFINE n == Len(Script[c])
    <3>3. n \in {1, 2} /\ i \in 1 .. n
      BY <2>2
    <3> HIDE DEF n
    <3>4. i = n
      BY <3>2, <3>3
    <3> QED BY <2>1, <3>4 DEF n
  <2>4. CASE c \notin {"GAP_set_device_name", "GAP_start_advertising", "GAP_start_scanning"}
    <3>1. Len(Script[c]) = 1
      BY <2>1, <2>4 DEF Call, Script
    <3> QED BY <2>1, <2>2, <3>1
  <2> QED BY <2>3, <2>4
<1> QED BY <1>1, <1>2

\* What a command that fits does to the radio, its answer does to the state.
LEMMA EffectTracks ==
  ASSUME NEW c \in Command, Effect(c), Fits(c, hci_state), Tracks(hci_state),
         adv \in BOOLEAN, scan \in BOOLEAN
  PROVE  /\ adv' <=> CompleteState(OpCode(c)) = "ADVERTISING"
         /\ scan' <=> CompleteState(OpCode(c)) = "SCANNING"
<1>1. CASE Toggles(c)
  BY <1>1 DEF Toggles, Effect, Fits, Silent, Tracks, CompleteState, OpCode
<1>2. CASE ~Toggles(c)
  <2>1. OpCode(c) = c /\ c \notin {"SET_ADVERTISE_ENABLE", "SET_SCAN_ENABLE"}
    BY <1>2 DEF Toggles, OpCode, Command
  <2>2. CASE c \in {"RESET", "SET_SCAN_PARAMS", "READ_BD_ADDR"}
    BY <1>2, <2>1, <2>2 DEF Toggles, Effect, Fits, Silent, Tracks, CompleteState, ReadCommand
  <2>3. CASE c \notin {"RESET", "SET_SCAN_PARAMS", "READ_BD_ADDR"}
    BY <1>2, <2>1, <2>3 DEF Toggles, Effect, Tracks, CompleteState
  <2> QED BY <2>2, <2>3
<1> QED BY <1>1, <1>2

\* A command that toggles nothing leaves the state silent, or as it was.
LEMMA PlainState ==
  ASSUME NEW c \in Command, Fits(c, hci_state), ~Toggles(c)
  PROVE  Alike(hci_state, CompleteState(OpCode(c)))
<1>1. OpCode(c) = c /\ c \notin {"SET_ADVERTISE_ENABLE", "SET_SCAN_ENABLE"}
  BY DEF Toggles, OpCode, Command
<1> QED BY <1>1 DEF Alike, CompleteState, Fits, Silent, ReadCommand

\* The one answer outstanding is to the command in hand.
LEMMA TheAnswer ==
  ASSUME TypeInv, HangInv, ColdInv
  PROVE  /\ \A i \in DOMAIN toHost : IsAnswer(toHost[i]) =>
              /\ toHost[i].cmd = cmd /\ toCtrl = <<>>
              /\ toHost[i].type = "COMMAND_STATUS" <=> cmd \in StatusAnswered
         /\ toCtrl # <<>> =>
              /\ Head(toCtrl) = cmd /\ Tail(toCtrl) = <<>>
              /\ \A i \in DOMAIN toHost : ~IsAnswer(toHost[i])
<1>1. ASSUME NEW i \in DOMAIN toHost, IsAnswer(toHost[i])
      PROVE  /\ toHost[i].cmd = cmd /\ toCtrl = <<>>
             /\ toHost[i].type = "COMMAND_STATUS" <=> cmd \in StatusAnswered
  <2>1. toCtrl = <<>> /\ i \in Nat
    BY <1>1, LenProperties DEF ColdInv, OneOutstanding, TypeInv, TypeOK
  <2>2. \A j \in DOMAIN toHost : IsAnswer(toHost[j]) => ~(j > i)
    BY <1>1, <2>1 DEF ColdInv, OneOutstanding
  <2>3. toHost[i].cmd = cmd
    BY <1>1, <2>1, <2>2 DEF HangInv, LastIsMine
  <2> QED BY <1>1, <2>1, <2>3 DEF HangInv, AnswerShape
<1>2. ASSUME toCtrl # <<>>
      PROVE  /\ Head(toCtrl) = cmd /\ Tail(toCtrl) = <<>>
             /\ \A i \in DOMAIN toHost : ~IsAnswer(toHost[i])
  <2>1. Len(toCtrl) = 1 /\ toCtrl[Len(toCtrl)] = cmd
    BY <1>2 DEF HangInv, LastIsMine, ColdInv, OneOutstanding
  <2> QED BY <1>2, <2>1, TailFacts DEF TypeInv, TypeOK, ColdInv, OneOutstanding
<1> QED BY <1>1, <1>2

\* Steps that leave the handshake and the radio alone keep what relates them.
LEMMA Untouched ==
  ASSUME UNCHANGED <<cmd, hci_state, toCtrl, toHost, adv, scan, link>>
  PROVE  /\ AnswerDue' = AnswerDue
         /\ RadioTracked => RadioTracked'
         /\ Quiet => Quiet'
<1>1. AnswerDue' = AnswerDue
  BY DEF AnswerDue
<1>2. RadioTracked => RadioTracked'
  BY DEF RadioTracked, Tracks, Handled, CompleteState, IsAnswer
<1>3. Quiet => Quiet'
  BY DEF Quiet, IsAnswer
<1> QED BY <1>1, <1>2, <1>3

LEMMA TrackInit == Init => TrackInv
BY DEF Init, TrackInv, RadioTracked, Tracks, ScriptFits, Booting, StatusHangs, Quiet, Silent,
       Toggles, StatusAnswered

LEMMA TrackMakeCall ==
  ASSUME Careful = TRUE, "HCI_reset" \notin AppCalls, "GAP_deinit" \notin AppCalls,
         TypeInv, HangInv, ColdInv, TrackInv, NEW c \in Call, MakeCall(c)
  PROVE  TrackInv'
<1>1. /\ UNCHANGED <<cmd, hci_state, toCtrl, toHost, adv, scan, link>>
      /\ pc = "idle" /\ pc' = "send" /\ call' = c /\ script' = Script[c]
  BY DEF MakeCall, rxVars, radio
<1>2. RadioTracked' /\ Quiet'
  BY <1>1, Untouched DEF TrackInv
<1>3. StatusHangs'
  BY <1>1 DEF TrackInv, StatusHangs
<1>4. /\ c \notin {"HCI_reset", "GAP_deinit"}
      /\ hci_state = IF c = "HCI_init" THEN "IDLE" ELSE ExpectedState(c)
      /\ c = "HCI_init" => call = "none"
  BY ConstantsAssumption DEF MakeCall, ColdInv, ColdReset
<1>5. /\ \A i \in DOMAIN Script[c] :
           Fits(Script[c][i], hci_state) /\ (Toggles(Script[c][i]) => i = Len(Script[c]))
      /\ c = "HCI_init" => \A i \in DOMAIN Script[c] : ~Toggles(Script[c][i])
  BY <1>4, ScriptsFit
<1>6. ScriptFits'
  BY <1>1, <1>5 DEF ScriptFits, Fits, Silent, Toggles
<1>7. Booting'
  <2>1. c # "none"
    BY DEF Call, Script
  <2> QED BY <1>1, <1>4, <1>5, <2>1 DEF TrackInv, Booting, Silent, Toggles
<1> QED BY <1>2, <1>3, <1>6, <1>7 DEF TrackInv

LEMMA TrackSend ==
  ASSUME TypeInv, HangInv, ColdInv, TrackInv, HCI_send_command
  PROVE  TrackInv'
<1>1. /\ pc = "send" /\ pc' = "sent" /\ ~AnswerDue /\ cmd \notin StatusAnswered
      /\ script \in Seq(Command) /\ script # <<>>
      /\ cmd' = Head(script) /\ script' = Tail(script) /\ call' = call
      /\ UNCHANGED <<hci_state, toHost, adv, scan, link, waiting_response>>
  BY DEF HCI_send_command, ColdInv, Settled, TrackInv, StatusHangs, TypeInv, TypeOK,
         ScriptReady, rxVars, radio
<1>2. /\ Head(script) = script[1] /\ 1 \in DOMAIN script
      /\ Len(script) \in Nat \ {0} /\ Len(script') = Len(script) - 1
      /\ DOMAIN script' = 1 .. Len(script) - 1
      /\ \A i \in DOMAIN script' : i + 1 \in DOMAIN script /\ script'[i] = script[i + 1]
      /\ (script' = <<>>) <=> (Len(script) = 1)
  BY <1>1, TailFacts, LenProperties
<1>3. \A i \in DOMAIN toHost : ~IsAnswer(toHost[i])
  BY <1>1 DEF AnswerDue
<1>4. RadioTracked'
  BY <1>1, <1>3 DEF TrackInv, RadioTracked, Tracks, IsAnswer
<1>5. ScriptFits'
  <2>1. ASSUME NEW i \in DOMAIN script'
        PROVE  Fits(script'[i], hci_state') /\ (Toggles(script'[i]) => i = Len(script'))
    <3>1. /\ Fits(script[i + 1], hci_state)
          /\ Toggles(script[i + 1]) => i + 1 = Len(script)
      BY <1>2 DEF TrackInv, ScriptFits
    <3> QED BY <1>1, <1>2, <3>1
  <2>2. Fits(cmd', hci_state') /\ (Toggles(cmd') => script' = <<>>)
    <3>1. Fits(script[1], hci_state) /\ (Toggles(script[1]) => 1 = Len(script))
      BY <1>2 DEF TrackInv, ScriptFits
    <3> QED BY <1>1, <1>2, <3>1
  <2> QED BY <2>1, <2>2 DEF ScriptFits, Fits, Silent, Toggles
<1>6. Booting'
  BY <1>1, <1>2 DEF TrackInv, Booting, Silent, Toggles
<1>7. StatusHangs'
  BY <1>1 DEF StatusHangs
<1>8. Quiet'
  BY <1>1, <1>3 DEF TrackInv, Quiet, IsAnswer
<1> QED BY <1>4, <1>5, <1>6, <1>7, <1>8 DEF TrackInv

LEMMA TrackWait ==
  ASSUME TypeInv, HangInv, ColdInv, TrackInv, HCI_wait_response
  PROVE  TrackInv'
<1>1. /\ pc = "wait" /\ ~waiting_response /\ ~AnswerDue /\ cmd \notin StatusAnswered
      /\ pc' \in {"idle", "send", "copyLow"}
      /\ hci_state' = IF call = "HCI_init" /\ script = <<>> THEN "ON" ELSE hci_state
      /\ UNCHANGED <<cmd, call, script, toCtrl, toHost, adv, scan, link>>
  BY DEF HCI_wait_response, Continue, ColdInv, Settled, TrackInv, StatusHangs, radio
<1>2. AnswerDue' = AnswerDue
  BY <1>1 DEF AnswerDue
<1>3. Alike(hci_state, hci_state')
  BY <1>1 DEF TrackInv, Booting, Alike, Silent
<1>4. /\ Silent(hci_state) => Silent(hci_state')
      /\ \A c : Fits(c, hci_state) => Fits(c, hci_state')
      /\ Tracks(hci_state) => Tracks(hci_state')
  BY <1>3, AlikeFacts
<1>5. RadioTracked'
  <2>1. \A i \in DOMAIN toHost : ~IsAnswer(toHost[i])
    BY <1>1 DEF AnswerDue
  <2>2. Tracks(hci_state')
    BY <1>4, <2>1 DEF TrackInv, RadioTracked
  <2> QED BY <1>1, <2>1, <2>2 DEF RadioTracked, Tracks, IsAnswer
<1>6. ScriptFits'
  <2>1. \A i \in DOMAIN script' :
          Fits(script'[i], hci_state') /\ (Toggles(script'[i]) => i = Len(script'))
    BY <1>1, <1>4 DEF TrackInv, ScriptFits
  <2>2. ~Toggles(cmd') => Fits(cmd', hci_state')
    BY <1>1, <1>4 DEF TrackInv, ScriptFits
  <2> QED BY <1>1, <1>2, <2>1, <2>2 DEF ScriptFits, Fits, Silent, Toggles
<1>7. Booting' /\ StatusHangs'
  BY <1>1, <1>4 DEF TrackInv, Booting, StatusHangs, Silent, Toggles
<1>8. Quiet'
  BY <1>1 DEF TrackInv, Quiet, IsAnswer
<1> QED BY <1>5, <1>6, <1>7, <1>8 DEF TrackInv

\* The steps that touch neither the state, nor the command, nor the radio.
LEMMA TrackAside ==
  ASSUME TypeInv, HangInv, ColdInv, TrackInv,
         BeginWait \/ HCI_reset \/ CopyLow \/ CopyHigh \/ ReceivePart \/ UNCHANGED vars
  PROVE  TrackInv'
<1>1. /\ UNCHANGED <<cmd, hci_state, toCtrl, toHost, adv, scan, link>>
      /\ UNCHANGED <<call, script>>
  BY DEF BeginWait, HCI_reset, CopyLow, CopyHigh, ReceivePart, vars, mainVars, rxVars, radio
<1>2. AnswerDue' = AnswerDue /\ RadioTracked' /\ Quiet'
  BY <1>1, Untouched DEF TrackInv
<1>3. /\ pc' \notin {"idle", "send"} => pc \notin {"idle", "send"}
      /\ pc' \in {"sent", "wait", "reset_wait"} => pc \in {"sent", "wait", "reset_wait"}
  BY DEF BeginWait, HCI_reset, CopyLow, CopyHigh, ReceivePart, vars, mainVars, Continue
<1>4. ScriptFits'
  BY <1>1, <1>2, <1>3 DEF TrackInv, ScriptFits, Fits, Silent, Toggles
<1>5. Booting'
  BY <1>1 DEF TrackInv, Booting, Silent, Toggles
<1>6. StatusHangs'
  <2>1. CASE BeginWait
    <3>1. cmd \in StatusAnswered => cmd # "RESET"
      BY DEF StatusAnswered
    <3> QED BY <1>1, <2>1, <3>1 DEF BeginWait, StatusHangs
  <2>2. CASE HCI_reset
    <3>1. cmd \notin StatusAnswered
      BY <2>2 DEF HCI_reset, HangInv, WaitKind, StatusAnswered
    <3> QED BY <1>1, <3>1 DEF StatusHangs
  <2>3. CASE CopyLow \/ CopyHigh
    <3>1. cmd \notin StatusAnswered
      BY <2>3 DEF CopyLow, CopyHigh, TrackInv, StatusHangs
    <3> QED BY <1>1, <3>1 DEF StatusHangs
  <2>4. CASE ReceivePart \/ UNCHANGED vars
    BY <2>4 DEF ReceivePart, vars, mainVars, rxVars, TrackInv, StatusHangs
  <2> QED BY <2>1, <2>2, <2>3, <2>4
<1> QED BY <1>2, <1>4, <1>5, <1>6 DEF TrackInv

LEMMA TrackReceive ==
  ASSUME TypeInv, HangInv, ColdInv, TrackInv, ReceivePacket
  PROVE  TrackInv'
<1> DEFINE e == Head(toHost)
<1>1. UNCHANGED <<pc, call, script, cmd, toCtrl, adv, scan, link>>
  BY DEF ReceivePacket, mainVars, radio
<1>2. /\ 1 \in DOMAIN toHost /\ e = toHost[1] /\ e \in Event
      /\ DOMAIN toHost \subseteq Nat /\ DOMAIN toHost' \subseteq Nat \ {0}
      /\ \A i \in DOMAIN toHost' : i + 1 \in DOMAIN toHost /\ toHost'[i] = toHost[i + 1]
      /\ \A i \in DOMAIN toHost : i = 1 \/ (i - 1 \in DOMAIN toHost' /\ toHost'[i - 1] = toHost[i])
  BY TailFacts, LenProperties DEF ReceivePacket, MayReceive, TypeInv, TypeOK
<1> HIDE DEF e
<1>3. Quiet'
  <2>1. ASSUME NEW i \in DOMAIN toHost', ~IsAnswer(toHost'[i]), ~scan', cmd' \notin StatusAnswered
        PROVE  \E j \in DOMAIN toHost' :
                 j > i /\ IsAnswer(toHost'[j]) /\ toHost'[j].cmd = "SCAN_DISABLE"
    <3>1. PICK j \in DOMAIN toHost :
            j > i + 1 /\ IsAnswer(toHost[j]) /\ toHost[j].cmd = "SCAN_DISABLE"
      BY <1>1, <1>2, <2>1 DEF TrackInv, Quiet
    <3>2. j - 1 \in DOMAIN toHost' /\ toHost'[j - 1] = toHost[j] /\ j - 1 > i
      BY <1>2, <2>1, <3>1
    <3> QED BY <3>1, <3>2
  <2>2. link' # "none" => cmd' \in StatusAnswered
    BY <1>1 DEF TrackInv, Quiet
  <2> QED BY <2>1, <2>2 DEF Quiet, IsAnswer
<1>4. CASE ~IsAnswer(e)
  <2>1. UNCHANGED <<waiting_response, hci_state>> /\ AnswerDue' = AnswerDue
    BY <1>4, Received, EventFacts DEF e, ReceivePacket, HCI_handle_event, IsAnswer
  <2>2. RadioTracked'
    <3>1. ASSUME \A i \in DOMAIN toHost' : ~IsAnswer(toHost'[i])
          PROVE  Tracks(hci_state)
      <4>1. \A i \in DOMAIN toHost : ~IsAnswer(toHost[i])
        BY <1>2, <1>4, <3>1
      <4> QED BY <4>1 DEF TrackInv, RadioTracked
    <3>2. ASSUME NEW i \in DOMAIN toHost', IsAnswer(toHost'[i])
          PROVE  Tracks(Handled(toHost'[i]))
      BY <1>2, <3>2 DEF TrackInv, RadioTracked
    <3> QED BY <1>1, <2>1, <3>1, <3>2 DEF RadioTracked, Tracks, Handled, CompleteState, IsAnswer
  <2>3. ScriptFits' /\ Booting' /\ StatusHangs'
    BY <1>1, <2>1 DEF TrackInv, ScriptFits, Booting, StatusHangs, Fits, Silent, Toggles
  <2> QED BY <1>3, <2>2, <2>3 DEF TrackInv
<1>5. CASE IsAnswer(e)
  <2>1. /\ e.cmd = cmd /\ toCtrl = <<>> /\ AnswerDue
        /\ e.type = "COMMAND_STATUS" <=> cmd \in StatusAnswered
        /\ cmd \in Command /\ e.ok \in BOOLEAN
    BY <1>2, <1>5, TheAnswer, EventFacts DEF AnswerDue
  <2>2. \A i \in DOMAIN toHost' : ~IsAnswer(toHost'[i])
    BY <1>2, <1>5 DEF ColdInv, OneOutstanding
  <2>3. ~AnswerDue'
    BY <1>1, <2>1, <2>2 DEF AnswerDue, IsAnswer
  <2>4. pc \in {"sent", "wait", "reset_wait"}
    BY <2>1 DEF ColdInv, Settled
  <2>5. Fits(cmd, hci_state) /\ (Toggles(cmd) => script = <<>>)
    BY <2>1, <2>4 DEF TrackInv, ScriptFits
  <2>6. Tracks(Handled(e))
    BY <1>2, <1>5 DEF TrackInv, RadioTracked
  <2>7. hci_state' = Handled(e) \/ (cmd \in StatusAnswered /\ Silent(hci_state'))
    <3>1. CASE cmd \in StatusAnswered
      <4>1. e.type = "COMMAND_STATUS"
        BY <2>1, <3>1
      <4>2. Silent(hci_state)
        BY <2>5, <3>1 DEF Fits
      <4> QED BY <3>1, <4>1, <4>2 DEF e, ReceivePacket, HCI_handle_event,
               HCI_handle_command_status_event, Silent, IsAnswer
    <3>2. CASE cmd \notin StatusAnswered
      <4>1. e.type = "COMMAND_COMPLETE"
        BY <1>5, <2>1, <3>2 DEF IsAnswer
      <4> QED BY <4>1 DEF e, ReceivePacket, HCI_handle_event, Handled,
               HCI_handle_command_complete_event, IsAnswer
    <3> QED BY <3>1, <3>2
  <2>8. ~Toggles(cmd) => Alike(hci_state, hci_state')
    <3>1. ASSUME ~Toggles(cmd)
          PROVE  Alike(hci_state, Handled(e))
      BY <2>1, <2>5, <3>1, PlainState DEF Handled, Alike
    <3>2. cmd \in StatusAnswered => Silent(hci_state)
      BY <2>5 DEF Fits
    <3> QED BY <2>7, <3>1, <3>2 DEF Alike
  <2>9. Tracks(hci_state')
    <3>1. CASE hci_state' = Handled(e)
      BY <2>6, <3>1
    <3>2. CASE cmd \in StatusAnswered /\ Silent(hci_state')
      <4>1. ~Toggles(cmd)
        BY <3>2 DEF Toggles, StatusAnswered
      <4>2. Silent(hci_state) /\ Alike(hci_state, Handled(e))
        BY <2>1, <2>5, <3>2, <4>1, PlainState DEF Fits, Handled, Alike
      <4>3. Silent(Handled(e))
        BY <4>2 DEF Alike
      <4> QED BY <2>6, <3>2, <4>3 DEF Tracks, Silent
    <3> QED BY <2>7, <3>1, <3>2
  <2>10. RadioTracked'
    BY <1>1, <2>2, <2>9 DEF RadioTracked, Tracks, IsAnswer
  <2>11. ScriptFits'
    <3>1. CASE Toggles(cmd)
      <4>1. script' = <<>> /\ DOMAIN script' = {}
        BY <1>1, <2>5, <3>1
      <4> QED BY <1>1, <2>3, <3>1, <4>1 DEF ScriptFits, Toggles
    <3>2. CASE ~Toggles(cmd)
      <4>1. \A c : Fits(c, hci_state) => Fits(c, hci_state')
        BY <2>8, <3>2, AlikeFacts
      <4>2. \A i \in DOMAIN script' :
              Fits(script'[i], hci_state') /\ (Toggles(script'[i]) => i = Len(script'))
        BY <1>1, <4>1 DEF TrackInv, ScriptFits
      <4> QED BY <1>1, <2>5, <3>2, <4>1, <4>2 DEF ScriptFits, Fits, Silent, Toggles
    <3> QED BY <3>1, <3>2
  <2>12. Booting'
    <3>1. ASSUME call \in {"none", "HCI_init"}
          PROVE  Silent(hci_state')
      BY <2>8, <3>1, AlikeFacts DEF TrackInv, Booting
    <3> QED BY <1>1, <3>1 DEF TrackInv, Booting, Silent, Toggles
  <2>13. StatusHangs'
    <3>1. ASSUME cmd \in StatusAnswered
          PROVE  waiting_response' = waiting_response
      <4>1. e.type = "COMMAND_STATUS"
        BY <2>1, <3>1
      <4> QED BY <4>1 DEF e, ReceivePacket, HCI_handle_event,
               HCI_handle_command_status_event, IsAnswer
    <3> QED BY <1>1, <3>1 DEF TrackInv, StatusHangs
  <2> QED BY <1>3, <2>10, <2>11, <2>12, <2>13 DEF TrackInv
<1> QED BY <1>4, <1>5

LEMMA TrackAnswer ==
  ASSUME TypeInv, HangInv, ColdInv, TrackInv, Accept \/ Refuse
  PROVE  TrackInv'
<1>1. /\ UNCHANGED <<pc, call, script, cmd, hci_state, waiting_response>>
      /\ toCtrl # <<>> /\ AnswerDue /\ AnswerDue'
      /\ adv \in BOOLEAN /\ scan \in BOOLEAN
  BY Answered DEF Accept, Refuse, mainVars, rxVars, AnswerDue, TypeInv, TypeOK
<1>2. /\ Head(toCtrl) = cmd /\ cmd \in Command
      /\ \A i \in DOMAIN toHost : ~IsAnswer(toHost[i])
  BY <1>1, TheAnswer, TailFacts DEF TypeInv, TypeOK
<1>3. pc \in {"sent", "wait", "reset_wait"}
  BY <1>1 DEF ColdInv, Settled
<1>4. Fits(cmd, hci_state) /\ Tracks(hci_state)
  BY <1>1, <1>2, <1>3 DEF TrackInv, ScriptFits, RadioTracked
<1>5. \/ /\ Effect(cmd)
         /\ toHost' = Append(toHost, AnswerTo(cmd, TRUE))
      \/ /\ UNCHANGED <<adv, scan, link>>
         /\ toHost' = Append(toHost, AnswerTo(cmd, FALSE))
  BY <1>2 DEF Accept, Refuse, radio
<1>6. PICK ok \in BOOLEAN :
        /\ toHost' = Append(toHost, AnswerTo(cmd, ok))
        /\ IF ok THEN Effect(cmd) ELSE UNCHANGED <<adv, scan, link>>
  BY <1>5
<1> DEFINE a == AnswerTo(cmd, ok)
           n == Len(toHost) + 1
<1>7. /\ DOMAIN toHost = 1 .. Len(toHost) /\ Len(toHost) \in Nat
      /\ DOMAIN toHost' = 1 .. n
      /\ \A i \in 1 .. Len(toHost) : toHost'[i] = toHost[i]
      /\ toHost'[n] = a
  BY <1>2, <1>6, AnswerFacts, AppendFacts, LenProperties DEF TypeInv, TypeOK
<1>8. IsAnswer(a) /\ a.cmd = cmd /\ a.ok = ok
  BY <1>2, AnswerFacts DEF AnswerTo
<1>9. \A i \in DOMAIN toHost' : IsAnswer(toHost'[i]) => toHost'[i] = a
  BY <1>2, <1>7
<1>10. n \in DOMAIN toHost' /\ \A i \in DOMAIN toHost' : ~IsAnswer(toHost'[i]) => i \in DOMAIN toHost /\ i < n
  BY <1>7, <1>8
<1> HIDE DEF a, n
<1>11. RadioTracked'
  <2>1. /\ adv' <=> Handled(a) = "ADVERTISING"
        /\ scan' <=> Handled(a) = "SCANNING"
    <3>1. CASE ok
      BY <1>1, <1>2, <1>4, <1>6, <1>8, <3>1, EffectTracks DEF Handled
    <3>2. CASE ~ok
      BY <1>4, <1>6, <1>8, <3>2 DEF Handled, Tracks
    <3> QED BY <3>1, <3>2
  <2>2. \E i \in DOMAIN toHost' : IsAnswer(toHost'[i])
    BY <1>8, <1>7, <1>10
  <2>3. ASSUME NEW i \in DOMAIN toHost', IsAnswer(toHost'[i])
        PROVE  Handled(toHost[i])' = Handled(a)
    BY <1>1, <1>9, <2>3 DEF Handled, CompleteState
  <2> QED BY <2>1, <2>2, <2>3 DEF RadioTracked, Tracks, IsAnswer
<1>12. ScriptFits' /\ Booting' /\ StatusHangs'
  BY <1>1 DEF TrackInv, ScriptFits, Booting, StatusHangs, Fits, Silent, Toggles
<1>13. Quiet'
  <2>1. link' # "none" => cmd' \in StatusAnswered
    BY <1>1, <1>6 DEF TrackInv, Quiet, Effect, StatusAnswered
  <2>2. ASSUME NEW i \in DOMAIN toHost', ~IsAnswer(toHost'[i]), ~scan', cmd' \notin StatusAnswered
        PROVE  \E j \in DOMAIN toHost' :
                 j > i /\ IsAnswer(toHost'[j]) /\ toHost'[j].cmd = "SCAN_DISABLE"
    <3>1. i \in DOMAIN toHost /\ i < n /\ toHost'[i] = toHost[i]
      BY <1>7, <1>10, <2>2
    <3>2. scan
      BY <1>1, <1>2, <2>2, <3>1 DEF TrackInv, Quiet
    <3>3. ok /\ cmd \in {"SCAN_DISABLE", "RESET"}
      BY <1>6, <2>2, <3>2 DEF Effect
    <3>4. cmd # "RESET"
      BY <1>4, <3>2 DEF Fits, Tracks, Silent
    <3>5. n > i /\ n \in DOMAIN toHost' /\ toHost'[n] = a
      BY <1>7, <1>10, <3>1
    <3> QED BY <1>8, <3>3, <3>4, <3>5
  <2> QED BY <2>1, <2>2 DEF Quiet, IsAnswer
<1> QED BY <1>11, <1>12, <1>13 DEF TrackInv

LEMMA TrackRadio ==
  ASSUME Connectable = FALSE, TypeInv, HangInv, ColdInv, TrackInv,
         Report \/ LinkUp \/ PeerConnects \/ LinkLost
  PROVE  TrackInv'
<1>1. /\ UNCHANGED <<mainVars, rxVars, toCtrl>> /\ AnswerDue' = AnswerDue
  BY Reported
<1>2. PICK type \in {"ADV_REPORT", "CONNECTION_COMPLETE", "DISCONNECTION_COMPLETE"} :
        toHost' = Append(toHost, [type |-> type])
  BY DEF Report, LinkUp, PeerConnects, LinkLost, Emit
<1>3. /\ UNCHANGED <<adv, scan>>
      /\ scan \/ cmd \in StatusAnswered
      /\ link' # "none" => cmd \in StatusAnswered
  BY DEF Report, LinkUp, PeerConnects, LinkLost, TrackInv, Quiet, radio
<1> DEFINE r == [type |-> type]
           n == Len(toHost) + 1
<1>4. r \in Event /\ ~IsAnswer(r)
  BY RadioFacts
<1>5. /\ DOMAIN toHost = 1 .. Len(toHost) /\ Len(toHost) \in Nat
      /\ DOMAIN toHost' = 1 .. n
      /\ \A i \in 1 .. Len(toHost) : toHost'[i] = toHost[i]
      /\ toHost'[n] = r
  BY <1>2, <1>4, AppendFacts, LenProperties DEF TypeInv, TypeOK
<1>6. \A i \in DOMAIN toHost' : IsAnswer(toHost'[i]) => i \in DOMAIN toHost
  BY <1>4, <1>5
<1>7. \A i \in DOMAIN toHost : i \in DOMAIN toHost' /\ toHost'[i] = toHost[i]
  BY <1>5
<1> HIDE DEF r, n
<1>8. UNCHANGED <<pc, call, script, cmd, hci_state, waiting_response>>
  BY <1>1 DEF mainVars, rxVars
<1>9. RadioTracked'
  <2>1. ASSUME \A i \in DOMAIN toHost' : ~IsAnswer(toHost'[i])
        PROVE  Tracks(hci_state)
    BY <1>7, <2>1 DEF TrackInv, RadioTracked
  <2>2. ASSUME NEW i \in DOMAIN toHost', IsAnswer(toHost'[i])
        PROVE  Tracks(Handled(toHost'[i]))
    BY <1>6, <1>7, <2>2 DEF TrackInv, RadioTracked
  <2> QED BY <1>3, <1>8, <2>1, <2>2 DEF RadioTracked, Tracks, Handled, CompleteState, IsAnswer
<1>10. ScriptFits' /\ Booting' /\ StatusHangs'
  BY <1>1, <1>8 DEF TrackInv, ScriptFits, Booting, StatusHangs, Fits, Silent, Toggles
<1>11. Quiet'
  BY <1>3, <1>8 DEF Quiet
<1> QED BY <1>9, <1>10, <1>11 DEF TrackInv

LEMMA TrackStep ==
  ASSUME Careful = TRUE, Connectable = FALSE,
         "HCI_reset" \notin AppCalls, "GAP_deinit" \notin AppCalls
  PROVE  TypeInv /\ HangInv /\ ColdInv /\ TrackInv /\ [Next]_vars => TrackInv'
<1> SUFFICES ASSUME TypeInv, HangInv, ColdInv, TrackInv, [Next]_vars
             PROVE  TrackInv'
  OBVIOUS
<1>1. ASSUME NEW c \in Call, MakeCall(c)
      PROVE  TrackInv'
  BY <1>1, TrackMakeCall
<1>2. CASE HCI_send_command
  BY <1>2, TrackSend
<1>3. CASE HCI_wait_response
  BY <1>3, TrackWait
<1>4. CASE BeginWait \/ HCI_reset \/ CopyLow \/ CopyHigh \/ ReceivePart \/ UNCHANGED vars
  BY <1>4, TrackAside
<1>5. CASE ReceivePacket
  BY <1>5, TrackReceive
<1>6. CASE Accept \/ Refuse
  BY <1>6, TrackAnswer
<1>7. CASE Report \/ LinkUp \/ PeerConnects \/ LinkLost
  BY <1>7, TrackRadio
<1> QED BY <1>1, <1>2, <1>3, <1>4, <1>5, <1>6, <1>7 DEF Next, Main, Irq, Controller

LEMMA TrackInvariant ==
  ASSUME Careful = TRUE, Connectable = FALSE,
         "HCI_reset" \notin AppCalls, "GAP_deinit" \notin AppCalls
  PROVE  Spec => []TrackInv
<1>1. Init => TrackInv
  BY TrackInit
<1>2. TypeInv /\ HangInv /\ ColdInv /\ TrackInv /\ [Next]_vars => TrackInv'
  BY TrackStep
<1> QED BY <1>1, <1>2, TypeInvariant, HangInvariant, ColdInvariant, PTL DEF Spec

\* For an application that asks HCI_get_state before each call, resets nothing,
\* stops what it started by the call of its own (GAP_deinit stops both, and so
\* toggles one the wrong way) and advertises as not connectable, the state
\* tells between commands whether the radio advertises or scans, whatever the
\* timing and whatever commands the controller refuses.
THEOREM StateFollowsRadio ==
  ASSUME Careful = TRUE, Connectable = FALSE,
         "HCI_reset" \notin AppCalls, "GAP_deinit" \notin AppCalls
  PROVE  Spec => []StateTracksRadio
<1>1. TypeInv /\ TrackInv => StateTracksRadio
  BY DEF TypeInv, TypeOK, TrackInv, RadioTracked, Tracks, StateTracksRadio, AnswerDue
<1> QED BY <1>1, TypeInvariant, TrackInvariant, PTL

-----------------------------------------------------------------------------
(* The answer of a read call.  The caller copies rx_buffer with interrupts *)
(* enabled, so the copy is whole only when no packet can follow: because a *)
(* careful application sends a read in a silent state, in which the radio  *)
(* has nothing to report, or because the application never lets it report. *)

\* Half a packet in rx_buffer is the first half of the packet at the head.
HalfStored ==
  rxPartial => toHost # <<>> /\ Long(Head(toHost)) /\ rxLow = Owner(Head(toHost))

\* From the handling of a successful answer until the caller has copied it
\* rx_buffer holds nothing else, but for packets of the others.
AnswerKept(others) ==
  cmd \in ReadCommand /\ ~AnswerDue /\ ~refused /\ pc \notin {"idle", "send"} =>
    /\ rxLow \in {cmd} \cup others /\ rxHigh \in {cmd} \cup others
    /\ FillsEnd(cmd) => rxEnd \in {cmd} \cup others
    /\ pc = "copyHigh" => info.low \in {cmd} \cup others

ReadInv(others) == HalfStored /\ AnswerKept(others) /\ ReadFrom(others)

LEMMA ReadInit ==
  ASSUME NEW CONSTANT others
  PROVE  Init => ReadInv(others)
BY DEF Init, ReadInv, HalfStored, AnswerKept, ReadFrom, ReadCommand

\* Nothing is on its way to the host while the answer is being copied.
NothingFollows ==
  cmd \in ReadCommand /\ ~AnswerDue /\ pc \notin {"idle", "send"} => toHost = <<>>

LEMMA TrackedIsQuiet == TypeInv /\ TrackInv => NothingFollows
<1> SUFFICES ASSUME TypeInv, TrackInv, cmd \in ReadCommand, ~AnswerDue, pc \notin {"idle", "send"}
             PROVE  toHost = <<>>
  BY DEF NothingFollows
<1>1. /\ ~Toggles(cmd) /\ cmd \notin StatusAnswered
      /\ \A i \in DOMAIN toHost : ~IsAnswer(toHost[i])
  BY DEF Toggles, ReadCommand, StatusAnswered, AnswerDue
<1>2. Fits(cmd, hci_state) /\ Tracks(hci_state)
  BY <1>1 DEF TrackInv, ScriptFits, RadioTracked
<1>3. ~scan
  BY <1>2 DEF Fits, Tracks, Silent
<1>4. DOMAIN toHost = {}
  BY <1>1, <1>3 DEF TrackInv, Quiet
<1> QED BY <1>4, EmptySeq DEF TypeInv, TypeOK

\* A packet at the head while the answer is being copied is not an answer.
LEMMA OnlyRadioFollows ==
  ASSUME TypeInv, ~AnswerDue, toHost # <<>>
  PROVE  ~IsAnswer(Head(toHost)) /\ Owner(Head(toHost)) = "RADIO"
<1>1. 1 \in DOMAIN toHost /\ Head(toHost) = toHost[1]
  BY TailFacts, LenProperties DEF TypeInv, TypeOK
<1> QED BY <1>1 DEF AnswerDue, Owner

\* Whatever follows belongs to the others.
LEMMA ReadStep ==
  ASSUME NEW CONSTANT others, TypeInv, HangInv, ColdInv,
         NothingFollows \/ "RADIO" \in others, ReadInv(others), [Next]_vars
  PROVE  ReadInv(others)'
<1> USE DEF ReadInv
<1>1. ASSUME NEW c \in Call, MakeCall(c)
      PROVE  ReadInv(others)'
  BY <1>1 DEF MakeCall, rxVars, HalfStored, AnswerKept, ReadFrom, Long, Owner, IsAnswer
<1>2. CASE HCI_send_command
  <2>1. AnswerDue' /\ pc' = "sent" /\ UNCHANGED <<rxPartial, rxLow, toHost>>
    <3>1. toCtrl' # <<>>
      BY <1>2, TailFacts, AppendFacts DEF HCI_send_command, TypeInv, TypeOK, ScriptReady
    <3> QED BY <1>2, <3>1 DEF HCI_send_command, rxVars, AnswerDue
  <2> QED BY <2>1 DEF HalfStored, AnswerKept, ReadFrom, Long, Owner, IsAnswer
<1>3. CASE BeginWait \/ HCI_wait_response \/ HCI_reset
  <2>1. /\ UNCHANGED <<cmd, rxPartial, rxLow, rxHigh, rxEnd, toHost, toCtrl, info, refused>>
        /\ pc \notin {"idle", "send"}
        /\ pc' # "copyHigh"
    BY <1>3 DEF BeginWait, HCI_wait_response, HCI_reset, Continue, rxVars
  <2>2. AnswerDue' = AnswerDue
    BY <2>1 DEF AnswerDue
  <2>3. pc' = "idle" => cmd \notin ReadCommand
    BY <1>3 DEF BeginWait, HCI_wait_response, HCI_reset, HangInv, WaitKind, ReadCommand
  <2> QED BY <2>1, <2>2, <2>3
          DEF HalfStored, AnswerKept, ReadFrom, FillsEnd, Long, Owner, IsAnswer
<1>4. CASE CopyLow
  <2>1. UNCHANGED <<cmd, rxPartial, rxLow, rxHigh, rxEnd, toHost, toCtrl, refused>>
    BY <1>4 DEF CopyLow, rxVars
  <2>2. AnswerDue' = AnswerDue
    BY <2>1 DEF AnswerDue
  <2>3. pc = "copyLow" /\ pc' = "copyHigh" /\ info'.low = rxLow
    BY <1>4 DEF CopyLow, TypeInv, TypeOK
  <2> QED BY <2>1, <2>2, <2>3
          DEF HalfStored, AnswerKept, ReadFrom, FillsEnd, Long, Owner, IsAnswer
<1>5. CASE CopyHigh
  <2>1. UNCHANGED <<cmd, rxPartial, rxLow, rxHigh, rxEnd, toHost, toCtrl, refused>>
    BY <1>5 DEF CopyHigh, rxVars
  <2>2. pc = "copyHigh" /\ pc' \in {"idle", "send"} /\ ~AnswerDue
    BY <1>5 DEF CopyHigh, Continue, ColdInv, Settled
  <2>3. info'.low = info.low /\ info'.high = rxHigh /\ info'.end = rxEnd
    BY <1>5 DEF CopyHigh, TypeInv, TypeOK
  <2>4. ReadFrom(others)'
    BY <2>1, <2>2, <2>3 DEF AnswerKept, ReadFrom, FillsEnd
  <2> QED BY <2>1, <2>2, <2>4 DEF HalfStored, AnswerKept, Long, Owner, IsAnswer
<1>6. CASE ReceivePart
  <2>1. /\ UNCHANGED <<pc, cmd, info, rxHigh, rxEnd, toHost, toCtrl, refused>>
        /\ toHost # <<>> /\ Long(Head(toHost)) /\ rxLow' = Owner(Head(toHost))
    BY <1>6 DEF ReceivePart, MayReceive, mainVars
  <2>2. AnswerDue' = AnswerDue
    BY <2>1 DEF AnswerDue
  <2>3. ~AnswerDue => rxLow' = "RADIO"
    BY <2>1, OnlyRadioFollows
  <2>4. AnswerKept(others)'
    BY <2>1, <2>2, <2>3 DEF AnswerKept, FillsEnd, NothingFollows
  <2> QED BY <2>1, <2>4 DEF HalfStored, ReadFrom, FillsEnd, Long, Owner, IsAnswer
<1>7. CASE ReceivePacket
  <2> DEFINE e == Head(toHost)
  <2>1. /\ UNCHANGED <<pc, cmd, info, rxLow>> /\ ~rxPartial' /\ toHost # <<>>
        /\ IF Long(e) THEN rxPartial /\ rxHigh' = Owner(e) ELSE rxHigh' = rxHigh
        /\ rxEnd' = IF Long(e) /\ FillsEnd(Owner(e)) THEN Owner(e) ELSE rxEnd
        /\ ~refused' => ~refused /\ (IsAnswer(e) => e.ok)
    BY <1>7 DEF ReceivePacket, MayReceive, mainVars, TypeInv, TypeOK
  <2>2. AnswerKept(others)'
    <3>1. SUFFICES ASSUME cmd \in ReadCommand, ~AnswerDue', ~refused', pc \notin {"idle", "send"}
                   PROVE  /\ rxLow \in {cmd} \cup others /\ rxHigh' \in {cmd} \cup others
                          /\ FillsEnd(cmd) => rxEnd' \in {cmd} \cup others
                          /\ pc = "copyHigh" => info.low \in {cmd} \cup others
      BY <2>1 DEF AnswerKept, FillsEnd
    <3>2. CASE IsAnswer(e)
      <4>1. e.cmd = cmd /\ AnswerDue
        BY <1>7, <3>1, <3>2, Received DEF HangInv
      <4>2. Long(e) /\ Owner(e) = cmd
        BY <2>1, <3>1, <3>2, <4>1 DEF Long, Owner
      <4>3. pc # "copyHigh"
        BY <4>1 DEF ColdInv, Settled
      <4> QED BY <2>1, <4>2, <4>3 DEF HalfStored
    <3>3. CASE ~IsAnswer(e)
      <4>1. ~AnswerDue /\ Owner(e) = "RADIO" /\ "RADIO" \in others
        BY <1>7, <2>1, <3>1, <3>3, Received, OnlyRadioFollows DEF NothingFollows
      <4> QED BY <2>1, <3>1, <4>1 DEF AnswerKept
    <3> QED BY <3>2, <3>3
  <2> QED BY <2>1, <2>2 DEF HalfStored, ReadFrom, FillsEnd
<1>8. CASE Accept \/ Refuse \/ Report \/ LinkUp \/ PeerConnects \/ LinkLost
  <2>1. UNCHANGED <<pc, cmd, info, rxPartial, rxLow, rxHigh, rxEnd, refused>>
    BY <1>8 DEF Accept, Refuse, Report, LinkUp, PeerConnects, LinkLost, Emit, mainVars, rxVars
  <2>2. toHost # <<>> => toHost' # <<>> /\ Head(toHost') = Head(toHost)
    <3>1. PICK x : toHost' = Append(toHost, x)
      BY <1>8 DEF Accept, Refuse, Report, LinkUp, PeerConnects, LinkLost, Emit
    <3>2. toHost \in Seq(Event)
      BY DEF TypeInv, TypeOK
    <3>3. ASSUME toHost # <<>>
          PROVE  /\ Len(toHost) \in Nat \ {0} /\ Len(toHost') = Len(toHost) + 1
                 /\ toHost'[1] = toHost[1]
      BY <3>1, <3>2, <3>3, EmptySeq, LenProperties
    <3> QED BY <3>1, <3>2, <3>3
  <2>3. ~AnswerDue' => ~AnswerDue
    BY <1>8, Answered, Reported
  <2>4. AnswerKept(others)'
    <3>1. CASE AnswerDue'
      BY <3>1 DEF AnswerKept
    <3>2. CASE ~AnswerDue' /\ ~AnswerDue
      BY <2>1, <3>2 DEF AnswerKept, FillsEnd
    <3> QED BY <2>3, <3>1, <3>2
  <2>5. HalfStored'
    BY <2>1, <2>2 DEF HalfStored, Long, Owner, IsAnswer
  <2> QED BY <2>1, <2>4, <2>5 DEF ReadFrom, FillsEnd
<1>9. CASE UNCHANGED vars
  <2>1. AnswerDue' = AnswerDue
    BY <1>9 DEF vars, AnswerDue
  <2> QED BY <1>9, <2>1 DEF vars, mainVars, rxVars, HalfStored, AnswerKept, ReadFrom, FillsEnd,
           Long, Owner, IsAnswer
<1> QED
  BY <1>1, <1>2, <1>3, <1>4, <1>5, <1>6, <1>7, <1>8, <1>9 DEF Next, Main, Irq, Controller

\* For the same application a read call that was answered with success returns
\* its own answer: no later packet overwrites rx_buffer[7..14] while
\* HCI_get_module_status copies it, nor the six bytes of the address while
\* HCI_get_bt_addr does.
THEOREM ReadsAreOwn ==
  ASSUME Careful = TRUE, Connectable = FALSE,
         "HCI_reset" \notin AppCalls, "GAP_deinit" \notin AppCalls
  PROVE  Spec => []ReadIsOwn
<1>1. Init => ReadInv({})
  BY ReadInit
<1>2. TypeInv /\ HangInv /\ ColdInv /\ NothingFollows /\ ReadInv({}) /\ [Next]_vars
      => ReadInv({})'
  BY ReadStep
<1>3. ReadInv({}) => ReadIsOwn
  BY DEF ReadInv, ReadIsOwn
<1> QED
  BY <1>1, <1>2, <1>3, TrackedIsQuiet, TypeInvariant, HangInvariant, ColdInvariant,
     TrackInvariant, PTL
  DEF Spec

\* Of an application that resets nothing, whatever else it calls and whoever
\* connects to it, a read call returns bytes of its own answer or of packets
\* the radio sent by itself, and none that an earlier answer left.
THEOREM ReadsAreOwnOrRadio ==
  ASSUME "HCI_reset" \notin AppCalls
  PROVE  Spec => []ReadIsOwnOrRadio
<1>1. Init => ReadInv({"RADIO"})
  BY ReadInit
<1>2. TypeInv /\ HangInv /\ ColdInv /\ ReadInv({"RADIO"}) /\ [Next]_vars
      => ReadInv({"RADIO"})'
  BY ReadStep
<1>3. ReadInv({"RADIO"}) => ReadIsOwnOrRadio
  BY DEF ReadInv, ReadIsOwnOrRadio
<1> QED BY <1>1, <1>2, <1>3, TypeInvariant, HangInvariant, ColdInvariant, PTL DEF Spec

\* The commands after which the radio has something to report.
Wakens(c) == c \in {"SCAN_ENABLE", "CREATE_CONNECTION"}

\* The radio neither scans nor connects, so all that arrives is answers.
SilentRadio ==
  /\ ~scan /\ link = "none"
  /\ \A i \in DOMAIN script : ~Wakens(script[i])
  /\ \A i \in DOMAIN toCtrl : ~Wakens(toCtrl[i])
  /\ \A i \in DOMAIN toHost : IsAnswer(toHost[i])

LEMMA SilentStep ==
  ASSUME Connectable = FALSE, "GAP_start_scanning" \notin AppCalls, "GAP_connect" \notin AppCalls
  PROVE  TypeInv /\ SilentRadio /\ [Next]_vars => SilentRadio'
<1> SUFFICES ASSUME TypeInv, SilentRadio, [Next]_vars
             PROVE  SilentRadio'
  OBVIOUS
<1>1. ASSUME NEW c \in Call, MakeCall(c)
      PROVE  SilentRadio'
  <2>1. c \notin {"GAP_start_scanning", "GAP_connect"}
    BY <1>1 DEF MakeCall
  <2>2. \A i \in DOMAIN Script[c] : ~Wakens(Script[c][i])
    BY <2>1 DEF Call, Script, Wakens
  <2> QED BY <1>1, <2>2 DEF MakeCall, SilentRadio, Wakens, IsAnswer, radio
<1>2. CASE HCI_send_command
  <2>1. /\ script \in Seq(Command) /\ script # <<>> /\ toCtrl \in Seq(Command)
        /\ script' = Tail(script) /\ toCtrl' = Append(toCtrl, Head(script))
        /\ UNCHANGED <<toHost, scan, link>>
    BY <1>2 DEF HCI_send_command, TypeInv, TypeOK, ScriptReady, radio
  <2>2. /\ 1 \in DOMAIN script /\ Head(script) = script[1] /\ Head(script) \in Command
        /\ \A i \in DOMAIN script' : i + 1 \in DOMAIN script /\ script'[i] = script[i + 1]
    BY <2>1, TailFacts, LenProperties
  <2>3. \A i \in DOMAIN toCtrl' :
          toCtrl'[i] = Head(script) \/ (i \in DOMAIN toCtrl /\ toCtrl'[i] = toCtrl[i])
    BY <2>1, <2>2, AppendFacts, LenProperties
  <2> QED BY <2>1, <2>2, <2>3 DEF SilentRadio, Wakens, IsAnswer
<1>3. CASE BeginWait \/ HCI_wait_response \/ HCI_reset \/ CopyLow \/ CopyHigh
           \/ ReceivePart \/ UNCHANGED vars
  <2>1. UNCHANGED <<script, toCtrl, toHost, scan, link>>
    BY <1>3 DEF BeginWait, HCI_wait_response, HCI_reset, CopyLow, CopyHigh, ReceivePart, vars,
       mainVars, radio
  <2> QED BY <2>1 DEF SilentRadio, Wakens, IsAnswer
<1>4. CASE ReceivePacket
  <2>1. /\ UNCHANGED <<script, toCtrl, scan, link>>
        /\ \A i \in DOMAIN toHost' : i + 1 \in DOMAIN toHost /\ toHost'[i] = toHost[i + 1]
    BY <1>4, TailFacts, LenProperties DEF ReceivePacket, MayReceive, mainVars, radio, TypeInv, TypeOK
  <2> QED BY <2>1 DEF SilentRadio, Wakens, IsAnswer
<1>5. CASE Accept \/ Refuse
  <2>1. /\ toCtrl \in Seq(Command) /\ toCtrl # <<>> /\ toCtrl' = Tail(toCtrl)
        /\ toHost \in Seq(Event) /\ script' = script
    BY <1>5 DEF Accept, Refuse, mainVars, TypeInv, TypeOK
  <2>2. /\ 1 \in DOMAIN toCtrl /\ Head(toCtrl) = toCtrl[1] /\ Head(toCtrl) \in Command
        /\ \A i \in DOMAIN toCtrl' : i + 1 \in DOMAIN toCtrl /\ toCtrl'[i] = toCtrl[i + 1]
    BY <2>1, TailFacts, LenProperties
  <2>3. PICK ok \in BOOLEAN : toHost' = Append(toHost, AnswerTo(Head(toCtrl), ok))
    BY <1>5 DEF Accept, Refuse
  <2> DEFINE a == AnswerTo(Head(toCtrl), ok)
  <2>4. a \in Event /\ IsAnswer(a)
    BY <2>2, AnswerFacts
  <2> HIDE DEF a
  <2>5. \A i \in DOMAIN toHost' :
          toHost'[i] = a \/ (i \in DOMAIN toHost /\ toHost'[i] = toHost[i])
    <3>1. toHost' = Append(toHost, a)
      BY <2>3 DEF a
    <3> QED BY <2>1, <2>4, <3>1, AppendFacts, LenProperties
  <2>6. ~scan' /\ link' = "none"
    <3>1. ~Wakens(Head(toCtrl))
      BY <2>2 DEF SilentRadio
    <3>2. Head(toCtrl) \notin {"SCAN_ENABLE", "CREATE_CONNECTION"} /\ ~scan /\ link = "none"
      BY <3>1 DEF SilentRadio, Wakens
    <3>3. CASE Accept
      <4>1. Effect(Head(toCtrl))
        BY <3>3 DEF Accept
      <4> QED BY <3>2, <4>1 DEF Effect
    <3>4. CASE Refuse
      BY <3>2, <3>4 DEF Refuse, radio
    <3> QED BY <1>5, <3>3, <3>4
  <2> QED BY <2>1, <2>2, <2>4, <2>5, <2>6 DEF SilentRadio, Wakens, IsAnswer
<1>6. CASE Report \/ LinkUp \/ PeerConnects \/ LinkLost
  BY <1>6 DEF Report, LinkUp, PeerConnects, LinkLost, SilentRadio
<1> QED BY <1>1, <1>2, <1>3, <1>4, <1>5, <1>6 DEF Next, Main, Irq, Controller

\* An application that never scans, connects or lets a peer connect need not
\* ask HCI_get_state: what it reads is the answer to its call all the same
\* (again without the two bytes that HCI_get_bt_addr copies beyond the address).
THEOREM ReadsOfSilentRadio ==
  ASSUME Connectable = FALSE, "HCI_reset" \notin AppCalls,
         "GAP_start_scanning" \notin AppCalls, "GAP_connect" \notin AppCalls
  PROVE  Spec => []ReadIsOwn
<1>1. Init => ReadInv({}) /\ SilentRadio
  <2>1. Init => ReadInv({})
    BY ReadInit
  <2>2. Init => SilentRadio
    BY DEF Init, SilentRadio
  <2> QED BY <2>1, <2>2
<1>2. TypeInv /\ SilentRadio => NothingFollows
  <2> SUFFICES ASSUME TypeInv, SilentRadio, ~AnswerDue
               PROVE  toHost = <<>>
    BY DEF NothingFollows
  <2>1. DOMAIN toHost = {}
    BY DEF SilentRadio, AnswerDue
  <2> QED BY <2>1, EmptySeq DEF TypeInv, TypeOK
<1>3. TypeInv /\ SilentRadio /\ [Next]_vars => SilentRadio'
  BY SilentStep
<1>4. TypeInv /\ HangInv /\ ColdInv /\ NothingFollows /\ ReadInv({}) /\ [Next]_vars
      => ReadInv({})'
  BY ReadStep
<1>5. ReadInv({}) => ReadIsOwn
  BY DEF ReadInv, ReadIsOwn
<1> QED
  BY <1>1, <1>2, <1>3, <1>4, <1>5, TypeInvariant, HangInvariant, ColdInvariant, PTL
  DEF Spec

=============================================================================
