---------------------------- MODULE HciFirmware ----------------------------
(***************************************************************************)
(* HCI_init and the firmware loader of src/hci.c:667-727, 836-867: a reset,*)
(* the minidriver command, then the records of the image, each sent as the *)
(* command it spells and waited for.  The pointer into the image is static *)
(* and outlives the call.                                                  *)
(*                                                                         *)
(* The handshake is the one of HciCommand: an answer may be handled before *)
(* its wait has begun, and may be of either status.                        *)
(***************************************************************************)
EXTENDS Integers, Sequences, SequencesExt

CONSTANTS
  Images,           \* sequences of bytes, one of which is linked in
  MAX_PACKET_SIZE,  \* 256 in the code
  MaxInits          \* a bound for TLC: how often HCI_init is called

Byte == 0 .. 255
RESET == "RESET"
MINIDRIVER == "MINIDRIVER"
RECORD == "RECORD"

ASSUME FirmwareAssumption ==
  /\ Images \subseteq Seq(Byte) \ {<< >>}
  /\ MAX_PACKET_SIZE \in Nat
  /\ MaxInits \in Nat

VARIABLES
  image,
  ptr,                \* bcm4345c0_fw_ptr, from the start of the image
  length,             \* fw_parameter_length of the record in hand
  pc,                 \* where HCI_init is
  hci_state,
  waiting_response,
  begun,              \* it was set since the last command was sent
  owed,               \* commands the controller has not answered yet
  status,             \* what the last HCI_init returned
  inits,              \* how often it was called
  loaded,             \* the bytes of all the records that were sent, in order
  held,               \* how many of them when the last HCI_init was called
  early, refused      \* history: the last command was answered before its wait
                      \* began; the reset of the call was answered with an error

handshake == << hci_state, waiting_response, begun, owed, early, refused >>
vars == << image, ptr, length, pc, handshake, status, inits, loaded, held >>

FirmwareTypeOK ==
  /\ image \in Images
  /\ ptr \in 0 .. Len(image)
  /\ length \in Byte
  /\ pc \in {"idle", "reset", "minidriver", "loop", "chunk"}
  /\ hci_state \in {"IDLE", "ON", "ADVERTISING"}
  /\ waiting_response \in BOOLEAN /\ begun \in BOOLEAN
  /\ owed \in Seq({RESET, MINIDRIVER, RECORD})
  /\ status \in {"none", "SUCCESS", "INTERNAL_ERROR", "BUFFER_OVERFLOW", "INVALID_PARAMETERS"}
  /\ inits \in 0 .. MaxInits
  /\ loaded \in Seq(Byte)
  /\ held \in Nat
  /\ early \in BOOLEAN /\ refused \in BOOLEAN

Init ==
  /\ image \in Images
  /\ ptr = 0 /\ length = 0 /\ pc = "idle"
  /\ hci_state = "IDLE" /\ waiting_response = FALSE /\ begun = FALSE /\ owed = << >>
  /\ early = FALSE /\ refused = FALSE
  /\ status = "none" /\ inits = 0 /\ loaded = << >> /\ held = 0

-----------------------------------------------------------------------------
(***************************************************************************)
(* The thread.                                                             *)
(***************************************************************************)
\* HCI_send_command: the packet is in the UART when it returns.
Send(cmd) ==
  /\ owed' = Append(owed, cmd)
  /\ begun' = FALSE /\ early' = FALSE
  /\ UNCHANGED << hci_state, waiting_response >>

\* waiting_response = true, in HCI_wait_response or in HCI_reset; the interrupt
\* may have come in between.
BeginWait ==
  /\ pc \in {"reset", "minidriver", "chunk"} /\ ~begun
  /\ begun' = TRUE /\ waiting_response' = TRUE
  /\ UNCHANGED << image, ptr, length, pc, hci_state, owed, early, refused, status, inits, loaded, held >>

\* The spin of HCI_wait_response has ended.
Woken == begun /\ ~waiting_response

Return(result) == pc' = "idle" /\ status' = result

\* Slip: every call begins with the image's start.
RewindingInit ==
  /\ pc = "idle" /\ inits < MaxInits
  /\ inits' = inits + 1 /\ held' = Len(loaded) /\ status' = "none"
  /\ ptr' = 0
  /\ Send(RESET)
  /\ pc' = "reset" /\ refused' = FALSE
  /\ UNCHANGED << image, length, loaded >>

\* hw_init, and the command of HCI_reset.
HCI_init ==
  /\ pc = "idle" /\ inits < MaxInits
  /\ inits' = inits + 1 /\ held' = Len(loaded) /\ status' = "none"
  /\ Send(RESET)
  /\ pc' = "reset" /\ refused' = FALSE
  /\ UNCHANGED << image, ptr, length, loaded >>

\* HCI_reset returns when the state is ON; it may have been ON all along.
HCI_reset ==
  /\ pc = "reset" /\ begun /\ hci_state = "ON"
  /\ Send(MINIDRIVER)
  /\ pc' = "minidriver"
  /\ UNCHANGED << image, ptr, length, refused, status, inits, loaded, held >>

\* Slip: the image is not compared with its size.
ValidateMagic ==
  /\ pc = "minidriver" /\ Woken
  /\ pc' = "loop" /\ UNCHANGED status
  /\ UNCHANGED << image, ptr, length, handshake, inits, loaded, held >>

\* The image must be whole, and begin with the op code 0x4c.
Validate ==
  /\ pc = "minidriver" /\ Woken
  /\ IF ptr # 0 \/ image[1] # 76
     THEN Return("INTERNAL_ERROR")
     ELSE pc' = "loop" /\ UNCHANGED status
  /\ UNCHANGED << image, ptr, length, handshake, inits, loaded, held >>

Fits(n) == ptr + n <= Len(image)

\* HCI_encode_packet has room for so many parameters.
Encodes(n) == 4 + n <= MAX_PACKET_SIZE

\* Slip: success also where a header is cut off.
FinishAnywhere ==
  /\ pc = "loop" /\ ~Fits(3)
  /\ Return("SUCCESS") /\ hci_state' = "ON"
  /\ UNCHANGED << image, ptr, length, waiting_response, begun, owed, early, refused, inits, loaded, held >>

\* The end of the image, and of HCI_init.
Finish ==
  /\ pc = "loop" /\ ptr = Len(image)
  /\ Return("SUCCESS") /\ hci_state' = "ON"
  /\ UNCHANGED << image, ptr, length, waiting_response, begun, owed, early, refused, inits, loaded, held >>

\* A header that is cut off ends the loader and leaves the pointer at it.
CutHeader ==
  /\ pc = "loop" /\ ptr < Len(image) /\ ~Fits(3)
  /\ Return("BUFFER_OVERFLOW")
  /\ UNCHANGED << image, ptr, length, handshake, inits, loaded, held >>

\* Parameters that are cut off, or too long for a packet, leave it behind the
\* header.
BadRecord ==
  /\ pc = "loop" /\ Fits(3)
  /\ LET n == image[ptr + 3] IN
       /\ length' = n
       /\ \/ ~Fits(3 + n) /\ Return("BUFFER_OVERFLOW")
          \/ Fits(3 + n) /\ ~Encodes(n) /\ Return("INVALID_PARAMETERS")
  /\ ptr' = ptr + 3
  /\ UNCHANGED << image, handshake, inits, loaded, held >>

\* Slip: the parameters are sent from the record's start.
SendFromStart ==
  /\ pc = "loop" /\ Fits(3)
  /\ LET n == image[ptr + 3] IN
       /\ Fits(3 + n) /\ Encodes(n)
       /\ length' = n
       /\ loaded' = loaded \o SubSeq(image, ptr + 1, ptr + 3) \o SubSeq(image, ptr + 1, ptr + n)
  /\ ptr' = ptr + 3
  /\ Send(RECORD)
  /\ pc' = "chunk"
  /\ UNCHANGED << image, refused, status, inits, held >>

\* The record is sent as a command of its op code, length and parameters.
SendRecord ==
  /\ pc = "loop" /\ Fits(3)
  /\ LET n == image[ptr + 3] IN
       /\ Fits(3 + n) /\ Encodes(n)
       /\ length' = n
       /\ loaded' = loaded \o SubSeq(image, ptr + 1, ptr + 3 + n)
  /\ ptr' = ptr + 3
  /\ Send(RECORD)
  /\ pc' = "chunk"
  /\ UNCHANGED << image, refused, status, inits, held >>

\* Slip: the header is stepped over once more.
SkipHeaderAgain ==
  /\ pc = "chunk" /\ Woken
  /\ ptr' = ptr + 3 + length
  /\ pc' = "loop"
  /\ UNCHANGED << image, length, handshake, status, inits, loaded, held >>

\* Its answer, of either status, ends the wait.
NextRecord ==
  /\ pc = "chunk" /\ Woken
  /\ ptr' = ptr + length
  /\ pc' = "loop"
  /\ UNCHANGED << image, length, handshake, status, inits, loaded, held >>

Load == BeginWait \/ HCI_reset \/ Validate \/ Finish \/ CutHeader \/ BadRecord \/ SendRecord \/ NextRecord

\* Between the calls the application advertises, or stops: see HciCommand.
OtherCalls ==
  /\ pc = "idle" /\ hci_state # "IDLE" /\ owed = << >>
  /\ hci_state' = IF hci_state = "ON" THEN "ADVERTISING" ELSE "ON"
  /\ UNCHANGED << image, ptr, length, pc, waiting_response, begun, owed, early, refused,
                  status, inits, loaded, held >>

-----------------------------------------------------------------------------
\* Slip: the flag is cleared after the check of the status, not before it.
ClearedOnSuccess(ok) ==
  /\ waiting_response' = (waiting_response /\ ~ok)
  /\ hci_state' = IF ok /\ Head(owed) = RESET THEN "ON" ELSE hci_state

\* HCI_handle_command_complete_event clears the flag whatever the status.
Handle(ok) ==
  /\ waiting_response' = FALSE
  /\ hci_state' = IF ok /\ Head(owed) = RESET THEN "ON" ELSE hci_state

\* The controller (external) answers in order, and may refuse a command.
Answer ==
  /\ owed # << >>
  /\ owed' = Tail(owed)
  /\ \E ok \in BOOLEAN :
       /\ Handle(ok)
       /\ refused' = (refused \/ (Head(owed) = RESET /\ ~ok))
  /\ early' = (early \/ (~begun /\ Len(owed) = 1))
  /\ UNCHANGED << image, ptr, length, pc, begun, status, inits, loaded, held >>

Next == HCI_init \/ Load \/ OtherCalls \/ Answer

Spec == Init /\ [][Next]_vars

FairSpec == Spec /\ WF_vars(Load) /\ WF_vars(Answer)

-----------------------------------------------------------------------------
\* Through all calls the records go out once and in order, cut at the record
\* boundaries of the image: what was sent is always a beginning of it
\* (hci.c:692-722).
LoadedIsPrefix == IsPrefix(loaded, image)

\* HCI_init reports success only when the whole image was sent (hci.c:844-853).
SuccessMeansLoaded == status = "SUCCESS" => loaded = image

\* No HCI_init but the first sends a record or succeeds: after a failure, and
\* after a success, a retry neither repeats nor resumes the download (hci.c:23, 684).
RetryLoadsNothing == inits > 1 => Len(loaded) = held /\ status # "SUCCESS"

\* A record is sent only when everything before it was answered, although a
\* second HCI_init does not wait for its reset (hci.c:712-718, 865).
RecordsWaitTheirTurn == [][loaded' # loaded => owed = << >>]_vars

\* HCI_init returns, whatever the image, whatever the controller refuses of the
\* download and whatever is still owed of an earlier reset, but for two known
\* hangs: the answer to the minidriver or to a record was handled before the
\* wait for it began (hci.c:32), or the reset was refused (hci.c:865).
InitReturns ==
  pc # "idle" ~> \/ pc = "idle"
                 \/ early /\ pc \in {"minidriver", "chunk"}
                 \/ refused /\ pc = "reset" /\ hci_state # "ON"
=============================================================================
