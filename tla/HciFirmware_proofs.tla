------------------------- MODULE HciFirmware_proofs -------------------------
(***************************************************************************)
(* Theorems of HciFirmware, for every image and any number of calls.  The  *)
(* invariant follows the pointer: in the loop it stands where the bytes    *)
(* that were sent end, while a record is waited for it is behind by the    *)
(* record's parameters, and once a call is over it has moved, unless no    *)
(* record could be read at all.                                            *)
(***************************************************************************)
EXTENDS HciFirmware, SequenceTheorems, TLAPS

\* The first m bytes of the image were sent.
Sent(m) == m \in 0 .. Len(image) /\ loaded = SubSeq(image, 1, m)

Cursor ==
  /\ pc = "loop" => Sent(ptr)
  /\ pc = "chunk" => Sent(ptr + length) /\ ptr >= 3
  /\ ptr = 0 \/ ptr >= 3
  /\ \E m \in Nat : Sent(m)
  /\ ptr = 0 => loaded = << >>
  /\ status = "SUCCESS" => loaded = image /\ pc = "idle"

\* Validate fails from now on, or no header can be read.
Spent == ptr # 0 \/ image[1] # 76 \/ Len(image) < 3

Retry ==
  /\ inits > 1 => held = Len(loaded) /\ status # "SUCCESS"
  /\ inits > 1 \/ (inits = 1 /\ pc = "idle") => Spent
  /\ inits > 1 => pc # "chunk" /\ (pc = "loop" => Len(image) < 3)

\* In the first call nothing is owed but the answer that is waited for.
FirstCall ==
  /\ inits = 0 => pc = "idle" /\ owed = << >> /\ hci_state = "IDLE"
  /\ inits = 1 /\ pc = "reset" => owed = << >> \/ (owed = << RESET >> /\ hci_state = "IDLE")
  /\ inits = 1 /\ pc = "loop" => owed = << >>
  /\ inits = 1 /\ pc \in {"minidriver", "chunk"} =>
       owed = << >> \/ (Len(owed) = 1 /\ ~Woken)

IInv == FirmwareTypeOK /\ Cursor /\ Retry /\ FirstCall

-----------------------------------------------------------------------------
\* An image has a first byte, and its bytes are lengths.
LEMMA ImageBytes ==
  ASSUME image \in Images
  PROVE  /\ image \in Seq(Byte) /\ Len(image) \in Nat /\ Len(image) > 0
         /\ \A k \in 1 .. Len(image) : image[k] \in Byte
         /\ \A b \in Byte : b \in Nat
<1>1. image \in Seq(Byte) /\ image # << >>
  BY FirmwareAssumption
<1>2. Len(image) \in Nat /\ Len(image) > 0
  BY <1>1
<1>3. \A k \in 1 .. Len(image) : image[k] \in Byte
  BY <1>1
<1>4. \A b \in Byte : b \in Nat
  BY SMT DEF Byte
<1>5. QED
  BY <1>1, <1>2, <1>3, <1>4

\* One more record behind what was sent.
LEMMA OneMore ==
  ASSUME image \in Images, NEW m \in Nat, NEW k \in Nat, m + k <= Len(image), Sent(m)
  PROVE  /\ loaded \o SubSeq(image, m + 1, m + k) = SubSeq(image, 1, m + k)
         /\ SubSeq(image, 1, m + k) \in Seq(Byte)
<1>1. image \in Seq(Byte) /\ Len(image) \in Nat
  BY ImageBytes
<1>2. SubSeq(image, 1, m) \o SubSeq(image, m + 1, m + k) = SubSeq(image, 1, m + k)
  <2>1. 1 \in 1 .. Len(image) + 1 /\ m \in 1 - 1 .. Len(image) /\ m + k \in m .. Len(image)
    BY <1>1
  <2>2. QED
    BY <1>1, <2>1, ConcatAdjacentSubSeq
<1>3. SubSeq(image, 1, m + k) \in Seq(Byte)
  BY <1>1, SubSeqProperties
<1>4. QED
  BY <1>2, <1>3 DEF Sent

\* Nothing of the image, and all of it.
LEMMA Ends ==
  ASSUME image \in Images
  PROVE  SubSeq(image, 1, 0) = << >> /\ SubSeq(image, 1, Len(image)) = image
  BY ImageBytes, SubSeqEmpty, SubSeqFull

-----------------------------------------------------------------------------
LEMMA InitHolds == Init => IInv
<1>1. SUFFICES ASSUME Init PROVE IInv
  OBVIOUS
<1>2. FirmwareTypeOK
  <2>1. 0 \in Byte
    BY SMT DEF Byte
  <2>2. image \in Images /\ ptr \in 0 .. Len(image)
    BY <1>1, ImageBytes DEF Init
  <2>3. owed \in Seq({RESET, MINIDRIVER, RECORD}) /\ loaded \in Seq(Byte)
    BY <1>1 DEF Init
  <2>4. inits \in 0 .. MaxInits
    BY <1>1, FirmwareAssumption DEF Init
  <2>5. QED
    BY <1>1, <2>1, <2>2, <2>3, <2>4 DEF Init, FirmwareTypeOK
<1>3. Sent(0)
  BY <1>1, Ends, ImageBytes DEF Init, Sent
<1>4. Cursor /\ Retry /\ FirstCall
  BY <1>1, <1>3 DEF Init, Cursor, Retry, FirstCall
<1>5. QED
  BY <1>2, <1>4 DEF IInv

\* Steps that leave the image, the pointer and what was sent alone.
LEMMA SentStays ==
  ASSUME UNCHANGED << image, loaded >>, NEW m
  PROVE  Sent(m) => Sent(m)'
  BY DEF Sent

LEMMA CallStep ==
  ASSUME IInv, HCI_init
  PROVE  IInv'
<1>1. /\ pc = "idle" /\ inits < MaxInits /\ inits' = inits + 1 /\ held' = Len(loaded)
      /\ status' = "none" /\ owed' = Append(owed, RESET) /\ begun' = FALSE
      /\ early' = FALSE /\ refused' = FALSE /\ pc' = "reset"
      /\ UNCHANGED << image, ptr, length, hci_state, waiting_response, loaded >>
  BY DEF HCI_init, Send
<1>2. FirmwareTypeOK'
  <2>1. waiting_response' \in BOOLEAN /\ begun' \in BOOLEAN /\ early' \in BOOLEAN /\ refused' \in BOOLEAN
    BY <1>1, Zenon DEF IInv, FirmwareTypeOK
  <2>2. owed' \in Seq({RESET, MINIDRIVER, RECORD}) /\ inits' \in 0 .. MaxInits /\ held' \in Nat
    BY <1>1, FirmwareAssumption DEF IInv, FirmwareTypeOK
  <2>3. QED
    BY <1>1, <2>1, <2>2 DEF IInv, FirmwareTypeOK
<1>3. Cursor'
  BY <1>1, SentStays DEF IInv, Cursor
<1>4. inits \in Nat
  BY FirmwareAssumption DEF IInv, FirmwareTypeOK
<1>5. Retry'
  BY <1>1, <1>4 DEF IInv, Retry, Spent
<1>6. FirstCall'
  <2>1. inits' = 1 => owed' = << RESET >> /\ hci_state' = "IDLE"
    <3>1. inits' = 1 => inits = 0
      BY <1>1, <1>4
    <3>2. inits = 0 => owed = << >> /\ hci_state = "IDLE"
      BY DEF IInv, FirstCall
    <3>3. Append(<< >>, RESET) = << RESET >>
      OBVIOUS
    <3>4. QED
      BY <1>1, <3>1, <3>2, <3>3
  <2>2. QED
    BY <1>1, <1>4, <2>1 DEF FirstCall
<1>7. QED
  BY <1>2, <1>3, <1>5, <1>6 DEF IInv

LEMMA ResetStep ==
  ASSUME IInv, HCI_reset
  PROVE  IInv'
<1>1. /\ pc = "reset" /\ hci_state = "ON" /\ owed' = Append(owed, MINIDRIVER)
      /\ begun' = FALSE /\ early' = FALSE /\ pc' = "minidriver"
      /\ UNCHANGED << image, ptr, length, hci_state, waiting_response, refused,
                      status, inits, loaded, held >>
  BY DEF HCI_reset, Send
<1>2. FirmwareTypeOK'
  <2>1. waiting_response' \in BOOLEAN /\ begun' \in BOOLEAN /\ early' \in BOOLEAN /\ refused' \in BOOLEAN
    BY <1>1, Zenon DEF IInv, FirmwareTypeOK
  <2>2. owed' \in Seq({RESET, MINIDRIVER, RECORD})
    BY <1>1 DEF IInv, FirmwareTypeOK
  <2>3. QED
    BY <1>1, <2>1, <2>2 DEF IInv, FirmwareTypeOK
<1>3. Cursor'
  BY <1>1, SentStays DEF IInv, Cursor
<1>4. Retry'
  BY <1>1 DEF IInv, Retry, Spent
<1>5. FirstCall'
  <2>1. inits = 1 => owed = << >>
    BY <1>1 DEF IInv, FirstCall
  <2>2. inits' = 1 => Len(owed') = 1
    BY <1>1, <2>1
  <2>3. inits' # 0
    BY <1>1 DEF IInv, FirstCall
  <2>4. QED
    BY <1>1, <2>2, <2>3 DEF FirstCall, Woken
<1>6. QED
  BY <1>2, <1>3, <1>4, <1>5 DEF IInv

LEMMA BeginStep ==
  ASSUME IInv, BeginWait
  PROVE  IInv'
<1>1. /\ begun' = TRUE /\ waiting_response' = TRUE
      /\ UNCHANGED << image, ptr, length, pc, hci_state, owed, early, refused,
                      status, inits, loaded, held >>
  BY DEF BeginWait
<1>2. FirmwareTypeOK' /\ Retry' /\ FirstCall'
  BY <1>1 DEF IInv, FirmwareTypeOK, Retry, Spent, FirstCall, Woken
<1>3. Cursor'
  BY <1>1, SentStays DEF IInv, Cursor
<1>4. QED
  BY <1>2, <1>3 DEF IInv

LEMMA ValidateStep ==
  ASSUME IInv, Validate
  PROVE  IInv'
<1>1. /\ pc = "minidriver" /\ Woken
      /\ UNCHANGED << image, ptr, length, hci_state, waiting_response, begun, owed, early, refused,
                      inits, loaded, held >>
  BY DEF Validate, handshake
<1>2. \/ (ptr # 0 \/ image[1] # 76) /\ pc' = "idle" /\ status' = "INTERNAL_ERROR"
      \/ ptr = 0 /\ image[1] = 76 /\ pc' = "loop" /\ status' = status
  BY DEF Validate, Return
<1>3. FirmwareTypeOK'
  BY <1>1, <1>2 DEF IInv, FirmwareTypeOK
<1>4. image \in Images
  BY DEF IInv, FirmwareTypeOK
<1>5. Cursor'
  <2>1. ptr = 0 => Sent(ptr)
    <3>1. Len(image) \in Nat /\ SubSeq(image, 1, 0) = << >>
      BY <1>4, Ends, ImageBytes
    <3>2. ptr = 0 => loaded = << >>
      BY DEF IInv, Cursor
    <3>3. QED
      BY <3>1, <3>2 DEF Sent
  <2>2. status # "SUCCESS"
    BY <1>1 DEF IInv, Cursor
  <2>3. QED
    BY <1>1, <1>2, <2>1, <2>2, SentStays DEF IInv, Cursor
<1>6. Retry'
  BY <1>1, <1>2 DEF IInv, Retry, Spent
<1>7. FirstCall'
  BY <1>1, <1>2 DEF IInv, FirstCall
<1>8. QED
  BY <1>3, <1>5, <1>6, <1>7 DEF IInv

LEMMA FinishStep ==
  ASSUME IInv, Finish
  PROVE  IInv'
<1>1. /\ pc = "loop" /\ ptr = Len(image) /\ pc' = "idle" /\ status' = "SUCCESS" /\ hci_state' = "ON"
      /\ UNCHANGED << image, ptr, length, waiting_response, begun, owed, early, refused,
                      inits, loaded, held >>
  BY DEF Finish, Return
<1>2. FirmwareTypeOK'
  BY <1>1 DEF IInv, FirmwareTypeOK
<1>3. image \in Images /\ inits \in Nat
  BY FirmwareAssumption DEF IInv, FirmwareTypeOK
<1>4. Cursor'
  <2>1. loaded = image
    BY <1>1, <1>3, Ends DEF IInv, Cursor, Sent
  <2>2. QED
    BY <1>1, <2>1, SentStays DEF IInv, Cursor
<1>5. ptr # 0
  BY <1>1, <1>3, ImageBytes
<1>6. ~(inits > 1)
  <2>1. ASSUME inits > 1 PROVE FALSE
    <3>1. Len(image) < 3 /\ (ptr = 0 \/ ptr >= 3)
      BY <1>1, <2>1 DEF IInv, Retry, Cursor
    <3>2. QED
      BY <1>1, <1>3, <3>1, ImageBytes
  <2>2. QED
    BY <2>1
<1>7. Retry' /\ FirstCall'
  BY <1>1, <1>3, <1>5, <1>6 DEF IInv, Retry, FirstCall, Spent
<1>8. QED
  BY <1>2, <1>4, <1>7 DEF IInv


\* A header or parameters that are cut off, or parameters too long to send.
LEMMA RefuseStep ==
  ASSUME IInv, CutHeader \/ BadRecord
  PROVE  IInv'
<1>1. /\ pc = "loop" /\ pc' = "idle" /\ status' \in {"BUFFER_OVERFLOW", "INVALID_PARAMETERS"}
      /\ UNCHANGED << image, hci_state, waiting_response, begun, owed, early, refused,
                      inits, loaded, held >>
  BY DEF CutHeader, BadRecord, Return, handshake
<1>2. image \in Images /\ inits \in Nat /\ ptr \in Nat
  BY FirmwareAssumption, ImageBytes DEF IInv, FirmwareTypeOK
<1>3. \/ ptr' = ptr /\ length' = length /\ ~Fits(3)
      \/ ptr' = ptr + 3 /\ length' = image[ptr + 3] /\ Fits(3)
  BY DEF CutHeader, BadRecord
<1>4. ptr' \in 0 .. Len(image) /\ length' \in Byte /\ (ptr' = ptr \/ ptr' >= 3)
  <2>1. CASE ptr' = ptr /\ length' = length
    BY <2>1 DEF IInv, FirmwareTypeOK
  <2>2. CASE ptr' = ptr + 3 /\ length' = image[ptr + 3] /\ Fits(3)
    BY <1>2, <2>2, ImageBytes DEF Fits
  <2>3. QED
    BY <1>3, <2>1, <2>2
<1>5. FirmwareTypeOK'
  BY <1>1, <1>4 DEF IInv, FirmwareTypeOK
<1>6. Cursor'
  <2>1. PICK m \in Nat : Sent(m)
    BY DEF IInv, Cursor
  <2>2. Sent(m)'
    BY <1>1, <2>1 DEF Sent
  <2>3. (ptr' = 0 \/ ptr' >= 3) /\ (ptr' = 0 => loaded' = << >>)
    BY <1>1, <1>2, <1>4 DEF IInv, Cursor
  <2>4. QED
    BY <1>1, <2>2, <2>3 DEF Cursor
<1>7. Retry'
  <2>1. Spent'
    <3>1. CASE ptr' = ptr /\ ~Fits(3)
      <4>1. ptr # 0 \/ Len(image) < 3
        BY <1>2, <3>1, ImageBytes DEF Fits
      <4>2. QED
        BY <1>1, <3>1, <4>1 DEF Spent
    <3>2. CASE ptr' = ptr + 3
      BY <1>2, <3>2 DEF Spent
    <3>3. QED
      BY <1>3, <3>1, <3>2
  <2>2. QED
    BY <1>1, <2>1 DEF IInv, Retry
<1>8. FirstCall'
  BY <1>1 DEF IInv, FirstCall
<1>9. QED
  BY <1>5, <1>6, <1>7, <1>8 DEF IInv

LEMMA SendStep ==
  ASSUME IInv, SendRecord
  PROVE  IInv' /\ owed = << >>
<1> DEFINE n == image[ptr + 3]
<1>1. /\ pc = "loop" /\ ptr + 3 <= Len(image) /\ ptr + (3 + n) <= Len(image)
      /\ length' = n /\ loaded' = loaded \o SubSeq(image, ptr + 1, ptr + 3 + n)
      /\ ptr' = ptr + 3 /\ owed' = Append(owed, RECORD) /\ pc' = "chunk"
      /\ begun' = FALSE /\ early' = FALSE
      /\ UNCHANGED << image, hci_state, waiting_response, refused, status, inits, held >>
  BY DEF SendRecord, Send, Fits
<1>2. image \in Images /\ inits \in Nat /\ ptr \in Nat /\ Len(image) \in Nat
  BY FirmwareAssumption, ImageBytes DEF IInv, FirmwareTypeOK
<1>3. n \in Byte /\ n \in Nat
  BY <1>1, <1>2, ImageBytes
<1> HIDE DEF n
<1>4. loaded' = SubSeq(image, 1, ptr + (3 + n)) /\ loaded' \in Seq(Byte)
  <2>1. Sent(ptr) /\ 3 + n \in Nat /\ ptr + 3 + n = ptr + (3 + n)
    BY <1>1, <1>2, <1>3 DEF IInv, Cursor
  <2>2. QED
    BY <1>1, <1>2, <2>1, OneMore
<1>5. inits = 1
  <2>1. ~(inits > 1)
    BY <1>1, <1>2 DEF IInv, Retry
  <2>2. inits # 0
    BY <1>1 DEF IInv, FirstCall
  <2>3. QED
    BY <1>2, <2>1, <2>2
<1>6. owed = << >>
  BY <1>1, <1>5 DEF IInv, FirstCall
<1>7. FirmwareTypeOK'
  <2>1. ptr' \in 0 .. Len(image) /\ length' \in Byte
    BY <1>1, <1>2, <1>3
  <2>2. waiting_response' \in BOOLEAN /\ begun' \in BOOLEAN /\ early' \in BOOLEAN /\ refused' \in BOOLEAN
    BY <1>1, Zenon DEF IInv, FirmwareTypeOK
  <2>3. owed' \in Seq({RESET, MINIDRIVER, RECORD})
    BY <1>1 DEF IInv, FirmwareTypeOK
  <2>4. QED
    BY <1>1, <1>4, <2>1, <2>2, <2>3 DEF IInv, FirmwareTypeOK
<1>8. Cursor'
  <2>1. Sent(ptr + length)' /\ ptr' + length' \in Nat
    <3>1. ptr' + length' = ptr + (3 + n) /\ ptr + (3 + n) \in 0 .. Len(image)
      BY <1>1, <1>2, <1>3
    <3>2. loaded' = SubSeq(image', 1, ptr' + length') /\ ptr' + length' \in 0 .. Len(image')
      BY <1>1, <1>4, <3>1
    <3>3. QED
      BY <3>1, <3>2, <1>2, <1>3 DEF Sent
  <2>2. status' # "SUCCESS" /\ ptr' >= 3 /\ ptr' # 0
    BY <1>1, <1>2 DEF IInv, Cursor
  <2>3. QED
    BY <1>1, <2>1, <2>2 DEF Cursor
<1>9. Retry'
  BY <1>1, <1>5 DEF Retry
<1>10. FirstCall'
  <2>1. Len(owed') = 1
    BY <1>1, <1>6
  <2>2. QED
    BY <1>1, <1>5, <2>1 DEF FirstCall, Woken
<1>11. QED
  BY <1>6, <1>7, <1>8, <1>9, <1>10 DEF IInv

LEMMA NextRecordStep ==
  ASSUME IInv, NextRecord
  PROVE  IInv'
<1>1. /\ pc = "chunk" /\ Woken /\ ptr' = ptr + length /\ pc' = "loop"
      /\ UNCHANGED << image, length, hci_state, waiting_response, begun, owed, early, refused,
                      status, inits, loaded, held >>
  BY DEF NextRecord, handshake
<1>2. Sent(ptr + length) /\ ptr \in Nat /\ length \in Nat /\ image \in Images /\ Len(image) \in Nat
  BY <1>1, ImageBytes DEF IInv, FirmwareTypeOK, Cursor
<1>3. Sent(ptr)'
  BY <1>1, <1>2 DEF Sent
<1>4. FirmwareTypeOK'
  <2>1. ptr' \in 0 .. Len(image)
    BY <1>1, <1>2 DEF Sent
  <2>2. QED
    BY <1>1, <2>1 DEF IInv, FirmwareTypeOK
<1>5. Cursor'
  <2>1. ptr' = 0 => ptr = 0
    BY <1>1, <1>2
  <2>2. ptr' = 0 \/ ptr' >= 3
    BY <1>1, <1>2 DEF IInv, Cursor
  <2>3. status' # "SUCCESS" /\ ptr' \in Nat
    BY <1>1, <1>2 DEF IInv, Cursor
  <2>4. QED
    BY <1>1, <1>3, <2>1, <2>2, <2>3 DEF IInv, Cursor
<1>6. inits = 1 \/ inits = 0
  BY <1>1, FirmwareAssumption DEF IInv, Retry, FirmwareTypeOK
<1>7. Retry' /\ FirstCall'
  BY <1>1, <1>6 DEF IInv, Retry, FirstCall
<1>8. QED
  BY <1>4, <1>5, <1>7 DEF IInv

LEMMA OtherCallsStep ==
  ASSUME IInv, OtherCalls
  PROVE  IInv'
<1>1. /\ pc = "idle" /\ hci_state # "IDLE" /\ hci_state' \in {"ADVERTISING", "ON"}
      /\ UNCHANGED << image, ptr, length, pc, waiting_response, begun, owed, early, refused,
                      status, inits, loaded, held >>
  BY DEF OtherCalls
<1>2. FirmwareTypeOK' /\ Retry' /\ FirstCall'
  BY <1>1 DEF IInv, FirmwareTypeOK, Retry, Spent, FirstCall
<1>3. Cursor'
  BY <1>1, SentStays DEF IInv, Cursor
<1>4. QED
  BY <1>2, <1>3 DEF IInv

LEMMA AnswerStep ==
  ASSUME IInv, Answer
  PROVE  IInv'
<1>1. /\ owed # << >> /\ owed' = Tail(owed) /\ waiting_response' = FALSE
      /\ hci_state' \in {"ON", hci_state}
      /\ early' = (early \/ (~begun /\ Len(owed) = 1))
      /\ refused' \in BOOLEAN
      /\ UNCHANGED << image, ptr, length, pc, begun, status, inits, loaded, held >>
  BY DEF Answer, Handle
<1>2. owed \in Seq({RESET, MINIDRIVER, RECORD}) /\ owed' \in Seq({RESET, MINIDRIVER, RECORD})
  BY <1>1 DEF IInv, FirmwareTypeOK
<1>3. FirmwareTypeOK'
  BY <1>1, <1>2 DEF IInv, FirmwareTypeOK
<1>4. Cursor'
  BY <1>1, SentStays DEF IInv, Cursor
<1>5. Retry'
  BY <1>1 DEF IInv, Retry, Spent
<1>6. FirstCall'
  <2>1. Len(owed) = 1 => owed' = << >>
    BY <1>1, <1>2
  <2>2. owed = << RESET >> => owed' = << >>
    BY <1>1
  <2>3. inits # 0 /\ ~(inits = 1 /\ pc = "loop")
    BY <1>1 DEF IInv, FirstCall
  <2>4. QED
    BY <1>1, <2>1, <2>2, <2>3 DEF IInv, FirstCall
<1>7. QED
  BY <1>3, <1>4, <1>5, <1>6 DEF IInv

LEMMA StepHolds == IInv /\ [Next]_vars => IInv'
<1>1. SUFFICES ASSUME IInv, [Next]_vars PROVE IInv'
  OBVIOUS
<1>2. CASE HCI_init
  BY <1>1, <1>2, CallStep
<1>3. CASE Load
  BY <1>1, <1>3, BeginStep, ResetStep, ValidateStep, FinishStep, RefuseStep, SendStep, NextRecordStep DEF Load
<1>4. CASE OtherCalls
  BY <1>1, <1>4, OtherCallsStep
<1>5. CASE Answer
  BY <1>1, <1>5, AnswerStep
<1>6. CASE UNCHANGED vars
  <2>1. Cursor'
    BY <1>1, <1>6, SentStays DEF vars, IInv, Cursor
  <2>2. QED
    BY <1>1, <1>6, <2>1 DEF vars, handshake, IInv, FirmwareTypeOK, Retry, Spent, FirstCall, Woken
<1>7. QED
  BY <1>1, <1>2, <1>3, <1>4, <1>5, <1>6 DEF Next

\* The invariant holds through every call of HCI_init.
THEOREM LoaderIsSound == Spec => []IInv
  BY InitHolds, StepHolds, PTL DEF Spec

-----------------------------------------------------------------------------
\* The pointer never leaves the image, whatever the lengths in it say.
THEOREM TypeCorrect == Spec => []FirmwareTypeOK
  BY LoaderIsSound, PTL DEF IInv

LEMMA SentIsPrefix == IInv => LoadedIsPrefix
<1>1. SUFFICES ASSUME IInv PROVE IsPrefix(loaded, image)
  BY DEF LoadedIsPrefix
<1>2. PICK m \in Nat : m <= Len(image) /\ loaded = SubSeq(image, 1, m)
  BY <1>1 DEF IInv, Cursor, Sent
<1>3. image \in Seq(Byte) /\ Len(image) \in Nat
  BY <1>1, ImageBytes DEF IInv, FirmwareTypeOK
<1>4. Len(loaded) = m
  BY <1>2, <1>3
<1>5. SubSeq(loaded, 1, m) = SubSeq(image, 1, m)
  BY <1>2, <1>3, <1>4, SubSeqFull, SubSeqProperties
<1>6. QED
  BY <1>2, <1>4, <1>5 DEF IsPrefix

\* What was sent is a beginning of the image, cut where the records end, for all
\* images and through all calls (hci.c:692-722).
THEOREM RecordsInOrder == Spec => []LoadedIsPrefix
  BY LoaderIsSound, SentIsPrefix, PTL

\* Success means that the whole image was sent (hci.c:844-853).
THEOREM SuccessIsEarned == Spec => []SuccessMeansLoaded
<1>1. IInv => SuccessMeansLoaded
  BY DEF IInv, Cursor, SuccessMeansLoaded
<1>2. QED
  BY <1>1, LoaderIsSound, PTL

\* A second HCI_init neither repeats nor resumes the download (hci.c:23, 684).
THEOREM RetriesLoadNothing == Spec => []RetryLoadsNothing
<1>1. IInv => RetryLoadsNothing
  BY DEF IInv, Retry, RetryLoadsNothing
<1>2. QED
  BY <1>1, LoaderIsSound, PTL

\* A record is sent only when all that was sent before it is answered (hci.c:712-718, 865).
THEOREM RecordsWait == Spec => RecordsWaitTheirTurn
<1>1. IInv /\ [Next]_vars => [loaded' # loaded => owed = << >>]_vars
  BY SendStep
     DEF Next, Load, vars, HCI_init, BeginWait, HCI_reset, Validate, Finish, CutHeader, BadRecord, NextRecord,
         OtherCalls, Answer
<1>2. QED
  BY <1>1, LoaderIsSound, PTL DEF Spec, RecordsWaitTheirTurn
=============================================================================
