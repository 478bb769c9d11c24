-------------------------- MODULE UartLink_proofs --------------------------
(***************************************************************************)
(* Theorems of UartLink: behind the FIFO and the RTS line the receiver is  *)
(* still the receiver of HciRx, and a controller that is held back is held *)
(* back between packets, for every size of FIFO and every bound on the     *)
(* handler's reads.                                                        *)
(***************************************************************************)
EXTENDS UartLink, HciRx_proofs

\* The driver only decides when HCI_handle_hw_rx is called: every behaviour of
\* the link is one of the receiver (hardware_bl.c:28-34).
THEOREM LinkIsReceiver == UartSpec => Spec
<1>1. UartInit => Init
  BY DEF UartInit
<1>2. [UartNext]_allVars => [Next]_vars
  <2>1. SUFFICES ASSUME [UartNext]_allVars PROVE [Next]_vars
    OBVIOUS
  <2>2. CASE SendByte
    BY <2>2 DEF SendByte
  <2>3. CASE SendPacket
    BY <2>3 DEF SendPacket, Next
  <2>4. CASE MakeRoom
    BY <2>4 DEF MakeRoom
  <2>5. CASE BeginIrq
    BY <2>5 DEF BeginIrq
  <2>6. CASE ReadByte
    BY <2>6 DEF ReadByte, Next
  <2>7. CASE EndIrq
    BY <2>7 DEF EndIrq
  <2>8. CASE BeginTransmit
    BY <2>8 DEF BeginTransmit
  <2>9. CASE TransmitByte
    BY <2>9 DEF TransmitByte
  <2>10. CASE UNCHANGED allVars
    BY <2>10 DEF allVars
  <2>11. QED
    BY <2>1, <2>2, <2>3, <2>4, <2>5, <2>6, <2>7, <2>8, <2>9, <2>10 DEF UartNext
<1>3. QED
  BY <1>1, <1>2, PTL DEF UartSpec, Spec

\* No packet is longer than 261 bytes.
LEMMA LengthBound ==
  ASSUME NEW p \in Packets
  PROVE  Length(p) \in Nat /\ Length(p) <= 261
<1>1. PICK n \in Nat :
        /\ n = Len(p.payload)
        /\ p.type = HCI_EVENT_PACKET => Length(p) = 3 + n
        /\ p.type = HCI_ASYNC_DATA_PACKET => Length(p) = 5 + n
  BY LengthOf
<1>2. n <= 256 /\ p.type \in {HCI_EVENT_PACKET, HCI_ASYNC_DATA_PACKET}
  BY <1>1, PacketShape, PacketsAssumption DEF Framable
<1>3. QED
  BY <1>1, <1>2

\* Where the count is zero a packet begins, or the buffer is full.
LEMMA ZeroIsBetween ==
  ASSUME IInv, HCI_buffer_space = 0
  PROVE  rx_state = "WAIT_TYPE" \/ BufferFull
<1>1. rx_count = 0
  <2>1. rx_count \in 0 .. 255 /\ (256 - rx_count) % 256 = 0
    BY DEF IInv, TypeOK, HCI_buffer_space, Uint8, MAX_PACKET_SIZE, Byte
  <2>2. QED
    BY <2>1
<1>2. ASSUME ~Between PROVE BufferFull
  <2>1. Length(pkt) \in Nat /\ Length(pkt) <= 261
    BY LengthBound DEF IInv, TypeOK
  <2>2. sent \in Nat /\ sent # 0 /\ sent < Length(pkt)
    BY <1>2, <2>1 DEF IInv, TypeOK, Between
  <2>3. sent % 256 = 0
    BY <1>1, <1>2 DEF IInv, Position
  <2>4. sent = 256
    BY <2>1, <2>2, <2>3
  <2>5. QED
    BY <2>1, <2>2, <2>4 DEF BufferFull, Fits, MAX_PACKET_SIZE
<1>3. QED
  BY <1>2 DEF IInv, Position

\* The handler never leaves RTS cleared while a packet is half received, but
\* where a packet longer than the buffer has filled it (hardware_bl.c:36-38,
\* hci.c:446-448).
THEOREM NeverHeldInsidePacket == UartSpec => []HeldBetweenPackets
<1>1. UartInit => HeldBetweenPackets
  BY DEF UartInit, HeldBetweenPackets
<1>2. IInv /\ HeldBetweenPackets /\ [UartNext]_allVars => HeldBetweenPackets'
  <2>1. SUFFICES ASSUME IInv, HeldBetweenPackets, [UartNext]_allVars
                 PROVE  HeldBetweenPackets'
    OBVIOUS
  <2> DEFINE There == rx_state = "WAIT_TYPE" \/ BufferFull
  <2>0. ASSUME UNCHANGED vars PROVE There' = There
    <3>1. rx_state' = rx_state /\ sent' = sent /\ pkt' = pkt
      BY <2>0 DEF vars
    <3>2. BufferFull' = BufferFull
      BY <3>1 DEF BufferFull
    <3>3. QED
      BY <3>1, <3>2
  <2> HIDE DEF There
  <2>2. CASE SendByte
    <3>1. There' = There /\ UNCHANGED << irq, rts >>
      BY <2>0, <2>2 DEF SendByte
    <3>2. QED
      BY <2>1, <3>1 DEF HeldBetweenPackets, There
  <2>3. CASE SendPacket
    <3>1. sent = Length(pkt) /\ rx_state' = rx_state
      BY <2>3 DEF SendPacket, NextPacket, rxVars
    <3>2. rx_state = "WAIT_TYPE"
      BY <2>1, <3>1 DEF IInv, Position, Between
    <3>3. QED
      BY <3>1, <3>2 DEF HeldBetweenPackets
  <2>4. CASE MakeRoom
    <3>1. There' = There /\ UNCHANGED << irq, rts >>
      BY <2>0, <2>4 DEF MakeRoom
    <3>2. QED
      BY <2>1, <3>1 DEF HeldBetweenPackets, There
  <2>5. CASE BeginIrq
    BY <2>5 DEF BeginIrq, HeldBetweenPackets
  <2>6. CASE ReadByte
    BY <2>6 DEF ReadByte, HeldBetweenPackets
  <2>7. CASE EndIrq
    <3>1. There' = There /\ (rts' = (rts \/ HCI_buffer_space # 0))
      BY <2>0, <2>7 DEF EndIrq
    <3>2. CASE HCI_buffer_space = 0
      BY <2>1, <3>1, <3>2, ZeroIsBetween DEF HeldBetweenPackets, There
    <3>3. CASE HCI_buffer_space # 0
      BY <3>1, <3>3 DEF HeldBetweenPackets
    <3>4. QED
      BY <3>2, <3>3
  <2>8. CASE BeginTransmit
    BY <2>8 DEF BeginTransmit, HeldBetweenPackets
  <2>9. CASE TransmitByte
    <3>1. There' = There /\ UNCHANGED << irq, rts >>
      BY <2>0, <2>9 DEF TransmitByte
    <3>2. QED
      BY <2>1, <3>1 DEF HeldBetweenPackets, There
  <2>10. CASE UNCHANGED allVars
    <3>1. There' = There /\ UNCHANGED << irq, rts >>
      BY <2>0, <2>10 DEF allVars, uartVars
    <3>2. QED
      BY <2>1, <3>1 DEF HeldBetweenPackets, There
  <2>11. QED
    BY <2>1, <2>2, <2>3, <2>4, <2>5, <2>6, <2>7, <2>8, <2>9, <2>10 DEF UartNext
<1>3. QED
  BY <1>1, <1>2, LinkIsReceiver, ReceiverFollows, PTL DEF UartSpec

\* FIFO, read count and what is left to transmit keep their bounds, for every
\* size and every set of lengths (hardware_bl.c:18-80).
THEOREM UartTypeCorrect == UartSpec => []UartTypeOK
<1> USE UartAssumption DEF UartTypeOK
<1>1. UartInit => UartTypeOK
  <2>1. 0 \in {n \in Nat : \E l \in TxLengths \union {0} : n <= l}
    OBVIOUS
  <2>2. SUFFICES ASSUME UartInit PROVE UartTypeOK
    OBVIOUS
  <2>3. rts \in BOOLEAN /\ irq \in BOOLEAN /\ clear \in BOOLEAN
    BY <2>2, Zenon DEF UartInit
  <2>4. fifo \in 0 .. FifoSize /\ read_count \in 0 .. MaxReads
    BY <2>2 DEF UartInit
  <2>5. QED
    BY <2>1, <2>2, <2>3, <2>4 DEF UartInit
<1>2. UartTypeOK /\ [UartNext]_allVars => UartTypeOK'
  <2>1. SUFFICES ASSUME UartTypeOK, [UartNext]_allVars PROVE UartTypeOK'
    OBVIOUS
  <2>2. CASE SendByte
    BY <2>1, <2>2 DEF SendByte
  <2>3. CASE SendPacket
    BY <2>1, <2>3 DEF SendPacket, uartVars
  <2>4. CASE MakeRoom
    BY <2>1, <2>4 DEF MakeRoom
  <2>5. CASE BeginIrq
    <3>1. rts' \in BOOLEAN
      BY <2>1, <2>5, Zenon DEF BeginIrq
    <3>2. QED
      BY <2>1, <2>5, <3>1 DEF BeginIrq
  <2>6. CASE ReadByte
    BY <2>1, <2>6 DEF ReadByte
  <2>7. CASE EndIrq
    <3>1. rts' \in BOOLEAN
      BY <2>1, <2>7, Zenon DEF EndIrq
    <3>2. QED
      BY <2>1, <2>7, <3>1 DEF EndIrq
  <2>8. CASE BeginTransmit
    BY <2>1, <2>8 DEF BeginTransmit
  <2>9. CASE TransmitByte
    BY <2>1, <2>9 DEF TransmitByte
  <2>10. CASE UNCHANGED allVars
    BY <2>1, <2>10 DEF allVars, uartVars
  <2>11. QED
    BY <2>1, <2>2, <2>3, <2>4, <2>5, <2>6, <2>7, <2>8, <2>9, <2>10 DEF UartNext
<1>3. QED
  BY <1>1, <1>2, PTL DEF UartSpec
=============================================================================
