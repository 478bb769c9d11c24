------------------------------ MODULE UartLink ------------------------------
(***************************************************************************)
(* The UART driver between the controller and HCI_handle_hw_rx:            *)
(* handle_uart0_irq and hw_transmit_buffer of src/hardware_bl.c.  The      *)
(* bytes are those of HciRx; here they wait in the receive FIFO until the  *)
(* interrupt handler takes them, and the RTS line, set and cleared by      *)
(* software in the control register, tells the controller whether it may   *)
(* send.                                                                   *)
(*                                                                         *)
(* The handler runs on the application's processor, so the application     *)
(* takes no step while it runs, but the controller does.                   *)
(***************************************************************************)
EXTENDS HciRx

CONSTANTS
  FifoSize,     \* places of the UART's receive FIFO
  MaxReads,     \* bytes the handler reads at most (32 in the code)
  TxLengths     \* lengths of the buffers the application transmits

ASSUME UartAssumption ==
  /\ FifoSize \in Nat \ {0}
  /\ MaxReads \in Nat \ {0}
  /\ TxLengths \subseteq Nat \ {0}

VARIABLES
  fifo,         \* how many bytes are in the FIFO
  rts,          \* bit 11 of cr: the controller may send
  irq,          \* is handle_uart0_irq running
  read_count,
  tx,           \* bytes that hw_transmit_buffer has yet to write
  clear         \* CTS is asserted and the transmit FIFO has space

uartVars == << fifo, rts, irq, read_count, tx, clear >>
allVars == << vars, uartVars >>

UartTypeOK ==
  /\ fifo \in 0 .. FifoSize
  /\ rts \in BOOLEAN
  /\ irq \in BOOLEAN
  /\ read_count \in 0 .. MaxReads
  /\ tx \in {n \in Nat : \E l \in TxLengths \union {0} : n <= l}
  /\ clear \in BOOLEAN

UartInit ==
  /\ Init
  /\ fifo = 0
  /\ rts = TRUE
  /\ irq = FALSE
  /\ read_count = 0
  /\ tx = 0
  /\ clear = TRUE

-----------------------------------------------------------------------------
(***************************************************************************)
(* The controller.  It sends while RTS allows, and stops at a full FIFO,   *)
(* where a byte would be lost.  CTS falls, and the transmit FIFO fills,    *)
(* only because of a byte written; the controller makes room again.        *)
(***************************************************************************)
SendByte ==
  /\ rts
  /\ fifo < FifoSize
  /\ fifo' = fifo + 1
  /\ UNCHANGED << vars, rts, irq, read_count, tx, clear >>

\* What the controller sends next is decided when its first byte is taken.
SendPacket == NextPacket /\ UNCHANGED uartVars

MakeRoom ==
  /\ ~clear
  /\ clear' = TRUE
  /\ UNCHANGED << vars, fifo, rts, irq, read_count, tx >>

-----------------------------------------------------------------------------
(***************************************************************************)
(* handle_uart0_irq: RTS is cleared when the FIFO is found full, up to     *)
(* MaxReads bytes are handed to HCI_handle_hw_rx, and RTS is set again if  *)
(* HCI_buffer_space says there is space.                                   *)
(***************************************************************************)
BeginIrq ==
  /\ ~irq
  /\ fifo > 0
  /\ irq' = TRUE
  /\ read_count' = 0
  /\ rts' = (rts /\ fifo # FifoSize)
  /\ UNCHANGED << vars, fifo, tx, clear >>

ReadByte ==
  /\ irq
  /\ fifo > 0
  /\ read_count < MaxReads
  /\ TakeByte \/ StrayByte
  /\ fifo' = fifo - 1
  /\ read_count' = read_count + 1
  /\ UNCHANGED << rts, irq, tx, clear >>

\* Slip: the handler raises RTS only where a packet ends.
EndIrqAtPacket ==
  /\ irq
  /\ fifo = 0 \/ read_count = MaxReads
  /\ irq' = FALSE
  /\ rts' = (rts \/ rx_count = 0)
  /\ UNCHANGED << vars, fifo, read_count, tx, clear >>

EndIrq ==
  /\ irq
  /\ fifo = 0 \/ read_count = MaxReads
  /\ irq' = FALSE
  /\ rts' = (rts \/ HCI_buffer_space # 0)
  /\ UNCHANGED << vars, fifo, read_count, tx, clear >>

-----------------------------------------------------------------------------
(***************************************************************************)
(* hw_transmit_buffer: RTS is set, then each byte waits for CTS and space. *)
(***************************************************************************)
\* Slip: the transmission leaves RTS as it is.
BeginTransmitOnly ==
  /\ ~irq
  /\ tx = 0
  /\ tx' \in TxLengths
  /\ UNCHANGED << vars, fifo, rts, irq, read_count, clear >>

BeginTransmit ==
  /\ ~irq
  /\ tx = 0
  /\ tx' \in TxLengths
  /\ rts' = TRUE
  /\ UNCHANGED << vars, fifo, irq, read_count, clear >>

TransmitByte ==
  /\ ~irq
  /\ tx > 0
  /\ clear
  /\ tx' = tx - 1
  /\ clear' \in BOOLEAN
  /\ UNCHANGED << vars, fifo, rts, irq, read_count >>

-----------------------------------------------------------------------------
UartNext ==
  \/ SendByte \/ SendPacket \/ MakeRoom
  \/ BeginIrq \/ ReadByte \/ EndIrq
  \/ BeginTransmit \/ TransmitByte

UartSpec == UartInit /\ [][UartNext]_allVars

(***************************************************************************)
(* Fairness: the controller goes on sending while it may, the interrupt    *)
(* is taken and its handler runs on, a transmission that was begun goes    *)
(* on.  Nothing obliges the application to begin one.                      *)
(***************************************************************************)
Fairness ==
  /\ WF_allVars(SendByte) /\ WF_allVars(SendPacket) /\ WF_allVars(MakeRoom)
  /\ WF_allVars(BeginIrq) /\ WF_allVars(ReadByte) /\ WF_allVars(EndIrq)
  /\ WF_allVars(TransmitByte)

UartFairSpec == UartSpec /\ Fairness

-----------------------------------------------------------------------------
\* The one place inside a packet where the handler makes out no space: a packet
\* longer than rx_buffer has filled it, and rx_count has wrapped to 0.
BufferFull == sent = MAX_PACKET_SIZE /\ ~Fits(pkt)

\* The controller is held back only between packets, or when a packet that does
\* not fit has filled the buffer: the handler never leaves RTS cleared anywhere
\* else inside a packet (hardware_bl.c:36-38, hci.c:446-448).
HeldBetweenPackets == (~irq /\ ~rts) => rx_state = "WAIT_TYPE" \/ BufferFull

\* So a packet of which a byte was taken is received to its end, though nobody
\* transmits, unless it is held there.
StartedPacketEnds == (sent > 0) ~> (sent = Length(pkt) \/ (BufferFull /\ ~rts))

\* A controller that is held back is let go again (hardware_bl.c:23-38).
ControllerLetGo == ~rts ~> rts

\* Reception does not stop for good as long as the application transmits again
\* and again: the RTS that hw_transmit_buffer sets, and the space the handler
\* makes, let the controller go on (hardware_bl.c:20-39, 70).
ReceptionGoesOn == []<><<BeginTransmit>>_allVars => []<><<ReadByte>>_allVars
=============================================================================
