------------------------------- MODULE HciRx -------------------------------
(***************************************************************************)
(* HCI_handle_hw_rx, the receiver that cuts the byte stream coming from    *)
(* the controller into HCI packets: src/hci.c:383-444, with its static     *)
(* variables at src/hci.c:14-17 and HCI_decode_packet at src/hci.c:95-135. *)
(* The widths are the program's: rx_count and rx_expected are uint8_t, and *)
(* rx_buffer has MAX_PACKET_SIZE = 256 elements, so a count of 256 is 0.   *)
(***************************************************************************)
EXTENDS Naturals, Sequences

CONSTANTS
  Packets,   \* the packets the controller may send
  Stray      \* bytes that may come between packets and begin none

MAX_PACKET_SIZE == 256
Byte == 0 .. 255
Uint8(n) == n % 256

HCI_ASYNC_DATA_PACKET == 2
HCI_EVENT_PACKET == 4

HW_RXState == {"WAIT_TYPE", "WAIT_EVENT_HEADER", "WAIT_ASYNC_HEADER", "WAIT_PAYLOAD"}

(***************************************************************************)
(* The packets.  flags holds pb_flag in its lower two bits and bc_flag in  *)
(* its upper two.                                                          *)
(***************************************************************************)
Handle == 0 .. 4095
Flags == 0 .. 15

HCIEvent == [type : {HCI_EVENT_PACKET}, code : Byte, payload : Seq(Byte)]
HCIAsyncData == [type : {HCI_ASYNC_DATA_PACKET}, handle : Handle, flags : Flags,
                 payload : Seq(Byte)]

Header(p) ==
  IF p.type = HCI_EVENT_PACKET
  THEN << p.type, p.code, Len(p.payload) >>
  ELSE << p.type, p.handle % 256, p.handle \div 256 + 16 * p.flags,
          Len(p.payload) % 256, Len(p.payload) \div 256 >>

HeaderLength(p) == IF p.type = HCI_EVENT_PACKET THEN 3 ELSE 5
Length(p) == HeaderLength(p) + Len(p.payload)

\* The bytes of a packet as they travel on the UART, counted from 0.
ByteOf(p, i) ==
  IF i < HeaderLength(p) THEN Header(p)[i + 1] ELSE p.payload[i + 1 - HeaderLength(p)]

(***************************************************************************)
(* What the receiver can follow: no empty payload, since the count is      *)
(* compared with the length only when a payload byte arrives, and no       *)
(* packet of which the uint8_t count passes its target before the end.     *)
(***************************************************************************)
Framable(p) ==
  /\ Len(p.payload) >= 1
  /\ Len(p.payload) <= IF p.type = HCI_EVENT_PACKET THEN 255 ELSE 256

ASSUME PacketsAssumption ==
  \A p \in Packets : p \in HCIEvent \union HCIAsyncData /\ Framable(p)
ASSUME StrayAssumption ==
  Stray \subseteq Byte \ {HCI_EVENT_PACKET, HCI_ASYNC_DATA_PACKET}

VARIABLES
  rx_state, rx_count, rx_expected, rx_buffer,
  pkt,      \* the packet on the wire
  sent,     \* how many of its bytes the receiver has taken
  handed    \* what was handed to HCI_handle_event or HCI_handle_async_data since it began

rxVars == << rx_state, rx_count, rx_expected, rx_buffer >>
vars == << rx_state, rx_count, rx_expected, rx_buffer, pkt, sent, handed >>

TypeOK ==
  /\ rx_state \in HW_RXState
  /\ rx_count \in Byte
  /\ rx_expected \in Byte
  /\ rx_buffer \in [0 .. MAX_PACKET_SIZE - 1 -> Byte]
  /\ pkt \in Packets
  /\ sent \in 0 .. Length(pkt)

Init ==
  /\ rx_state = "WAIT_TYPE"
  /\ rx_count = 0
  /\ rx_expected = 0
  /\ rx_buffer = [i \in 0 .. MAX_PACKET_SIZE - 1 |-> 0]
  /\ pkt \in Packets
  /\ sent = 0
  /\ handed = << >>

-----------------------------------------------------------------------------
(***************************************************************************)
(* The packet structures built from rx_buffer when a packet is complete.   *)
(* The part of a payload that lies beyond the array is not read here.      *)
(***************************************************************************)
Within(n, start) == IF n <= MAX_PACKET_SIZE - start THEN n ELSE MAX_PACKET_SIZE - start

EventIn(buf) ==
  [type |-> HCI_EVENT_PACKET, code |-> buf[1],
   payload |-> [i \in 1 .. Within(buf[2], 3) |-> buf[2 + i]]]

\* Slip: the payload is taken from the second byte of the length on.
AsyncInFromLength(buf) ==
  [type |-> HCI_ASYNC_DATA_PACKET, handle |-> buf[1], flags |-> buf[2] \div 16,
   payload |-> [i \in 1 .. Within(buf[3] + 256 * buf[4], 5) |-> buf[3 + i]]]

\* (rx_buffer[2] << 8) & 0x0F is 0: the handle is its lower byte alone.
AsyncIn(buf) ==
  [type |-> HCI_ASYNC_DATA_PACKET, handle |-> buf[1], flags |-> buf[2] \div 16,
   payload |-> [i \in 1 .. Within(buf[3] + 256 * buf[4], 5) |-> buf[4 + i]]]

HandedFrom(buf) ==
  IF buf[0] = HCI_EVENT_PACKET THEN << EventIn(buf) >>
  ELSE IF buf[0] = HCI_ASYNC_DATA_PACKET THEN << AsyncIn(buf) >>
  ELSE << >>

-----------------------------------------------------------------------------
(***************************************************************************)
(* HCI_handle_hw_rx, one action for each case of its switch.  The byte is  *)
(* stored first, at the count it then increments.                          *)
(***************************************************************************)
\* Slip: the count is kept in a wider integer than the index of the array.
CountedWide == rx_count + 1

Stored(byte) == [rx_buffer EXCEPT ![rx_count] = byte]
Counted == Uint8(rx_count + 1)

WaitType(byte) ==
  /\ rx_state = "WAIT_TYPE"
  /\ \/ /\ byte = HCI_EVENT_PACKET
        /\ rx_state' = "WAIT_EVENT_HEADER" /\ rx_expected' = 2 /\ rx_count' = 1
     \/ /\ byte = HCI_ASYNC_DATA_PACKET
        /\ rx_state' = "WAIT_ASYNC_HEADER" /\ rx_expected' = 4 /\ rx_count' = 1
     \/ /\ byte \notin {HCI_EVENT_PACKET, HCI_ASYNC_DATA_PACKET}
        /\ rx_count' = 0 /\ UNCHANGED << rx_state, rx_expected >>
  /\ UNCHANGED handed

WaitEventHeader(byte) ==
  /\ rx_state = "WAIT_EVENT_HEADER"
  /\ rx_count' = Counted
  /\ IF Counted = 3
     THEN rx_expected' = Uint8(Stored(byte)[2] + 3) /\ rx_state' = "WAIT_PAYLOAD"
     ELSE UNCHANGED << rx_state, rx_expected >>
  /\ UNCHANGED handed

\* Slip: the length is taken as soon as its lower byte is there.
WaitAsyncHeaderEarly(byte) ==
  /\ rx_state = "WAIT_ASYNC_HEADER"
  /\ rx_count' = Counted
  /\ IF Counted = 4
     THEN rx_expected' = Uint8(Stored(byte)[3] + 5) /\ rx_state' = "WAIT_PAYLOAD"
     ELSE UNCHANGED << rx_state, rx_expected >>
  /\ UNCHANGED handed

WaitAsyncHeader(byte) ==
  /\ rx_state = "WAIT_ASYNC_HEADER"
  /\ rx_count' = Counted
  /\ IF Counted = 5
     THEN /\ rx_expected' = Uint8(Stored(byte)[3] + 256 * Stored(byte)[4] + 5)
          /\ rx_state' = "WAIT_PAYLOAD"
     ELSE UNCHANGED << rx_state, rx_expected >>
  /\ UNCHANGED handed

\* Slip: the count, which has wrapped, is compared with the length as sent.
WaitPayloadUnwrapped(byte) ==
  /\ rx_state = "WAIT_PAYLOAD"
  /\ IF Counted = Length(pkt)
     THEN /\ handed' = handed \o HandedFrom(Stored(byte))
          /\ rx_state' = "WAIT_TYPE" /\ rx_count' = 0 /\ rx_expected' = 0
     ELSE rx_count' = Counted /\ UNCHANGED << rx_state, rx_expected, handed >>

WaitPayload(byte) ==
  /\ rx_state = "WAIT_PAYLOAD"
  /\ IF Counted = rx_expected
     THEN /\ handed' = handed \o HandedFrom(Stored(byte))
          /\ rx_state' = "WAIT_TYPE" /\ rx_count' = 0 /\ rx_expected' = 0
     ELSE rx_count' = Counted /\ UNCHANGED << rx_state, rx_expected, handed >>

HCI_handle_hw_rx(byte) ==
  /\ rx_buffer' = Stored(byte)
  /\ \/ WaitType(byte)
     \/ WaitEventHeader(byte)
     \/ WaitAsyncHeader(byte)
     \/ WaitPayload(byte)

(***************************************************************************)
(* HCI_decode_packet, the library's other reader of the same bytes, given  *)
(* the buffer and the number of bytes in it; no packet is << >>.           *)
(***************************************************************************)
\* Slip: the size is compared with the payload alone.
DecodeEventAlone(buf, size) ==
  IF size >= 3 /\ size >= buf[2]
  THEN << [type |-> buf[0], code |-> buf[1], payload |-> [i \in 1 .. buf[2] |-> buf[2 + i]]] >>
  ELSE << >>

DecodeEvent(buf, size) ==
  IF size >= 3 /\ size >= 3 + buf[2]
  THEN << [type |-> buf[0], code |-> buf[1], payload |-> [i \in 1 .. buf[2] |-> buf[2 + i]]] >>
  ELSE << >>

DecodeAsync(buf, size) ==
  LET length == buf[3] + 256 * buf[4] IN
  IF size >= 5 /\ size >= 5 + length
  THEN << [type |-> buf[0], handle |-> buf[1] + 256 * (buf[2] % 16), flags |-> buf[2] \div 16,
           payload |-> [i \in 1 .. length |-> buf[4 + i]]] >>
  ELSE << >>

HCI_decode_packet(buf, size) ==
  IF size >= 1 /\ buf[0] = HCI_EVENT_PACKET THEN DecodeEvent(buf, size)
  ELSE IF size >= 1 /\ buf[0] = HCI_ASYNC_DATA_PACKET THEN DecodeAsync(buf, size)
  ELSE << >>

\* HCI_buffer_space returns a uint8_t: 256 free places are reported as 0.
HCI_buffer_space == Uint8(MAX_PACKET_SIZE - rx_count)

-----------------------------------------------------------------------------
(***************************************************************************)
(* The stream: the bytes of one packet after another, in order, and stray  *)
(* bytes between packets.                                                  *)
(***************************************************************************)
TakeByte ==
  /\ sent < Length(pkt)
  /\ HCI_handle_hw_rx(ByteOf(pkt, sent))
  /\ sent' = sent + 1
  /\ UNCHANGED pkt

NextPacket ==
  /\ sent = Length(pkt)
  /\ pkt' \in Packets
  /\ sent' = 0
  /\ handed' = << >>
  /\ UNCHANGED rxVars

StrayByte ==
  /\ sent = 0
  /\ \E byte \in Stray : HCI_handle_hw_rx(byte)
  /\ UNCHANGED << pkt, sent >>

Next == TakeByte \/ NextPacket \/ StrayByte

Spec == Init /\ [][Next]_vars
FairSpec == Spec /\ WF_vars(TakeByte)

-----------------------------------------------------------------------------
\* The packets rx_buffer has room for.
Fits(p) == Length(p) <= MAX_PACKET_SIZE

\* What is made of a packet: of a connection's handle the lower byte is kept
\* (hci.c:427), so data of handle 0x0123 are handed on as those of 0x0023.
Kept(p) == IF p.type = HCI_ASYNC_DATA_PACKET THEN [p EXCEPT !.handle = p.handle % 256] ELSE p

\* The receiver is between packets exactly when the controller is: neither
\* the wrapping count nor any payload makes it begin or end one elsewhere
\* (the comparison rx_count == rx_expected, hci.c:419, and the reset after it).
FramingKept ==
  /\ rx_state = "WAIT_TYPE" <=> sent \in {0, Length(pkt)}
  /\ rx_state = "WAIT_TYPE" => rx_count = 0 /\ rx_expected = 0

\* A packet that fits the buffer is handed on once, when its last byte has
\* come and not before, with the fields and the payload that were sent, save
\* for the upper bits of a handle (hci.c:419-434).
DeliveredIntact ==
  Fits(pkt) => handed = IF sent = Length(pkt) THEN << Kept(pkt) >> ELSE << >>

\* HCI_decode_packet (hci.c:95-135) reads back from the buffer of a finished
\* packet what was sent, handles of 12 bits included, and refuses the buffer
\* of a packet of which a byte is missing.
DecodeReadsBack ==
  Fits(pkt) =>
    /\ sent = Length(pkt) => HCI_decode_packet(rx_buffer, sent) = << pkt >>
    /\ sent > 0 /\ sent < Length(pkt) => HCI_decode_packet(rx_buffer, sent) = << >>

\* Every packet that begins and fits is handed on, if its bytes keep coming.
EveryPacketArrives ==
  \A p \in Packets : (pkt = p /\ sent = 0 /\ Fits(p)) ~> handed = << Kept(p) >>
=============================================================================
