---------------------------- MODULE HciRx_proofs ----------------------------
(***************************************************************************)
(* Theorems of HciRx: for every set of framable packets, whatever their    *)
(* payloads, the receiver keeps to the packets' boundaries and hands on    *)
(* intact the packets it can carry.                                        *)
(***************************************************************************)
EXTENDS HciRx, TLAPS

-----------------------------------------------------------------------------
(***************************************************************************)
(* The inductive invariant.  Where the receiver stands follows from how    *)
(* much of the packet it has taken, through the uint8_t count; the buffer  *)
(* holds what was taken as long as the index has not wrapped.              *)
(***************************************************************************)
Between == sent = 0 \/ sent = Length(pkt)

HeaderState ==
  IF pkt.type = HCI_EVENT_PACKET THEN "WAIT_EVENT_HEADER" ELSE "WAIT_ASYNC_HEADER"

Position ==
  /\ Between => rx_state = "WAIT_TYPE" /\ rx_count = 0 /\ rx_expected = 0
  /\ ~Between => rx_count = sent % 256
  /\ ~Between /\ sent < HeaderLength(pkt) => rx_state = HeaderState
  /\ ~Between /\ sent >= HeaderLength(pkt) =>
       rx_state = "WAIT_PAYLOAD" /\ rx_expected = Length(pkt) % 256

Contents ==
  sent <= 256 => \A i \in 0 .. 255 : i < sent => rx_buffer[i] = ByteOf(pkt, i)

IInv == TypeOK /\ Position /\ Contents

-----------------------------------------------------------------------------
(***************************************************************************)
(* The bytes of a packet.                                                  *)
(***************************************************************************)

\* The two bytes of a 16-bit length up to 256, and the byte of handle and flags.
LEMMA LengthBytes ==
  ASSUME NEW n \in Nat, n <= 256
  PROVE  n % 256 \in Byte /\ n \div 256 \in Byte
BY DEF Byte

LEMMA HandleBytes ==
  ASSUME NEW h \in Handle, NEW f \in Flags
  PROVE  h % 256 \in Byte /\ h \div 256 + 16 * f \in Byte
<1>1. h % 256 \in 0 .. 255
  BY DEF Handle
<1>2. h \div 256 \in 0 .. 15
  BY DEF Handle
<1>3. h \div 256 + 16 * f \in 0 .. 255
  BY <1>2 DEF Flags
<1>4. QED
  BY <1>1, <1>3 DEF Byte

\* A natural number up to 255 is a byte.
LEMMA SmallIsByte ==
  ASSUME NEW n \in Nat, n <= 255
  PROVE  n \in Byte
BY DEF Byte

\* The shape of a packet the controller may send: its header and its length.
LEMMA PacketShape ==
  ASSUME NEW p \in Packets
  PROVE  /\ p.type \in {HCI_EVENT_PACKET, HCI_ASYNC_DATA_PACKET}
         /\ p.payload \in Seq(Byte)
         /\ Len(p.payload) \in Nat
         /\ Len(p.payload) >= 1
         /\ p.type = HCI_EVENT_PACKET =>
              p \in HCIEvent /\ Len(p.payload) <= 255
         /\ p.type = HCI_ASYNC_DATA_PACKET =>
              p \in HCIAsyncData /\ Len(p.payload) <= 256
<1>1. p \in HCIEvent \union HCIAsyncData /\ Framable(p)
  BY PacketsAssumption
<1>2. CASE p \in HCIEvent
  BY <1>1, <1>2 DEF HCIEvent, Framable, HCI_EVENT_PACKET, HCI_ASYNC_DATA_PACKET
<1>3. CASE p \in HCIAsyncData
  BY <1>1, <1>3 DEF HCIAsyncData, Framable, HCI_EVENT_PACKET, HCI_ASYNC_DATA_PACKET
<1>4. QED
  BY <1>1, <1>2, <1>3

\* The bytes of an event, one by one.
LEMMA EventBytes ==
  ASSUME NEW p \in Packets, p.type = HCI_EVENT_PACKET
  PROVE  /\ HeaderLength(p) = 3 /\ Length(p) = 3 + Len(p.payload)
         /\ Length(p) \in Nat /\ Length(p) >= 4 /\ Length(p) <= 258
         /\ ByteOf(p, 0) = HCI_EVENT_PACKET
         /\ ByteOf(p, 1) = p.code
         /\ ByteOf(p, 2) = Len(p.payload)
         /\ \A i \in 3 .. Length(p) - 1 : ByteOf(p, i) = p.payload[i - 2]
<1>1. /\ p \in HCIEvent /\ Len(p.payload) \in Nat
      /\ Len(p.payload) >= 1 /\ Len(p.payload) <= 255
  BY PacketShape
<1>2. HeaderLength(p) = 3 /\ Length(p) = 3 + Len(p.payload)
  BY DEF HeaderLength, Length
<1>3. Header(p) = << p.type, p.code, Len(p.payload) >>
  BY DEF Header
<1>4. /\ ByteOf(p, 0) = Header(p)[1] /\ ByteOf(p, 1) = Header(p)[2]
      /\ ByteOf(p, 2) = Header(p)[3]
  BY <1>2 DEF ByteOf
<1>5. \A i \in 3 .. Length(p) - 1 : ByteOf(p, i) = p.payload[i - 2]
  <2>1. TAKE i \in 3 .. Length(p) - 1
  <2>2. i \in Nat /\ ~ (i < 3) /\ i + 1 - 3 = i - 2
    BY <1>1, <1>2
  <2>3. QED
    BY <1>2, <2>2 DEF ByteOf
<1>6. Length(p) \in Nat /\ Length(p) >= 4 /\ Length(p) <= 258
  BY <1>1, <1>2
<1>7. QED
  BY <1>2, <1>3, <1>4, <1>5, <1>6

\* The bytes of an ACL packet, one by one.
LEMMA AsyncBytes ==
  ASSUME NEW p \in Packets, p.type = HCI_ASYNC_DATA_PACKET
  PROVE  /\ HeaderLength(p) = 5 /\ Length(p) = 5 + Len(p.payload)
         /\ Length(p) \in Nat /\ Length(p) >= 6 /\ Length(p) <= 261
         /\ ByteOf(p, 0) = HCI_ASYNC_DATA_PACKET
         /\ ByteOf(p, 1) = p.handle % 256
         /\ ByteOf(p, 2) = p.handle \div 256 + 16 * p.flags
         /\ ByteOf(p, 3) = Len(p.payload) % 256
         /\ ByteOf(p, 4) = Len(p.payload) \div 256
         /\ \A i \in 5 .. Length(p) - 1 : ByteOf(p, i) = p.payload[i - 4]
<1>1. /\ p \in HCIAsyncData /\ Len(p.payload) \in Nat
      /\ Len(p.payload) >= 1 /\ Len(p.payload) <= 256
  BY PacketShape
<1>2. HeaderLength(p) = 5 /\ Length(p) = 5 + Len(p.payload)
  BY DEF HeaderLength, Length, HCI_ASYNC_DATA_PACKET, HCI_EVENT_PACKET
<1>3. Header(p) = << p.type, p.handle % 256, p.handle \div 256 + 16 * p.flags,
                     Len(p.payload) % 256, Len(p.payload) \div 256 >>
  BY DEF Header, HCI_ASYNC_DATA_PACKET, HCI_EVENT_PACKET
<1>4. /\ ByteOf(p, 0) = Header(p)[1] /\ ByteOf(p, 1) = Header(p)[2]
      /\ ByteOf(p, 2) = Header(p)[3] /\ ByteOf(p, 3) = Header(p)[4]
      /\ ByteOf(p, 4) = Header(p)[5]
  BY <1>2 DEF ByteOf
<1>8. /\ Header(p)[1] = HCI_ASYNC_DATA_PACKET /\ Header(p)[2] = p.handle % 256
      /\ Header(p)[3] = p.handle \div 256 + 16 * p.flags
      /\ Header(p)[4] = Len(p.payload) % 256 /\ Header(p)[5] = Len(p.payload) \div 256
  BY <1>3
<1>5. \A i \in 5 .. Length(p) - 1 : ByteOf(p, i) = p.payload[i - 4]
  <2>1. TAKE i \in 5 .. Length(p) - 1
  <2>2. i \in Nat /\ ~ (i < 5) /\ i + 1 - 5 = i - 4
    BY <1>1, <1>2
  <2>3. QED
    BY <1>2, <2>2 DEF ByteOf
<1>6. Length(p) \in Nat /\ Length(p) >= 6 /\ Length(p) <= 261
  BY <1>1, <1>2
<1>7. QED
  BY <1>2, <1>4, <1>5, <1>6, <1>8, Zenon

\* What travels is bytes.
LEMMA BytesAreBytes ==
  ASSUME NEW p \in Packets, NEW i \in Nat, i < Length(p)
  PROVE  ByteOf(p, i) \in Byte
<1>1. p.payload \in Seq(Byte) /\ Len(p.payload) \in Nat
  BY PacketShape
<1>2. ASSUME p.type = HCI_EVENT_PACKET PROVE ByteOf(p, i) \in Byte
  <2>1. p \in HCIEvent /\ Len(p.payload) <= 255
    BY <1>2, PacketShape
  <2>2. p.code \in Byte /\ Len(p.payload) \in Byte
    <3>1. p.code \in Byte
      BY <2>1 DEF HCIEvent
    <3>2. QED
      BY <1>1, <2>1, <3>1, SmallIsByte, Zenon
  <2>3. Length(p) = 3 + Len(p.payload)
    BY <1>2, EventBytes
  <2>4. i = 0 \/ i = 1 \/ i = 2 \/ i \in 3 .. Length(p) - 1
    BY <1>1, <2>3
  <2>5. CASE i \in 3 .. Length(p) - 1
    <3>1. i - 2 \in 1 .. Len(p.payload)
      BY <1>1, <2>3, <2>5
    <3>2. p.payload[i - 2] \in Byte
      BY <1>1, <3>1
    <3>3. QED
      BY <1>2, <2>5, <3>2, EventBytes
  <2>6. HCI_EVENT_PACKET \in Byte
    BY DEF HCI_EVENT_PACKET, Byte
  <2>7. QED
    BY <1>2, <2>2, <2>4, <2>5, <2>6, EventBytes
<1>3. ASSUME p.type = HCI_ASYNC_DATA_PACKET PROVE ByteOf(p, i) \in Byte
  <2>1. p \in HCIAsyncData /\ Len(p.payload) <= 256
    BY <1>3, PacketShape
  <2>2. p.handle \in Handle /\ p.flags \in Flags
    BY <2>1 DEF HCIAsyncData
  <2>3. /\ p.handle % 256 \in Byte /\ p.handle \div 256 + 16 * p.flags \in Byte
        /\ Len(p.payload) % 256 \in Byte /\ Len(p.payload) \div 256 \in Byte
    <3>1. p.handle % 256 \in Byte /\ p.handle \div 256 + 16 * p.flags \in Byte
      BY <2>2, HandleBytes, Zenon
    <3>2. Len(p.payload) % 256 \in Byte /\ Len(p.payload) \div 256 \in Byte
      BY <1>1, <2>1, LengthBytes, Zenon
    <3>3. QED
      BY <3>1, <3>2, Zenon
  <2>4. Length(p) = 5 + Len(p.payload)
    BY <1>3, AsyncBytes
  <2>5. i = 0 \/ i = 1 \/ i = 2 \/ i = 3 \/ i = 4 \/ i \in 5 .. Length(p) - 1
    BY <1>1, <2>4
  <2>6. CASE i \in 5 .. Length(p) - 1
    <3>1. i - 4 \in 1 .. Len(p.payload)
      BY <1>1, <2>4, <2>6
    <3>2. p.payload[i - 4] \in Byte
      BY <1>1, <3>1
    <3>3. QED
      BY <1>3, <2>6, <3>2, AsyncBytes
  <2>7. HCI_ASYNC_DATA_PACKET \in Byte
    BY DEF HCI_ASYNC_DATA_PACKET, Byte
  <2>8. QED
    <3>1. CASE i = 0
      BY <1>3, <2>7, <3>1, AsyncBytes, Zenon
    <3>2. CASE i = 1
      BY <1>3, <2>3, <3>2, AsyncBytes, Zenon
    <3>3. CASE i = 2
      BY <1>3, <2>3, <3>3, AsyncBytes, Zenon
    <3>4. CASE i = 3
      BY <1>3, <2>3, <3>4, AsyncBytes, Zenon
    <3>5. CASE i = 4
      BY <1>3, <2>3, <3>5, AsyncBytes, Zenon
    <3>6. QED
      BY <2>5, <2>6, <3>1, <3>2, <3>3, <3>4, <3>5, Zenon
<1>4. QED
  BY <1>2, <1>3, PacketShape

-----------------------------------------------------------------------------
(***************************************************************************)
(* Counting in eight bits.                                                 *)
(***************************************************************************)

\* Counting a wrapped count is wrapping the count.
LEMMA CountWraps ==
  ASSUME NEW n \in Nat
  PROVE  Uint8((n % 256) + 1) = (n + 1) % 256
BY DEF Uint8

\* Two counts less than 256 apart wrap to different bytes.
LEMMA NearCountsDiffer ==
  ASSUME NEW m \in Nat, NEW n \in Nat, m <= n, n < m + 256, m % 256 = n % 256
  PROVE  m = n
OBVIOUS

\* A small count does not wrap.
LEMMA SmallCount ==
  ASSUME NEW n \in Nat, n <= 255
  PROVE  n % 256 = n
OBVIOUS

\* The target of the count, as it is stored.
LEMMA TargetWraps ==
  ASSUME NEW n \in Nat, NEW h \in Nat
  PROVE  Uint8(n + h) = (h + n) % 256
BY DEF Uint8

\* The fields of an ACL header are small numbers.
LEMMA FieldRange ==
  ASSUME NEW h \in Handle, NEW f \in Flags
  PROVE  h \in Nat /\ f \in Nat /\ f <= 15
BY DEF Handle, Flags

\* The two bytes of a length make it up again.
LEMMA LengthAgain ==
  ASSUME NEW n \in Nat
  PROVE  (n % 256) + 256 * (n \div 256) = n
OBVIOUS

-----------------------------------------------------------------------------
(***************************************************************************)
(* A byte of a packet.                                                     *)
(***************************************************************************)

\* The size of the packet being sent, and what is known of the byte taken.
LEMMA ByteTaken ==
  ASSUME IInv, TakeByte
  PROVE  /\ sent \in Nat /\ sent < Length(pkt) /\ sent' = sent + 1 /\ pkt' = pkt
         /\ Length(pkt) \in Nat /\ Length(pkt) >= 4 /\ Length(pkt) <= 261
         /\ pkt \in Packets
         /\ ByteOf(pkt, sent) \in Byte
         /\ rx_count = sent % 256
         /\ Counted = (sent + 1) % 256
         /\ rx_buffer' = Stored(ByteOf(pkt, sent))
<1>1. pkt \in Packets
  BY DEF IInv, TypeOK
<1>2. Length(pkt) \in Nat /\ Length(pkt) >= 4 /\ Length(pkt) <= 261
  <2>1. CASE pkt.type = HCI_EVENT_PACKET
    BY <1>1, <2>1, EventBytes
  <2>2. CASE pkt.type = HCI_ASYNC_DATA_PACKET
    <3>1. Length(pkt) \in Nat /\ Length(pkt) >= 6 /\ Length(pkt) <= 261
      BY <1>1, <2>2, AsyncBytes, Zenon
    <3>2. QED
      BY <3>1
  <2>3. QED
    BY <1>1, <2>1, <2>2, PacketShape
<1>3. sent \in Nat /\ sent < Length(pkt)
  BY <1>2 DEF IInv, TypeOK, TakeByte
<1>4. ByteOf(pkt, sent) \in Byte
  BY <1>1, <1>3, BytesAreBytes
<1>5. rx_count = sent % 256
  BY <1>2, <1>3 DEF IInv, Position, Between
<1>6. Counted = (sent + 1) % 256
  BY <1>3, <1>5, CountWraps DEF Counted
<1>7. QED
  BY <1>1, <1>2, <1>3, <1>4, <1>5, <1>6 DEF TakeByte, HCI_handle_hw_rx

\* What is stored keeps the buffer a copy of the packet so far.
LEMMA ContentsKept ==
  ASSUME IInv, TakeByte
  PROVE  rx_buffer' \in [0 .. MAX_PACKET_SIZE - 1 -> Byte] /\ Contents'
<1> USE ByteTaken
<1>1. rx_buffer \in [0 .. 255 -> Byte]
  BY DEF IInv, TypeOK, MAX_PACKET_SIZE
<1>2. rx_buffer' = [rx_buffer EXCEPT ![rx_count] = ByteOf(pkt, sent)]
  BY DEF Stored
<1>3. rx_buffer' \in [0 .. 255 -> Byte]
  BY <1>1, <1>2
<1>4. ASSUME sent + 1 <= 256, NEW i \in 0 .. 255, i < sent + 1
      PROVE  rx_buffer'[i] = ByteOf(pkt, i)
  <2>1. sent \in Nat /\ sent <= 255 /\ rx_count = sent
    BY <1>4, SmallCount
  <2>2. CASE i = sent
    BY <1>1, <1>2, <2>1, <2>2
  <2>3. CASE i < sent
    <3>1. rx_buffer[i] = ByteOf(pkt, i)
      BY <2>1, <2>3 DEF IInv, Contents
    <3>2. QED
      BY <1>1, <1>2, <2>1, <2>3, <3>1
  <2>4. QED
    BY <1>4, <2>1, <2>2, <2>3
<1>5. Contents'
  <2>1. \A i \in 0 .. 255 : sent' <= 256 /\ i < sent' => rx_buffer'[i] = ByteOf(pkt', i)
    BY <1>4
  <2>2. QED
    BY <2>1 DEF Contents
<1>6. QED
  BY <1>3, <1>5 DEF MAX_PACKET_SIZE

\* The first byte: its type decides which header is awaited.
LEMMA FirstByte ==
  ASSUME IInv, TakeByte, sent = 0
  PROVE  /\ rx_state' = HeaderState /\ rx_count' = 1 /\ rx_expected' \in Byte
         /\ handed' = handed
<1>1. pkt \in Packets /\ rx_state = "WAIT_TYPE"
  BY DEF IInv, TypeOK, Position, Between
<1>2. WaitType(ByteOf(pkt, sent))
  BY <1>1 DEF TakeByte, HCI_handle_hw_rx, WaitEventHeader, WaitAsyncHeader, WaitPayload
<1>3. CASE pkt.type = HCI_EVENT_PACKET
  <2>1. ByteOf(pkt, sent) = HCI_EVENT_PACKET
    BY <1>1, <1>3, EventBytes
  <2>2. QED
    BY <1>2, <1>3, <2>1 DEF WaitType, HeaderState, HCI_EVENT_PACKET, HCI_ASYNC_DATA_PACKET, Byte
<1>4. CASE pkt.type = HCI_ASYNC_DATA_PACKET
  <2>1. ByteOf(pkt, sent) = HCI_ASYNC_DATA_PACKET
    BY <1>1, <1>4, AsyncBytes
  <2>2. QED
    BY <1>2, <1>4, <2>1 DEF WaitType, HeaderState, HCI_EVENT_PACKET, HCI_ASYNC_DATA_PACKET, Byte
<1>5. QED
  BY <1>1, <1>3, <1>4, PacketShape

\* The bytes of an event's header after the first: the third fixes the length.
LEMMA EventHeaderByte ==
  ASSUME IInv, TakeByte, pkt.type = HCI_EVENT_PACKET, sent \in {1, 2}
  PROVE  /\ rx_count' = sent + 1 /\ handed' = handed
         /\ sent = 1 => rx_state' = "WAIT_EVENT_HEADER" /\ rx_expected' = rx_expected
         /\ sent = 2 => rx_state' = "WAIT_PAYLOAD" /\ rx_expected' = Length(pkt) % 256
<1>1. pkt \in Packets /\ Length(pkt) >= 4 /\ HeaderLength(pkt) = 3
  BY ByteTaken, EventBytes
<1>2. rx_state = "WAIT_EVENT_HEADER"
  BY <1>1, ByteTaken DEF IInv, Position, Between, HeaderState
<1>3. WaitEventHeader(ByteOf(pkt, sent))
  BY <1>2 DEF TakeByte, HCI_handle_hw_rx, WaitType, WaitAsyncHeader, WaitPayload
<1>4. Counted = sent + 1 /\ rx_count = sent
  BY ByteTaken
<1>5. CASE sent = 1
  BY <1>3, <1>4, <1>5 DEF WaitEventHeader
<1>6. CASE sent = 2
  <2>1. Stored(ByteOf(pkt, 2))[2] = Len(pkt.payload)
    <3>1. rx_buffer \in [0 .. 255 -> Byte]
      BY DEF IInv, TypeOK, MAX_PACKET_SIZE
    <3>2. Stored(ByteOf(pkt, 2))[2] = ByteOf(pkt, 2)
      BY <1>4, <1>6, <3>1 DEF Stored
    <3>3. ByteOf(pkt, 2) = Len(pkt.payload)
      BY <1>1, EventBytes, Zenon
    <3>4. QED
      BY <3>2, <3>3, Zenon
  <2>2. Length(pkt) = 3 + Len(pkt.payload) /\ Len(pkt.payload) \in Nat /\ 3 \in Nat
    BY <1>1, EventBytes, PacketShape
  <2>3. Uint8(Stored(ByteOf(pkt, 2))[2] + 3) = Length(pkt) % 256
    BY <2>1, <2>2, TargetWraps, Zenon
  <2>4. QED
    BY <1>3, <1>4, <1>6, <2>3 DEF WaitEventHeader
<1>7. QED
  BY <1>5, <1>6

\* The bytes of an ACL packet's header after the first: the fifth completes the length.
LEMMA AsyncHeaderByte ==
  ASSUME IInv, TakeByte, pkt.type = HCI_ASYNC_DATA_PACKET, sent \in {1, 2, 3, 4}
  PROVE  /\ rx_count' = sent + 1 /\ handed' = handed
         /\ sent < 4 => rx_state' = "WAIT_ASYNC_HEADER" /\ rx_expected' = rx_expected
         /\ sent = 4 => rx_state' = "WAIT_PAYLOAD" /\ rx_expected' = Length(pkt) % 256
<1>1. /\ pkt \in Packets /\ Length(pkt) \in Nat /\ Length(pkt) >= 6 /\ HeaderLength(pkt) = 5
      /\ Length(pkt) = 5 + Len(pkt.payload) /\ Len(pkt.payload) \in Nat
      /\ ByteOf(pkt, 3) = Len(pkt.payload) % 256
      /\ ByteOf(pkt, 4) = Len(pkt.payload) \div 256
  <2>1. pkt \in Packets
    BY ByteTaken
  <2>2. Len(pkt.payload) \in Nat
    BY <2>1, PacketShape
  <2>3. /\ Length(pkt) \in Nat /\ Length(pkt) >= 6 /\ HeaderLength(pkt) = 5
        /\ Length(pkt) = 5 + Len(pkt.payload)
        /\ ByteOf(pkt, 3) = Len(pkt.payload) % 256
        /\ ByteOf(pkt, 4) = Len(pkt.payload) \div 256
    <3>1. pkt.type = HCI_ASYNC_DATA_PACKET
      OBVIOUS
    <3>2. /\ HeaderLength(pkt) = 5 /\ Length(pkt) = 5 + Len(pkt.payload)
          /\ Length(pkt) \in Nat /\ Length(pkt) >= 6
          /\ ByteOf(pkt, 3) = Len(pkt.payload) % 256
          /\ ByteOf(pkt, 4) = Len(pkt.payload) \div 256
      BY <2>1, <3>1, AsyncBytes, ZenonT(30)
    <3>3. QED
      BY <3>2, Zenon
  <2>4. QED
    BY <2>1, <2>2, <2>3, Zenon
<1>2. rx_state = "WAIT_ASYNC_HEADER"
  <2>1. ~Between /\ sent < HeaderLength(pkt)
    BY <1>1 DEF Between
  <2>2. QED
    BY <2>1 DEF IInv, Position, HeaderState, HCI_EVENT_PACKET, HCI_ASYNC_DATA_PACKET
<1>3. WaitAsyncHeader(ByteOf(pkt, sent))
  BY <1>2 DEF TakeByte, HCI_handle_hw_rx, WaitType, WaitEventHeader, WaitPayload
<1>4. Counted = sent + 1 /\ rx_count = sent
  BY ByteTaken
<1>5. CASE sent < 4
  BY <1>3, <1>4, <1>5 DEF WaitAsyncHeader
<1>6. CASE sent = 4
  <2>1. rx_buffer \in [0 .. 255 -> Byte]
    BY DEF IInv, TypeOK, MAX_PACKET_SIZE
  <2>2. rx_buffer[3] = ByteOf(pkt, 3)
    BY <1>6 DEF IInv, Contents
  <2>3. /\ Stored(ByteOf(pkt, 4))[3] = ByteOf(pkt, 3)
        /\ Stored(ByteOf(pkt, 4))[4] = ByteOf(pkt, 4)
    BY <1>4, <1>6, <2>1, <2>2 DEF Stored
  <2>4. Stored(ByteOf(pkt, 4))[3] + 256 * Stored(ByteOf(pkt, 4))[4] = Len(pkt.payload)
    <3>1. (Len(pkt.payload) % 256) + 256 * (Len(pkt.payload) \div 256) = Len(pkt.payload)
      BY <1>1, LengthAgain, Zenon
    <3>2. QED
      BY <1>1, <2>3, <3>1, Zenon
  <2>5. Uint8(Stored(ByteOf(pkt, 4))[3] + 256 * Stored(ByteOf(pkt, 4))[4] + 5) = Length(pkt) % 256
    <3>1. Uint8(Len(pkt.payload) + 5) = (5 + Len(pkt.payload)) % 256
      BY <1>1, TargetWraps
    <3>2. QED
      BY <1>1, <2>4, <3>1, Zenon
  <2>6. QED
    BY <1>3, <1>4, <1>6, <2>5 DEF WaitAsyncHeader
<1>7. QED
  BY <1>5, <1>6

\* A byte of the payload ends the packet exactly when it is the last.
LEMMA PayloadByte ==
  ASSUME IInv, TakeByte, sent >= HeaderLength(pkt)
  PROVE  /\ sent + 1 = Length(pkt) =>
              /\ rx_state' = "WAIT_TYPE" /\ rx_count' = 0 /\ rx_expected' = 0
              /\ handed' = handed \o HandedFrom(rx_buffer')
         /\ sent + 1 # Length(pkt) =>
              /\ rx_state' = "WAIT_PAYLOAD" /\ rx_count' = (sent + 1) % 256
              /\ rx_expected' = Length(pkt) % 256 /\ handed' = handed
<1>1. /\ sent \in Nat /\ Length(pkt) \in Nat /\ sent < Length(pkt)
      /\ sent >= 3 /\ Length(pkt) < sent + 1 + 256
  <2>1. pkt \in Packets /\ sent \in Nat /\ sent < Length(pkt)
    BY ByteTaken
  <2>2. CASE pkt.type = HCI_EVENT_PACKET
    BY <2>1, <2>2, EventBytes
  <2>3. CASE pkt.type = HCI_ASYNC_DATA_PACKET
    <3>1. /\ HeaderLength(pkt) = 5 /\ Length(pkt) \in Nat
          /\ Length(pkt) >= 6 /\ Length(pkt) <= 261
      BY <2>1, <2>3, AsyncBytes, Zenon
    <3>2. QED
      BY <2>1, <3>1
  <2>4. QED
    BY <2>1, <2>2, <2>3, PacketShape
<1>2. rx_state = "WAIT_PAYLOAD" /\ rx_expected = Length(pkt) % 256
  BY <1>1 DEF IInv, Position, Between
<1>3. WaitPayload(ByteOf(pkt, sent))
  BY <1>2 DEF TakeByte, HCI_handle_hw_rx, WaitType, WaitEventHeader, WaitAsyncHeader
<1>4. Counted = (sent + 1) % 256 /\ rx_buffer' = Stored(ByteOf(pkt, sent))
  BY ByteTaken
<1>5. Counted = rx_expected <=> sent + 1 = Length(pkt)
  BY <1>1, <1>2, <1>4, NearCountsDiffer
<1>6. QED
  BY <1>2, <1>3, <1>4, <1>5 DEF WaitPayload

-----------------------------------------------------------------------------
(***************************************************************************)
(* The invariant is kept.                                                  *)
(***************************************************************************)

\* Every byte of a packet keeps it.
LEMMA TakeByteKeeps ==
  ASSUME IInv, TakeByte
  PROVE  IInv'
<1>1. /\ sent \in Nat /\ sent < Length(pkt) /\ sent' = sent + 1 /\ pkt' = pkt
      /\ Length(pkt) \in Nat /\ Length(pkt) >= 4 /\ pkt \in Packets
  BY ByteTaken
<1>2. /\ Length(pkt') = Length(pkt) /\ HeaderLength(pkt') = HeaderLength(pkt)
      /\ HeaderState' = HeaderState
  BY <1>1 DEF HeaderState
<1>3. (pkt.type = HCI_EVENT_PACKET /\ HeaderLength(pkt) = 3)
      \/ (pkt.type = HCI_ASYNC_DATA_PACKET /\ HeaderLength(pkt) = 5 /\ Length(pkt) >= 6)
  <2>1. CASE pkt.type = HCI_EVENT_PACKET
    BY <1>1, <2>1, EventBytes
  <2>2. CASE pkt.type = HCI_ASYNC_DATA_PACKET
    BY <1>1, <2>2, AsyncBytes, Zenon
  <2>3. QED
    BY <1>1, <2>1, <2>2, PacketShape
<1>4. sent' \in 0 .. Length(pkt')
  BY <1>1, <1>2
<1>5. /\ rx_state' \in HW_RXState /\ rx_count' \in Byte /\ rx_expected' \in Byte
      /\ Position'
  <2>1. CASE sent = 0
    <3>1. /\ rx_state' = HeaderState /\ rx_count' = 1 /\ rx_expected' \in Byte
      BY <2>1, FirstByte
    <3>2. HeaderState \in HW_RXState
      BY DEF HeaderState, HW_RXState
    <3>3. ~Between' /\ sent' = 1
      BY <1>1, <1>2, <2>1 DEF Between
    <3>4. QED
      BY <1>2, <1>3, <3>1, <3>2, <3>3 DEF Position, Byte
  <2>2. CASE sent > 0 /\ sent < HeaderLength(pkt)
    <3>1. CASE pkt.type = HCI_EVENT_PACKET
      <4>1. sent \in {1, 2} /\ HeaderLength(pkt) = 3
        BY <1>1, <1>3, <2>2, <3>1 DEF HCI_EVENT_PACKET, HCI_ASYNC_DATA_PACKET
      <4>2. /\ rx_count' = sent + 1
            /\ sent = 1 => rx_state' = "WAIT_EVENT_HEADER" /\ rx_expected' = rx_expected
            /\ sent = 2 => rx_state' = "WAIT_PAYLOAD" /\ rx_expected' = Length(pkt) % 256
        BY <3>1, <4>1, EventHeaderByte
      <4>3. ~Between' /\ rx_expected \in Byte /\ HeaderState = "WAIT_EVENT_HEADER"
        BY <1>1, <1>2, <3>1, <4>1 DEF Between, IInv, TypeOK, HeaderState
      <4>4. QED
        BY <1>1, <1>2, <4>1, <4>2, <4>3 DEF Position, Byte, HW_RXState
    <3>2. CASE pkt.type = HCI_ASYNC_DATA_PACKET
      <4>1. sent \in {1, 2, 3, 4} /\ HeaderLength(pkt) = 5 /\ Length(pkt) >= 6
        BY <1>1, <1>3, <2>2, <3>2 DEF HCI_EVENT_PACKET, HCI_ASYNC_DATA_PACKET
      <4>2. /\ rx_count' = sent + 1
            /\ sent < 4 => rx_state' = "WAIT_ASYNC_HEADER" /\ rx_expected' = rx_expected
            /\ sent = 4 => rx_state' = "WAIT_PAYLOAD" /\ rx_expected' = Length(pkt) % 256
        BY <3>2, <4>1, AsyncHeaderByte
      <4>3. ~Between' /\ rx_expected \in Byte /\ HeaderState = "WAIT_ASYNC_HEADER"
        BY <1>1, <1>2, <3>2, <4>1 DEF Between, IInv, TypeOK, HeaderState,
           HCI_EVENT_PACKET, HCI_ASYNC_DATA_PACKET
      <4>4. QED
        BY <1>1, <1>2, <4>1, <4>2, <4>3 DEF Position, Byte, HW_RXState
    <3>3. QED
      BY <1>3, <3>1, <3>2
  <2>3. CASE sent >= HeaderLength(pkt)
    <3>1. sent >= 3 /\ HeaderLength(pkt) \in Nat
      BY <1>1, <1>3, <2>3
    <3>2. CASE sent + 1 = Length(pkt)
      <4>1. /\ rx_state' = "WAIT_TYPE" /\ rx_count' = 0 /\ rx_expected' = 0 /\ Between'
        BY <1>1, <1>2, <2>3, <3>2, PayloadByte DEF Between
      <4>2. QED
        BY <4>1 DEF Position, Byte, HW_RXState
    <3>3. CASE sent + 1 # Length(pkt)
      <4>1. /\ rx_state' = "WAIT_PAYLOAD" /\ rx_count' = (sent + 1) % 256
            /\ rx_expected' = Length(pkt) % 256
        BY <2>3, <3>3, PayloadByte
      <4>2. ~Between' /\ ~(sent' < HeaderLength(pkt))
        BY <1>1, <1>2, <2>3, <3>1, <3>3 DEF Between
      <4>3. (sent + 1) % 256 \in Byte /\ Length(pkt) % 256 \in Byte
        BY <1>1 DEF Byte
      <4>4. QED
        BY <1>1, <1>2, <4>1, <4>2, <4>3 DEF Position, HW_RXState
    <3>4. QED
      BY <3>2, <3>3
  <2>4. QED
    BY <1>1, <1>3, <2>1, <2>2, <2>3
<1>6. QED
  BY <1>1, <1>4, <1>5, ContentsKept DEF IInv, TypeOK

\* A byte that begins no packet is dropped where packets meet.
LEMMA StrayByteKeeps ==
  ASSUME IInv, StrayByte
  PROVE  IInv' /\ handed' = handed
<1>1. /\ sent = 0 /\ rx_state = "WAIT_TYPE" /\ rx_count = 0 /\ rx_expected = 0
      /\ sent' = sent /\ pkt' = pkt /\ pkt \in Packets
  BY DEF IInv, TypeOK, Position, Between, StrayByte
<1>2. PICK byte \in Stray : HCI_handle_hw_rx(byte)
  BY DEF StrayByte
<1>3. byte \in Byte /\ byte \notin {HCI_EVENT_PACKET, HCI_ASYNC_DATA_PACKET}
  BY <1>2, StrayAssumption
<1>4. /\ rx_state' = "WAIT_TYPE" /\ rx_count' = 0 /\ rx_expected' = 0 /\ handed' = handed
  <2>1. WaitType(byte)
    BY <1>1, <1>2 DEF HCI_handle_hw_rx, WaitEventHeader, WaitAsyncHeader, WaitPayload
  <2>2. QED
    BY <1>1, <1>3, <2>1 DEF WaitType
<1>5. rx_buffer' \in [0 .. MAX_PACKET_SIZE - 1 -> Byte]
  BY <1>2, <1>3 DEF HCI_handle_hw_rx, Stored, IInv, TypeOK
<1>6. Between' /\ sent' = 0
  BY <1>1 DEF Between
<1>7. Position' /\ Contents'
  BY <1>4, <1>6 DEF Position, Contents
<1>8. sent' \in 0 .. Length(pkt')
  BY <1>1 DEF IInv, TypeOK
<1>9. QED
  BY <1>1, <1>4, <1>5, <1>7, <1>8 DEF IInv, TypeOK, HW_RXState, Byte

\* So does the beginning of the next packet.
LEMMA NextPacketKeeps ==
  ASSUME IInv, NextPacket
  PROVE  IInv'
<1>1. /\ rx_state = "WAIT_TYPE" /\ rx_count = 0 /\ rx_expected = 0
      /\ rx_state' = rx_state /\ rx_count' = rx_count /\ rx_expected' = rx_expected
      /\ rx_buffer' = rx_buffer /\ pkt' \in Packets /\ sent' = 0
  BY DEF IInv, Position, Between, NextPacket, rxVars
<1>2. Length(pkt') \in Nat
  <2>1. CASE pkt'.type = HCI_EVENT_PACKET
    BY <1>1, <2>1, EventBytes
  <2>2. CASE pkt'.type = HCI_ASYNC_DATA_PACKET
    BY <1>1, <2>2, AsyncBytes, Zenon
  <2>3. QED
    BY <1>1, <2>1, <2>2, PacketShape
<1>3. sent' \in 0 .. Length(pkt') /\ Between'
  BY <1>1, <1>2 DEF Between
<1>4. Position' /\ Contents'
  BY <1>1, <1>3 DEF Position, Contents
<1>5. QED
  BY <1>1, <1>3, <1>4 DEF IInv, TypeOK

\* The receiver's position and its buffer always follow the packet on the wire.
THEOREM ReceiverFollows == Spec => []IInv
<1>1. Init => IInv
  <2>1. SUFFICES ASSUME Init PROVE IInv
    OBVIOUS
  <2>2. pkt \in Packets /\ sent = 0 /\ Between
    BY <2>1 DEF Init, Between
  <2>3. Length(pkt) \in Nat
    <3>1. CASE pkt.type = HCI_EVENT_PACKET
      BY <2>2, <3>1, EventBytes
    <3>2. CASE pkt.type = HCI_ASYNC_DATA_PACKET
      BY <2>2, <3>2, AsyncBytes, Zenon
    <3>3. QED
      BY <2>2, <3>1, <3>2, PacketShape
  <2>4. sent \in 0 .. Length(pkt)
    BY <2>2, <2>3
  <2>5. Position /\ Contents
    BY <2>1, <2>2 DEF Init, Position, Contents
  <2>6. rx_buffer \in [0 .. MAX_PACKET_SIZE - 1 -> Byte]
    BY <2>1 DEF Init, MAX_PACKET_SIZE, Byte
  <2>7. QED
    BY <2>1, <2>2, <2>4, <2>5, <2>6 DEF Init, IInv, TypeOK, HW_RXState, Byte
<1>2. IInv /\ [Next]_vars => IInv'
  <2>1. SUFFICES ASSUME IInv, [Next]_vars PROVE IInv'
    OBVIOUS
  <2>2. CASE TakeByte
    BY <2>1, <2>2, TakeByteKeeps
  <2>3. CASE NextPacket
    BY <2>1, <2>3, NextPacketKeeps
  <2>4. CASE StrayByte
    BY <2>1, <2>4, StrayByteKeeps
  <2>5. CASE UNCHANGED vars
    <3>1. UNCHANGED << Between, HeaderState, Position, Contents, TypeOK >>
      BY <2>5 DEF vars, Between, HeaderState, Position, Contents, TypeOK
    <3>2. QED
      BY <2>1, <3>1 DEF IInv
  <2>6. QED
    BY <2>1, <2>2, <2>3, <2>4, <2>5 DEF Next
<1>3. QED
  BY <1>1, <1>2, PTL DEF Spec

\* TypeOK, for every set of packets.
THEOREM TypeCorrect == Spec => []TypeOK
BY ReceiverFollows, PTL DEF IInv

\* The receiver is between packets exactly when the controller is, for every
\* sequence of framable packets (hci.c:383-444).
THEOREM PacketsAreFramed == Spec => []FramingKept
<1>1. IInv => FramingKept
  <2>1. SUFFICES ASSUME IInv PROVE FramingKept
    OBVIOUS
  <2>2. Between <=> sent \in {0, Length(pkt)}
    BY DEF Between
  <2>3. ~Between => rx_state # "WAIT_TYPE"
    <3>1. HeaderState # "WAIT_TYPE"
      BY DEF HeaderState
    <3>2. sent < HeaderLength(pkt) \/ sent >= HeaderLength(pkt)
      <4>1. sent \in Nat /\ HeaderLength(pkt) \in Nat
        BY <2>1 DEF IInv, TypeOK, HeaderLength
      <4>2. QED
        BY <4>1
    <3>3. QED
      BY <2>1, <3>1, <3>2 DEF IInv, Position
  <2>4. QED
    BY <2>1, <2>2, <2>3 DEF FramingKept, IInv, Position
<1>2. QED
  BY <1>1, ReceiverFollows, PTL

-----------------------------------------------------------------------------
(***************************************************************************)
(* What is handed on.                                                      *)
(***************************************************************************)

\* The fields and the payload of an event that fits, in the buffer that holds it.
LEMMA EventCopied ==
  ASSUME NEW p \in Packets, p.type = HCI_EVENT_PACKET, Fits(p), NEW buf,
         \A i \in 0 .. 255 : i < Length(p) => buf[i] = ByteOf(p, i)
  PROVE  /\ buf[0] = HCI_EVENT_PACKET /\ buf[1] = p.code /\ buf[2] = Len(p.payload)
         /\ [i \in 1 .. Len(p.payload) |-> buf[2 + i]] = p.payload
         /\ p = [type |-> HCI_EVENT_PACKET, code |-> p.code, payload |-> p.payload]
<1>1. PICK n \in Nat : n = Len(p.payload)
  BY PacketShape
<1>2. /\ p \in HCIEvent /\ p.payload \in Seq(Byte)
      /\ Length(p) \in Nat /\ Length(p) = 3 + n /\ Length(p) >= 4 /\ Length(p) <= 256
  BY <1>1, EventBytes, PacketShape DEF Fits, MAX_PACKET_SIZE
<1>3. buf[0] = HCI_EVENT_PACKET /\ buf[1] = p.code /\ buf[2] = n
  <2>1. buf[0] = ByteOf(p, 0) /\ buf[1] = ByteOf(p, 1) /\ buf[2] = ByteOf(p, 2)
    BY <1>2
  <2>2. QED
    BY <1>1, <2>1, EventBytes, Zenon
<1>4. \A i \in 1 .. n : buf[2 + i] = p.payload[i]
  <2>0. \A j \in 3 .. Length(p) - 1 : ByteOf(p, j) = p.payload[j - 2]
    BY EventBytes
  <2>1. TAKE i \in 1 .. n
  <2>2. 2 + i \in 0 .. 255 /\ 2 + i < Length(p) /\ 2 + i \in 3 .. Length(p) - 1 /\ 2 + i - 2 = i
    BY <1>2, SMTT(30)
  <2>3. buf[2 + i] = ByteOf(p, 2 + i)
    BY <2>2
  <2>4. ByteOf(p, 2 + i) = p.payload[2 + i - 2]
    BY <2>0, <2>2
  <2>5. QED
    BY <2>2, <2>3, <2>4, Zenon
<1>5. [i \in 1 .. n |-> buf[2 + i]] = p.payload
  <2>1. p.payload = [i \in 1 .. n |-> p.payload[i]]
    BY <1>1, <1>2
  <2>2. QED
    BY <1>4, <2>1
<1>6. p = [type |-> HCI_EVENT_PACKET, code |-> p.code, payload |-> p.payload]
  BY <1>2 DEF HCIEvent
<1>7. QED
  BY <1>1, <1>3, <1>5, <1>6

\* The event built from a buffer that holds a packet that fits is the packet.
LEMMA EventHanded ==
  ASSUME NEW p \in Packets, p.type = HCI_EVENT_PACKET, Fits(p), NEW buf,
         \A i \in 0 .. 255 : i < Length(p) => buf[i] = ByteOf(p, i)
  PROVE  HandedFrom(buf) = << p >>
<1>1. PICK n \in Nat : n = Len(p.payload) /\ n <= 253
  <2>1. PICK n \in Nat : n = Len(p.payload)
    BY PacketShape
  <2>2. Length(p) = 3 + n
    BY <2>1, EventBytes
  <2>3. Length(p) <= 256
    BY DEF Fits, MAX_PACKET_SIZE
  <2>4. n <= 253
    BY <2>2, <2>3
  <2>5. QED
    BY <2>1, <2>4
<1>2. /\ buf[0] = HCI_EVENT_PACKET /\ buf[1] = p.code /\ buf[2] = n
      /\ [i \in 1 .. n |-> buf[2 + i]] = p.payload
      /\ p = [type |-> HCI_EVENT_PACKET, code |-> p.code, payload |-> p.payload]
  BY <1>1, EventCopied
<1>3. Within(buf[2], 3) = n
  BY <1>1, <1>2 DEF Within, MAX_PACKET_SIZE
<1>4. EventIn(buf) = [type |-> HCI_EVENT_PACKET, code |-> p.code, payload |-> p.payload]
  BY <1>2, <1>3 DEF EventIn
<1>5. QED
  BY <1>2, <1>4 DEF HandedFrom

\* A buffer that begins with the bytes of p; and the fields of ACL data in it.
Holds(buf, p) == \A i \in 0 .. 255 : i < Length(p) => buf[i] = ByteOf(p, i)

AsyncFields(buf, p) ==
  /\ buf[0] = HCI_ASYNC_DATA_PACKET /\ buf[1] = p.handle % 256
  /\ buf[2] = p.handle \div 256 + 16 * p.flags
  /\ p.handle \in Handle /\ p.flags \in Flags
  /\ buf[3] + 256 * buf[4] = Len(p.payload)
  /\ [i \in 1 .. Len(p.payload) |-> buf[4 + i]] = p.payload
  /\ p = [type |-> HCI_ASYNC_DATA_PACKET, handle |-> p.handle, flags |-> p.flags,
          payload |-> p.payload]

\* The same of ACL data.
LEMMA AsyncCopied ==
  ASSUME NEW p \in Packets, p.type = HCI_ASYNC_DATA_PACKET, Fits(p), NEW buf, Holds(buf, p)
  PROVE  AsyncFields(buf, p)
<1>0. \A i \in 0 .. 255 : i < Length(p) => buf[i] = ByteOf(p, i)
  BY DEF Holds
<1>1. PICK n \in Nat : n = Len(p.payload)
  BY PacketShape
<1>2. p \in HCIAsyncData /\ p.payload \in Seq(Byte)
  BY PacketShape
<1>3. Length(p) \in Nat /\ Length(p) = 5 + n /\ Length(p) >= 6
  BY <1>1, AsyncBytes, Zenon
<1>4. Length(p) <= 256
  BY DEF Fits, MAX_PACKET_SIZE
<1>5. /\ buf[0] = HCI_ASYNC_DATA_PACKET /\ buf[1] = p.handle % 256
      /\ buf[2] = p.handle \div 256 + 16 * p.flags /\ buf[3] + 256 * buf[4] = n
  <2>1. /\ buf[0] = ByteOf(p, 0) /\ buf[1] = ByteOf(p, 1) /\ buf[2] = ByteOf(p, 2)
        /\ buf[3] = ByteOf(p, 3) /\ buf[4] = ByteOf(p, 4)
    BY <1>0, <1>3
  <2>2. ByteOf(p, 0) = HCI_ASYNC_DATA_PACKET /\ ByteOf(p, 1) = p.handle % 256
    BY AsyncBytes, Zenon
  <2>3. ByteOf(p, 2) = p.handle \div 256 + 16 * p.flags
    BY AsyncBytes, Zenon
  <2>4. ByteOf(p, 3) = n % 256 /\ ByteOf(p, 4) = n \div 256
    BY <1>1, AsyncBytes, Zenon
  <2>5. (n % 256) + 256 * (n \div 256) = n
    BY LengthAgain
  <2>6. QED
    BY <2>1, <2>2, <2>3, <2>4, <2>5, Zenon
<1>6. \A i \in 1 .. n : buf[4 + i] = p.payload[i]
  <2> \A j \in 5 .. Length(p) - 1 : ByteOf(p, j) = p.payload[j - 4]
    BY AsyncBytes, Zenon
  <2>1. TAKE i \in 1 .. n
  <2>2. 4 + i \in 0 .. 255 /\ 4 + i < Length(p) /\ 4 + i \in 5 .. Length(p) - 1 /\ 4 + i - 4 = i
    BY <1>3, <1>4
  <2>3. buf[4 + i] = ByteOf(p, 4 + i)
    BY <1>0, <2>2
  <2>4. ByteOf(p, 4 + i) = p.payload[4 + i - 4]
    BY <2>2
  <2>5. QED
    BY <2>2, <2>3, <2>4, Zenon
<1>7. [i \in 1 .. n |-> buf[4 + i]] = p.payload
  <2>1. p.payload = [i \in 1 .. n |-> p.payload[i]]
    BY <1>1, <1>2
  <2>2. QED
    BY <1>6, <2>1
<1>8. p.handle \in Handle /\ p.flags \in Flags
  BY <1>2 DEF HCIAsyncData
<1>9. p = [type |-> HCI_ASYNC_DATA_PACKET, handle |-> p.handle, flags |-> p.flags,
           payload |-> p.payload]
  BY <1>2 DEF HCIAsyncData
<1>10. QED
  BY <1>1, <1>5, <1>7, <1>8, <1>9, Zenon DEF AsyncFields

\* A half byte and what is stored above it come apart again.
LEMMA HalvesApart ==
  ASSUME NEW q \in Nat, q <= 15, NEW f \in Nat
  PROVE  (q + 16 * f) % 16 = q /\ (q + 16 * f) \div 16 = f
OBVIOUS

FieldsApart(h, f) ==
  /\ (h % 256) + 256 * ((h \div 256 + 16 * f) % 16) = h
  /\ (h \div 256 + 16 * f) \div 16 = f

\* The two fields of an ACL header, twelve bits and four, come apart again.
LEMMA HandleAgain ==
  ASSUME NEW h \in Handle, NEW f \in Flags
  PROVE  FieldsApart(h, f)
<1>1. h \in Nat /\ h <= 4095 /\ f \in Nat
  BY DEF Handle, Flags
<1>2. h \div 256 \in Nat /\ h \div 256 <= 15
  BY <1>1
<1>3. (h \div 256 + 16 * f) % 16 = h \div 256 /\ (h \div 256 + 16 * f) \div 16 = f
  BY <1>1, <1>2, HalvesApart
<1>4. (h % 256) + 256 * (h \div 256) = h
  BY <1>1, LengthAgain
<1>5. QED
  BY <1>3, <1>4, Zenon DEF FieldsApart

\* The ACL packet is handed on, with the lower byte of its handle.
LEMMA AsyncHanded ==
  ASSUME NEW p \in Packets, p.type = HCI_ASYNC_DATA_PACKET, Fits(p), NEW buf, Holds(buf, p)
  PROVE  HandedFrom(buf) = << Kept(p) >>
<1>1. PICK n \in Nat : n = Len(p.payload) /\ n <= 251
  <2>1. PICK n \in Nat : n = Len(p.payload)
    BY PacketShape
  <2>2. Length(p) = 5 + n
    BY <2>1, AsyncBytes, Zenon
  <2>3. Length(p) <= 256
    BY DEF Fits, MAX_PACKET_SIZE
  <2>4. n <= 251
    BY <2>2, <2>3
  <2>5. QED
    BY <2>1, <2>4, Zenon
<1>2. /\ buf[0] = HCI_ASYNC_DATA_PACKET /\ buf[1] = p.handle % 256
      /\ buf[2] = p.handle \div 256 + 16 * p.flags
      /\ p.handle \in Handle /\ p.flags \in Flags
      /\ buf[3] + 256 * buf[4] = n
      /\ [i \in 1 .. n |-> buf[4 + i]] = p.payload
      /\ p = [type |-> HCI_ASYNC_DATA_PACKET, handle |-> p.handle, flags |-> p.flags,
              payload |-> p.payload]
  <2>1. AsyncFields(buf, p)
    BY AsyncCopied, Zenon
  <2>2. QED
    BY <1>1, <2>1, Zenon DEF AsyncFields
<1>3. buf[2] \div 16 = p.flags
  <2>1. p.handle \in Handle /\ p.flags \in Flags /\ buf[2] = p.handle \div 256 + 16 * p.flags
    BY <1>2, Zenon
  <2>2. FieldsApart(p.handle, p.flags)
    BY <2>1, HandleAgain
  <2>3. QED
    BY <2>1, <2>2, Zenon DEF FieldsApart
<1>4. Within(buf[3] + 256 * buf[4], 5) = n
  <2>1. Within(n, 5) = n
    BY <1>1 DEF Within, MAX_PACKET_SIZE
  <2>2. QED
    BY <1>2, <2>1, Zenon
<1>5. AsyncIn(buf) = [type |-> HCI_ASYNC_DATA_PACKET, handle |-> p.handle % 256,
                      flags |-> p.flags, payload |-> p.payload]
  <2>1. [i \in 1 .. Within(buf[3] + 256 * buf[4], 5) |-> buf[4 + i]] = p.payload
    BY <1>2, <1>4, Zenon
  <2>2. AsyncIn(buf) = [type |-> HCI_ASYNC_DATA_PACKET, handle |-> buf[1],
           flags |-> buf[2] \div 16,
           payload |-> [i \in 1 .. Within(buf[3] + 256 * buf[4], 5) |-> buf[4 + i]]]
    BY Zenon DEF AsyncIn
  <2>3. buf[1] = p.handle % 256
    BY <1>2
  <2>4. QED
    BY <1>3, <2>1, <2>2, <2>3, Zenon
<1>6. Kept(p) = [type |-> HCI_ASYNC_DATA_PACKET, handle |-> p.handle % 256,
                 flags |-> p.flags, payload |-> p.payload]
  BY <1>2 DEF Kept
<1>7. QED
  BY <1>2, <1>5, <1>6 DEF HandedFrom, HCI_EVENT_PACKET, HCI_ASYNC_DATA_PACKET

\* The invariant of delivery, kept by every step from a state that satisfies both.
LEMMA DeliveryKept ==
  ASSUME IInv, IInv', DeliveredIntact, Next
  PROVE  DeliveredIntact'
<1>1. CASE NextPacket
  <2>1. Length(pkt') # 0
    <3>1. pkt' \in Packets
      BY <1>1 DEF NextPacket
    <3>2. CASE pkt'.type = HCI_EVENT_PACKET
      BY <3>1, <3>2, EventBytes
    <3>3. CASE pkt'.type = HCI_ASYNC_DATA_PACKET
      <4>1. Length(pkt') \in Nat /\ Length(pkt') >= 6
        BY <3>1, <3>3, AsyncBytes, Zenon
      <4>2. QED
        BY <4>1
    <3>4. QED
      BY <3>1, <3>2, <3>3, PacketShape
  <2>2. QED
    BY <1>1, <2>1 DEF NextPacket, DeliveredIntact
<1>2. CASE StrayByte
  BY <1>2, StrayByteKeeps DEF StrayByte, DeliveredIntact
<1>3. CASE TakeByte
  <2>1. /\ sent \in Nat /\ sent < Length(pkt) /\ sent' = sent + 1 /\ pkt' = pkt
        /\ Length(pkt) \in Nat /\ pkt \in Packets
    BY <1>3, ByteTaken
  <2>2. SUFFICES ASSUME Fits(pkt)
                 PROVE  handed' = IF sent + 1 = Length(pkt) THEN << Kept(pkt) >> ELSE << >>
    BY <2>1 DEF DeliveredIntact
  <2>3. handed = << >>
    BY <2>1, <2>2 DEF DeliveredIntact
  <2>4. CASE sent < HeaderLength(pkt)
    <3>1. handed' = handed /\ sent + 1 # Length(pkt)
      <4>1. CASE pkt.type = HCI_EVENT_PACKET
        <5>1. HeaderLength(pkt) = 3 /\ Length(pkt) >= 4
          BY <2>1, <4>1, EventBytes
        <5>2. sent = 0 \/ sent \in {1, 2}
          BY <2>1, <2>4, <5>1
        <5>3. QED
          BY <1>3, <2>1, <4>1, <5>1, <5>2, FirstByte, EventHeaderByte
      <4>2. CASE pkt.type = HCI_ASYNC_DATA_PACKET
        <5>1. HeaderLength(pkt) = 5 /\ Length(pkt) >= 6
          BY <2>1, <4>2, AsyncBytes, Zenon
        <5>2. sent = 0 \/ sent \in {1, 2, 3, 4}
          BY <2>1, <2>4, <5>1
        <5>3. QED
          BY <1>3, <2>1, <4>2, <5>1, <5>2, FirstByte, AsyncHeaderByte
      <4>3. QED
        BY <2>1, <4>1, <4>2, PacketShape
    <3>2. QED
      BY <2>3, <3>1
  <2>5. CASE sent >= HeaderLength(pkt) /\ sent + 1 # Length(pkt)
    BY <1>3, <2>3, <2>5, PayloadByte
  <2>6. CASE sent >= HeaderLength(pkt) /\ sent + 1 = Length(pkt)
    <3>1. handed' = handed \o HandedFrom(rx_buffer')
      BY <1>3, <2>6, PayloadByte
    <3>2. \A i \in 0 .. 255 : i < Length(pkt) => rx_buffer'[i] = ByteOf(pkt, i)
      BY <2>1, <2>2, <2>6 DEF IInv, Contents, Fits, MAX_PACKET_SIZE
    <3>3. HandedFrom(rx_buffer') = << Kept(pkt) >>
      <4>1. CASE pkt.type = HCI_EVENT_PACKET
        <5>1. Kept(pkt) = pkt
          BY <4>1 DEF Kept, HCI_EVENT_PACKET, HCI_ASYNC_DATA_PACKET
        <5>2. HandedFrom(rx_buffer') = << pkt >>
          BY <2>1, <2>2, <3>2, <4>1, EventHanded
        <5>3. QED
          BY <5>1, <5>2, Zenon
      <4>2. CASE pkt.type = HCI_ASYNC_DATA_PACKET
        BY <2>1, <2>2, <3>2, <4>2, AsyncHanded DEF Holds
      <4>3. QED
        BY <2>1, <4>1, <4>2, PacketShape
    <3>4. << >> \o << Kept(pkt) >> = << Kept(pkt) >>
      BY <2>1
    <3>5. QED
      BY <2>3, <2>6, <3>1, <3>3, <3>4
  <2>7. HeaderLength(pkt) \in Nat
    BY DEF HeaderLength
  <2>8. QED
    BY <2>1, <2>4, <2>5, <2>6, <2>7
<1>4. QED
  BY <1>1, <1>2, <1>3 DEF Next

\* Every packet that fits the buffer is handed on once, at its last byte and
\* with what was sent, of a handle the lower byte, for every set of packets, all
\* twelve-bit handles and all payloads (hci.c:419-434).
THEOREM PacketsArriveIntact == Spec => []DeliveredIntact
<1>1. Init /\ IInv => DeliveredIntact
  <2>1. SUFFICES ASSUME Init, IInv PROVE DeliveredIntact
    OBVIOUS
  <2>2. pkt \in Packets /\ sent = 0 /\ handed = << >>
    BY <2>1 DEF Init
  <2>3. Length(pkt) # 0
    <3>1. CASE pkt.type = HCI_EVENT_PACKET
      BY <2>2, <3>1, EventBytes
    <3>2. CASE pkt.type = HCI_ASYNC_DATA_PACKET
      <4>1. Length(pkt) \in Nat /\ Length(pkt) >= 6
        BY <2>2, <3>2, AsyncBytes, Zenon
      <4>2. QED
        BY <4>1
    <3>3. QED
      BY <2>2, <3>1, <3>2, PacketShape
  <2>4. QED
    BY <2>2, <2>3 DEF DeliveredIntact
<1>2. IInv /\ IInv' /\ DeliveredIntact /\ [Next]_vars => DeliveredIntact'
  <2>1. SUFFICES ASSUME IInv, IInv', DeliveredIntact, [Next]_vars PROVE DeliveredIntact'
    OBVIOUS
  <2>2. CASE Next
    BY <2>1, <2>2, DeliveryKept
  <2>3. CASE UNCHANGED vars
    BY <2>1, <2>3 DEF vars, DeliveredIntact
  <2>4. QED
    BY <2>1, <2>2, <2>3
<1>3. QED
  BY <1>1, <1>2, ReceiverFollows, PTL DEF Spec

-----------------------------------------------------------------------------
(***************************************************************************)
(* HCI_decode_packet.                                                      *)
(***************************************************************************)

\* The length of a packet, by the length of its payload.
LEMMA LengthOf ==
  ASSUME NEW p \in Packets
  PROVE  \E n \in Nat :
           /\ n = Len(p.payload)
           /\ p.type = HCI_EVENT_PACKET => Length(p) = 3 + n
           /\ p.type = HCI_ASYNC_DATA_PACKET => Length(p) = 5 + n
<1>1. PICK n \in Nat : n = Len(p.payload)
  BY PacketShape
<1>2. p.type = HCI_EVENT_PACKET => Length(p) = 3 + n
  BY <1>1, EventBytes
<1>3. p.type = HCI_ASYNC_DATA_PACKET => Length(p) = 5 + n
  BY <1>1, AsyncBytes, Zenon
<1>4. QED
  BY <1>1, <1>2, <1>3, Zenon

\* The comparisons the decoder makes with the size of a whole packet.
LEMMA SizeSuffices ==
  ASSUME NEW n \in Nat, NEW h \in Nat, h >= 1
  PROVE  h + n >= h /\ h + n >= 1 /\ h + n >= h + n
OBVIOUS

\* The whole packet is read back.
LEMMA WholeDecoded ==
  ASSUME NEW p \in Packets, Fits(p), NEW buf,
         \A i \in 0 .. 255 : i < Length(p) => buf[i] = ByteOf(p, i)
  PROVE  HCI_decode_packet(buf, Length(p)) = << p >>
<1>1. PICK n \in Nat :
        /\ n = Len(p.payload)
        /\ p.type = HCI_EVENT_PACKET => Length(p) = 3 + n
        /\ p.type = HCI_ASYNC_DATA_PACKET => Length(p) = 5 + n
  BY LengthOf, Zenon
<1>2. CASE p.type = HCI_EVENT_PACKET
  <2>1. Length(p) = 3 + n /\ Length(p) >= 3 /\ Length(p) >= 3 + n /\ Length(p) >= 1
    <3>1. 3 + n >= 3 /\ 3 + n >= 1 /\ 3 + n >= 3 + n
      BY SizeSuffices
    <3>2. QED
      BY <1>1, <1>2, <3>1, Zenon
  <2>2. /\ buf[0] = HCI_EVENT_PACKET /\ buf[1] = p.code /\ buf[2] = n
        /\ [i \in 1 .. n |-> buf[2 + i]] = p.payload
        /\ p = [type |-> HCI_EVENT_PACKET, code |-> p.code, payload |-> p.payload]
    BY <1>1, <1>2, EventCopied
  <2>3. DecodeEvent(buf, Length(p)) = << p >>
    BY <2>1, <2>2, Zenon DEF DecodeEvent
  <2>4. QED
    BY <2>1, <2>2, <2>3, Zenon DEF HCI_decode_packet
<1>3. CASE p.type = HCI_ASYNC_DATA_PACKET
  <2>1. Length(p) = 5 + n /\ Length(p) >= 5 /\ Length(p) >= 5 + n /\ Length(p) >= 1
    <3>1. 5 + n >= 5 /\ 5 + n >= 1 /\ 5 + n >= 5 + n
      BY SizeSuffices
    <3>2. QED
      BY <1>1, <1>3, <3>1, Zenon
  <2>2. /\ buf[0] = HCI_ASYNC_DATA_PACKET /\ buf[1] = p.handle % 256
        /\ buf[2] = p.handle \div 256 + 16 * p.flags
        /\ p.handle \in Handle /\ p.flags \in Flags
        /\ buf[3] + 256 * buf[4] = n
        /\ [i \in 1 .. n |-> buf[4 + i]] = p.payload
        /\ p = [type |-> HCI_ASYNC_DATA_PACKET, handle |-> p.handle, flags |-> p.flags,
                payload |-> p.payload]
    <3>1. AsyncFields(buf, p)
      <4>1. Holds(buf, p)
        BY Zenon DEF Holds
      <4>2. QED
        BY <1>3, <4>1, AsyncCopied, Zenon
    <3>2. QED
      BY <1>1, <3>1, Zenon DEF AsyncFields
  <2>3. buf[1] + 256 * (buf[2] % 16) = p.handle /\ buf[2] \div 16 = p.flags
    <3>1. /\ (p.handle % 256) + 256 * ((p.handle \div 256 + 16 * p.flags) % 16) = p.handle
          /\ (p.handle \div 256 + 16 * p.flags) \div 16 = p.flags
      <4>1. p.handle \in Handle /\ p.flags \in Flags
        BY <2>2, Zenon
      <4>2. FieldsApart(p.handle, p.flags)
        BY <4>1, HandleAgain, Zenon
      <4>3. QED
        BY <4>2, Zenon DEF FieldsApart
    <3>2. buf[1] = p.handle % 256 /\ buf[2] = p.handle \div 256 + 16 * p.flags
      BY <2>2, Zenon
    <3>3. QED
      BY <3>1, <3>2, Zenon
  <2>4. DecodeAsync(buf, Length(p)) = << p >>
    BY <2>1, <2>2, <2>3, Zenon DEF DecodeAsync
  <2>5. buf[0] # HCI_EVENT_PACKET
    BY <2>2 DEF HCI_EVENT_PACKET, HCI_ASYNC_DATA_PACKET
  <2>6. QED
    BY <2>1, <2>2, <2>4, <2>5, Zenon DEF HCI_decode_packet
<1>4. QED
  BY <1>2, <1>3, PacketShape

\* A beginning of it is refused.
LEMMA PartRefused ==
  ASSUME NEW p \in Packets, NEW size \in Nat, 0 < size, size < Length(p), NEW buf,
         \A i \in 0 .. 255 : i < size => buf[i] = ByteOf(p, i)
  PROVE  HCI_decode_packet(buf, size) = << >>
<1>1. PICK n \in Nat :
        /\ n = Len(p.payload)
        /\ p.type = HCI_EVENT_PACKET => Length(p) = 3 + n
        /\ p.type = HCI_ASYNC_DATA_PACKET => Length(p) = 5 + n
  BY LengthOf, Zenon
<1>2. buf[0] = ByteOf(p, 0)
  OBVIOUS
<1>3. CASE p.type = HCI_EVENT_PACKET
  <2>1. ByteOf(p, 0) = HCI_EVENT_PACKET /\ ByteOf(p, 2) = n
    BY <1>1, <1>3, EventBytes, Zenon
  <2>2. size >= 3 => buf[2] = n
    BY <2>1
  <2>3. size < 3 + n
    BY <1>1, <1>3
  <2>4. ~(size >= 3 /\ size >= 3 + buf[2])
    BY <2>2, <2>3
  <2>5. QED
    BY <1>2, <2>1, <2>4, Zenon DEF HCI_decode_packet, DecodeEvent
<1>4. CASE p.type = HCI_ASYNC_DATA_PACKET
  <2>1. ByteOf(p, 0) = HCI_ASYNC_DATA_PACKET
    BY <1>4, AsyncBytes, Zenon
  <2>2. ByteOf(p, 3) = n % 256 /\ ByteOf(p, 4) = n \div 256
    BY <1>1, <1>4, AsyncBytes, Zenon
  <2>3. size >= 5 => buf[3] = ByteOf(p, 3) /\ buf[4] = ByteOf(p, 4)
    OBVIOUS
  <2>4. ASSUME size >= 5
        PROVE  buf[3] + 256 * buf[4] = n
    <3>1. buf[3] = n % 256 /\ buf[4] = n \div 256
      BY <2>2, <2>3, <2>4, Zenon
    <3>2. (n % 256) + 256 * (n \div 256) = n
      BY LengthAgain, Zenon
    <3>3. QED
      BY <3>1, <3>2, Zenon
  <2>5. size < 5 + n
    BY <1>1, <1>4
  <2>6. ~(size >= 5 /\ size >= 5 + (buf[3] + 256 * buf[4]))
    BY <2>4, <2>5
  <2>7. buf[0] = HCI_ASYNC_DATA_PACKET /\ buf[0] # HCI_EVENT_PACKET
    BY <1>2, <2>1 DEF HCI_EVENT_PACKET, HCI_ASYNC_DATA_PACKET
  <2>8. QED
    BY <2>6, <2>7, Zenon DEF HCI_decode_packet, DecodeAsync
<1>5. QED
  BY <1>3, <1>4, PacketShape

\* HCI_decode_packet reads back from the receiver's buffer every packet that fits
\* it, and no beginning of one, for every set of packets (hci.c:95-135).
THEOREM DecoderAgrees == Spec => []DecodeReadsBack
<1>1. IInv => DecodeReadsBack
  <2>1. SUFFICES ASSUME IInv, Fits(pkt)
                 PROVE  /\ sent = Length(pkt) => HCI_decode_packet(rx_buffer, sent) = << pkt >>
                        /\ sent > 0 /\ sent < Length(pkt) =>
                             HCI_decode_packet(rx_buffer, sent) = << >>
    BY DEF DecodeReadsBack
  <2>2. pkt \in Packets /\ Length(pkt) <= 256
    BY <2>1 DEF IInv, TypeOK, Fits, MAX_PACKET_SIZE
  <2>3. Length(pkt) \in Nat
    BY <2>2, LengthOf, PacketShape
  <2>4. sent \in Nat /\ sent <= Length(pkt)
    BY <2>1, <2>3 DEF IInv, TypeOK
  <2>5. \A i \in 0 .. 255 : i < sent => rx_buffer[i] = ByteOf(pkt, i)
    <3>1. sent <= 256
      BY <2>2, <2>3, <2>4
    <3>2. QED
      BY <2>1, <3>1 DEF IInv, Contents
  <2>6. CASE sent = Length(pkt)
    <3>1. HCI_decode_packet(rx_buffer, Length(pkt)) = << pkt >>
      BY <2>1, <2>2, <2>5, <2>6, WholeDecoded
    <3>2. QED
      BY <2>3, <2>6, <3>1
  <2>7. CASE sent > 0 /\ sent < Length(pkt)
    <3>1. HCI_decode_packet(rx_buffer, sent) = << >>
      BY <2>2, <2>4, <2>5, <2>7, PartRefused
    <3>2. QED
      BY <2>3, <2>4, <2>7, <3>1
  <2>8. QED
    BY <2>6, <2>7
<1>2. QED
  BY <1>1, ReceiverFollows, PTL
=============================================================================
