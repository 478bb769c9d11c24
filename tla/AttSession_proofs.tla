------------------------- MODULE AttSession_proofs -------------------------
(***************************************************************************)
(* Theorems of AttSession, for every set of packets, connections and       *)
(* bounds.  A session is a run of GattAtt, so that module's theorems hold  *)
(* of what the application's callback sees in it; more say which packets   *)
(* and confirmations there are, and which request an answer belongs to.    *)
(***************************************************************************)
EXTENDS AttSession, GattAtt_proofs, SequenceTheorems

-----------------------------------------------------------------------------
\* A call of any function is an Ask of a well-formed request.
LEMMA RequestsAreAsked ==
  ASSUME AnyRequest
  PROVE  \E r \in Request : Ask(r)
<1>1. \A fn \in Function, c \in Connections, arg \in Nat : Call(fn, c, arg) => \E r \in Request : Ask(r)
  <2>1. SUFFICES ASSUME NEW fn \in Function, NEW c \in Connections, NEW arg \in Nat, Call(fn, c, arg)
                 PROVE  \E r \in Request : Ask(r)
    OBVIOUS
  <2>2. Ask([fn |-> fn, conn |-> c, arg |-> arg])
    BY <2>1 DEF Call
  <2>3. [fn |-> fn, conn |-> c, arg |-> arg] \in Request
    BY DEF Request
  <2>4. QED
    BY <2>2, <2>3
<1>2. PICK c \in Connections :
        \/ GATT_discover_services(c) \/ GATT_discover_characteristics(c)
        \/ \E client_mtu \in Mtus : GATT_exchange_mtu(c, client_mtu)
        \/ \E h \in DOMAIN Properties :
             \/ GATT_send_notification(c, h) \/ GATT_send_indication(c, h)
             \/ GATT_subscribe_characteristic(c, h) \/ GATT_unsubscribe_characteristic(c, h)
             \/ GATT_read_characteristic(c, h) \/ GATT_write_characteristic(c, h)
             \/ GATT_read_descriptor(c, h) \/ GATT_write_descriptor(c, h)
  BY DEF AnyRequest
<1>3. \E fn \in Function, arg \in Nat : Call(fn, c, arg)
  <2>1. CASE GATT_discover_services(c)
    BY <2>1 DEF GATT_discover_services, Function
  <2>2. CASE GATT_discover_characteristics(c)
    BY <2>2 DEF GATT_discover_characteristics, Function
  <2>3. CASE \E client_mtu \in Mtus : GATT_exchange_mtu(c, client_mtu)
    BY <2>3, SessionAssumption DEF GATT_exchange_mtu, Function
  <2>4. ASSUME NEW h \in DOMAIN Properties,
               \/ GATT_send_notification(c, h) \/ GATT_send_indication(c, h)
               \/ GATT_subscribe_characteristic(c, h) \/ GATT_unsubscribe_characteristic(c, h)
               \/ GATT_read_characteristic(c, h) \/ GATT_write_characteristic(c, h)
               \/ GATT_read_descriptor(c, h) \/ GATT_write_descriptor(c, h)
        PROVE  \E fn \in Function, arg \in Nat : Call(fn, c, arg)
    <3>1. h \in Nat /\ h + 2 \in Nat
      BY SessionAssumption
    <3>2. \E fn \in Function : Call(fn, c, h) \/ Call(fn, c, h + 2)
      BY <2>4 DEF GATT_send_notification, GATT_send_indication, GATT_subscribe_characteristic,
         GATT_unsubscribe_characteristic, GATT_read_characteristic, GATT_write_characteristic,
         GATT_read_descriptor, GATT_write_descriptor, Function
    <3>3. QED
      BY <3>1, <3>2
  <2>5. QED
    BY <1>2, <2>1, <2>2, <2>3, <2>4
<1>4. QED
  BY <1>1, <1>3

-----------------------------------------------------------------------------
\* An indication on its way, or in hand and not confirmed, is one its peer waits
\* for, and no peer has two of them, until a second fragment can be sent.
AwaitedOnce ==
  (SmallMtu /\ ~disturbed) =>
    /\ \A k \in DOMAIN air : Indication(air[k].packet) => awaiting[air[k].packet.conn]
    /\ \A j, k \in DOMAIN air :
         (j # k /\ Indication(air[j].packet) /\ Indication(air[k].packet))
           => air[j].packet.conn # air[k].packet.conn
    /\ step = "confirm" =>
         /\ awaiting[job.conn]
         /\ \A k \in DOMAIN air : Indication(air[k].packet) => air[k].packet.conn # job.conn

SInv == IInv /\ SessionTypeOK /\ AwaitedOnce

AirItem == [packet : Packets, answers : Content]

LEMMA SessionInitHolds == SessionInit => SInv
<1>1. SUFFICES ASSUME SessionInit PROVE SInv
  OBVIOUS
<1>2. IInv /\ TypeOK
  BY <1>1, InitHolds DEF SessionInit, IInv
<1>3. SessionTypeOK
  <2>1. NoRequest \in Content /\ req \in Request \union {NoRequest} /\ bytes \in Content
    BY <1>1 DEF SessionInit, Content
  <2>2. asked \in [Connections -> Seq(Content)] /\ peer \in [Connections -> Seq(Content)]
    BY <1>1 DEF SessionInit
  <2>3. awaiting \in [Connections -> BOOLEAN] /\ mtu \in [Connections -> Nat]
    BY <1>1, SessionAssumption DEF SessionInit
  <2>4. air \in Seq([packet : Packets, answers : Content])
    BY <1>1 DEF SessionInit
  <2>5. pc = "idle" /\ matched = TRUE /\ disturbed = FALSE
    BY <1>1, Zenon DEF SessionInit
  <2>6. QED
    BY <1>2, <2>1, <2>2, <2>3, <2>4, <2>5 DEF SessionTypeOK
<1>4. IsEvent(job) /\ step = "idle" /\ air = << >>
  BY <1>1 DEF SessionInit, Init
<1>5. AwaitedOnce
  BY <1>4 DEF AwaitedOnce
<1>6. QED
  BY <1>2, <1>3, <1>5 DEF SInv

\* What the steps that only ask or transmit have in common.
LEMMA FlightDepends ==
  ASSUME SInv, UNCHANGED << vars, air, awaiting, mtu >>, disturbed => disturbed'
  PROVE  AwaitedOnce'
<1>1. SmallMtu' = SmallMtu
  BY DEF SmallMtu
<1>2. job' = job /\ step' = step /\ air' = air /\ awaiting' = awaiting
  BY DEF vars
<1>3. QED
  BY <1>1, <1>2 DEF SInv, AwaitedOnce, Indication

LEMMA StepOfAtt ==
  ASSUME SInv, [Next]_vars
  PROVE  IInv' /\ TypeOK'
BY StepHolds DEF SInv, IInv

LEMMA ArrivesTyped ==
  ASSUME peer \in [Connections -> Seq(Content)], NEW c \in Connections, NEW content \in Content,
         Arrives(c, content)
  PROVE  peer' \in [Connections -> Seq(Content)]
<1>1. Append(peer[c], content) \in Seq(Content)
  OBVIOUS
<1>2. QED
  BY <1>1 DEF Arrives

LEMMA AskStep ==
  ASSUME SInv, NEW r \in Request, Ask(r)
  PROVE  SInv' /\ UNCHANGED vars
<1>1. UNCHANGED << vars, air, matched, awaiting, mtu >>
  BY DEF Ask
<1>2. IInv' /\ TypeOK'
  BY <1>1, StepOfAtt
<1>3. disturbed => disturbed'
  BY DEF Ask
<1>4. ContentOf(r) \in Content /\ r.conn \in Connections
  BY DEF Content, ContentOf, Request
<1>5. asked' \in [Connections -> Seq(Content)]
  <2>1. Append(asked[r.conn], ContentOf(r)) \in Seq(Content)
    BY <1>4 DEF SInv, SessionTypeOK
  <2>2. QED
    BY <2>1, <1>4 DEF Ask, SInv, SessionTypeOK
<1>6. /\ pc' \in {"idle", "filled", "encoded", "half"} /\ req' \in Request \union {NoRequest}
      /\ bytes' \in Content /\ peer' \in [Connections -> Seq(Content)]
  <2>1. CASE step = "idle"
    BY <2>1, <1>4 DEF Ask, SInv, SessionTypeOK
  <2>2. CASE step = "callback"
    BY <2>2, <1>4, ArrivesTyped DEF Ask, SInv, SessionTypeOK
  <2>3. QED
    BY <2>1, <2>2 DEF Ask
<1>7. disturbed' \in BOOLEAN
  BY <1>4, Zenon DEF Ask, SInv, SessionTypeOK
<1>8. SessionTypeOK'
  BY <1>1, <1>2, <1>5, <1>6, <1>7 DEF SInv, SessionTypeOK
<1>9. QED
  BY <1>1, <1>2, <1>3, <1>8, FlightDepends DEF SInv

LEMMA TransmitStep ==
  ASSUME SInv, Encode \/ TransmitHalf \/ TransmitRest
  PROVE  SInv' /\ UNCHANGED vars
<1>1. UNCHANGED << vars, air, asked, matched, awaiting, mtu, disturbed >>
  BY DEF Encode, TransmitHalf, TransmitRest
<1>2. IInv' /\ TypeOK'
  BY <1>1, StepOfAtt
<1>3. /\ pc' \in {"idle", "filled", "encoded", "half"} /\ req' \in Request \union {NoRequest}
      /\ bytes' \in Content
  BY DEF Encode, TransmitHalf, TransmitRest, SInv, SessionTypeOK, Content
<1>4. peer' \in [Connections -> Seq(Content)]
  <2>1. CASE Encode \/ TransmitHalf
    BY <2>1 DEF Encode, TransmitHalf, SInv, SessionTypeOK
  <2>2. CASE TransmitRest /\ req.conn \notin Connections
    <3>1. peer' = peer \/ peer' = [peer EXCEPT ![req.conn] = Append(@, bytes)]
      BY <2>2 DEF TransmitRest, Arrives
    <3>2. [peer EXCEPT ![req.conn] = Append(@, bytes)] = peer
      BY <2>2 DEF SInv, SessionTypeOK
    <3>3. QED
      BY <3>1, <3>2 DEF SInv, SessionTypeOK
  <2>3. CASE TransmitRest /\ req.conn \in Connections
    BY <2>3, ArrivesTyped DEF TransmitRest, SInv, SessionTypeOK
  <2>4. QED
    BY <2>1, <2>2, <2>3 DEF SInv, SessionTypeOK
<1>5. SessionTypeOK'
  BY <1>1, <1>2, <1>3, <1>4 DEF SInv, SessionTypeOK
<1>6. QED
  BY <1>1, <1>2, <1>5, FlightDepends DEF SInv

-----------------------------------------------------------------------------
\* The first packet on its way is the next one in hand.
LEMMA TakeStep ==
  ASSUME SInv, Take
  PROVE  SInv' /\ Next
<1> DEFINE head == Head(air)
<1>1. air \in Seq(AirItem) /\ air # << >>
  BY DEF Take, SInv, SessionTypeOK, AirItem
<1>2. head \in AirItem /\ head = air[1] /\ 1 \in DOMAIN air
  BY <1>1
<1>3. Tail(air) \in Seq(AirItem) /\ \A k \in DOMAIN Tail(air) : k + 1 \in DOMAIN air /\ k + 1 # 1 /\ Tail(air)[k] = air[k + 1]
  BY <1>1
<1>4. head.packet \in Packets /\ head.answers \in Content /\ Receive(head.packet) /\ air' = Tail(air)
  BY <1>2 DEF AirItem, Take
<1>5. Next
  BY <1>4 DEF Next
<1>6. IInv' /\ TypeOK'
  BY <1>5, StepOfAtt
<1>7. UNCHANGED << pc, req, bytes, peer, awaiting, mtu, disturbed >>
  BY DEF Take
<1>8. asked' \in [Connections -> Seq(Content)] /\ matched' \in BOOLEAN
  <2>1. CASE head.answers = NoRequest
    BY <2>1 DEF Take, SInv, SessionTypeOK
  <2>2. CASE head.answers # NoRequest
    <3> DEFINE c == head.packet.conn
    <3>1. c \in Connections
      BY <1>4, PacketShape
    <3>2. asked[c] # << >> => Tail(asked[c]) \in Seq(Content)
      BY <3>1 DEF SInv, SessionTypeOK
    <3>3. matched' = (asked[c] # << >> /\ Head(asked[c]) = head.answers)
      BY <2>2, Zenon DEF Take
    <3>4. asked' = [asked EXCEPT ![c] = IF @ = << >> THEN @ ELSE Tail(@)]
      BY <2>2 DEF Take
    <3>5. matched' \in BOOLEAN
      BY <3>3, Zenon
    <3>6. QED
      BY <3>1, <3>2, <3>4, <3>5 DEF SInv, SessionTypeOK
  <2>3. QED
    BY <2>1, <2>2
<1>9. SessionTypeOK'
  BY <1>3, <1>4, <1>6, <1>7, <1>8 DEF SInv, SessionTypeOK, AirItem
<1>10. job' = head.packet /\ (step' = "confirm" => Indication(head.packet)) /\ SmallMtu' = SmallMtu
  <2>1. step' = IF ~Accepted(head.packet) THEN "idle"
                ELSE IF Indication(head.packet) THEN "confirm" ELSE Reporting(head.packet)
    BY <1>4 DEF Receive
  <2>2. Reporting(head.packet) # "confirm"
    BY DEF Reporting
  <2>3. QED
    BY <1>4, <1>7, <2>1, <2>2 DEF Receive, SmallMtu
<1>11. AwaitedOnce'
  <2>1. SUFFICES ASSUME SmallMtu', ~disturbed' PROVE AwaitedOnce'
    BY DEF AwaitedOnce
  <2>2. /\ \A k \in DOMAIN air : Indication(air[k].packet) => awaiting[air[k].packet.conn]
        /\ \A j, k \in DOMAIN air :
             (j # k /\ Indication(air[j].packet) /\ Indication(air[k].packet))
               => air[j].packet.conn # air[k].packet.conn
    BY <2>1, <1>7, <1>10 DEF SInv, AwaitedOnce
  <2>3. \A k \in DOMAIN air' : k + 1 \in DOMAIN air /\ k + 1 # 1 /\ air'[k] = air[k + 1]
    BY <1>3, <1>4
  <2>4. \A j, k \in DOMAIN air' : j # k => j + 1 # k + 1
    BY <1>3, <1>4
  <2>5. \A k \in DOMAIN air' : Indication(air'[k].packet) => awaiting'[air'[k].packet.conn]
    BY <2>2, <2>3, <1>7 DEF Indication
  <2>6. \A j, k \in DOMAIN air' :
          (j # k /\ Indication(air'[j].packet) /\ Indication(air'[k].packet))
            => air'[j].packet.conn # air'[k].packet.conn
    BY <2>2, <2>3, <2>4 DEF Indication
  <2>7. step' = "confirm" =>
          /\ awaiting'[job'.conn]
          /\ \A k \in DOMAIN air' : Indication(air'[k].packet) => air'[k].packet.conn # job'.conn
    BY <2>2, <2>3, <1>2, <1>7, <1>10 DEF Indication
  <2>8. QED
    BY <2>5, <2>6, <2>7 DEF AwaitedOnce, Indication
<1>12. QED
  BY <1>5, <1>6, <1>9, <1>11 DEF SInv

-----------------------------------------------------------------------------
\* The confirmation releases the peer, and no other indication of it is on its way.
LEMMA SendConfirmationStep ==
  ASSUME SInv, SendConfirmation
  PROVE  SInv' /\ Next
<1>1. Next
  BY DEF SendConfirmation, Next, Handling
<1>2. IInv' /\ TypeOK'
  BY <1>1, StepOfAtt
<1>3. UNCHANGED << pc, req, bytes, asked, peer, air, matched, mtu >> /\ job' = job /\ step = "confirm"
  BY DEF SendConfirmation, Confirm
<1>4. disturbed' \in BOOLEAN /\ (disturbed => disturbed')
  BY Zenon DEF SendConfirmation, SInv, SessionTypeOK
<1>5. awaiting' \in [Connections -> BOOLEAN]
  BY DEF SendConfirmation, SInv, SessionTypeOK
<1>6. SessionTypeOK'
  BY <1>2, <1>3, <1>4, <1>5 DEF SInv, SessionTypeOK
<1>7. SmallMtu' = SmallMtu /\ step' # "confirm"
  BY <1>3 DEF SmallMtu, SendConfirmation, Confirm, Reporting
<1>8. AwaitedOnce'
  <2>1. SUFFICES ASSUME SmallMtu', ~disturbed' PROVE AwaitedOnce'
    BY DEF AwaitedOnce
  <2>2. /\ \A k \in DOMAIN air :
             Indication(air[k].packet) =>
               awaiting[air[k].packet.conn] /\ air[k].packet.conn # job.conn
        /\ \A j, k \in DOMAIN air :
             (j # k /\ Indication(air[j].packet) /\ Indication(air[k].packet))
               => air[j].packet.conn # air[k].packet.conn
    BY <2>1, <1>3, <1>4, <1>7 DEF SInv, AwaitedOnce
  <2>3. \A d : d # job.conn => awaiting'[d] = awaiting[d]
    BY DEF SendConfirmation, SInv, SessionTypeOK
  <2>4. QED
    BY <2>2, <2>3, <1>3, <1>7 DEF AwaitedOnce, Indication
<1>9. QED
  BY <1>1, <1>2, <1>6, <1>8 DEF SInv

\* The rest of the handling sends nothing.
LEMMA HandleStep ==
  ASSUME SInv, Handle \/ \E on \in BOOLEAN : RegisterHandler(on)
  PROVE  SInv' /\ Next
<1>1. Next /\ UNCHANGED sessionVars
  BY DEF Handle, RegisterHandler, Next, Handling
<1>2. IInv' /\ TypeOK'
  BY <1>1, StepOfAtt
<1>3. SessionTypeOK'
  BY <1>1, <1>2 DEF SInv, SessionTypeOK, sessionVars
<1>4. job' = job /\ (step' = "confirm" => step = "confirm")
  BY DEF Handle, RegisterHandler, Report, NextRecord, EndLoop, Return,
     GATT_register_event_handler, CallBack
<1>5. SmallMtu' = SmallMtu /\ air' = air /\ awaiting' = awaiting /\ disturbed' = disturbed
  BY <1>1 DEF sessionVars, SmallMtu
<1>6. AwaitedOnce'
  BY <1>4, <1>5 DEF SInv, AwaitedOnce, Indication
<1>7. QED
  BY <1>1, <1>2, <1>3, <1>6 DEF SInv

-----------------------------------------------------------------------------
\* What is sent is one packet or two, and one for a small MTU.
LEMMA SendTyped ==
  ASSUME SInv, NEW p \in Packets \intersect AclPacket, NEW answers \in Content, Send(p, answers)
  PROVE  /\ air' \in Seq(AirItem)
         /\ SmallMtu => air' = Append(air, [packet |-> p, answers |-> answers])
<1> DEFINE item == [packet |-> p, answers |-> answers]
<1>1. air \in Seq(AirItem) /\ item \in AirItem
  BY DEF SInv, SessionTypeOK, AirItem
<1>2. p.conn \in Connections /\ p.l2cap \in Nat /\ p.total \in Nat /\ p.l2cap <= mtu[p.conn]
  BY DEF AclPacket, Send
<1>3. SmallMtu => p.l2cap + 4 <= AclSize
  BY <1>2, SessionAssumption DEF SmallMtu, SInv, SessionTypeOK
<1>4. CASE p.l2cap + 4 <= AclSize
  <2>1. p.total = p.l2cap + 4 /\ air' = Append(air, item)
    BY <1>4 DEF Send
  <2>2. QED
    BY <1>1, <2>1
<1>5. CASE ~(p.l2cap + 4 <= AclSize)
  <2>1. PICK rest \in Packets \intersect AclPacket :
          air' = air \o << item, [packet |-> rest, answers |-> NoRequest] >>
    BY <1>5 DEF Send
  <2>2. [packet |-> rest, answers |-> NoRequest] \in AirItem
    BY DEF AirItem, Content
  <2>3. << item, [packet |-> rest, answers |-> NoRequest] >> \in Seq(AirItem)
    BY <1>1, <2>2
  <2>4. QED
    BY <1>1, <1>3, <1>5, <2>1, <2>3
<1>6. QED
  BY <1>4, <1>5

\* A whole packet more, and the flight is as good as before.
LEMMA OneMoreInFlight ==
  ASSUME SInv, UNCHANGED << vars, disturbed >>, SmallMtu' => SmallMtu,
         NEW p \in Packets \intersect AclPacket, NEW answers \in Content, Send(p, answers),
         \A c \in Connections : awaiting[c] => awaiting'[c],
         Indication(p) => ~awaiting[p.conn] /\ awaiting'[p.conn]
  PROVE  AwaitedOnce'
<1> SUFFICES ASSUME SmallMtu' PROVE AwaitedOnce'
  BY DEF AwaitedOnce
<1> DEFINE item == [packet |-> p, answers |-> answers]
<1>1. SmallMtu /\ air' = Append(air, item)
  BY SendTyped
<1>2. air \in Seq(AirItem) /\ item \in AirItem /\ p.conn \in Connections
  BY PacketShape DEF SInv, SessionTypeOK, AirItem
<1>3. /\ DOMAIN air' = DOMAIN air \union {Len(air) + 1} /\ Len(air) + 1 \notin DOMAIN air
      /\ air'[Len(air) + 1] = item
      /\ \A k \in DOMAIN air : air'[k] = air[k] /\ air[k] \in AirItem
  BY <1>1, <1>2
<1>4. job' = job /\ step' = step /\ disturbed' = disturbed /\ item.packet = p
  BY DEF vars
<1>5. \A k \in DOMAIN air : air[k].packet.conn \in Connections
  BY <1>3, PacketShape DEF AirItem
<1>6. AwaitedOnce'
  <2>1. SUFFICES ASSUME ~disturbed' PROVE AwaitedOnce'
    BY DEF AwaitedOnce
  <2>2. /\ \A k \in DOMAIN air : Indication(air[k].packet) => awaiting[air[k].packet.conn]
        /\ \A j, k \in DOMAIN air :
             (j # k /\ Indication(air[j].packet) /\ Indication(air[k].packet))
               => air[j].packet.conn # air[k].packet.conn
        /\ step = "confirm" =>
             /\ awaiting[job.conn]
             /\ \A k \in DOMAIN air : Indication(air[k].packet) => air[k].packet.conn # job.conn
    BY <2>1, <1>1, <1>4 DEF SInv, AwaitedOnce
  <2>3. Indication(p) => \A k \in DOMAIN air : Indication(air[k].packet) => air[k].packet.conn # p.conn
    BY <2>2
  <2>4. \A k \in DOMAIN air' : Indication(air'[k].packet) => awaiting'[air'[k].packet.conn]
    BY <2>2, <1>3, <1>4, <1>5 DEF Indication
  <2>5. \A j, k \in DOMAIN air' :
          (j # k /\ Indication(air'[j].packet) /\ Indication(air'[k].packet))
            => air'[j].packet.conn # air'[k].packet.conn
    BY <2>2, <2>3, <1>3, <1>4 DEF Indication
  <2>6. step' = "confirm" =>
          /\ awaiting'[job'.conn]
          /\ \A k \in DOMAIN air' : Indication(air'[k].packet) => air'[k].packet.conn # job'.conn
    <3>1. job.conn \in Connections
      BY PacketShape DEF SInv, IInv, TypeOK
    <3>2. QED
      BY <2>2, <3>1, <1>3, <1>4 DEF Indication
  <2>7. QED
    BY <2>4, <2>5, <2>6 DEF AwaitedOnce, Indication
<1>7. QED
  BY <1>6

LEMMA MaxOfTwo ==
  ASSUME NEW m \in Nat, NEW n \in Nat
  PROVE  Max({m, n}) \in Nat /\ Max({m, n}) >= m
<1>1. \E x \in {m, n} : \A y \in {m, n} : x >= y
  <2>1. m >= m /\ n >= n /\ (m >= n \/ n >= m)
    OBVIOUS
  <2>2. QED
    BY <2>1
<1>2. Max({m, n}) \in {m, n} /\ \A y \in {m, n} : Max({m, n}) >= y
  BY <1>1 DEF Max
<1>3. QED
  BY <1>2

LEMMA AnswerStep ==
  ASSUME SInv, NEW c \in Connections, Answer(c)
  PROVE  SInv' /\ UNCHANGED vars
<1>1. UNCHANGED << vars, pc, req, bytes, asked, matched, awaiting, disturbed >>
  BY DEF Answer
<1>2. IInv' /\ TypeOK'
  BY <1>1, StepOfAtt
<1>3. PICK p \in Packets \intersect AclPacket :
        /\ p.conn = c /\ p.op \in {AnswerOp(Head(peer[c]).fn), "ERROR_RESPONSE"}
        /\ Send(p, Head(peer[c]))
        /\ mtu' = [mtu EXCEPT ![c] = IF p.op = "EXCHANGE_MTU_RESPONSE"
                                     THEN Max({@, Head(peer[c]).arg}) ELSE @]
  BY DEF Answer
<1>4. Head(peer[c]) \in Content /\ Tail(peer[c]) \in Seq(Content)
  BY DEF Answer, SInv, SessionTypeOK
<1>5. peer' \in [Connections -> Seq(Content)] /\ air' \in Seq(AirItem)
  BY <1>3, <1>4, SendTyped DEF Answer, SInv, SessionTypeOK
<1>6. \A d \in Connections : mtu'[d] \in Nat /\ mtu'[d] >= mtu[d]
  <2>1. mtu[c] \in Nat /\ Head(peer[c]).arg \in Nat
    BY <1>4 DEF SInv, SessionTypeOK, Content, NoRequest
  <2>2. Max({mtu[c], Head(peer[c]).arg}) \in Nat /\ Max({mtu[c], Head(peer[c]).arg}) >= mtu[c]
    BY <2>1, MaxOfTwo
  <2>3. QED
    BY <1>3, <2>1, <2>2 DEF SInv, SessionTypeOK
<1>7. mtu' \in [Connections -> Nat]
  BY <1>3, <1>6 DEF SInv, SessionTypeOK
<1>8. SmallMtu' => SmallMtu
  <2>1. SUFFICES ASSUME SmallMtu', NEW d \in Connections PROVE mtu[d] + 4 <= AclSize
    BY DEF SmallMtu
  <2>2. mtu'[d] + 4 <= AclSize
    BY <2>1 DEF SmallMtu
  <2>3. mtu[d] \in Nat /\ AclSize \in Nat
    BY SessionAssumption DEF SInv, SessionTypeOK
  <2>4. QED
    BY <1>6, <2>2, <2>3
<1>9. ~Indication(p)
  BY <1>3 DEF Indication, AnswerOp
<1>10. SessionTypeOK'
  BY <1>1, <1>2, <1>5, <1>7 DEF SInv, SessionTypeOK, AirItem
<1>11. AwaitedOnce'
  BY <1>1, <1>3, <1>4, <1>8, <1>9, OneMoreInFlight
<1>12. QED
  BY <1>1, <1>2, <1>10, <1>11 DEF SInv

LEMMA TellStep ==
  ASSUME SInv, NEW c \in Connections, Tell(c)
  PROVE  SInv' /\ UNCHANGED vars
<1>1. UNCHANGED << vars, pc, req, bytes, asked, peer, matched, mtu, disturbed >>
  BY DEF Tell
<1>2. IInv' /\ TypeOK'
  BY <1>1, StepOfAtt
<1>3. PICK p \in Packets \intersect AclPacket :
        /\ p.conn = c
        /\ p.op = "HANDLE_VALUE_INDICATION" => ~awaiting[c]
        /\ Send(p, NoRequest)
        /\ awaiting' = [awaiting EXCEPT ![c] = @ \/ p.op = "HANDLE_VALUE_INDICATION"]
  BY DEF Tell
<1>4. NoRequest \in Content
  BY DEF Content
<1>5. air' \in Seq(AirItem)
  BY <1>3, <1>4, SendTyped
<1>6. awaiting' = [awaiting EXCEPT ![c] = (awaiting[c] \/ p.op = "HANDLE_VALUE_INDICATION")]
  BY <1>3
<1>7. (awaiting[c] \/ p.op = "HANDLE_VALUE_INDICATION") \in BOOLEAN
  OBVIOUS
<1>8. awaiting' \in [Connections -> BOOLEAN]
  BY <1>6, <1>7, Zenon DEF SInv, SessionTypeOK
<1>9. \A d \in Connections : awaiting[d] => awaiting'[d]
  BY <1>6 DEF SInv, SessionTypeOK
<1>10. Indication(p) => ~awaiting[p.conn] /\ awaiting'[p.conn]
  BY <1>3, <1>6 DEF Indication, SInv, SessionTypeOK
<1>11. SessionTypeOK'
  BY <1>1, <1>2, <1>5, <1>8 DEF SInv, SessionTypeOK, AirItem
<1>12. SmallMtu' => SmallMtu
  BY <1>1 DEF SmallMtu
<1>13. AwaitedOnce'
  BY <1>1, <1>3, <1>4, <1>9, <1>10, <1>12, OneMoreInFlight
<1>14. QED
  BY <1>1, <1>2, <1>11, <1>13 DEF SInv

-----------------------------------------------------------------------------
LEMMA SessionStepHolds == SInv /\ [SessionNext]_allVars => SInv' /\ [Next]_vars
<1> SUFFICES ASSUME SInv, [SessionNext]_allVars PROVE SInv' /\ [Next]_vars
  OBVIOUS
<1>1. CASE AnyRequest
  BY <1>1, RequestsAreAsked, AskStep
<1>2. CASE Encode \/ TransmitHalf \/ TransmitRest
  BY <1>2, TransmitStep
<1>3. CASE Take
  BY <1>3, TakeStep
<1>4. CASE SendConfirmation
  BY <1>4, SendConfirmationStep
<1>5. CASE Handle \/ \E on \in BOOLEAN : RegisterHandler(on)
  BY <1>5, HandleStep
<1>6. CASE \E c \in Connections : Answer(c) \/ Tell(c)
  BY <1>6, AnswerStep, TellStep
<1>7. CASE UNCHANGED allVars
  <2>1. UNCHANGED vars /\ UNCHANGED << air, awaiting, mtu, disturbed >> /\ UNCHANGED sessionVars
    BY <1>7 DEF allVars, sessionVars
  <2>2. IInv' /\ TypeOK'
    BY <2>1, StepOfAtt
  <2>3. SessionTypeOK'
    BY <2>1, <2>2 DEF SInv, SessionTypeOK, sessionVars
  <2>4. QED
    BY <2>1, <2>2, <2>3, FlightDepends DEF SInv
<1>8. QED
  BY <1>1, <1>2, <1>3, <1>4, <1>5, <1>6, <1>7 DEF SessionNext

\* The invariant holds throughout a session.
THEOREM SessionIsSound == SessionSpec => []SInv
<1>1. QED
  BY SessionInitHolds, SessionStepHolds, PTL DEF SessionSpec

\* Every variable of a session keeps its type.
THEOREM SessionTypeCorrect == SessionSpec => []SessionTypeOK
<1>1. SInv => SessionTypeOK
  BY DEF SInv
<1>2. QED
  BY <1>1, SessionIsSound, PTL

\* A session is a run of GattAtt, whatever the thread and the callback request
\* meanwhile: so what the callback gets is what its packet holds, and every
\* indication is confirmed before it (gatt.c:531-721).
THEOREM SessionIsReception == SessionSpec => Spec
<1>1. SessionInit => Init
  BY DEF SessionInit
<1>2. QED
  BY <1>1, SessionStepHolds, SessionIsSound, PTL DEF SessionSpec, Spec

\* A confirmation that is sent undisturbed goes to a peer that waits for one, and
\* ends its wait: no peer gets two for one indication (gatt.c:664-670).
THEOREM ConfirmationsAreAwaited == SessionSpec => NoStrayConfirmation
<1>1. SInv /\ [SessionNext]_allVars
        => [SendConfirmation => disturbed' \/ ~SmallMtu \/ (awaiting[job.conn] /\ ~awaiting'[job.conn])]_allVars
  <2>1. SUFFICES ASSUME SInv, SendConfirmation, ~disturbed', SmallMtu
                 PROVE  awaiting[job.conn] /\ ~awaiting'[job.conn]
    OBVIOUS
  <2>2. ~disturbed /\ step = "confirm" /\ confirms' = confirms + 1
    BY <2>1, Zenon DEF SendConfirmation, Confirm
  <2>3. awaiting[job.conn]
    BY <2>1, <2>2 DEF SInv, AwaitedOnce
  <2>4. confirms' # confirms /\ job.conn \in Connections
    BY <2>1, <2>2, PacketShape DEF SInv, IInv, TypeOK
  <2>5. awaiting' = [awaiting EXCEPT ![job.conn] = FALSE]
    BY <2>1, <2>4 DEF SendConfirmation
  <2>6. QED
    BY <2>1, <2>3, <2>4, <2>5 DEF SInv, SessionTypeOK
<1>2. QED
  BY <1>1, SessionIsSound, PTL DEF SessionSpec, NoStrayConfirmation

-----------------------------------------------------------------------------
(***************************************************************************)
(* Which answer belongs to which request.  Nothing in a packet says it: an *)
(* application can only count, so what it asked must be, in its order, the *)
(* answers on their way, what the peer has not answered, and the request   *)
(* the thread is in the middle of.                                         *)
(***************************************************************************)

\* The packets of a flight that answer a request of connection c.
Due(flight, c) == {k \in DOMAIN flight : flight[k].packet.conn = c /\ flight[k].answers # NoRequest}

\* The places of those packets, from first to last.
Enumerates(at, n, flight, c) ==
  /\ at \in [1 .. n -> Due(flight, c)]
  /\ \A a, b \in 1 .. n : a < b => at[a] < at[b]
  /\ \A k \in Due(flight, c) : \E a \in 1 .. n : at[a] = k

\* A queue of requests is what a flight answers, followed by the rest.
InOrder(queue, flight, c, rest) ==
  \E n \in Nat : \E at :
    /\ Enumerates(at, n, flight, c)
    /\ Len(queue) = n + Len(rest)
    /\ \A a \in 1 .. n : queue[a] = flight[at[a]].answers
    /\ \A a \in 1 .. Len(rest) : queue[n + a] = rest[a]

\* A request more, at the end.
LEMMA OneMoreAsked ==
  ASSUME NEW S, NEW queue \in Seq(S), NEW rest \in Seq(S), NEW x \in S,
         NEW flight, NEW c, InOrder(queue, flight, c, rest)
  PROVE  InOrder(Append(queue, x), flight, c, Append(rest, x))
<1>1. PICK n, at :
        /\ n \in Nat
        /\ Enumerates(at, n, flight, c)
        /\ Len(queue) = n + Len(rest)
        /\ \A a \in 1 .. n : queue[a] = flight[at[a]].answers
        /\ \A a \in 1 .. Len(rest) : queue[n + a] = rest[a]
  BY DEF InOrder
<1> n \in Nat
  BY <1>1
<1> DEFINE q == Append(queue, x)
           r == Append(rest, x)
<1>2. /\ Len(queue) \in Nat /\ Len(rest) \in Nat
      /\ Len(q) = Len(queue) + 1 /\ Len(r) = Len(rest) + 1
      /\ \A a \in 1 .. Len(queue) : q[a] = queue[a]
      /\ \A a \in 1 .. Len(rest) : r[a] = rest[a]
      /\ q[Len(queue) + 1] = x /\ r[Len(rest) + 1] = x
  BY AppendProperties, LenProperties
<1> HIDE DEF q, r
<1>3. \A a \in 1 .. n : q[a] = flight[at[a]].answers
  BY <1>1, <1>2
<1>4. ASSUME NEW a \in 1 .. Len(r)
      PROVE  q[n + a] = r[a]
  <2>1. CASE a = Len(rest) + 1
    BY <1>1, <1>2, <2>1
  <2>2. CASE a # Len(rest) + 1
    <3>1. a \in 1 .. Len(rest) /\ n + a \in 1 .. Len(queue)
      BY <1>1, <1>2, <1>4, <2>2
    <3>2. QED
      BY <1>1, <1>2, <3>1
  <2>3. QED
    BY <2>1, <2>2
<1>5. Len(q) = n + Len(r)
  BY <1>1, <1>2
<1>6. InOrder(q, flight, c, r)
  BY <1>1, <1>3, <1>4, <1>5 DEF InOrder
<1>7. QED
  BY <1>6 DEF q, r

\* A packet that answers the first of the rest, at the end of the flight.
LEMMA OneMoreAnswered ==
  ASSUME NEW S, NEW queue \in Seq(S), NEW rest \in Seq(S), rest # << >>,
         NEW flight \in Seq(AirItem), NEW new, NEW c, InOrder(queue, flight, c, rest),
         Due(new, c) = Due(flight, c) \union {Len(flight) + 1},
         \A k \in Due(flight, c) : new[k].answers = flight[k].answers,
         new[Len(flight) + 1].answers = Head(rest)
  PROVE  InOrder(queue, new, c, Tail(rest))
<1>1. PICK n, at :
        /\ n \in Nat
        /\ Enumerates(at, n, flight, c)
        /\ Len(queue) = n + Len(rest)
        /\ \A a \in 1 .. n : queue[a] = flight[at[a]].answers
        /\ \A a \in 1 .. Len(rest) : queue[n + a] = rest[a]
  BY DEF InOrder
<1> n \in Nat
  BY <1>1
<1> DEFINE last == Len(flight) + 1
           to == [a \in 1 .. n + 1 |-> IF a = n + 1 THEN last ELSE at[a]]
           r == Tail(rest)
<1>2. /\ Len(rest) \in Nat \ {0} /\ Len(r) = Len(rest) - 1 /\ Head(rest) = rest[1]
      /\ \A a \in 1 .. Len(r) : r[a] = rest[a + 1]
  BY EmptySeq, LenProperties, HeadTailProperties
<1>3. last \in Nat /\ \A k \in Due(flight, c) : k \in Nat /\ k < last
  BY LenProperties DEF Due
<1>4. \A a \in 1 .. n : at[a] \in Due(flight, c) /\ a # n + 1 /\ a \in 1 .. n + 1
  BY <1>1 DEF Enumerates
<1>5. /\ to[n + 1] = last /\ DOMAIN to = 1 .. n + 1
      /\ \A a \in 1 .. n : to[a] = at[a]
      /\ to = [a \in DOMAIN to |-> to[a]]
  BY <1>4
<1>6. \A a \in 1 .. n + 1 : a = n + 1 \/ a \in 1 .. n
  OBVIOUS
<1> HIDE DEF last, to, r
<1>7. Enumerates(to, n + 1, new, c)
  <2>1. to \in [1 .. n + 1 -> Due(new, c)]
    <3>1. ASSUME NEW a \in 1 .. n + 1
          PROVE  to[a] \in Due(new, c)
      <4>1. CASE a = n + 1
        BY <1>5, <4>1 DEF last
      <4>2. CASE a \in 1 .. n
        BY <1>4, <1>5, <4>2
      <4>3. QED
        BY <1>6, <4>1, <4>2
    <3>2. QED
      BY <1>5, <3>1
  <2>2. ASSUME NEW a \in 1 .. n + 1, NEW b \in 1 .. n + 1, a < b
        PROVE  to[a] < to[b]
    <3>1. a \in 1 .. n
      BY <2>2
    <3>2. CASE b = n + 1
      BY <1>3, <1>4, <1>5, <3>1, <3>2
    <3>3. CASE b \in 1 .. n
      BY <1>1, <1>5, <2>2, <3>1, <3>3 DEF Enumerates
    <3>4. QED
      BY <1>6, <3>2, <3>3
  <2>3. ASSUME NEW k \in Due(new, c)
        PROVE  \E a \in 1 .. n + 1 : to[a] = k
    <3>1. CASE k = last
      BY <1>5, <3>1
    <3>2. CASE k \in Due(flight, c)
      BY <1>1, <1>4, <1>5, <3>2 DEF Enumerates
    <3>3. QED
      BY <3>1, <3>2 DEF last
  <2>4. QED
    BY <2>1, <2>2, <2>3 DEF Enumerates
<1>8. ASSUME NEW a \in 1 .. n + 1
      PROVE  queue[a] = new[to[a]].answers
  <2>1. CASE a = n + 1
    <3>1. 1 \in 1 .. Len(rest)
      BY <1>2
    <3>2. queue[n + 1] = rest[1]
      BY <1>1, <3>1
    <3>3. new[last].answers = rest[1]
      BY <1>2 DEF last
    <3>4. QED
      BY <1>5, <2>1, <3>2, <3>3
  <2>2. CASE a \in 1 .. n
    <3>1. to[a] = at[a] /\ at[a] \in Due(flight, c)
      BY <1>4, <1>5, <2>2
    <3>2. QED
      BY <1>1, <2>2, <3>1
  <2>3. QED
    BY <1>6, <2>1, <2>2
<1>9. ASSUME NEW a \in 1 .. Len(r)
      PROVE  queue[n + 1 + a] = r[a]
  <2>1. a + 1 \in 1 .. Len(rest) /\ n + 1 + a = n + (a + 1)
    BY <1>2
  <2>2. QED
    BY <1>1, <1>2, <2>1
<1>10. Len(queue) = n + 1 + Len(r) /\ n + 1 \in Nat
  BY <1>1, <1>2
<1>11. InOrder(queue, new, c, r)
  BY <1>7, <1>8, <1>9, <1>10 DEF InOrder
<1>12. QED
  BY <1>11 DEF r

\* Packets that answer nothing of the connection do not matter.
LEMMA SameAnswers ==
  ASSUME NEW queue, NEW rest, NEW flight, NEW new, NEW c, InOrder(queue, flight, c, rest),
         Due(new, c) = Due(flight, c),
         \A k \in Due(flight, c) : new[k].answers = flight[k].answers
  PROVE  InOrder(queue, new, c, rest)
<1>1. PICK n, at :
        /\ n \in Nat
        /\ Enumerates(at, n, flight, c)
        /\ Len(queue) = n + Len(rest)
        /\ \A a \in 1 .. n : queue[a] = flight[at[a]].answers
        /\ \A a \in 1 .. Len(rest) : queue[n + a] = rest[a]
  BY DEF InOrder
<1> n \in Nat
  BY <1>1
<1>2. Enumerates(at, n, new, c)
  BY <1>1 DEF Enumerates
<1>3. \A a \in 1 .. n : queue[a] = new[at[a]].answers
  BY <1>1 DEF Enumerates
<1>4. QED
  BY <1>1, <1>2, <1>3 DEF InOrder

LEMMA DueBehind ==
  ASSUME NEW flight \in Seq(AirItem), flight # << >>, NEW c
  PROVE  /\ \A k \in Due(flight, c) : k \in Nat \ {0}
         /\ \A k \in Due(Tail(flight), c) : k \in Nat \ {0} /\ k + 1 \in Due(flight, c)
         /\ \A k \in Due(flight, c) :
              k # 1 => k - 1 \in Due(Tail(flight), c) /\ Tail(flight)[k - 1] = flight[k]
<1> DEFINE t == Tail(flight)
           n == Len(flight)
<1>1. /\ n \in Nat \ {0} /\ DOMAIN flight = 1 .. n
      /\ DOMAIN t = 1 .. n - 1
      /\ \A k \in 1 .. n - 1 : t[k] = flight[k + 1]
  BY EmptySeq, LenProperties, HeadTailProperties
<1> HIDE DEF t, n
<1>2. ASSUME NEW k \in Due(t, c)
      PROVE  k \in Nat \ {0} /\ k + 1 \in Due(flight, c)
  <2>1. k \in 1 .. n - 1 /\ k + 1 \in 1 .. n
    BY <1>1 DEF Due
  <2>2. QED
    BY <1>1, <2>1 DEF Due
<1>3. ASSUME NEW k \in Due(flight, c), k # 1
      PROVE  k - 1 \in Due(t, c) /\ t[k - 1] = flight[k]
  <2>1. k \in 1 .. n /\ k - 1 \in 1 .. n - 1 /\ (k - 1) + 1 = k
    BY <1>1, <1>3 DEF Due
  <2>2. QED
    BY <1>1, <2>1 DEF Due
<1>4. QED
  BY <1>1, <1>2, <1>3 DEF t, Due

\* The packet at the head of the flight answers nothing of the connection.
LEMMA NothingAnswered ==
  ASSUME NEW queue, NEW rest, NEW flight \in Seq(AirItem), flight # << >>, NEW c,
         1 \notin Due(flight, c), InOrder(queue, flight, c, rest)
  PROVE  InOrder(queue, Tail(flight), c, rest)
<1>1. PICK n, at :
        /\ n \in Nat
        /\ Enumerates(at, n, flight, c)
        /\ Len(queue) = n + Len(rest)
        /\ \A a \in 1 .. n : queue[a] = flight[at[a]].answers
        /\ \A a \in 1 .. Len(rest) : queue[n + a] = rest[a]
  BY DEF InOrder
<1> n \in Nat
  BY <1>1
<1> DEFINE t == Tail(flight)
           to == [a \in 1 .. n |-> at[a] - 1]
<1>2. /\ \A k \in Due(flight, c) : k \in Nat \ {0} /\ k - 1 \in Due(t, c) /\ t[k - 1] = flight[k]
      /\ \A k \in Due(t, c) : k \in Nat \ {0} /\ k + 1 \in Due(flight, c)
  BY DueBehind
<1>3. /\ \A a \in 1 .. n : at[a] \in Due(flight, c)
      /\ \A a, b \in 1 .. n : a < b => at[a] < at[b]
      /\ \A k \in Due(flight, c) : \E a \in 1 .. n : at[a] = k
  BY <1>1 DEF Enumerates
<1>4. \A a \in 1 .. n : to[a] = at[a] - 1
  OBVIOUS
<1>5. to \in [1 .. n -> Due(t, c)]
  BY <1>2, <1>3
<1> HIDE DEF t, to
<1>6. Enumerates(to, n, t, c)
  <2>1. ASSUME NEW a \in 1 .. n, NEW b \in 1 .. n, a < b
        PROVE  to[a] < to[b]
    <3>1. at[a] < at[b] /\ at[a] \in Nat /\ at[b] \in Nat
      BY <1>2, <1>3, <2>1
    <3>2. QED
      BY <1>4, <3>1
  <2>2. ASSUME NEW k \in Due(t, c)
        PROVE  \E a \in 1 .. n : to[a] = k
    <3>1. PICK a \in 1 .. n : at[a] = k + 1
      BY <1>2, <1>3
    <3>2. to[a] = k + 1 - 1 /\ k \in Nat
      BY <1>2, <1>4, <3>1
    <3>3. QED
      BY <3>2
  <2>3. QED
    BY <1>5, <2>1, <2>2 DEF Enumerates
<1>7. ASSUME NEW a \in 1 .. n
      PROVE  queue[a] = t[to[a]].answers
  <2>1. t[to[a]] = flight[at[a]]
    BY <1>2, <1>3, <1>4
  <2>2. QED
    BY <1>1, <2>1
<1>8. InOrder(queue, t, c, rest)
  BY <1>1, <1>6, <1>7 DEF InOrder
<1>9. QED
  BY <1>8 DEF t

\* The packet at the head answers a request of the connection: its oldest.
LEMMA OldestAnswered ==
  ASSUME NEW S, NEW queue \in Seq(S), NEW rest \in Seq(S), NEW flight \in Seq(AirItem),
         flight # << >>, NEW c, 1 \in Due(flight, c), InOrder(queue, flight, c, rest)
  PROVE  /\ queue # << >> /\ Head(queue) = flight[1].answers
         /\ InOrder(Tail(queue), Tail(flight), c, rest)
<1>1. PICK n, at :
        /\ n \in Nat
        /\ Enumerates(at, n, flight, c)
        /\ Len(queue) = n + Len(rest)
        /\ \A a \in 1 .. n : queue[a] = flight[at[a]].answers
        /\ \A a \in 1 .. Len(rest) : queue[n + a] = rest[a]
  BY DEF InOrder
<1> n \in Nat
  BY <1>1
<1> DEFINE t == Tail(flight)
           q == Tail(queue)
           to == [a \in 1 .. n - 1 |-> at[a + 1] - 1]
<1>2. /\ \A k \in Due(flight, c) : k \in Nat \ {0}
      /\ \A k \in Due(flight, c) : k # 1 => k - 1 \in Due(t, c) /\ t[k - 1] = flight[k]
      /\ \A k \in Due(t, c) : k \in Nat \ {0} /\ k + 1 \in Due(flight, c)
  BY DueBehind
<1>3. /\ \A a \in 1 .. n : at[a] \in Due(flight, c)
      /\ \A a, b \in 1 .. n : a < b => at[a] < at[b]
      /\ \A k \in Due(flight, c) : \E a \in 1 .. n : at[a] = k
  BY <1>1 DEF Enumerates
<1>4. 1 \in 1 .. n /\ at[1] = 1
  <2>1. PICK a \in 1 .. n : at[a] = 1
    BY <1>3
  <2>2. 1 \in 1 .. n /\ (a = 1 \/ 1 < a)
    BY <2>1
  <2>3. at[1] \in Nat \ {0} /\ (1 < a => at[1] < at[a])
    BY <1>2, <1>3, <2>2
  <2>4. QED
    BY <2>1, <2>2, <2>3
<1>5. ASSUME NEW a \in 1 .. n - 1
      PROVE  a + 1 \in 1 .. n /\ at[a + 1] \in Due(flight, c) /\ at[a + 1] # 1
  <2>1. a + 1 \in 1 .. n /\ 1 < a + 1
    BY <1>5
  <2>2. at[1] < at[a + 1] /\ at[a + 1] \in Due(flight, c)
    BY <1>3, <1>4, <2>1
  <2>3. QED
    BY <1>2, <1>4, <2>1, <2>2
<1>6. /\ \A a \in 1 .. n - 1 : to[a] = at[a + 1] - 1
      /\ to \in [1 .. n - 1 -> Due(t, c)]
  BY <1>2, <1>5
<1>7. /\ Len(rest) \in Nat /\ Len(queue) \in Nat /\ queue # << >> /\ Head(queue) = queue[1]
      /\ Len(q) = Len(queue) - 1
      /\ \A a \in 1 .. Len(q) : q[a] = queue[a + 1]
  <2>1. Len(rest) \in Nat /\ Len(queue) \in Nat /\ Len(queue) # 0
    BY <1>1, <1>4, LenProperties
  <2>2. queue # << >>
    BY <2>1, EmptySeq
  <2>3. QED
    BY <2>1, <2>2, HeadTailProperties
<1> HIDE DEF t, q, to
<1>8. Enumerates(to, n - 1, t, c)
  <2>1. ASSUME NEW a \in 1 .. n - 1, NEW b \in 1 .. n - 1, a < b
        PROVE  to[a] < to[b]
    <3>1. a + 1 < b + 1
      BY <2>1
    <3>2. at[a + 1] < at[b + 1] /\ at[a + 1] \in Nat /\ at[b + 1] \in Nat
      BY <1>2, <1>3, <1>5, <3>1
    <3>3. QED
      BY <1>6, <3>2
  <2>2. ASSUME NEW k \in Due(t, c)
        PROVE  \E a \in 1 .. n - 1 : to[a] = k
    <3>1. PICK a \in 1 .. n : at[a] = k + 1
      BY <1>2, <1>3
    <3>2. a # 1 /\ k \in Nat \ {0}
      BY <1>2, <1>4, <3>1
    <3>3. a - 1 \in 1 .. n - 1 /\ (a - 1) + 1 = a
      BY <3>1, <3>2
    <3>4. to[a - 1] = k
      BY <1>6, <3>1, <3>2, <3>3
    <3>5. QED
      BY <3>3, <3>4
  <2>3. QED
    BY <1>6, <2>1, <2>2 DEF Enumerates
<1>9. ASSUME NEW a \in 1 .. n - 1
      PROVE  q[a] = t[to[a]].answers
  <2>1. t[to[a]] = flight[at[a + 1]]
    BY <1>2, <1>5, <1>6
  <2>2. q[a] = queue[a + 1]
    BY <1>1, <1>7
  <2>3. queue[a + 1] = flight[at[a + 1]].answers
    BY <1>1, <1>5
  <2>4. QED
    BY <2>1, <2>2, <2>3
<1>10. ASSUME NEW a \in 1 .. Len(rest)
       PROVE  q[n - 1 + a] = rest[a]
  <2>1. n - 1 + a \in 1 .. Len(q) /\ (n - 1 + a) + 1 = n + a
    BY <1>1, <1>4, <1>7
  <2>2. QED
    BY <1>1, <1>7, <2>1
<1>11. n - 1 \in Nat /\ Len(q) = n - 1 + Len(rest)
  BY <1>1, <1>4, <1>7
<1>12. InOrder(q, t, c, rest)
  BY <1>8, <1>9, <1>10, <1>11 DEF InOrder
<1>13. Head(queue) = flight[1].answers
  BY <1>1, <1>4, <1>7
<1>14. QED
  BY <1>7, <1>12, <1>13 DEF q, t

-----------------------------------------------------------------------------
\* What is asked of a connection and on the way to its peer.
Sending(c) == IF pc # "idle" /\ req.conn = c /\ Answered(req) THEN << bytes >> ELSE << >>

Unanswered(c) == peer[c] \o Sending(c)

Question == [fn : Function, arg : Nat]

\* While no request is disturbed the thread sends what it was asked to, and the
\* answers of each connection come in the order of its requests.
OrderInv ==
  /\ asked \in [Connections -> Seq(Question)]
  /\ ~disturbed =>
       /\ matched
       /\ pc # "idle" => req \in Request /\ bytes = ContentOf(req)
       /\ \A c \in Connections : InOrder(asked[c], air, c, Unanswered(c))

LEMMA Concatenation ==
  ASSUME NEW S, NEW s \in Seq(S), NEW x \in S
  PROVE  /\ s \o << >> = s
         /\ s \o << x >> = Append(s, x)
         /\ << x >> \in Seq(S) /\ << >> \in Seq(S)
OBVIOUS

LEMMA FirstOfTwo ==
  ASSUME NEW S, NEW s \in Seq(S), NEW t \in Seq(S), s # << >>
  PROVE  /\ s \o t \in Seq(S) /\ s \o t # << >>
         /\ Head(s \o t) = Head(s) /\ Tail(s \o t) = Tail(s) \o t
<1>1. /\ s \o t \in Seq(S) /\ Len(s \o t) = Len(s) + Len(t)
      /\ Len(s) \in Nat \ {0} /\ Len(t) \in Nat
      /\ \A k \in 1 .. Len(s) + Len(t) : (s \o t)[k] = IF k <= Len(s) THEN s[k] ELSE t[k - Len(s)]
  BY EmptySeq, LenProperties, ConcatProperties
<1>2. s \o t # << >>
  BY <1>1, EmptySeq
<1>3. Head(s) = s[1] /\ Head(s \o t) = (s \o t)[1]
  OBVIOUS
<1>4. Head(s \o t) = Head(s)
  BY <1>1, <1>3
<1>5. /\ Tail(s) \in Seq(S) /\ Len(Tail(s)) = Len(s) - 1
      /\ \A k \in 1 .. Len(s) - 1 : Tail(s)[k] = s[k + 1]
      /\ Tail(s \o t) \in Seq(S) /\ Len(Tail(s \o t)) = Len(s) + Len(t) - 1
      /\ \A k \in 1 .. Len(s) + Len(t) - 1 : Tail(s \o t)[k] = (s \o t)[k + 1]
  BY <1>1, <1>2, HeadTailProperties
<1> DEFINE u == Tail(s) \o t
<1>6. /\ u \in Seq(S) /\ Len(u) = Len(s) - 1 + Len(t)
      /\ \A k \in 1 .. Len(s) - 1 + Len(t) :
           u[k] = IF k <= Len(s) - 1 THEN Tail(s)[k] ELSE t[k - (Len(s) - 1)]
  BY <1>1, <1>5, ConcatProperties
<1> HIDE DEF u
<1>7. ASSUME NEW k \in 1 .. Len(u)
      PROVE  Tail(s \o t)[k] = u[k]
  <2>1. k + 1 \in 1 .. Len(s) + Len(t) /\ k \in 1 .. Len(s) + Len(t) - 1
    BY <1>1, <1>6
  <2>2. CASE k <= Len(s) - 1
    BY <1>1, <1>5, <1>6, <2>1, <2>2
  <2>3. CASE ~(k <= Len(s) - 1)
    <3>1. k + 1 - Len(s) = k - (Len(s) - 1) /\ ~(k + 1 <= Len(s))
      BY <1>1, <2>3
    <3>2. QED
      BY <1>1, <1>5, <1>6, <2>1, <2>3, <3>1
  <2>4. QED
    BY <2>2, <2>3
<1>8. Len(Tail(s \o t)) = Len(u)
  BY <1>1, <1>5, <1>6
<1>9. Tail(s \o t) = u
  BY <1>5, <1>6, <1>7, <1>8, SeqEqual
<1>10. QED
  BY <1>1, <1>2, <1>4, <1>9 DEF u

LEMMA QuestionIsContent ==
  /\ Question \subseteq Content
  /\ \A q \in Question : q # NoRequest
  /\ \A r \in Request : ContentOf(r) \in Question /\ (Answered(ContentOf(r)) <=> Answered(r))
<1>1. "none" \notin Function
  BY DEF Function
<1>2. QED
  BY <1>1 DEF Question, Content, NoRequest, Request, ContentOf, Answered

LEMMA SessionSequences ==
  ASSUME SInv, NEW c \in Connections
  PROVE  /\ asked[c] \in Seq(Content) /\ peer[c] \in Seq(Content)
         /\ Sending(c) \in Seq(Content) /\ Unanswered(c) \in Seq(Content)
         /\ air \in Seq(AirItem)
<1>1. /\ asked[c] \in Seq(Content) /\ peer[c] \in Seq(Content) /\ bytes \in Content
      /\ air \in Seq(AirItem)
  BY DEF SInv, SessionTypeOK, AirItem
<1>2. Sending(c) \in Seq(Content)
  BY <1>1 DEF Sending
<1>3. QED
  BY <1>1, <1>2 DEF Unanswered

\* What the first of the rest is has been asked.
LEMMA RestWasAsked ==
  ASSUME NEW S, NEW queue \in Seq(S), NEW rest \in Seq(Content), rest # << >>,
         NEW flight, NEW c, InOrder(queue, flight, c, rest)
  PROVE  Head(rest) \in S
<1>1. PICK n \in Nat :
        /\ Len(queue) = n + Len(rest)
        /\ \A a \in 1 .. Len(rest) : queue[n + a] = rest[a]
  BY DEF InOrder
<1>2. Len(rest) \in Nat \ {0} /\ Head(rest) = rest[1]
  BY EmptySeq, LenProperties, HeadTailProperties
<1>3. 1 \in 1 .. Len(rest) /\ n + 1 \in 1 .. Len(queue)
  BY <1>1, <1>2
<1>4. queue[n + 1] \in S
  BY <1>3, ElementOfSeq
<1>5. QED
  BY <1>1, <1>2, <1>3, <1>4

LEMMA OrderInit == SessionInit => OrderInv
<1> SUFFICES ASSUME SessionInit PROVE OrderInv
  OBVIOUS
<1>1. /\ asked = [c \in Connections |-> << >>] /\ peer = [c \in Connections |-> << >>]
      /\ air = << >> /\ pc = "idle" /\ matched = TRUE
  BY DEF SessionInit
<1>2. asked \in [Connections -> Seq(Question)]
  BY <1>1
<1>3. ASSUME NEW c \in Connections
      PROVE  InOrder(asked[c], air, c, Unanswered(c))
  <2>1. asked[c] = << >> /\ Unanswered(c) = << >> /\ Len(asked[c]) = 0
    BY <1>1 DEF Unanswered, Sending
  <2>2. Due(air, c) = {}
    BY <1>1 DEF Due
  <2>3. Enumerates([a \in 1 .. 0 |-> 1], 0, air, c)
    BY <2>2 DEF Enumerates
  <2>4. 0 \in Nat /\ 1 .. 0 = {} /\ Len(<< >>) = 0
    OBVIOUS
  <2>5. QED
    BY <2>1, <2>3, <2>4 DEF InOrder
<1>4. QED
  BY <1>1, <1>2, <1>3 DEF OrderInv

\* Steps that neither ask nor answer keep the order.
LEMMA OrderAside ==
  ASSUME OrderInv, UNCHANGED << asked, peer, air, req, bytes, matched >>, disturbed => disturbed',
         pc' = pc \/ (pc # "idle" /\ pc' # "idle")
  PROVE  OrderInv'
<1>1. \A c : Sending(c)' = Sending(c)
  BY DEF Sending, Answered
<1>2. \A c : Unanswered(c)' = Unanswered(c)
  BY <1>1 DEF Unanswered
<1>3. ASSUME ~disturbed', NEW c \in Connections
      PROVE  InOrder(asked'[c], air', c, Unanswered(c)')
  BY <1>2, <1>3 DEF OrderInv
<1>4. ASSUME ~disturbed'
      PROVE  matched' /\ (pc' # "idle" => req' \in Request /\ bytes' = ContentOf(req)')
  BY <1>4 DEF OrderInv, ContentOf
<1>5. QED
  BY <1>3, <1>4 DEF OrderInv, InOrder, Enumerates, Due, NoRequest

\* The thread asks: what it asked last is what it is sending.
LEMMA OrderThreadAsks ==
  ASSUME SInv, OrderInv, NEW r \in Request, Ask(r), step = "idle", pc = "idle"
  PROVE  OrderInv'
<1>1. /\ pc' = "filled" /\ req' = r /\ bytes' = ContentOf(r)
      /\ UNCHANGED << peer, disturbed, air, matched >>
  BY DEF Ask
<1>2. ContentOf(r) \in Question /\ ContentOf(r) \in Content /\ r.conn \in Connections
  BY QuestionIsContent DEF Request
<1>3. asked' = IF Answered(r) THEN [asked EXCEPT ![r.conn] = Append(@, ContentOf(r))] ELSE asked
  BY DEF Ask
<1>4. asked' \in [Connections -> Seq(Question)]
  BY <1>2, <1>3 DEF OrderInv
<1>5. ASSUME ~disturbed', NEW c \in Connections
      PROVE  InOrder(asked'[c], air', c, Unanswered(c)')
  <2>1. InOrder(asked[c], air, c, peer[c]) /\ asked[c] \in Seq(Content) /\ peer[c] \in Seq(Content)
    <3>1. Unanswered(c) = peer[c] /\ peer[c] \in Seq(Content) /\ asked[c] \in Seq(Content)
      BY SessionSequences, Concatenation DEF Unanswered, Sending
    <3>2. QED
      BY <1>1, <1>5, <3>1 DEF OrderInv
  <2>2. CASE c = r.conn /\ Answered(r)
    <3>1. asked'[c] = Append(asked[c], ContentOf(r))
      BY <1>2, <1>3, <2>2 DEF OrderInv
    <3>2. Unanswered(c)' = Append(peer[c], ContentOf(r))
      BY <1>1, <1>2, <2>1, <2>2, Concatenation DEF Unanswered, Sending, Answered
    <3>3. QED
      BY <1>1, <1>2, <2>1, <3>1, <3>2, OneMoreAsked
  <2>3. CASE ~(c = r.conn /\ Answered(r))
    <3>1. asked'[c] = asked[c]
      BY <1>2, <1>3, <2>3 DEF OrderInv
    <3>2. Sending(c)' = << >> /\ peer[c] \o << >> = peer[c]
      BY <1>1, <2>1, <2>3, Concatenation DEF Sending, Answered
    <3>3. Unanswered(c)' = peer[c]
      BY <1>1, <3>2 DEF Unanswered
    <3>4. QED
      BY <1>1, <2>1, <3>1, <3>3
  <2>4. QED
    BY <2>2, <2>3
<1>6. ~disturbed' => matched' /\ bytes' = ContentOf(req)'
  BY <1>1 DEF OrderInv, ContentOf
<1>7. QED
  BY <1>1, <1>4, <1>5, <1>6 DEF OrderInv, InOrder, Enumerates, Due, NoRequest

\* The callback asks, and its request is transmitted at once: without harm only
\* if the thread is not sending one to the same peer.
LEMMA OrderCallbackAsks ==
  ASSUME SInv, OrderInv, NEW r \in Request, Ask(r), step = "callback"
  PROVE  OrderInv'
<1>1. /\ UNCHANGED << pc, req, air, matched >>
      /\ bytes' = IF SamePacket(r) THEN ContentOf(r) ELSE bytes
      /\ disturbed' = (disturbed \/ Harms(r))
      /\ Arrives(r.conn, ContentOf(r))
  BY DEF Ask
<1>2. /\ ContentOf(r) \in Question /\ ContentOf(r) \in Content /\ r.conn \in Connections
      /\ Answered(ContentOf(r)) <=> Answered(r)
  BY QuestionIsContent DEF Request
<1>3. asked' = IF Answered(r) THEN [asked EXCEPT ![r.conn] = Append(@, ContentOf(r))] ELSE asked
  BY DEF Ask
<1>4. asked' \in [Connections -> Seq(Question)]
  BY <1>2, <1>3 DEF OrderInv
<1>5. SUFFICES ASSUME ~disturbed'
               PROVE  OrderInv'
  BY <1>4 DEF OrderInv
<1>6. ~disturbed /\ ~Harms(r)
  BY <1>1, <1>5
<1>7. /\ matched /\ (pc # "idle" => req \in Request /\ bytes = ContentOf(req))
      /\ \A c \in Connections : InOrder(asked[c], air, c, Unanswered(c))
  BY <1>6 DEF OrderInv
<1>8. bytes' = bytes
  <2>1. SamePacket(r) => pc = "filled" /\ r.fn = req.fn /\ r.arg = req.arg
    BY <1>6 DEF SamePacket, Harms
  <2>2. SamePacket(r) => ContentOf(r) = bytes
    BY <1>7, <2>1 DEF ContentOf
  <2>3. QED
    BY <1>1, <2>2
<1>9. peer' = IF Answered(r) THEN [peer EXCEPT ![r.conn] = Append(@, ContentOf(r))] ELSE peer
  BY <1>1, <1>2, <1>5 DEF Arrives
<1>10. ASSUME NEW c \in Connections
       PROVE  InOrder(asked'[c], air', c, Unanswered(c)')
  <2>1. Sending(c)' = Sending(c)
    BY <1>1, <1>8 DEF Sending, Answered
  <2>2. asked[c] \in Seq(Content) /\ peer[c] \in Seq(Content) /\ InOrder(asked[c], air, c, Unanswered(c))
    BY <1>7, SessionSequences
  <2>3. CASE c = r.conn /\ Answered(r)
    <3>1. Sending(c) = << >>
      <4>1. pc \in {"idle", "filled", "encoded", "half"}
        BY DEF SInv, SessionTypeOK
      <4>2. pc # "idle" => ~(req.conn = c /\ Answered(req))
        BY <1>6, <2>3, <4>1 DEF Harms
      <4>3. QED
        BY <4>2 DEF Sending
    <3>2. Unanswered(c) = peer[c]
      BY <2>2, <3>1, Concatenation DEF Unanswered
    <3>3. /\ asked'[c] = Append(asked[c], ContentOf(r))
          /\ peer'[c] = Append(peer[c], ContentOf(r))
      BY <1>2, <1>3, <1>9, <2>3 DEF OrderInv, SInv, SessionTypeOK
    <3>4. Unanswered(c)' = Append(peer[c], ContentOf(r))
      <4>1. Append(peer[c], ContentOf(r)) \in Seq(Content)
        BY <1>2, <2>2, AppendProperties
      <4>2. QED
        BY <2>1, <3>1, <3>3, <4>1, Concatenation DEF Unanswered
    <3>5. QED
      BY <1>1, <1>2, <2>2, <3>2, <3>3, <3>4, OneMoreAsked
  <2>4. CASE ~(c = r.conn /\ Answered(r))
    <3>1. asked'[c] = asked[c] /\ peer'[c] = peer[c]
      BY <1>2, <1>3, <1>9, <2>4 DEF OrderInv, SInv, SessionTypeOK
    <3>2. Unanswered(c)' = Unanswered(c)
      BY <2>1, <3>1 DEF Unanswered
    <3>3. QED
      BY <1>1, <2>2, <3>1, <3>2
  <2>5. QED
    BY <2>3, <2>4
<1>11. matched' /\ (pc' # "idle" => req' \in Request /\ bytes' = ContentOf(req)')
  BY <1>1, <1>7, <1>8 DEF ContentOf
<1>12. QED
  BY <1>4, <1>10, <1>11 DEF OrderInv, InOrder, Enumerates, Due, NoRequest

\* What the thread was sending is at the peer.
LEMMA OrderTransmitted ==
  ASSUME SInv, OrderInv, TransmitRest
  PROVE  OrderInv'
<1>1. /\ pc = "half" /\ pc' = "idle" /\ UNCHANGED << disturbed, asked, air, matched >>
      /\ Arrives(req.conn, bytes)
  BY DEF TransmitRest
<1>2. asked' \in [Connections -> Seq(Question)]
  BY <1>1 DEF OrderInv
<1>3. SUFFICES ASSUME ~disturbed
               PROVE  OrderInv'
  BY <1>1, <1>2 DEF OrderInv
<1>4. /\ matched /\ req \in Request /\ bytes = ContentOf(req)
      /\ \A c \in Connections : InOrder(asked[c], air, c, Unanswered(c))
  BY <1>1, <1>3 DEF OrderInv
<1>5. bytes \in Content /\ req.conn \in Connections /\ (Answered(bytes) <=> Answered(req))
  BY <1>4, QuestionIsContent DEF Request
<1>6. peer' = IF Answered(req) THEN [peer EXCEPT ![req.conn] = Append(@, bytes)] ELSE peer
  BY <1>1, <1>3, <1>5 DEF Arrives
<1>7. ASSUME NEW c \in Connections
      PROVE  InOrder(asked'[c], air', c, Unanswered(c)')
  <2>1. peer[c] \in Seq(Content)
    BY SessionSequences
  <2>2. peer'[c] = peer[c] \o Sending(c) /\ peer'[c] \in Seq(Content)
    <3>1. CASE req.conn = c /\ Answered(req)
      <4>1. peer'[c] = Append(peer[c], bytes) /\ Sending(c) = << bytes >>
        BY <1>1, <1>5, <1>6, <3>1 DEF Sending, SInv, SessionTypeOK
      <4>2. QED
        BY <1>5, <2>1, <4>1, Concatenation, AppendProperties
    <3>2. CASE ~(req.conn = c /\ Answered(req))
      <4>1. peer'[c] = peer[c] /\ Sending(c) = << >>
        BY <1>1, <1>5, <1>6, <3>2 DEF Sending, SInv, SessionTypeOK
      <4>2. QED
        BY <2>1, <4>1, Concatenation
    <3>3. QED
      BY <3>1, <3>2
  <2>3. Sending(c)' = << >>
    BY <1>1 DEF Sending
  <2>4. Unanswered(c)' = Unanswered(c)
    BY <2>2, <2>3, Concatenation DEF Unanswered
  <2>5. QED
    BY <1>1, <1>4, <2>4
<1>8. QED
  BY <1>1, <1>2, <1>4, <1>7 DEF OrderInv, InOrder, Enumerates, Due, NoRequest

\* The oldest packet is taken: it answers the oldest request, or none.
LEMMA OrderTake ==
  ASSUME SInv, OrderInv, Take
  PROVE  OrderInv'
<1> DEFINE head == Head(air)
           d == head.packet.conn
<1>1. /\ air # << >> /\ air' = Tail(air) /\ UNCHANGED << pc, req, bytes, peer, disturbed >>
      /\ IF head.answers = NoRequest THEN matched' = TRUE /\ UNCHANGED asked
         ELSE /\ matched' = (asked[d] # << >> /\ Head(asked[d]) = head.answers)
              /\ asked' = [asked EXCEPT ![d] = IF @ = << >> THEN @ ELSE Tail(@)]
  BY DEF Take
<1>2. air \in Seq(AirItem) /\ head = air[1] /\ head \in AirItem /\ 1 \in DOMAIN air
  <2>1. air \in Seq(AirItem)
    BY DEF SInv, SessionTypeOK, AirItem
  <2>2. QED
    BY <1>1, <2>1
<1>3. d \in Connections
  BY <1>2, PacketShape DEF AirItem
<1>4. \A c : 1 \in Due(air, c) <=> (c = d /\ head.answers # NoRequest)
  BY <1>2 DEF Due
<1>5. asked' \in [Connections -> Seq(Question)]
  <2>1. asked[d] # << >> => Tail(asked[d]) \in Seq(Question)
    BY <1>3, HeadTailProperties DEF OrderInv
  <2>2. QED
    BY <1>1, <1>3, <2>1 DEF OrderInv
<1> HIDE DEF head, d
<1>6. SUFFICES ASSUME ~disturbed
               PROVE  OrderInv'
  BY <1>1, <1>5 DEF OrderInv
<1>7. \A c \in Connections : InOrder(asked[c], air, c, Unanswered(c))
  BY <1>6 DEF OrderInv
<1>8. \A c : Unanswered(c)' = Unanswered(c)
  BY <1>1 DEF Unanswered, Sending, Answered
<1>9. ASSUME NEW c \in Connections
      PROVE  /\ InOrder(asked'[c], air', c, Unanswered(c)')
             /\ c = d => matched'
  <2>1. asked[c] \in Seq(Content) /\ Unanswered(c) \in Seq(Content)
    BY SessionSequences
  <2>2. CASE c = d /\ head.answers # NoRequest
    <3>1. /\ asked[c] # << >> /\ Head(asked[c]) = air[1].answers
          /\ InOrder(Tail(asked[c]), Tail(air), c, Unanswered(c))
      BY <1>1, <1>2, <1>4, <1>7, <2>1, <2>2, OldestAnswered
    <3>2. asked'[c] = Tail(asked[c]) /\ matched'
      BY <1>1, <1>2, <1>3, <2>2, <3>1 DEF OrderInv
    <3>3. QED
      BY <1>1, <1>8, <3>1, <3>2
  <2>3. CASE ~(c = d /\ head.answers # NoRequest)
    <3>1. InOrder(asked[c], Tail(air), c, Unanswered(c))
      BY <1>1, <1>2, <1>4, <1>7, <2>3, NothingAnswered
    <3>2. asked'[c] = asked[c] /\ (c = d => matched')
      BY <1>1, <1>3, <2>3 DEF OrderInv
    <3>3. QED
      BY <1>1, <1>8, <3>1, <3>2
  <2>4. QED
    BY <2>2, <2>3
<1>10. matched' /\ (pc' # "idle" => req' \in Request /\ bytes' = ContentOf(req)')
  BY <1>1, <1>3, <1>6, <1>9 DEF OrderInv, ContentOf
<1>11. QED
  BY <1>5, <1>9, <1>10 DEF OrderInv, InOrder, Enumerates, Due, NoRequest

\* What is sent is the last of the flight, whatever follows it.
LEMMA SentLast ==
  ASSUME SInv, NEW p \in Packets \intersect AclPacket, NEW answers \in Content, Send(p, answers)
  PROVE  \A c : /\ Due(air', c) = IF c = p.conn /\ answers # NoRequest
                                  THEN Due(air, c) \union {Len(air) + 1} ELSE Due(air, c)
                /\ \A k \in Due(air, c) : air'[k].answers = air[k].answers
                /\ air'[Len(air) + 1].answers = answers
<1> DEFINE item == [packet |-> p, answers |-> answers]
           n == Len(air)
<1>1. air \in Seq(AirItem) /\ item \in AirItem /\ item.packet = p /\ item.answers = answers
  BY DEF SInv, SessionTypeOK, AirItem
<1>2. n \in Nat /\ DOMAIN air = 1 .. n
  BY <1>1, LenProperties
<1>3. /\ n + 1 \in DOMAIN air' /\ air'[n + 1] = item
      /\ \A k \in DOMAIN air : k \in DOMAIN air' /\ air'[k] = air[k]
      /\ \A k \in DOMAIN air' : k \in DOMAIN air \/ k = n + 1 \/ air'[k].answers = NoRequest
  <2>1. CASE p.l2cap + 4 <= AclSize
    <3>1. air' = Append(air, item)
      BY <2>1 DEF Send
    <3>2. QED
      BY <1>1, <1>2, <3>1, AppendProperties, LenProperties
  <2>2. CASE ~(p.l2cap + 4 <= AclSize)
    <3>1. PICK rest \in Packets :
            air' = air \o << item, [packet |-> rest, answers |-> NoRequest] >>
      BY <2>2 DEF Send
    <3> DEFINE other == [packet |-> rest, answers |-> NoRequest]
    <3>2. other \in AirItem /\ other.answers = NoRequest
      BY DEF AirItem, Content
    <3> HIDE DEF other, item
    <3>3. air' = air \o << item, other >> /\ << item, other >> \in Seq(AirItem)
      BY <1>1, <3>1, <3>2 DEF other
    <3>4. /\ Len(air') = n + 2 /\ DOMAIN air' = 1 .. n + 2
          /\ \A k \in 1 .. n : air'[k] = air[k]
          /\ air'[n + 1] = item /\ air'[n + 2] = other
      BY <1>1, <1>2, <3>3
    <3>5. QED
      BY <1>2, <3>2, <3>4
  <2>3. QED
    BY <2>1, <2>2
<1> HIDE DEF item, n
<1>4. ASSUME NEW c
      PROVE  Due(air', c) = IF c = p.conn /\ answers # NoRequest
                            THEN Due(air, c) \union {n + 1} ELSE Due(air, c)
  <2>1. \A k : k \in Due(air', c) <=> (k \in Due(air, c) \/ (k = n + 1 /\ c = p.conn /\ answers # NoRequest))
    BY <1>1, <1>3 DEF Due
  <2>2. QED
    BY <2>1
<1>5. \A c : \A k \in Due(air, c) : air'[k].answers = air[k].answers
  BY <1>3 DEF Due
<1>6. QED
  BY <1>1, <1>3, <1>4, <1>5 DEF n

\* The peer answers its oldest request.
LEMMA OrderAnswer ==
  ASSUME SInv, OrderInv, NEW c \in Connections, Answer(c)
  PROVE  OrderInv'
<1>1. /\ UNCHANGED << pc, req, bytes, asked, matched, disturbed >>
      /\ peer[c] # << >> /\ peer' = [peer EXCEPT ![c] = Tail(@)]
  BY DEF Answer
<1>2. asked' \in [Connections -> Seq(Question)]
  BY <1>1 DEF OrderInv
<1>3. SUFFICES ASSUME ~disturbed
               PROVE  OrderInv'
  BY <1>1, <1>2 DEF OrderInv
<1>4. \A e \in Connections : InOrder(asked[e], air, e, Unanswered(e))
  BY <1>3 DEF OrderInv
<1>5. /\ Unanswered(c) \in Seq(Content) /\ Unanswered(c) # << >>
      /\ Head(Unanswered(c)) = Head(peer[c])
      /\ Tail(Unanswered(c)) = Tail(peer[c]) \o Sending(c)
      /\ asked[c] \in Seq(Content) /\ peer[c] \in Seq(Content)
  BY <1>1, SessionSequences, FirstOfTwo DEF Unanswered
<1>6. Head(peer[c]) \in Question
  BY <1>4, <1>5, RestWasAsked DEF OrderInv
<1>7. Head(peer[c]) \in Content /\ Head(peer[c]) # NoRequest
  BY <1>6, QuestionIsContent
<1>8. PICK p \in Packets \intersect AclPacket : p.conn = c /\ Send(p, Head(peer[c]))
  BY DEF Answer
<1>9. /\ \A e : /\ Due(air', e) = IF e = c THEN Due(air, e) \union {Len(air) + 1} ELSE Due(air, e)
               /\ \A k \in Due(air, e) : air'[k].answers = air[k].answers
      /\ air'[Len(air) + 1].answers = Head(peer[c])
  BY <1>7, <1>8, SentLast
<1>10. ASSUME NEW e \in Connections
       PROVE  InOrder(asked'[e], air', e, Unanswered(e)')
  <2>1. Sending(e)' = Sending(e)
    BY <1>1 DEF Sending, Answered
  <2>2. CASE e = c
    <3>1. Unanswered(c)' = Tail(Unanswered(c))
      BY <1>1, <1>5, <2>1, <2>2 DEF Unanswered, SInv, SessionTypeOK
    <3>2. air \in Seq(AirItem)
      BY SessionSequences
    <3>3. InOrder(asked[c], air', c, Tail(Unanswered(c)))
      BY <1>4, <1>5, <1>9, <3>2, OneMoreAnswered
    <3>4. QED
      BY <1>1, <2>2, <3>1, <3>3
  <2>3. CASE e # c
    <3>1. Unanswered(e)' = Unanswered(e)
      BY <1>1, <2>1, <2>3 DEF Unanswered, SInv, SessionTypeOK
    <3>2. InOrder(asked[e], air', e, Unanswered(e))
      BY <1>4, <1>9, <2>3, SameAnswers
    <3>3. QED
      BY <1>1, <3>1, <3>2
  <2>4. QED
    BY <2>2, <2>3
<1>11. matched' /\ (pc' # "idle" => req' \in Request /\ bytes' = ContentOf(req)')
  BY <1>1, <1>3 DEF OrderInv, ContentOf
<1>12. QED
  BY <1>2, <1>10, <1>11 DEF OrderInv, InOrder, Enumerates, Due, NoRequest

\* What a peer sends of its own answers nothing.
LEMMA OrderTell ==
  ASSUME SInv, OrderInv, NEW c \in Connections, Tell(c)
  PROVE  OrderInv'
<1>1. UNCHANGED << pc, req, bytes, asked, peer, matched, disturbed >>
  BY DEF Tell
<1>2. PICK p \in Packets \intersect AclPacket : Send(p, NoRequest)
  BY DEF Tell
<1>3. \A e : /\ Due(air', e) = Due(air, e)
             /\ \A k \in Due(air, e) : air'[k].answers = air[k].answers
  BY <1>2, SentLast DEF Content
<1>4. \A e : Unanswered(e)' = Unanswered(e)
  BY <1>1 DEF Unanswered, Sending, Answered
<1>5. ASSUME ~disturbed', NEW e \in Connections
      PROVE  InOrder(asked'[e], air', e, Unanswered(e)')
  <2>1. InOrder(asked[e], air, e, Unanswered(e))
    BY <1>1, <1>5 DEF OrderInv
  <2>2. InOrder(asked[e], air', e, Unanswered(e))
    BY <1>3, <2>1, SameAnswers
  <2>3. QED
    BY <1>1, <1>4, <2>2
<1>6. QED
  BY <1>1, <1>5 DEF OrderInv, ContentOf, InOrder, Enumerates, Due, NoRequest

LEMMA OrderStep == SInv /\ OrderInv /\ [SessionNext]_allVars => OrderInv'
<1> SUFFICES ASSUME SInv, OrderInv, [SessionNext]_allVars PROVE OrderInv'
  OBVIOUS
<1>1. CASE AnyRequest
  <2>1. PICK r \in Request : Ask(r)
    BY <1>1, RequestsAreAsked
  <2>2. (step = "idle" /\ pc = "idle") \/ step = "callback"
    BY <2>1 DEF Ask
  <2>3. QED
    BY <2>1, <2>2, OrderThreadAsks, OrderCallbackAsks
<1>2. CASE Encode \/ TransmitHalf
  BY <1>2, OrderAside DEF Encode, TransmitHalf
<1>3. CASE TransmitRest
  BY <1>3, OrderTransmitted
<1>4. CASE Take
  BY <1>4, OrderTake
<1>5. CASE SendConfirmation
  BY <1>5, OrderAside DEF SendConfirmation
<1>6. CASE Handle \/ (\E on \in BOOLEAN : RegisterHandler(on)) \/ UNCHANGED allVars
  <2>1. UNCHANGED sessionVars
    BY <1>6 DEF Handle, RegisterHandler, allVars, sessionVars
  <2>2. QED
    BY <2>1, OrderAside DEF sessionVars
<1>7. CASE \E c \in Connections : Answer(c) \/ Tell(c)
  BY <1>7, OrderAnswer, OrderTell
<1>8. QED
  BY <1>1, <1>2, <1>3, <1>4, <1>5, <1>6, <1>7 DEF SessionNext

\* The application may take each answer for the answer to its oldest request of
\* the connection, whatever the thread and the callback request meanwhile of
\* however many peers, until the interrupt transmits at a moment that harms
\* (gatt.c:178-475).
THEOREM AnswersAreMatched == SessionSpec => []AnswersMatch
<1>1. OrderInv => AnswersMatch
  BY DEF OrderInv, AnswersMatch
<1>2. QED
  BY <1>1, OrderInit, OrderStep, SessionIsSound, PTL DEF SessionSpec
=============================================================================
