--------------------------- MODULE GattAtt_proofs ---------------------------
(***************************************************************************)
(* Theorems of GattAtt, for every set of packets.  All follow from one     *)
(* invariant, which says what the packet in hand must be like for its      *)
(* handling to be where it is.                                             *)
(***************************************************************************)
EXTENDS GattAtt, SequenceTheorems, TLAPS

AclOp == {"ERROR_RESPONSE", "EXCHANGE_MTU_RESPONSE", "READ_RESPONSE", "READ_BY_TYPE_RESPONSE",
          "READ_BY_GROUP_TYPE_RESPONSE", "WRITE_RESPONSE", "HANDLE_VALUE_NOTIFICATION",
          "HANDLE_VALUE_INDICATION", "FIND_INFORMATION_RESPONSE",
          "FIND_BY_TYPE_VALUE_RESPONSE", "UNKNOWN"}

EventOp == {"DISCONNECTION_COMPLETE", "ENCRYPTION_CHANGE"}

\* The tables as sets of cases.
LEMMA Tables ==
  /\ DOMAIN Least = AclOp /\ DOMAIN EventReach = EventOp
  /\ \A op \in AclOp : Least[op] \in 1 .. 5
  /\ \A op \in EventOp : EventReach[op] \in 3 .. 4
<1>1. DOMAIN Least = AclOp /\ DOMAIN EventReach = EventOp
  BY DEF Least, AclOp, EventReach, EventOp
<1>2. \A op \in AclOp : Least[op] \in 1 .. 5
  BY DEF Least, AclOp
<1>3. \A op \in EventOp : EventReach[op] \in 3 .. 4
  BY DEF EventReach, EventOp
<1>4. QED
  BY <1>1, <1>2, <1>3

\* A packet is of one of the two kinds.
LEMMA PacketShape ==
  ASSUME NEW p \in Packets
  PROVE  /\ p.l2cap \in Nat /\ p.conn \in Connections
         /\ \/ p \in HciEvent /\ IsEvent(p) /\ p.op \in EventOp
            \/ /\ p \in AclPacket /\ ~IsEvent(p) /\ p.op \in AclOp
               /\ p.total \in Nat /\ p.att \in BOOLEAN /\ p.count \in 0 .. 255
               /\ p.l2cap < IndexMod /\ p.count + 2 < IndexMod
<1>1. p \in AclPacket \/ p \in HciEvent
  BY AttAssumption
<1>2. CASE p \in HciEvent
  BY <1>2, Tables DEF HciEvent, IsEvent
<1>3. CASE p \in AclPacket
  <2>1. p.op \in AclOp /\ p.l2cap \in Nat /\ p.conn \in Connections /\ p.total \in Nat
        /\ p.att \in BOOLEAN /\ p.count \in 0 .. 255
    BY <1>3, Tables DEF AclPacket
  <2>2. ~IsEvent(p)
    BY <2>1, Tables DEF IsEvent, AclOp, EventOp
  <2>3. p.l2cap < IndexMod /\ p.count + 2 < IndexMod
    BY <1>3, AttAssumption
  <2>4. QED
    BY <1>3, <2>1, <2>2, <2>3
<1>4. QED
  BY <1>1, <1>2, <1>3

\* The data of an accepted packet's event lies in the packet, behind what was read.
LEMMA DataWithin ==
  ASSUME NEW p \in Packets, Accepted(p)
  PROVE  /\ DataFrom(p.op) \in 0 .. 3 /\ AttributeAt(p.op) \in 0 .. 2
         /\ DataLength(p) \in Nat
         /\ IsEvent(p) => DataFrom(p.op) + DataLength(p) <= EventReach[p.op]
         /\ ~IsEvent(p) => DataFrom(p.op) + DataLength(p) <= p.l2cap
<1>1. DataFrom(p.op) \in 0 .. 3 /\ AttributeAt(p.op) \in 0 .. 2
  BY DEF DataFrom, AttributeAt
<1>2. CASE p.op \in EventOp
  <2>1. CASE p.op = "DISCONNECTION_COMPLETE"
    <3>1. DataFrom(p.op) = 0 /\ DataLength(p) = 0 /\ EventReach[p.op] = 3
      BY <2>1 DEF DataFrom, DataLength, EventReach
    <3>2. QED
      BY <1>1, <1>2, <3>1, PacketShape, Tables DEF IsEvent
  <2>2. CASE p.op = "ENCRYPTION_CHANGE"
    <3>1. DataFrom(p.op) = 3 /\ DataLength(p) = 1 /\ EventReach[p.op] = 4
      BY <2>2 DEF DataFrom, DataLength, EventReach
    <3>2. QED
      BY <1>1, <1>2, <3>1, PacketShape, Tables DEF IsEvent
  <2>3. QED
    BY <1>2, <2>1, <2>2 DEF EventOp
<1>3. CASE p.op \in AclOp
  <2>1. p.l2cap \in Nat /\ p.l2cap >= Least[p.op] /\ ~IsEvent(p)
    BY <1>3, PacketShape DEF Accepted, AclOp, EventOp
  <2>2. CASE p.op = "WRITE_RESPONSE"
    <3>1. DataFrom(p.op) = 0 /\ DataLength(p) = 0
      BY <2>2 DEF DataFrom, DataLength
    <3>2. QED
      BY <1>1, <2>1, <3>1
  <2>3. CASE p.op = "EXCHANGE_MTU_RESPONSE"
    <3>1. DataFrom(p.op) = 1 /\ DataLength(p) = 2 /\ Least[p.op] = 3
      BY <2>3 DEF DataFrom, DataLength, Least
    <3>2. QED
      BY <1>1, <2>1, <3>1
  <2>4. CASE p.op \notin {"WRITE_RESPONSE", "EXCHANGE_MTU_RESPONSE"}
    <3>1. DataLength(p) = p.l2cap - DataFrom(p.op)
      BY <1>3, <2>4 DEF DataLength, AclOp
    <3>2. DataFrom(p.op) <= Least[p.op]
      BY <1>3, <2>4 DEF DataFrom, Least, AclOp
    <3>3. QED
      BY <1>1, <1>3, <2>1, <3>1, <3>2, Tables
  <2>5. QED
    BY <2>2, <2>3, <2>4
<1>4. QED
  BY <1>1, <1>2, <1>3, PacketShape

-----------------------------------------------------------------------------
\* What the packet in hand is like where its handling is.
InHand ==
  /\ step # "idle" => Accepted(job)
  /\ step = "confirm" => confirms = 0 /\ Indication(job)
  /\ step = "report" => handler /\ ~Discovery(job)
  /\ step = "loop" => HasRecords(job)
  /\ step = "callback" =>
       Len(got) > 0 /\ (Discovery(job) => HasRecords(job)) /\ (handler \/ Unregisters)
  /\ (step = "loop" /\ ~handler) => Len(got) > 0 /\ Unregisters
  /\ again => Len(got) > 0
  /\ (step = "loop" /\ got = << >>) => i = 2 \/ i >= job.l2cap

IInv == TypeOK /\ InHand /\ ConfirmedFirst /\ ReadsInside /\ NullCallCause

LEMMA InitHolds == Init => IInv
<1>1. SUFFICES ASSUME Init PROVE IInv
  OBVIOUS
<1>2. /\ job \in Packets /\ IsEvent(job) /\ step = "idle" /\ got = << >> /\ reach = 0
      /\ confirms = 0 /\ ~again
  BY <1>1 DEF Init
<1>3. ~Indication(job)
  BY <1>2, Tables DEF IsEvent, Indication, EventOp
<1>4. TypeOK
  <2>1. handler \in BOOLEAN /\ had \in BOOLEAN /\ again \in BOOLEAN
    BY <1>1, Zenon DEF Init
  <2>2. QED
    BY <1>1, <1>2, <2>1, AttAssumption DEF Init, TypeOK
<1>5. job.l2cap \in Nat
  BY <1>2, PacketShape
<1>6. InHand /\ ConfirmedFirst /\ ReadsInside /\ NullCallCause
  <2>1. EventReach[job.op] \in 3 .. 4
    BY <1>2, Tables DEF IsEvent
  <2>2. QED
    BY <1>2, <1>3, <1>5, <2>1 DEF InHand, ConfirmedFirst, ReadsInside, NullCallCause
<1>7. QED
  BY <1>4, <1>6 DEF IInv

\* Events are well formed.
LEMMA EventTyped ==
  ASSUME NEW p \in Packets, Accepted(p), NEW r \in Nat
  PROVE  EventOf(p, r) \in GATTEvent
<1>1. p.op \in DOMAIN Least \union DOMAIN EventReach /\ p.conn \in Connections
  BY PacketShape, Tables
<1>2. QED
  BY <1>1, DataWithin DEF EventOf, GATTEvent

\* A packet is taken in hand.
LEMMA ReceiveStep ==
  ASSUME IInv, NEW p \in Packets, Receive(p)
  PROVE  IInv'
<1>1. /\ job' = p /\ had' = handler /\ got' = << >> /\ confirms' = 0 /\ i' = 2
      /\ handler' = handler /\ handler \in BOOLEAN /\ ~again'
  BY DEF Receive, IInv, TypeOK
<1>2. step' = IF ~Accepted(p) THEN "idle"
              ELSE IF Indication(p) THEN "confirm" ELSE Reporting(p)
  BY DEF Receive
<1>3. reach' = IF IsEvent(p) THEN (IF handler THEN EventReach[p.op] ELSE 0)
               ELSE IF Accepted(p) THEN Least[p.op] ELSE 0
  BY DEF Receive
<1>4. Indication(p) => ~Discovery(p) /\ ~HasRecords(p)
  BY DEF Indication, Discovery, HasRecords
<1>5. /\ step' \in {"idle", "confirm", "report", "loop"}
      /\ step' # "idle" => Accepted(p)
      /\ step' = "confirm" <=> (Accepted(p) /\ Indication(p))
      /\ step' = "report" => handler /\ ~Discovery(p)
      /\ step' = "loop" => handler /\ HasRecords(p)
  <2>1. CASE ~Accepted(p)
    <3>1. step' = "idle"
      BY <1>2, <2>1
    <3>2. QED
      BY <2>1, <3>1
  <2>2. CASE Accepted(p) /\ Indication(p)
    <3>1. step' = "confirm"
      BY <1>2, <2>2
    <3>2. QED
      BY <2>2, <3>1
  <2>3. CASE Accepted(p) /\ ~Indication(p)
    <3>1. step' = IF ~handler \/ (Discovery(p) /\ ~HasRecords(p)) THEN "idle"
                  ELSE IF Discovery(p) THEN "loop" ELSE "report"
      BY <1>2, <2>3 DEF Reporting
    <3>2. \/ step' = "idle"
          \/ (step' = "loop" /\ handler /\ HasRecords(p))
          \/ (step' = "report" /\ handler /\ ~Discovery(p))
      BY <3>1
    <3>3. QED
      BY <2>3, <3>2
  <2>4. QED
    BY <2>1, <2>2, <2>3
<1>6. reach' \in Nat /\ (IsEvent(p) => reach' <= EventReach[p.op]) /\ (~IsEvent(p) => reach' <= p.l2cap)
  <2>1. CASE IsEvent(p)
    <3>1. EventReach[p.op] \in 3 .. 4
      BY <2>1, Tables DEF IsEvent
    <3>2. reach' = IF handler THEN EventReach[p.op] ELSE 0
      BY <1>3, <2>1
    <3>3. QED
      BY <2>1, <3>1, <3>2
  <2>2. CASE ~IsEvent(p)
    <3>1. p.op \in AclOp /\ p.l2cap \in Nat /\ Least[p.op] \in Nat
      BY <2>2, PacketShape, Tables
    <3>2. reach' = IF Accepted(p) THEN Least[p.op] ELSE 0
      BY <1>3, <2>2
    <3>3. Accepted(p) => Least[p.op] <= p.l2cap
      BY <2>2, <3>1 DEF Accepted
    <3>4. QED
      BY <2>2, <3>1, <3>2, <3>3
  <2>3. QED
    BY <2>1, <2>2
<1>7. TypeOK'
  <2>1. again' \in BOOLEAN
    BY Zenon DEF Receive
  <2>2. QED
    BY <1>1, <1>5, <1>6, <2>1, AttAssumption DEF TypeOK
<1>8. InHand'
  BY <1>1, <1>5 DEF InHand
<1>9. ConfirmedFirst' /\ NullCallCause'
  BY <1>1, <1>5 DEF ConfirmedFirst, NullCallCause
<1>10. ReadsInside'
  <2>1. p.l2cap \in Nat /\ (IsEvent(p) => EventReach[p.op] \in Nat)
    BY PacketShape, Tables
  <2>2. QED
    BY <1>1, <1>6, <2>1 DEF ReadsInside
<1>11. QED
  BY <1>7, <1>8, <1>9, <1>10 DEF IInv

LEMMA ConfirmStep ==
  ASSUME IInv, Confirm
  PROVE  IInv'
<1>1. /\ step = "confirm" /\ confirms = 0 /\ confirms' = 1
      /\ UNCHANGED << handler, job, had, i, again, got, reach >> /\ step' = Reporting(job)
  BY DEF Confirm, IInv, InHand
<1>2. Indication(job) /\ Accepted(job) /\ ~Discovery(job) /\ ~HasRecords(job)
  BY <1>1 DEF IInv, InHand, Indication, Discovery, HasRecords
<1>3. step' = IF handler THEN "report" ELSE "idle"
  BY <1>1, <1>2 DEF Reporting
<1>4. TypeOK'
  BY <1>1, <1>3 DEF IInv, TypeOK
<1>5. InHand' /\ ConfirmedFirst' /\ NullCallCause'
  BY <1>1, <1>2, <1>3 DEF IInv, InHand, ConfirmedFirst, NullCallCause
<1>6. ReadsInside'
  BY <1>1 DEF IInv, ReadsInside
<1>7. QED
  BY <1>4, <1>5, <1>6 DEF IInv

\* What a call of the callback leaves behind, from the report or from the loop.
LEMMA CallBackStep ==
  ASSUME IInv, NEW r \in Nat, CallBack(r), Accepted(job), handler' = handler, job' = job
  PROVE  /\ handler => step' = "callback" /\ got' \in Seq(GATTEvent) /\ Len(got') > 0
         /\ ~handler => step' = "null" /\ got' = got
<1>1. EventOf(job, r) \in GATTEvent /\ got \in Seq(GATTEvent)
  BY EventTyped DEF IInv, TypeOK
<1>2. handler => step' = "callback" /\ got' = IF again THEN got ELSE Append(got, EventOf(job, r))
  BY DEF CallBack
<1>3. Append(got, EventOf(job, r)) \in Seq(GATTEvent) /\ Len(Append(got, EventOf(job, r))) > 0
  BY <1>1
<1>4. again => Len(got) > 0
  BY DEF IInv, InHand
<1>5. QED
  BY <1>1, <1>2, <1>3, <1>4 DEF CallBack

LEMMA ReportStep ==
  ASSUME IInv, Report
  PROVE  IInv'
<1>1. /\ step = "report" /\ CallBack(0) /\ UNCHANGED << handler, job, had, i, again, confirms >>
      /\ Further(DataFrom(job.op) + DataLength(job))
  BY DEF Report
<1>2. handler /\ ~Discovery(job) /\ Accepted(job) /\ job \in Packets
  BY <1>1 DEF IInv, InHand, TypeOK
<1>3. step' = "callback" /\ got' \in Seq(GATTEvent) /\ Len(got') > 0
  BY <1>1, <1>2, CallBackStep
<1>4. reach' \in Nat /\ (reach' = reach \/ reach' = DataFrom(job.op) + DataLength(job))
  BY <1>1, <1>2, DataWithin DEF Further, IInv, TypeOK
<1>5. TypeOK'
  BY <1>1, <1>3, <1>4 DEF IInv, TypeOK
<1>6. InHand' /\ ConfirmedFirst' /\ NullCallCause'
  BY <1>1, <1>2, <1>3 DEF IInv, InHand, ConfirmedFirst, NullCallCause
<1>7. ReadsInside'
  BY <1>1, <1>2, <1>4, DataWithin, PacketShape, Tables DEF IInv, ReadsInside
<1>8. QED
  BY <1>5, <1>6, <1>7 DEF IInv

\* A record that is reported ends before the data do.
LEMMA NextRecordStep ==
  ASSUME IInv, NextRecord
  PROVE  IInv'
<1>1. /\ step = "loop" /\ i < job.l2cap /\ i' = (i + job.count) % IndexMod
      /\ again' = (again \/ i + job.count >= IndexMod)
      /\ UNCHANGED << handler, job, had, confirms >>
  BY DEF NextRecord
<1>2. HasRecords(job) /\ Discovery(job) /\ Accepted(job) /\ job \in Packets /\ i \in Nat
  BY <1>1 DEF IInv, InHand, TypeOK, HasRecords
<1>3. /\ ~IsEvent(job) /\ job.count \in 6 .. 255 /\ job.l2cap \in Nat
      /\ job.l2cap < IndexMod /\ job.count + 2 < IndexMod
  <2>1. job.op \notin EventOp
    BY <1>2 DEF Discovery, EventOp
  <2>2. QED
    BY <1>2, <2>1, PacketShape DEF HasRecords
<1>4. i' \in 0 .. IndexMod - 1 /\ again' \in BOOLEAN
  <2>1. i' \in 0 .. IndexMod - 1
    BY <1>1, <1>2, <1>3, AttAssumption
  <2>2. again' \in BOOLEAN
    BY <1>1, Zenon DEF IInv, TypeOK
  <2>3. QED
    BY <2>1, <2>2
<1>5. CASE i + job.count <= job.l2cap
  <2>1. CallBack(i) /\ Further(i + 6)
    BY <1>5 DEF NextRecord
  <2>2. reach' \in Nat /\ (reach' = reach \/ reach' <= job.l2cap)
    <3>1. i + job.count <= job.l2cap /\ job.count >= 6
      BY <1>3, <1>5
    <3>4. i + 6 \in Nat /\ i + 6 <= job.l2cap
      BY <1>2, <1>3, <3>1
    <3>5. reach \in Nat
      BY DEF IInv, TypeOK
    <3>2. reach' = IF i + 6 > reach THEN i + 6 ELSE reach
      BY <2>1 DEF Further
    <3>3. QED
      BY <3>2, <3>4, <3>5
  <2>3. ReadsInside'
    BY <1>1, <1>3, <2>2 DEF IInv, ReadsInside
  <2>4. again' = again
    <3>1. ~(i + job.count >= IndexMod)
      BY <1>2, <1>3, <1>5, AttAssumption
    <3>2. QED
      BY <1>1, <3>1, Zenon DEF IInv, TypeOK
  <2>5. CASE handler
    <3>1. step' = "callback" /\ got' \in Seq(GATTEvent) /\ Len(got') > 0
      BY <1>1, <1>2, <2>1, <2>5, CallBackStep
    <3>2. TypeOK'
      BY <1>1, <1>4, <2>2, <3>1 DEF IInv, TypeOK
    <3>3. InHand' /\ ConfirmedFirst' /\ NullCallCause'
      BY <1>1, <1>2, <2>4, <2>5, <3>1 DEF IInv, InHand, ConfirmedFirst, NullCallCause
    <3>4. QED
      BY <2>3, <3>2, <3>3 DEF IInv
  <2>6. CASE ~handler
    <3>1. step' = "null" /\ got' = got
      BY <1>1, <1>2, <2>1, <2>6, CallBackStep
    <3>2. TypeOK'
      BY <1>1, <1>4, <2>2, <3>1 DEF IInv, TypeOK
    <3>3. InHand' /\ ConfirmedFirst' /\ NullCallCause'
      BY <1>1, <1>2, <2>4, <2>6, <3>1 DEF IInv, InHand, ConfirmedFirst, NullCallCause
    <3>4. QED
      BY <2>3, <3>2, <3>3 DEF IInv
  <2>7. QED
    BY <2>5, <2>6
<1>6. CASE ~(i + job.count <= job.l2cap)
  <2>1. UNCHANGED << step, got, reach >>
    BY <1>6 DEF NextRecord
  <2>2. TypeOK'
    BY <1>1, <1>4, <2>1 DEF IInv, TypeOK
  <2>3. ConfirmedFirst' /\ NullCallCause' /\ ReadsInside'
    BY <1>1, <2>1 DEF IInv, ConfirmedFirst, NullCallCause, ReadsInside
  <2>4. got = << >> => i = 2 /\ ~again
    BY <1>1, <1>2, <1>3 DEF IInv, InHand
  <2>5. got = << >> => i' >= job.l2cap /\ ~again'
    <3>1. SUFFICES ASSUME got = << >> PROVE i' >= job.l2cap /\ ~again'
      OBVIOUS
    <3>2. i + job.count \in 0 .. IndexMod - 1
      <4>1. i = 2
        BY <2>4, <3>1, Zenon
      <4>2. job.count \in Nat /\ job.count + 2 < IndexMod /\ IndexMod \in Nat
        BY <1>3, AttAssumption
      <4>3. QED
        BY <4>1, <4>2
    <3>3. i' = i + job.count
      BY <1>1, <3>2, AttAssumption
    <3>4. ~(i + job.count >= IndexMod)
      BY <3>2, AttAssumption
    <3>5. ~again'
      BY <1>1, <2>4, <3>1, <3>4, Zenon
    <3>6. QED
      BY <1>2, <1>3, <1>6, <3>3, <3>5
  <2>6. Len(got) > 0 \/ got = << >>
    BY DEF IInv, TypeOK
  <2>7. InHand'
    BY <1>1, <2>1, <2>5, <2>6 DEF IInv, InHand
  <2>8. QED
    BY <2>2, <2>3, <2>7 DEF IInv
<1>7. QED
  BY <1>5, <1>6

LEMMA StepHolds == IInv /\ [Next]_vars => IInv'
<1>1. SUFFICES ASSUME IInv, [Next]_vars PROVE IInv'
  OBVIOUS
<1>2. CASE \E p \in Packets : Receive(p)
  BY <1>1, <1>2, ReceiveStep
<1>3. CASE Confirm
  BY <1>1, <1>3, ConfirmStep
<1>4. CASE Report
  BY <1>1, <1>4, ReportStep
<1>5. CASE NextRecord
  BY <1>1, <1>5, NextRecordStep
<1>6. CASE EndLoop
  BY <1>1, <1>6
     DEF EndLoop, IInv, TypeOK, InHand, ConfirmedFirst, ReadsInside, NullCallCause
<1>7. CASE Return
  BY <1>1, <1>7
     DEF Return, IInv, TypeOK, InHand, ConfirmedFirst, ReadsInside, NullCallCause
<1>8. CASE \E on \in BOOLEAN : GATT_register_event_handler(on)
  BY <1>1, <1>8
     DEF GATT_register_event_handler, IInv, TypeOK, InHand, ConfirmedFirst, ReadsInside, NullCallCause
<1>9. CASE UNCHANGED vars
  BY <1>1, <1>9
     DEF vars, IInv, TypeOK, InHand, ConfirmedFirst, ReadsInside, NullCallCause
<1>10. QED
  BY <1>1, <1>2, <1>3, <1>4, <1>5, <1>6, <1>7, <1>8, <1>9 DEF Next, Handling

\* The invariant holds throughout the handling of packets.
THEOREM HandlingIsSound == Spec => []IInv
  BY InitHolds, StepHolds, PTL DEF Spec


\* State and events keep their types, whatever the packets.
THEOREM TypeCorrect == Spec => []TypeOK
  BY HandlingIsSound, PTL DEF IInv

\* No byte beyond the length field is looked at or handed on, for every record
\* length and length field, also where the index wraps (gatt.c:526, 617-626).
THEOREM ReadsStayInside == Spec => []ReadsInside
  BY HandlingIsSound, PTL DEF IInv

\* Indications are confirmed once, before the callback, and nothing else is
\* (gatt.c:659-681).
THEOREM IndicationsAreConfirmed == Spec => []ConfirmedFirst
  BY HandlingIsSound, PTL DEF IInv

\* Only a callback that took the handler away between two records is followed by
\* a call of no function (gatt.c:607, 624).
THEOREM NullCallsAreExcused == Spec => []NullCallCause
  BY HandlingIsSound, PTL DEF IInv

-----------------------------------------------------------------------------
\* A quotient is found by bounding its multiples.
LEMMA Quotient ==
  ASSUME NEW a \in Nat, NEW c \in Nat \ {0}, NEW n \in Nat
  PROVE  /\ n * c <= a /\ a < n * c + c => a \div c = n
         /\ n * c <= a => n <= a \div c
         /\ n <= a \div c => n * c <= a
         /\ a \div c \in Nat
<1> DEFINE q == a \div c
<1>1. q \in Nat /\ q * c <= a /\ a < q * c + c
  OBVIOUS
<1>2. ASSUME n * c <= a, ~(n <= q) PROVE FALSE
  <2>1. PICK d \in Nat : n = q + 1 + d
    <3>1. n - q - 1 \in Nat /\ n = q + 1 + (n - q - 1)
      BY <1>1, <1>2
    <3>2. QED
      BY <3>1
  <2>2. n * c = q * c + c + d * c /\ d * c >= 0
    BY <1>1, <2>1
  <2>3. QED
    BY <1>1, <1>2, <2>2
<1>3. ASSUME n <= q PROVE n * c <= a
  <2>1. PICK d \in Nat : q = n + d
    <3>1. q - n \in Nat /\ q = n + (q - n)
      BY <1>1, <1>3
    <3>2. QED
      BY <3>1
  <2>2. q * c = n * c + d * c /\ d * c >= 0
    BY <2>1
  <2>3. QED
    BY <1>1, <2>2
<1>4. ASSUME a < n * c + c, ~(q <= n) PROVE FALSE
  <2>1. PICK d \in Nat : q = n + 1 + d
    <3>1. q - n - 1 \in Nat /\ q = n + 1 + (q - n - 1)
      BY <1>1, <1>4
    <3>2. QED
      BY <3>1
  <2>2. q * c = n * c + c + d * c /\ d * c >= 0
    BY <1>1, <2>1
  <2>3. QED
    BY <1>1, <1>4, <2>2
<1>5. QED
  BY <1>1, <1>2, <1>3, <1>4


-----------------------------------------------------------------------------
\* Records of a service list, and how far the loop is when n of them are reported.
Count(p) == (p.l2cap - 2) \div p.count

Reported(n) ==
  /\ n <= Count(job)
  /\ got = [k \in 1 .. n |-> EventOf(job, 2 + (k - 1) * job.count)]

InLoop ==
  \E n \in Nat :
    /\ Reported(n)
    /\ \/ i = 2 + n * job.count
       \/ i >= job.l2cap /\ n = Count(job)

FirstPass ==
  /\ step = "idle" => got = Expected(job)
  /\ step = "confirm" => got = << >> /\ had = handler
  /\ step = "report" => got = << >> /\ had
  /\ (step = "callback" /\ ~Discovery(job)) => got = << EventOf(job, 0) >> /\ had
  /\ (step = "loop" \/ (step = "callback" /\ Discovery(job))) => InLoop /\ had
  /\ step = "null" => had /\ HasRecords(job) /\ \E n \in Nat : Reported(n)

\* Once the index has wrapped there is nothing to add to what was given.
Progress == IF again THEN Wraps(job) /\ got = Expected(job) ELSE FirstPass

\* What holds of a packet of which the records are taken apart.
LEMMA ListShape ==
  ASSUME NEW p \in Packets, Accepted(p), HasRecords(p)
  PROVE  /\ p.count \in Nat \ {0} /\ p.l2cap \in Nat /\ p.l2cap >= 2
         /\ p.l2cap < IndexMod /\ Discovery(p) /\ ~Indication(p)
         /\ Records(p) = [k \in 1 .. Count(p) |-> EventOf(p, 2 + (k - 1) * p.count)]
<1>1. p.op = "READ_BY_GROUP_TYPE_RESPONSE" /\ p.count >= 6
  BY DEF HasRecords, Discovery
<1>2. p.op \notin EventOp
  BY <1>1 DEF EventOp
<1>3. ~IsEvent(p) /\ p.count \in 0 .. 255 /\ p.l2cap \in Nat /\ p.l2cap < IndexMod
  BY <1>2, PacketShape
<1>4. p.l2cap >= 2
  <2>1. Least[p.op] = 2
    BY <1>1 DEF Least
  <2>2. QED
    BY <1>3, <2>1 DEF Accepted
<1>5. Records(p) = [k \in 1 .. Count(p) |-> EventOf(p, 2 + (k - 1) * p.count)]
  <2>1. ~(p.count < 6)
    BY <1>1, <1>3
  <2>2. QED
    BY <2>1, Zenon DEF Records, Count
<1>6. Discovery(p) /\ ~Indication(p)
  BY <1>1 DEF Discovery, Indication
<1>7. p.count \in Nat \ {0}
  BY <1>1, <1>3
<1>8. QED
  BY <1>3, <1>4, <1>5, <1>6, <1>7

\* One more record is reported.
LEMMA OneMore ==
  ASSUME NEW p, NEW n \in Nat
  PROVE  Append([k \in 1 .. n |-> EventOf(p, 2 + (k - 1) * p.count)],
                EventOf(p, 2 + n * p.count))
         = [k \in 1 .. n + 1 |-> EventOf(p, 2 + (k - 1) * p.count)]
<1> DEFINE E(k) == EventOf(p, 2 + (k - 1) * p.count)
           s == [k \in 1 .. n |-> E(k)]
<1>1. EventOf(p, 2 + n * p.count) = E(n + 1)
  <2>1. (n + 1) - 1 = n
    OBVIOUS
  <2>2. QED
    BY <2>1, Zenon
<1> HIDE DEF E
<1>2. Len(s) = n /\ DOMAIN s = 1 .. n
  <2>1. DOMAIN s = 1 .. n
    OBVIOUS
  <2>2. QED
    BY <2>1, LenProperties, SMT DEF s
<1>3. Append(s, E(n + 1)) = [k \in 1 .. n + 1 |-> E(k)]
  BY <1>2
<1>4. QED
  BY <1>1, <1>3 DEF E


\* The records are all there when the next one does not begin in the data.
LEMMA AllReported ==
  ASSUME NEW p \in Packets, Accepted(p), HasRecords(p), NEW n \in Nat, n <= Count(p),
         p.l2cap < 2 + n * p.count + p.count
  PROVE  n = Count(p)
<1>1. p.l2cap - 2 \in Nat /\ p.count \in Nat \ {0} /\ p.l2cap \in Nat
  BY ListShape
<1>2. n * p.count <= p.l2cap - 2 /\ n * p.count \in Nat
  BY <1>1, Quotient DEF Count
<1>3. p.l2cap - 2 < n * p.count + p.count
  BY <1>1, <1>2
<1>4. QED
  BY <1>1, <1>2, <1>3, Quotient DEF Count

LEMMA NextMultiple ==
  ASSUME NEW n \in Nat, NEW c \in Nat
  PROVE  n * c \in Nat /\ (n + 1) * c = n * c + c /\ n + 1 \in Nat
OBVIOUS

\* A number is no more than its multiples.
LEMMA Multiple ==
  ASSUME NEW n \in Nat, NEW c \in Nat \ {0}, NEW a \in Nat, 2 + n * c < a
  PROVE  n \in 0 .. a
<1>1. PICK d \in Nat : c = 1 + d
  <2>1. c - 1 \in Nat /\ c = 1 + (c - 1)
    OBVIOUS
  <2>2. QED
    BY <2>1
<1>2. n * c = n + n * d /\ n * d \in Nat
  BY <1>1
<1>3. QED
  BY <1>2

\* One turn of the loop, with the record reported or not.
LEMMA TurnProgress ==
  ASSUME IInv, FirstPass, ~again, NextRecord
  PROVE  Progress'
<1>1. /\ step = "loop" /\ i < job.l2cap /\ i' = (i + job.count) % IndexMod
      /\ again' = (again \/ i + job.count >= IndexMod)
      /\ UNCHANGED << handler, job, had, confirms >>
  BY DEF NextRecord
<1>2. HasRecords(job) /\ Accepted(job) /\ job \in Packets /\ i \in Nat /\ had
  BY <1>1 DEF IInv, InHand, TypeOK, FirstPass
<1> DEFINE c == job.count
<1>3. c \in Nat \ {0} /\ job.l2cap \in Nat /\ job.l2cap >= 2 /\ job.l2cap < IndexMod
      /\ Discovery(job)
  BY <1>2, ListShape
<1>4. PICK n \in Nat : Reported(n) /\ (i = 2 + n * c \/ (i >= job.l2cap /\ n = Count(job)))
  BY <1>1 DEF FirstPass, InLoop
<1>5. i = 2 + n * c
  BY <1>1, <1>2, <1>3, <1>4
<1>6. n * c \in Nat /\ (n + 1) * c = n * c + c /\ n + 1 \in Nat
  <2>1. c \in Nat
    BY <1>3
  <2>2. QED
    BY <2>1, NextMultiple, Zenon
<1>7. i + c < IndexMod => i' = i + c /\ ~again'
  <2>1. SUFFICES ASSUME i + c < IndexMod PROVE i' = i + c /\ ~again'
    OBVIOUS
  <2>2. i + c \in 0 .. IndexMod - 1 /\ ~(i + c >= IndexMod)
    BY <1>2, <1>3, <2>1, AttAssumption
  <2>3. i' = i + c
    BY <1>1, <2>2, AttAssumption
  <2>4. ~again'
    BY <1>1, <2>2, Zenon
  <2>5. QED
    BY <2>3, <2>4
<1>8. CASE i + c <= job.l2cap
  <2>1. CallBack(i)
    BY <1>8 DEF NextRecord
  <2>6. i' = i + c /\ ~again'
    BY <1>2, <1>3, <1>7, <1>8, AttAssumption
  <2>2. n + 1 <= Count(job)
    <3>1. job.l2cap - 2 \in Nat /\ (n + 1) * c <= job.l2cap - 2
      BY <1>2, <1>3, <1>5, <1>6, <1>8
    <3>2. QED
      BY <1>3, <1>6, <3>1, Quotient DEF Count
  <2>3. CASE handler
    <3>1. step' = "callback" /\ got' = Append(got, EventOf(job, 2 + n * c))
      BY <1>5, <2>1, <2>3 DEF CallBack
    <3>2. got = [k \in 1 .. n |-> EventOf(job, 2 + (k - 1) * c)]
      BY <1>4 DEF Reported
    <3>3. got' = [k \in 1 .. n + 1 |-> EventOf(job, 2 + (k - 1) * c)]
      BY <3>1, <3>2, OneMore
    <3>4. job' = job /\ Count(job)' = Count(job)
      BY <1>1 DEF Count
    <3>5. Reported(n + 1)'
      BY <2>2, <3>3, <3>4 DEF Reported
    <3>6. i' = 2 + (n + 1) * c
      BY <1>3, <1>5, <1>6, <2>6
    <3>7. InLoop'
      BY <1>6, <3>4, <3>5, <3>6 DEF InLoop
    <3>8. QED
      BY <1>1, <1>2, <1>3, <2>6, <3>1, <3>4, <3>7 DEF Progress, FirstPass
  <2>4. CASE ~handler
    <3>1. step' = "null" /\ got' = got
      BY <2>1, <2>4 DEF CallBack
    <3>2. Reported(n)'
      BY <1>1, <1>4, <3>1 DEF Reported, Count
    <3>3. QED
      BY <1>1, <1>2, <2>6, <3>1, <3>2 DEF Progress, FirstPass
  <2>5. QED
    BY <2>3, <2>4
<1>9. CASE ~(i + c <= job.l2cap)
  <2>1. step' = "loop" /\ got' = got
    BY <1>1, <1>9 DEF NextRecord
  <2>2. n = Count(job)
    <3>1. n <= Count(job)
      BY <1>4 DEF Reported
    <3>2. job.l2cap < 2 + n * c + c
      BY <1>2, <1>3, <1>5, <1>6, <1>9
    <3>3. QED
      BY <1>2, <3>1, <3>2, AllReported
  <2>3. CASE i + c < IndexMod
    <3>1. i' >= job.l2cap /\ ~again'
      BY <1>2, <1>3, <1>7, <1>9, <2>3
    <3>2. Reported(n)'
      BY <1>1, <1>4, <2>1 DEF Reported, Count
    <3>3. InLoop'
      BY <1>1, <2>2, <3>1, <3>2 DEF InLoop, Count
    <3>4. QED
      BY <1>1, <1>2, <2>1, <3>1, <3>3 DEF Progress, FirstPass
  <2>4. CASE ~(i + c < IndexMod)
    <3>1. again'
      <4>1. i + c >= IndexMod
        BY <1>2, <1>3, <2>4, AttAssumption
      <4>2. QED
        BY <1>1, <4>1, Zenon
    <3>2. got = Records(job)
      BY <1>2, <1>4, <2>2, ListShape DEF Reported
    <3>3. Expected(job) = got
      BY <1>2, <1>3, <3>2 DEF Expected
    <3>4. n \in 0 .. job.l2cap
      BY <1>1, <1>3, <1>5, <1>6, Multiple
    <3>5. 2 + n * c < job.l2cap /\ 2 + (n + 1) * c >= IndexMod
      BY <1>1, <1>3, <1>5, <1>6, <2>4, AttAssumption
    <3>6. Wraps(job)
      BY <1>2, <3>4, <3>5 DEF Wraps
    <3>7. Wraps(job)' /\ Expected(job)' = Expected(job)
      BY <1>1, <3>6 DEF Wraps, Expected
    <3>8. QED
      BY <2>1, <3>1, <3>3, <3>7 DEF Progress
  <2>5. QED
    BY <2>3, <2>4
<1>10. QED
  BY <1>8, <1>9


LEMMA EndLoopProgress ==
  ASSUME IInv, FirstPass, ~again, EndLoop
  PROVE  FirstPass'
<1>1. step = "loop" /\ i >= job.l2cap /\ step' = "idle"
      /\ UNCHANGED << handler, job, had, i, again, got, confirms, reach >>
  BY DEF EndLoop
<1>2. HasRecords(job) /\ Accepted(job) /\ job \in Packets /\ i \in Nat /\ had /\ had \in BOOLEAN
  BY <1>1 DEF IInv, InHand, TypeOK, FirstPass
<1>3. job.count \in Nat \ {0} /\ job.l2cap \in Nat /\ Discovery(job)
  BY <1>2, ListShape
<1>4. PICK n \in Nat : Reported(n) /\ (i = 2 + n * job.count \/ (i >= job.l2cap /\ n = Count(job)))
  BY <1>1 DEF FirstPass, InLoop
<1>5. n = Count(job)
  <2>1. CASE i = 2 + n * job.count
    <3>1. job.l2cap < 2 + n * job.count + job.count
      BY <1>1, <1>3, <2>1
    <3>2. QED
      BY <1>2, <1>4, <3>1, AllReported DEF Reported
  <2>2. QED
    BY <1>4, <2>1
<1>6. got = Records(job)
  BY <1>2, <1>4, <1>5, ListShape DEF Reported
<1>7. got' = Expected(job)'
  BY <1>1, <1>2, <1>3, <1>6 DEF Expected, Accepted, Discovery, Records, EventOf, IsEvent
<1>8. QED
  BY <1>1, <1>7 DEF FirstPass

LEMMA ReceiveProgress ==
  ASSUME IInv, NEW p \in Packets, Receive(p)
  PROVE  FirstPass'
<1>1. /\ job' = p /\ had' = handler /\ got' = << >> /\ i' = 2
      /\ handler' = handler
  BY DEF Receive
<1>2. step' = IF ~Accepted(p) THEN "idle"
              ELSE IF Indication(p) THEN "confirm" ELSE Reporting(p)
  BY DEF Receive
<1>3. CASE ~Accepted(p)
  BY <1>1, <1>2, <1>3 DEF FirstPass, Expected
<1>4. CASE Accepted(p) /\ Indication(p)
  BY <1>1, <1>2, <1>4 DEF FirstPass
<1>5. CASE Accepted(p) /\ ~Indication(p)
  <2>1. step' = Reporting(p)
    BY <1>2, <1>5
  <2>2. CASE ~handler
    <3>1. step' = "idle"
      BY <2>1, <2>2 DEF Reporting
    <3>2. QED
      BY <1>1, <2>2, <3>1 DEF FirstPass, Expected
  <2>3. CASE handler /\ HasRecords(p)
    <3>1. step' = "loop"
      BY <2>1, <2>3 DEF Reporting, HasRecords
    <3>2. p.count \in Nat \ {0} /\ p.l2cap \in Nat /\ p.l2cap >= 2
      BY <1>5, <2>3, ListShape
    <3>3. Count(p) \in Nat
      BY <3>2, Quotient DEF Count
    <3>4. Reported(0)' /\ i' = 2 + 0 * p.count
      <4>1. got' = [k \in 1 .. 0 |-> EventOf(p, 2 + (k - 1) * p.count)]
        BY <1>1
      <4>2. QED
        BY <1>1, <3>2, <3>3, <4>1 DEF Reported, Count
    <3>5. InLoop'
      BY <1>1, <3>4 DEF InLoop
    <3>6. QED
      BY <1>1, <2>3, <3>1, <3>5 DEF FirstPass
  <2>4. CASE handler /\ Discovery(p) /\ ~HasRecords(p)
    <3>1. step' = "idle"
      BY <2>1, <2>4 DEF Reporting
    <3>2. p.count < 6
      <4>1. p.op \notin EventOp
        BY <2>4 DEF Discovery, EventOp
      <4>2. p.count \in 0 .. 255 /\ ~(p.count >= 6)
        BY <2>4, <4>1, PacketShape DEF HasRecords
      <4>3. QED
        BY <4>2
    <3>3. Expected(p)' = << >>
      BY <2>4, <3>2 DEF Expected, Records, Discovery
    <3>4. QED
      BY <1>1, <3>1, <3>3 DEF FirstPass, Expected, Accepted, Discovery, Records, EventOf, IsEvent
  <2>5. CASE handler /\ ~Discovery(p)
    <3>1. step' = "report"
      BY <2>1, <2>5 DEF Reporting, HasRecords
    <3>2. QED
      BY <1>1, <2>5, <3>1 DEF FirstPass
  <2>6. QED
    BY <2>2, <2>3, <2>4, <2>5
<1>6. QED
  BY <1>3, <1>4, <1>5


\* Once the confirmation is sent, the event of an indication is still to come.
LEMMA ConfirmProgress ==
  ASSUME IInv, FirstPass, ~again, Confirm
  PROVE  FirstPass'
<1>1. /\ step = "confirm" /\ got = << >> /\ had = handler /\ step' = Reporting(job)
      /\ UNCHANGED << handler, job, had, i, again, got, reach >>
  BY DEF Confirm, FirstPass
<1>2. ~Discovery(job) /\ ~HasRecords(job)
  BY <1>1 DEF IInv, InHand, Indication, Discovery, HasRecords
<1>3. CASE handler
  <2>1. step' = "report"
    BY <1>1, <1>2, <1>3 DEF Reporting
  <2>2. QED
    BY <1>1, <1>3, <2>1 DEF FirstPass
<1>4. CASE ~handler
  <2>1. step' = "idle"
    BY <1>1, <1>4 DEF Reporting
  <2>2. Expected(job)' = << >>
    BY <1>1, <1>4 DEF Expected
  <2>3. QED
    BY <1>1, <2>1, <2>2 DEF FirstPass
<1>5. QED
  BY <1>3, <1>4

\* The one event of a packet that is no service list.
LEMMA ReportProgress ==
  ASSUME IInv, FirstPass, ~again, Report
  PROVE  FirstPass'
<1>1. /\ step = "report" /\ CallBack(0) /\ got = << >> /\ had
      /\ UNCHANGED << handler, job, had, i, again, confirms >>
  BY DEF Report, FirstPass
<1>2. handler /\ ~Discovery(job)
  BY <1>1 DEF IInv, InHand
<1>3. step' = "callback" /\ got' = << EventOf(job, 0) >>
  BY <1>1, <1>2 DEF CallBack
<1>4. QED
  BY <1>1, <1>2, <1>3 DEF FirstPass, Discovery, EventOf

\* The callback returns, to the loop or with all events given.
LEMMA ReturnProgress ==
  ASSUME IInv, FirstPass, ~again, Return
  PROVE  FirstPass'
<1>1. /\ step = "callback" /\ step' = (IF Discovery(job) THEN "loop" ELSE "idle")
      /\ UNCHANGED << handler, job, had, i, again, got, confirms, reach >>
  BY DEF Return
<1>2. Accepted(job)
  BY <1>1 DEF IInv, InHand
<1>3. CASE Discovery(job)
  <2>1. step' = "loop" /\ InLoop /\ had
    BY <1>1, <1>3 DEF FirstPass
  <2>2. InLoop'
    BY <1>1, <2>1 DEF InLoop, Reported, Count
  <2>3. QED
    BY <1>1, <2>1, <2>2 DEF FirstPass
<1>4. CASE ~Discovery(job)
  <2>1. step' = "idle" /\ got = << EventOf(job, 0) >> /\ had
    BY <1>1, <1>4 DEF FirstPass
  <2>2. Expected(job) = << EventOf(job, 0) >>
    BY <1>2, <1>4, <2>1 DEF Expected
  <2>3. Expected(job)' = Expected(job)
    BY <1>1 DEF Expected
  <2>4. QED
    BY <1>1, <2>1, <2>2, <2>3 DEF FirstPass
<1>5. QED
  BY <1>3, <1>4

\* FirstPass reads nothing but these.
LEMMA ProgressDepends ==
  ASSUME FirstPass, UNCHANGED << job, had, step, i, got >>,
         step = "confirm" => handler' = handler
  PROVE  FirstPass'
<1>1. Expected(job)' = Expected(job)
  BY DEF Expected
<1>2. InLoop' <=> InLoop
  BY DEF InLoop, Reported, Count
<1>3. (\E n \in Nat : Reported(n))' <=> (\E n \in Nat : Reported(n))
  BY DEF Reported, Count
<1>4. QED
  BY <1>1, <1>2, <1>3 DEF FirstPass

\* Where the index has wrapped, no step but the receipt of another packet changes
\* what was given.
LEMMA AgainKept ==
  ASSUME Progress, again, Handling \/ UNCHANGED vars
             \/ \E on \in BOOLEAN : GATT_register_event_handler(on)
  PROVE  Progress'
<1>1. /\ job' = job /\ had' = had /\ got' = got /\ again'
  BY DEF Handling, Confirm, Report, NextRecord, EndLoop, Return, GATT_register_event_handler,
         vars, CallBack
<1>2. Wraps(job)' /\ got' = Expected(job)'
  BY <1>1 DEF Progress, Wraps, HasRecords, Discovery, Expected
<1>3. QED
  BY <1>1, <1>2 DEF Progress

LEMMA ProgressStep == IInv /\ Progress /\ [Next]_vars => Progress'
<1>1. SUFFICES ASSUME IInv, Progress, [Next]_vars PROVE Progress'
  OBVIOUS
<1>2. ASSUME NEW p \in Packets, Receive(p) PROVE Progress'
  <2>1. ~again'
    BY <1>2 DEF Receive
  <2>2. QED
    BY <1>1, <1>2, <2>1, ReceiveProgress DEF Progress
<1>3. ASSUME ~again, Handling \/ UNCHANGED vars
             \/ \E on \in BOOLEAN : GATT_register_event_handler(on)
      PROVE  Progress'
  <2>1. FirstPass
    BY <1>1, <1>3 DEF Progress
  <2>2. CASE NextRecord
    BY <1>1, <1>3, <2>1, <2>2, TurnProgress
  <2>3. CASE Confirm \/ Report \/ EndLoop \/ Return
    <3>1. FirstPass'
      BY <1>1, <1>3, <2>1, <2>3, ConfirmProgress, ReportProgress, EndLoopProgress, ReturnProgress
    <3>2. ~again'
      BY <1>3, <2>3 DEF Confirm, Report, EndLoop, Return
    <3>3. QED
      BY <3>1, <3>2 DEF Progress
  <2>4. CASE UNCHANGED vars \/ \E on \in BOOLEAN : GATT_register_event_handler(on)
    <3>1. /\ UNCHANGED << job, had, step, i, again, got >>
          /\ step = "confirm" => handler' = handler
      BY <2>4 DEF vars, GATT_register_event_handler
    <3>2. FirstPass'
      BY <2>1, <3>1, ProgressDepends
    <3>3. QED
      BY <1>3, <3>1, <3>2 DEF Progress
  <2>5. QED
    BY <1>3, <2>2, <2>3, <2>4 DEF Handling
<1>4. QED
  BY <1>1, <1>2, <1>3, AgainKept DEF Next

LEMMA InitProgress == Init => Progress
  BY DEF Init, Progress, FirstPass, Expected

\* The records reported so far are a prefix of all of them.
LEMMA PrefixOfRecords ==
  ASSUME NEW p \in Packets, Accepted(p), HasRecords(p), NEW n \in Nat, n <= Count(p)
  PROVE  IsPrefix([k \in 1 .. n |-> EventOf(p, 2 + (k - 1) * p.count)], Records(p))
<1> DEFINE E(k) == EventOf(p, 2 + (k - 1) * p.count)
           m == Count(p)
           s == [k \in 1 .. n |-> E(k)]
           t == [k \in 1 .. m |-> E(k)]
<1>1. m \in Nat
  <2>1. p.l2cap - 2 \in Nat /\ p.count \in Nat \ {0}
    BY ListShape
  <2>2. QED
    BY <2>1, Quotient DEF Count
<1>2. Records(p) = t
  BY ListShape
<1> HIDE DEF E, m
<1>3. Len(s) = n /\ DOMAIN s = 1 .. n /\ Len(t) = m /\ DOMAIN t = 1 .. m
  <2>1. DOMAIN s = 1 .. n /\ DOMAIN t = 1 .. m
    OBVIOUS
  <2>2. QED
    BY <1>1, <2>1, LenProperties, SMT DEF s, t
<1>4. SubSeq(s, 1, n) = s
  BY <1>3
<1>5. SubSeq(t, 1, n) = s
  <2>1. n <= m
    BY DEF m
  <2>2. QED
    BY <1>1, <1>3, <2>1
<1>6. IsPrefix(s, t)
  <2>1. n <= m
    BY DEF m
  <2>2. QED
    BY <1>3, <1>4, <1>5, <2>1 DEF IsPrefix
<1>7. QED
  BY <1>2, <1>6 DEF E

LEMMA ProgressMatches == IInv /\ Progress => EventsMatchPacket
<1>1. SUFFICES ASSUME IInv, FirstPass, step # "idle" PROVE IsPrefix(got, Expected(job))
  BY DEF Progress, FirstPass, EventsMatchPacket
<1>2. Accepted(job) /\ job \in Packets
  BY <1>1 DEF IInv, InHand, TypeOK
<1>3. CASE step \in {"confirm", "report"}
  <2>1. got = << >>
    BY <1>1, <1>3 DEF FirstPass
  <2>2. Expected(job) \in Seq(GATTEvent)
    <3>1. EventOf(job, 0) \in GATTEvent
      BY <1>2, EventTyped
    <3>2. ~Discovery(job)
      BY <1>1, <1>3 DEF IInv, InHand, Indication, Discovery
    <3>3. Expected(job) = << >> \/ Expected(job) = << EventOf(job, 0) >>
      BY <3>2, Zenon DEF Expected
    <3>4. << >> \in Seq(GATTEvent) /\ << EventOf(job, 0) >> \in Seq(GATTEvent)
      BY <3>1
    <3>5. QED
      BY <3>3, <3>4
  <2>3. QED
    BY <2>1, <2>2 DEF IsPrefix
<1>4. CASE step = "callback" /\ ~Discovery(job)
  <2>1. got = << EventOf(job, 0) >> /\ Expected(job) = << EventOf(job, 0) >>
    BY <1>1, <1>2, <1>4 DEF FirstPass, Expected
  <2>2. QED
    BY <2>1 DEF IsPrefix
<1>5. CASE step \in {"loop", "null"} \/ (step = "callback" /\ Discovery(job))
  <2>1. PICK n \in Nat : Reported(n)
    BY <1>1, <1>5 DEF FirstPass, InLoop
  <2>2. Discovery(job) /\ HasRecords(job) /\ had
    BY <1>1, <1>5 DEF IInv, InHand, NullCallCause, FirstPass, HasRecords
  <2>3. Expected(job) = Records(job)
    BY <1>2, <2>2 DEF Expected
  <2>4. QED
    BY <1>2, <2>1, <2>2, <2>3, PrefixOfRecords DEF Reported
<1>6. QED
  BY <1>1, <1>3, <1>4, <1>5 DEF IInv, TypeOK

\* The callback gets each whole record of a service list once, in order, and one
\* event of any other packet, for all record lengths and length fields; nothing is
\* repeated unless the index of the loop wraps (gatt.c:531-721).
THEOREM EventsMatch == Spec => []EventsMatchPacket
<1>1. Init => IInv /\ Progress
  BY InitHolds, InitProgress
<1>2. (IInv /\ Progress) /\ [Next]_vars => (IInv /\ Progress)'
  BY StepHolds, ProgressStep
<1>3. QED
  BY <1>1, <1>2, ProgressMatches, PTL DEF Spec

=============================================================================
