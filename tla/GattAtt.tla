------------------------------ MODULE GattAtt ------------------------------
(***************************************************************************)
(* What the GATT client makes of received packets: GATT_handle_hci_event,  *)
(* GATT_handle_acl_data and GATT_process_att_packet of src/gatt.c, and the *)
(* callback they call.  The application hands the packets over: nothing in *)
(* src/ does, HCI_handle_async_data is empty.                              *)
(*                                                                         *)
(* A packet is its lengths and its opcode; a byte of it is an index into   *)
(* the ATT packet, and an event says which bytes it hands on.  Between the *)
(* records of a discovered service list the application's callback runs,   *)
(* and may register another handler or none.                               *)
(***************************************************************************)
EXTENDS Integers, Sequences, SequencesExt

CONSTANTS
  Connections,   \* connection handles
  Packets,       \* what may be handed over, see AclPacket and HciEvent
  IndexMod,      \* 2^16 in the code: the loop index i is a uint16_t
  Unregisters    \* may the callback be taken away

\* Bytes an ATT packet must have for its opcode; UNKNOWN is the default case.
Least ==
  [ERROR_RESPONSE |-> 5, EXCHANGE_MTU_RESPONSE |-> 3, READ_RESPONSE |-> 1,
   READ_BY_TYPE_RESPONSE |-> 2, READ_BY_GROUP_TYPE_RESPONSE |-> 2, WRITE_RESPONSE |-> 1,
   HANDLE_VALUE_NOTIFICATION |-> 3, HANDLE_VALUE_INDICATION |-> 3,
   FIND_INFORMATION_RESPONSE |-> 2, FIND_BY_TYPE_VALUE_RESPONSE |-> 1, UNKNOWN |-> 1]

\* The number of parameter bytes looked at; other events are not looked into.
EventReach == [DISCONNECTION_COMPLETE |-> 3, ENCRYPTION_CHANGE |-> 4]

\* l2cap is the length field in the data, and total the length of the data, which
\* the code does not compare; count is the second byte of the ATT packet.
AclPacket ==
  [op : DOMAIN Least, conn : Connections, total : Nat, l2cap : Nat, att : BOOLEAN, count : 0 .. 255]

\* l2cap is the number of parameters.
HciEvent == [op : DOMAIN EventReach, conn : Connections, l2cap : Nat]

ASSUME AttAssumption ==
  /\ Packets \subseteq AclPacket \union HciEvent
  /\ IndexMod \in Nat /\ IndexMod > 2
  /\ \A p \in Packets \intersect AclPacket :
       p.l2cap < IndexMod /\ p.count + 2 < IndexMod    \* a uint16_t and a uint8_t
  /\ Unregisters \in BOOLEAN

VARIABLES
  handler,       \* is gatt_event_callback set
  job,           \* the packet in hand, or the last one
  had,           \* was there a handler when job came
  step,          \* where its handling is
  i,             \* the loop index
  again,         \* has the index wrapped for job
  got,           \* the events the callback was given for job until then
  confirms,      \* confirmations sent for job
  reach          \* bytes of job looked at or handed on

vars == << handler, job, had, step, i, again, got, confirms, reach >>

IsEvent(p) == p.op \in DOMAIN EventReach

\* Slip: a break is missing, and a notification is taken for an indication.
FallsThrough(p) == p.op \in {"HANDLE_VALUE_NOTIFICATION", "HANDLE_VALUE_INDICATION"}

Indication(p) == p.op = "HANDLE_VALUE_INDICATION"

Discovery(p) == p.op = "READ_BY_GROUP_TYPE_RESPONSE"

GATTEvent ==
  [type : DOMAIN Least \union DOMAIN EventReach, conn : Connections,
   attribute : 0 .. 2, from : 0 .. 3, length : Nat, record : Nat]

TypeOK ==
  /\ handler \in BOOLEAN /\ had \in BOOLEAN
  /\ job \in Packets
  /\ step \in {"idle", "confirm", "report", "loop", "callback", "null"}
  /\ i \in 0 .. IndexMod - 1 /\ again \in BOOLEAN
  /\ got \in Seq(GATTEvent)
  /\ confirms \in 0 .. 1
  /\ reach \in Nat

Init ==
  /\ handler = FALSE /\ had = FALSE
  /\ job \in {p \in Packets : IsEvent(p)}
  /\ step = "idle" /\ i = 0 /\ again = FALSE /\ got = << >> /\ confirms = 0 /\ reach = 0

-----------------------------------------------------------------------------
(***************************************************************************)
(* The events.  attribute is the index of the attribute handle, 0 for      *)
(* none; record is the index of a discovered service, 0 for none.          *)
(***************************************************************************)
AttributeAt(op) == CASE op = "ERROR_RESPONSE" -> 2
                     [] op \in {"HANDLE_VALUE_NOTIFICATION", "HANDLE_VALUE_INDICATION"} -> 1
                     [] OTHER -> 0

DataFrom(op) == CASE op \in {"HANDLE_VALUE_NOTIFICATION", "HANDLE_VALUE_INDICATION",
                             "ENCRYPTION_CHANGE"} -> 3
                  [] op \in {"UNKNOWN", "WRITE_RESPONSE", "DISCONNECTION_COMPLETE"} -> 0
                  [] OTHER -> 1

DataLength(p) == CASE p.op \in {"WRITE_RESPONSE", "DISCONNECTION_COMPLETE"} -> 0
                   [] p.op = "EXCHANGE_MTU_RESPONSE" -> 2
                   [] p.op = "ENCRYPTION_CHANGE" -> 1
                   [] OTHER -> p.l2cap - DataFrom(p.op)

EventOf(p, record) ==
  [type |-> p.op, conn |-> p.conn, attribute |-> AttributeAt(p.op),
   from |-> DataFrom(p.op), length |-> DataLength(p), record |-> record]

Further(n) == reach' = IF n > reach THEN n ELSE reach

-----------------------------------------------------------------------------
(***************************************************************************)
(* GATT_handle_acl_data and the checks of GATT_process_att_packet.         *)
(***************************************************************************)
Accepted(p) == IsEvent(p) \/ (p.total >= 5 /\ p.att /\ p.l2cap >= Least[p.op])

\* Slip: the records may have any length.
AnyRecords(p) == Discovery(p)

HasRecords(p) == Discovery(p) /\ p.count >= 6

\* Where the handling of an accepted packet goes once the callback is known.
Reporting(p) == IF ~handler \/ (Discovery(p) /\ ~HasRecords(p)) THEN "idle"
                ELSE IF Discovery(p) THEN "loop" ELSE "report"

\* Slip: what was done for the packet before is taken into account.
ReceiveKeepsConfirms(p) ==
  /\ step = "idle"
  /\ job' = p
  /\ had' = handler
  /\ got' = << >>
  /\ i' = 2 /\ again' = FALSE
  /\ reach' = 0
  /\ step' = IF Indication(p) THEN "confirm" ELSE "idle"
  /\ UNCHANGED << handler, confirms >>

Receive(p) ==
  /\ step = "idle"
  /\ job' = p
  /\ had' = handler
  /\ got' = << >>
  /\ confirms' = 0
  /\ i' = 2 /\ again' = FALSE
  /\ reach' = IF IsEvent(p) THEN (IF handler THEN EventReach[p.op] ELSE 0)
              ELSE IF Accepted(p) THEN Least[p.op] ELSE 0
  /\ step' = IF ~Accepted(p) THEN "idle"
             ELSE IF Indication(p) THEN "confirm" ELSE Reporting(p)
  /\ UNCHANGED handler

\* Slip: once it has confirmed, it takes the callback for granted.
ConfirmAndReport ==
  /\ step = "confirm"
  /\ confirms' = confirms + 1
  /\ step' = "report"
  /\ UNCHANGED << handler, job, had, i, again, got, reach >>

\* Slip: the indication is confirmed for the callback, and not without one.
ConfirmIfHandled ==
  /\ step = "confirm"
  /\ confirms' = IF handler THEN confirms + 1 ELSE confirms
  /\ step' = Reporting(job)
  /\ UNCHANGED << handler, job, had, i, again, got, reach >>

Confirm ==
  /\ step = "confirm"
  /\ confirms' = confirms + 1
  /\ step' = Reporting(job)
  /\ UNCHANGED << handler, job, had, i, again, got, reach >>

\* gatt_event_callback is read again for each call.  What is reported once the
\* index has wrapped is not kept: the loop may then have no end.
CallBack(record) ==
  IF handler
  THEN step' = "callback" /\ got' = IF again THEN got ELSE Append(got, EventOf(job, record))
  ELSE step' = "null" /\ UNCHANGED got

Report ==
  /\ step = "report"
  /\ CallBack(0)
  /\ Further(DataFrom(job.op) + DataLength(job))
  /\ UNCHANGED << handler, job, had, i, again, confirms >>

\* Slip: a record that is cut off at the end is reported too.
ReportAnyRecord ==
  /\ step = "loop"
  /\ i < job.l2cap
  /\ i' = (i + job.count) % IndexMod
  /\ again' = (again \/ i + job.count >= IndexMod)
  /\ CallBack(i) /\ Further(i + 6)
  /\ UNCHANGED << handler, job, had, confirms >>

\* Slip: where a record is not whole the loop goes on without a step.
ContinueWithoutStep ==
  /\ step = "loop"
  /\ i + job.count <= job.l2cap
  /\ i' = (i + job.count) % IndexMod
  /\ again' = (again \/ i + job.count >= IndexMod)
  /\ CallBack(i) /\ Further(i + 6)
  /\ UNCHANGED << handler, job, had, confirms >>

\* One turn of the loop over the discovered services.
NextRecord ==
  /\ step = "loop"
  /\ i < job.l2cap
  /\ i' = (i + job.count) % IndexMod
  /\ again' = (again \/ i + job.count >= IndexMod)
  /\ IF i + job.count <= job.l2cap
     THEN CallBack(i) /\ Further(i + 6)
     ELSE UNCHANGED << step, got, reach >>
  /\ UNCHANGED << handler, job, had, confirms >>

EndLoop ==
  /\ step = "loop"
  /\ i >= job.l2cap
  /\ step' = "idle"
  /\ UNCHANGED << handler, job, had, i, again, got, confirms, reach >>

Return ==
  /\ step = "callback"
  /\ step' = IF Discovery(job) THEN "loop" ELSE "idle"
  /\ UNCHANGED << handler, job, had, i, again, got, confirms, reach >>

\* GATT_register_event_handler; GATT_init and GATT_deinit take it away.
GATT_register_event_handler(on) ==
  /\ step \in {"idle", "callback"}
  /\ on \/ Unregisters
  /\ handler' = on
  /\ UNCHANGED << job, had, step, i, again, got, confirms, reach >>

Handling == Confirm \/ Report \/ NextRecord \/ EndLoop \/ Return

Next ==
  \/ \E p \in Packets : Receive(p)
  \/ Handling
  \/ \E on \in BOOLEAN : GATT_register_event_handler(on)

Spec == Init /\ [][Next]_vars

\* The processor runs and the callback returns.
FairSpec == Spec /\ WF_vars(Handling)

-----------------------------------------------------------------------------
\* What the callback is owed: the whole records of a service list, as windows of the packet.
Records(p) ==
  IF p.count < 6 THEN << >>
  ELSE [k \in 1 .. (p.l2cap - 2) \div p.count |-> EventOf(p, 2 + (k - 1) * p.count)]

Expected(p) == IF ~had \/ ~Accepted(p) THEN << >>
               ELSE IF Discovery(p) THEN Records(p) ELSE << EventOf(p, 0) >>

\* Some record begins below the length and ends where the uint16_t index has no
\* number any more (gatt.c:617).
Wraps(p) ==
  /\ HasRecords(p)
  /\ \E k \in 0 .. p.l2cap : 2 + k * p.count < p.l2cap /\ 2 + (k + 1) * p.count >= IndexMod

\* Wherever it wraps to, the index never meets the length.
Endless(p) ==
  HasRecords(p) /\ \A k \in 0 .. IndexMod - 1 : (2 + k * p.count) % IndexMod < p.l2cap

\* The callback gets exactly the events of the packet: each whole record of a
\* service list once, in order, one event of any other packet (gatt.c:531-721).
\* Only the index can spoil that: where it wraps, all this has been given before
\* the loop starts over.
EventsMatchPacket ==
  IF again THEN Wraps(job) /\ got = Expected(job)
  ELSE IF step = "idle" THEN got = Expected(job) ELSE IsPrefix(got, Expected(job))

\* No byte beyond the length field is looked at or handed on, whatever the lengths
\* of the records (gatt.c:526, 617-626); of an event, none beyond its parameters.
\* So the data are read past their end only if the field claims more than there is,
\* which gatt.c:522-526 does not check.
ReadsInside == reach <= IF IsEvent(job) THEN EventReach[job.op] ELSE job.l2cap

\* An indication is confirmed, once, before the callback hears of it and also
\* when there is none; nothing else is (gatt.c:659-681).
ConfirmedFirst ==
  step # "confirm" => confirms = IF Indication(job) /\ Accepted(job) THEN 1 ELSE 0

\* A call of no function comes only after a callback that was given a record of
\* a service list took the handler away: the loop does not ask again (gatt.c:607, 624).
NullCallCause == step = "null" => Discovery(job) /\ Len(got) > 0 /\ Unregisters

\* The handling of a packet ends, whatever record length the peer gave, but for a
\* list so long that no number the index comes to lies between its length and 2^16:
\* for that one the loop of gatt.c:617 has no end.
PacketIsHandled == step # "idle" ~> (step \in {"idle", "null"} \/ Endless(job))
=============================================================================
