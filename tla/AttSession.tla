----------------------------- MODULE AttSession -----------------------------
(***************************************************************************)
(* The requests of the GATT client (gatt.c:178-475) in a session with      *)
(* peers.  The application's thread fills the packet of the function it    *)
(* called, a static buffer, HCI_send_async_data copies it behind a header, *)
(* and hw_transmit_buffer hands it byte by byte to the UART, here in two   *)
(* halves.  Received packets are handled as GattAtt says, in the interrupt *)
(* that received them: the thread takes no step meanwhile, and the         *)
(* callback may make requests of its own.                                  *)
(*                                                                         *)
(* Received packets carry the header of L2CAP and requests do not: the     *)
(* README has that layer still to be written, and the peers here get a     *)
(* request as it would pass it on.                                         *)
(*                                                                         *)
(* Values are left out: 8 + MAX_VALUE_LENGTH is less than MAX_PACKET_SIZE, *)
(* so HCI_send_async_data refuses no request.  A call that returns an      *)
(* error changes nothing and is no step.                                   *)
(***************************************************************************)
EXTENDS GattAtt, FiniteSetsExt

CONSTANTS
  Used,             \* the functions the application calls, per connection
  Properties,       \* of the local characteristics, by handle
  Mtus,             \* the values the application asks for
  ATT_DEFAULT_MTU,
  AclSize,          \* the controller's ACL packets have so much data at most
  MaxAsked,         \* bound on the requests without an answer
  MaxAir,           \* bound on the packets on their way
  PastHarm          \* a bound for TLC: does the session go on after a disturbed request

Function ==
  {"send_notification", "send_indication", "discover_services", "discover_characteristics",
   "subscribe_characteristic", "unsubscribe_characteristic", "read_characteristic",
   "write_characteristic", "read_descriptor", "write_descriptor", "exchange_mtu"}

ASSUME SessionAssumption ==
  /\ Used \in [Connections -> SUBSET Function]
  /\ DOMAIN Properties \subseteq Nat
  /\ \A h \in DOMAIN Properties :
       Properties[h] \subseteq {"READ", "WRITE", "NOTIFY", "INDICATE"}
  /\ Mtus \subseteq Nat
  /\ ATT_DEFAULT_MTU \in Nat /\ ATT_DEFAULT_MTU + 4 <= AclSize
  /\ AclSize \in Nat
  /\ MaxAsked \in Nat \ {0} /\ MaxAir \in Nat \ {0}
  /\ PastHarm \in BOOLEAN

VARIABLES
  pc,          \* where the thread is in a request
  req,         \* the request the thread is in
  bytes,       \* what the thread is about to send: the static packet of its
               \* function, once encoded its copy
  asked,       \* per connection, what the application asked and no answer came to
  peer,        \* per connection, what the peer received and did not answer
  air,         \* packets on their way to the host, with what they answer
  matched,     \* the answer in hand is one to the oldest request of its connection
  awaiting,    \* the peer waits for the confirmation of an indication
  mtu,         \* per connection
  disturbed    \* a request was disturbed, see Harms

sessionVars == << pc, req, bytes, asked, peer, air, matched, awaiting, mtu, disturbed >>
allVars == << vars, sessionVars >>

Request == [fn : Function, conn : Connections, arg : Nat]
NoRequest == [fn |-> "none", arg |-> 0]
Content == [fn : Function, arg : Nat] \union {NoRequest}
ContentOf(r) == [fn |-> r.fn, arg |-> r.arg]

SessionTypeOK ==
  /\ TypeOK
  /\ pc \in {"idle", "filled", "encoded", "half"}
  /\ req \in Request \union {NoRequest}
  /\ bytes \in Content
  /\ asked \in [Connections -> Seq(Content)] /\ peer \in [Connections -> Seq(Content)]
  /\ air \in Seq([packet : Packets, answers : Content])
  /\ matched \in BOOLEAN
  /\ awaiting \in [Connections -> BOOLEAN]
  /\ mtu \in [Connections -> Nat]
  /\ disturbed \in BOOLEAN

SessionInit ==
  /\ Init
  /\ pc = "idle" /\ req = NoRequest /\ bytes = NoRequest /\ matched = TRUE
  /\ asked = [c \in Connections |-> << >>] /\ peer = [c \in Connections |-> << >>]
  /\ air = << >>
  /\ awaiting = [c \in Connections |-> FALSE]
  /\ mtu = [c \in Connections |-> ATT_DEFAULT_MTU]
  /\ disturbed = FALSE

-----------------------------------------------------------------------------
(***************************************************************************)
(* A request: by the thread, which fills the packet and goes on, or by the *)
(* callback, where it runs to its end before the thread goes on.           *)
(***************************************************************************)
Outstanding == FoldFunction(LAMBDA s, n : Len(s) + n, 0, asked)

\* Does a request of the callback write into the packet the thread has filled?
\* Every call fills what it sends, so packets of other functions do not matter.
\* Slip: the functions share one static packet.
SharedPacket(r) == pc = "filled"

SamePacket(r) == pc = "filled" /\ r.fn = req.fn

\* A notification is the one thing that no peer answers.
Answered(r) == r.fn # "send_notification"

\* What is transmitted in the interrupt disturbs the thread's request when it
\* falls into its bytes, refills its packet or overtakes it to the same peer.
Harms(r) ==
  \/ pc = "half"
  \/ pc = "filled" /\ r.fn = req.fn /\ r.arg # req.arg
  \/ pc \in {"filled", "encoded"} /\ r.conn = req.conn /\ Answered(r) /\ Answered(req)

\* A controller whose framing was broken passes nothing on.
Arrives(c, content) ==
  peer' = IF disturbed' \/ ~Answered(content) THEN peer ELSE [peer EXCEPT ![c] = Append(@, content)]

Ask(r) ==
  /\ Outstanding < MaxAsked
  /\ asked' = IF Answered(r) THEN [asked EXCEPT ![r.conn] = Append(@, ContentOf(r))] ELSE asked
  /\ \/ /\ step = "idle" /\ pc = "idle"
        /\ pc' = "filled" /\ req' = r /\ bytes' = ContentOf(r)
        /\ UNCHANGED << peer, disturbed >>
     \/ /\ step = "callback"
        /\ bytes' = IF SamePacket(r) THEN ContentOf(r) ELSE bytes
        /\ disturbed' = (disturbed \/ Harms(r))
        /\ Arrives(r.conn, ContentOf(r))
        /\ UNCHANGED << pc, req >>
  /\ UNCHANGED << vars, air, matched, awaiting, mtu >>

\* HCI_encode_packet copies the static packet behind the header of the call.
Encode ==
  /\ step = "idle" /\ pc = "filled"
  /\ pc' = "encoded"
  /\ UNCHANGED << vars, req, bytes, asked, peer, air, matched, awaiting, mtu, disturbed >>

TransmitHalf ==
  /\ step = "idle" /\ pc = "encoded"
  /\ pc' = "half"
  /\ UNCHANGED << vars, req, bytes, asked, peer, air, matched, awaiting, mtu, disturbed >>

TransmitRest ==
  /\ step = "idle" /\ pc = "half"
  /\ pc' = "idle" /\ req' = NoRequest /\ bytes' = NoRequest
  /\ UNCHANGED disturbed
  /\ Arrives(req.conn, bytes)
  /\ UNCHANGED << vars, asked, air, matched, awaiting, mtu >>

-----------------------------------------------------------------------------
(***************************************************************************)
(* The functions: what a local characteristic of the handle must offer,    *)
(* and what is sent.                                                       *)
(***************************************************************************)
Offers(h, any) == h \in DOMAIN Properties /\ Properties[h] \intersect any # {}

Call(fn, c, arg) == fn \in Used[c] /\ Ask([fn |-> fn, conn |-> c, arg |-> arg])

GATT_send_notification(c, h) ==
  Offers(h, {"NOTIFY"}) /\ Call("send_notification", c, h)
GATT_send_indication(c, h) ==
  Offers(h, {"INDICATE"}) /\ Call("send_indication", c, h)
GATT_discover_services(c) ==
  Call("discover_services", c, 0)
GATT_discover_characteristics(c) ==
  Call("discover_characteristics", c, 0)
GATT_subscribe_characteristic(c, h) ==
  Offers(h, {"INDICATE", "NOTIFY"}) /\ Call("subscribe_characteristic", c, h + 2)
GATT_unsubscribe_characteristic(c, h) ==
  Offers(h, {"INDICATE", "NOTIFY"}) /\ Call("unsubscribe_characteristic", c, h + 2)
GATT_read_characteristic(c, h) ==
  Offers(h, {"READ"}) /\ Call("read_characteristic", c, h)
GATT_write_characteristic(c, h) ==
  Offers(h, {"WRITE"}) /\ Call("write_characteristic", c, h)
GATT_read_descriptor(c, h) ==
  Call("read_descriptor", c, h)
GATT_write_descriptor(c, h) ==
  Call("write_descriptor", c, h)
GATT_exchange_mtu(c, client_mtu) ==
  client_mtu >= ATT_DEFAULT_MTU /\ Call("exchange_mtu", c, client_mtu)

AnyRequest ==
  \E c \in Connections :
    \/ GATT_discover_services(c) \/ GATT_discover_characteristics(c)
    \/ \E client_mtu \in Mtus : GATT_exchange_mtu(c, client_mtu)
    \/ \E h \in DOMAIN Properties :
         \/ GATT_send_notification(c, h) \/ GATT_send_indication(c, h)
         \/ GATT_subscribe_characteristic(c, h) \/ GATT_unsubscribe_characteristic(c, h)
         \/ GATT_read_characteristic(c, h) \/ GATT_write_characteristic(c, h)
         \/ GATT_read_descriptor(c, h) \/ GATT_write_descriptor(c, h)

-----------------------------------------------------------------------------
(***************************************************************************)
(* Reception: GattAtt, fed with what the peers sent.                       *)
(***************************************************************************)
Take ==
  /\ air # << >>
  /\ Receive(Head(air).packet)
  /\ air' = Tail(air)
  /\ LET c == Head(air).packet.conn
         answers == Head(air).answers
     IN IF answers = NoRequest THEN matched' = TRUE /\ UNCHANGED asked
        ELSE /\ matched' = (asked[c] # << >> /\ Head(asked[c]) = answers)
             /\ asked' = [asked EXCEPT ![c] = IF @ = << >> THEN @ ELSE Tail(@)]
  /\ UNCHANGED << pc, req, bytes, peer, awaiting, mtu, disturbed >>

\* The confirmation is built on the stack and sent at once.
SendConfirmation ==
  /\ Confirm
  /\ disturbed' = (disturbed \/ pc = "half")
  /\ awaiting' = IF disturbed' \/ confirms' = confirms THEN awaiting ELSE [awaiting EXCEPT ![job.conn] = FALSE]
  /\ UNCHANGED << pc, req, bytes, asked, peer, air, matched, mtu >>

Handle == (Report \/ NextRecord \/ EndLoop \/ Return) /\ UNCHANGED sessionVars

RegisterHandler(on) == GATT_register_event_handler(on) /\ UNCHANGED sessionVars

-----------------------------------------------------------------------------
(***************************************************************************)
(* The peers (external): each answers its requests in order, sends what is *)
(* within the MTU, and waits for the confirmation of an indication.        *)
(***************************************************************************)
AnswerOp(fn) == CASE fn = "send_indication"          -> "UNKNOWN"
                  [] fn = "discover_services"        -> "READ_BY_GROUP_TYPE_RESPONSE"
                  [] fn = "discover_characteristics" -> "READ_BY_TYPE_RESPONSE"
                  [] fn \in {"read_characteristic", "read_descriptor"} -> "READ_RESPONSE"
                  [] fn = "exchange_mtu"             -> "EXCHANGE_MTU_RESPONSE"
                  [] OTHER                           -> "WRITE_RESPONSE"

\* What is longer than an ACL packet goes on in a second one, whose first bytes
\* may look like any header.
Send(p, answers) ==
  /\ Len(air) < MaxAir
  /\ Accepted(p) /\ p.l2cap <= mtu[p.conn]
  /\ IF p.l2cap + 4 <= AclSize
     THEN p.total = p.l2cap + 4 /\ air' = Append(air, [packet |-> p, answers |-> answers])
     ELSE /\ p.total = AclSize
          /\ \E rest \in Packets \intersect AclPacket :
               /\ rest.conn = p.conn /\ rest.total = p.l2cap + 4 - AclSize
               /\ air' = air \o << [packet |-> p, answers |-> answers],
                                    [packet |-> rest, answers |-> NoRequest] >>

Answer(c) ==
  /\ peer[c] # << >>
  /\ \E p \in Packets \intersect AclPacket :
       /\ p.conn = c /\ p.op \in {AnswerOp(Head(peer[c]).fn), "ERROR_RESPONSE"}
       /\ Send(p, Head(peer[c]))
       /\ mtu' = [mtu EXCEPT ![c] = IF p.op = "EXCHANGE_MTU_RESPONSE"
                                    THEN Max({@, Head(peer[c]).arg}) ELSE @]
  /\ peer' = [peer EXCEPT ![c] = Tail(@)]
  /\ UNCHANGED << vars, pc, req, bytes, asked, matched, awaiting, disturbed >>

Tell(c) ==
  /\ \E p \in Packets \intersect AclPacket :
       /\ p.conn = c /\ p.op \in {"HANDLE_VALUE_NOTIFICATION", "HANDLE_VALUE_INDICATION"}
       /\ p.op = "HANDLE_VALUE_INDICATION" => ~awaiting[c]
       /\ Send(p, NoRequest)
       /\ awaiting' = [awaiting EXCEPT ![c] = @ \/ p.op = "HANDLE_VALUE_INDICATION"]
  /\ UNCHANGED << vars, pc, req, bytes, asked, peer, matched, mtu, disturbed >>

-----------------------------------------------------------------------------
SessionNext ==
  /\ disturbed => PastHarm
  /\ \/ AnyRequest
     \/ Encode \/ TransmitHalf \/ TransmitRest
     \/ Take \/ SendConfirmation \/ Handle
     \/ \E on \in BOOLEAN : RegisterHandler(on)
     \/ \E c \in Connections : Answer(c) \/ Tell(c)

SessionSpec == SessionInit /\ [][SessionNext]_allVars

\* The interrupt is taken and its handling goes on; the rest may stop.
SessionFairSpec == SessionSpec /\ WF_allVars(Take) /\ WF_allVars(SendConfirmation \/ Handle)

-----------------------------------------------------------------------------
\* The application may take each answer for the answer to its oldest request of
\* the connection, though calls of the thread and of the callback share static
\* packets and one UART, unless one was made at a moment that harms (gatt.c:178-475).
AnswersMatch == disturbed \/ matched

\* No packet needs a second fragment, which GATT_handle_acl_data would take for one.
SmallMtu == \A c \in Connections : mtu[c] + 4 <= AclSize

\* A confirmation goes to a peer that waits for one (gatt.c:664-670).
NoStrayConfirmation ==
  [][SendConfirmation => disturbed' \/ ~SmallMtu \/ (awaiting[job.conn] /\ ~awaiting'[job.conn])]_allVars

\* A peer that waits for a confirmation gets it, callback or not, in the middle of
\* whatever the application does, unless the transmission was disturbed.
IndicationConfirmed == \A c \in Connections : awaiting[c] ~> (~awaiting[c] \/ disturbed)
=============================================================================
