------------------------------ MODULE MCHciRx ------------------------------
(***************************************************************************)
(* Packets at the edges of the receiver's arithmetic.  Payload bytes       *)
(* differ from their neighbours, so that a shifted copy is seen, and pass  *)
(* through the values 2 and 4 that begin a packet.                         *)
(***************************************************************************)
EXTENDS HciRx

Payload(n) == [i \in 1 .. n |-> (i + 1) % 256]
Ev(n) == [type |-> HCI_EVENT_PACKET, code |-> 14, payload |-> Payload(n)]
Acl(n, h) == [type |-> HCI_ASYNC_DATA_PACKET, handle |-> h, flags |-> 9, payload |-> Payload(n)]

EdgePackets ==
  { Ev(n) : n \in {1, 4, 252, 253, 254, 255} } \union
  { Acl(1, 64), Acl(2, 255), Acl(9, 2060), Acl(90, 256), Acl(250, 3), Acl(251, 64), Acl(256, 64) }
=============================================================================
