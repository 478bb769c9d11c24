----------------------------- MODULE MCUartLink -----------------------------
(***************************************************************************)
(* Packets a little longer than a FIFO of three places, and of 256 and 257 *)
(* bytes: one that fits rx_buffer exactly and one that does not.           *)
(***************************************************************************)
EXTENDS UartLink

Payload(n) == [i \in 1 .. n |-> (i + 2) % 256]
ShortPackets ==
  { [type |-> HCI_EVENT_PACKET, code |-> 14, payload |-> Payload(n)] : n \in {1, 2} } \union
  { [type |-> HCI_ASYNC_DATA_PACKET, handle |-> 64, flags |-> 2, payload |-> Payload(1)] }
LongPackets ==
  { [type |-> HCI_EVENT_PACKET, code |-> 14, payload |-> Payload(n)] : n \in {1, 253, 254} }
=============================================================================
