----------------------------- MODULE MCGattAtt -----------------------------
(***************************************************************************)
(* Packets of every opcode, shorter and longer than their least length,    *)
(* and service lists of every record length around 6 up to the limit the   *)
(* loop index sets.  Past that the index wraps, and the loop ends all the  *)
(* same (records of 7 or 11 bytes) or does not (of 8).  Some packets have  *)
(* a length field that claims more than there is.                          *)
(***************************************************************************)
EXTENDS GattAtt

Acl(op, total, l2cap, att, count) ==
  [op |-> op, conn |-> "c", total |-> total, l2cap |-> l2cap, att |-> att, count |-> count]

AllPackets ==
  {[op |-> op, conn |-> "c", l2cap |-> 4] : op \in DOMAIN EventReach} \union
  {Acl(op, n + 4, n, TRUE, 2) : op \in DOMAIN Least, n \in 0 .. 6} \union
  {Acl(op, 4, n, TRUE, 2) : op \in DOMAIN Least, n \in {0, 1}} \union
  {Acl("READ_RESPONSE", 9, 5, FALSE, 2)} \union
  {Acl("READ_BY_GROUP_TYPE_RESPONSE", n + 4, n, TRUE, c) :
     n \in 2 .. 21, c \in {0, 1, 5, 6, 7, 8, 11}} \union
  {Acl("READ_BY_GROUP_TYPE_RESPONSE", 12, n, TRUE, c) : n \in 22 .. 31, c \in {6, 7, 8, 11}} \union
  {Acl(op, 5, n, TRUE, 2) : op \in DOMAIN Least, n \in {3, 5, 6}}
=============================================================================
