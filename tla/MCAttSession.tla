---------------------------- MODULE MCAttSession ----------------------------
(***************************************************************************)
(* Two peers, two local characteristics, one packet of each opcode in each *)
(* length that matters: a default MTU of 8, ACL packets of 12 bytes.  An   *)
(* answer that is an error takes the same course and is left to MCGattAtt. *)
(***************************************************************************)
EXTENDS AttSession

Acl(op, c, l2cap, count) ==
  [op |-> op, conn |-> c, total |-> IF l2cap + 4 <= 12 THEN l2cap + 4 ELSE 12,
   l2cap |-> l2cap, att |-> TRUE, count |-> count]

SessionPackets ==
  {[op |-> "ENCRYPTION_CHANGE", conn |-> "c1", l2cap |-> 4],
   Acl("EXCHANGE_MTU_RESPONSE", "c1", 3, 2),
   Acl("READ_BY_TYPE_RESPONSE", "c1", 8, 6), Acl("READ_BY_GROUP_TYPE_RESPONSE", "c1", 8, 6),
   Acl("READ_RESPONSE", "c1", 3, 2), Acl("READ_RESPONSE", "c1", 15, 2), Acl("READ_RESPONSE", "c2", 3, 2),
   Acl("WRITE_RESPONSE", "c1", 1, 2), Acl("UNKNOWN", "c1", 1, 2),
   Acl("HANDLE_VALUE_NOTIFICATION", "c1", 3, 2), Acl("HANDLE_VALUE_INDICATION", "c1", 3, 2)}

\* The second peer is one whose values are read.
MostlyFirst == [c1 |-> Function, c2 |-> {"read_characteristic"}]

TwoCharacteristics == (1 :> {"READ", "WRITE", "NOTIFY", "INDICATE"}) @@ (3 :> {})
=============================================================================
