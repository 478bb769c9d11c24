----------------------------- MODULE GattTable -----------------------------
(***************************************************************************)
(* What the local GATT database promises: a list of services in the order  *)
(* of their registration, each with the list of its characteristics, and   *)
(* handles given out in increasing order.  A UUID names the first service, *)
(* and within it the first characteristic, that has it.                    *)
(***************************************************************************)
EXTENDS Naturals, Sequences, SequencesExt

CONSTANTS Uuids, Values, Lengths, HandleMod

VARIABLES table, next

After(h, n) == (h + n) % HandleMod

Named(list, i, uuid) ==
  /\ i \in DOMAIN list
  /\ list[i].uuid = uuid
  /\ \A k \in 1 .. i - 1 : list[k].uuid # uuid

Empty == table' = << >> /\ next' = 1

RegisterService(uuid) ==
  /\ next' = After(next, 1)
  /\ table' = Append(table, [uuid |-> uuid, handle |-> next, characteristics |-> << >>])

RemoveService(uuid) ==
  /\ UNCHANGED next
  /\ \E i \in DOMAIN table : Named(table, i, uuid) /\ table' = RemoveAt(table, i)

\* A value that was not given may be anything.
AddCharacteristic(service, uuid, value, length) ==
  /\ next' = After(next, 2)
  /\ \E i \in DOMAIN table :
       /\ Named(table, i, service)
       /\ table' = [table EXCEPT ![i].characteristics =
                      Append(@, [uuid |-> uuid, handle |-> next, value_handle |-> After(next, 1),
                                 value |-> value, value_length |-> length])]

UpdateValue(service, uuid, value, length) ==
  /\ UNCHANGED next
  /\ \E i \in DOMAIN table : \E j \in DOMAIN table[i].characteristics :
       /\ Named(table, i, service)
       /\ Named(table[i].characteristics, j, uuid)
       /\ table' = [table EXCEPT ![i].characteristics[j].value = IF length = 0 THEN @ ELSE value,
                                 ![i].characteristics[j].value_length = length]

Init == table = << >> /\ next = 1

Next ==
  \/ Empty
  \/ \E s \in Uuids : RegisterService(s) \/ RemoveService(s)
  \/ \E s, c \in Uuids, v \in Values, n \in Lengths : AddCharacteristic(s, c, v, n) \/ UpdateValue(s, c, v, n)

Spec == Init /\ [][Next]_<< table, next >>
=============================================================================
