------------------------------- MODULE GattDb -------------------------------
(***************************************************************************)
(* The local GATT database: the array gatt_services of src/gatt.c:6-176,   *)
(* the calls that register and remove services, add characteristics and    *)
(* update their values, and the searches by UUID.  A read of a value, or a *)
(* search by handle, changes nothing and is left out.                      *)
(*                                                                         *)
(* A call that returns an error changes nothing and is not a step.  The    *)
(* fields is_primary, properties and permissions are stored and not looked *)
(* at by these calls; they are left out, and so are end_handle, which is   *)
(* never written, and gatt_event_callback, which only the client part of   *)
(* the file calls.  A value is one place of the value array: what matters  *)
(* is whether it was written.                                              *)
(***************************************************************************)
EXTENDS Naturals, FiniteSets

CONSTANTS
  Uuids,       \* UUIDs the application uses for services and characteristics
  ZeroUuid,    \* what a zeroed service holds
  Values,      \* contents of a value
  Blank,       \* the content of a place never written
  MAX_SERVICES,
  MAX_CHARACTERISTICS_PER_SERVICE,
  MAX_VALUE_LENGTH,
  HandleMod,   \* 2^16 in the code: the handles wrap
  PastWrap,    \* a bound for TLC: are handles taken once they have wrapped
  Reinits      \* after GATT_deinit the application calls GATT_init first

ASSUME GattAssumption ==
  /\ Blank \notin Values
  /\ MAX_SERVICES \in Nat \ {0}
  /\ MAX_CHARACTERISTICS_PER_SERVICE \in Nat \ {0}
  /\ MAX_VALUE_LENGTH \in Nat
  /\ HandleMod \in Nat /\ HandleMod > 2
  /\ PastWrap \in BOOLEAN
  /\ Reinits \in BOOLEAN

Services == 0 .. MAX_SERVICES - 1
Places == 0 .. MAX_CHARACTERISTICS_PER_SERVICE - 1
HandleNumber == 0 .. HandleMod - 1
Lengths == 0 .. MAX_VALUE_LENGTH

GATTCharacteristic ==
  [uuid : Uuids \union {ZeroUuid}, handle : HandleNumber, value_handle : HandleNumber,
   value : Values \union {Blank}, value_length : Lengths]

GATTService ==
  [uuid : Uuids \union {ZeroUuid}, handle : HandleNumber,
   characteristic_count : 0 .. MAX_CHARACTERISTICS_PER_SERVICE,
   characteristics : [Places -> GATTCharacteristic]]

VARIABLES
  gatt_services, service_count, next_handle,
  wrapped,     \* the handles have been used up once
  down         \* GATT_deinit was called and GATT_init was not called since

vars == << gatt_services, service_count, next_handle, wrapped, down >>

TypeOK ==
  /\ gatt_services \in [Services -> GATTService]
  /\ service_count \in 0 .. MAX_SERVICES
  /\ next_handle \in HandleNumber
  /\ wrapped \in BOOLEAN
  /\ down \in BOOLEAN

ZeroService ==
  [uuid |-> ZeroUuid, handle |-> 0, characteristic_count |-> 0,
   characteristics |->
     [j \in Places |-> [uuid |-> ZeroUuid, handle |-> 0, value_handle |-> 0,
                        value |-> Blank, value_length |-> 0]]]

Init ==
  /\ gatt_services = [i \in Services |-> ZeroService]
  /\ service_count = 0
  /\ next_handle = 1
  /\ wrapped = FALSE
  /\ down = FALSE

-----------------------------------------------------------------------------
(***************************************************************************)
(* The searches, by what they find.                                        *)
(***************************************************************************)
LiveServices == {i \in Services : i < service_count}
LivePlaces(i) == {j \in Places : j < gatt_services[i].characteristic_count}
Characteristic(i, j) == gatt_services[i].characteristics[j]

find_service_by_uuid(uuid, i) ==
  /\ i \in LiveServices
  /\ gatt_services[i].uuid = uuid
  /\ \A k \in LiveServices : gatt_services[k].uuid = uuid => i <= k

find_characteristic_by_uuid(i, uuid, j) ==
  /\ j \in LivePlaces(i)
  /\ Characteristic(i, j).uuid = uuid
  /\ \A l \in LivePlaces(i) : Characteristic(i, l).uuid = uuid => j <= l

\* What find_characteristic_by_handle looks for.
Has(i, j, handle) ==
  handle \in {Characteristic(i, j).handle, Characteristic(i, j).value_handle}

After(handle, n) == (handle + n) % HandleMod

\* next_handle++, n times.
TakeHandles(n) ==
  /\ wrapped => PastWrap
  /\ next_handle' = After(next_handle, n)
  /\ wrapped' = (wrapped \/ next_handle + n >= HandleMod)

Up == Reinits => ~down

-----------------------------------------------------------------------------
(***************************************************************************)
(* The calls.                                                              *)
(***************************************************************************)
GATT_init ==
  /\ service_count' = 0
  /\ next_handle' = 1
  /\ wrapped' = FALSE
  /\ down' = FALSE
  /\ UNCHANGED gatt_services

\* The services are zeroed; service_count and next_handle stay.
GATT_deinit ==
  /\ gatt_services' = [i \in Services |-> ZeroService]
  /\ down' = TRUE
  /\ UNCHANGED << service_count, next_handle, wrapped >>

\* Slip: the array is taken to have one more place.
GATT_register_one_more(uuid) ==
  /\ Up
  /\ service_count <= MAX_SERVICES
  /\ gatt_services' = [gatt_services EXCEPT ![service_count].uuid = uuid,
                                            ![service_count].handle = next_handle,
                                            ![service_count].characteristic_count = 0]
  /\ service_count' = service_count + 1
  /\ TakeHandles(1)
  /\ UNCHANGED down

GATT_register_service(uuid) ==
  /\ Up
  /\ service_count < MAX_SERVICES
  /\ gatt_services' = [gatt_services EXCEPT ![service_count].uuid = uuid,
                                            ![service_count].handle = next_handle,
                                            ![service_count].characteristic_count = 0]
  /\ service_count' = service_count + 1
  /\ TakeHandles(1)
  /\ UNCHANGED down

\* Slip: the last service is dropped whichever was asked for.
GATT_remove_last(uuid) ==
  /\ Up
  /\ \E i \in Services : find_service_by_uuid(uuid, i)
  /\ service_count' = service_count - 1
  /\ UNCHANGED << gatt_services, next_handle, wrapped, down >>

\* Slip: the shift moves the UUIDs and leaves the handles behind.
GATT_remove_by_uuid(uuid) ==
  /\ Up
  /\ \E i \in Services :
       /\ find_service_by_uuid(uuid, i)
       /\ gatt_services' = [k \in Services |-> IF k >= i /\ k + 1 < service_count
                            THEN [gatt_services[k] EXCEPT !.uuid = gatt_services[k + 1].uuid]
                            ELSE gatt_services[k]]
  /\ service_count' = service_count - 1
  /\ UNCHANGED << next_handle, wrapped, down >>

GATT_remove_service(uuid) ==
  /\ Up
  /\ \E i \in Services :
       /\ find_service_by_uuid(uuid, i)
       /\ gatt_services' = [k \in Services |-> IF k >= i /\ k + 1 < service_count
                                               THEN gatt_services[k + 1] ELSE gatt_services[k]]
  /\ service_count' = service_count - 1
  /\ UNCHANGED << next_handle, wrapped, down >>

\* The place that is filled, with what it holds kept where nothing is written.
NewCharacteristic(old, uuid, initial_value, value_length) ==
  [uuid |-> uuid, handle |-> next_handle, value_handle |-> After(next_handle, 1),
   value |-> IF initial_value # Blank /\ value_length > 0 THEN initial_value ELSE old.value,
   value_length |-> value_length]

\* Slip: the value shares the handle of the declaration, and only one is taken.
GATT_add_one_handle(service_uuid, uuid, initial_value, value_length) ==
  /\ Up
  /\ value_length <= MAX_VALUE_LENGTH
  /\ \E i \in Services : \E j \in Places :
       /\ find_service_by_uuid(service_uuid, i)
       /\ j = gatt_services[i].characteristic_count
       /\ gatt_services' =
            [gatt_services EXCEPT
               ![i].characteristics[j] = NewCharacteristic(@, uuid, initial_value, value_length),
               ![i].characteristic_count = @ + 1]
  /\ TakeHandles(1)
  /\ UNCHANGED << service_count, down >>

\* An initial_value of Blank stands for the NULL pointer.
GATT_add_characteristic(service_uuid, uuid, initial_value, value_length) ==
  /\ Up
  /\ value_length <= MAX_VALUE_LENGTH
  /\ \E i \in Services : \E j \in Places :
       /\ find_service_by_uuid(service_uuid, i)
       /\ j = gatt_services[i].characteristic_count
       /\ gatt_services' =
            [gatt_services EXCEPT
               ![i].characteristics[j] = NewCharacteristic(@, uuid, initial_value, value_length),
               ![i].characteristic_count = @ + 1]
  /\ TakeHandles(2)
  /\ UNCHANGED << service_count, down >>

GATT_update_characteristic_value(service_uuid, uuid, value, length) ==
  /\ Up
  /\ length <= MAX_VALUE_LENGTH
  /\ \E i \in Services : \E j \in Places :
       /\ find_service_by_uuid(service_uuid, i)
       /\ find_characteristic_by_uuid(i, uuid, j)
       /\ gatt_services' =
            [gatt_services EXCEPT
               ![i].characteristics[j].value = IF length > 0 THEN value ELSE @,
               ![i].characteristics[j].value_length = length]
  /\ UNCHANGED << service_count, next_handle, wrapped, down >>

Next ==
  \/ GATT_init \/ GATT_deinit
  \/ \E s \in Uuids : GATT_register_service(s) \/ GATT_remove_service(s)
  \/ \E s, c \in Uuids, n \in Lengths :
       \/ \E v \in Values \union {Blank} : GATT_add_characteristic(s, c, v, n)
       \/ \E v \in Values : GATT_update_characteristic_value(s, c, v, n)

Spec == Init /\ [][Next]_vars

-----------------------------------------------------------------------------
(***************************************************************************)
(* The attributes of the database: a service is one, a characteristic two. *)
(***************************************************************************)
ServiceHandle(i) == gatt_services[i].handle
HandlesOf(i, j) == {Characteristic(i, j).handle, Characteristic(i, j).value_handle}

\* What the holders of a handle are.
Owners(handle) ==
  {<< gatt_services[i].uuid, "service" >> :
     i \in {k \in LiveServices : ServiceHandle(k) = handle}} \union
  UNION {{<< gatt_services[i].uuid, Characteristic(i, j).uuid, Characteristic(i, j).handle = handle >> :
            j \in {l \in LivePlaces(i) : Has(i, l, handle)}} : i \in LiveServices}

Sound == ~wrapped /\ ~down

\* No two attributes have one handle, through all registrations and removals,
\* until the 16-bit handles have been used up (gatt.c:68, 97, 122-123): the
\* first match of a search by handle (gatt.c:32-42) is the only one.
HandlesDistinct ==
  Sound =>
    \A i, k \in LiveServices :
      /\ i # k => ServiceHandle(i) # ServiceHandle(k)
      /\ \A l \in LivePlaces(k) :
           /\ ServiceHandle(i) \notin HandlesOf(k, l)
           /\ Characteristic(k, l).handle # Characteristic(k, l).value_handle
           /\ \A j \in LivePlaces(i) :
                (i # k \/ j # l) => HandlesOf(i, j) \intersect HandlesOf(k, l) = {}

\* A handle in use before and after a call means the same attribute: a removal
\* moves the services in the array and renumbers nothing (gatt.c:94-99).
HandlesKeepOwner ==
  [][(Sound /\ Sound' /\ ~GATT_init) =>
       \A h \in HandleNumber : Owners(h) = {} \/ Owners(h)' \in {{}, Owners(h)}]_vars

\* The database is the list of services that GattTable describes: what a call
\* names is what it changes, and nothing else is lost or moved (gatt.c:44-153).
Table ==
  [i \in 1 .. service_count |->
     [uuid |-> gatt_services[i - 1].uuid, handle |-> gatt_services[i - 1].handle,
      characteristics |->
        [j \in 1 .. gatt_services[i - 1].characteristic_count |-> Characteristic(i - 1, j - 1)]]]

AbstractTable == INSTANCE GattTable WITH
  Values <- Values \union {Blank},
  table <- IF down THEN << >> ELSE Table,
  next <- IF down THEN 1 ELSE next_handle

ImplementsTable == AbstractTable!Spec
=============================================================================
