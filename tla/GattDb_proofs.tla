--------------------------- MODULE GattDb_proofs ---------------------------
(***************************************************************************)
(* Theorems of GattDb: its types, that no two attributes share a handle,   *)
(* that a handle keeps its owner, and that the arrays implement GattTable, *)
(* for every size of the arrays and every number of handles.               *)
(***************************************************************************)
EXTENDS GattDb, SequenceTheorems, TLAPS

-----------------------------------------------------------------------------
(***************************************************************************)
(* Type correctness.                                                       *)
(***************************************************************************)

\* The sizes and the numbers they bound.
LEMMA Sizes ==
  /\ MAX_SERVICES \in Nat /\ MAX_SERVICES > 0
  /\ MAX_CHARACTERISTICS_PER_SERVICE \in Nat /\ MAX_CHARACTERISTICS_PER_SERVICE > 0
  /\ HandleMod \in Nat /\ HandleMod > 2
  /\ MAX_VALUE_LENGTH \in Nat
BY GattAssumption

\* A handle that was stepped on is a handle.
LEMMA AfterIsHandle ==
  ASSUME NEW h \in HandleNumber, NEW n \in Nat
  PROVE  After(h, n) \in HandleNumber
BY Sizes DEF HandleNumber, After

\* As long as they do not wrap, handles are stepped on by addition.
LEMMA AfterAdds ==
  ASSUME NEW h \in HandleNumber, NEW n \in Nat, h + n < HandleMod
  PROVE  After(h, n) = h + n
BY Sizes DEF HandleNumber, After

\* The zeroed array is an array of services.
LEMMA ZeroIsService == ZeroService \in GATTService
BY Sizes DEF ZeroService, GATTService, GATTCharacteristic, HandleNumber, Lengths

\* Registering writes a service.
LEMMA RegisterType ==
  ASSUME TypeOK, NEW uuid \in Uuids, GATT_register_service(uuid)
  PROVE  TypeOK'
<1>1. service_count \in Services
  BY Sizes DEF GATT_register_service, TypeOK, Services
<1>2. /\ gatt_services[service_count] \in GATTService
      /\ next_handle \in HandleNumber /\ uuid \in Uuids \union {ZeroUuid}
      /\ 0 \in 0 .. MAX_CHARACTERISTICS_PER_SERVICE
  BY <1>1, Sizes DEF TypeOK
<1>3. gatt_services' \in [Services -> GATTService]
  <2>1. gatt_services' = [gatt_services EXCEPT ![service_count] =
          [gatt_services[service_count] EXCEPT !.uuid = uuid, !.handle = next_handle,
                                               !.characteristic_count = 0]]
    BY <1>1 DEF GATT_register_service, TypeOK
  <2>2. [gatt_services[service_count] EXCEPT !.uuid = uuid, !.handle = next_handle,
                                             !.characteristic_count = 0] \in GATTService
    BY <1>2 DEF GATTService
  <2>3. QED
    BY <2>1, <2>2 DEF TypeOK
<1>4. service_count' \in 0 .. MAX_SERVICES
  BY Sizes DEF GATT_register_service, TypeOK
<1>5. next_handle' \in HandleNumber /\ wrapped' \in BOOLEAN
  BY AfterIsHandle DEF GATT_register_service, TakeHandles, TypeOK
<1>6. down' \in BOOLEAN
  BY DEF GATT_register_service, TypeOK
<1>7. QED
  BY <1>3, <1>4, <1>5, <1>6 DEF TypeOK

\* Removing moves services.
LEMMA RemoveType ==
  ASSUME TypeOK, NEW uuid \in Uuids, GATT_remove_service(uuid)
  PROVE  TypeOK'
<1>1. PICK i \in Services :
        /\ find_service_by_uuid(uuid, i)
        /\ gatt_services' = [k \in Services |-> IF k >= i /\ k + 1 < service_count
                                                THEN gatt_services[k + 1] ELSE gatt_services[k]]
  BY DEF GATT_remove_service
<1>2. i < service_count /\ service_count \in Nat /\ service_count <= MAX_SERVICES /\ i \in Nat
  BY <1>1, Sizes DEF find_service_by_uuid, LiveServices, TypeOK, Services
<1>3. \A k \in Services : k + 1 < service_count => k + 1 \in Services
  BY <1>2, Sizes DEF Services
<1>4. gatt_services' \in [Services -> GATTService]
  BY <1>1, <1>3 DEF TypeOK
<1>5. service_count' \in 0 .. MAX_SERVICES
  BY <1>2, Sizes DEF GATT_remove_service
<1>6. QED
  BY <1>4, <1>5 DEF GATT_remove_service, TypeOK

\* Adding writes a characteristic in the first free place.
LEMMA AddType ==
  ASSUME TypeOK, NEW s \in Uuids, NEW c \in Uuids, NEW v \in Values \union {Blank},
         NEW n \in Lengths, GATT_add_characteristic(s, c, v, n)
  PROVE  TypeOK'
<1>1. PICK i \in Services, j \in Places :
        /\ j = gatt_services[i].characteristic_count
        /\ gatt_services' =
             [gatt_services EXCEPT
                ![i].characteristics[j] = NewCharacteristic(@, c, v, n),
                ![i].characteristic_count = @ + 1]
  BY DEF GATT_add_characteristic
<1>2. /\ gatt_services[i] \in GATTService
      /\ gatt_services[i].characteristics \in [Places -> GATTCharacteristic]
      /\ gatt_services[i].characteristics[j] \in GATTCharacteristic
  BY DEF TypeOK, GATTService
<1>3. NewCharacteristic(gatt_services[i].characteristics[j], c, v, n) \in GATTCharacteristic
  <2>1. next_handle \in HandleNumber /\ After(next_handle, 1) \in HandleNumber
    BY AfterIsHandle DEF TypeOK
  <2>2. gatt_services[i].characteristics[j].value \in Values \union {Blank}
    BY <1>2 DEF GATTCharacteristic
  <2>3. QED
    BY <2>1, <2>2 DEF NewCharacteristic, GATTCharacteristic
<1>4. j + 1 \in 0 .. MAX_CHARACTERISTICS_PER_SERVICE
  BY Sizes DEF Places
<1>5. gatt_services' \in [Services -> GATTService]
  <2>1. gatt_services' = [gatt_services EXCEPT ![i] =
          [gatt_services[i] EXCEPT
             !.characteristics = [gatt_services[i].characteristics EXCEPT
               ![j] = NewCharacteristic(gatt_services[i].characteristics[j], c, v, n)],
             !.characteristic_count = j + 1]]
    BY <1>1, <1>2 DEF TypeOK, GATTService
  <2>2. [gatt_services[i].characteristics EXCEPT
           ![j] = NewCharacteristic(gatt_services[i].characteristics[j], c, v, n)]
          \in [Places -> GATTCharacteristic]
    BY <1>2, <1>3
  <2>3. [gatt_services[i] EXCEPT
           !.characteristics = [gatt_services[i].characteristics EXCEPT
             ![j] = NewCharacteristic(gatt_services[i].characteristics[j], c, v, n)],
           !.characteristic_count = j + 1] \in GATTService
    BY <1>2, <1>4, <2>2 DEF GATTService
  <2>4. QED
    BY <2>1, <2>3 DEF TypeOK
<1>6. next_handle' \in HandleNumber /\ wrapped' \in BOOLEAN
  BY AfterIsHandle DEF GATT_add_characteristic, TakeHandles, TypeOK
<1>7. service_count' = service_count /\ down' = down
  BY DEF GATT_add_characteristic
<1>8. QED
  BY <1>5, <1>6, <1>7 DEF TypeOK

\* The place that is updated, as it is then.
Updated(old, v, n) ==
  [uuid |-> old.uuid, handle |-> old.handle, value_handle |-> old.value_handle,
   value |-> IF n = 0 THEN old.value ELSE v, value_length |-> n]

LEMMA Overwritten ==
  ASSUME NEW old \in GATTCharacteristic, NEW x, NEW n
  PROVE  [[old EXCEPT !.value = x] EXCEPT !.value_length = n]
           = [uuid |-> old.uuid, handle |-> old.handle, value_handle |-> old.value_handle,
              value |-> x, value_length |-> n]
<1>1. PICK u, h, k, y, l :
        old = [uuid |-> u, handle |-> h, value_handle |-> k, value |-> y, value_length |-> l]
  BY DEF GATTCharacteristic
<1>2. [old EXCEPT !.value = x]
        = [uuid |-> u, handle |-> h, value_handle |-> k, value |-> x, value_length |-> l]
  BY <1>1
<1>3. [[uuid |-> u, handle |-> h, value_handle |-> k, value |-> x, value_length |-> l]
         EXCEPT !.value_length = n]
        = [uuid |-> u, handle |-> h, value_handle |-> k, value |-> x, value_length |-> n]
  OBVIOUS
<1>4. old.uuid = u /\ old.handle = h /\ old.value_handle = k
  BY <1>1
<1>5. QED
  BY <1>2, <1>3, <1>4

\* Updating writes one place of one service and leaves the rest.
LEMMA UpdateWrites ==
  ASSUME TypeOK, NEW s \in Uuids, NEW c \in Uuids, NEW v \in Values,
         NEW n \in Lengths, GATT_update_characteristic_value(s, c, v, n)
  PROVE  \E i \in Services, j \in Places :
           /\ find_service_by_uuid(s, i)
           /\ find_characteristic_by_uuid(i, c, j)
           /\ Updated(Characteristic(i, j), v, n) \in GATTCharacteristic
           /\ gatt_services' = [gatt_services EXCEPT ![i] =
                [gatt_services[i] EXCEPT !.characteristics =
                   [gatt_services[i].characteristics EXCEPT ![j] = Updated(Characteristic(i, j), v, n)]]]
<1>1. PICK i \in Services, j \in Places :
        /\ find_service_by_uuid(s, i)
        /\ find_characteristic_by_uuid(i, c, j)
        /\ gatt_services' =
             [gatt_services EXCEPT
                ![i].characteristics[j].value = IF n > 0 THEN v ELSE @,
                ![i].characteristics[j].value_length = n]
  BY DEF GATT_update_characteristic_value
<1>2. /\ gatt_services[i] \in GATTService
      /\ gatt_services[i].characteristics \in [Places -> GATTCharacteristic]
      /\ gatt_services[i].characteristics[j] \in GATTCharacteristic
  BY DEF TypeOK, GATTService
<1> DEFINE old == gatt_services[i].characteristics[j]
           new == [old EXCEPT !.value = IF n > 0 THEN v ELSE old.value, !.value_length = n]
<1>3. new \in GATTCharacteristic
  BY <1>2 DEF GATTCharacteristic
<1>4. gatt_services' = [gatt_services EXCEPT ![i] =
        [gatt_services[i] EXCEPT
           !.characteristics = [gatt_services[i].characteristics EXCEPT ![j] = new]]]
  <2> DEFINE services == [gatt_services EXCEPT
                            ![i].characteristics[j].value = IF n > 0 THEN v ELSE @]
             chars == gatt_services[i].characteristics
             valued == [old EXCEPT !.value = IF n > 0 THEN v ELSE old.value]
  <2>1. services = [gatt_services EXCEPT ![i] =
          [gatt_services[i] EXCEPT !.characteristics = [chars EXCEPT ![j] = valued]]]
    BY <1>2 DEF TypeOK, GATTService, GATTCharacteristic
  <2>2. services[i].characteristics[j] = valued
    BY <1>2, <2>1 DEF TypeOK, GATTService
  <2>3. gatt_services' = [services EXCEPT ![i].characteristics[j].value_length = n]
    BY <1>1
  <2>4. new = [valued EXCEPT !.value_length = n]
    BY <1>2 DEF GATTCharacteristic
  <2>5. gatt_services' = [services EXCEPT ![i] =
          [services[i] EXCEPT !.characteristics = [services[i].characteristics EXCEPT ![j] = new]]]
    BY <2>2, <2>3, <2>4
  <2> HIDE DEF services, valued, new
  <2>6. services[i].characteristics = [chars EXCEPT ![j] = valued]
    BY <1>2, <2>1 DEF TypeOK, GATTService
  <2>7. [services[i].characteristics EXCEPT ![j] = new] = [chars EXCEPT ![j] = new]
    BY <1>2, <2>6
  <2>8. [services[i] EXCEPT !.characteristics = [chars EXCEPT ![j] = new]]
          = [gatt_services[i] EXCEPT !.characteristics = [chars EXCEPT ![j] = new]]
    BY <1>2, <2>1 DEF TypeOK, GATTService
  <2>9. QED
    BY <2>1, <2>5, <2>7, <2>8 DEF TypeOK
<1>5. new = Updated(Characteristic(i, j), v, n)
  <2> DEFINE x == IF n > 0 THEN v ELSE old.value
  <2>1. x = IF n = 0 THEN old.value ELSE v
    BY Sizes DEF Lengths
  <2>2. new = [[old EXCEPT !.value = x] EXCEPT !.value_length = n]
    OBVIOUS
  <2> HIDE DEF x, new
  <2>3. QED
    BY <1>2, <2>1, <2>2, Overwritten DEF Updated, Characteristic
<1> HIDE DEF new
<1>6. QED
  BY <1>1, <1>3, <1>4, <1>5

LEMMA UpdateType ==
  ASSUME TypeOK, NEW s \in Uuids, NEW c \in Uuids, NEW v \in Values,
         NEW n \in Lengths, GATT_update_characteristic_value(s, c, v, n)
  PROVE  TypeOK'
<1>1. PICK i \in Services, j \in Places, new \in GATTCharacteristic :
        gatt_services' = [gatt_services EXCEPT ![i] =
          [gatt_services[i] EXCEPT
             !.characteristics = [gatt_services[i].characteristics EXCEPT ![j] = new]]]
  BY UpdateWrites
<1>2. /\ gatt_services[i] \in GATTService
      /\ gatt_services[i].characteristics \in [Places -> GATTCharacteristic]
  BY DEF TypeOK, GATTService
<1>3. gatt_services' \in [Services -> GATTService]
  <2>1. [gatt_services[i].characteristics EXCEPT ![j] = new] \in [Places -> GATTCharacteristic]
    BY <1>2
  <2>2. [gatt_services[i] EXCEPT
           !.characteristics = [gatt_services[i].characteristics EXCEPT ![j] = new]] \in GATTService
    BY <1>2, <2>1 DEF GATTService
  <2>3. QED
    BY <1>1, <2>2 DEF TypeOK
<1>4. /\ service_count' = service_count /\ down' = down /\ next_handle' = next_handle
      /\ wrapped' = wrapped
  BY DEF GATT_update_characteristic_value
<1>5. QED
  BY <1>3, <1>4 DEF TypeOK

\* The database keeps its types through every call.
THEOREM TypeCorrect == Spec => []TypeOK
<1>0. 0 \in 0 .. MAX_SERVICES /\ 1 \in HandleNumber
  BY Sizes DEF HandleNumber
<1>1. Init => TypeOK
  BY <1>0, ZeroIsService DEF Init, TypeOK
<1>2. TypeOK /\ [Next]_vars => TypeOK'
  <2>1. SUFFICES ASSUME TypeOK, [Next]_vars PROVE TypeOK'
    OBVIOUS
  <2>2. CASE GATT_init
    BY <1>0, <2>1, <2>2 DEF GATT_init, TypeOK
  <2>3. CASE GATT_deinit
    BY <2>1, <2>3, ZeroIsService DEF GATT_deinit, TypeOK
  <2>4. ASSUME NEW s \in Uuids, GATT_register_service(s) \/ GATT_remove_service(s) PROVE TypeOK'
    BY <2>1, <2>4, RegisterType, RemoveType
  <2>5. ASSUME NEW s \in Uuids, NEW c \in Uuids, NEW n \in Lengths,
               NEW v \in Values \union {Blank}, GATT_add_characteristic(s, c, v, n)
        PROVE  TypeOK'
    BY <2>1, <2>5, AddType
  <2>6. ASSUME NEW s \in Uuids, NEW c \in Uuids, NEW n \in Lengths,
               NEW v \in Values, GATT_update_characteristic_value(s, c, v, n)
        PROVE  TypeOK'
    BY <2>1, <2>6, UpdateType
  <2>7. CASE UNCHANGED vars
    BY <2>1, <2>7 DEF vars, TypeOK
  <2>8. QED
    BY <2>1, <2>2, <2>3, <2>4, <2>5, <2>6, <2>7 DEF Next
<1>3. QED
  BY <1>1, <1>2, PTL DEF Spec

-----------------------------------------------------------------------------
(***************************************************************************)
(* Handles are distinct.  That alone is not inductive: a new attribute     *)
(* takes next_handle, so every handle given out must also be below it.     *)
(* Under says so of one service and Separate is HandlesDistinct for two.   *)
(***************************************************************************)
Under(i) ==
  /\ ServiceHandle(i) < next_handle
  /\ \A j \in LivePlaces(i) :
       Characteristic(i, j).handle < next_handle /\ Characteristic(i, j).value_handle < next_handle

Separate(i, k) ==
  /\ i # k => ServiceHandle(i) # ServiceHandle(k)
  /\ \A l \in LivePlaces(k) :
       /\ ServiceHandle(i) \notin HandlesOf(k, l)
       /\ Characteristic(k, l).handle # Characteristic(k, l).value_handle
       /\ \A j \in LivePlaces(i) :
            (i # k \/ j # l) => HandlesOf(i, j) \intersect HandlesOf(k, l) = {}

Spread == Sound => \A i, k \in LiveServices : Under(i) /\ Separate(i, k)

\* After the step service i has the handles that service a had before it.
Alike(i, a) ==
  /\ ServiceHandle(i)' = ServiceHandle(a)
  /\ LivePlaces(i)' = LivePlaces(a)
  /\ \A j \in LivePlaces(a) : /\ (Characteristic(i, j).handle)' = Characteristic(a, j).handle
                              /\ (Characteristic(i, j).value_handle)' = Characteristic(a, j).value_handle

LEMMA MovedIsAlike ==
  ASSUME NEW i \in Services, NEW a \in Services, gatt_services'[i] = gatt_services[a]
  PROVE  Alike(i, a)
BY DEF Alike, ServiceHandle, LivePlaces, Characteristic

\* Services that are moved in the array stay as far apart as they were.
LEMMA MovedSeparate ==
  ASSUME NEW i \in Services, NEW k \in Services, NEW a \in Services, NEW b \in Services,
         Alike(i, a), Alike(k, b), (i = k) <=> (a = b), Separate(a, b)
  PROVE  Separate(i, k)'
BY DEF Alike, Separate, HandlesOf

\* A service that is moved stays below the next handle, which never falls.
LEMMA MovedUnder ==
  ASSUME TypeOK, NEW i \in Services, NEW a \in Services,
         Alike(i, a), next_handle' \in Nat, next_handle <= next_handle', Under(a)
  PROVE  Under(i)'
<1>1. /\ next_handle \in Nat /\ gatt_services[a].handle \in Nat
      /\ \A j \in Places : /\ Characteristic(a, j).handle \in Nat
                           /\ Characteristic(a, j).value_handle \in Nat
  BY Sizes DEF TypeOK, GATTService, GATTCharacteristic, HandleNumber, Characteristic
<1>2. ServiceHandle(i)' < next_handle'
  BY <1>1 DEF Under, Alike, ServiceHandle
<1>3. ASSUME NEW j \in LivePlaces(i)'
      PROVE  (Characteristic(i, j).handle)' < next_handle' /\ (Characteristic(i, j).value_handle)' < next_handle'
  <2>1. /\ j \in LivePlaces(a) /\ j \in Places
        /\ (Characteristic(i, j).handle)' = Characteristic(a, j).handle
        /\ (Characteristic(i, j).value_handle)' = Characteristic(a, j).value_handle
    BY <1>3 DEF Alike, LivePlaces
  <2>2. /\ Characteristic(a, j).handle < next_handle /\ Characteristic(a, j).value_handle < next_handle
        /\ Characteristic(a, j).handle \in Nat /\ Characteristic(a, j).value_handle \in Nat
    BY <1>1, <2>1 DEF Under
  <2>3. QED
    BY <1>1, <2>1, <2>2
<1>4. QED
  BY <1>2, <1>3 DEF Under

\* Handles taken without a wrap raise next_handle by as many.
LEMMA TakenHandles ==
  ASSUME TypeOK, NEW n \in Nat, TakeHandles(n), ~wrapped'
  PROVE  /\ ~wrapped /\ next_handle \in Nat
         /\ next_handle + n < HandleMod /\ next_handle' = next_handle + n
<1>1. next_handle \in HandleNumber /\ next_handle \in Nat /\ ~wrapped
  BY DEF TypeOK, HandleNumber, TakeHandles
<1>2. next_handle + n < HandleMod
  <2>1. ~(next_handle + n >= HandleMod)
    BY Zenon DEF TakeHandles
  <2>2. QED
    BY <1>1, <2>1, Sizes
<1>3. QED
  BY <1>1, <1>2, AfterAdds DEF TakeHandles

\* A registered service takes a handle above all others and has no places.
LEMMA RegisterSpreads ==
  ASSUME TypeOK, Spread, NEW uuid \in Uuids, GATT_register_service(uuid), Sound'
  PROVE  Spread'
<1>1. /\ Sound /\ next_handle \in Nat /\ next_handle' = next_handle + 1
  BY TakenHandles DEF GATT_register_service, Sound
<1>2. PICK n \in Services : n = service_count
  BY Sizes DEF GATT_register_service, TypeOK, Services
<1>3. LiveServices' = LiveServices \union {n} /\ n \notin LiveServices
  BY <1>2, Sizes DEF GATT_register_service, TypeOK, Services, LiveServices
<1>4. \A i \in LiveServices : gatt_services'[i] = gatt_services[i] /\ i \in Services /\ i # n
  BY <1>2, <1>3 DEF GATT_register_service, TypeOK, LiveServices
<1>5. ServiceHandle(n)' = next_handle /\ LivePlaces(n)' = {}
  <2>1. gatt_services[n] \in GATTService
    BY DEF TypeOK
  <2>2. gatt_services'[n].handle = next_handle /\ gatt_services'[n].characteristic_count = 0
    BY <1>2, <2>1 DEF GATT_register_service, TypeOK, GATTService
  <2>3. QED
    BY <2>2, Sizes DEF ServiceHandle, LivePlaces, Places
<1>6. \A i \in LiveServices : Under(i)'
  BY <1>1, <1>4, MovedIsAlike, MovedUnder DEF Spread
<1>7. Under(n)'
  BY <1>1, <1>5 DEF Under
<1>8. \A i, k \in LiveServices : Separate(i, k)'
  BY <1>1, <1>4, MovedIsAlike, MovedSeparate DEF Spread
<1>9. ASSUME NEW i \in LiveServices PROVE Separate(i, n)' /\ Separate(n, i)'
  <2>1. /\ i # n /\ i \in Services /\ gatt_services'[i] = gatt_services[i]
        /\ Under(i) /\ Separate(i, i)
    BY <1>1, <1>4 DEF Spread
  <2>2. /\ ServiceHandle(i)' # next_handle
        /\ \A l \in LivePlaces(i)' : next_handle \notin HandlesOf(i, l)'
    BY <1>1, <2>1 DEF Under, ServiceHandle, LivePlaces, Characteristic, HandlesOf
  <2>3. \A l \in LivePlaces(i)' : (Characteristic(i, l).handle)' # (Characteristic(i, l).value_handle)'
    BY <2>1 DEF Separate, LivePlaces, Characteristic
  <2>4. QED
    BY <1>5, <2>1, <2>2, <2>3 DEF Separate
<1>10. Separate(n, n)'
  BY <1>5 DEF Separate
<1>11. QED
  BY <1>3, <1>6, <1>7, <1>8, <1>9, <1>10 DEF Spread

\* After a removal place k holds what Moved(r, k) did.
Moved(r, k) == IF k < r THEN k ELSE k + 1

\* Removing service r keeps all the others, in their order.
LEMMA RemovedOne ==
  ASSUME TypeOK, NEW uuid \in Uuids, GATT_remove_service(uuid)
  PROVE  \E r \in LiveServices :
           /\ \A k \in LiveServices' :
                /\ k \in Services /\ Moved(r, k) \in LiveServices /\ Moved(r, k) # r
                /\ gatt_services'[k] = gatt_services[Moved(r, k)]
           /\ \A i, k \in LiveServices' : (i = k) <=> (Moved(r, i) = Moved(r, k))
           /\ \A a \in LiveServices : a # r => \E k \in LiveServices' : Moved(r, k) = a
<1>1. PICK r \in LiveServices :
        /\ r \in Services /\ r < service_count
        /\ gatt_services' = [k \in Services |-> IF k >= r /\ k + 1 < service_count
                                                THEN gatt_services[k + 1] ELSE gatt_services[k]]
  BY DEF GATT_remove_service, find_service_by_uuid, LiveServices
<1>2. PICK n \in Nat : n = service_count /\ n > 0 /\ n <= MAX_SERVICES
  BY <1>1, Sizes DEF TypeOK, Services
<1>3. service_count' = n - 1 /\ r \in Nat /\ r < n
  BY <1>1, <1>2 DEF GATT_remove_service, Services
<1>4. \A k : (k \in LiveServices' <=> k \in Nat /\ k < n - 1) /\ (k \in LiveServices <=> k \in Nat /\ k < n)
  BY <1>2, <1>3, Sizes DEF LiveServices, Services
<1>5. ASSUME NEW k \in LiveServices'
      PROVE  /\ k \in Services /\ Moved(r, k) \in LiveServices /\ Moved(r, k) # r
             /\ gatt_services'[k] = gatt_services[Moved(r, k)]
  <2>1. k \in Nat /\ k < n - 1 /\ k \in Services
    BY <1>4 DEF LiveServices
  <2>2. gatt_services'[k] = IF k >= r /\ k + 1 < n THEN gatt_services[k + 1] ELSE gatt_services[k]
    BY <1>1, <1>2, <2>1
  <2>3. QED
    BY <1>2, <1>3, <1>4, <2>1, <2>2 DEF Moved
<1>6. \A i, k \in LiveServices' : (i = k) <=> (Moved(r, i) = Moved(r, k))
  BY <1>3, <1>4 DEF Moved
<1>7. ASSUME NEW a \in LiveServices, a # r PROVE \E k \in LiveServices' : Moved(r, k) = a
  <2>1. a \in Nat /\ a < n
    BY <1>4
  <2>2. CASE a < r
    BY <1>3, <1>4, <2>1, <2>2 DEF Moved
  <2>3. CASE a > r
    <3>1. a - 1 \in LiveServices' /\ ~(a - 1 < r) /\ (a - 1) + 1 = a
      BY <1>3, <1>4, <2>1, <2>3
    <3>2. QED
      BY <3>1 DEF Moved
  <2>4. QED
    BY <1>3, <1>7, <2>1, <2>2, <2>3
<1>8. QED
  BY <1>5, <1>6, <1>7

\* What is left was apart before.
LEMMA RemoveSpreads ==
  ASSUME TypeOK, Spread, NEW uuid \in Uuids, GATT_remove_service(uuid), Sound'
  PROVE  Spread'
<1>1. Sound /\ next_handle' = next_handle /\ next_handle \in Nat
  BY Sizes DEF GATT_remove_service, Sound, TypeOK, HandleNumber
<1>2. PICK r \in LiveServices :
        /\ \A k \in LiveServices' :
             /\ k \in Services /\ Moved(r, k) \in LiveServices
             /\ gatt_services'[k] = gatt_services[Moved(r, k)]
        /\ \A i, k \in LiveServices' : (i = k) <=> (Moved(r, i) = Moved(r, k))
  BY RemovedOne
<1>3. ASSUME NEW i \in LiveServices', NEW k \in LiveServices' PROVE (Under(i) /\ Separate(i, k))'
  <2>1. /\ i \in Services /\ k \in Services /\ Moved(r, i) \in Services /\ Moved(r, k) \in Services
        /\ gatt_services'[i] = gatt_services[Moved(r, i)] /\ gatt_services'[k] = gatt_services[Moved(r, k)]
        /\ Under(Moved(r, i)) /\ Separate(Moved(r, i), Moved(r, k))
    BY <1>1, <1>2 DEF Spread, LiveServices
  <2>2. (i = k) <=> (Moved(r, i) = Moved(r, k))
    BY <1>2
  <2>3. QED
    BY <1>1, <2>1, <2>2, MovedIsAlike, MovedUnder, MovedSeparate
<1>4. QED
  BY <1>3 DEF Spread

\* A characteristic is added behind those of its service, and nothing else changes.
LEMMA AddedOne ==
  ASSUME TypeOK, NEW s \in Uuids, NEW c \in Uuids, NEW v \in Values \union {Blank},
         NEW n \in Lengths, GATT_add_characteristic(s, c, v, n), ~wrapped'
  PROVE  /\ ~wrapped /\ next_handle \in Nat
         /\ next_handle + 2 < HandleMod /\ next_handle' = next_handle + 2
         /\ LiveServices' = LiveServices
         /\ \E p \in LiveServices, q \in Places :
              /\ \A i \in LiveServices : i # p => gatt_services'[i] = gatt_services[i]
              /\ ServiceHandle(p)' = ServiceHandle(p) /\ gatt_services'[p].uuid = gatt_services[p].uuid
              /\ LivePlaces(p)' = LivePlaces(p) \union {q} /\ q \notin LivePlaces(p)
              /\ \A j \in LivePlaces(p) : Characteristic(p, j)' = Characteristic(p, j)
              /\ (Characteristic(p, q).handle)' = next_handle
              /\ (Characteristic(p, q).value_handle)' = next_handle + 1
<1>1. /\ ~wrapped /\ next_handle \in Nat
      /\ next_handle + 2 < HandleMod /\ next_handle' = next_handle + 2
  BY TakenHandles DEF GATT_add_characteristic
<1>2. PICK p \in LiveServices, q \in Places :
        /\ p \in Services /\ q = gatt_services[p].characteristic_count
        /\ gatt_services' =
             [gatt_services EXCEPT
                ![p].characteristics[q] = NewCharacteristic(@, c, v, n),
                ![p].characteristic_count = @ + 1]
  BY DEF GATT_add_characteristic, find_service_by_uuid
<1>3. LiveServices' = LiveServices
  BY DEF GATT_add_characteristic, LiveServices
<1>4. \A i \in LiveServices : i # p => gatt_services'[i] = gatt_services[i]
  BY <1>2 DEF TypeOK, LiveServices
<1>5. /\ (Characteristic(p, q).handle)' = next_handle
      /\ (Characteristic(p, q).value_handle)' = next_handle + 1
  <2>1. /\ next_handle \in HandleNumber /\ After(next_handle, 1) = next_handle + 1
    <3>1. next_handle \in HandleNumber /\ 1 \in Nat /\ next_handle + 1 < HandleMod
      BY <1>1, Sizes DEF TypeOK
    <3>2. QED
      BY <3>1, AfterAdds
  <2>2. gatt_services'[p].characteristics[q] = NewCharacteristic(gatt_services[p].characteristics[q], c, v, n)
    BY <1>2 DEF TypeOK, GATTService
  <2>3. QED
    BY <2>1, <2>2 DEF NewCharacteristic, Characteristic
<1>6. /\ ServiceHandle(p)' = ServiceHandle(p) /\ gatt_services'[p].uuid = gatt_services[p].uuid
      /\ LivePlaces(p)' = LivePlaces(p) \union {q} /\ q \notin LivePlaces(p)
      /\ \A j \in LivePlaces(p) : Characteristic(p, j)' = Characteristic(p, j)
  <2>1. /\ gatt_services[p] \in GATTService
        /\ gatt_services'[p].handle = gatt_services[p].handle
        /\ gatt_services'[p].uuid = gatt_services[p].uuid
        /\ gatt_services'[p].characteristic_count = q + 1
        /\ \A j \in Places : j # q => gatt_services'[p].characteristics[j] = gatt_services[p].characteristics[j]
    BY <1>2 DEF TypeOK, GATTService
  <2>2. \A j \in Places : (j < q + 1 <=> j < q \/ j = q) /\ ~(q < q)
    BY DEF Places
  <2>3. LivePlaces(p)' = LivePlaces(p) \union {q} /\ q \notin LivePlaces(p)
    BY <1>2, <2>1, <2>2 DEF LivePlaces
  <2>4. ServiceHandle(p)' = ServiceHandle(p)
    BY <2>1 DEF ServiceHandle
  <2>5. \A j \in LivePlaces(p) : Characteristic(p, j)' = Characteristic(p, j)
    BY <2>1, <2>3 DEF LivePlaces, Characteristic
  <2>6. QED
    BY <2>1, <2>3, <2>4, <2>5
<1>7. QED
  BY <1>1, <1>2, <1>3, <1>4, <1>5, <1>6

\* Handles in use are below next_handle.
LEMMA UsedIsBelow ==
  ASSUME TypeOK, Spread, Sound
  PROVE  \A i \in LiveServices :
           /\ ServiceHandle(i) \in Nat /\ ServiceHandle(i) < next_handle
           /\ \A j \in LivePlaces(i) :
                /\ Characteristic(i, j).handle \in Nat /\ Characteristic(i, j).handle < next_handle
                /\ Characteristic(i, j).value_handle \in Nat
                /\ Characteristic(i, j).value_handle < next_handle
<1>1. TAKE i \in LiveServices
<1>2. i \in Services /\ gatt_services[i] \in GATTService /\ Under(i)
  BY DEF TypeOK, LiveServices, Spread
<1>3. \A j \in Places : /\ Characteristic(i, j).handle \in Nat
                        /\ Characteristic(i, j).value_handle \in Nat
  BY <1>2 DEF GATTService, GATTCharacteristic, HandleNumber, Characteristic
<1>4. ServiceHandle(i) \in Nat /\ \A j \in LivePlaces(i) : j \in Places
  BY <1>2 DEF GATTService, HandleNumber, ServiceHandle, LivePlaces
<1>5. QED
  BY <1>2, <1>3, <1>4 DEF Under

\* An added characteristic takes two handles above all others.
LEMMA AddSpreads ==
  ASSUME TypeOK, Spread, NEW s \in Uuids, NEW c \in Uuids, NEW v \in Values \union {Blank},
         NEW n \in Lengths, GATT_add_characteristic(s, c, v, n), Sound'
  PROVE  Spread'
<1>1. /\ Sound /\ next_handle \in Nat
      /\ next_handle + 2 < HandleMod /\ next_handle' = next_handle + 2
  <2>1. down' = down
    BY DEF GATT_add_characteristic
  <2>2. QED
    BY <2>1, AddedOne DEF Sound
<1>2. PICK p \in LiveServices, q \in Places :
        /\ \A i \in LiveServices : i # p => gatt_services'[i] = gatt_services[i]
        /\ ServiceHandle(p)' = ServiceHandle(p)
        /\ LivePlaces(p)' = LivePlaces(p) \union {q} /\ q \notin LivePlaces(p)
        /\ \A j \in LivePlaces(p) : Characteristic(p, j)' = Characteristic(p, j)
        /\ (Characteristic(p, q).handle)' = next_handle
        /\ (Characteristic(p, q).value_handle)' = next_handle + 1
  BY AddedOne DEF Sound
<1>3. LiveServices' = LiveServices
  BY AddedOne DEF Sound
<1>4. \A i \in LiveServices : i \in Services /\ (i # p => gatt_services'[i] = gatt_services[i])
  BY <1>2 DEF LiveServices
<1>5. /\ (Characteristic(p, q).handle)' = next_handle
      /\ (Characteristic(p, q).value_handle)' = next_handle + 1
  BY <1>2
<1>6. /\ ServiceHandle(p)' = ServiceHandle(p)
      /\ LivePlaces(p)' = LivePlaces(p) \union {q} /\ q \notin LivePlaces(p)
      /\ \A j \in LivePlaces(p) : Characteristic(p, j)' = Characteristic(p, j)
  BY <1>2
<1>7. \A i \in LiveServices : Under(i) /\ Separate(i, p) /\ Separate(p, i)
  BY <1>1, <1>2 DEF Spread
<1>8. \A i, k \in LiveServices : i # p /\ k # p => Separate(i, k)'
  BY <1>1, <1>4, MovedIsAlike, MovedSeparate DEF Spread
<1>9. \A i \in LiveServices : i # p => Under(i)'
  BY <1>1, <1>4, <1>7, MovedIsAlike, MovedUnder
<1>10. \A i \in LiveServices :
         /\ ServiceHandle(i) \in Nat /\ ServiceHandle(i) < next_handle
         /\ \A j \in LivePlaces(i) :
              /\ Characteristic(i, j).handle \in Nat /\ Characteristic(i, j).handle < next_handle
              /\ Characteristic(i, j).value_handle \in Nat
              /\ Characteristic(i, j).value_handle < next_handle
  BY <1>1, UsedIsBelow
<1>11. \A i \in LiveServices : i # p => Alike(i, i)
  BY <1>4, MovedIsAlike
<1>12. Under(p)'
  BY <1>1, <1>2, <1>5, <1>6, <1>10 DEF Under
<1>13. Separate(p, p)'
  <2>1. ServiceHandle(p)' \notin HandlesOf(p, q)'
    BY <1>1, <1>2, <1>5, <1>6, <1>10 DEF HandlesOf
  <2>2. \A j \in LivePlaces(p) : HandlesOf(p, j)' \intersect HandlesOf(p, q)' = {}
    BY <1>1, <1>2, <1>5, <1>6, <1>10 DEF HandlesOf
  <2>3. \A j \in LivePlaces(p) : HandlesOf(p, j)' = HandlesOf(p, j)
    BY <1>6 DEF HandlesOf
  <2>4. (Characteristic(p, q).handle)' # (Characteristic(p, q).value_handle)'
    BY <1>1, <1>5
  <2>5. Separate(p, p)
    BY <1>2, <1>7
  <2>6. QED
    BY <1>6, <2>1, <2>2, <2>3, <2>4, <2>5 DEF Separate
<1>14. ASSUME NEW i \in LiveServices, i # p PROVE Separate(i, p)' /\ Separate(p, i)'
  <2>1. /\ Alike(i, i) /\ Separate(i, p) /\ Separate(p, i)
    BY <1>7, <1>11, <1>14
  <2>2. \A j \in LivePlaces(i) : HandlesOf(i, j)' = HandlesOf(i, j)
    BY <2>1 DEF Alike, HandlesOf
  <2>3. ServiceHandle(i)' = ServiceHandle(i) /\ ServiceHandle(i) \notin HandlesOf(p, q)'
    BY <1>1, <1>5, <1>10, <2>1 DEF Alike, HandlesOf
  <2>4. \A j \in LivePlaces(i) : HandlesOf(i, j) \intersect HandlesOf(p, q)' = {}
    BY <1>1, <1>5, <1>10 DEF HandlesOf
  <2>5. \A j \in LivePlaces(p) : HandlesOf(p, j)' = HandlesOf(p, j)
    BY <1>6 DEF HandlesOf
  <2>6. (Characteristic(p, q).handle)' # (Characteristic(p, q).value_handle)'
    BY <1>1, <1>5
  <2>7. Separate(i, p)'
    BY <1>6, <2>1, <2>2, <2>3, <2>4, <2>5, <2>6 DEF Separate, Alike
  <2>8. Separate(p, i)'
    BY <1>6, <2>1, <2>2, <2>3, <2>4, <2>5 DEF Separate, Alike
  <2>9. QED
    BY <2>7, <2>8
<1>15. QED
  BY <1>3, <1>8, <1>9, <1>12, <1>13, <1>14 DEF Spread

\* An update changes no handle and no UUID.
LEMMA UpdatedAlike ==
  ASSUME TypeOK, NEW s \in Uuids, NEW c \in Uuids, NEW v \in Values,
         NEW n \in Lengths, GATT_update_characteristic_value(s, c, v, n), NEW i \in Services
  PROVE  /\ Alike(i, i) /\ gatt_services'[i].uuid = gatt_services[i].uuid
         /\ \A j \in Places : (Characteristic(i, j).uuid)' = Characteristic(i, j).uuid
<1>1. PICK p \in Services, q \in Places :
        gatt_services' =
          [gatt_services EXCEPT
             ![p].characteristics[q].value = IF n > 0 THEN v ELSE @,
             ![p].characteristics[q].value_length = n]
  BY DEF GATT_update_characteristic_value
<1>2. gatt_services[i] \in GATTService
  BY DEF TypeOK
<1>3. /\ gatt_services'[i].handle = gatt_services[i].handle
      /\ gatt_services'[i].uuid = gatt_services[i].uuid
      /\ gatt_services'[i].characteristic_count = gatt_services[i].characteristic_count
  BY <1>1, <1>2 DEF TypeOK, GATTService
<1>4. ASSUME NEW j \in Places
      PROVE  /\ gatt_services'[i].characteristics[j].handle = gatt_services[i].characteristics[j].handle
             /\ gatt_services'[i].characteristics[j].uuid = gatt_services[i].characteristics[j].uuid
             /\ gatt_services'[i].characteristics[j].value_handle
                  = gatt_services[i].characteristics[j].value_handle
  BY <1>1, <1>2 DEF TypeOK, GATTService, GATTCharacteristic
<1>5. QED
  BY <1>3, <1>4 DEF Alike, ServiceHandle, LivePlaces, Characteristic

LEMMA UpdateSpreads ==
  ASSUME TypeOK, Spread, NEW s \in Uuids, NEW c \in Uuids, NEW v \in Values,
         NEW n \in Lengths, GATT_update_characteristic_value(s, c, v, n)
  PROVE  Spread'
<1>1. /\ Sound' = Sound /\ next_handle' = next_handle /\ next_handle \in Nat
      /\ LiveServices' = LiveServices
  BY DEF GATT_update_characteristic_value, Sound, LiveServices, TypeOK, HandleNumber
<1>2. ASSUME Sound', NEW i \in LiveServices, NEW k \in LiveServices PROVE (Under(i) /\ Separate(i, k))'
  <2>1. i \in Services /\ k \in Services /\ Under(i) /\ Separate(i, k)
    BY <1>1, <1>2 DEF Spread, LiveServices
  <2>2. Alike(i, i) /\ Alike(k, k)
    BY <2>1, UpdatedAlike
  <2>3. QED
    BY <1>1, <2>1, <2>2, MovedUnder, MovedSeparate
<1>3. QED
  BY <1>1, <1>2 DEF Spread

\* The invariant holds at first and through every call.
THEOREM HandlesAreSpread == Spec => []Spread
<1>1. Init => Spread
  BY DEF Init, Spread, LiveServices, Services
<1>2. TypeOK /\ Spread /\ [Next]_vars => Spread'
  <2>1. SUFFICES ASSUME TypeOK, Spread, [Next]_vars, Sound' PROVE Spread'
    BY DEF Spread
  <2>2. CASE GATT_init
    BY <2>2 DEF GATT_init, Spread, LiveServices, Services
  <2>3. CASE GATT_deinit
    BY <2>1, <2>3 DEF GATT_deinit, Sound
  <2>4. ASSUME NEW s \in Uuids, GATT_register_service(s) \/ GATT_remove_service(s) PROVE Spread'
    BY <2>1, <2>4, RegisterSpreads, RemoveSpreads
  <2>5. ASSUME NEW s \in Uuids, NEW c \in Uuids, NEW n \in Lengths,
               NEW v \in Values \union {Blank}, GATT_add_characteristic(s, c, v, n)
        PROVE  Spread'
    BY <2>1, <2>5, AddSpreads
  <2>6. ASSUME NEW s \in Uuids, NEW c \in Uuids, NEW n \in Lengths,
               NEW v \in Values, GATT_update_characteristic_value(s, c, v, n)
        PROVE  Spread'
    BY <2>1, <2>6, UpdateSpreads
  <2>7. CASE UNCHANGED vars
    BY <2>1, <2>7 DEF vars, Spread, Sound, LiveServices, LivePlaces, Characteristic, ServiceHandle,
                      HandlesOf, Under, Separate
  <2>8. QED
    BY <2>1, <2>2, <2>3, <2>4, <2>5, <2>6, <2>7 DEF Next
<1>3. QED
  BY <1>1, <1>2, TypeCorrect, PTL DEF Spec

\* No two attributes have one handle until handles have been used up (gatt.c:68, 122-123).
THEOREM HandlesStayDistinct == Spec => []HandlesDistinct
<1>1. Spread => HandlesDistinct
  BY DEF Spread, Separate, HandlesDistinct
<1>2. QED
  BY <1>1, HandlesAreSpread, PTL

-----------------------------------------------------------------------------
(***************************************************************************)
(* Handles keep their owner.  OwnsAt(i, h, o): the attribute o of service  *)
(* i has handle h.                                                         *)
(***************************************************************************)
OwnsAt(i, h, o) ==
  \/ ServiceHandle(i) = h /\ o = << gatt_services[i].uuid, "service" >>
  \/ \E j \in LivePlaces(i) :
       Has(i, j, h) /\ o = << gatt_services[i].uuid, Characteristic(i, j).uuid, Characteristic(i, j).handle = h >>

LEMMA OwnersAre ==
  ASSUME NEW h
  PROVE  /\ \A o : o \in Owners(h) <=> \E i \in LiveServices : OwnsAt(i, h, o)
         /\ \A o : o \in Owners(h)' <=> \E i \in LiveServices' : OwnsAt(i, h, o)'
<1>1. \A o : o \in Owners(h) <=> \E i \in LiveServices : OwnsAt(i, h, o)
  BY DEF Owners, OwnsAt
<1>2. \A o : o \in Owners(h)' <=> \E i \in LiveServices' : OwnsAt(i, h, o)'
  BY DEF Owners, OwnsAt
<1>3. QED
  BY <1>1, <1>2

\* A service that moved has the attributes it had.
LEMMA MovedOwns ==
  ASSUME NEW i, NEW a, gatt_services'[i] = gatt_services[a], NEW h, NEW o
  PROVE  OwnsAt(i, h, o)' <=> OwnsAt(a, h, o)
BY DEF OwnsAt, ServiceHandle, LivePlaces, Has, Characteristic

\* A handle that is not below next_handle has no owner.
LEMMA NoOwnerAbove ==
  ASSUME TypeOK, Spread, Sound, NEW h \in Nat, h >= next_handle
  PROVE  Owners(h) = {}
<1>1. next_handle \in Nat
  BY DEF TypeOK, HandleNumber
<1>2. \A o : \A i \in LiveServices : ~OwnsAt(i, h, o)
  BY <1>1, UsedIsBelow DEF OwnsAt, Has
<1>3. QED
  BY <1>2, OwnersAre

\* The step leaves owner h alone, or it had or has none.
Kept(h) == Owners(h) = {} \/ Owners(h)' \in {{}, Owners(h)}

LEMMA RegisterKeeps ==
  ASSUME TypeOK, Spread, Sound, NEW uuid \in Uuids, GATT_register_service(uuid), NEW h \in HandleNumber
  PROVE  Kept(h)
<1>1. next_handle \in Nat /\ h \in Nat
  BY DEF TypeOK, HandleNumber
<1>2. PICK n \in Services : n = service_count
  BY Sizes DEF GATT_register_service, TypeOK, Services
<1>3. LiveServices' = LiveServices \union {n} /\ n \notin LiveServices
  BY <1>2, Sizes DEF GATT_register_service, TypeOK, Services, LiveServices
<1>4. \A i \in LiveServices : gatt_services'[i] = gatt_services[i]
  BY <1>2, <1>3 DEF GATT_register_service, TypeOK, LiveServices
<1>5. ServiceHandle(n)' = next_handle /\ LivePlaces(n)' = {}
  <2>1. gatt_services[n] \in GATTService
    BY DEF TypeOK
  <2>2. gatt_services'[n].handle = next_handle /\ gatt_services'[n].characteristic_count = 0
    BY <1>2, <2>1 DEF GATT_register_service, TypeOK, GATTService
  <2>3. QED
    BY <2>2, Sizes DEF ServiceHandle, LivePlaces, Places
<1>6. CASE h = next_handle
  BY <1>1, <1>6, NoOwnerAbove DEF Kept
<1>7. CASE h # next_handle
  <2>1. \A o : ~OwnsAt(n, h, o)'
    BY <1>5, <1>7 DEF OwnsAt
  <2>2. \A o : \A i \in LiveServices : OwnsAt(i, h, o)' <=> OwnsAt(i, h, o)
    BY <1>4, MovedOwns
  <2>3. \A o : o \in Owners(h)' <=> o \in Owners(h)
    BY <1>3, <2>1, <2>2, OwnersAre
  <2>4. QED
    BY <2>3, OwnersAre DEF Kept
<1>8. QED
  BY <1>6, <1>7

\* No two services have attributes with one handle.
LEMMA OneOwner ==
  ASSUME Spread, Sound, NEW i \in LiveServices, NEW k \in LiveServices, i # k, NEW h, NEW o, NEW d,
         OwnsAt(i, h, o), OwnsAt(k, h, d)
  PROVE  FALSE
<1>1. Separate(i, k) /\ Separate(k, i)
  BY DEF Spread
<1>2. QED
  BY <1>1 DEF Separate, OwnsAt, Has, HandlesOf

LEMMA RemoveKeeps ==
  ASSUME TypeOK, Spread, Sound, NEW uuid \in Uuids, GATT_remove_service(uuid), NEW h \in HandleNumber
  PROVE  Kept(h)
<1>1. PICK r \in LiveServices :
        /\ \A k \in LiveServices' :
             /\ Moved(r, k) \in LiveServices /\ Moved(r, k) # r
             /\ gatt_services'[k] = gatt_services[Moved(r, k)]
        /\ \A a \in LiveServices : a # r => \E k \in LiveServices' : Moved(r, k) = a
  BY RemovedOne
<1>2. \A o : \A k \in LiveServices' : OwnsAt(k, h, o)' <=> OwnsAt(Moved(r, k), h, o)
  BY <1>1, MovedOwns
<1>3. \A o : o \in Owners(h)' <=> \E a \in LiveServices : a # r /\ OwnsAt(a, h, o)
  BY <1>1, <1>2, OwnersAre
<1>4. CASE \E o : OwnsAt(r, h, o)
  <2>1. \A o : o \notin Owners(h)'
    BY <1>3, <1>4, OneOwner
  <2>2. QED
    BY <2>1 DEF Kept
<1>5. CASE \A o : ~OwnsAt(r, h, o)
  <2>1. \A o : o \in Owners(h)' <=> o \in Owners(h)
    BY <1>3, <1>5, OwnersAre
  <2>2. QED
    BY <2>1 DEF Kept
<1>6. QED
  BY <1>4, <1>5

LEMMA AddKeeps ==
  ASSUME TypeOK, Spread, Sound, NEW s \in Uuids, NEW c \in Uuids, NEW v \in Values \union {Blank},
         NEW n \in Lengths, GATT_add_characteristic(s, c, v, n), Sound', NEW h \in HandleNumber
  PROVE  Kept(h)
<1>1. next_handle \in Nat /\ h \in Nat /\ LiveServices' = LiveServices
  BY AddedOne DEF TypeOK, HandleNumber, Sound
<1>2. PICK p \in LiveServices, q \in Places :
        /\ \A i \in LiveServices : i # p => gatt_services'[i] = gatt_services[i]
        /\ ServiceHandle(p)' = ServiceHandle(p) /\ gatt_services'[p].uuid = gatt_services[p].uuid
        /\ LivePlaces(p)' = LivePlaces(p) \union {q} /\ q \notin LivePlaces(p)
        /\ \A j \in LivePlaces(p) : Characteristic(p, j)' = Characteristic(p, j)
        /\ (Characteristic(p, q).handle)' = next_handle
        /\ (Characteristic(p, q).value_handle)' = next_handle + 1
  BY AddedOne DEF Sound
<1>3. CASE h >= next_handle
  BY <1>1, <1>3, NoOwnerAbove DEF Kept
<1>4. CASE h < next_handle
  <2>1. \A o : \A i \in LiveServices : i # p => (OwnsAt(i, h, o)' <=> OwnsAt(i, h, o))
    BY <1>2, MovedOwns
  <2>2. ~Has(p, q, h)'
    BY <1>1, <1>2, <1>4 DEF Has
  <2>3. \A j \in LivePlaces(p) : Has(p, j, h)' <=> Has(p, j, h)
    BY <1>2 DEF Has
  <2>4. \A o : OwnsAt(p, h, o)' <=> OwnsAt(p, h, o)
    BY <1>2, <2>2, <2>3 DEF OwnsAt
  <2>5. \A o : o \in Owners(h)' <=> o \in Owners(h)
    BY <1>1, <2>1, <2>4, OwnersAre
  <2>6. QED
    BY <2>5 DEF Kept
<1>5. QED
  BY <1>1, <1>3, <1>4

LEMMA UpdateKeeps ==
  ASSUME TypeOK, NEW s \in Uuids, NEW c \in Uuids, NEW v \in Values,
         NEW n \in Lengths, GATT_update_characteristic_value(s, c, v, n), NEW h \in HandleNumber
  PROVE  Kept(h)
<1>1. LiveServices' = LiveServices
  BY DEF GATT_update_characteristic_value, LiveServices
<1>2. ASSUME NEW o, NEW i \in LiveServices PROVE OwnsAt(i, h, o)' <=> OwnsAt(i, h, o)
  <2>1. i \in Services
    BY DEF LiveServices
  <2>2. /\ Alike(i, i) /\ gatt_services'[i].uuid = gatt_services[i].uuid
        /\ \A j \in LivePlaces(i) : (Characteristic(i, j).uuid)' = Characteristic(i, j).uuid
    BY <2>1, UpdatedAlike DEF LivePlaces
  <2>3. QED
    BY <2>2 DEF OwnsAt, Alike, Has
<1>3. \A o : o \in Owners(h)' <=> o \in Owners(h)
  BY <1>1, <1>2, OwnersAre
<1>4. QED
  BY <1>3 DEF Kept

\* HandlesKeepOwner: but for GATT_init no call gives a handle in use to another
\* attribute, though removals shift the array (gatt.c:94-99).
THEOREM HandlesStayOwned == Spec => HandlesKeepOwner
<1>1. ASSUME TypeOK, Spread, Next, Sound, Sound', ~GATT_init, NEW h \in HandleNumber PROVE Kept(h)
  <2>1. CASE GATT_deinit
    BY <1>1, <2>1 DEF GATT_deinit, Sound
  <2>2. ASSUME NEW s \in Uuids, GATT_register_service(s) \/ GATT_remove_service(s) PROVE Kept(h)
    BY <1>1, <2>2, RegisterKeeps, RemoveKeeps
  <2>3. ASSUME NEW s \in Uuids, NEW c \in Uuids, NEW n \in Lengths,
               NEW v \in Values \union {Blank}, GATT_add_characteristic(s, c, v, n)
        PROVE  Kept(h)
    BY <1>1, <2>3, AddKeeps
  <2>4. ASSUME NEW s \in Uuids, NEW c \in Uuids, NEW n \in Lengths,
               NEW v \in Values, GATT_update_characteristic_value(s, c, v, n)
        PROVE  Kept(h)
    BY <1>1, <2>4, UpdateKeeps
  <2>5. QED
    BY <1>1, <2>1, <2>2, <2>3, <2>4 DEF Next
<1>2. TypeOK /\ Spread /\ [Next]_vars
        => [(Sound /\ Sound' /\ ~GATT_init) =>
              \A h \in HandleNumber : Owners(h) = {} \/ Owners(h)' \in {{}, Owners(h)}]_vars
  BY <1>1 DEF Kept
<1>3. QED
  BY <1>2, TypeCorrect, HandlesAreSpread, PTL DEF Spec, HandlesKeepOwner

-----------------------------------------------------------------------------
(***************************************************************************)
(* The database implements GattTable.  Row k of the table is service k - 1 *)
(* of the array, and its list is the part of characteristics in use.       *)
(***************************************************************************)
Listed(i) == [j \in 1 .. gatt_services[i].characteristic_count |-> Characteristic(i, j - 1)]

Row(i) == [uuid |-> gatt_services[i].uuid, handle |-> ServiceHandle(i), characteristics |-> Listed(i)]

Rows == [uuid : Uuids \union {ZeroUuid}, handle : HandleNumber, characteristics : Seq(GATTCharacteristic)]

\* A list without its i-th element.
LEMMA RemoveAtIs ==
  ASSUME NEW S, NEW s \in Seq(S), NEW i \in 1 .. Len(s)
  PROVE  /\ AbstractTable!RemoveAt(s, i) \in Seq(S)
         /\ Len(AbstractTable!RemoveAt(s, i)) = Len(s) - 1
         /\ \A k \in 1 .. Len(s) - 1 :
              AbstractTable!RemoveAt(s, i)[k] = IF k < i THEN s[k] ELSE s[k + 1]
<1> DEFINE n == Len(s)
           head == SubSeq(s, 1, i - 1)
           tail == SubSeq(s, i + 1, n)
<1>1. n \in Nat /\ i \in Nat /\ i >= 1 /\ i <= n
  BY LenProperties
<1>2. \A k \in 1 .. n : s[k] \in S
  BY ElementOfSeq
<1>3. /\ head \in Seq(S) /\ Len(head) = i - 1 /\ \A k \in 1 .. i - 1 : head[k] = s[k]
  BY <1>1, <1>2, SubSeqProperties
<1>4. /\ tail \in Seq(S) /\ Len(tail) = n - i /\ \A k \in 1 .. n - i : tail[k] = s[i + k]
  BY <1>1, <1>2, SubSeqProperties
<1> HIDE DEF head, tail, n
<1>5. /\ head \o tail \in Seq(S) /\ Len(head \o tail) = n - 1
      /\ \A k \in 1 .. n - 1 :
           (head \o tail)[k] = IF k <= i - 1 THEN head[k] ELSE tail[k - (i - 1)]
  <2>1. /\ head \o tail \in Seq(S) /\ Len(head \o tail) = Len(head) + Len(tail)
        /\ \A k \in 1 .. Len(head) + Len(tail) :
             (head \o tail)[k] = IF k <= Len(head) THEN head[k] ELSE tail[k - Len(head)]
    BY <1>3, <1>4, ConcatProperties, Zenon
  <2>2. Len(head) + Len(tail) = n - 1
    BY <1>1, <1>3, <1>4
  <2>3. QED
    BY <1>3, <2>1, <2>2, Zenon
<1>6. ASSUME NEW k \in 1 .. n - 1
      PROVE  (head \o tail)[k] = IF k < i THEN s[k] ELSE s[k + 1]
  <2>1. CASE k < i
    BY <1>1, <1>3, <1>5, <2>1
  <2>2. CASE ~(k < i)
    <3>1. k - (i - 1) \in 1 .. n - i /\ i + (k - (i - 1)) = k + 1
      BY <1>1, <2>2
    <3>2. QED
      BY <1>1, <1>4, <1>5, <2>2, <3>1
  <2>3. QED
    BY <2>1, <2>2
<1>7. QED
  BY <1>5, <1>6 DEF AbstractTable!RemoveAt, head, tail, n

\* The table is the list of the rows in use.
TableIsRows ==
  /\ service_count \in Nat
  /\ Table \in Seq(Rows) /\ Len(Table) = service_count
  /\ \A k \in 1 .. service_count : k - 1 \in Services /\ Table[k] = Row(k - 1)

ListIs(i) ==
  /\ gatt_services[i].characteristic_count \in Nat
  /\ Listed(i) \in Seq(GATTCharacteristic)
  /\ Len(Listed(i)) = gatt_services[i].characteristic_count
  /\ \A k \in 1 .. gatt_services[i].characteristic_count :
       k - 1 \in Places /\ Listed(i)[k] = Characteristic(i, k - 1)

AllListed == \A i \in Services : ListIs(i) /\ Row(i) \in Rows

LEMMA ListRows == TypeOK => AllListed
<1>1. SUFFICES ASSUME TypeOK, NEW i \in Services PROVE ListIs(i) /\ Row(i) \in Rows
  BY DEF AllListed
<1>2. /\ gatt_services[i].characteristic_count \in 0 .. MAX_CHARACTERISTICS_PER_SERVICE
      /\ gatt_services[i].characteristics \in [Places -> GATTCharacteristic]
      /\ gatt_services[i].uuid \in Uuids \union {ZeroUuid}
      /\ gatt_services[i].handle \in HandleNumber
  BY <1>1 DEF TypeOK, GATTService
<1>3. PICK m \in Nat : m = gatt_services[i].characteristic_count /\ m <= MAX_CHARACTERISTICS_PER_SERVICE
  BY <1>2, Sizes
<1>4. \A j \in 1 .. m : j - 1 \in Places
  BY <1>3, Sizes DEF Places
<1>5. \A j \in 1 .. m : Characteristic(i, j - 1) \in GATTCharacteristic
  BY <1>2, <1>4 DEF Characteristic
<1>6. Listed(i) = [j \in 1 .. m |-> Characteristic(i, j - 1)]
  BY <1>3 DEF Listed
<1>7. Listed(i) \in Seq(GATTCharacteristic)
  <2>1. Listed(i) \in [1 .. m -> GATTCharacteristic]
    BY <1>5, <1>6
  <2>2. QED
    BY <1>3, <2>1, SeqDef
<1>8. Len(Listed(i)) = m
  BY <1>3, <1>6, <1>7, LenProperties
<1>9. ListIs(i)
  BY <1>3, <1>4, <1>6, <1>7, <1>8 DEF ListIs
<1>10. QED
  BY <1>2, <1>7, <1>9 DEF Row, Rows, ServiceHandle

LEMMA TableRows == TypeOK => TableIsRows
<1>1. SUFFICES ASSUME TypeOK PROVE TableIsRows
  OBVIOUS
<1>2. service_count \in Nat /\ service_count <= MAX_SERVICES
  BY <1>1, Sizes DEF TypeOK
<1>3. \A k \in 1 .. service_count : k - 1 \in Services
  BY <1>2, Sizes DEF Services
<1>4. Table = [k \in 1 .. service_count |-> Row(k - 1)]
  BY DEF Table, Row, Listed, ServiceHandle
<1>5. Table \in Seq(Rows)
  <2>1. \A k \in 1 .. service_count : Row(k - 1) \in Rows
    BY <1>1, <1>3, ListRows DEF AllListed
  <2>2. Table \in [1 .. service_count -> Rows]
    BY <1>4, <2>1
  <2>3. QED
    BY <1>2, <2>2, SeqDef
<1>6. Len(Table) = service_count
  BY <1>2, <1>4, <1>5, LenProperties
<1>7. QED
  BY <1>2, <1>3, <1>4, <1>5, <1>6 DEF TableIsRows

LEMMA RowsNext == TypeOK' => TableIsRows' /\ AllListed'
<1>1. TypeOK => TableIsRows
  BY TableRows
<1>2. TypeOK => AllListed
  BY ListRows
<1>3. QED
  BY <1>1, <1>2, PTL

\* A search finds the row, and the entry of its list, that the UUID names.
LEMMA FoundIsNamed ==
  ASSUME TypeOK, NEW uuid, NEW i \in Services, find_service_by_uuid(uuid, i)
  PROVE  /\ i \in Nat /\ i < service_count
         /\ i + 1 \in DOMAIN Table /\ Table[i + 1] = Row(i)
         /\ AbstractTable!Named(Table, i + 1, uuid)
<1>1. TableIsRows
  BY TableRows
<1>2. i \in Nat /\ i < service_count /\ gatt_services[i].uuid = uuid
  BY Sizes DEF find_service_by_uuid, LiveServices, Services
<1>3. DOMAIN Table = 1 .. service_count
  BY <1>1, LenProperties DEF TableIsRows
<1>4. i + 1 \in 1 .. service_count /\ (i + 1) - 1 = i
  BY <1>1, <1>2 DEF TableIsRows
<1>5. Table[i + 1] = Row(i)
  BY <1>1, <1>4 DEF TableIsRows
<1>6. ASSUME NEW k \in 1 .. i PROVE Table[k].uuid # uuid
  <2>1. k \in 1 .. service_count /\ k - 1 < service_count /\ ~(i <= k - 1)
    BY <1>1, <1>2 DEF TableIsRows
  <2>2. k - 1 \in LiveServices /\ Table[k] = Row(k - 1)
    BY <1>1, <2>1 DEF TableIsRows, LiveServices
  <2>3. gatt_services[k - 1].uuid # uuid
    BY <2>1, <2>2 DEF find_service_by_uuid
  <2>4. QED
    BY <2>2, <2>3 DEF Row
<1>7. Table[i + 1].uuid = uuid
  BY <1>2, <1>5 DEF Row
<1>8. QED
  BY <1>2, <1>3, <1>4, <1>5, <1>6, <1>7 DEF AbstractTable!Named

LEMMA FoundEntryIsNamed ==
  ASSUME TypeOK, NEW uuid, NEW i \in Services, NEW j \in Places, find_characteristic_by_uuid(i, uuid, j)
  PROVE  /\ j \in Nat /\ j < gatt_services[i].characteristic_count
         /\ j + 1 \in DOMAIN Listed(i) /\ Listed(i)[j + 1] = Characteristic(i, j)
         /\ AbstractTable!Named(Listed(i), j + 1, uuid)
<1> DEFINE m == gatt_services[i].characteristic_count
<1>1. ListIs(i)
  BY ListRows DEF AllListed
<1>2. j \in Nat /\ j < m /\ Characteristic(i, j).uuid = uuid
  BY Sizes DEF find_characteristic_by_uuid, LivePlaces, Places
<1>3. DOMAIN Listed(i) = 1 .. m
  BY <1>1, LenProperties DEF ListIs
<1>4. j + 1 \in 1 .. m /\ (j + 1) - 1 = j
  BY <1>1, <1>2 DEF ListIs
<1>5. Listed(i)[j + 1] = Characteristic(i, j)
  BY <1>1, <1>4 DEF ListIs
<1>6. ASSUME NEW k \in 1 .. j PROVE Listed(i)[k].uuid # uuid
  <2>1. k \in 1 .. m /\ k - 1 < m /\ ~(j <= k - 1)
    BY <1>1, <1>2 DEF ListIs
  <2>2. k - 1 \in LivePlaces(i) /\ Listed(i)[k] = Characteristic(i, k - 1)
    BY <1>1, <2>1 DEF ListIs, LivePlaces
  <2>3. QED
    BY <2>1, <2>2 DEF find_characteristic_by_uuid
<1>7. QED
  BY <1>2, <1>3, <1>4, <1>5, <1>6 DEF AbstractTable!Named

\* A service that is moved, or not touched, keeps its row.
LEMMA MovedRow ==
  ASSUME NEW i, NEW a, gatt_services'[i] = gatt_services[a]
  PROVE  Row(i)' = Row(a)
BY DEF Row, Listed, ServiceHandle, Characteristic

\* The steps of the table, for a database that is up.
LEMMA RegisterIsRegister ==
  ASSUME TypeOK, TypeOK', Reinits, NEW uuid \in Uuids, GATT_register_service(uuid)
  PROVE  AbstractTable!RegisterService(uuid)
<1>1. ~down /\ ~down'
  BY DEF GATT_register_service, Up
<1>2. PICK n \in Services : n = service_count /\ n \in Nat /\ service_count' = n + 1
  BY Sizes DEF GATT_register_service, TypeOK, Services
<1>3. TableIsRows /\ TableIsRows' /\ AllListed'
  BY TableRows, RowsNext
<1>4. \A i \in Services : i # n => gatt_services'[i] = gatt_services[i]
  BY <1>2 DEF GATT_register_service, TypeOK
<1> DEFINE row == [uuid |-> uuid, handle |-> next_handle, characteristics |-> << >>]
<1>5. Row(n)' = row /\ row \in Rows
  <2>1. gatt_services[n] \in GATTService
    BY DEF TypeOK
  <2>2. /\ gatt_services'[n].uuid = uuid /\ gatt_services'[n].handle = next_handle
        /\ gatt_services'[n].characteristic_count = 0
    BY <1>2, <2>1 DEF GATT_register_service, TypeOK, GATTService
  <2>3. ListIs(n)' /\ Row(n)' \in Rows
    BY <1>3 DEF AllListed
  <2>4. Listed(n)' = << >>
    BY <2>2, <2>3, EmptySeq DEF ListIs
  <2>5. QED
    BY <2>2, <2>3, <2>4 DEF Row, ServiceHandle
<1> HIDE DEF row
<1>6. Table' = Append(Table, row)
  <2>1. /\ Append(Table, row) \in Seq(Rows) /\ Len(Append(Table, row)) = n + 1
        /\ \A k \in 1 .. n : Append(Table, row)[k] = Table[k]
        /\ Append(Table, row)[n + 1] = row
    BY <1>2, <1>3, <1>5, AppendProperties DEF TableIsRows
  <2>2. ASSUME NEW k \in 1 .. n + 1 PROVE Table'[k] = Append(Table, row)[k]
    <3>1. Table'[k] = Row(k - 1)' /\ k - 1 \in Services
      BY <1>2, <1>3, <2>2 DEF TableIsRows
    <3>2. CASE k = n + 1
      BY <1>2, <1>5, <2>1, <3>1, <3>2
    <3>3. CASE k # n + 1
      <4>1. k \in 1 .. n /\ k - 1 # n
        BY <1>2, <2>2, <3>3
      <4>2. Row(k - 1)' = Row(k - 1)
        BY <1>4, <3>1, <4>1, MovedRow
      <4>3. Table[k] = Row(k - 1)
        BY <1>2, <1>3, <4>1 DEF TableIsRows
      <4>4. QED
        BY <2>1, <3>1, <4>1, <4>2, <4>3
    <3>4. QED
      BY <3>2, <3>3
  <2>3. Table' \in Seq(Rows) /\ Len(Table') = n + 1
    BY <1>2, <1>3 DEF TableIsRows
  <2>4. QED
    BY <2>1, <2>2, <2>3, SeqEqual
<1>7. next_handle' = AbstractTable!After(next_handle, 1)
  BY DEF GATT_register_service, TakeHandles, After, AbstractTable!After
<1>8. QED
  BY <1>1, <1>6, <1>7 DEF AbstractTable!RegisterService, row

LEMMA RemoveIsRemove ==
  ASSUME TypeOK, TypeOK', Reinits, NEW uuid \in Uuids, GATT_remove_service(uuid)
  PROVE  AbstractTable!RemoveService(uuid)
<1>1. ~down /\ ~down' /\ next_handle' = next_handle
  BY DEF GATT_remove_service, Up
<1>2. PICK r \in Services :
        /\ find_service_by_uuid(uuid, r)
        /\ gatt_services' = [k \in Services |-> IF k >= r /\ k + 1 < service_count
                                                THEN gatt_services[k + 1] ELSE gatt_services[k]]
  BY DEF GATT_remove_service
<1>3. TableIsRows /\ TableIsRows'
  BY TableRows, RowsNext
<1>4. PICK n \in Nat : n = service_count /\ service_count' = n - 1
  BY <1>3 DEF TableIsRows, GATT_remove_service
<1>5. /\ r \in Nat /\ r < n /\ r + 1 \in DOMAIN Table
      /\ AbstractTable!Named(Table, r + 1, uuid)
  BY <1>2, <1>4, FoundIsNamed
<1> DEFINE rest == AbstractTable!RemoveAt(Table, r + 1)
<1>6. /\ rest \in Seq(Rows) /\ Len(rest) = n - 1
      /\ \A k \in 1 .. n - 1 : rest[k] = IF k < r + 1 THEN Table[k] ELSE Table[k + 1]
  <2>1. Table \in Seq(Rows) /\ Len(Table) = n /\ r + 1 \in 1 .. Len(Table)
    BY <1>3, <1>4, <1>5 DEF TableIsRows
  <2>2. /\ rest \in Seq(Rows) /\ Len(rest) = Len(Table) - 1
        /\ \A k \in 1 .. Len(Table) - 1 : rest[k] = IF k < r + 1 THEN Table[k] ELSE Table[k + 1]
    BY <2>1, RemoveAtIs
  <2>3. QED
    BY <2>1, <2>2
<1> HIDE DEF rest
<1>7. ASSUME NEW k \in 1 .. n - 1 PROVE Table'[k] = rest[k]
  <2>1. k \in 1 .. n /\ k + 1 \in 1 .. n /\ (k - 1) + 1 = k /\ (k + 1) - 1 = k /\ k < n
    BY <1>4, <1>7
  <2>2. /\ Table'[k] = Row(k - 1)' /\ k - 1 \in Services
        /\ Table[k] = Row(k - 1) /\ Table[k + 1] = Row(k)
    BY <1>3, <1>4, <1>7, <2>1 DEF TableIsRows
  <2>3. gatt_services'[k - 1] = IF k - 1 >= r THEN gatt_services[k] ELSE gatt_services[k - 1]
    BY <1>2, <1>4, <2>1, <2>2
  <2>4. CASE k < r + 1
    <3>1. Row(k - 1)' = Row(k - 1)
      BY <1>5, <2>1, <2>3, <2>4, MovedRow
    <3>2. QED
      BY <1>6, <2>2, <2>4, <3>1
  <2>5. CASE ~(k < r + 1)
    <3>1. Row(k - 1)' = Row(k)
      BY <1>5, <2>1, <2>3, <2>5, MovedRow
    <3>2. QED
      BY <1>6, <2>2, <2>5, <3>1
  <2>6. QED
    BY <2>4, <2>5
<1>8. Table' = rest
  <2>1. Table' \in Seq(Rows) /\ Len(Table') = n - 1
    BY <1>3, <1>4 DEF TableIsRows
  <2>2. QED
    BY <1>6, <1>7, <2>1, SeqEqual
<1>9. QED
  BY <1>1, <1>5, <1>8 DEF AbstractTable!RemoveService, rest

\* A step that changes service p alone changes row p + 1 alone.
LEMMA OneRowChanges ==
  ASSUME TypeOK, TypeOK', service_count' = service_count,
         NEW p \in Services, p \in Nat, p < service_count,
         \A i \in Services : i # p => gatt_services'[i] = gatt_services[i]
  PROVE  Table' = [Table EXCEPT ![p + 1] = Row(p)']
<1>1. TableIsRows /\ TableIsRows' /\ Row(p)' \in Rows
  BY TableRows, RowsNext DEF AllListed
<1>2. PICK n \in Nat : n = service_count /\ p + 1 \in 1 .. n
  BY <1>1 DEF TableIsRows
<1> DEFINE new == [Table EXCEPT ![p + 1] = Row(p)']
<1>3. /\ new \in Seq(Rows) /\ Len(new) = n
      /\ \A k \in 1 .. n : new[k] = IF k = p + 1 THEN Row(p)' ELSE Table[k]
  <2>1. Table \in Seq(Rows) /\ Len(Table) = n /\ p + 1 \in 1 .. Len(Table)
    BY <1>1, <1>2 DEF TableIsRows
  <2>2. /\ new \in Seq(Rows) /\ Len(new) = Len(Table)
        /\ \A k \in 1 .. Len(Table) : new[k] = IF k = p + 1 THEN Row(p)' ELSE Table[k]
    BY <1>1, <2>1, ExceptSeq
  <2>3. QED
    BY <2>1, <2>2
<1> HIDE DEF new
<1>4. ASSUME NEW k \in 1 .. n PROVE Table'[k] = new[k]
  <2>1. Table'[k] = Row(k - 1)' /\ Table[k] = Row(k - 1) /\ k - 1 \in Services
    BY <1>1, <1>2, <1>4 DEF TableIsRows
  <2>2. CASE k = p + 1
    BY <1>3, <2>1, <2>2
  <2>3. CASE k # p + 1
    <3>1. k - 1 # p
      BY <2>3
    <3>2. Row(k - 1)' = Row(k - 1)
      BY <2>1, <3>1, MovedRow
    <3>3. QED
      BY <1>3, <2>1, <2>3, <3>2
  <2>4. QED
    BY <2>2, <2>3
<1>5. Table' \in Seq(Rows) /\ Len(Table') = n
  BY <1>1, <1>2 DEF TableIsRows
<1>6. QED
  BY <1>3, <1>4, <1>5, SeqEqual DEF new

\* Adding to service p appends to the list of row p + 1.
LEMMA AddIsAdd ==
  ASSUME TypeOK, TypeOK', Reinits, NEW s \in Uuids, NEW c \in Uuids, NEW v \in Values \union {Blank},
         NEW n \in Lengths, GATT_add_characteristic(s, c, v, n)
  PROVE  \E w \in Values \union {Blank} : AbstractTable!AddCharacteristic(s, c, w, n)
<1>1. ~down /\ ~down' /\ service_count' = service_count
  BY DEF GATT_add_characteristic, Up
<1>2. PICK p \in Services, q \in Places :
        /\ find_service_by_uuid(s, p)
        /\ q = gatt_services[p].characteristic_count
        /\ gatt_services' =
             [gatt_services EXCEPT
                ![p].characteristics[q] = NewCharacteristic(@, c, v, n),
                ![p].characteristic_count = @ + 1]
  BY DEF GATT_add_characteristic
<1> DEFINE new == NewCharacteristic(gatt_services[p].characteristics[q], c, v, n)
<1>3. /\ gatt_services[p] \in GATTService
      /\ gatt_services[p].characteristics \in [Places -> GATTCharacteristic]
      /\ gatt_services[p].characteristics[q] \in GATTCharacteristic
      /\ q \in Nat
  BY <1>2, Sizes DEF TypeOK, GATTService, Places
<1>4. /\ gatt_services'[p].uuid = gatt_services[p].uuid
      /\ gatt_services'[p].handle = gatt_services[p].handle
      /\ gatt_services'[p].characteristic_count = q + 1
      /\ \A j \in Places : gatt_services'[p].characteristics[j] =
                             IF j = q THEN new ELSE gatt_services[p].characteristics[j]
      /\ \A i \in Services : i # p => gatt_services'[i] = gatt_services[i]
  BY <1>2, <1>3, SMTT(30) DEF TypeOK, GATTService
<1>5. PICK w \in Values \union {Blank} :
        new = [uuid |-> c, handle |-> next_handle, value_handle |-> AbstractTable!After(next_handle, 1),
               value |-> w, value_length |-> n]
  BY <1>3 DEF new, NewCharacteristic, After, AbstractTable!After, GATTCharacteristic
<1>6. new \in GATTCharacteristic
  <2>1. gatt_services'[p].characteristics[q] \in GATTCharacteristic
    BY DEF TypeOK, GATTService
  <2>2. QED
    BY <1>4, <2>1
<1> HIDE DEF new
<1>7. ListIs(p) /\ ListIs(p)' /\ Row(p) \in Rows
  BY ListRows, RowsNext DEF AllListed
<1>8. Listed(p)' = Append(Listed(p), new)
  <2>1. /\ Listed(p) \in Seq(GATTCharacteristic) /\ Len(Listed(p)) = q
        /\ Listed(p)' \in Seq(GATTCharacteristic) /\ Len(Listed(p)') = q + 1
    BY <1>2, <1>4, <1>7 DEF ListIs
  <2>2. /\ Append(Listed(p), new) \in Seq(GATTCharacteristic)
        /\ Len(Append(Listed(p), new)) = Len(Listed(p)) + 1
        /\ \A k \in 1 .. Len(Listed(p)) : Append(Listed(p), new)[k] = Listed(p)[k]
        /\ Append(Listed(p), new)[Len(Listed(p)) + 1] = new
    BY <1>6, <2>1, AppendProperties
  <2>3. ASSUME NEW k \in 1 .. q + 1 PROVE Listed(p)'[k] = Append(Listed(p), new)[k]
    <3>1. k - 1 \in Places /\ Listed(p)'[k] = gatt_services'[p].characteristics[k - 1]
      BY <1>4, <1>7, <2>3 DEF ListIs, Characteristic
    <3>2. CASE k = q + 1
      BY <1>3, <1>4, <2>1, <2>2, <3>1, <3>2
    <3>3. CASE k # q + 1
      <4>1. k \in 1 .. q /\ k - 1 # q
        BY <1>3, <2>3, <3>3
      <4>2. Listed(p)[k] = gatt_services[p].characteristics[k - 1]
        BY <1>2, <1>7, <4>1 DEF ListIs, Characteristic
      <4>3. QED
        BY <1>4, <2>1, <2>2, <3>1, <4>1, <4>2
    <3>4. QED
      BY <3>2, <3>3
  <2>4. QED
    BY <2>1, <2>2, <2>3, SeqEqual
<1> DEFINE list == Append(Listed(p), new)
<1> HIDE DEF list
<1>9. Row(p)' = [Row(p) EXCEPT !.characteristics = list]
  <2>1. Row(p)' = [uuid |-> gatt_services[p].uuid, handle |-> gatt_services[p].handle,
                   characteristics |-> list]
    BY <1>4, <1>8 DEF Row, ServiceHandle, list
  <2>2. Row(p) = [uuid |-> gatt_services[p].uuid, handle |-> gatt_services[p].handle,
                  characteristics |-> Listed(p)]
    BY DEF Row, ServiceHandle
  <2>3. QED
    BY <2>1, <2>2
<1>10. /\ p \in Nat /\ p < service_count
       /\ p + 1 \in DOMAIN Table /\ Table[p + 1] = Row(p)
       /\ AbstractTable!Named(Table, p + 1, s)
  BY <1>2, FoundIsNamed
<1>11. Table' = [Table EXCEPT ![p + 1] = Row(p)']
  BY <1>1, <1>4, <1>10, OneRowChanges
<1>12. Table[p + 1].characteristics = Listed(p)
  BY <1>10 DEF Row
<1>13. Table' = [Table EXCEPT ![p + 1].characteristics = Append(@, new)]
  <2>1. Table' = [Table EXCEPT ![p + 1].characteristics = list]
    BY <1>9, <1>10, <1>11
  <2>2. QED
    BY <1>12, <2>1 DEF list
<1>14. next_handle' = AbstractTable!After(next_handle, 2)
  BY DEF GATT_add_characteristic, TakeHandles, After, AbstractTable!After
<1>15. AbstractTable!AddCharacteristic(s, c, w, n)
  BY <1>1, <1>5, <1>10, <1>13, <1>14 DEF AbstractTable!AddCharacteristic
<1>16. QED
  BY <1>15

\* Updating entry q of service p changes its value and its length.
LEMMA UpdateIsUpdate ==
  ASSUME TypeOK, TypeOK', Reinits, NEW s \in Uuids, NEW c \in Uuids, NEW v \in Values,
         NEW n \in Lengths, GATT_update_characteristic_value(s, c, v, n)
  PROVE  AbstractTable!UpdateValue(s, c, v, n)
<1>1. ~down /\ ~down' /\ next_handle' = next_handle /\ service_count' = service_count
  BY DEF GATT_update_characteristic_value, Up
<1>2. PICK p \in Services, q \in Places :
        /\ find_service_by_uuid(s, p)
        /\ find_characteristic_by_uuid(p, c, q)
        /\ Updated(Characteristic(p, q), v, n) \in GATTCharacteristic
        /\ gatt_services' = [gatt_services EXCEPT ![p] =
             [gatt_services[p] EXCEPT !.characteristics =
                [gatt_services[p].characteristics EXCEPT ![q] = Updated(Characteristic(p, q), v, n)]]]
  BY UpdateWrites
<1> DEFINE old == Characteristic(p, q)
           new == Updated(old, v, n)
<1>3. /\ gatt_services[p] \in GATTService
      /\ gatt_services[p].characteristics \in [Places -> GATTCharacteristic]
      /\ old \in GATTCharacteristic
  BY <1>2 DEF TypeOK, GATTService, Characteristic
<1> HIDE DEF new, old
<1>4. /\ gatt_services'[p].uuid = gatt_services[p].uuid
      /\ gatt_services'[p].handle = gatt_services[p].handle
      /\ gatt_services'[p].characteristic_count = gatt_services[p].characteristic_count
      /\ gatt_services'[p].characteristics = [gatt_services[p].characteristics EXCEPT ![q] = new]
      /\ \A i \in Services : i # p => gatt_services'[i] = gatt_services[i]
  BY <1>2, <1>3 DEF TypeOK, GATTService, new, old
<1>5. /\ gatt_services'[p].characteristics[q] = new
      /\ \A j \in Places : j # q => gatt_services'[p].characteristics[j] = gatt_services[p].characteristics[j]
  BY <1>3, <1>4
<1>6. new \in GATTCharacteristic
  BY <1>2 DEF new, old
<1>7. /\ q \in Nat /\ q < gatt_services[p].characteristic_count
      /\ q + 1 \in DOMAIN Listed(p) /\ Listed(p)[q + 1] = old
      /\ AbstractTable!Named(Listed(p), q + 1, c)
  BY <1>2, FoundEntryIsNamed DEF old
<1>8. ListIs(p) /\ ListIs(p)' /\ Row(p) \in Rows
  BY ListRows, RowsNext DEF AllListed
<1> DEFINE list == [Listed(p) EXCEPT ![q + 1] = new]
<1>9. Listed(p)' = list
  <2>1. PICK m \in Nat : m = gatt_services[p].characteristic_count /\ q + 1 \in 1 .. m
    BY <1>7, <1>8 DEF ListIs
  <2>2. /\ Listed(p) \in Seq(GATTCharacteristic) /\ Len(Listed(p)) = m
        /\ Listed(p)' \in Seq(GATTCharacteristic) /\ Len(Listed(p)') = m
    BY <1>4, <1>8, <2>1 DEF ListIs
  <2>3. /\ list \in Seq(GATTCharacteristic) /\ Len(list) = m
        /\ \A k \in 1 .. m : list[k] = IF k = q + 1 THEN new ELSE Listed(p)[k]
    <3>1. q + 1 \in 1 .. Len(Listed(p))
      BY <2>1, <2>2
    <3>2. /\ list \in Seq(GATTCharacteristic) /\ Len(list) = Len(Listed(p))
          /\ \A k \in 1 .. Len(Listed(p)) : list[k] = IF k = q + 1 THEN new ELSE Listed(p)[k]
      BY <1>6, <2>2, <3>1, ExceptSeq
    <3>3. QED
      BY <2>2, <3>2
  <2> HIDE DEF list
  <2>4. ASSUME NEW k \in 1 .. m PROVE Listed(p)'[k] = list[k]
    <3>1. /\ k - 1 \in Places /\ Listed(p)'[k] = gatt_services'[p].characteristics[k - 1]
          /\ Listed(p)[k] = gatt_services[p].characteristics[k - 1]
      BY <1>4, <1>8, <2>1, <2>4 DEF ListIs, Characteristic
    <3>2. CASE k = q + 1
      BY <1>5, <1>7, <2>3, <2>4, <3>1, <3>2
    <3>3. CASE k # q + 1
      <4>1. k - 1 # q
        BY <1>7, <2>4, <3>3
      <4>2. QED
        BY <1>5, <2>3, <2>4, <3>1, <3>3, <4>1
    <3>4. QED
      BY <3>2, <3>3
  <2>5. QED
    BY <2>2, <2>3, <2>4, SeqEqual
<1> HIDE DEF list
<1>10. Row(p)' = [Row(p) EXCEPT !.characteristics = list]
  <2>1. Row(p)' = [uuid |-> gatt_services[p].uuid, handle |-> gatt_services[p].handle,
                   characteristics |-> list]
    BY <1>4, <1>9 DEF Row, ServiceHandle
  <2>2. Row(p) = [uuid |-> gatt_services[p].uuid, handle |-> gatt_services[p].handle,
                  characteristics |-> Listed(p)]
    BY DEF Row, ServiceHandle
  <2>3. QED
    BY <2>1, <2>2
<1>11. /\ p \in Nat /\ p < service_count
       /\ p + 1 \in DOMAIN Table /\ Table[p + 1] = Row(p)
       /\ AbstractTable!Named(Table, p + 1, s)
  BY <1>2, FoundIsNamed
<1>12. Table' = [Table EXCEPT ![p + 1] = Row(p)']
  BY <1>1, <1>4, <1>11, OneRowChanges
<1>13. Table[p + 1].characteristics = Listed(p)
  BY <1>11 DEF Row
<1>14. Table' = [Table EXCEPT
                   ![p + 1].characteristics[q + 1].value = IF n = 0 THEN @ ELSE v,
                   ![p + 1].characteristics[q + 1].value_length = n]
  <2> DEFINE valued == [old EXCEPT !.value = IF n = 0 THEN old.value ELSE v]
             once == [Table EXCEPT ![p + 1].characteristics[q + 1].value = IF n = 0 THEN @ ELSE v]
             row == [Row(p) EXCEPT !.characteristics = [Listed(p) EXCEPT ![q + 1] = valued]]
  <2>1. Row(p).characteristics = Listed(p)
    BY DEF Row
  <2>2. once = [Table EXCEPT ![p + 1] = row]
    BY <1>7, <1>11, <2>1
  <2>3. once[p + 1] = row
    BY <1>11, <2>2
  <2>4. row.characteristics = [Listed(p) EXCEPT ![q + 1] = valued]
    BY <1>8 DEF Rows
  <2>5. new = [valued EXCEPT !.value_length = n]
    BY <1>3, Overwritten, Zenon DEF new, Updated
  <2> HIDE DEF valued
  <2>6. row.characteristics[q + 1] = valued
    BY <1>7, <2>4
  <2>7. [once EXCEPT ![p + 1].characteristics[q + 1].value_length = n]
          = [once EXCEPT ![p + 1] = [row EXCEPT !.characteristics = [row.characteristics EXCEPT ![q + 1] = new]]]
    BY <2>3, <2>5, <2>6
  <2>8. [row.characteristics EXCEPT ![q + 1] = new] = list
    BY <2>4 DEF list
  <2>9. [row EXCEPT !.characteristics = list] = Row(p)'
    BY <1>8, <1>10 DEF Rows
  <2> HIDE DEF row
  <2>10. [once EXCEPT ![p + 1] = Row(p)'] = Table'
    BY <1>11, <1>12, <2>2
  <2>11. QED
    BY <2>7, <2>8, <2>9, <2>10
<1>15. QED
  BY <1>1, <1>7, <1>11, <1>13, <1>14 DEF AbstractTable!UpdateValue

\* Every call is a call of the table, or changes nothing of it.
LEMMA TableStep ==
  ASSUME TypeOK, TypeOK', Reinits, [Next]_vars
  PROVE  \/ AbstractTable!Next
         \/ UNCHANGED << IF down THEN << >> ELSE Table, IF down THEN 1 ELSE next_handle >>
<1>1. CASE GATT_init
  <2>1. Table' = << >>
    BY <1>1, RowsNext, EmptySeq DEF GATT_init, TableIsRows
  <2>2. QED
    BY <1>1, <2>1 DEF GATT_init, AbstractTable!Next, AbstractTable!Empty
<1>2. CASE GATT_deinit
  BY <1>2 DEF GATT_deinit, AbstractTable!Next, AbstractTable!Empty
<1>3. ASSUME NEW s \in Uuids, GATT_register_service(s) \/ GATT_remove_service(s)
      PROVE  AbstractTable!Next
  BY <1>3, RegisterIsRegister, RemoveIsRemove DEF AbstractTable!Next
<1>4. ASSUME NEW s \in Uuids, NEW c \in Uuids, NEW n \in Lengths,
             NEW v \in Values \union {Blank}, GATT_add_characteristic(s, c, v, n)
      PROVE  AbstractTable!Next
  BY <1>4, AddIsAdd DEF AbstractTable!Next
<1>5. ASSUME NEW s \in Uuids, NEW c \in Uuids, NEW n \in Lengths,
             NEW v \in Values, GATT_update_characteristic_value(s, c, v, n)
      PROVE  AbstractTable!Next
  BY <1>5, UpdateIsUpdate DEF AbstractTable!Next
<1>6. CASE UNCHANGED vars
  BY <1>6 DEF vars, Table, Characteristic
<1>7. QED
  BY <1>1, <1>2, <1>3, <1>4, <1>5, <1>6 DEF Next

\* ImplementsTable: the fixed array with its shifting removals (gatt.c:44-153)
\* does what a list of services would, also once the handles have wrapped.
THEOREM DatabaseIsTable ==
  ASSUME Reinits
  PROVE  Spec => ImplementsTable
<1>1. Init => AbstractTable!Init
  <2>1. Init => Table = << >>
    BY DEF Init, Table
  <2>2. QED
    BY <2>1 DEF Init, AbstractTable!Init
<1>2. TypeOK /\ TypeOK' /\ [Next]_vars
        => [AbstractTable!Next]_<< IF down THEN << >> ELSE Table, IF down THEN 1 ELSE next_handle >>
  BY TableStep
<1>3. QED
  BY <1>1, <1>2, TypeCorrect, PTL DEF Spec, ImplementsTable, AbstractTable!Spec

=============================================================================
