-------------------------- MODULE GapParams_proofs --------------------------
(***************************************************************************)
(* Theorems of GapParams, for all times of 16 bits, all lengths and all    *)
(* contents.  Each call establishes what is said of it, so the invariants  *)
(* are inductive as they stand.                                            *)
(***************************************************************************)
EXTENDS GapParams, TLAPS

\* The conversion to units: in 16 bits, monotone, and near while nothing wraps.
LEMMA Conversion ==
  ASSUME NEW ms \in Units
  PROVE  /\ ms \in Nat
         /\ ToUnits(ms) \in Units
         /\ ms * 16 < UnitMod * 10 => Near(ToUnits(ms), ms) /\ ToUnits(ms) = (ms * 16) \div 10
<1>1. UnitMod \in Nat /\ UnitMod > 0 /\ ms \in Nat /\ (ms * 16) \div 10 \in Nat
  BY GapAssumption, SMT DEF Units
<1>2. ToUnits(ms) = ((ms * 16) \div 10) % UnitMod
  BY DEF ToUnits
<1>3. ToUnits(ms) \in Units
  BY <1>1, <1>2, SMT DEF Units
<1>4. ASSUME ms * 16 < UnitMod * 10
      PROVE  Near(ToUnits(ms), ms) /\ ToUnits(ms) = (ms * 16) \div 10
  <2>1. ToUnits(ms) = (ms * 16) \div 10
    BY <1>1, <1>2, <1>4, SMT
  <2>2. QED
    BY <1>1, <2>1, SMT DEF Near
<1>5. QED
  BY <1>1, <1>3, <1>4

\* A copy of up to 32 bytes is a buffer and begins with its length and content.
LEMMA CopyShape ==
  ASSUME NEW b, IsBuffer(b), NEW c \in Content, NEW n \in Nat, n <= 32
  PROVE  /\ IsBuffer(Copied(b, c, n))
         /\ Copied(b, c, n)[0] = n
         /\ \A k \in 1 .. n : Copied(b, c, n)[k] = c
<1>1. \A k \in Places : Copied(b, c, n)[k] = IF k = 0 THEN n ELSE IF k \in 1 .. n THEN c ELSE b[k]
  <2>1. SUFFICES ASSUME NEW k \in Places
                 PROVE  Copied(b, c, n)[k] = IF k = 0 THEN n ELSE IF k \in 1 .. n THEN c ELSE b[k]
    OBVIOUS
  <2>2. Copied(b, c, n)[k] = CASE k = 0 -> n [] k \in 1 .. n -> c [] OTHER -> b[k]
    BY DEF Copied
  <2>3. CASE k = 0
    BY <2>2, <2>3
  <2>4. CASE k # 0 /\ k \in 1 .. n
    BY <2>2, <2>4
  <2>5. CASE k # 0 /\ k \notin 1 .. n
    BY <2>2, <2>5
  <2>6. QED
    BY <2>3, <2>4, <2>5
<1>2. DOMAIN Copied(b, c, n) = Places
  BY DEF Copied
<1>3. 0 \in Places /\ \A k \in 1 .. 32 : k \in Places /\ k # 0
  BY DEF Places
<1>4. QED
  BY <1>1, <1>2, <1>3 DEF IsBuffer

\* What the controller uses of a copy is the content, as often as the length says.
LEMMA UsedOfCopy ==
  ASSUME NEW b, IsBuffer(b), NEW c \in Content, NEW n \in Nat, n <= 31
  PROVE  /\ Used(Copied(b, c, n)) \in Seq(Content)
         /\ Len(Used(Copied(b, c, n))) <= MAX_DATA
         /\ \A j, k \in DOMAIN Used(Copied(b, c, n)) :
              Used(Copied(b, c, n))[j] = Used(Copied(b, c, n))[k]
<1>0. n \in Nat /\ n <= 32
  OBVIOUS
<1>1. Used(Copied(b, c, n)) = [k \in 1 .. n |-> Copied(b, c, n)[k]]
  <2>1. Copied(b, c, n)[0] = n
    BY <1>0, CopyShape
  <2>2. QED
    BY <2>1, Zenon DEF Used
<1>2. [k \in 1 .. n |-> Copied(b, c, n)[k]] = [k \in 1 .. n |-> c]
  <2>1. \A k \in 1 .. n : Copied(b, c, n)[k] = c
    BY <1>0, CopyShape
  <2>2. QED
    BY <2>1, Zenon
<1>3. [k \in 1 .. n |-> c] \in Seq(Content) /\ Len([k \in 1 .. n |-> c]) = n
  OBVIOUS
<1>4. QED
  BY <1>1, <1>2, <1>3 DEF MAX_DATA

-----------------------------------------------------------------------------
IInv == GapTypeOK /\ ChecksSuffice /\ TimesInForce /\ DataOfOneCall

LEMMA InitHolds == Init => IInv
<1>1. SUFFICES ASSUME Init PROVE IInv
  OBVIOUS
<1>2. IsBuffer(Empty)
  BY DEF IsBuffer, Empty, Places, Content
<1>3. GapTypeOK
  <2>1. 2048 \in Units /\ 16 \in Units
    BY GapAssumption, SMT DEF Units
  <2>2. adv \in [low : Units, high : Units] /\ scan \in [low : Units, high : Units]
    BY <1>1, <2>1 DEF Init
  <2>3. advData \in Seq(Content) /\ scanData \in Seq(Content) /\ Len(advData) <= MAX_DATA
        /\ Len(scanData) <= MAX_DATA
    BY <1>1 DEF Init, MAX_DATA
  <2>4. last \in [call : Call, low : Nat, high : Nat, busy : BOOLEAN, refused : BOOLEAN]
    BY <1>1 DEF Init, Call
  <2>5. IsBuffer(data) /\ IsBuffer(scan_data) /\ advOn \in BOOLEAN /\ scanOn \in BOOLEAN
    BY <1>1, <1>2 DEF Init
  <2>6. QED
    BY <2>2, <2>3, <2>4, <2>5 DEF GapTypeOK
<1>4. ChecksSuffice /\ TimesInForce
  BY <1>1 DEF Init, ChecksSuffice, TimesInForce
<1>5. DataOfOneCall
  BY <1>1 DEF Init, DataOfOneCall
<1>6. QED
  BY <1>3, <1>4, <1>5 DEF IInv

Noted == [call : Call, low : Nat, high : Nat, busy : BOOLEAN, refused : BOOLEAN]

\* A step that leaves the data calls' state alone keeps the types.
LEMMA TimesTypes ==
  ASSUME IInv, UNCHANGED << data, scan_data, advData, scanData >>,
         adv' \in [low : Units, high : Units], scan' \in [low : Units, high : Units],
         advOn' \in BOOLEAN, scanOn' \in BOOLEAN,
         last' \in Noted
  PROVE  GapTypeOK' /\ DataOfOneCall'
<1>1. IsBuffer(data)' /\ IsBuffer(scan_data)'
  BY DEF IInv, GapTypeOK, IsBuffer
<1>2. /\ advData' \in Seq(Content) /\ Len(advData') <= MAX_DATA
      /\ scanData' \in Seq(Content) /\ Len(scanData') <= MAX_DATA
  BY DEF IInv, GapTypeOK
<1>3. GapTypeOK'
  BY <1>1, <1>2 DEF GapTypeOK, Noted
<1>4. DataOfOneCall'
  BY DEF IInv, DataOfOneCall
<1>5. QED
  BY <1>3, <1>4

\* What a call that was taken has in force.
LEMMA NearInUnits ==
  ASSUME NEW low \in Units, NEW high \in Units, low <= high, high * 16 < UnitMod * 10
  PROVE  Near(InUnits(low, high).low, low) /\ Near(InUnits(low, high).high, high)
<1>1. low \in Nat /\ high \in Nat /\ UnitMod \in Nat
  BY Conversion, GapAssumption
<1>2. low * 16 < UnitMod * 10
  BY <1>1, SMT
<1>3. Near(ToUnits(low), low) /\ Near(ToUnits(high), high)
  BY <1>2, Conversion
<1>4. QED
  BY <1>3 DEF InUnits

LEMMA IntervalsInUnits ==
  ASSUME NEW low \in Units, NEW high \in Units
  PROVE  /\ InUnits(low, high) \in [low : Units, high : Units]
         /\ InUnits(low, high).low = ToUnits(low) /\ InUnits(low, high).high = ToUnits(high)
  BY Conversion DEF InUnits

\* Parameters that were checked are in the controller's range.
LEMMA CheckedAdvRange ==
  ASSUME NEW low \in Units, NEW high \in Units, ChecksInterval(low, high)
  PROVE  AdvRange(InUnits(low, high))
<1>1. low <= high /\ low >= 20 /\ high <= 10240
  BY DEF ChecksInterval
<1>2. low \in Nat /\ high \in Nat /\ low * 16 < UnitMod * 10 /\ high * 16 < UnitMod * 10
  BY <1>1, Conversion, GapAssumption, SMT
<1>3. ToUnits(low) = (low * 16) \div 10 /\ ToUnits(high) = (high * 16) \div 10
  BY <1>2, Conversion
<1>4. 32 <= ToUnits(low) /\ ToUnits(low) <= ToUnits(high) /\ ToUnits(high) <= 16384
  BY <1>1, <1>2, <1>3, SMT
<1>5. QED
  BY <1>4, IntervalsInUnits, SMT DEF AdvRange

LEMMA CheckedScanRange ==
  ASSUME NEW window \in Units, NEW interval \in Units,
         window <= interval, window >= 3, interval <= 10240
  PROVE  ScanRange(InUnits(window, interval))
<1>1. window \in Nat /\ interval \in Nat /\ window * 16 < UnitMod * 10 /\ interval * 16 < UnitMod * 10
  BY Conversion, GapAssumption, SMT
<1>2. ToUnits(window) = (window * 16) \div 10 /\ ToUnits(interval) = (interval * 16) \div 10
  BY <1>1, Conversion
<1>3. 4 <= ToUnits(window) /\ ToUnits(window) <= ToUnits(interval) /\ ToUnits(interval) <= 16384
  BY <1>1, <1>2, SMT
<1>4. QED
  BY <1>3, IntervalsInUnits, SMT DEF ScanRange

LEMMA SetAdvertisingStep ==
  ASSUME IInv, NEW a \in Times, NEW b \in Times, GAP_set_advertising_parameters(a, b)
  PROVE  IInv'
<1>1. a \in Units /\ b \in Units
  BY GapAssumption DEF Units
<1>2. PICK ok \in BOOLEAN :
        HCI_BLE_set_advertising_param(a, b, ok)
        /\ Note("set_advertising_parameters", a, b, advOn, ~ok)
  BY DEF GAP_set_advertising_parameters
<1>3. ChecksInterval(a, b) /\ UNCHANGED << data, scan_data, scan, advOn, scanOn, advData, scanData >>
  BY DEF GAP_set_advertising_parameters
<1>4. ok = ~advOn /\ advOn \in BOOLEAN
  BY <1>1, <1>2, <1>3, CheckedAdvRange DEF HCI_BLE_set_advertising_param, IInv, GapTypeOK
<1>5. adv' = IF ok THEN InUnits(a, b) ELSE adv
  BY <1>2 DEF HCI_BLE_set_advertising_param
<1>6. /\ last'.call = "set_advertising_parameters" /\ last'.low = a /\ last'.high = b
      /\ last'.busy = advOn /\ last'.refused = ~ok
      /\ last' \in Noted
  <2>1. last' = [call |-> "set_advertising_parameters", low |-> a, high |-> b, busy |-> advOn, refused |-> ~ok]
    BY <1>2 DEF Note
  <2>2. a \in Nat /\ b \in Nat /\ (~ok) \in BOOLEAN
    BY <1>1, Conversion
  <2>3. QED
    BY <1>4, <2>1, <2>2 DEF Noted, Call
<1>7. GapTypeOK' /\ DataOfOneCall'
  <2>1. adv' \in [low : Units, high : Units] /\ scan' \in [low : Units, high : Units]
    BY <1>1, <1>3, <1>5, IntervalsInUnits DEF IInv, GapTypeOK
  <2>2. advOn' \in BOOLEAN /\ scanOn' \in BOOLEAN
    BY <1>3 DEF IInv, GapTypeOK
  <2>3. QED
    BY <1>3, <1>6, <2>1, <2>2, TimesTypes
<1>8. ChecksSuffice'
  BY <1>4, <1>6 DEF ChecksSuffice
<1>9. TimesInForce'
  <2>1. ASSUME ok, b * 16 < UnitMod * 10 PROVE Near(adv'.low, a) /\ Near(adv'.high, b)
    BY <1>1, <1>3, <1>5, <2>1, NearInUnits DEF ChecksInterval
  <2>2. QED
    BY <1>6, <2>1 DEF TimesInForce
<1>10. QED
  BY <1>7, <1>8, <1>9 DEF IInv

LEMMA StartAdvertisingStep ==
  ASSUME IInv, NEW ms \in Times, GAP_start_advertising(ms)
  PROVE  IInv'
<1>1. ms \in Units
  BY GapAssumption DEF Units
<1>2. PICK ok \in BOOLEAN :
        HCI_BLE_set_advertising_param(ms, ms, ok) /\ Note("start_advertising", ms, ms, advOn, ~ok)
  BY DEF GAP_start_advertising
<1>3. advOn' = TRUE /\ UNCHANGED << data, scan_data, scan, scanOn, advData, scanData >>
  BY DEF GAP_start_advertising
<1>4. adv' = IF ok THEN InUnits(ms, ms) ELSE adv
  BY <1>2 DEF HCI_BLE_set_advertising_param
<1>5. /\ last'.call = "start_advertising" /\ last'.low = ms /\ last'.high = ms
      /\ last'.busy = advOn /\ last'.refused = ~ok
      /\ last' \in Noted
  <2>1. last' = [call |-> "start_advertising", low |-> ms, high |-> ms, busy |-> advOn, refused |-> ~ok]
    BY <1>2 DEF Note
  <2>2. advOn \in BOOLEAN /\ ms \in Nat /\ (~ok) \in BOOLEAN
    BY <1>1, Conversion DEF IInv, GapTypeOK
  <2>3. QED
    BY <2>1, <2>2 DEF Noted, Call
<1>6. GapTypeOK' /\ DataOfOneCall'
  <2>1. adv' \in [low : Units, high : Units] /\ scan' \in [low : Units, high : Units]
    BY <1>1, <1>3, <1>4, IntervalsInUnits DEF IInv, GapTypeOK
  <2>2. advOn' \in BOOLEAN /\ scanOn' \in BOOLEAN
    BY <1>3 DEF IInv, GapTypeOK
  <2>3. QED
    BY <1>3, <1>5, <2>1, <2>2, TimesTypes
<1>7. ChecksSuffice'
  BY <1>5 DEF ChecksSuffice
<1>8. TimesInForce'
  <2>1. ASSUME ok, ms * 16 < UnitMod * 10 PROVE Near(adv'.low, ms) /\ Near(adv'.high, ms)
    BY <1>1, <1>4, <2>1, NearInUnits, Conversion
  <2>2. QED
    BY <1>5, <2>1 DEF TimesInForce
<1>9. QED
  BY <1>6, <1>7, <1>8 DEF IInv

LEMMA StartScanningStep ==
  ASSUME IInv, NEW a \in Times, NEW b \in Times, GAP_start_scanning(a, b)
  PROVE  IInv'
<1>1. a \in Units /\ b \in Units
  BY GapAssumption DEF Units
<1>2. PICK ok \in BOOLEAN :
        HCI_BLE_set_scan_parameters(b, a, ok) /\ Note("start_scanning", b, a, scanOn, ~ok)
  BY DEF GAP_start_scanning
<1>3. /\ b <= a /\ a <= 10240 /\ scanOn' = TRUE
      /\ UNCHANGED << data, scan_data, adv, advOn, advData, scanData >>
  BY DEF GAP_start_scanning
<1>4. ok = (~scanOn /\ ScanRange(InUnits(b, a))) /\ scanOn \in BOOLEAN
  BY <1>2 DEF HCI_BLE_set_scan_parameters, IInv, GapTypeOK
<1>5. scan' = IF ok THEN InUnits(b, a) ELSE scan
  BY <1>2 DEF HCI_BLE_set_scan_parameters
<1>6. /\ last'.call = "start_scanning" /\ last'.low = b /\ last'.high = a
      /\ last'.busy = scanOn /\ last'.refused = ~ok
      /\ last' \in Noted
  <2>1. last' = [call |-> "start_scanning", low |-> b, high |-> a, busy |-> scanOn, refused |-> ~ok]
    BY <1>2 DEF Note
  <2>2. a \in Nat /\ b \in Nat /\ (~ok) \in BOOLEAN
    BY <1>1, Conversion
  <2>3. QED
    BY <1>4, <2>1, <2>2 DEF Noted, Call
<1>7. GapTypeOK' /\ DataOfOneCall'
  <2>1. adv' \in [low : Units, high : Units] /\ scan' \in [low : Units, high : Units]
    BY <1>1, <1>3, <1>5, IntervalsInUnits DEF IInv, GapTypeOK
  <2>2. advOn' \in BOOLEAN /\ scanOn' \in BOOLEAN
    BY <1>3 DEF IInv, GapTypeOK
  <2>3. QED
    BY <1>3, <1>6, <2>1, <2>2, TimesTypes
<1>8. ChecksSuffice'
  <2>1. (~ok /\ ~scanOn) => b < 3
    <3>1. a \in Nat /\ b \in Nat
      BY <1>1, Conversion
    <3>2. b >= 3 => ScanRange(InUnits(b, a))
      BY <1>1, <1>3, CheckedScanRange
    <3>3. (~ok /\ ~scanOn) => ~ScanRange(InUnits(b, a))
      BY <1>4, Zenon
    <3>4. QED
      BY <3>1, <3>2, <3>3
  <2>2. QED
    BY <1>6, <2>1 DEF ChecksSuffice
<1>9. TimesInForce'
  <2>1. ASSUME ok, a * 16 < UnitMod * 10 PROVE Near(scan'.low, b) /\ Near(scan'.high, a)
    BY <1>1, <1>3, <1>5, <2>1, NearInUnits
  <2>2. QED
    BY <1>6, <2>1 DEF TimesInForce
<1>10. QED
  BY <1>7, <1>8, <1>9 DEF IInv

LEMMA SetScanStep ==
  ASSUME IInv, GAP_set_scan_parameters
  PROVE  IInv'
<1>1. PICK ok \in BOOLEAN :
        HCI_BLE_set_scan_parameters(50, 100, ok) /\ Note("set_scan_parameters", 50, 100, scanOn, ~ok)
  BY DEF GAP_set_scan_parameters
<1>2. UNCHANGED << data, scan_data, adv, advOn, scanOn, advData, scanData >>
  BY DEF GAP_set_scan_parameters
<1>3. ScanRange(InUnits(50, 100)) /\ 50 \in Units /\ 100 \in Units /\ 100 * 16 < UnitMod * 10
  <2>1. 50 \in Units /\ 100 \in Units /\ 100 * 16 < UnitMod * 10
    BY GapAssumption, SMT DEF Units
  <2>2. 50 <= 100 /\ 50 >= 3 /\ 100 <= 10240
    BY SMT
  <2>3. QED
    BY <2>1, <2>2, CheckedScanRange
<1>4. ok = ~scanOn /\ scanOn \in BOOLEAN
  BY <1>1, <1>3 DEF HCI_BLE_set_scan_parameters, IInv, GapTypeOK
<1>5. scan' = IF ok THEN InUnits(50, 100) ELSE scan
  BY <1>1 DEF HCI_BLE_set_scan_parameters
<1>6. /\ last'.call = "set_scan_parameters" /\ last'.low = 50 /\ last'.high = 100
      /\ last'.busy = scanOn /\ last'.refused = ~ok
      /\ last' \in Noted
  <2>1. last' = [call |-> "set_scan_parameters", low |-> 50, high |-> 100, busy |-> scanOn, refused |-> ~ok]
    BY <1>1 DEF Note
  <2>2. (~ok) \in BOOLEAN
    OBVIOUS
  <2>3. QED
    BY <1>4, <2>1, <2>2 DEF Noted, Call
<1>7. GapTypeOK' /\ DataOfOneCall'
  <2>1. adv' \in [low : Units, high : Units] /\ scan' \in [low : Units, high : Units]
    BY <1>2, <1>3, <1>5, IntervalsInUnits DEF IInv, GapTypeOK
  <2>2. advOn' \in BOOLEAN /\ scanOn' \in BOOLEAN
    BY <1>2 DEF IInv, GapTypeOK
  <2>3. QED
    BY <1>2, <1>6, <2>1, <2>2, TimesTypes
<1>8. ChecksSuffice'
  BY <1>4, <1>6 DEF ChecksSuffice
<1>9. TimesInForce'
  <2>1. ASSUME ok PROVE Near(scan'.low, 50) /\ Near(scan'.high, 100)
    BY <1>3, <1>5, <2>1, NearInUnits
  <2>2. QED
    BY <1>6, <2>1 DEF TimesInForce
<1>10. QED
  BY <1>7, <1>8, <1>9 DEF IInv

LEMMA OtherTimesStep ==
  ASSUME IInv,
         \/ \E a, b \in Times : GAP_connect(a, b)
         \/ GAP_stop_advertising \/ GAP_stop_scanning \/ GAP_deinit
  PROVE  IInv'
<1>1. CASE \E a, b \in Times : GAP_connect(a, b)
  <2>1. PICK a \in Times, b \in Times : GAP_connect(a, b)
    BY <1>1
  <2>2. a \in Nat /\ b \in Nat
    BY GapAssumption, Conversion DEF Units
  <2>3. /\ Note("connect", b, a, FALSE, ~ScanRange(InUnits(b, a)))
        /\ UNCHANGED << data, scan_data, adv, scan, advOn, scanOn, advData, scanData >>
    BY <2>1 DEF GAP_connect
  <2>4. (~ScanRange(InUnits(b, a))) \in BOOLEAN
    BY DEF ScanRange
  <2>5. last'.call = "connect" /\ last' \in Noted
    <3>1. last' = [call |-> "connect", low |-> b, high |-> a, busy |-> FALSE, refused |-> ~ScanRange(InUnits(b, a))]
      BY <2>3 DEF Note
    <3>2. QED
      BY <2>2, <2>4, <3>1 DEF Noted, Call
  <2>6. GapTypeOK' /\ DataOfOneCall'
    BY <2>3, <2>5, TimesTypes DEF IInv, GapTypeOK
  <2>7. ChecksSuffice' /\ TimesInForce'
    BY <2>5 DEF ChecksSuffice, TimesInForce
  <2>8. QED
    BY <2>6, <2>7 DEF IInv
<1>2. CASE GAP_stop_advertising \/ GAP_stop_scanning \/ GAP_deinit
  <2>1. /\ ~last'.refused /\ last'.call \in {"stop_advertising", "stop_scanning", "deinit"}
        /\ last' \in Noted
    <3>1. advOn \in BOOLEAN /\ scanOn \in BOOLEAN
      BY DEF IInv, GapTypeOK
    <3>2. PICK call \in {"stop_advertising", "stop_scanning", "deinit"}, busy \in BOOLEAN :
            last' = [call |-> call, low |-> 0, high |-> 0, busy |-> busy, refused |-> FALSE]
      BY <1>2, <3>1 DEF GAP_stop_advertising, GAP_stop_scanning, GAP_deinit, Note
    <3>3. call \in Call
      BY DEF Call
    <3>4. QED
      BY <3>2, <3>3 DEF Noted
  <2>2. /\ UNCHANGED << data, scan_data, adv, scan, advData, scanData >>
        /\ advOn' \in BOOLEAN /\ scanOn' \in BOOLEAN
    BY <1>2 DEF GAP_stop_advertising, GAP_stop_scanning, GAP_deinit, IInv, GapTypeOK
  <2>3. GapTypeOK' /\ DataOfOneCall'
    BY <2>1, <2>2, TimesTypes DEF IInv, GapTypeOK
  <2>4. ChecksSuffice' /\ TimesInForce'
    BY <2>1 DEF ChecksSuffice, TimesInForce
  <2>5. QED
    BY <2>3, <2>4 DEF IInv
<1>3. QED
  BY <1>1, <1>2

LEMMA AdvertiseStep ==
  ASSUME IInv, NEW call \in {"set_device_name", "set_advertising_data"}, NEW c \in Content,
         NEW n \in Nat, Advertise(call, c, n),
         call = "set_advertising_data" \/ n <= MAX_DATA
  PROVE  IInv'
<1>1. /\ n <= 32 /\ data' = Copied(data, c, n)
      /\ advData' = (IF n <= MAX_DATA THEN Used(data') ELSE advData)
      /\ Note(call, n, n, FALSE, n > MAX_DATA)
      /\ UNCHANGED << scan_data, adv, scan, advOn, scanOn, scanData >>
  BY DEF Advertise
<1>2. IsBuffer(data) /\ IsBuffer(data')
  BY <1>1, CopyShape DEF IInv, GapTypeOK
<1>3. /\ advData' \in Seq(Content) /\ Len(advData') <= MAX_DATA
      /\ \A j, k \in DOMAIN advData' : advData'[j] = advData'[k]
  <2>1. CASE n <= MAX_DATA
    <3>1. n <= 31 /\ advData' = Used(Copied(data, c, n))
      BY <1>1, <2>1 DEF MAX_DATA
    <3>2. QED
      BY <1>2, <3>1, UsedOfCopy
  <2>2. CASE ~(n <= MAX_DATA)
    <3>1. advData' = advData
      BY <1>1, <2>2
    <3>2. QED
      BY <3>1 DEF IInv, GapTypeOK, DataOfOneCall
  <2>3. QED
    BY <2>1, <2>2
<1>4. last' = [call |-> call, low |-> n, high |-> n, busy |-> FALSE, refused |-> n > MAX_DATA]
  BY <1>1 DEF Note
<1>5. GapTypeOK'
  <2>1. (n > MAX_DATA) \in BOOLEAN
    BY DEF MAX_DATA
  <2>2. last' \in Noted
    BY <1>4, <2>1 DEF Noted, Call
  <2>3. IsBuffer(scan_data)'
    BY <1>1 DEF IInv, GapTypeOK, IsBuffer
  <2>4. QED
    BY <1>1, <1>2, <1>3, <2>2, <2>3 DEF IInv, GapTypeOK, Noted
<1>6. ChecksSuffice'
  <2>1. last'.refused => n = 32 /\ call = "set_advertising_data"
    <3>1. last'.refused = (n > MAX_DATA)
      BY <1>4
    <3>2. n > MAX_DATA => n = 32 /\ call = "set_advertising_data"
      BY <1>1, SMT DEF MAX_DATA
    <3>3. QED
      BY <3>1, <3>2, Zenon
  <2>2. last'.call = call /\ last'.low = n
    BY <1>4
  <2>3. QED
    BY <2>1, <2>2 DEF ChecksSuffice
<1>7. TimesInForce'
  BY <1>4 DEF TimesInForce
<1>8. DataOfOneCall'
  BY <1>1, <1>3 DEF IInv, DataOfOneCall
<1>9. QED
  BY <1>5, <1>6, <1>7, <1>8 DEF IInv

LEMMA ScanResponseStep ==
  ASSUME IInv, NEW c \in Content, NEW n \in Nat, GAP_set_scan_response_data(c, n)
  PROVE  IInv'
<1>1. /\ n <= 31 /\ n <= 32 /\ scan_data' = Copied(scan_data, c, n)
      /\ scanData' = Used(Copied(scan_data, c, n))
      /\ Note("set_scan_response_data", n, n, FALSE, FALSE)
      /\ UNCHANGED << data, adv, scan, advOn, scanOn, advData >>
  <2>1. /\ n <= 31 /\ scan_data' = Copied(scan_data, c, n) /\ scanData' = Used(scan_data')
        /\ Note("set_scan_response_data", n, n, FALSE, FALSE)
        /\ UNCHANGED << data, adv, scan, advOn, scanOn, advData >>
    BY Zenon DEF GAP_set_scan_response_data
  <2>2. Used(scan_data') = Used(Copied(scan_data, c, n))
    BY <2>1, Zenon
  <2>3. n <= 32
    BY <2>1, SMT
  <2>4. QED
    BY <2>1, <2>2, <2>3
<1>2. IsBuffer(scan_data) /\ IsBuffer(scan_data')
  BY <1>1, CopyShape DEF IInv, GapTypeOK
<1>3. /\ scanData' \in Seq(Content) /\ Len(scanData') <= MAX_DATA
      /\ \A j, k \in DOMAIN scanData' : scanData'[j] = scanData'[k]
  BY <1>1, <1>2, UsedOfCopy
<1>4. GapTypeOK'
  <2>1. last' \in Noted
    BY <1>1 DEF Note, Noted, Call
  <2>2. IsBuffer(data)'
    BY <1>1 DEF IInv, GapTypeOK, IsBuffer
  <2>3. QED
    BY <1>1, <1>2, <1>3, <2>1, <2>2 DEF IInv, GapTypeOK, Noted
<1>5. ChecksSuffice' /\ TimesInForce'
  BY <1>1 DEF Note, ChecksSuffice, TimesInForce
<1>6. DataOfOneCall'
  BY <1>1, <1>3 DEF IInv, DataOfOneCall
<1>7. QED
  BY <1>4, <1>5, <1>6 DEF IInv

LEMMA StepHolds == IInv /\ [Next]_vars => IInv'
<1>1. SUFFICES ASSUME IInv, [Next]_vars PROVE IInv'
  OBVIOUS
<1>2. CASE TimesCall
  BY <1>1, <1>2, SetAdvertisingStep, StartAdvertisingStep, StartScanningStep, SetScanStep,
     OtherTimesStep DEF TimesCall
<1>3. CASE DataCall
  <2>1. PICK n \in Lengths :
          \/ GAP_set_device_name(n)
          \/ \E p \in Payloads : GAP_set_advertising_data(p, n) \/ GAP_set_scan_response_data(p, n)
    BY <1>3 DEF DataCall
  <2>2. n \in Nat
    BY GapAssumption
  <2>3. CASE GAP_set_device_name(n)
    <3>1. 3 + 2 + (IF n > Room THEN Room ELSE n) \in Nat
          /\ 3 + 2 + (IF n > Room THEN Room ELSE n) <= 31
      BY <2>2 DEF Room
    <3>2. Name \in Content
      BY DEF Content
    <3>3. QED
      BY <1>1, <2>3, <3>1, <3>2, AdvertiseStep DEF GAP_set_device_name, MAX_DATA
  <2>4. CASE \E p \in Payloads : GAP_set_advertising_data(p, n) \/ GAP_set_scan_response_data(p, n)
    <3>1. PICK p \in Payloads : GAP_set_advertising_data(p, n) \/ GAP_set_scan_response_data(p, n)
      BY <2>4
    <3>2. p \in Content
      BY DEF Content
    <3>3. QED
      BY <1>1, <2>2, <3>1, <3>2, AdvertiseStep, ScanResponseStep DEF GAP_set_advertising_data
  <2>5. QED
    BY <2>1, <2>3, <2>4
<1>4. CASE UNCHANGED vars
  BY <1>1, <1>4 DEF vars, IInv, GapTypeOK, ChecksSuffice, TimesInForce, DataOfOneCall, IsBuffer
<1>5. QED
  BY <1>1, <1>2, <1>3, <1>4 DEF Next

\* The invariant holds through every sequence of calls.
THEOREM CallsAreSound == Spec => []IInv
  BY InitHolds, StepHolds, PTL DEF Spec

\* State keeps its types: no copy goes beyond the one place after a buffer that
\* 32 bytes reach (gap.c:132-139).
THEOREM GapTypeCorrect == Spec => []GapTypeOK
  BY CallsAreSound, PTL DEF IInv

\* For every time of 16 bits and every length, the controller refuses only the
\* calls that gap.c does not check (gap.c:98-110, 132, 193, 263).
THEOREM ChecksAreEnough == Spec => []ChecksSuffice
  BY CallsAreSound, PTL DEF IInv

\* For every time below 40960 ms the conversion is right to the unit, and the
\* parameters in force are those of the last call that was taken (hci.c:462, 501).
THEOREM TimesTakeEffect == Spec => []TimesInForce
  BY CallsAreSound, PTL DEF IInv

\* Bytes of an earlier call are never sent (gap.c:137-139, 229-232).
THEOREM NothingIsLeftOver == Spec => []DataOfOneCall
  BY CallsAreSound, PTL DEF IInv
=============================================================================
