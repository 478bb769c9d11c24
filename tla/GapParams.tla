----------------------------- MODULE GapParams -----------------------------
(***************************************************************************)
(* What the GAP procedures of src/gap.c ask of the controller: times in    *)
(* milliseconds converted to the controller's units in 16 bits, and        *)
(* advertising data copied through static buffers.  Each call is one step: *)
(* its commands and their answers are the subject of HciCommand.  An error *)
(* status of the controller is logged and the call reports success all the *)
(* same; a call that refuses its parameters sends nothing and is no step.  *)
(*                                                                         *)
(* GAP_disconnect and GAP_update_connection_parameters have no action:     *)
(* they look for a connection with connected set, and nothing sets it.     *)
(***************************************************************************)
EXTENDS Integers, Sequences

CONSTANTS
  UnitMod,     \* 2^16 in the code: times and units are uint16_t
  Times,       \* milliseconds the application passes
  Payloads,    \* contents of the data it passes
  Lengths,     \* lengths of that data and of names
  NoData,      \* what the buffers hold at the start
  Name,        \* what a device name puts there
  Mixed        \* bound: does one run make calls of both kinds, times and data

ASSUME GapAssumption ==
  /\ UnitMod \in Nat /\ UnitMod > 16384
  /\ Times \subseteq 0 .. UnitMod - 1
  /\ Lengths \subseteq Nat
  /\ Mixed \in BOOLEAN
  /\ NoData \notin Payloads /\ Name \notin Payloads /\ NoData # Name

\* The places of a static data[32], the length first, and one beyond.
Places == 0 .. 32
MAX_DATA == 31

VARIABLES
  data, scan_data,     \* the static buffers of the two data calls
  adv, scan,           \* parameters in force, in units
  advOn, scanOn,
  advData, scanData,   \* what the controller sends
  last                 \* the last call, and how the controller took it

vars == << data, scan_data, adv, scan, advOn, scanOn, advData, scanData, last >>

Content == Payloads \union {NoData, Name}
Units == 0 .. UnitMod - 1
Call == {"none", "set_device_name", "set_advertising_data", "set_scan_response_data",
         "set_advertising_parameters", "start_advertising", "stop_advertising",
         "set_scan_parameters", "start_scanning", "stop_scanning", "connect", "deinit"}

IsBuffer(b) ==
  /\ DOMAIN b = Places
  /\ b[0] \in 0 .. 32
  /\ \A k \in 1 .. 32 : b[k] \in Content

GapTypeOK ==
  /\ IsBuffer(data) /\ IsBuffer(scan_data)
  /\ adv \in [low : Units, high : Units]
  /\ scan \in [low : Units, high : Units]
  /\ advOn \in BOOLEAN /\ scanOn \in BOOLEAN
  /\ advData \in Seq(Content) /\ Len(advData) <= MAX_DATA
  /\ scanData \in Seq(Content) /\ Len(scanData) <= MAX_DATA
  /\ last \in [call : Call, low : Nat, high : Nat, busy : BOOLEAN, refused : BOOLEAN]

Empty == [k \in Places |-> IF k = 0 THEN 0 ELSE NoData]

Init ==
  /\ data = Empty /\ scan_data = Empty
  /\ adv = [low |-> 2048, high |-> 2048] /\ scan = [low |-> 16, high |-> 16]
  /\ advOn = FALSE /\ scanOn = FALSE
  /\ advData = << >> /\ scanData = << >>
  /\ last = [call |-> "none", low |-> 0, high |-> 0, busy |-> FALSE, refused |-> FALSE]

-----------------------------------------------------------------------------
\* Slip: the unit is taken for ten sixteenths, not sixteen tenths.
InverseUnits(ms) == ((ms * 10) \div 16) % UnitMod

\* (uint16_t)((ms * 16) / 10), the product in an int.
ToUnits(ms) == ((ms * 16) \div 10) % UnitMod

InUnits(low, high) == [low |-> ToUnits(low), high |-> ToUnits(high)]

Note(call, low, high, busy, refused) ==
  last' = [call |-> call, low |-> low, high |-> high, busy |-> busy, refused |-> refused]

(***************************************************************************)
(* The controller (external): ranges of the parameters, and no change of   *)
(* parameters while they are in use.                                       *)
(***************************************************************************)
AdvRange(r) == 32 <= r.low /\ r.low <= r.high /\ r.high <= 16384
\* low is the window, high the interval.
ScanRange(r) == 4 <= r.low /\ r.low <= r.high /\ r.high <= 16384

-----------------------------------------------------------------------------
(***************************************************************************)
(* Advertising and scanning.                                               *)
(***************************************************************************)
HCI_BLE_set_advertising_param(low, high, ok) ==
  /\ ok = (~advOn /\ AdvRange(InUnits(low, high)))
  /\ adv' = IF ok THEN InUnits(low, high) ELSE adv

HCI_BLE_set_scan_parameters(window, interval, ok) ==
  /\ ok = (~scanOn /\ ScanRange(InUnits(window, interval)))
  /\ scan' = IF ok THEN InUnits(window, interval) ELSE scan

\* Slip: the lower bound is left to the controller.
UncheckedMinimum(low, high) == low <= high /\ high <= 10240

ChecksInterval(low, high) == low <= high /\ low >= 20 /\ high <= 10240

GAP_set_advertising_parameters(low, high) ==
  /\ ChecksInterval(low, high)
  /\ \E ok \in BOOLEAN :
       /\ HCI_BLE_set_advertising_param(low, high, ok)
       /\ Note("set_advertising_parameters", low, high, advOn, ~ok)
  /\ UNCHANGED << data, scan_data, scan, advOn, scanOn, advData, scanData >>

\* Slip: advertising is enabled before its parameters are set.
EnableFirst(ms) ==
  /\ advOn' = TRUE
  /\ UNCHANGED adv
  /\ Note("start_advertising", ms, ms, advOn, FALSE)
  /\ UNCHANGED << data, scan_data, scan, scanOn, advData, scanData >>

\* The interval is not looked at, and the enable follows whatever becomes of it.
GAP_start_advertising(ms) ==
  /\ \E ok \in BOOLEAN :
       /\ HCI_BLE_set_advertising_param(ms, ms, ok)
       /\ Note("start_advertising", ms, ms, advOn, ~ok)
  /\ advOn' = TRUE
  /\ UNCHANGED << data, scan_data, scan, scanOn, advData, scanData >>

GAP_stop_advertising ==
  /\ advOn' = FALSE
  /\ Note("stop_advertising", 0, 0, advOn, FALSE)
  /\ UNCHANGED << data, scan_data, adv, scan, scanOn, advData, scanData >>

\* window_ms is compared with the interval only; interval_ms < 2.5 is below 3.
GAP_start_scanning(interval, window) ==
  /\ window <= interval /\ interval >= 3 /\ interval <= 10240
  /\ \E ok \in BOOLEAN :
       /\ HCI_BLE_set_scan_parameters(window, interval, ok)
       /\ Note("start_scanning", window, interval, scanOn, ~ok)
  /\ scanOn' = TRUE
  /\ UNCHANGED << data, scan_data, adv, advOn, advData, scanData >>

GAP_stop_scanning ==
  /\ scanOn' = FALSE
  /\ Note("stop_scanning", 0, 0, scanOn, FALSE)
  /\ UNCHANGED << data, scan_data, adv, scan, advOn, advData, scanData >>

GAP_set_scan_parameters ==
  /\ \E ok \in BOOLEAN :
       /\ HCI_BLE_set_scan_parameters(50, 100, ok)
       /\ Note("set_scan_parameters", 50, 100, scanOn, ~ok)
  /\ UNCHANGED << data, scan_data, adv, advOn, scanOn, advData, scanData >>

\* Nothing is checked before the request is sent.
GAP_connect(interval, window) ==
  /\ Note("connect", window, interval, FALSE, ~ScanRange(InUnits(window, interval)))
  /\ UNCHANGED << data, scan_data, adv, scan, advOn, scanOn, advData, scanData >>

GAP_deinit ==
  /\ advOn' = FALSE /\ scanOn' = FALSE
  /\ Note("deinit", 0, 0, FALSE, FALSE)
  /\ UNCHANGED << data, scan_data, adv, scan, advData, scanData >>

-----------------------------------------------------------------------------
(***************************************************************************)
(* The data calls: the bytes are copied behind the length in a static      *)
(* buffer, the whole of which is sent, and the controller uses as many as  *)
(* the length says.                                                        *)
(***************************************************************************)
\* Slip: the last byte of the data is left out of the copy.
CopiedShort(buffer, content, n) ==
  [k \in Places |-> CASE k = 0 -> n [] k \in 1 .. n - 1 -> content [] OTHER -> buffer[k]]

Copied(buffer, content, n) ==
  [k \in Places |-> CASE k = 0 -> n [] k \in 1 .. n -> content [] OTHER -> buffer[k]]

\* External: the controller's reading of the parameters.
Used(buffer) == [k \in 1 .. buffer[0] |-> buffer[k]]

\* The copy and the command of GAP_set_advertising_data.
Advertise(call, content, n) ==
  /\ n <= 32
  /\ data' = Copied(data, content, n)
  /\ advData' = IF n <= MAX_DATA THEN Used(data') ELSE advData
  /\ Note(call, n, n, FALSE, n > MAX_DATA)
  /\ UNCHANGED << scan_data, adv, scan, advOn, scanOn, scanData >>

GAP_set_advertising_data(content, n) == Advertise("set_advertising_data", content, n)

\* Flags take three bytes, the name's length and type two.
Room == 31 - 3 - 2

GAP_set_device_name(n) ==
  Advertise("set_device_name", Name, 3 + 2 + (IF n > Room THEN Room ELSE n))

GAP_set_scan_response_data(content, n) ==
  /\ n <= 31
  /\ scan_data' = Copied(scan_data, content, n)
  /\ scanData' = Used(scan_data')
  /\ Note("set_scan_response_data", n, n, FALSE, FALSE)
  /\ UNCHANGED << data, adv, scan, advOn, scanOn, advData >>

TimesUntouched ==
  /\ ~advOn /\ ~scanOn
  /\ adv = [low |-> 2048, high |-> 2048] /\ scan = [low |-> 16, high |-> 16]

DataUntouched == data = Empty /\ scan_data = Empty

TimesCall ==
  /\ Mixed \/ DataUntouched
  /\ \/ \E a, b \in Times :
          GAP_set_advertising_parameters(a, b) \/ GAP_start_scanning(a, b) \/ GAP_connect(a, b)
     \/ \E ms \in Times : GAP_start_advertising(ms)
     \/ GAP_stop_advertising \/ GAP_stop_scanning \/ GAP_set_scan_parameters \/ GAP_deinit

DataCall ==
  /\ Mixed \/ TimesUntouched
  /\ \E n \in Lengths :
       \/ GAP_set_device_name(n)
       \/ \E p \in Payloads : GAP_set_advertising_data(p, n) \/ GAP_set_scan_response_data(p, n)

Next == TimesCall \/ DataCall

Spec == Init /\ [][Next]_vars

-----------------------------------------------------------------------------
\* What a call checks is enough for the controller: of the calls that report
\* success it refuses those that came while their parameters were in use, and
\* otherwise only an interval nobody checked, a window below 3 ms and 32 bytes of
\* data (gap.c:98-110, 132, 193, 263).
ChecksSuffice ==
  (last.refused /\ ~last.busy) =>
    \/ last.call \in {"start_advertising", "connect"}
    \/ last.call = "start_scanning" /\ last.low < 3
    \/ last.call = "set_advertising_data" /\ last.low = 32

\* A call that started, or set, advertising or scanning and was not refused left
\* the times it was given in force, to the unit and not beyond: whatever was set
\* before, up to the 40959 ms that 16 bits hold (hci.c:462-463, 501-502).
Near(units, ms) == units * 10 <= ms * 16 /\ ms * 16 < units * 10 + 10

TimesInForce ==
  (~last.refused /\ last.high * 16 < UnitMod * 10) =>
    /\ last.call \in {"set_advertising_parameters", "start_advertising"} =>
         Near(adv.low, last.low) /\ Near(adv.high, last.high)
    /\ last.call \in {"set_scan_parameters", "start_scanning"} =>
         Near(scan.low, last.low) /\ Near(scan.high, last.high)

\* What the controller sends comes from one call: bytes that an earlier, longer
\* one left in the static buffer are never among it (gap.c:137-139, 229-232).
DataOfOneCall ==
  /\ \A j, k \in DOMAIN advData : advData[j] = advData[k]
  /\ \A j, k \in DOMAIN scanData : scanData[j] = scanData[k]
=============================================================================
