SPECIFICATION Spec
CONSTANTS
  UnitMod = 65536
  Times <- EdgeTimes
  Payloads = {a, b}
  Lengths <- EdgeLengths
  NoData = nodata
  Name = name
  Mixed = FALSE
INVARIANT ChecksSuffice
INVARIANT TimesInForce
INVARIANT DataOfOneCall
