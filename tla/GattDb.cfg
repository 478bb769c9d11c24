SPECIFICATION Spec
SYMMETRY Exchanged
CONSTANTS
  u1 = u1
  u2 = u2
  ZeroUuid = zero
  Uuids <- TwoUuids
  Values = {v}
  Blank = blank
  MAX_SERVICES = 2
  MAX_CHARACTERISTICS_PER_SERVICE = 1
  MAX_VALUE_LENGTH = 1
  HandleMod = 8
  PastWrap = FALSE
  Reinits = TRUE
CONSTRAINT BeforeWrap
PROPERTY ImplementsTable
INVARIANT TypeOK
INVARIANT HandlesDistinct
PROPERTY HandlesKeepOwner
