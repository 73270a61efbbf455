CONSTANTS
  Publisher = pub
  Subscribers = {s1, s2}
  Objects = {o1, o2}
  NoObject = none
  MaxSlots = 1
  MaxGeneration = 3
  MaxSituations = 3
SYMMETRY Symmetry
SPECIFICATION RegionSpec
INVARIANTS
  RegionTypeOK
  ReadyIsValid
  RegistrationKept
  SlotsAccountedFor
  UsersShareRegion
  FailureLeavesNoTrap
PROPERTIES
  UnregisterSparesOthers
  UnlinksOwn
CHECK_DEADLOCK FALSE
