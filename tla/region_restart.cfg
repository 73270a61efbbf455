CONSTANTS
  Publisher = pub
  Subscribers = {s1}
  Objects = {o1, o2}
  NoObject = none
  MaxSlots = 1
  MaxGeneration = 3
  MaxSituations = 2
SPECIFICATION RegionSpec
INVARIANT SubscribersFollowPublisher
CHECK_DEADLOCK FALSE
