SPECIFICATION FairDeliverySpec
CONSTANTS
  PubThreads = {t1}
  Strategies = {s1}
  SubStrategies = {s1}
  AutoHeartbeat = TRUE
  AppPolls = FALSE
  MaxLog = 2
  MaxSequence = 1
  MaxSessions = 2
INVARIANT OutageReportedOnce
PROPERTIES EventuallyDelivered OutageNoticed
