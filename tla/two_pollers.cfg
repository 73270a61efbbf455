SPECIFICATION DeliverySpec
CONSTANTS
  PubThreads = {t1}
  Strategies = {s1}
  SubStrategies = {s1}
  AutoHeartbeat = TRUE
  AppPolls = TRUE
  MaxLog = 2
  MaxSequence = 2
  MaxSessions = 1
PROPERTIES DeliveredInOrder
