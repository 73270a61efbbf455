SPECIFICATION DeliverySpec
CONSTANTS
  PubThreads = {t1, t2}
  Strategies = {s1}
  SubStrategies = {s1}
  AutoHeartbeat = FALSE
  AppPolls = TRUE
  MaxLog = 2
  MaxSequence = 2
  MaxSessions = 2
SYMMETRY Symmetry
INVARIANTS DeliveryTypeOK NothingSkipped NoCallbackAfterUnsubscribe
PROPERTIES LoopDeliversInOrder OrderingErrorsReal DisorderCounted
