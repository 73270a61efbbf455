CONSTANTS
  x1 = x1
  Exchanges = {x1}
  NoExchange = NoExchange
  Configured <- OneSubscribed
  CallbackCalls = {"publish", "unsubscribe"}
  MaxSituations = 2
SPECIFICATION FairClientSpec
INVARIANTS
  ClientTypeOK
  NoDeadlock
  NeverTerminated
  UnmappedAfterThreads
  DisconnectStopsAll
PROPERTY CallsReturn
CHECK_DEADLOCK FALSE
