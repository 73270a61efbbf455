SPECIFICATION FramesSpec
CONSTANTS
  TermLength = 4
  TermCount = 2
  MaxSubscribers = 1
  Processes = {p1}
  Writer = Writer
  Janitor = Janitor
  FrameSizes = {1, 2, 5}
  MaxLength = 5
  MaxProducerPos = 12
  MaxGeneration = 1
  NoSlot = NoSlot
  NoPid = NoPid
  AnyLength = AnyLength
INVARIANTS FramesTypeOK UnreadFramesIntact
