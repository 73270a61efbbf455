SPECIFICATION LiveFramesSpec
CONSTANTS
  TermLength = 4
  TermCount = 2
  MaxSubscribers = 1
  Processes = {p1, p2}
  Writer = Writer
  Janitor = Janitor
  FrameSizes = {2, 5}
  MaxLength = 5
  MaxProducerPos = 8
  MaxGeneration = 1
  NoSlot = NoSlot
  NoPid = NoPid
  AnyLength = AnyLength
INVARIANTS OnlyPublishedFrames NeverOverrun
PROPERTIES ImplementsPositions ImplementsFeed EventuallyRead
