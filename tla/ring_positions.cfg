SPECIFICATION Spec
CONSTANTS
  TermLength = 4
  TermCount = 2
  MaxSubscribers = 2
  Processes = {p1, p2}
  Writer = Writer
  Janitor = Janitor
  FrameSizes = {2, 3, 5}
  MaxLength = 4
  MaxProducerPos = 9
  MaxGeneration = 1
  NoSlot = NoSlot
  NoPid = NoPid
SYMMETRY Symmetry
INVARIANTS TypeOK SlotExclusive CachedMinIsSafe NoOverwriteUnread FrameStaysInTerm
PROPERTY OnlyOverrunRewinds
