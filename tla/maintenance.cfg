SPECIFICATION FairMaintenanceSpec
CONSTANTS
  TermLength = 1
  TermCount = 2
  MaxSubscribers = 1
  Processes = {p1, p2}
  Writer = Writer
  Janitor = Janitor
  FrameSizes = {1, 2}
  MaxLength = 2
  MaxProducerPos = 2
  MaxGeneration = 1
  NoSlot = NoSlot
  NoPid = NoPid
INVARIANTS SweepTypeOK FirstOwnerKeepsSlot FirstOwnerProtected
PROPERTY DeadSlotsFreed
