CONSTANTS
  Runs = {r1}
  Slots = {1, 2}
  Retries = 1
  MaxFaults = 2
  None = None
SPECIFICATION FairSpec
INVARIANTS
  NoDescriptorLeft
PROPERTIES
  EveryAskEnds
  SoleRunIsAnswered
