SPECIFICATION FairSpec
CONSTANTS
  Device = {1, 2}
  Writers = {1}
  SeenSize = 2
  Evicted = 1
  MaxEntries = 3
  MaxPublished = 3
  MaxFaults = 1
INVARIANTS TypeOK HoldsPrefix HandedOnce
PROPERTIES Delivered
CHECK_DEADLOCK FALSE
