SPECIFICATION Spec
CONSTANTS
  Capacity = 2
  BootCapacity = 3
  MaxInstr = 6
  SharedThread = TRUE
INVARIANTS TypeOK RingHoldsWindow
PROPERTIES LogSpec
