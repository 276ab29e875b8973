SPECIFICATION Spec
CONSTANTS
  Capacity = 2
  Buffers = {b1, b2}
  b1 = b1
  b2 = b2
  MaxTasks = 4
  CopyOrders <- IndexLast
  SharedThread = FALSE
INVARIANTS TypeOK WholeReads EveryTaskOnce OutputOfItsTask PositionIsIndex
CHECK_DEADLOCK FALSE
