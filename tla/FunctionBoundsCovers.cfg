SPECIFICATION BoundsSpec
CONSTANTS
  N = 6
  Straight <- MoreStraight
  Slots <- PlainSlots
  Branches <- CondBranches
  Jumps <- FarJumps
  Codes <- GoodBodies
INVARIANTS BoundsTypeOK Covered NothingElse
CHECK_DEADLOCK FALSE
