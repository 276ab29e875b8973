SPECIFICATION Spec
CONSTANTS
  a1 = a1
  b1 = b1
  a2 = a2
  b2 = b2
  Places = {a1, b1, a2, b2}
  Last = 2
  Section <- SectionOf
  Programs <- SharedFilePrograms
  NativeSets = {{}, {b1}}
INVARIANTS NothingMissing
CHECK_DEADLOCK FALSE
