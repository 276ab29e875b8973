SPECIFICATION FairSpec
CONSTANTS
  a1 = a1
  b1 = b1
  a2 = a2
  b2 = b2
  Places = {a1, b1, a2, b2}
  Last = 2
  Section <- SectionOf
  Programs <- ForwardPrograms
  NativeSets = {{}, {b1}}
INVARIANTS TypeOK NothingMissing DefinedOnce
PROPERTIES Finishes
CHECK_DEADLOCK FALSE
