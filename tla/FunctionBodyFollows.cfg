SPECIFICATION FairSpec
CONSTANTS
  N = 4
  Codes <- GoodBodies
  Elsewhere = {6, 7}
  RaValues = {2, 6}
  TValues = {6}
  Entries = {2}
  EntryVram = 1
  Requested = {}
  HostReturn = 6
  NextCallable = TRUE
  Unresolved = {7}
  Targets = {1, 2, 3, 4, 5, 6, 7}
  Writes = {"none", "ra"}
  SlotWrites = {"none", "ra", "t"}
INVARIANTS TypeOK NoMissingLabel ReturnsStayLocal
PROPERTIES FollowsGuest LoopsYield
CHECK_DEADLOCK FALSE
