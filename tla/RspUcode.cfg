SPECIFICATION FairSpec
CONSTANTS
  Size = 7
  Slots = 2
  MaxOverlays = 3
  Ucodes <- FollowedUcodes
  WatchdogLimit = 4
  MaxTasks = 2
  Heads <- LoaderHeads
  Overlays1 <- FirstSlot
  Overlays2 <- SecondSlot
  Refused <- EndRefused
INVARIANTS UcodeTypeOK NeverLost
PROPERTIES FollowsRsp TaskEnds
CHECK_DEADLOCK FALSE
