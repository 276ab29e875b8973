SPECIFICATION Spec
CONSTANTS
  Programs <- LinkedPrograms
  Room = 18
  MaxDepth = 3
  SymbolsOfA <- OverlayA
  SymbolsOfB <- OverlayB
  SymbolsOfR <- Moved
  RamOfR <- TwoWindows
  FromMain <- MainCalls
  FromA <- ACalls
  IntoR <- RCalls
  FromR <- CallsFromR
  Lookups = {FALSE, TRUE}
INVARIANTS TypeOK AlwaysFound
PROPERTY FollowsLoader
CHECK_DEADLOCK FALSE
