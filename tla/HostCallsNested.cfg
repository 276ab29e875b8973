SPECIFICATION FairSpec
CONSTANTS
  main = main
  f = f
  g = g
  h = h
  leaf = leaf
  m1 = m1
  m2 = m2
  f1 = f1
  f2 = f2
  g1 = g1
  h1 = h1
  Root = Root
  Funcs <- AllFuncs
  Sites <- AllSites
  Owner <- SiteOwner
  Calls <- NestedCalls
  Tails <- NestedTails
  Entry = main
  MaxDepth = 7
  RegSites = {m2}
  RegReturners = {h}
  LocalLabels = {m1}
  DepthLimit = 1
INVARIANTS TypeOK HostReturnChain DepthCounted HostStackBounded
PROPERTIES FollowsGuest Settles
