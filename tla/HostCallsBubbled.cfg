SPECIFICATION Spec
CONSTANTS
  main = main
  f = f
  g = g
  h = h
  leaf = leaf
  m1 = m1
  m2 = m2
  f1 = f1
  f2 = f2
  g1 = g1
  h1 = h1
  Root = Root
  Funcs <- AllFuncs
  Sites <- AllSites
  Owner <- SiteOwner
  Calls <- RecursiveCalls
  Tails <- RecursiveTails
  Entry = main
  MaxDepth = 8
  RegSites = {m1}
  RegReturners = {}
  LocalLabels = {}
  DepthLimit = 1
INVARIANTS NoMismatch
