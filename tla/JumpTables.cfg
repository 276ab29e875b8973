SPECIFICATION Spec
CONSTANTS
  LastPlace = 3
  DataStart = 20
  Values = {0, 1, 2}
  Functions <- AllFunctions
  W1 <- First
  W2 <- Second
  W3 <- Third
  W4 <- Fourth
  W5 <- Fifth
  W6 <- Sixth
  Labels <- SomeLabels
  Datas <- TwoByTwo
CONSTRAINT Followed
INVARIANT TypeOK
PROPERTY FollowsCpu
CHECK_DEADLOCK FALSE
