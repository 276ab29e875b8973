SPECIFICATION Spec
CONSTANTS
  Conns = {c1, c2}
  c1 = c1
  c2 = c2
  NoConn = NoConn
  Commands <- FewCommands
  FrameCap = 2
  MaxRequests = 2
  Burst = 2
  RecvCapacity = 3
  SendCapacity = 2
  Backlog = 1
INVARIANTS TypeOK LoadedOnce FramesAnswered
PROPERTIES ServiceSpec Answered
CHECK_DEADLOCK FALSE
