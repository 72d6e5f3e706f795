CONSTANTS
  p1 = p1
  p2 = p2
  Lanes <- TwoLanes
  Kinds <- LaneKinds
  MaxReq <- TwoAndOne
  MaxSession = 2
  MaxQueue = 2
SPECIFICATION Spec
INVARIANTS IInv BufferExclusive ActiveLanesExact
PROPERTIES ImplementsLaneAbs TargetReleased WorkerAlwaysAnswers
CHECK_DEADLOCK FALSE
