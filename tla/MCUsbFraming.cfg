CONSTANTS
  MPS = 2
  BUF = 6
  StdLens <- Oversize
  StdReplies <- BelowBuf
  VendorLens <- OnePacket
  VendorReplies <- OnePacket
  HostZlps = {TRUE, FALSE}
  MaxReq = 2
SPECIFICATION Spec
INVARIANTS Reassembled NoPartialCommand 
PROPERTIES EveryRequestAnswered
CHECK_DEADLOCK FALSE
