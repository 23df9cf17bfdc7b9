CONSTANTS
  Frames <- AllFrames
  Conns = {"mesh1", "mesh2", "rogue"}
  PeerOf <- Peers
  Rogues = {"r"}
  Version = 1
  MaxTopic = 2
  MaxFrame = 8
  SeenMax = 1
  Backlog = 2
  MaxWritten = 3
SPECIFICATION Spec
INVARIANTS GoodPeersKept WireInv
PROPERTY FloodArrives
