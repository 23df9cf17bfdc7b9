CONSTANTS
  Topics = {"t1", "t2"}
  Sealed = {"x", "y"}
  Bodies <- MCBodies
  Bearers = {"delivery", "mesh"}
  SeenMax = 2
  RxMax = 2
  MaxDelivered = 5
  MaxDepth = 2
  MaxSent = 2
SPECIFICATION PathSpec
INVARIANT SameBytesOnce
