CONSTANTS
  a1 = a1
  a2 = a2
  n1 = n1
  n2 = n2
  c1 = c1
  c2 = c2
  Addrs = {a1, a2}
  Higher = {a1, a2}
  NodeIds = {n1, n2}
  Centrals = {c1, c2}
  Sizes = {2, 4}
  ByteMod = 3
  IdMod = 2
  NoId = NoId
  NoAddr = NoAddr
  Senders = {a1, c1, c2}
  MaxWork = 3
SPECIFICATION Spec
CHECK_DEADLOCK FALSE
SYMMETRY Symmetry
INVARIANTS LiveIsListed RoutesAgree RadioInv FragmentsRejoin
