CONSTANTS
  n1 = n1
  n2 = n2
  n3 = n3
  Nodes = {n1, n2, n3}
  Ranges <- MCLayouts
  Ids = {a, b}
  TTL = 3
  Spread = 1
  SeenCap = 1
  ForeignHops = {9}
  Nobody = Nobody
  MaxSends = 2
  Stoppers = {n3}
SPECIFICATION FairSpec
INVARIANTS GossipInv FloodReached
PROPERTIES HeardAsStream FloodEnds
