CONSTANTS
  s1 = s1
  k1 = k1
  k2 = k2
  c1 = c1
  r1 = r1
  NoId = NoId
  Torn = Torn
  SoftIds = {s1}
  Cards = {k1, k2}
  Enrolled = {k1, k2}
  Containers = {c1}
  Refs = {r1}
  Forms = {"keyed", "bare", "short"}
  MaxFaults = 1
  MaxPolls = 1
SPECIFICATION FairSpec
INVARIANTS OneAnswer SignedAsChosen StoreInv SignsAsChosen KeysKept
PROPERTIES AnswerComes
