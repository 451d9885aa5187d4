CONSTANTS
  Keys = {k1, k2}
  Uids = {u1}
  None = None
  Slots = 1
  MaxWrites = 3
SPECIFICATION FairSpec
INVARIANTS
  Chained
PROPERTIES
  WritesInOrder
  WriteEnds
