CONSTANTS
  Procs = {p1, p2}
  None = None
  Keys = {k0, k1, k2}
  Legacy = k0
  MaxKeys = 2
  MaxWrites = 5
  Accounts = {a1}
  MaxCount = 1
  MaxSaves = 3
  NoOp = NoOp
  MaxDayBuckets = 1
  LastDay = 2
  MaxRecords = 3
SPECIFICATION StoresSpec
SYMMETRY Interchangeable
INVARIANTS
  FileIsTruth
  CountsAddUp
  TodayAddsUp
  ViewNeverOvercounts
  ClosedIsSaved
PROPERTIES
  RevokedIsRefused
  OnlyAssignedChange
  
