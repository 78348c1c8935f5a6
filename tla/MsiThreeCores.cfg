SPECIFICATION FairSpec
CONSTANTS
  NumP = 3
  CORE_NUM_MAX = 4
  Tags = {0, 1}
  Indexes = {0}
  Words = {0}
  Bytes = {0}
  Vals = {0}
  InitVal = 0
  Programs <- OuterCoresEvict
  Finishers = {0, 1, 2}
INVARIANTS TypeOK SWMR PortsAgree GrantStands OwnerIsPast ClocksAgree
PROPERTIES OuterAccessEnds PairAccessEnds
