SPECIFICATION Spec
CONSTANTS
  NumP = 1
  CORE_NUM_MAX = 4
  Tags = {0, 1}
  Indexes = {0}
  Words = {0}
  Bytes = {0, 1}
  Vals = {0, 1}
  InitVal = 0
  Programs <- SubWord
  Finishers = {}
INVARIANTS NoLostStore
