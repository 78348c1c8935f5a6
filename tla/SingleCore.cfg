SPECIFICATION HostSpec
CONSTANTS
  NumP = 1
  CORE_NUM_MAX = 8
  Tags = {0, 1}
  Indexes = {0, 1}
  Words = {0, 1}
  Bytes = {0}
  Vals = {0, 1}
  InitVal = 0
  Programs <- Benchmark
  Finishers = {}
  Tohost <- TohostWord
  Fromhost <- FromhostWord
  Answered = 1
INVARIANT NoLostStore
PROPERTIES AddressStands PollSeesAnswer
