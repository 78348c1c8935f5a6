SPECIFICATION Spec
CONSTANTS
  W = 4
  Operands <- EverySign
  Width = 4
  ByteMsb = 1
  MemWords <- FourWords
  Others <- SingleCycle
INVARIANTS TypeOK MulResult DivResult PartialProduct PartialRemainder
           SumRight ShiftRight BranchRight StoreLoadRight
