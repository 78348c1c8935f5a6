SPECIFICATION Spec
CONSTANTS
  W = 4
  Operands <- NegativeDividend
  Width = 4
  ByteMsb = 1
  MemWords <- FourWords
  Others <- SingleCycle
INVARIANTS RemainderSign
