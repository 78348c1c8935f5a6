SPECIFICATION Spec
CONSTANTS
  Code <- TheCode
  After <- TheAfter
  Vectors <- TheVectors
  CounterSize = 4
INVARIANTS TypeOK OwnVerdict
PROPERTIES OnlyTrapsRaise RefinesPrivileged
