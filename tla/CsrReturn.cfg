SPECIFICATION Spec
CONSTANTS
  Code <- NoStrays
  After <- TheAfter
  Vectors <- TheVectors
  CounterSize = 4
PROPERTY RemainsInMachineMode
