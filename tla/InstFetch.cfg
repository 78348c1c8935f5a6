SPECIFICATION FairSpec
CONSTANTS
  Rvc <- MixedRvc
  CodeLines <- TwoStretches
  Effects <- EveryAlignment
  Start = 0
INVARIANTS TypeOK BufferInOrder RedirectedTo ExecutesWhole
PROPERTIES RefinesProgramOrder FetchGoesOn
