SPECIFICATION FairSpec
CONSTANTS
  p1 = p1
  p2 = p2
  p3 = p3
  m1 = m1
  r1 = r1
  Publishers <- ThreePublishers
  Removers <- NoActor
  Readers <- OneReader
  Prior = prior
  prior = prior
  PriorContents <- AnyLeftover
  None = none
  none = none
  HasDecode = TRUE
  MaxAttempts = 2
  Unlucky <- NoActor
  Faults <- NoFault
INVARIANTS
  TypeOK
  SoleBuilder
  ReaderSeesOneEntry
  SuccessMeansComplete
PROPERTIES
  CompleteEntryIsKept
  EntryIsPublished
