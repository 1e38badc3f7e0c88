SPECIFICATION FairSpec
CONSTANTS
  p1 = p1
  p2 = p2
  p3 = p3
  m1 = m1
  r1 = r1
  Publishers <- TwoPublishers
  Removers <- OneRemover
  Readers <- NoActor
  Prior = prior
  prior = prior
  PriorContents <- WholeEntry
  None = none
  none = none
  HasDecode = FALSE
  MaxAttempts = 2
  Unlucky <- OneUnlucky
  Faults <- LinuxFaults
INVARIANTS
  LockIsReleased
  StagingIsRemoved
PROPERTIES
  PublicationIsAtomic
  EveryoneReturns
