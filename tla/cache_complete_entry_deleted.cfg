SPECIFICATION Spec
CONSTANTS
  p1 = p1
  p2 = p2
  p3 = p3
  m1 = m1
  r1 = r1
  Publishers <- TwoPublishers
  Removers <- NoActor
  Readers <- NoActor
  Prior = prior
  prior = prior
  PriorContents <- AnyLeftover
  None = none
  none = none
  HasDecode = TRUE
  MaxAttempts = 2
  Unlucky <- NoActor
  Faults <- AgeOnly
PROPERTY CompleteEntryIsKept
