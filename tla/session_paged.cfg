SPECIFICATION Spec
CONSTANTS
  a = a
  b = b
  pad = pad
  zero = zero
  idle = idle
  Tokens <- TwoTokens
  Pad = pad
  Zero = zero
  Idle = idle
  Prompts <- SomePrompts
  Paged = TRUE
  PageSize = 4
  Window = 2
  MaxKv = 5
  ConfigMax = 5
  BatchSize = 1
  ConvKernel = 3
  DeviceFaults = TRUE
INVARIANTS
  TypeOK
  PrefillSeesPrompt
  ConvSeesPrompt
  CallsAreAdmitted
PROPERTIES
  ConvContinues
  MeetsContract
