SPECIFICATION Spec
CONSTANTS
  a = a
  b = b
  pad = pad
  zero = zero
  idle = idle
  Tokens <- TwoTokens
  Pad = pad
  Zero = zero
  Idle = idle
  Prompts <- SomePrompts
  Paged = FALSE
  PageSize = 4
  Window = 3
  MaxKv = 5
  ConfigMax = 5
  BatchSize = 1
  ConvKernel = 2
  DeviceFaults = TRUE
INVARIANTS
  PrefillSeesPrompt
  ConvSeesPrompt
PROPERTIES
  ConvContinues
  MeetsContract
