SPECIFICATION Spec
CONSTANTS
  a = a
  b = b
  pad = pad
  zero = zero
  idle = idle
  Tokens <- TwoTokens
  Pad = pad
  Zero = zero
  Idle = idle
  Prompts <- SomePrompts
  Paged = TRUE
  PageSize = 4
  Window = 2
  MaxKv = 5
  ConfigMax = 3
  BatchSize = 1
  ConvKernel = 2
  DeviceFaults = FALSE
INVARIANT
  PoolMatchesProgram
