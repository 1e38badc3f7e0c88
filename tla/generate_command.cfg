CONSTANTS
  Checkpoints <- MCCheckpoints
  Dumps <- MCDumps
  Requests <- MCRequests
  Tokenizers <- MCTokenizers
  Texts <- MCTexts
  Utf8 <- MCUtf8
  Sampled <- MCSampled
  Limits <- MCLimits
  HostFeatures <- MCHostFeatures
  U32 <- MCU32
SPECIFICATION Spec
INVARIANTS
  SessionReadsOwnTensors
  SessionParametersFit
  SessionMatchesGraph
  CallsAreDefined
  WeightsAreLowered
  ProgramComputesGraph
  SelectionHasNoTie
  ProgramRunsOnItsChip
  DecodeInvertsEncode
PROPERTIES
  CompleteCoverageLowers
  FreshBundleLoads
  GenerationFits
CHECK_DEADLOCK FALSE

