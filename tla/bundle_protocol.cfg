CONSTANTS
  Checkpoints <- MCCheckpoints
  Devices <- MCDevices
  Requests <- MCRequests
  MaxWrites = 3
  MaxChanges = 1
SPECIFICATION Spec
INVARIANTS
  ModulesNotOlder
  CompletedWriteAnswersRequest
PROPERTIES
  LoadFailsForCause
