CONSTANTS
  Checkpoints <- MCCheckpoints
  Devices <- MCDevices
  Requests <- MCRequests
  MaxWrites = 2
  MaxChanges = 1
SPECIFICATION Spec
INVARIANT
  HybridHasOneModule
