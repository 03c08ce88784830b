SPECIFICATION FairSpec
CONSTANTS
  Events = 5
  L1Block <- MCL1Block
  LogIndex <- MCLogIndex
  Kind <- MCKind
  MaxErrors = 1
  MaxRestarts = 2
INVARIANTS
  NoEventSkipped
PROPERTIES
  EventuallyExecuted
CHECK_DEADLOCK FALSE
