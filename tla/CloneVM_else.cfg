SPECIFICATION VMSpec
CONSTANTS
  StackBase = 4096
  HeapBase = 8192
  Names <- SlotNames
  Programs <- Branching
  MaxUnroll = 3
  MaxCalls = 2
INVARIANT OneArmRuns
CHECK_DEADLOCK FALSE
