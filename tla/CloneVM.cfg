SPECIFICATION VMSpec
CONSTANTS
  StackBase = 4096
  HeapBase = 8192
  Names <- SlotNames
  Programs <- AllPrograms
  MaxUnroll = 3
  MaxCalls = 2
CHECK_DEADLOCK FALSE
INVARIANTS
  ReadBack
  TraceIsTrue
  CallsReturnAsInC
