\* Two calls on one environment or on a new one. Calls are bounded, so the model stops.
SPECIFICATION FairSpec
CONSTANTS
  Names = {"descriptor", "base", "mid", "top", "side", "loop1", "loop2", "lost", "nowhere", "meta"}
  Types = {"E", "A", "B", "C", "L", "S", "M"}
  Enums = {"E"}
  Builtin = "descriptor"
  Directories <- MCDirectories
  Sets <- MCSets
  BufferSize = 4
  StackLens = {"zero", "wild"}
  MaxCalls = 2
INVARIANTS TypeOK DepsRegistered RegistersClosure TypesResolved
PROPERTIES CallReturns
CHECK_DEADLOCK FALSE
