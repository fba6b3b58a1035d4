\* Up to five entries in tables of one to eight slots. A search misled to a null pointer stops.
SPECIFICATION FairSpec
CONSTANTS
  Keys = {"a", "b", "c", "e"}
  Hash <- MCHash
  x = x
  Pointers = {x, NULL}
  Pairs <- MCPairs
  Hints = {0, 3}
  MaxSize = 5
  NULL = NULL
INVARIANTS MapInv NothingLost EntriesOnce IterationComplete
PROPERTIES CallReturns ImplementsMap
CHECK_DEADLOCK FALSE
