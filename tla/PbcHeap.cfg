\* Up to four blocks. The heap is deleted once, then the model stops.
SPECIFICATION Spec
CONSTANTS
  PageSizes <- MCPageSizes
  Sizes <- MCSizes
  MinPage = 16
  MaxAllocs = 4
INVARIANTS HeapInv BlocksDisjoint FreedOnce
PROPERTIES ImplementsAllocator
CHECK_DEADLOCK FALSE
