\* Messages cut in every way; nothing goes wrong, or a call fails, or the sender leaves. The threads stop.
SPECIFICATION FairSpec
CONSTANTS
  Sizes <- MixedSizes
  Capacity = 3
  Faults = {"error", "close"}
INVARIANTS StreamPreserved
PROPERTIES AllDelivered ImplementsStream
CHECK_DEADLOCK FALSE
