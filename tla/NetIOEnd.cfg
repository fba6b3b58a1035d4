\* The sender leaves in the middle of a message.
SPECIFICATION FairSpec
CONSTANTS
  Sizes <- OneMessage
  Capacity = 3
  Faults = {"close"}
PROPERTIES ReadAllEnds
CHECK_DEADLOCK FALSE
