\* What a peer may send, also too long or ending too early, and failing reads. The function returns and the model stops.
SPECIFICATION Spec
CONSTANTS
  Inputs <- Everything
  Values <- Boundaries
  MayFail = TRUE
  Unset = Unset
INVARIANTS TypeOK RoundTrip DecodesInt32
CHECK_DEADLOCK FALSE
