\* The first request frame.
SPECIFICATION Spec
CONSTANTS
  Proxies = {p1}
  ProxyArgs <- ClientArgs
  Dirs = {"all"}
  Versions = {"2.0.3"}
  Load <- MCLoad
  ReplyKinds = {"ok", "noid", "empty", "badpayload", "badheader", "error", "fatal"}
  Faults = {}
  MaxInit = 1
  MaxCalls = 3
  MaxId = 2
  NULL = NULL
INVARIANTS RequestIsEncoded
CHECK_DEADLOCK FALSE
