\* One proxy, a complete environment, every kind of answer and repeated
\* answers; the sockets themselves do not fail.
SPECIFICATION FairSpec
CONSTANTS
  Proxies = {p1}
  ProxyArgs <- ClientArgs
  Dirs = {"all"}
  Versions = {"2.0.3"}
  Load <- MCLoad
  ReplyKinds = {"ok", "noid", "empty", "badpayload", "badheader", "error", "fatal"}
  Faults = {"dup"}
  MaxInit = 1
  MaxCalls = 3
  MaxId = 2
  NULL = NULL
INVARIANTS TypeOK ReplyConsumed NoCrash
PROPERTIES CleanCallReturns ImplementsService
CHECK_DEADLOCK TRUE
