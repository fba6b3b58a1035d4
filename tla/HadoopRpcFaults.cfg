\* One proxy, every fault of sockets and servers, environments that lack
\* types, a second initialisation, all proxy arguments. A killed process stops.
SPECIFICATION Spec
CONSTANTS
  Proxies = {p1}
  ProxyArgs <- VariedArgs
  Dirs = {"all", "noheader", "norequest", "noresponse", "noreshead", "context", "unrelated", "broken"}
  Versions = {"2.0.3", NULL}
  Load <- MCLoad
  ReplyKinds = {"ok", "error"}
  Faults = {"refused", "rst", "fin", "intr", "short", "dup"}
  MaxInit = 2
  MaxCalls = 2
  MaxId = 2
  NULL = NULL
INVARIANTS AppIdFromOwnCall CallIdsIncrease EnvOfOpenProxies
PROPERTIES AppIdWriteOnce
CHECK_DEADLOCK FALSE
