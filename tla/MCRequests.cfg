SPECIFICATION Spec
CONSTANTS
  Conns = {c1, c2}
  c1 = c1
  c2 = c2
  Limit = 2
  Names <- TwoNames
  Dns <- TwoAddrs
  BaseHref <- NoBase
  Settings <- WebSettings
  MaxTries = 2
INVARIANTS
  RightServer
  HostOfUrl
  PoolExact
  FdsExact
PROPERTIES
  FallbackTried
SYMMETRY Symmetry
