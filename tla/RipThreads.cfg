SPECIFICATION Spec
CONSTANTS
  Octets = 2
  OctetBits = 1
  c1 = c1
  c2 = c2
  h1 = h1
  h2 = h2
  h3 = h3
  k1 = k1
  k2 = k2
  none = none
  p1 = p1
  p2 = p2
  Handle = {c1, c2, h1, h2}
  NoRoute = none
  Port = {p1, p2}
  P1 = p1
  P2 = p2
  RipPort = {p1, p2}
  C1 = c1
  C2 = c2
  MaxAge = 1
  CHECK_EVERY = 1
  RIP_T_INVALID = 0
  RIP_T_FLUSH = 0
  PortIp <- MCPortIp
  PortMask <- MCPortMask
  MetricModulus <- MCModulus
  Message <- MCOne
  StaticRoute <- MCStatic
  RipNetwork <- MCRipNet
  Console = {}
  Command = {}
CHECK_DEADLOCK FALSE
SYMMETRY FreeHandles
INVARIANTS TypeOK SelfCovered
PROPERTIES Lifecycle
