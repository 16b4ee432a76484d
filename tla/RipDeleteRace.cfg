SPECIFICATION Spec
CONSTANTS
  Octets = 2
  OctetBits = 1
  c1 = c1
  c2 = c2
  h1 = h1
  h2 = h2
  h3 = h3
  k1 = k1
  k2 = k2
  none = none
  p1 = p1
  p2 = p2
  Handle = {c1, c2, h1, h2}
  NoRoute = none
  Port = {p1, p2}
  P1 = p1
  P2 = p2
  RipPort = {p1}
  C1 = c1
  C2 = c2
  MaxAge = 2
  CHECK_EVERY = 1
  RIP_T_INVALID = 1
  RIP_T_FLUSH = 1
  PortIp <- MCPortIp
  PortMask <- MCPortMask
  MetricModulus <- MCModulus
  Message <- MCMessages
  StaticRoute <- MCStatic
  RipNetwork <- MCRipNet
  Console = {k1}
  Command = {"delete_route"}
CHECK_DEADLOCK FALSE
PROPERTIES TimersRemoveOnlyFlushed
