SPECIFICATION LinkFairSpec
CONSTANTS
  Octets = 2
  OctetBits = 1
  c1 = c1
  c2 = c2
  h1 = h1
  h2 = h2
  f1 = f1
  f2 = f2
  f3 = f3
  f4 = f4
  none = none
  p1 = p1
  p2 = p2
  Handle = {c1, c2, h1}
  NoRoute = none
  Port = {p1, p2}
  P1 = p1
  P2 = p2
  RipPort = {p1}
  C1 = c1
  C2 = c2
  MaxAge = 3
  CHECK_EVERY = 2
  RIP_T_UPDATE = 2
  RIP_T_INVALID = 2
  RIP_T_FLUSH = 2
  PortIp <- MCPortIp
  PortMask <- MCPortMask
  MetricModulus <- MCModulus
  Message = {}
  StaticRoute = {}
  RipNetwork <- MCNetworks
  Console = {}
  Command = {}
  FarHandle = {f1, f2, f3}
  FarTable <- MCFarTable
  FarRoutes <- MCFarRoutes
  Link = p1
  Leftover <- MCLeftover
  Wire = 1
  MaxLate = 2
CHECK_DEADLOCK FALSE
INVARIANTS LinkTypeOK LearnsOnlyAdvertised
PROPERTIES AdvertisedKept LatenessSilences AdvertisedLearned
