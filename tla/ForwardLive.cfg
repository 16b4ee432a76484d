SPECIFICATION FairSpec
CONSTANTS
  Octets = 2
  OctetBits = 2
  h1 = h1
  h2 = h2
  none = none
  p1 = p1
  p2 = p2
  k1 = k1
  ma = ma
  mb = mb
  m1 = m1
  m2 = m2
  nomac = nomac
  Handle = {h1, h2}
  NoRoute = none
  Port = {p1, p2}
  P1 = p1
  MaxAge = 0
  Mac = {ma, mb, m1, m2}
  NoMac = nomac
  PortMac <- MCPortMac
  PortIp <- MCPortIp
  PortMask <- MCPortMask
  Table <- MCTable
  Routes <- MCRoutes
  Console = {}
  Asked <- MCAsked
  Arriving <- MCArriving
  Station <- MCStations
  ARP_TIMEOUT = 1
  Backlog = 1
  Failing = {p1}
CHECK_DEADLOCK FALSE
PROPERTIES ListenersReturn
