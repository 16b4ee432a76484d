--------------------------- MODULE MCForwarding ---------------------------
(***************************************************************************)
(* Addresses of two octets of two bits; below, "1.2" is first octet 1,     *)
(* second octet 2.  P1 is 1.1 and P2 is 2.1, each with one station, 1.2    *)
(* and 2.2.                                                                *)
(***************************************************************************)
EXTENDS ForwardingProps

CONSTANTS h1, h2, none, p1, p2, k1, ma, mb, m1, m2, nomac

Ip(octet1, octet2) ==
  { i \in 0 .. 3 :
      IF i < 2 THEN (octet1 \div 2 ^ i) % 2 = 1 ELSE (octet2 \div 2 ^ (i - 2)) % 2 = 1 }

MCPortMac  == p1 :> m1 @@ p2 :> m2
MCPortIp   == p1 :> Ip(1, 1) @@ p2 :> Ip(2, 1)

Connected(p, mask) ==
  NewRoute(ip_mask_to_network(MCPortIp[p], mask), mask, p, DIRECTLY_CONNECTED_AD, {})

\* Both networks are whole octets.
MCPortMask == p1 :> 2 @@ p2 :> 2
MCRoutes   == h1 :> Connected(p1, 2) @@ h2 :> Connected(p2, 2)
MCTable    == <<h1, h2>>

MCStations ==
  { [port |-> p1, ip |-> Ip(1, 2), mac |-> ma],
    [port |-> p2, ip |-> Ip(2, 2), mac |-> mb] }

MCAsked == { Ip(1, 2), Ip(2, 2) }

ArpRequest(s, tpa) ==
  [kind |-> "arp", oc |-> "request", spa |-> s.ip, sha |-> s.mac, tpa |-> tpa]
StationReply(s, tpa) ==
  [kind |-> "arp", oc |-> "reply", spa |-> s.ip, sha |-> s.mac, tpa |-> tpa]
ToRouter(dst)  == [kind |-> "ip", dst |-> dst, to |-> "router"]
ToAnother(dst) == [kind |-> "ip", dst |-> dst, to |-> "other"]
ToAll(dst)     == [kind |-> "ip", dst |-> dst, to |-> "all"]

S1 == CHOOSE s \in MCStations : s.port = p1
S2 == CHOOSE s \in MCStations : s.port = p2

\* Each station asks for its router and sends a frame to the other one.
MCArriving ==
  p1 :> { ArpRequest(S1, Ip(1, 1)), ToRouter(S2.ip) }
  @@ p2 :> { ArpRequest(S2, Ip(2, 1)), ToRouter(S1.ip) }

\* One also asks for the other, and the other answers its own neighbour.
MCProxied ==
  p1 :> MCArriving[p1] \cup { ArpRequest(S1, S2.ip) }
  @@ p2 :> MCArriving[p2] \cup { StationReply(S2, Ip(2, 0)) }

\* A frame between two stations of one network, and a broadcast, which the
\* router hears too.
MCOverheard ==
  p1 :> { ToAnother(S1.ip), ToAll(S1.ip), ArpRequest(S1, Ip(1, 1)) } @@ p2 :> {}
=============================================================================
