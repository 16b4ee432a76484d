------------------------------- MODULE MCRip -------------------------------
(***************************************************************************)
(* A small instance: addresses of two octets of one bit.  P1 is the        *)
(* network 0.0/2 and P2 0.1/2 (in the notation first octet . second        *)
(* octet), so that 1.0 and 1.1 are left for neighbours to advertise, each  *)
(* on its own (/2) or together (/1).                                       *)
(***************************************************************************)
EXTENDS RipProps

CONSTANTS c1, c2, h1, h2, h3, none, p1, p2, k1, k2

MCPortIp   == p1 :> {} @@ p2 :> {1}
MCPortMask == p1 :> 2 @@ p2 :> 2

WireMask(prefix) == Swap(prefix_to_mask(prefix))
Advert(ip, prefix, metric) ==
  [ip |-> ip, mask |-> WireMask(prefix), metric |-> metric]

MCModulus == 32

\* One host, the other host, and the network of both.
MCMessages ==
  { << Advert({0}, 2, 1) >>,
    << Advert({0, 1}, 2, MCModulus - 1) >>,
    << Advert({0}, 1, 1) >> }

\* The same network number with two masks, once with a metric that wraps.
MCOne == { << Advert({0}, 2, 1) >>, << Advert({0}, 1, MCModulus - 1) >> }

\* A response of two entries, and one whose network covers both.
MCPairs ==
  { << Advert({0}, 2, 1), Advert({0, 1}, 2, 16) >>,
    << Advert({0}, 1, 1) >> }

\* Two hosts, each on its own, one response for each and one for both.
MCApart ==
  { << Advert({0}, 2, 1) >>,
    << Advert({0, 1}, 2, 1) >>,
    << Advert({0}, 2, 1), Advert({0, 1}, 2, 1) >> }

MCStatic == { [network |-> {0}, mask |-> 1, port |-> p2] }
MCRipNet == { {}, {0} }

FreeHandles == Permutations(Handle \ {C1, C2})
=============================================================================
