---------------------------- MODULE MCNeighbours ----------------------------
(***************************************************************************)
(* Two routers, with the addresses of MCRip: the link is the network 0.0/2 *)
(* (p1 of both); the near router's p2 is 0.1/2 and the far one's 1.0/2,    *)
(* which it may be told to advertise.                                      *)
(***************************************************************************)
EXTENDS Neighbours

CONSTANTS c1, c2, h1, h2, f1, f2, f3, f4, none, p1, p2

MCPortIp   == p1 :> {} @@ p2 :> {1}
MCPortMask == p1 :> 2 @@ p2 :> 2

MCModulus == 32

Connecting(network, p) == NewRoute(network, 2, p, DIRECTLY_CONNECTED_AD, {})

MCFarTable  == <<f1, f2>>
MCFarRoutes ==
  [h \in FarHandle |-> IF h = f1 THEN Connecting({}, p1) ELSE Connecting({0}, p2)]

MCNetworks == { {0} }

\* Memory that holds an entry of an earlier update, of another network.
MCLeftover ==
  { [ip |-> {0, 1}, mask |-> Swap(prefix_to_mask(2)), metric |-> 1] }
=============================================================================
