-------------------------- MODULE ForwardingProps --------------------------
(***************************************************************************)
(* What the listeners and the ARP cache must and must not do.              *)
(***************************************************************************)
EXTENDS Forwarding

StationAt(ip, mac) == \E s \in Station : s.ip = ip /\ s.mac = mac

(***************************************************************************)
(* No entry of the cache, and no frame that is forwarded, carries the      *)
(* hardware address of another station than the one that has the address:  *)
(* whichever listener learns, updates or reads the entry, and whenever the *)
(* list is replaced under it.                                              *)
(***************************************************************************)
CacheTrue ==
  /\ \A i \in DOMAIN cache : StationAt(cache[i].ip, cache[i].mac)
  /\ sent.kind = "ip" => StationAt(sent.cause.dst, sent.mac)

(***************************************************************************)
(* An address is in the cache once: the search of incoming_arp, the walk   *)
(* of arp_cache_update and its LL_add never add a second entry, though     *)
(* three steps and the replacement of the list may come between them.      *)
(***************************************************************************)
EntryOnce ==
  \A i, j \in DOMAIN cache : cache[i].ip = cache[j].ip => i = j

(***************************************************************************)
(* The router speaks for an address that is not its own only towards an    *)
(* interface the address is not reached through (that is what the proxy    *)
(* is for), as long as the networks are whole octets.                      *)
(***************************************************************************)
ProxyOnlyAcross ==
  sent.kind = "arp" /\ sent.oc = "reply" /\ sent.spa # PortIp[sent.port] =>
    LET r == routing_table_search(sent.spa)
    IN  r # NoRoute /\ route[r].outgoing_interface # sent.port

(***************************************************************************)
(* A listener that waits for an answer in arp_get goes back to its frames, *)
(* and so does every listener that has a frame in hand: two listeners that *)
(* each wait for an answer only the other could read are not stuck.        *)
(***************************************************************************)
ListenersReturn ==
  \A t \in Thread : job[t].pc # "idle" ~> job[t].pc = "idle"

(***************************************************************************)
(* arp.h: "did not recieve arp reply in given timeout".  When a listener   *)
(* gives up in arp_get, the answer is not among the frames it has itself   *)
(* left unread meanwhile.                                                  *)
(***************************************************************************)
Answers(f, ip) == f.kind = "arp" /\ f.oc = "reply" /\ f.spa = ip

NoAnswerMissed ==
  [][\A p \in Port : GiveUp(p) =>
       \A i \in DOMAIN inq[p] : ~ Answers(inq[p][i], InHand(p).dst)]_vars
=============================================================================
