------------------------------ MODULE RipProps ------------------------------
(***************************************************************************)
(* What the routing table's threads must and must not do.                  *)
(***************************************************************************)
EXTENDS Rip

Removed == Listed \ { routes_ll'[i] : i \in DOMAIN routes_ll' }

(***************************************************************************)
(* The two connected routes, which create_port_struct adds and             *)
(* routing_table_delete protects by POSITION (id 1 and 2), stay the first  *)
(* two of the list, connected: whatever the timers, the listeners and the  *)
(* consoles add and delete, at positions found earlier, nothing moves.     *)
(***************************************************************************)
ConnectedFirst ==
  /\ Len(routes_ll) >= 2
  /\ routes_ll[1] = C1 /\ routes_ll[2] = C2
  /\ route[C1].ad = DIRECTLY_CONNECTED_AD
  /\ route[C2].ad = DIRECTLY_CONNECTED_AD

(***************************************************************************)
(* The flags of RIP_check_timers: a route is never INVALID and FLUSH at    *)
(* once, and only a learned route ages; the RIP database, static and       *)
(* connected routes are never touched by the timers.                       *)
(***************************************************************************)
FlagsChain ==
  \A h \in Listed :
    /\ ~ (Invalid(h) /\ Flush(h))
    /\ Invalid(h) \/ Flush(h) => Learned(h)

(***************************************************************************)
(* A route goes down the chain one check at a time: valid, INVALID, FLUSH. *)
(* No step revives it and none skips a stage, not even the update of a     *)
(* neighbour that arrives between two checks.                              *)
(***************************************************************************)
FlagsOnlyAge ==
  [][\A h \in Listed :
       \/ h \in Removed
       \/ route'[h].flags = route[h].flags
       \/ ~ Invalid(h) /\ ~ Flush(h) /\ route'[h].flags = {"INVALID"}
       \/ route[h].flags = {"INVALID"} /\ route'[h].flags = {"FLUSH"}]_vars

(***************************************************************************)
(* The life of an entry (RouteLife), read off the list and the flags.      *)
(* Without delete_route, the router's table implements it: whatever        *)
(* updates and commands come between the check of a route, the walk that   *)
(* finds its position and the LL_delete, the route that goes is one that   *)
(* went through INVALID and FLUSH, and no other entry changes.             *)
(***************************************************************************)
LifeOf(h) ==
  IF h \notin Listed THEN "free"
  ELSE IF ~ Learned(h) THEN "kept"
  ELSE IF Flush(h) THEN "flush"
  ELSE IF Invalid(h) THEN "invalid" ELSE "valid"

Life == INSTANCE RouteLife WITH
          Entry <- Handle, Boot <- {C1, C2}, life <- [h \in Handle |-> LifeOf(h)]

Lifecycle == Life!Spec

(***************************************************************************)
(* RIP_check_timers deletes only a route it has set to FLUSH: the position *)
(* that routing_table_delete found is still that route's when LL_delete    *)
(* counts to it.                                                           *)
(***************************************************************************)
TimersRemoveOnlyFlushed ==
  [][TimersUnlink => \A h \in Removed : Flush(h)]_vars

(***************************************************************************)
(* routing_table_search finds a learned route again under its own network  *)
(* number: the mask an update writes over it never cuts it off from the    *)
(* destination it stands for.                                              *)
(***************************************************************************)
SelfCovered ==
  \A h \in Listed : Learned(h) => Covers(h, route[h].network)

(***************************************************************************)
(* RIP_parse_entry updates the route it knows and adds one it does not     *)
(* know: two learned routes never stand for the same network.              *)
(***************************************************************************)
LearnedOnce ==
  \A g, h \in Listed :
    Learned(g) /\ Learned(h) /\ route[g].network = route[h].network => g = h

(***************************************************************************)
(* Networks that lie apart: the route of one covers none of the others.    *)
(* Once no more entries of such a network come, it is forgotten, whatever  *)
(* entries of the others go on to come in and restart the ages of their    *)
(* own routes (ripv2.h:13-37, 196-202).  It is not so of a network that    *)
(* covers another: RIP_parse_entry restarts the age of whatever route the  *)
(* search finds, and an entry with as wide a mask, as the rip command      *)
(* makes them (config.h:226), keeps that route alive for ever.             *)
(***************************************************************************)
Entries == UNION { Range(m) : m \in Message }

LiesApart(net) ==
  \A d, e \in Entries : d.ip = net =>
    (belongs_to_subnet(e.ip, net, mask_to_prefix(d.mask)) <=> e.ip = net)

Renewed(net) == \E p \in RipPort : ListenerApply(p) /\ EntryInHand(p).ip = net

Forgotten(net) == \A h \in Listed : Learned(h) => route[h].network # net

WithdrawnForgotten ==
  \A net \in { e.ip : e \in Entries } :
    LiesApart(net) /\ <>[][~ Renewed(net)]_vars => <>[](up => Forgotten(net))
=============================================================================
