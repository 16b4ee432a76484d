---------------------------- MODULE RoutingTable ----------------------------
(***************************************************************************)
(* routing_table.h and the linked list of functions.h under it.            *)
(*                                                                         *)
(* routes_ll is a list of Items, each pointing to a malloc'ed Route.  A    *)
(* handle stands for one Item together with its Route.  LL_delete frees    *)
(* the Item and never the Route, so a thread that still holds a Route      *)
(* pointer may use it; a handle is given out again once it is in neither   *)
(* the list nor a thread's hands (FreshHandle of the composing module).    *)
(*                                                                         *)
(* One walk over the list, and one LL_add or LL_delete, is one step here.  *)
(* What is NOT one step in the code is not one here either: a position     *)
(* found by one walk and used by another, a route found and used later.    *)
(***************************************************************************)
EXTENDS Subnet, Sequences, SequencesExt

CONSTANTS
  Handle,        \* Items with their Routes; bounds the table
  NoRoute,       \* the null pointer
  Port,          \* the interfaces, p1 and p2
  MaxAge         \* a last_update longer ago than this is not told apart

ASSUME RoutingTableAssumption ==
  /\ NoRoute \notin Handle
  /\ MaxAge \in Nat

DIRECTLY_CONNECTED_AD == 0
STATIC_AD             == 1
RIP_AD                == 110
RIP_INFINITY          == 16

(***************************************************************************)
(* Route.flags: a set of the one-bit flags.  FLG_RM is a ^ b, so removing  *)
(* a flag that is not there would set it.                                  *)
(***************************************************************************)
Flag          == {"DB", "INVALID", "FLUSH"}
FLG_CHK(a, b) == b \in a
FLG_ADD(a, b) == a \cup {b}
FLG_RM(a, b)  == (a \ {b}) \cup ({b} \ a)

(***************************************************************************)
(* last_update is kept as the seconds since (time(0) - last_update), the   *)
(* only thing the code reads of it.                                        *)
(***************************************************************************)
Route == [ network            : Addr,
           mask               : 0 .. W,
           ad                 : {DIRECTLY_CONNECTED_AD, STATIC_AD, RIP_AD},
           outgoing_interface : Port,
           flags              : SUBSET Flag,
           metric             : 0 .. RIP_INFINITY,
           age                : 0 .. MaxAge ]

NewRoute(network, mask, p, ad, flags) ==
  [ network |-> network, mask |-> mask, ad |-> ad, outgoing_interface |-> p,
    flags |-> flags, metric |-> 0, age |-> 0 ]

VARIABLES
  routes_ll,     \* the handles in list order
  route,         \* the Route each handle points to
  stale          \* the next pointer a freed Item still holds

tableVars == <<routes_ll, route, stale>>

TableTypeOK ==
  /\ routes_ll \in Seq(Handle)
  /\ route \in [Handle -> Route]
  /\ stale \in [Handle -> Handle \cup {NoRoute}]

Listed == { routes_ll[i] : i \in DOMAIN routes_ll }

(***************************************************************************)
(* The list as a walk sees it.                                             *)
(***************************************************************************)
Head1      == IF routes_ll = << >> THEN NoRoute ELSE routes_ll[1]
NextOf(i)  == IF i < Len(routes_ll) THEN routes_ll[i + 1] ELSE NoRoute

\* curr->next: the next handle, or what is left in a freed Item.
Successor(h) ==
  IF h \in Listed
  THEN NextOf(CHOOSE i \in DOMAIN routes_ll : routes_ll[i] = h)
  ELSE stale[h]

(***************************************************************************)
(* routing_table_search: a walk that keeps the first of the routes with    *)
(* the greatest administrative distance among those that cover dst.  An    *)
(* entry of the RIP database is skipped.                                   *)
(***************************************************************************)
\* Mutant: INVALID routes are skipped too.
CoversIfValid(h, dst) ==
  /\ route[h].flags = {}
  /\ belongs_to_subnet(dst, route[h].network, route[h].mask)

Covers(h, dst) ==
  /\ ~ FLG_CHK(route[h].flags, "DB")
  /\ belongs_to_subnet(dst, route[h].network, route[h].mask)

Better(i, j) ==     \* the walk prefers position i to position j
  \/ route[routes_ll[i]].ad > route[routes_ll[j]].ad
  \/ route[routes_ll[i]].ad = route[routes_ll[j]].ad /\ i <= j

routing_table_search(dst) ==
  LET C == { i \in DOMAIN routes_ll : Covers(routes_ll[i], dst) }
  IN  IF C = {} THEN NoRoute
      ELSE routes_ll[CHOOSE i \in C : \A j \in C : Better(i, j)]

(***************************************************************************)
(* add_route, with the LL_add that ends it.                                *)
(***************************************************************************)
LL_add(h) == routes_ll' = Append(routes_ll, h)

add_route(h, network, mask, p, ad, flags) ==
  /\ LL_add(h)
  /\ route' = [route EXCEPT ![h] = NewRoute(network, mask, p, ad, flags)]
  /\ stale' = [stale EXCEPT ![h] = NoRoute]

(***************************************************************************)
(* routing_table_delete up to its call of LL_delete: the position to       *)
(* delete, counted from 1, or 0 when it returns without deleting.  "Cannot *)
(* remove directly connected routes" is a test on the id, 1 or 2, in one   *)
(* use of the function and on the route's distance in the other.           *)
(***************************************************************************)
\* Mutant: only the first connected route is protected.
PositionByIdFrom2(id) == IF id \in 2 .. Len(routes_ll) THEN id ELSE 0

PositionById(id) == IF id \in 3 .. Len(routes_ll) THEN id ELSE 0

\* Mutant: the test on the distance is the wrong way round.
PositionByRouteInverted(h) ==
  IF route[h].ad # DIRECTLY_CONNECTED_AD \/ h \notin Listed THEN 0
  ELSE CHOOSE i \in DOMAIN routes_ll : routes_ll[i] = h

PositionByRoute(h) ==
  IF route[h].ad = DIRECTLY_CONNECTED_AD \/ h \notin Listed THEN 0
  ELSE CHOOSE i \in DOMAIN routes_ll : routes_ll[i] = h

\* Mutant: the position is passed on without the - 1.
LL_delete_next(i) ==
  IF i + 1 \in DOMAIN routes_ll
  THEN /\ routes_ll' = RemoveAt(routes_ll, i + 1)
       /\ stale' = [stale EXCEPT ![routes_ll[i + 1]] = NextOf(i + 1)]
       /\ UNCHANGED route
  ELSE UNCHANGED tableVars

\* LL_delete(routes_ll, i - 1): a walk of its own, that counts to i again.
LL_delete(i) ==
  IF i \in DOMAIN routes_ll
  THEN /\ routes_ll' = RemoveAt(routes_ll, i)
       /\ stale' = [stale EXCEPT ![routes_ll[i]] = NextOf(i)]
       /\ UNCHANGED route
  ELSE UNCHANGED tableVars
=============================================================================
