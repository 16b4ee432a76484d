------------------------- MODULE RoutingTableProofs -------------------------
(***************************************************************************)
(* What the operators of RoutingTable return, for the proofs about Rip.    *)
(***************************************************************************)
EXTENDS RoutingTable, SubnetProofs, WellFoundedInduction, SequenceTheorems

(***************************************************************************)
(* A set of naturals that is not empty has a least element: the CHOOSEs of *)
(* the walks denote what the walks find.                                   *)
(***************************************************************************)
LEMMA LeastExists ==
  ASSUME NEW S \in SUBSET Nat, S # {}
  PROVE  \E n \in S : \A m \in S : n <= m
  <1> DEFINE Less == OpToRel(<, Nat)
  <1>1. \A m, n \in Nat : m < n => <<m, n>> \in Less
    BY DEF OpToRel
  <1>2. IsWellFoundedOn(Less, Nat)
    BY NatLessThanWellFounded
  <1> HIDE DEF Less
  <1>3. PICK n \in S : \A m \in S : ~ (<<m, n>> \in Less)
    BY <1>2, WFMin
  <1>4. \A m \in S : ~ (m < n)
    BY <1>1, <1>3, Zenon
  <1> QED
    BY <1>4

(***************************************************************************)
(* mask_to_prefix: the loop ends within 32 shifts, whatever the mask.      *)
(***************************************************************************)
LEMMA PrefixInRange ==
  ASSUME NEW mask
  PROVE  mask_to_prefix(mask) \in 0 .. W
  <1> DEFINE host == Swap(mask)
             ShiftedOut == { n \in 0 .. W : \A i \in host : i + n >= W }
  <1>1. W \in Nat
    BY WidthIsPositive
  <1>2. host \subseteq Nat
    BY <1>1 DEF Swap, Bit
  <1>3. W \in ShiftedOut
    BY <1>1, <1>2
  <1>4. ShiftedOut \in SUBSET Nat /\ ShiftedOut # {}
    BY <1>3
  <1>5. \E n \in ShiftedOut : \A m \in ShiftedOut : n <= m
    BY <1>4, LeastExists
  <1>6. mask_to_prefix(mask) = CHOOSE n \in ShiftedOut : \A m \in ShiftedOut : n <= m
    BY DEF mask_to_prefix
  <1> HIDE DEF ShiftedOut
  <1>7. mask_to_prefix(mask) \in ShiftedOut
    BY <1>5, <1>6
  <1> QED
    BY <1>7 DEF ShiftedOut

(***************************************************************************)
(* LL_delete takes out the route at its position and moves up the routes   *)
(* behind it; those before it stay where they are.                         *)
(***************************************************************************)
LEMMA RemoveAtProperties ==
  ASSUME NEW S, NEW s \in Seq(S), NEW i \in 1 .. Len(s)
  PROVE  /\ RemoveAt(s, i) \in Seq(S)
         /\ Len(RemoveAt(s, i)) = Len(s) - 1
         /\ \A j \in 1 .. Len(s) - 1 :
              RemoveAt(s, i)[j] = IF j < i THEN s[j] ELSE s[j + 1]
  <1> DEFINE before == SubSeq(s, 1, i - 1)
             after  == SubSeq(s, i + 1, Len(s))
  <1>1. Len(s) \in Nat /\ i \in Nat /\ 1 <= i /\ i <= Len(s)
    BY LenProperties
  <1>2. /\ before \in Seq(S)
        /\ Len(before) = i - 1
        /\ \A j \in 1 .. i - 1 : before[j] = s[j]
    BY <1>1, SubSeqProperties
  <1>3. /\ after \in Seq(S)
        /\ Len(after) = Len(s) - i
        /\ \A j \in 1 .. Len(s) - i : after[j] = s[j + i]
    BY <1>1, SubSeqProperties
  <1>4. RemoveAt(s, i) = before \o after
    BY DEF RemoveAt
  <1> HIDE DEF before, after
  <1> DEFINE both == before \o after
  <1>5. /\ both \in Seq(S)
        /\ Len(both) = Len(before) + Len(after)
        /\ \A j \in 1 .. Len(before) + Len(after) :
             both[j] = IF j <= Len(before) THEN before[j] ELSE after[j - Len(before)]
    BY <1>2, <1>3, ConcatProperties, Zenon
  <1> HIDE DEF both
  <1>6. Len(both) = Len(s) - 1
    BY <1>1, <1>2, <1>3, <1>5
  <1>7. ASSUME NEW j \in 1 .. Len(s) - 1
        PROVE  both[j] = IF j < i THEN s[j] ELSE s[j + 1]
    <2>1. both[j] = IF j <= Len(before) THEN before[j] ELSE after[j - Len(before)]
      BY <1>1, <1>2, <1>3, <1>5
    <2>2. CASE j < i
      <3>1. j \in 1 .. i - 1 /\ j <= Len(before)
        BY <1>1, <1>2, <2>2
      <3> QED
        BY <1>2, <2>1, <2>2, <3>1
    <2>3. CASE ~ (j < i)
      <3> DEFINE k == j - Len(before)
      <3>1. k \in 1 .. Len(s) - i /\ k + i = j + 1 /\ ~ (j <= Len(before))
        BY <1>1, <1>2, <2>3
      <3>2. after[k] = s[k + i]
        BY <1>3, <3>1
      <3> QED
        BY <2>1, <2>3, <3>1, <3>2
    <2> QED
      BY <2>2, <2>3
  <1> QED
    BY <1>4, <1>6, <1>7, <1>5 DEF both

(***************************************************************************)
(* routing_table_search returns a listed route that covers the             *)
(* destination, and such a route is found whenever there is one.           *)
(***************************************************************************)
LEMMA BestExists ==
  ASSUME TableTypeOK,
         NEW C \in SUBSET DOMAIN routes_ll, C # {}
  PROVE  \E i \in C : \A j \in C : Better(i, j)
  <1> DEFINE At(ad) == { i \in C : route[routes_ll[i]].ad = ad }
  <1>1. \A i \in C : route[routes_ll[i]].ad \in {0, 1, 110}
    BY DEF TableTypeOK, Route, DIRECTLY_CONNECTED_AD, STATIC_AD, RIP_AD
  <1>2. C \subseteq Nat
    BY DEF TableTypeOK
  <1>3. ASSUME NEW ad \in {0, 1, 110}, At(ad) # {},
               \A j \in C : route[routes_ll[j]].ad <= ad
        PROVE  \E i \in C : \A j \in C : Better(i, j)
    <2>1. PICK i \in At(ad) : \A j \in At(ad) : i <= j
      BY <1>2, <1>3, LeastExists
    <2>2. \A j \in C : Better(i, j)
      BY <1>1, <1>3, <2>1 DEF Better
    <2> QED
      BY <2>1, <2>2
  <1>4. CASE At(110) # {}
    BY <1>1, <1>3, <1>4
  <1>5. CASE At(110) = {} /\ At(1) # {}
    <2>1. \A j \in C : route[routes_ll[j]].ad <= 1
      BY <1>1, <1>5
    <2> QED
      BY <1>3, <1>5, <2>1
  <1>6. CASE At(110) = {} /\ At(1) = {}
    <2>1. \A j \in C : route[routes_ll[j]].ad = 0
      BY <1>1, <1>6
    <2>2. At(0) # {}
      BY <2>1
    <2>3. \A j \in C : route[routes_ll[j]].ad <= 0
      BY <2>1
    <2> QED
      BY <1>3, <2>2, <2>3
  <1> QED
    BY <1>4, <1>5, <1>6

THEOREM SearchFinds ==
  ASSUME TableTypeOK, NEW dst
  PROVE  /\ routing_table_search(dst) \in Listed \cup {NoRoute}
         /\ routing_table_search(dst) # NoRoute =>
              Covers(routing_table_search(dst), dst)
         /\ routing_table_search(dst) = NoRoute =>
              \A h \in Listed : ~ Covers(h, dst)
  <1> DEFINE C == { i \in DOMAIN routes_ll : Covers(routes_ll[i], dst) }
  <1>1. CASE C = {}
    <2>1. routing_table_search(dst) = NoRoute
      BY <1>1 DEF routing_table_search
    <2>2. NoRoute \notin Listed
      BY RoutingTableAssumption DEF TableTypeOK, Listed
    <2> QED
      BY <1>1, <2>1, <2>2 DEF Listed
  <1>2. CASE C # {}
    <2> DEFINE i == CHOOSE i \in C : \A j \in C : Better(i, j)
    <2>1. \E k \in C : \A j \in C : Better(k, j)
      BY <1>2, BestExists
    <2>2. routing_table_search(dst) = routes_ll[i]
      BY <1>2 DEF routing_table_search
    <2> HIDE DEF C
    <2>3. i \in C
      BY <2>1
    <2>4. routes_ll[i] \in Listed /\ Covers(routes_ll[i], dst)
      BY <2>3 DEF C, Listed
    <2>5. routes_ll[i] # NoRoute
      BY <2>4, RoutingTableAssumption DEF TableTypeOK, Listed
    <2> QED
      BY <2>2, <2>4, <2>5
  <1> QED
    BY <1>1, <1>2

\* Of the routes that cover the destination none is more distant.
LEMMA SearchPrefers ==
  ASSUME TableTypeOK, NEW dst, NEW h \in Listed, Covers(h, dst)
  PROVE  /\ routing_table_search(dst) # NoRoute
         /\ route[h].ad <= route[routing_table_search(dst)].ad
  <1> DEFINE C == { i \in DOMAIN routes_ll : Covers(routes_ll[i], dst) }
             i == CHOOSE i \in C : \A j \in C : Better(i, j)
  <1>1. PICK k \in DOMAIN routes_ll : routes_ll[k] = h
    BY DEF Listed
  <1>2. k \in C
    BY <1>1
  <1>3. \E n \in C : \A j \in C : Better(n, j)
    BY <1>2, BestExists
  <1>4. routing_table_search(dst) = routes_ll[i]
    BY <1>2 DEF routing_table_search
  <1> HIDE DEF C
  <1>5. i \in C /\ Better(i, k)
    BY <1>2, <1>3
  <1> HIDE DEF i
  <1>6. /\ routes_ll[i] \in Handle
        /\ route[routes_ll[i]].ad \in {0, 1, 110} /\ route[h].ad \in {0, 1, 110}
    BY <1>1, <1>5 DEF C, TableTypeOK, Route, DIRECTLY_CONNECTED_AD, STATIC_AD, RIP_AD
  <1>7. route[h].ad <= route[routes_ll[i]].ad
    BY <1>1, <1>5, <1>6 DEF Better
  <1>8. routes_ll[i] # NoRoute
    BY <1>6, RoutingTableAssumption
  <1> QED
    BY <1>4, <1>7, <1>8

(***************************************************************************)
(* What add_route and LL_delete leave: a table, with one route more or one *)
(* less.                                                                   *)
(***************************************************************************)
LEMMA NewRouteType ==
  ASSUME NEW network \in Addr, NEW mask \in 0 .. W, NEW p \in Port,
         NEW ad \in {DIRECTLY_CONNECTED_AD, STATIC_AD, RIP_AD},
         NEW flags \in SUBSET Flag
  PROVE  NewRoute(network, mask, p, ad, flags) \in Route
  BY RoutingTableAssumption DEF NewRoute, Route, RIP_INFINITY

LEMMA AddTyped ==
  ASSUME TableTypeOK, NEW h \in Handle,
         NEW network \in Addr, NEW mask \in 0 .. W, NEW p \in Port,
         NEW ad \in {DIRECTLY_CONNECTED_AD, STATIC_AD, RIP_AD},
         NEW flags \in SUBSET Flag,
         add_route(h, network, mask, p, ad, flags)
  PROVE  TableTypeOK'
  <1>1. NewRoute(network, mask, p, ad, flags) \in Route
    BY NewRouteType
  <1> QED
    BY <1>1 DEF TableTypeOK, add_route, LL_add

LEMMA DeleteTyped ==
  ASSUME TableTypeOK, NEW i, LL_delete(i)
  PROVE  TableTypeOK'
  <1>1. CASE i \in DOMAIN routes_ll
    <2>1. i \in 1 .. Len(routes_ll) /\ routes_ll \in Seq(Handle)
      BY <1>1 DEF TableTypeOK
    <2>2. /\ routes_ll' = RemoveAt(routes_ll, i)
          /\ stale' = [stale EXCEPT ![routes_ll[i]] = NextOf(i)]
          /\ route' = route
      BY <1>1 DEF LL_delete
    <2>3. routes_ll' \in Seq(Handle)
      BY <2>1, <2>2, RemoveAtProperties
    <2>4. NextOf(i) \in Handle \cup {NoRoute}
      BY <2>1 DEF NextOf
    <2> QED
      BY <2>2, <2>3, <2>4 DEF TableTypeOK
  <1>2. CASE i \notin DOMAIN routes_ll
    BY <1>2 DEF LL_delete, tableVars, TableTypeOK
  <1> QED
    BY <1>1, <1>2

LEMMA ListedAfterAdd ==
  ASSUME TableTypeOK, NEW h \in Handle, LL_add(h)
  PROVE  Listed' \subseteq Listed \cup {h}
  <1>1. routes_ll \in Seq(Handle) /\ routes_ll' = Append(routes_ll, h)
    BY DEF TableTypeOK, LL_add
  <1>2. \A i \in DOMAIN routes_ll' : routes_ll'[i] \in Listed \cup {h}
    BY <1>1, AppendProperties DEF Listed
  <1> QED
    BY <1>2 DEF Listed

LEMMA ListedAfterDelete ==
  ASSUME TableTypeOK, NEW i, LL_delete(i)
  PROVE  Listed' \subseteq Listed
  <1>1. CASE i \in DOMAIN routes_ll
    <2>1. i \in 1 .. Len(routes_ll) /\ routes_ll \in Seq(Handle)
      BY <1>1 DEF TableTypeOK
    <2>2. routes_ll' = RemoveAt(routes_ll, i)
      BY <1>1 DEF LL_delete
    <2>3. /\ routes_ll' \in Seq(Handle) /\ Len(routes_ll') = Len(routes_ll) - 1
          /\ \A j \in 1 .. Len(routes_ll) - 1 :
               routes_ll'[j] = IF j < i THEN routes_ll[j] ELSE routes_ll[j + 1]
      BY <2>1, <2>2, RemoveAtProperties
    <2>4. \A j \in DOMAIN routes_ll' : \E k \in DOMAIN routes_ll : routes_ll'[j] = routes_ll[k]
      BY <2>1, <2>3
    <2> QED
      BY <2>4 DEF Listed
  <1>2. CASE i \notin DOMAIN routes_ll
    BY <1>2 DEF LL_delete, tableVars, Listed
  <1> QED
    BY <1>1, <1>2
=============================================================================
