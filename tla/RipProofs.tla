----------------------------- MODULE RipProofs -----------------------------
(***************************************************************************)
(* Proofs about the threads of Rip.                                        *)
(***************************************************************************)
EXTENDS RipProps, RoutingTableProofs

(***************************************************************************)
(* The inductive invariant Inv says of each thread what it has in its      *)
(* hands between two steps: the position it is about to delete is never 1  *)
(* or 2, and the Route it works on exists.                                 *)
(***************************************************************************)
InHands ==
  /\ timers.pc \in {"find", "unlink", "next"} => timers.curr # NoRoute
  /\ timers.pc = "unlink" => timers.idx >= 3
  /\ \A c \in Console :
       /\ cli[c].pc = "rip" => cli[c].r # NoRoute
       /\ cli[c].pc = "unlink" => cli[c].idx >= 3
  /\ \A p \in Port : listener[p].pc = "apply" => listener[p].todo # << >>

Inv == TypeOK /\ ConnectedFirst /\ InHands

(***************************************************************************)
(* The connected routes.                                                   *)
(***************************************************************************)
LEMMA ConnectedType ==
  ASSUME NEW p \in Port
  PROVE  /\ Connected(p) \in Route
         /\ Connected(p).ad = DIRECTLY_CONNECTED_AD
  <1>1. ip_mask_to_network(PortIp[p], PortMask[p]) \in Addr
    BY DEF ip_mask_to_network, Swap, Addr
  <1>2. PortMask[p] \in 0 .. W
    BY RipAssumption
  <1>3. {} \in SUBSET Flag
    OBVIOUS
  <1>4. Connected(p) \in Route
    BY <1>1, <1>2, <1>3, NewRouteType DEF Connected
  <1> QED
    BY <1>4 DEF Connected, NewRoute

(***************************************************************************)
(* The three ways a step can change the table: the Routes, an addition and *)
(* a removal behind position 2.  Each keeps the connected routes in place. *)
(***************************************************************************)
TableOK == TableTypeOK /\ ConnectedFirst

LEMMA RoutesChange ==
  ASSUME TableOK,
         routes_ll' = routes_ll, stale' = stale,
         route' \in [Handle -> Route],
         \A h \in Handle : route'[h].ad = route[h].ad
  PROVE  TableOK'
  BY RipAssumption DEF TableOK, TableTypeOK, ConnectedFirst

LEMMA AddKeeps ==
  ASSUME TableOK, NEW h \in FreshHandle,
         NEW network \in Addr, NEW mask \in 0 .. W, NEW p \in Port,
         NEW ad \in {DIRECTLY_CONNECTED_AD, STATIC_AD, RIP_AD},
         NEW flags \in SUBSET Flag,
         add_route(h, network, mask, p, ad, flags)
  PROVE  TableOK'
  <1>1. h \in Handle /\ h # C1 /\ h # C2
    <2>1. 1 \in DOMAIN routes_ll /\ 2 \in DOMAIN routes_ll
      BY DEF TableOK, TableTypeOK, ConnectedFirst
    <2>2. C1 \in Listed /\ C2 \in Listed
      BY <2>1 DEF TableOK, ConnectedFirst, Listed
    <2> QED
      BY <2>2 DEF FreshHandle
  <1>2. routes_ll' = Append(routes_ll, h)
    BY DEF add_route, LL_add
  <1>3. routes_ll' \in Seq(Handle) /\ Len(routes_ll') = Len(routes_ll) + 1
    BY <1>1, <1>2 DEF TableOK, TableTypeOK
  <1>4. routes_ll'[1] = C1 /\ routes_ll'[2] = C2
    BY <1>1, <1>2 DEF TableOK, TableTypeOK, ConnectedFirst
  <1>5. route' = [route EXCEPT ![h] = NewRoute(network, mask, p, ad, flags)]
    BY DEF add_route, LL_add
  <1>6. route' \in [Handle -> Route]
    BY <1>1, <1>5, NewRouteType DEF TableOK, TableTypeOK
  <1>7. route'[C1] = route[C1] /\ route'[C2] = route[C2]
    BY <1>1, <1>5, RipAssumption DEF TableOK, TableTypeOK
  <1>8. stale' \in [Handle -> Handle \cup {NoRoute}]
    BY <1>1 DEF TableOK, TableTypeOK, add_route, LL_add
  <1> QED
    BY <1>3, <1>4, <1>6, <1>7, <1>8 DEF TableOK, TableTypeOK, ConnectedFirst

LEMMA DeleteKeeps ==
  ASSUME TableOK, NEW i \in Nat, i >= 3, LL_delete(i)
  PROVE  TableOK'
  <1>1. CASE i \in DOMAIN routes_ll
    <2>1. i \in 1 .. Len(routes_ll) /\ routes_ll \in Seq(Handle)
      BY <1>1 DEF TableOK, TableTypeOK
    <2>2. /\ routes_ll' = RemoveAt(routes_ll, i)
          /\ stale' = [stale EXCEPT ![routes_ll[i]] = NextOf(i)]
          /\ route' = route
      BY <1>1 DEF LL_delete
    <2>3. /\ routes_ll' \in Seq(Handle)
          /\ Len(routes_ll') = Len(routes_ll) - 1
          /\ \A j \in 1 .. Len(routes_ll) - 1 :
               routes_ll'[j] = IF j < i THEN routes_ll[j] ELSE routes_ll[j + 1]
      BY <2>1, <2>2, RemoveAtProperties
    <2>4. routes_ll'[1] = C1 /\ routes_ll'[2] = C2 /\ Len(routes_ll') >= 2
      BY <2>1, <2>3 DEF TableOK, ConnectedFirst
    <2>5. NextOf(i) \in Handle \cup {NoRoute}
      BY <2>1 DEF NextOf
    <2>6. stale' \in [Handle -> Handle \cup {NoRoute}]
      BY <2>1, <2>2, <2>5 DEF TableOK, TableTypeOK
    <2> QED
      BY <2>2, <2>3, <2>4, <2>6 DEF TableOK, TableTypeOK, ConnectedFirst
  <1>2. CASE i \notin DOMAIN routes_ll
    BY <1>2 DEF LL_delete, tableVars, TableOK, TableTypeOK, ConnectedFirst
  <1> QED
    BY <1>1, <1>2

(***************************************************************************)
(* Following curr->next gives an Item or the end of the list.              *)
(***************************************************************************)
LEMMA SuccessorType ==
  ASSUME TableTypeOK, NEW h \in Handle
  PROVE  Successor(h) \in Handle \cup {NoRoute}
  <1>1. CASE h \in Listed
    <2>1. PICK j \in DOMAIN routes_ll : routes_ll[j] = h
      BY <1>1 DEF Listed
    <2> DEFINE k == CHOOSE i \in DOMAIN routes_ll : routes_ll[i] = h
    <2>2. k \in DOMAIN routes_ll
      BY <2>1
    <2>3. Successor(h) = NextOf(k)
      BY <1>1 DEF Successor
    <2> HIDE DEF k
    <2>4. NextOf(k) \in Handle \cup {NoRoute}
      BY <2>2 DEF NextOf, TableTypeOK
    <2> QED
      BY <2>3, <2>4
  <1>2. CASE h \notin Listed
    BY <1>2 DEF Successor, TableTypeOK
  <1> QED
    BY <1>1, <1>2

(***************************************************************************)
(* The route RIP_check_timers wants to delete is at position 3 or later.   *)
(***************************************************************************)
LEMMA PositionByRouteIsSafe ==
  ASSUME TableOK, NEW h \in Handle
  PROVE  PositionByRoute(h) \in Nat /\ (PositionByRoute(h) # 0 => PositionByRoute(h) >= 3)
  <1>1. CASE route[h].ad = DIRECTLY_CONNECTED_AD \/ h \notin Listed
    BY <1>1 DEF PositionByRoute
  <1>2. CASE ~ (route[h].ad = DIRECTLY_CONNECTED_AD \/ h \notin Listed)
    <2> DEFINE k == CHOOSE i \in DOMAIN routes_ll : routes_ll[i] = h
    <2>1. k \in DOMAIN routes_ll /\ routes_ll[k] = h
      BY <1>2 DEF Listed
    <2>2. PositionByRoute(h) = k
      BY <1>2 DEF PositionByRoute
    <2> HIDE DEF k
    <2>3. k # 1 /\ k # 2
      BY <1>2, <2>1 DEF TableOK, ConnectedFirst
    <2>4. k \in 1 .. Len(routes_ll) /\ Len(routes_ll) \in Nat
      BY <2>1 DEF TableOK, TableTypeOK
    <2> QED
      BY <2>2, <2>3, <2>4
  <1> QED
    BY <1>1, <1>2

(***************************************************************************)
(* The entry a listener has in its hand.                                   *)
(***************************************************************************)
LEMMA EntryInHandType ==
  ASSUME TypeOK, NEW p \in Port, listener[p].todo # << >>
  PROVE  /\ EntryInHand(p) \in Entry
         /\ Front(listener[p].todo) \in Seq(Entry)
  <1> DEFINE todo == listener[p].todo
  <1>1. todo \in Seq(Entry) /\ Len(todo) \in Nat \ {0}
    BY DEF TypeOK, ListenerState
  <1>2. EntryInHand(p) = todo[Len(todo)]
    BY DEF EntryInHand, Last
  <1>3. Front(todo) = SubSeq(todo, 1, Len(todo) - 1)
    BY DEF Front
  <1> HIDE DEF todo
  <1>4. \A i \in 1 .. Len(todo) - 1 : todo[i] \in Entry
    BY <1>1
  <1>5. Front(todo) \in Seq(Entry)
    BY <1>1, <1>3, <1>4, SubSeqProperties
  <1> QED
    BY <1>1, <1>2, <1>5 DEF todo

LEMMA NewMetricType ==
  ASSUME NEW m \in 0 .. MetricModulus - 1
  PROVE  NewMetric(m) \in 0 .. RIP_INFINITY
  <1>1. (m + 1) % MetricModulus \in Nat
    BY RipAssumption
  <1> QED
    BY <1>1 DEF NewMetric, RIP_INFINITY

(***************************************************************************)
(* The timers thread.                                                      *)
(***************************************************************************)
LEMMA VisitKeeps ==
  ASSUME Inv, TimersVisit
  PROVE  TableOK'
  <1> DEFINE h == timers.curr
  <1>1. h \in Handle /\ TableOK
    BY DEF Inv, TypeOK, TimersState, TimersVisit, TableOK
  <1>2. routes_ll' = routes_ll /\ stale' = stale
    BY DEF TimersVisit
  <1>3. \/ SetFlush(h) \/ SetInvalid(h) \/ UNCHANGED route
    BY DEF TimersVisit, NothingDue
  <1> HIDE DEF h
  <1>4. route \in [Handle -> Route]
    BY <1>1 DEF TableOK, TableTypeOK
  <1>5. CASE SetFlush(h)
    <2>1. FLG_ADD(FLG_RM(route[h].flags, "INVALID"), "FLUSH") \in SUBSET Flag
      BY <1>1, <1>4 DEF FLG_ADD, FLG_RM, Flag, Route
    <2>2. RIP_INFINITY \in 0 .. RIP_INFINITY /\ 0 \in 0 .. MaxAge
      BY RoutingTableAssumption DEF RIP_INFINITY
    <2> DEFINE flags == FLG_ADD(FLG_RM(route[h].flags, "INVALID"), "FLUSH")
               r == [route[h] EXCEPT !.metric = RIP_INFINITY, !.age = 0, !.flags = flags]
    <2>3. route' = [route EXCEPT ![h] = r]
      BY <1>1, <1>4, <1>5 DEF SetFlush
    <2>4. flags \in SUBSET Flag /\ route[h] \in Route
      BY <1>1, <1>4, <2>1
    <2> HIDE DEF flags
    <2>5. r \in Route /\ r.ad = route[h].ad
      BY <2>2, <2>4 DEF Route
    <2> HIDE DEF r
    <2>6. route' \in [Handle -> Route] /\ \A g \in Handle : route'[g].ad = route[g].ad
      BY <1>1, <1>4, <2>3, <2>5
    <2> QED
      BY <1>1, <1>2, <2>6, RoutesChange
  <1>6. CASE SetInvalid(h)
    <2>1. FLG_ADD(route[h].flags, "INVALID") \in SUBSET Flag
      BY <1>1, <1>4 DEF FLG_ADD, Flag, Route
    <2>2. route' \in [Handle -> Route] /\ \A g \in Handle : route'[g].ad = route[g].ad
      BY <1>1, <1>4, <1>6, <2>1 DEF SetInvalid, Route
    <2> QED
      BY <1>1, <1>2, <2>2, RoutesChange
  <1>7. CASE UNCHANGED route
    BY <1>1, <1>2, <1>4, <1>7, RoutesChange
  <1> QED
    BY <1>3, <1>5, <1>6, <1>7

LEMMA TimersKeep ==
  ASSUME Inv, TimersStep \/ TimersCrash
  PROVE  Inv'
  <1> USE DEF InHands, TimersAt
  <1>1. TableOK
    BY DEF Inv, TypeOK, TableOK
  <1>2. ASSUME UNCHANGED tableVars
        PROVE  TableOK'
    BY <1>1, <1>2 DEF tableVars, TableOK, TableTypeOK, ConnectedFirst
  <1>3. CASE TimersStart
    <2>1. Head1 \in Handle \cup {NoRoute}
      BY <1>1 DEF Head1, TableOK, TableTypeOK, ConnectedFirst
    <2>2. TableOK'
      BY <1>2, <1>3 DEF TimersStart
    <2> QED
      BY <1>3, <2>1, <2>2 DEF TimersStart, Inv, TypeOK, TimersState, TableOK
  <1>4. CASE TimersSleep
    <2>1. TableOK'
      BY <1>2, <1>4 DEF TimersSleep
    <2> QED
      BY <1>4, <2>1, RipAssumption DEF TimersSleep, IdleTimers, Inv, TypeOK, TimersState, TableOK
  <1>5. CASE TimersVisit
    <2>1. TableOK'
      BY <1>5, VisitKeeps
    <2> QED
      BY <1>5, <2>1 DEF TimersVisit, Inv, TypeOK, TimersState, TableOK
  <1>6. CASE TimersFind
    <2>1. TableOK'
      BY <1>2, <1>6 DEF TimersFind
    <2>2. timers.curr \in Handle
      BY <1>6 DEF TimersFind, Inv, TypeOK, TimersState
    <2>3. /\ PositionByRoute(timers.curr) \in Nat
          /\ PositionByRoute(timers.curr) # 0 => PositionByRoute(timers.curr) >= 3
      BY <1>1, <2>2, PositionByRouteIsSafe
    <2> QED
      BY <1>6, <2>1, <2>3 DEF TimersFind, Inv, TypeOK, TimersState, TableOK
  <1>7. CASE TimersUnlink
    <2>1. timers.idx \in Nat /\ timers.idx >= 3
      BY <1>7 DEF TimersUnlink, Inv, TypeOK, TimersState
    <2>2. TableOK'
      BY <1>1, <1>7, <2>1, DeleteKeeps DEF TimersUnlink
    <2> QED
      BY <1>7, <2>2 DEF TimersUnlink, Inv, TypeOK, TimersState, TableOK
  <1>8. CASE TimersNext
    <2>1. TableOK'
      BY <1>2, <1>8 DEF TimersNext
    <2>2. Successor(timers.curr) \in Handle \cup {NoRoute}
      BY <1>1, <1>8, SuccessorType DEF TimersNext, Inv, TypeOK, TimersState, TableOK
    <2> QED
      BY <1>8, <2>1, <2>2 DEF TimersNext, Inv, TypeOK, TimersState, TableOK
  <1>9. CASE TimersCrash
    <2>1. TableOK'
      BY <1>2, <1>9 DEF TimersCrash
    <2> QED
      BY <1>9, <2>1 DEF TimersCrash, Inv, TypeOK, TimersState, TableOK
  <1> QED
    BY <1>3, <1>4, <1>5, <1>6, <1>7, <1>8, <1>9 DEF TimersStep

(***************************************************************************)
(* The listeners and the consoles.                                         *)
(***************************************************************************)
LEMMA ListenerApplyKeeps ==
  ASSUME Inv, NEW p \in Port, ListenerApply(p)
  PROVE  TableOK'
  <1> DEFINE e == EntryInHand(p)
             r == listener[p].r
  <1>1. TableOK /\ r \in Handle \cup {NoRoute}
    BY DEF Inv, TypeOK, ListenerState, TableOK
  <1>2. e \in Entry
    BY EntryInHandType DEF Inv, InHands, ListenerApply
  <1>3. mask_to_prefix(e.mask) \in 0 .. W
    BY PrefixInRange
  <1>4. NewMetric(e.metric) \in 0 .. RIP_INFINITY
    BY <1>2, NewMetricType DEF Entry
  <1>5. IF r # NoRoute THEN RefreshRoute(r, e) ELSE LearnRoute(p, e)
    BY DEF ListenerApply
  <1> HIDE DEF e, r
  <1>6. CASE r # NoRoute
    <2>1. routes_ll' = routes_ll /\ stale' = stale
      BY <1>5, <1>6 DEF RefreshRoute
    <2>2. route \in [Handle -> Route] /\ r \in Handle
      BY <1>1, <1>6 DEF TableOK, TableTypeOK
    <2>3. 0 \in 0 .. MaxAge
      BY RoutingTableAssumption
    <2>4. route' \in [Handle -> Route] /\ \A g \in Handle : route'[g].ad = route[g].ad
      BY <1>3, <1>4, <1>5, <1>6, <2>2, <2>3 DEF RefreshRoute, Route
    <2> QED
      BY <1>1, <2>1, <2>4, RoutesChange
  <1>7. CASE r = NoRoute
    <2>1. PICK h \in FreshHandle :
            add_route(h, e.ip, mask_to_prefix(e.mask), p, RIP_AD, {})
      BY <1>5, <1>7 DEF LearnRoute
    <2>2. e.ip \in Addr /\ {} \in SUBSET Flag
      BY <1>2 DEF Entry
    <2> QED
      BY <1>1, <1>3, <2>1, <2>2, AddKeeps
  <1> QED
    BY <1>6, <1>7

LEMMA ListenersKeep ==
  ASSUME Inv, NEW p \in Port, RipResponse(p) \/ ListenerStep(p)
  PROVE  Inv'
  <1> USE DEF InHands
  <1>1. TableOK
    BY DEF Inv, TypeOK, TableOK
  <1>2. ASSUME UNCHANGED tableVars
        PROVE  TableOK'
    BY <1>1, <1>2 DEF tableVars, TableOK, TableTypeOK, ConnectedFirst
  <1>3. CASE RipResponse(p)
    <2>1. TableOK'
      BY <1>2, <1>3 DEF RipResponse
    <2>2. PICK m \in Message : listener' = [listener EXCEPT ![p].todo = m]
      BY <1>3 DEF RipResponse
    <2>3. m \in Seq(Entry)
      BY RipAssumption
    <2> QED
      BY <1>3, <2>1, <2>2, <2>3
         DEF RipResponse, IdleListener, Inv, TypeOK, ListenerState, TableOK
  <1>4. CASE ListenerSearch(p)
    <2>1. TableOK'
      BY <1>2, <1>4 DEF ListenerSearch
    <2>2. routing_table_search(EntryInHand(p).ip) \in Handle \cup {NoRoute}
      BY <1>1, SearchFinds DEF TableOK, TableTypeOK, Listed
    <2> DEFINE new == [listener[p] EXCEPT !.pc = "apply",
                                          !.r = routing_table_search(EntryInHand(p).ip)]
    <2>3. new \in ListenerState /\ new.todo # << >>
      BY <1>4, <2>2 DEF ListenerSearch, ListenerState, Inv, TypeOK
    <2>4. listener' = [listener EXCEPT ![p] = new]
      BY <1>4 DEF ListenerSearch
    <2> HIDE DEF new
    <2> QED
      BY <1>4, <2>1, <2>3, <2>4 DEF ListenerSearch, Inv, TypeOK, TableOK
  <1>5. CASE ListenerApply(p)
    <2>1. TableOK'
      BY <1>5, ListenerApplyKeeps
    <2>2. Front(listener[p].todo) \in Seq(Entry)
      BY <1>5, EntryInHandType DEF ListenerApply, Inv
    <2> DEFINE new == [listener[p] EXCEPT !.pc = "search", !.r = NoRoute,
                                          !.todo = Front(listener[p].todo)]
    <2>3. new \in ListenerState /\ new.pc = "search"
      BY <2>2 DEF ListenerState, Inv, TypeOK
    <2>4. listener' = [listener EXCEPT ![p] = new]
      BY <1>5 DEF ListenerApply
    <2> HIDE DEF new
    <2> QED
      BY <1>5, <2>1, <2>3, <2>4, ZenonT(40) DEF ListenerApply, Inv, TypeOK, TableOK
  <1> QED
    BY <1>3, <1>4, <1>5 DEF ListenerStep

LEMMA ConsolesKeep ==
  ASSUME Inv, NEW c \in Console,
         AddStaticRoute(c) \/ RipSearch(c) \/ DeleteFind(c) \/ CliStep(c)
  PROVE  Inv'
  <1> USE DEF InHands, CliAt
  <1>1. TableOK
    BY DEF Inv, TypeOK, TableOK
  <1>2. ASSUME UNCHANGED tableVars
        PROVE  TableOK'
    BY <1>1, <1>2 DEF tableVars, TableOK, TableTypeOK, ConnectedFirst
  <1>3. IdleCli \in CliState /\ IdleCli.pc = "idle"
    BY DEF IdleCli, CliState, Addr
  <1>4. CASE AddStaticRoute(c)
    <2>1. PICK s \in StaticRoute, h \in FreshHandle :
            add_route(h, s.network, s.mask, s.port, STATIC_AD, {})
      BY <1>4 DEF AddStaticRoute
    <2>2. s.network \in Addr /\ s.mask \in 0 .. W /\ s.port \in Port
      BY RipAssumption
    <2>3. TableOK'
      BY <1>1, <2>1, <2>2, AddKeeps
    <2> QED
      BY <1>4, <2>3 DEF AddStaticRoute, Inv, TypeOK, TableOK
  <1>5. CASE RipSearch(c)
    <2>1. TableOK'
      BY <1>2, <1>5 DEF RipSearch
    <2>2. PICK net \in RipNetwork :
            /\ routing_table_search(net) # NoRoute
            /\ cli' = [cli EXCEPT ![c].pc = "rip",
                                  ![c].r = routing_table_search(net), ![c].net = net]
      BY <1>5 DEF RipSearch
    <2>3. routing_table_search(net) \in Handle
      BY <1>1, <2>2, SearchFinds DEF TableOK, TableTypeOK, Listed
    <2>4. net \in Addr
      BY RipAssumption
    <2> DEFINE new == [cli[c] EXCEPT !.pc = "rip", !.r = routing_table_search(net),
                                     !.net = net]
    <2>5. new \in CliState /\ new.pc = "rip" /\ new.r # NoRoute
      BY <2>2, <2>3, <2>4, RoutingTableAssumption DEF CliState, Inv, TypeOK
    <2>6. cli' = [cli EXCEPT ![c] = new]
      BY <2>2
    <2> HIDE DEF new
    <2> QED
      BY <1>5, <2>1, <2>5, <2>6 DEF RipSearch, Inv, TypeOK, TableOK
  <1>6. CASE DeleteFind(c)
    <2>1. TableOK'
      BY <1>2, <1>6 DEF DeleteFind
    <2>2. PICK id \in DOMAIN routes_ll :
            /\ PositionById(id) # 0
            /\ cli' = [cli EXCEPT ![c].pc = "unlink", ![c].idx = PositionById(id)]
      BY <1>6 DEF DeleteFind
    <2>3. PositionById(id) \in Nat /\ PositionById(id) >= 3
      BY <2>2 DEF PositionById
    <2> DEFINE new == [cli[c] EXCEPT !.pc = "unlink", !.idx = PositionById(id)]
    <2>4. new \in CliState /\ new.pc = "unlink" /\ new.idx >= 3
      BY <2>3 DEF CliState, Inv, TypeOK
    <2>5. cli' = [cli EXCEPT ![c] = new]
      BY <2>2
    <2> HIDE DEF new
    <2> QED
      BY <1>6, <2>1, <2>4, <2>5 DEF DeleteFind, Inv, TypeOK, TableOK
  <1>7. CASE RipAdd(c)
    <2>1. cli[c].r \in Handle /\ cli[c].net \in Addr
      BY <1>7 DEF RipAdd, Inv, TypeOK, CliState
    <2>2. route[cli[c].r] \in Route
      BY <1>1, <2>1 DEF TableOK, TableTypeOK
    <2>3. PICK h \in FreshHandle :
            add_route(h, cli[c].net, route[cli[c].r].mask,
                      route[cli[c].r].outgoing_interface, RIP_AD, {"DB"})
      BY <1>7 DEF RipAdd
    <2>4. {"DB"} \in SUBSET Flag
      BY DEF Flag
    <2>5. TableOK'
      BY <1>1, <2>1, <2>2, <2>3, <2>4, AddKeeps DEF Route
    <2> QED
      BY <1>3, <1>7, <2>5 DEF RipAdd, Inv, TypeOK, TableOK
  <1>8. CASE DeleteUnlink(c)
    <2>1. cli[c].idx \in Nat /\ cli[c].idx >= 3
      BY <1>8 DEF DeleteUnlink, Inv, TypeOK, CliState
    <2>2. TableOK'
      BY <1>1, <1>8, <2>1, DeleteKeeps DEF DeleteUnlink
    <2> QED
      BY <1>3, <1>8, <2>2 DEF DeleteUnlink, Inv, TypeOK, TableOK
  <1> QED
    BY <1>4, <1>5, <1>6, <1>7, <1>8 DEF CliStep

LEMMA TickKeeps ==
  ASSUME Inv, Tick
  PROVE  Inv'
  <1>1. \A h \in Handle : route[h] \in Route
    BY DEF Inv, TypeOK, TableTypeOK
  <1>2. \A h \in Handle :
          /\ [route[h] EXCEPT !.age = Older(route[h].age)] \in Route
          /\ [route[h] EXCEPT !.age = Older(route[h].age)].ad = route[h].ad
    BY <1>1, RoutingTableAssumption DEF Older, Route
  <1>3. route' \in [Handle -> Route] /\ \A h \in Handle : route'[h].ad = route[h].ad
    BY <1>2 DEF Tick
  <1>4. TableOK'
    BY <1>3, RoutesChange DEF Tick, Inv, TypeOK, TableOK
  <1>5. timers' \in TimersState /\ timers'.pc = timers.pc
                /\ timers'.curr = timers.curr /\ timers'.idx = timers.idx
    BY RipAssumption DEF Tick, Inv, TypeOK, TimersState
  <1> QED
    BY <1>4, <1>5 DEF Tick, Inv, InHands, TypeOK, TableOK

LEMMA InitEstablishes == Init => Inv
  <1> SUFFICES ASSUME Init PROVE Inv
    OBVIOUS
  <1>1. /\ Connected(P1) \in Route /\ Connected(P1).ad = DIRECTLY_CONNECTED_AD
        /\ Connected(P2) \in Route /\ Connected(P2).ad = DIRECTLY_CONNECTED_AD
    BY ConnectedType, RipAssumption
  <1>2. TableTypeOK
    BY <1>1, RipAssumption DEF Init, InitTable, TableTypeOK
  <1>3. ConnectedFirst
    BY <1>1, RipAssumption DEF Init, InitTable, ConnectedFirst
  <1>4. IdleTimers \in TimersState
    BY RipAssumption DEF IdleTimers, TimersState
  <1>5. IdleListener \in ListenerState /\ IdleCli \in CliState
    BY DEF IdleListener, ListenerState, IdleCli, CliState, Addr
  <1>6. TypeOK
    BY <1>2, <1>4, <1>5 DEF Init, TypeOK
  <1>7. InHands
    BY DEF Init, InHands, IdleTimers, IdleListener, IdleCli
  <1> QED
    BY <1>3, <1>6, <1>7 DEF Inv

LEMMA NextKeeps == Inv /\ [Next]_vars => Inv'
  <1> SUFFICES ASSUME Inv, [Next]_vars PROVE Inv'
    OBVIOUS
  <1>1. CASE Tick
    BY <1>1, TickKeeps
  <1>2. CASE TimersStep \/ TimersCrash
    BY <1>2, TimersKeep
  <1>3. ASSUME NEW p \in RipPort, RipResponse(p) \/ ListenerStep(p)
        PROVE  Inv'
    BY <1>3, ListenersKeep, RipAssumption
  <1>4. ASSUME NEW c \in Console,
               AddStaticRoute(c) \/ RipSearch(c) \/ DeleteFind(c) \/ CliStep(c)
        PROVE  Inv'
    BY <1>4, ConsolesKeep
  <1>5. CASE UNCHANGED vars
    BY <1>5 DEF vars, tableVars, Inv, InHands, TypeOK, TableTypeOK, ConnectedFirst
  <1> QED
    BY <1>1, <1>2, <1>3, <1>4, <1>5 DEF Next

(***************************************************************************)
(* Every reachable state satisfies the inductive invariant.                *)
(***************************************************************************)
THEOREM Invariance == Spec => []Inv
  <1> QED
    BY InitEstablishes, NextKeeps, PTL DEF Spec

(***************************************************************************)
(* The variables have their types in every reachable state.                *)
(***************************************************************************)
THEOREM TypeCorrect == Spec => []TypeOK
  <1>1. Inv => TypeOK
    BY DEF Inv
  <1> QED
    BY <1>1, Invariance, PTL

(***************************************************************************)
(* The routes to the router's own networks stay first in the table,        *)
(* connected, whatever routing_table_delete and its races remove: for any  *)
(* number of consoles, routes and neighbours, and any timer values.        *)
(***************************************************************************)
THEOREM ConnectedRoutesStay == Spec => []ConnectedFirst
  <1>1. Inv => ConnectedFirst
    BY DEF Inv
  <1> QED
    BY <1>1, Invariance, PTL

-----------------------------------------------------------------------------

(***************************************************************************)
(* Proofs about the flags of a route: what RIP_check_timers does to them   *)
(* over several checks, whatever the listeners and consoles do in between. *)
(***************************************************************************)
(***************************************************************************)
(* The stages a route can be in.  FLG_RM takes INVALID away only because   *)
(* it is there, and FLUSH is added only to a route that loses INVALID.     *)
(***************************************************************************)
Stage(r) ==
  /\ r.flags \in {{}, {"DB"}, {"INVALID"}, {"FLUSH"}}
  /\ r.flags \in {{"INVALID"}, {"FLUSH"}} => r.ad = RIP_AD

Stages == \A h \in Handle : Stage(route[h])

\* What FlagsOnlyAge allows a step to do to a route that stays in the list.
Ages(h) ==
  \/ route'[h].flags = route[h].flags
  \/ ~ Invalid(h) /\ ~ Flush(h) /\ route'[h].flags = {"INVALID"}
  \/ route[h].flags = {"INVALID"} /\ route'[h].flags = {"FLUSH"}

(***************************************************************************)
(* What a step can do to the Routes.                                       *)
(***************************************************************************)
FlagsKept ==
  \A h \in Handle : route'[h].flags = route[h].flags /\ route'[h].ad = route[h].ad

Added ==
  \E h \in FreshHandle :
    /\ route' = [route EXCEPT ![h] = route'[h]]
    /\ route'[h].flags \in {{}, {"DB"}}

Checked == \E h \in Handle : SetFlush(h) \/ SetInvalid(h)

LEMMA AddRouteAdds ==
  ASSUME TypeOK, NEW h \in FreshHandle, NEW network, NEW mask, NEW p, NEW ad,
         NEW flags \in {{}, {"DB"}},
         add_route(h, network, mask, p, ad, flags)
  PROVE  Added
  <1> DEFINE new == NewRoute(network, mask, p, ad, flags)
  <1>1. h \in Handle /\ route \in [Handle -> Route]
    BY DEF FreshHandle, TypeOK, TableTypeOK
  <1>2. route' = [route EXCEPT ![h] = new]
    BY DEF add_route
  <1>3. new.flags = flags
    BY DEF NewRoute
  <1> HIDE DEF new
  <1>4. route'[h] = new
    BY <1>1, <1>2
  <1> QED
    BY <1>2, <1>3, <1>4 DEF Added

LEMMA DeleteKeepsFlags ==
  ASSUME NEW i, LL_delete(i)
  PROVE  FlagsKept
  BY DEF LL_delete, tableVars, FlagsKept

LEMMA TimersChange ==
  ASSUME Inv, TimersStep \/ TimersCrash
  PROVE  FlagsKept \/ Checked
  <1>1. CASE TimersVisit
    <2>1. timers.curr \in Handle
      BY <1>1 DEF TimersVisit, Inv, TypeOK, TimersState
    <2>2. SetFlush(timers.curr) \/ SetInvalid(timers.curr) \/ UNCHANGED route
      BY <1>1 DEF TimersVisit, NothingDue
    <2> QED
      BY <2>1, <2>2 DEF FlagsKept, Checked
  <1>2. CASE TimersUnlink
    BY <1>2, DeleteKeepsFlags DEF TimersUnlink
  <1>3. CASE TimersStart \/ TimersSleep \/ TimersFind \/ TimersNext \/ TimersCrash
    BY <1>3 DEF TimersStart, TimersSleep, TimersFind, TimersNext, TimersCrash,
                tableVars, FlagsKept
  <1> QED
    BY <1>1, <1>2, <1>3 DEF TimersStep

LEMMA ListenersChange ==
  ASSUME Inv, NEW p \in Port, RipResponse(p) \/ ListenerStep(p)
  PROVE  FlagsKept \/ Added
  <1>1. CASE RipResponse(p) \/ ListenerSearch(p)
    BY <1>1 DEF RipResponse, ListenerSearch, tableVars, FlagsKept
  <1>2. CASE ListenerApply(p)
    <2> DEFINE r == listener[p].r
               e == EntryInHand(p)
    <2>1. r \in Handle \cup {NoRoute} /\ route \in [Handle -> Route]
      BY DEF Inv, TypeOK, TableTypeOK, ListenerState
    <2>2. IF r # NoRoute THEN RefreshRoute(r, e) ELSE LearnRoute(p, e)
      BY <1>2 DEF ListenerApply
    <2> HIDE DEF r, e
    <2>3. CASE r # NoRoute
      BY <2>1, <2>2, <2>3 DEF RefreshRoute, Route, FlagsKept
    <2>4. CASE r = NoRoute
      <3>1. PICK h \in FreshHandle :
              add_route(h, e.ip, mask_to_prefix(e.mask), p, RIP_AD, {})
        BY <2>2, <2>4 DEF LearnRoute
      <3> QED
        BY <3>1, AddRouteAdds DEF Inv
    <2> QED
      BY <2>3, <2>4
  <1> QED
    BY <1>1, <1>2 DEF ListenerStep

LEMMA ConsolesChange ==
  ASSUME Inv, NEW c \in Console,
         AddStaticRoute(c) \/ RipSearch(c) \/ DeleteFind(c) \/ CliStep(c)
  PROVE  FlagsKept \/ Added
  <1>1. CASE AddStaticRoute(c)
    <2>1. PICK s \in StaticRoute, h \in FreshHandle :
            add_route(h, s.network, s.mask, s.port, STATIC_AD, {})
      BY <1>1 DEF AddStaticRoute
    <2> QED
      BY <2>1, AddRouteAdds DEF Inv
  <1>2. CASE RipAdd(c)
    <2>1. PICK h \in FreshHandle :
            add_route(h, cli[c].net, route[cli[c].r].mask,
                      route[cli[c].r].outgoing_interface, RIP_AD, {"DB"})
      BY <1>2 DEF RipAdd
    <2> QED
      BY <2>1, AddRouteAdds DEF Inv
  <1>3. CASE RipSearch(c) \/ DeleteFind(c)
    BY <1>3 DEF RipSearch, DeleteFind, tableVars, FlagsKept
  <1>4. CASE DeleteUnlink(c)
    BY <1>4, DeleteKeepsFlags DEF DeleteUnlink
  <1> QED
    BY <1>1, <1>2, <1>3, <1>4 DEF CliStep

LEMMA StepsChange ==
  ASSUME Inv, [Next]_vars
  PROVE  FlagsKept \/ Added \/ Checked
  <1>1. CASE Tick
    <2>1. route \in [Handle -> Route]
      BY DEF Inv, TypeOK, TableTypeOK
    <2>2. route' = [h \in Handle |-> [route[h] EXCEPT !.age = Older(route[h].age)]]
      BY <1>1 DEF Tick
    <2> QED
      BY <2>1, <2>2 DEF Route, FlagsKept
  <1>2. CASE TimersStep \/ TimersCrash
    BY <1>2, TimersChange
  <1>3. ASSUME NEW p \in RipPort, RipResponse(p) \/ ListenerStep(p)
        PROVE  FlagsKept \/ Added
    BY <1>3, ListenersChange, RipAssumption
  <1>4. ASSUME NEW c \in Console,
               AddStaticRoute(c) \/ RipSearch(c) \/ DeleteFind(c) \/ CliStep(c)
        PROVE  FlagsKept \/ Added
    BY <1>4, ConsolesChange
  <1>5. CASE UNCHANGED vars
    BY <1>5 DEF vars, tableVars, FlagsKept
  <1> QED
    BY <1>1, <1>2, <1>3, <1>4, <1>5 DEF Next

(***************************************************************************)
(* Each of these moves a route at most one stage on.                       *)
(***************************************************************************)
LEMMA CheckAges ==
  ASSUME Inv, Stages, NEW h \in Handle, SetFlush(h) \/ SetInvalid(h)
  PROVE  Stages' /\ \A g \in Handle : Ages(g)
  <1>1. /\ route \in [Handle -> Route]
        /\ route[h].ad = RIP_AD /\ "DB" \notin route[h].flags
        /\ "FLUSH" \notin route[h].flags
    BY DEF Inv, TypeOK, TableTypeOK, SetFlush, SetInvalid, Learned, Flush, FLG_CHK
  <1>2. Stage(route[h])
    BY DEF Stages
  <1>3. CASE SetFlush(h)
    <2>1. route[h].flags = {"INVALID"}
      BY <1>1, <1>2, <1>3 DEF SetFlush, Invalid, FLG_CHK, Stage
    <2>2. FLG_ADD(FLG_RM(route[h].flags, "INVALID"), "FLUSH") = {"FLUSH"}
      BY <2>1 DEF FLG_ADD, FLG_RM
    <2>3. /\ route'[h].flags = {"FLUSH"} /\ route'[h].ad = RIP_AD
          /\ \A g \in Handle \ {h} : route'[g] = route[g]
      BY <1>1, <1>3, <2>2 DEF SetFlush, Route
    <2> QED
      BY <2>1, <2>3 DEF Stages, Stage, Ages
  <1>4. CASE SetInvalid(h)
    <2>1. route[h].flags = {}
      BY <1>1, <1>2, <1>4 DEF SetInvalid, Invalid, FLG_CHK, Stage
    <2>2. FLG_ADD(route[h].flags, "INVALID") = {"INVALID"}
      BY <2>1 DEF FLG_ADD
    <2>3. /\ route'[h].flags = {"INVALID"} /\ route'[h].ad = RIP_AD
          /\ \A g \in Handle \ {h} : route'[g] = route[g]
      BY <1>1, <1>4, <2>2 DEF SetInvalid, Route
    <2> QED
      BY <2>1, <2>3 DEF Stages, Stage, Ages, Invalid, Flush, FLG_CHK
  <1> QED
    BY <1>3, <1>4

LEMMA StagesKept ==
  ASSUME Inv, Stages, [Next]_vars
  PROVE  Stages' /\ \A g \in Listed : Ages(g)
  <1>1. Listed \subseteq Handle
    BY DEF Inv, TypeOK, TableTypeOK, Listed
  <1>2. CASE FlagsKept
    BY <1>1, <1>2 DEF FlagsKept, Stages, Stage, Ages
  <1>3. CASE Added
    <2>1. PICK h \in FreshHandle :
            /\ route' = [route EXCEPT ![h] = route'[h]]
            /\ route'[h].flags \in {{}, {"DB"}}
      BY <1>3 DEF Added
    <2>2. h \notin Listed
      BY DEF FreshHandle
    <2>3. \A g \in Handle \ {h} : route'[g] = route[g]
      BY <2>1 DEF Inv, TypeOK, TableTypeOK
    <2>4. Stage(route'[h])
      BY <2>1 DEF Stage
    <2> QED
      BY <1>1, <2>2, <2>3, <2>4 DEF Stages, Stage, Ages
  <1>4. CASE Checked
    <2>1. PICK h \in Handle : SetFlush(h) \/ SetInvalid(h)
      BY <1>4 DEF Checked
    <2> QED
      BY <1>1, <2>1, CheckAges
  <1> QED
    BY <1>2, <1>3, <1>4, StepsChange

LEMMA StagesInit == Init => Stages
  <1> SUFFICES ASSUME Init, NEW h \in Handle PROVE Stage(route[h])
    BY DEF Stages
  <1>1. route[h] = Connected(P1) \/ route[h] = Connected(P2)
    BY DEF Init, InitTable
  <1> QED
    BY <1>1 DEF Connected, NewRoute, Stage

LEMMA StagesInvariant == Spec => []Stages
  <1>1. Inv /\ Stages /\ [Next]_vars => Stages'
    BY StagesKept
  <1> QED
    BY <1>1, StagesInit, Invariance, PTL DEF Spec

(***************************************************************************)
(* A route is never INVALID and FLUSH at once, and only a learned route    *)
(* has either: for any number of routes, neighbours and consoles.          *)
(***************************************************************************)
THEOREM FlagsStayChained == Spec => []FlagsChain
  <1>1. Inv /\ Stages => FlagsChain
    <2> SUFFICES ASSUME Inv, Stages, NEW h \in Listed
                 PROVE  /\ ~ (Invalid(h) /\ Flush(h))
                        /\ Invalid(h) \/ Flush(h) => Learned(h)
      BY DEF FlagsChain
    <2>1. h \in Handle
      BY DEF Inv, TypeOK, TableTypeOK, Listed
    <2>2. Stage(route[h])
      BY <2>1 DEF Stages
    <2> QED
      BY <2>2 DEF Stage, Invalid, Flush, Learned, FLG_CHK
  <1> QED
    BY <1>1, Invariance, StagesInvariant, PTL

(***************************************************************************)
(* A listed route only grows older, one stage in a step: no update of a    *)
(* neighbour, no command and no order of threads revives it or skips the   *)
(* stage INVALID.                                                          *)
(***************************************************************************)
THEOREM FlagsGrowOlder == Spec => FlagsOnlyAge
  <1>1. Inv /\ Stages /\ [Next]_vars =>
          [\A h \in Listed :
             \/ h \in Removed
             \/ route'[h].flags = route[h].flags
             \/ ~ Invalid(h) /\ ~ Flush(h) /\ route'[h].flags = {"INVALID"}
             \/ route[h].flags = {"INVALID"} /\ route'[h].flags = {"FLUSH"}]_vars
    BY StagesKept DEF Ages
  <1> QED
    BY <1>1, Invariance, StagesInvariant, PTL DEF Spec, FlagsOnlyAge

-----------------------------------------------------------------------------

(***************************************************************************)
(* Rip implements RouteLife when no console deletes routes.  What has to   *)
(* be known is that the position the timers thread carries from its walk   *)
(* to LL_delete is that of a FLUSH route: the others only append.          *)
(***************************************************************************)
NoHandleTwice ==
  \A i, j \in DOMAIN routes_ll : routes_ll[i] = routes_ll[j] => i = j

OnItsWayOut ==
  /\ timers.pc \in {"find", "unlink"} =>
       Learned(timers.curr) /\ Flush(timers.curr)
  /\ timers.pc = "unlink" =>
       timers.idx \in DOMAIN routes_ll /\ routes_ll[timers.idx] = timers.curr
  /\ \A c \in Console : cli[c].pc # "unlink"

LifeInv == Inv /\ NoHandleTwice /\ OnItsWayOut

life == [h \in Handle |-> LifeOf(h)]

(***************************************************************************)
(* The life of an entry depends on whether it is listed, and then on its   *)
(* distance and flags alone.                                               *)
(***************************************************************************)
SameKind(h) == route'[h].ad = route[h].ad /\ route'[h].flags = route[h].flags

LEMMA LifeSame ==
  ASSUME NEW h \in Handle,
         h \in Listed <=> (h \in Listed)',
         h \in Listed => SameKind(h)
  PROVE  LifeOf(h)' = LifeOf(h)
  BY DEF LifeOf, SameKind, Learned, Flush, Invalid

LEMMA LifeSameAll ==
  ASSUME routes_ll' = routes_ll,
         \A h \in Handle : SameKind(h)
  PROVE  life' = life
  <1>1. \A h \in Handle : LifeOf(h)' = LifeOf(h)
    BY LifeSame DEF Listed
  <1> QED
    BY <1>1 DEF life

(***************************************************************************)
(* An addition makes one free entry kept, or valid if it is learned.       *)
(***************************************************************************)
LEMMA AddLife ==
  ASSUME LifeInv, NEW h \in FreshHandle,
         NEW network \in Addr, NEW mask \in 0 .. W, NEW p \in Port,
         NEW ad \in {DIRECTLY_CONNECTED_AD, STATIC_AD, RIP_AD},
         NEW flags \in {{}, {"DB"}},
         add_route(h, network, mask, p, ad, flags)
  PROVE  /\ NoHandleTwice'
         /\ Life!Next
  <1> USE DEF DIRECTLY_CONNECTED_AD, STATIC_AD, RIP_AD
  <1>1. h \in Handle /\ h \notin Listed
    BY DEF FreshHandle
  <1>2. routes_ll \in Seq(Handle) /\ route \in [Handle -> Route]
    BY DEF LifeInv, Inv, TypeOK, TableTypeOK
  <1>3. routes_ll' = Append(routes_ll, h)
    BY DEF add_route, LL_add
  <1>4. /\ Len(routes_ll') = Len(routes_ll) + 1
        /\ \A i \in 1 .. Len(routes_ll) : routes_ll'[i] = routes_ll[i]
        /\ routes_ll'[Len(routes_ll) + 1] = h
        /\ routes_ll' \in Seq(Handle)
    BY <1>1, <1>2, <1>3
  <1>5. \A g : (g \in Listed)' <=> g \in Listed \/ g = h
    BY <1>2, <1>4 DEF Listed
  <1>6. NoHandleTwice'
    BY <1>1, <1>2, <1>4 DEF LifeInv, NoHandleTwice, Listed
  <1>7. route' = [route EXCEPT ![h] = NewRoute(network, mask, p, ad, flags)]
    BY DEF add_route, LL_add
  <1>8. \A g \in Handle \ {h} : LifeOf(g)' = LifeOf(g)
    <2> SUFFICES ASSUME NEW g \in Handle \ {h} PROVE LifeOf(g)' = LifeOf(g)
      OBVIOUS
    <2>1. SameKind(g)
      BY <1>1, <1>2, <1>7 DEF SameKind
    <2> QED
      BY <1>5, <2>1, LifeSame
  <1>9. LifeOf(h) = "free"
    BY <1>1 DEF LifeOf
  <1>10. route'[h].ad = ad /\ route'[h].flags = flags
    BY <1>1, <1>2, <1>7 DEF NewRoute
  <1>11. (h \in Listed)'
    BY <1>5
  <1>12. LifeOf(h)' \in {"kept", "valid"}
    <2>1. CASE ad = RIP_AD /\ flags = {}
      BY <1>10, <1>11, <2>1 DEF LifeOf, Learned, Flush, Invalid, FLG_CHK
    <2>2. CASE ~ (ad = RIP_AD /\ flags = {})
      BY <1>10, <1>11, <2>2 DEF LifeOf, Learned, Flush, Invalid, FLG_CHK
    <2> QED
      BY <2>1, <2>2
  <1>13. life' = [life EXCEPT ![h] = LifeOf(h)'] /\ life[h] = "free"
    BY <1>1, <1>8, <1>9 DEF life
  <1>14. Life!Next
    BY <1>1, <1>12, <1>13, ZenonT(40) DEF Life!Next, Life!Keep, Life!Learn, Life!Move, life
  <1> QED
    BY <1>6, <1>14

(***************************************************************************)
(* A removal frees the entry at its position and no other.                 *)
(***************************************************************************)
LEMMA DeleteLife ==
  ASSUME LifeInv, NEW i \in DOMAIN routes_ll, LL_delete(i),
         NEW h \in Handle, h = routes_ll[i], Learned(h), Flush(h)
  PROVE  /\ NoHandleTwice'
         /\ Life!Next
  <1> DEFINE n == Len(routes_ll)
  <1>1. routes_ll \in Seq(Handle) /\ route \in [Handle -> Route]
        /\ i \in 1 .. n /\ n \in Nat
    BY DEF LifeInv, Inv, TypeOK, TableTypeOK
  <1>2. h \in Listed
    BY <1>1 DEF Listed
  <1>3. routes_ll' = RemoveAt(routes_ll, i) /\ route' = route
    BY DEF LL_delete
  <1>4. /\ routes_ll' \in Seq(Handle)
        /\ Len(routes_ll') = n - 1
        /\ \A j \in 1 .. n - 1 :
             routes_ll'[j] = IF j < i THEN routes_ll[j] ELSE routes_ll[j + 1]
    BY <1>1, <1>3, RemoveAtProperties
  <1>5. \A j, k \in 1 .. n : routes_ll[j] = routes_ll[k] => j = k
    BY <1>1 DEF LifeInv, NoHandleTwice
  <1>6. DOMAIN routes_ll' = 1 .. n - 1
    BY <1>4
  <1>7. NoHandleTwice'
    <2> SUFFICES ASSUME NEW j \in 1 .. n - 1, NEW k \in 1 .. n - 1,
                        routes_ll'[j] = routes_ll'[k]
                 PROVE  j = k
      BY <1>6 DEF NoHandleTwice
    <2> DEFINE at(m) == IF m < i THEN m ELSE m + 1
    <2>1. at(j) \in 1 .. n /\ at(k) \in 1 .. n
      BY <1>1
    <2>2. routes_ll'[j] = routes_ll[at(j)] /\ routes_ll'[k] = routes_ll[at(k)]
      BY <1>4
    <2>3. at(j) = at(k)
      BY <1>5, <2>1, <2>2
    <2> QED
      BY <1>1, <2>3
  <1>8. (h \notin Listed)'
    <2> SUFFICES ASSUME NEW j \in 1 .. n - 1 PROVE routes_ll'[j] # h
      BY <1>3, <1>6 DEF Listed
    <2>1. CASE j < i
      BY <1>1, <1>4, <1>5, <2>1
    <2>2. CASE ~ (j < i)
      <3>1. j + 1 \in 1 .. n /\ j + 1 # i
        BY <1>1, <2>2
      <3> QED
        BY <1>1, <1>4, <1>5, <2>2, <3>1
    <2> QED
      BY <2>1, <2>2
  <1>9. \A g \in Handle \ {h} : g \in Listed <=> (g \in Listed)'
    <2> SUFFICES ASSUME NEW g \in Handle \ {h} PROVE g \in Listed <=> (g \in Listed)'
      OBVIOUS
    <2>1. ASSUME g \in Listed PROVE (g \in Listed)'
      <3>1. PICK k \in 1 .. n : routes_ll[k] = g /\ k # i
        BY <1>1, <2>1 DEF Listed
      <3> DEFINE j == IF k < i THEN k ELSE k - 1
      <3>2. j \in 1 .. n - 1 /\ (j < i => j = k) /\ (~ (j < i) => j + 1 = k)
        BY <1>1, <3>1
      <3>3. routes_ll'[j] = g
        BY <1>4, <3>1, <3>2
      <3> QED
        BY <1>6, <3>2, <3>3 DEF Listed
    <2>2. ASSUME (g \in Listed)' PROVE g \in Listed
      <3>1. PICK j \in 1 .. n - 1 : routes_ll'[j] = g
        BY <1>6, <2>2 DEF Listed
      <3>2. j \in 1 .. n /\ j + 1 \in 1 .. n
        BY <1>1
      <3>3. g = routes_ll[j] \/ g = routes_ll[j + 1]
        BY <1>4, <3>1
      <3> QED
        BY <1>1, <3>2, <3>3 DEF Listed
    <2> QED
      BY <2>1, <2>2
  <1>10. \A g \in Handle \ {h} : LifeOf(g)' = LifeOf(g)
    BY <1>3, <1>9, LifeSame DEF SameKind
  <1>11. LifeOf(h) = "flush"
    BY <1>2 DEF LifeOf
  <1>12. LifeOf(h)' = "free"
    BY <1>3, <1>8 DEF LifeOf
  <1>13. life' = [life EXCEPT ![h] = "free"] /\ life[h] = "flush"
    BY <1>2, <1>10, <1>11, <1>12 DEF life
  <1>14. Life!Next
    BY <1>2, <1>13 DEF Life!Next, Life!Forget, Life!Move, life
  <1> QED
    BY <1>7, <1>14

(***************************************************************************)
(* A check moves the entry it looks at down by one stage, or leaves it.    *)
(***************************************************************************)
LEMMA CheckLife ==
  ASSUME LifeInv, NEW h \in Handle, routes_ll' = routes_ll,
         SetFlush(h) \/ SetInvalid(h) \/ UNCHANGED route
  PROVE  [Life!Next]_life
  <1>1. route \in [Handle -> Route]
    BY DEF LifeInv, Inv, TypeOK, TableTypeOK
  <1>2. CASE UNCHANGED route
    <2>1. \A g \in Handle : SameKind(g)
      BY <1>2 DEF SameKind
    <2> QED
      BY <2>1, LifeSameAll
  <1>3. CASE SetFlush(h) \/ SetInvalid(h)
    <2>1. \A g \in Handle \ {h} : SameKind(g)
      BY <1>1, <1>3 DEF SetFlush, SetInvalid, SameKind
    <2>2. \A g \in Handle \ {h} : LifeOf(g)' = LifeOf(g)
      BY <2>1, LifeSame DEF Listed
    <2>3. route'[h].ad = route[h].ad
      BY <1>1, <1>3 DEF SetFlush, SetInvalid, Route
    <2>4. CASE h \notin Listed
      <3>1. LifeOf(h)' = LifeOf(h)
        BY <2>4 DEF LifeOf, Listed
      <3> QED
        BY <2>2, <3>1 DEF life
    <2>5. CASE h \in Listed
      <3>1. (h \in Listed)'
        BY <2>5 DEF Listed
      <3>2. CASE SetFlush(h)
        <4>1. route'[h].flags = FLG_ADD(FLG_RM(route[h].flags, "INVALID"), "FLUSH")
          BY <1>1, <3>2 DEF SetFlush, Route
        <4>2. LifeOf(h) = "invalid"
          BY <2>5, <3>2 DEF LifeOf, SetFlush
        <4>3. LifeOf(h)' = "flush"
          BY <2>3, <3>1, <3>2, <4>1
             DEF LifeOf, SetFlush, Learned, Flush, Invalid, FLG_CHK, FLG_ADD, FLG_RM
        <4>4. life' = [life EXCEPT ![h] = "flush"] /\ life[h] = "invalid"
          BY <2>2, <4>2, <4>3 DEF life
        <4> QED
          BY <4>4 DEF Life!Next, Life!Unreachable, Life!Move, life
      <3>3. CASE SetInvalid(h)
        <4>1. route'[h].flags = FLG_ADD(route[h].flags, "INVALID")
          BY <1>1, <3>3 DEF SetInvalid, Route
        <4>2. LifeOf(h) = "valid"
          BY <2>5, <3>3 DEF LifeOf, SetInvalid
        <4>3. LifeOf(h)' = "invalid"
          BY <2>3, <3>1, <3>3, <4>1
             DEF LifeOf, SetInvalid, Learned, Flush, Invalid, FLG_CHK, FLG_ADD
        <4>4. life' = [life EXCEPT ![h] = "invalid"] /\ life[h] = "valid"
          BY <2>2, <4>2, <4>3 DEF life
        <4> QED
          BY <4>4 DEF Life!Next, Life!Doubt, Life!Move, life
      <3> QED
        BY <1>3, <3>2, <3>3
    <2> QED
      BY <2>4, <2>5
  <1> QED
    BY <1>2, <1>3

(***************************************************************************)
(* What the timers thread carries survives the steps of the other threads. *)
(***************************************************************************)
TimersUntouched ==
  timers'.pc = timers.pc /\ timers'.curr = timers.curr /\ timers'.idx = timers.idx

LEMMA OutSame ==
  ASSUME LifeInv, TimersUntouched, routes_ll' = routes_ll,
         \A h \in Handle : SameKind(h),
         \A c \in Console : cli'[c].pc # "unlink"
  PROVE  NoHandleTwice' /\ OnItsWayOut'
  <1>1. timers.pc \in {"find", "unlink"} => timers.curr \in Handle
    BY DEF LifeInv, Inv, InHands, TypeOK, TimersState
  <1> QED
    BY <1>1 DEF LifeInv, TimersUntouched, OnItsWayOut, NoHandleTwice, SameKind,
                Learned, Flush

LEMMA OutAdd ==
  ASSUME LifeInv, TimersUntouched, NEW h \in FreshHandle,
         NEW network, NEW mask, NEW p, NEW ad, NEW flags,
         add_route(h, network, mask, p, ad, flags),
         \A c \in Console : cli'[c].pc # "unlink"
  PROVE  OnItsWayOut'
  <1>1. routes_ll \in Seq(Handle) /\ route \in [Handle -> Route]
    BY DEF LifeInv, Inv, TypeOK, TableTypeOK
  <1>2. h \in Handle
    BY DEF FreshHandle
  <1>3. \A i \in DOMAIN routes_ll :
          i \in DOMAIN routes_ll' /\ routes_ll'[i] = routes_ll[i]
    BY <1>1, <1>2 DEF add_route, LL_add
  <1>4. ASSUME timers.pc \in {"find", "unlink"}
        PROVE  timers.curr \in Handle /\ timers.curr # h
    <2>1. timers.curr \in Handle
      BY <1>4 DEF LifeInv, Inv, InHands, TypeOK, TimersState
    <2>2. CASE timers.pc = "find"
      BY <2>1, <2>2 DEF FreshHandle, Held
    <2>3. CASE timers.pc = "unlink"
      BY <2>1, <2>3 DEF FreshHandle, Listed, LifeInv, OnItsWayOut
    <2> QED
      BY <1>4, <2>1, <2>2, <2>3
  <1>5. timers.pc \in {"find", "unlink"} => route'[timers.curr] = route[timers.curr]
    BY <1>1, <1>2, <1>4 DEF add_route, LL_add
  <1> QED
    BY <1>3, <1>5
       DEF LifeInv, TimersUntouched, OnItsWayOut, Learned, Flush

(***************************************************************************)
(* Every step is a step of RouteLife, or changes nothing it sees.          *)
(***************************************************************************)
NoDeleting == "delete_route" \notin Command

StepOK == NoHandleTwice' /\ OnItsWayOut' /\ [Life!Next]_life

LEMMA TimersLife ==
  ASSUME LifeInv, TimersStep \/ TimersCrash
  PROVE  StepOK
  <1> USE DEF TimersAt
  <1>1. \A c \in Console : cli[c].pc # "unlink"
    BY DEF LifeInv, OnItsWayOut
  <1>2. ASSUME routes_ll' = routes_ll, route' = route
        PROVE  NoHandleTwice' /\ [Life!Next]_life
    <2>1. \A h \in Handle : SameKind(h)
      BY <1>2 DEF SameKind
    <2> QED
      BY <1>2, <2>1, LifeSameAll DEF LifeInv, NoHandleTwice
  <1>3. timers \in TimersState /\ TableOK
    BY DEF LifeInv, Inv, TypeOK, TableOK
  <1>4. CASE TimersStart \/ TimersSleep \/ TimersNext \/ TimersCrash
    <2>1. routes_ll' = routes_ll /\ route' = route /\ cli' = cli
      BY <1>4 DEF TimersStart, TimersSleep, TimersNext, TimersCrash, tableVars
    <2>2. timers'.pc \notin {"find", "unlink"}
      BY <1>3, <1>4
         DEF TimersStart, TimersSleep, TimersNext, TimersCrash, TimersState, IdleTimers
    <2>3. OnItsWayOut'
      BY <1>1, <2>1, <2>2 DEF OnItsWayOut
    <2> QED
      BY <1>2, <2>1, <2>3 DEF StepOK
  <1>5. CASE TimersVisit
    <2>1. timers.curr \in Handle /\ routes_ll' = routes_ll /\ cli' = cli
      BY <1>3, <1>5 DEF TimersVisit, TimersState
    <2>2. SetFlush(timers.curr) \/ SetInvalid(timers.curr) \/ UNCHANGED route
      BY <1>5 DEF TimersVisit, NothingDue
    <2>3. [Life!Next]_life
      BY <2>1, <2>2, CheckLife
    <2>4. \/ timers'.pc = "next"
          \/ /\ timers'.pc = "find" /\ timers'.curr = timers.curr
             /\ Expired(timers.curr) /\ route' = route
      BY <1>3, <1>5 DEF TimersVisit, TimersState
    <2>5. OnItsWayOut'
      BY <1>1, <2>1, <2>4 DEF OnItsWayOut, Expired, Learned, Flush
    <2> QED
      BY <2>1, <2>3, <2>5 DEF StepOK, LifeInv, NoHandleTwice
  <1>6. CASE TimersFind
    <2> DEFINE h == timers.curr
               k == PositionByRoute(h)
    <2>1. routes_ll' = routes_ll /\ route' = route /\ cli' = cli
      BY <1>6 DEF TimersFind, tableVars
    <2>2. /\ timers'.pc = IF k = 0 THEN "next" ELSE "unlink"
          /\ timers'.idx = k
          /\ timers'.curr = h
      BY <1>3, <1>6 DEF TimersFind, TimersState
    <2>3. Learned(h) /\ Flush(h)
      BY <1>6 DEF TimersFind, LifeInv, OnItsWayOut
    <2>4. k # 0 => k \in DOMAIN routes_ll /\ routes_ll[k] = h
      BY DEF PositionByRoute, Listed
    <2>5. OnItsWayOut'
      BY <1>1, <2>1, <2>2, <2>3, <2>4 DEF OnItsWayOut, Learned, Flush
    <2> QED
      BY <1>2, <2>1, <2>5 DEF StepOK
  <1>7. CASE TimersUnlink
    <2>1. /\ timers.idx \in DOMAIN routes_ll
          /\ routes_ll[timers.idx] = timers.curr
          /\ Learned(timers.curr) /\ Flush(timers.curr)
          /\ LL_delete(timers.idx)
      BY <1>7 DEF TimersUnlink, LifeInv, OnItsWayOut
    <2>2. timers.curr \in Handle
      BY <1>7 DEF TimersUnlink, LifeInv, Inv, InHands, TypeOK, TimersState
    <2>3. NoHandleTwice' /\ Life!Next
      BY <2>1, <2>2, DeleteLife
    <2>4. timers'.pc = "next" /\ cli' = cli
      BY <1>3, <1>7 DEF TimersUnlink, TimersState
    <2>5. OnItsWayOut'
      BY <1>1, <2>4 DEF OnItsWayOut
    <2> QED
      BY <2>3, <2>5 DEF StepOK
  <1> QED
    BY <1>4, <1>5, <1>6, <1>7 DEF TimersStep

LEMMA SameLife ==
  ASSUME LifeInv, TimersUntouched, routes_ll' = routes_ll,
         \A h \in Handle : SameKind(h),
         \A c \in Console : cli'[c].pc # "unlink"
  PROVE  StepOK
  BY OutSame, LifeSameAll DEF StepOK

LEMMA AddsLife ==
  ASSUME LifeInv, TimersUntouched, NEW h \in FreshHandle,
         NEW network \in Addr, NEW mask \in 0 .. W, NEW p \in Port,
         NEW ad \in {DIRECTLY_CONNECTED_AD, STATIC_AD, RIP_AD},
         NEW flags \in {{}, {"DB"}},
         add_route(h, network, mask, p, ad, flags),
         \A c \in Console : cli'[c].pc # "unlink"
  PROVE  StepOK
  BY OutAdd, AddLife DEF StepOK

LEMMA ListenersLife ==
  ASSUME LifeInv, NEW p \in Port, RipResponse(p) \/ ListenerStep(p)
  PROVE  StepOK
  <1>1. cli' = cli /\ TimersUntouched
    BY DEF RipResponse, ListenerStep, ListenerSearch, ListenerApply, TimersUntouched
  <1>2. \A c \in Console : cli'[c].pc # "unlink"
    BY <1>1 DEF LifeInv, OnItsWayOut
  <1>3. CASE RipResponse(p) \/ ListenerSearch(p)
    <2>1. routes_ll' = routes_ll /\ \A h \in Handle : SameKind(h)
      BY <1>3 DEF RipResponse, ListenerSearch, tableVars, SameKind
    <2> QED
      BY <1>1, <1>2, <2>1, SameLife
  <1>4. CASE ListenerApply(p)
    <2> DEFINE e == EntryInHand(p)
               r == listener[p].r
    <2>1. e \in Entry
      BY <1>4, EntryInHandType DEF LifeInv, Inv, InHands, ListenerApply
    <2>2. mask_to_prefix(e.mask) \in 0 .. W
      BY PrefixInRange
    <2>3. IF r # NoRoute THEN RefreshRoute(r, e) ELSE LearnRoute(p, e)
      BY <1>4 DEF ListenerApply
    <2>4. r \in Handle \cup {NoRoute} /\ route \in [Handle -> Route]
      BY DEF LifeInv, Inv, TypeOK, ListenerState, TableTypeOK
    <2> HIDE DEF e, r
    <2>5. CASE r # NoRoute
      <3>1. routes_ll' = routes_ll /\ \A h \in Handle : SameKind(h)
        BY <2>3, <2>4, <2>5 DEF RefreshRoute, SameKind, Route
      <3> QED
        BY <1>1, <1>2, <3>1, SameLife
    <2>6. CASE r = NoRoute
      <3>1. PICK h \in FreshHandle :
              add_route(h, e.ip, mask_to_prefix(e.mask), p, RIP_AD, {})
        BY <2>3, <2>6 DEF LearnRoute
      <3>2. e.ip \in Addr
        BY <2>1 DEF Entry
      <3> QED
        BY <1>1, <1>2, <2>2, <3>1, <3>2, AddsLife
    <2> QED
      BY <2>5, <2>6
  <1> QED
    BY <1>3, <1>4 DEF ListenerStep

LEMMA ConsolesLife ==
  ASSUME LifeInv, NoDeleting, NEW c \in Console,
         AddStaticRoute(c) \/ RipSearch(c) \/ DeleteFind(c) \/ CliStep(c)
  PROVE  StepOK
  <1> USE DEF CliAt
  <1>1. \A d \in Console : cli[d].pc # "unlink"
    BY DEF LifeInv, OnItsWayOut
  <1>2. cli \in [Console -> CliState] /\ route \in [Handle -> Route]
    BY DEF LifeInv, Inv, TypeOK, TableTypeOK
  <1>3. ~ DeleteFind(c) /\ ~ DeleteUnlink(c)
    BY <1>1 DEF NoDeleting, DeleteFind, DeleteUnlink
  <1>4. TimersUntouched
    BY <1>3 DEF AddStaticRoute, RipSearch, CliStep, RipAdd, TimersUntouched
  <1>5. CASE AddStaticRoute(c)
    <2>1. PICK s \in StaticRoute, h \in FreshHandle :
            add_route(h, s.network, s.mask, s.port, STATIC_AD, {})
      BY <1>5 DEF AddStaticRoute
    <2>2. s.network \in Addr /\ s.mask \in 0 .. W /\ s.port \in Port
      BY RipAssumption
    <2>3. \A d \in Console : cli'[d].pc # "unlink"
      BY <1>1, <1>5 DEF AddStaticRoute
    <2> QED
      BY <1>4, <2>1, <2>2, <2>3, AddsLife
  <1>6. CASE RipSearch(c)
    <2>1. routes_ll' = routes_ll /\ \A h \in Handle : SameKind(h)
      BY <1>6 DEF RipSearch, tableVars, SameKind
    <2>2. PICK net \in RipNetwork :
            cli' = [cli EXCEPT ![c].pc = "rip",
                               ![c].r = routing_table_search(net), ![c].net = net]
      BY <1>6 DEF RipSearch
    <2>3. \A d \in Console : cli'[d].pc # "unlink"
      BY <1>1, <1>2, <2>2 DEF CliState
    <2> QED
      BY <1>4, <2>1, <2>3, SameLife
  <1>7. CASE RipAdd(c)
    <2>1. cli[c].r \in Handle /\ cli[c].net \in Addr
      BY <1>2, <1>7 DEF RipAdd, CliState, LifeInv, Inv, InHands
    <2>2. route[cli[c].r] \in Route
      BY <1>2, <2>1
    <2>3. PICK h \in FreshHandle :
            add_route(h, cli[c].net, route[cli[c].r].mask,
                      route[cli[c].r].outgoing_interface, RIP_AD, {"DB"})
      BY <1>7 DEF RipAdd
    <2>4. \A d \in Console : cli'[d].pc # "unlink"
      BY <1>1, <1>2, <1>7 DEF RipAdd, IdleCli
    <2> QED
      BY <1>4, <2>1, <2>2, <2>3, <2>4, AddsLife DEF Route
  <1> QED
    BY <1>3, <1>5, <1>6, <1>7 DEF CliStep

LEMMA NextLife ==
  ASSUME LifeInv, NoDeleting, [Next]_vars
  PROVE  StepOK
  <1>1. CASE Tick
    <2>1. route \in [Handle -> Route] /\ timers \in TimersState
      BY DEF LifeInv, Inv, TypeOK, TableTypeOK
    <2>2. routes_ll' = routes_ll /\ \A h \in Handle : SameKind(h)
      BY <1>1, <2>1 DEF Tick, SameKind, Route
    <2>3. TimersUntouched /\ cli' = cli
      BY <1>1, <2>1 DEF Tick, TimersUntouched, TimersState
    <2> QED
      BY <2>2, <2>3, SameLife DEF LifeInv, OnItsWayOut
  <1>2. CASE TimersStep \/ TimersCrash
    BY <1>2, TimersLife
  <1>3. ASSUME NEW p \in RipPort, RipResponse(p) \/ ListenerStep(p)
        PROVE  StepOK
    BY <1>3, ListenersLife, RipAssumption
  <1>4. ASSUME NEW c \in Console,
               AddStaticRoute(c) \/ RipSearch(c) \/ DeleteFind(c) \/ CliStep(c)
        PROVE  StepOK
    BY <1>4, ConsolesLife
  <1>5. CASE UNCHANGED vars
    BY <1>5, SameLife
       DEF vars, tableVars, SameKind, TimersUntouched, LifeInv, OnItsWayOut
  <1> QED
    BY <1>1, <1>2, <1>3, <1>4, <1>5 DEF Next

LEMMA InitLife ==
  ASSUME Init
  PROVE  LifeInv /\ Life!Init
  <1>1. Inv
    BY InitEstablishes
  <1>2. routes_ll = <<C1, C2>> /\ Listed = {C1, C2}
    BY DEF Init, InitTable, Listed
  <1>3. NoHandleTwice
    BY <1>2, RipAssumption DEF NoHandleTwice
  <1>4. OnItsWayOut
    BY DEF Init, OnItsWayOut, IdleTimers, IdleCli
  <1>5. ~ Learned(C1) /\ ~ Learned(C2)
    BY <1>1 DEF Inv, ConnectedFirst, Learned, DIRECTLY_CONNECTED_AD, RIP_AD
  <1>6. \A h \in Handle : LifeOf(h) = IF h \in {C1, C2} THEN "kept" ELSE "free"
    BY <1>2, <1>5 DEF LifeOf
  <1> QED
    BY <1>1, <1>3, <1>4, <1>6 DEF LifeInv, Life!Init

(***************************************************************************)
(* Without delete_route the router's table implements RouteLife: a learned *)
(* route that goes was INVALID and then FLUSH, and nothing else is ever    *)
(* removed, for any number of routes, listeners and consoles.              *)
(***************************************************************************)
THEOREM LifecycleHolds ==
  ASSUME NoDeleting
  PROVE  Spec => Lifecycle
  <1>1. Init => LifeInv /\ Life!Init
    BY InitLife
  <1>2. LifeInv /\ [Next]_vars => LifeInv' /\ [Life!Next]_life
    BY NextLife, NextKeeps, NoDeleting DEF StepOK, LifeInv
  <1> QED
    BY <1>1, <1>2, PTL DEF Spec, Lifecycle, Life!Spec, life

-----------------------------------------------------------------------------

(***************************************************************************)
(* What the routing table learns.  RIP_parse_entry writes the mask of an   *)
(* entry over that of the route it has found, which may be another         *)
(* network's route, found before other threads have run.  If neighbours    *)
(* advertise networks the router's get_subnet leaves as they are, a        *)
(* learned route still covers its own network after every such write; and  *)
(* with one neighbour no network is learned twice.                         *)
(***************************************************************************)
Canonical(e) == get_subnet(e.ip, mask_to_prefix(e.mask)) = e.ip

CanonicalMessages == \A m \in Message : \A i \in DOMAIN m : Canonical(m[i])

OwnNetwork(h) ==
  Learned(h) => get_subnet(route[h].network, route[h].mask) = route[h].network

\* A route in a listener's hands is one its entry was once matched with.
Matched(p) ==
  listener[p].pc = "apply" /\ listener[p].r # NoRoute =>
    \E m \in 0 .. W :
      get_subnet(EntryInHand(p).ip, m) = route[listener[p].r].network

CanonicalTodo(p) == \A i \in DOMAIN listener[p].todo : Canonical(listener[p].todo[i])

LearnInv ==
  /\ Inv
  /\ \A h \in Handle : OwnNetwork(h)
  /\ \A p \in Port : Matched(p) /\ CanonicalTodo(p)

Rest == /\ \A h \in Handle : OwnNetwork(h)
        /\ \A p \in Port : Matched(p) /\ CanonicalTodo(p)

(***************************************************************************)
(* What the timers and the clock leave alone.                              *)
(***************************************************************************)
SameNet(h) ==
  /\ route'[h].network = route[h].network
  /\ route'[h].mask = route[h].mask
  /\ Learned(h)' => Learned(h)

LEMMA RestSame ==
  ASSUME LearnInv, listener' = listener, \A h \in Handle : SameNet(h)
  PROVE  Rest'
  <1>1. \A h \in Handle : OwnNetwork(h)'
    BY DEF LearnInv, OwnNetwork, SameNet, Learned
  <1>2. ASSUME NEW p \in Port
        PROVE  Matched(p)' /\ CanonicalTodo(p)'
    <2>1. Matched(p) /\ CanonicalTodo(p) /\ listener[p].r \in Handle \cup {NoRoute}
      BY DEF LearnInv, Inv, TypeOK, ListenerState
    <2>2. CanonicalTodo(p)'
      BY <2>1 DEF CanonicalTodo
    <2>3. Matched(p)'
      BY <2>1 DEF Matched, SameNet, EntryInHand
    <2> QED
      BY <2>2, <2>3
  <1> QED
    BY <1>1, <1>2 DEF Rest

(***************************************************************************)
(* An addition does not touch a route in anybody's hands.                  *)
(***************************************************************************)
LEMMA RestAdd ==
  ASSUME LearnInv, NEW h \in FreshHandle,
         NEW network, NEW mask, NEW p, NEW ad, NEW flags,
         add_route(h, network, mask, p, ad, flags),
         ad = RIP_AD /\ "DB" \notin flags => get_subnet(network, mask) = network,
         \A q \in Port : \/ listener'[q] = listener[q]
                         \/ listener'[q].pc = "search" /\ CanonicalTodo(q)'
  PROVE  Rest'
  <1>1. route \in [Handle -> Route] /\ h \in Handle
    BY DEF LearnInv, Inv, TypeOK, TableTypeOK, FreshHandle
  <1>2. route' = [route EXCEPT ![h] = NewRoute(network, mask, p, ad, flags)]
    BY DEF add_route, LL_add
  <1>3. ASSUME NEW g \in Handle PROVE OwnNetwork(g)'
    <2>1. CASE g = h
      <3>1. route'[g] = NewRoute(network, mask, p, ad, flags)
        BY <1>1, <1>2, <2>1
      <3> QED
        BY <3>1 DEF OwnNetwork, NewRoute, Learned, FLG_CHK
    <2>2. CASE g # h
      <3>1. route'[g] = route[g] /\ OwnNetwork(g)
        BY <1>1, <1>2, <2>2 DEF LearnInv
      <3> QED
        BY <3>1 DEF OwnNetwork, Learned
    <2> QED
      BY <2>1, <2>2
  <1>4. ASSUME NEW q \in Port PROVE Matched(q)' /\ CanonicalTodo(q)'
    <2>1. CASE listener'[q] = listener[q]
      <3>1. Matched(q) /\ CanonicalTodo(q) /\ listener[q].r \in Handle \cup {NoRoute}
        BY DEF LearnInv, Inv, TypeOK, ListenerState
      <3>2. CanonicalTodo(q)'
        BY <2>1, <3>1 DEF CanonicalTodo
      <3>3. listener[q].r # h
        BY DEF FreshHandle, Held
      <3>4. listener[q].r # NoRoute => route'[listener[q].r] = route[listener[q].r]
        BY <1>1, <1>2, <3>1, <3>3
      <3>5. Matched(q)'
        BY <2>1, <3>1, <3>4 DEF Matched, EntryInHand
      <3> QED
        BY <3>2, <3>5
    <2>2. CASE listener'[q].pc = "search" /\ CanonicalTodo(q)'
      BY <2>2 DEF Matched
    <2> QED
      BY <2>1, <2>2
  <1> QED
    BY <1>3, <1>4 DEF Rest

(***************************************************************************)
(* The mask of a canonical entry, written over that of a route the entry   *)
(* was once matched with, under whatever mask the route then had.          *)
(***************************************************************************)
LEMMA RefreshKeepsOwn ==
  ASSUME NEW e \in Entry, Canonical(e), NEW m \in 0 .. W,
         NEW network, get_subnet(e.ip, m) = network
  PROVE  get_subnet(network, mask_to_prefix(e.mask)) = network
  <1>1. e.ip \in Addr /\ mask_to_prefix(e.mask) \in 0 .. W
    BY PrefixInRange DEF Entry
  <1> QED
    BY <1>1, SubnetsCommute DEF Canonical

LEMMA FrontCanonical ==
  ASSUME LearnInv, NEW p \in Port, listener[p].todo # << >>
  PROVE  /\ Canonical(EntryInHand(p))
         /\ \A i \in DOMAIN Front(listener[p].todo) : Canonical(Front(listener[p].todo)[i])
  <1> DEFINE todo == listener[p].todo
  <1>1. todo \in Seq(Entry) /\ Len(todo) \in Nat \ {0}
    BY DEF LearnInv, Inv, TypeOK, ListenerState
  <1>2. \A i \in 1 .. Len(todo) : Canonical(todo[i])
    BY <1>1 DEF LearnInv, CanonicalTodo
  <1>3. EntryInHand(p) = todo[Len(todo)] /\ Front(todo) = SubSeq(todo, 1, Len(todo) - 1)
    BY DEF EntryInHand, Last, Front
  <1> HIDE DEF todo
  <1>4. \A i \in 1 .. Len(todo) - 1 : todo[i] \in Entry
    BY <1>1
  <1>5. /\ DOMAIN SubSeq(todo, 1, Len(todo) - 1) = 1 .. Len(todo) - 1
        /\ \A i \in 1 .. Len(todo) - 1 : SubSeq(todo, 1, Len(todo) - 1)[i] = todo[i]
    BY <1>1, <1>4, SubSeqProperties
  <1>6. /\ Canonical(todo[Len(todo)])
        /\ \A i \in 1 .. Len(todo) - 1 : Canonical(SubSeq(todo, 1, Len(todo) - 1)[i])
    BY <1>1, <1>2, <1>5
  <1>7. /\ Canonical(EntryInHand(p))
        /\ \A i \in DOMAIN Front(todo) : Canonical(Front(todo)[i])
    BY <1>3, <1>5, <1>6
  <1> QED
    BY <1>7 DEF todo

(***************************************************************************)
(* The steps.                                                              *)
(***************************************************************************)
LEMMA ApplyKeepsRest ==
  ASSUME LearnInv, NEW p \in Port, ListenerApply(p)
  PROVE  Rest'
  <1> DEFINE e == EntryInHand(p)
             r == listener[p].r
             new == [listener[p] EXCEPT !.pc = "search", !.r = NoRoute,
                                        !.todo = Front(listener[p].todo)]
  <1>1. listener[p].todo # << >> /\ listener[p].pc = "apply"
    BY DEF LearnInv, Inv, InHands, ListenerApply
  <1>2. e \in Entry /\ Canonical(e)
    BY <1>1, EntryInHandType, FrontCanonical DEF LearnInv, Inv
  <1>3. IF r # NoRoute THEN RefreshRoute(r, e) ELSE LearnRoute(p, e)
    BY DEF ListenerApply
  <1>4. /\ listener \in [Port -> ListenerState] /\ r \in Handle \cup {NoRoute}
        /\ route \in [Handle -> Route]
    BY DEF LearnInv, Inv, TypeOK, ListenerState, TableTypeOK
  <1>5. listener' = [listener EXCEPT ![p] = new]
    BY DEF ListenerApply
  <1>6. new.pc = "search" /\ new.todo = Front(listener[p].todo)
    BY <1>4 DEF ListenerState
  <1>7. r # NoRoute => \E m \in 0 .. W : get_subnet(e.ip, m) = route[r].network
    BY <1>1 DEF LearnInv, Matched
  <1> HIDE DEF e, r, new
  <1>8. ASSUME NEW q \in Port
        PROVE  \/ listener'[q] = listener[q]
               \/ listener'[q].pc = "search" /\ CanonicalTodo(q)'
    <2>1. CASE q = p
      <3>1. listener'[q] = new
        BY <1>4, <1>5, <2>1
      <3>2. CanonicalTodo(q)'
        BY <1>1, <1>6, <3>1, FrontCanonical DEF CanonicalTodo
      <3> QED
        BY <1>6, <3>1, <3>2
    <2>2. CASE q # p
      BY <1>4, <1>5, <2>2
    <2> QED
      BY <2>1, <2>2
  <1>9. CASE r = NoRoute
    <2>1. PICK h \in FreshHandle :
            add_route(h, e.ip, mask_to_prefix(e.mask), p, RIP_AD, {})
      BY <1>3, <1>9 DEF LearnRoute
    <2>2. get_subnet(e.ip, mask_to_prefix(e.mask)) = e.ip
      BY <1>2 DEF Canonical
    <2> QED
      BY <1>8, <2>1, <2>2, RestAdd
  <1>10. CASE r # NoRoute
    <2>1. r \in Handle
      BY <1>4, <1>10
    <2>2. PICK m \in 0 .. W : get_subnet(e.ip, m) = route[r].network
      BY <1>7, <1>10
    <2>3. get_subnet(route[r].network, mask_to_prefix(e.mask)) = route[r].network
      BY <1>2, <2>2, RefreshKeepsOwn
    <2>4. route' = IF route[r].ad = RIP_AD
                   THEN [route EXCEPT ![r].age = 0, ![r].metric = NewMetric(e.metric),
                                      ![r].mask = mask_to_prefix(e.mask)]
                   ELSE route
      BY <1>3, <1>10 DEF RefreshRoute
    <2>5. \A h \in Handle : /\ route'[h].network = route[h].network
                            /\ route'[h].ad = route[h].ad
                            /\ route'[h].flags = route[h].flags
                            /\ \/ route'[h].mask = route[h].mask
                               \/ h = r /\ route'[h].mask = mask_to_prefix(e.mask)
      BY <1>4, <2>1, <2>4 DEF Route
    <2>6. ASSUME NEW h \in Handle PROVE OwnNetwork(h)'
      <3>1. OwnNetwork(h)
        BY DEF LearnInv
      <3>2. Learned(h)' <=> Learned(h)
        BY <2>5 DEF Learned
      <3>3. Learned(h) => get_subnet(route'[h].network, route'[h].mask) = route'[h].network
        BY <2>3, <2>5, <3>1 DEF OwnNetwork
      <3> QED
        BY <3>2, <3>3 DEF OwnNetwork
    <2>7. ASSUME NEW q \in Port PROVE Matched(q)' /\ CanonicalTodo(q)'
      <3>1. Matched(q) /\ CanonicalTodo(q) /\ listener[q].r \in Handle \cup {NoRoute}
        BY DEF LearnInv, Inv, TypeOK, ListenerState
      <3>2. CASE listener'[q] = listener[q]
        <4>1. CanonicalTodo(q)'
          BY <3>1, <3>2 DEF CanonicalTodo
        <4>2. Matched(q)'
          BY <2>5, <3>1, <3>2 DEF Matched, EntryInHand
        <4> QED
          BY <4>1, <4>2
      <3>3. CASE listener'[q].pc = "search" /\ CanonicalTodo(q)'
        BY <3>3 DEF Matched
      <3> QED
        BY <1>8, <3>2, <3>3
    <2> QED
      BY <2>6, <2>7 DEF Rest
  <1> QED
    BY <1>9, <1>10

LEMMA ResponseKeepsRest ==
  ASSUME LearnInv, CanonicalMessages, NEW p \in Port, RipResponse(p)
  PROVE  Rest'
  <1>1. PICK m \in Message : listener' = [listener EXCEPT ![p].todo = m]
    BY DEF RipResponse
  <1>2. listener \in [Port -> ListenerState] /\ listener[p].pc = "search"
    BY DEF LearnInv, Inv, TypeOK, RipResponse, IdleListener
  <1>3. route' = route
    BY DEF RipResponse, tableVars
  <1>4. ASSUME NEW q \in Port PROVE Matched(q)' /\ CanonicalTodo(q)'
    <2>1. Matched(q) /\ CanonicalTodo(q)
      BY DEF LearnInv
    <2>2. CASE q = p
      <3>1. listener'[q].pc = "search" /\ listener'[q].todo = m
        BY <1>1, <1>2, <2>2 DEF ListenerState
      <3>2. CanonicalTodo(q)'
        BY <3>1 DEF CanonicalMessages, CanonicalTodo
      <3> QED
        BY <3>1, <3>2 DEF Matched
    <2>3. CASE q # p
      <3>1. listener'[q] = listener[q]
        BY <1>1, <1>2, <2>3
      <3> QED
        BY <1>3, <2>1, <3>1 DEF Matched, CanonicalTodo, EntryInHand
    <2> QED
      BY <2>2, <2>3
  <1>5. ASSUME NEW h \in Handle PROVE OwnNetwork(h)'
    BY <1>3 DEF LearnInv, OwnNetwork, Learned
  <1> QED
    BY <1>4, <1>5 DEF Rest

LEMMA SearchKeepsRest ==
  ASSUME LearnInv, NEW p \in Port, ListenerSearch(p)
  PROVE  Rest'
  <1> DEFINE found == routing_table_search(EntryInHand(p).ip)
             new   == [listener[p] EXCEPT !.pc = "apply", !.r = found]
  <1>1. listener' = [listener EXCEPT ![p] = new]
    BY DEF ListenerSearch
  <1>2. listener \in [Port -> ListenerState] /\ TableTypeOK
    BY DEF LearnInv, Inv, TypeOK
  <1>3. new.todo = listener[p].todo /\ new.r = found
    BY <1>2 DEF ListenerState
  <1>4. route' = route
    BY DEF ListenerSearch, tableVars
  <1>5. found # NoRoute =>
          found \in Handle /\ get_subnet(EntryInHand(p).ip, route[found].mask) = route[found].network
    BY <1>2, SearchFinds DEF Covers, belongs_to_subnet, Listed, TableTypeOK
  <1>6. found # NoRoute => route[found].mask \in 0 .. W
    BY <1>2, <1>5 DEF TableTypeOK, Route
  <1> HIDE DEF found, new
  <1>7. ASSUME NEW q \in Port PROVE Matched(q)' /\ CanonicalTodo(q)'
    <2>1. Matched(q) /\ CanonicalTodo(q)
      BY DEF LearnInv
    <2>2. CASE q = p
      <3>1. listener'[q] = new
        BY <1>1, <1>2, <2>2
      <3>2. CanonicalTodo(q)' /\ EntryInHand(q)' = EntryInHand(p)
        BY <1>3, <2>1, <2>2, <3>1 DEF CanonicalTodo, EntryInHand
      <3> QED
        BY <1>3, <1>4, <1>5, <1>6, <3>1, <3>2 DEF Matched
    <2>3. CASE q # p
      <3>1. listener'[q] = listener[q]
        BY <1>1, <1>2, <2>3
      <3> QED
        BY <1>4, <2>1, <3>1 DEF Matched, CanonicalTodo, EntryInHand
    <2> QED
      BY <2>2, <2>3
  <1>8. ASSUME NEW h \in Handle PROVE OwnNetwork(h)'
    BY <1>4 DEF LearnInv, OwnNetwork, Learned
  <1> QED
    BY <1>7, <1>8 DEF Rest

LEMMA TimersKeepRest ==
  ASSUME LearnInv, TimersStep \/ TimersCrash \/ Tick
  PROVE  Rest'
  <1>1. listener' = listener
    BY DEF TimersStep, TimersStart, TimersSleep, TimersVisit, TimersFind,
           TimersUnlink, TimersNext, TimersCrash, Tick
  <1>2. route \in [Handle -> Route] /\ timers.curr \in Handle \cup {NoRoute}
    BY DEF LearnInv, Inv, TypeOK, TableTypeOK, TimersState
  <1>3. CASE UNCHANGED route
    BY <1>1, <1>3, RestSame DEF SameNet, Learned
  <1>4. CASE TimersVisit
    <2>1. timers.curr \in Handle
      BY <1>2, <1>4 DEF TimersVisit
    <2>2. SetFlush(timers.curr) \/ SetInvalid(timers.curr) \/ UNCHANGED route
      BY <1>4 DEF TimersVisit, NothingDue
    <2>3. CASE SetFlush(timers.curr) \/ SetInvalid(timers.curr)
      <3>1. \A h \in Handle : SameNet(h)
        BY <1>2, <2>1, <2>3
           DEF SetFlush, SetInvalid, SameNet, Learned, Route, FLG_CHK, FLG_ADD, FLG_RM
      <3> QED
        BY <1>1, <3>1, RestSame
    <2> QED
      BY <1>3, <2>2, <2>3
  <1>5. CASE Tick
    <2>1. \A h \in Handle : SameNet(h)
      BY <1>2, <1>5 DEF Tick, SameNet, Learned, Route
    <2> QED
      BY <1>1, <2>1, RestSame
  <1>6. CASE TimersUnlink
    BY <1>3, <1>6 DEF TimersUnlink, LL_delete, tableVars
  <1>7. CASE TimersStart \/ TimersSleep \/ TimersFind \/ TimersNext \/ TimersCrash
    BY <1>3, <1>7 DEF TimersStart, TimersSleep, TimersFind, TimersNext, TimersCrash,
                      tableVars
  <1> QED
    BY <1>4, <1>5, <1>6, <1>7 DEF TimersStep

LEMMA ConsolesKeepRest ==
  ASSUME LearnInv, NEW c \in Console,
         AddStaticRoute(c) \/ RipSearch(c) \/ DeleteFind(c) \/ CliStep(c)
  PROVE  Rest'
  <1>1. listener' = listener
    BY DEF AddStaticRoute, RipSearch, DeleteFind, CliStep, RipAdd, DeleteUnlink
  <1>2. CASE AddStaticRoute(c)
    <2>1. PICK s \in StaticRoute, h \in FreshHandle :
            add_route(h, s.network, s.mask, s.port, STATIC_AD, {})
      BY <1>2 DEF AddStaticRoute
    <2> QED
      BY <1>1, <2>1, RestAdd DEF STATIC_AD, RIP_AD
  <1>3. CASE RipAdd(c)
    <2>1. PICK h \in FreshHandle :
            add_route(h, cli[c].net, route[cli[c].r].mask,
                      route[cli[c].r].outgoing_interface, RIP_AD, {"DB"})
      BY <1>3 DEF RipAdd
    <2> QED
      BY <1>1, <2>1, RestAdd
  <1>4. CASE RipSearch(c) \/ DeleteFind(c) \/ DeleteUnlink(c)
    <2>1. UNCHANGED route
      BY <1>4 DEF RipSearch, DeleteFind, DeleteUnlink, LL_delete, tableVars
    <2> QED
      BY <1>1, <2>1, RestSame DEF SameNet, Learned
  <1> QED
    BY <1>2, <1>3, <1>4 DEF CliStep

LEMMA NextKeepsLearnInv ==
  ASSUME CanonicalMessages, LearnInv, [Next]_vars
  PROVE  LearnInv'
  <1>1. Inv'
    BY NextKeeps DEF LearnInv
  <1>2. CASE Tick \/ TimersStep \/ TimersCrash
    BY <1>1, <1>2, TimersKeepRest DEF LearnInv, Rest
  <1>3. ASSUME NEW p \in RipPort, RipResponse(p) \/ ListenerStep(p)
        PROVE  LearnInv'
    <2>1. p \in Port
      BY RipAssumption
    <2>2. Rest'
      BY <1>3, <2>1, ResponseKeepsRest, SearchKeepsRest, ApplyKeepsRest DEF ListenerStep
    <2> QED
      BY <1>1, <2>2 DEF LearnInv, Rest
  <1>4. ASSUME NEW c \in Console,
               AddStaticRoute(c) \/ RipSearch(c) \/ DeleteFind(c) \/ CliStep(c)
        PROVE  LearnInv'
    BY <1>1, <1>4, ConsolesKeepRest DEF LearnInv, Rest
  <1>5. CASE UNCHANGED vars
    <2>1. Rest'
      BY <1>5, RestSame DEF vars, tableVars, SameNet, Learned
    <2> QED
      BY <1>1, <2>1 DEF LearnInv, Rest
  <1> QED
    BY <1>2, <1>3, <1>4, <1>5 DEF Next

LEMMA InitLearnInv ==
  ASSUME Init
  PROVE  LearnInv
  <1>1. Inv
    BY InitEstablishes
  <1>2. \A h \in Handle : ~ Learned(h)
    BY DEF Init, InitTable, Connected, NewRoute, Learned, DIRECTLY_CONNECTED_AD, RIP_AD
  <1>3. \A p \in Port : listener[p] = IdleListener
    BY DEF Init
  <1> QED
    BY <1>1, <1>2, <1>3
       DEF LearnInv, OwnNetwork, Matched, CanonicalTodo, IdleListener

(***************************************************************************)
(* A learned route covers its own network, for any set of canonical        *)
(* responses, on any number of listeners that overwrite each other's masks.*)
(***************************************************************************)
THEOREM LearnedRoutesCoverThemselves ==
  ASSUME CanonicalMessages
  PROVE  Spec => []SelfCovered
  <1>1. Init => LearnInv
    BY InitLearnInv
  <1>2. LearnInv /\ [Next]_vars => LearnInv'
    BY NextKeepsLearnInv, CanonicalMessages
  <1>3. LearnInv => SelfCovered
    <2> SUFFICES ASSUME LearnInv, NEW h \in Listed, Learned(h)
                 PROVE  Covers(h, route[h].network)
      BY DEF SelfCovered
    <2>1. h \in Handle
      BY DEF Listed, LearnInv, Inv, TypeOK, TableTypeOK
    <2>2. get_subnet(route[h].network, route[h].mask) = route[h].network
      BY <2>1 DEF LearnInv, OwnNetwork
    <2> QED
      BY <2>2 DEF Covers, Learned, belongs_to_subnet
  <1> QED
    BY <1>1, <1>2, <1>3, PTL DEF Spec

(***************************************************************************)
(* With one neighbour there is one listener that adds learned routes.  An  *)
(* entry it has found no route for is still unknown when it is added,      *)
(* whatever the timers and the consoles have done since the search.        *)
(***************************************************************************)
OneNeighbour == \A p, q \in RipPort : p = q

Unknown(p) ==
  listener[p].pc = "apply" /\ listener[p].r = NoRoute =>
    \A h \in Listed : Learned(h) => route[h].network # EntryInHand(p).ip

OnceRest == LearnedOnce /\ \A p \in RipPort : Unknown(p)

OnceInv == LearnInv /\ OnceRest

\* A step after which only what was learned before is learned.
NoneLearned ==
  \A h \in Listed' : Learned(h)' =>
    h \in Listed /\ Learned(h) /\ route'[h].network = route[h].network

LEMMA OnceKept ==
  ASSUME OnceInv, NoneLearned,
         \A q \in RipPort : listener'[q] = listener[q] \/ listener'[q].pc = "search"
  PROVE  OnceRest'
  <1>1. LearnedOnce'
    BY DEF OnceInv, OnceRest, LearnedOnce, NoneLearned
  <1>2. ASSUME NEW q \in RipPort PROVE Unknown(q)'
    <2>1. Unknown(q)
      BY DEF OnceInv, OnceRest
    <2>2. CASE listener'[q] = listener[q]
      <3>1. EntryInHand(q)' = EntryInHand(q)
        BY <2>2 DEF EntryInHand
      <3> QED
        BY <2>1, <2>2, <3>1 DEF Unknown, NoneLearned
    <2>3. CASE listener'[q].pc = "search"
      BY <2>3 DEF Unknown
    <2> QED
      BY <2>2, <2>3
  <1> QED
    BY <1>1, <1>2 DEF OnceRest

LEMMA AddOther ==
  ASSUME Inv, NEW h \in FreshHandle,
         NEW network, NEW mask, NEW p, NEW ad, NEW flags,
         add_route(h, network, mask, p, ad, flags),
         ad # RIP_AD \/ "DB" \in flags
  PROVE  NoneLearned
  <1>1. TableTypeOK /\ h \in Handle
    BY DEF Inv, TypeOK, FreshHandle
  <1>2. Listed' \subseteq Listed \cup {h}
    BY <1>1, ListedAfterAdd DEF add_route
  <1>3. route' = [route EXCEPT ![h] = NewRoute(network, mask, p, ad, flags)]
    BY DEF add_route
  <1>4. ~ Learned(h)'
    <2>1. route'[h] = NewRoute(network, mask, p, ad, flags)
      BY <1>1, <1>3 DEF TableTypeOK
    <2> QED
      BY <2>1 DEF NewRoute, Learned, FLG_CHK
  <1>5. \A g \in Listed : g # h => route'[g] = route[g]
    BY <1>1, <1>3 DEF TableTypeOK, Listed
  <1> QED
    BY <1>2, <1>4, <1>5 DEF NoneLearned, Learned

LEMMA TimersLearnNothing ==
  ASSUME Inv, TimersStep \/ TimersCrash \/ Tick
  PROVE  NoneLearned /\ listener' = listener
  <1>1. listener' = listener
    BY DEF TimersStep, TimersStart, TimersSleep, TimersVisit, TimersFind,
           TimersUnlink, TimersNext, TimersCrash, Tick
  <1>2. route \in [Handle -> Route] /\ Listed \subseteq Handle
    BY DEF Inv, TypeOK, TableTypeOK, Listed
  <1>3. CASE UNCHANGED route /\ Listed' \subseteq Listed
    BY <1>1, <1>3 DEF NoneLearned, Learned
  <1>4. CASE TimersVisit
    <2>1. timers.curr \in Handle /\ Listed' = Listed
      BY <1>4 DEF TimersVisit, Inv, TypeOK, TimersState, Listed
    <2>2. SetFlush(timers.curr) \/ SetInvalid(timers.curr) \/ UNCHANGED route
      BY <1>4 DEF TimersVisit, NothingDue
    <2>3. CASE SetFlush(timers.curr) \/ SetInvalid(timers.curr)
      <3>1. \A h \in Handle : /\ route'[h].network = route[h].network
                              /\ Learned(h)' => Learned(h)
        BY <1>2, <2>1, <2>3
           DEF SetFlush, SetInvalid, Learned, Route, FLG_CHK, FLG_ADD, FLG_RM
      <3> QED
        BY <1>1, <1>2, <2>1, <3>1 DEF NoneLearned
    <2> QED
      BY <1>3, <2>1, <2>2, <2>3
  <1>5. CASE Tick
    <2>1. \A h \in Handle : /\ route'[h].network = route[h].network
                            /\ Learned(h)' => Learned(h)
      BY <1>2, <1>5 DEF Tick, Learned, Route
    <2>2. Listed' = Listed
      BY <1>5 DEF Tick, Listed
    <2> QED
      BY <1>1, <1>2, <2>1, <2>2 DEF NoneLearned
  <1>6. CASE TimersUnlink
    <2>1. LL_delete(timers.idx)
      BY <1>6 DEF TimersUnlink
    <2>2. Listed' \subseteq Listed
      BY <2>1, ListedAfterDelete DEF Inv, TypeOK
    <2> QED
      BY <1>3, <2>1, <2>2 DEF LL_delete, tableVars
  <1>7. CASE TimersStart \/ TimersSleep \/ TimersFind \/ TimersNext \/ TimersCrash
    BY <1>3, <1>7 DEF TimersStart, TimersSleep, TimersFind, TimersNext, TimersCrash,
                      tableVars, Listed
  <1> QED
    BY <1>1, <1>4, <1>5, <1>6, <1>7 DEF TimersStep

LEMMA ConsolesLearnNothing ==
  ASSUME Inv, NEW c \in Console,
         AddStaticRoute(c) \/ RipSearch(c) \/ DeleteFind(c) \/ CliStep(c)
  PROVE  NoneLearned /\ listener' = listener
  <1>1. listener' = listener
    BY DEF AddStaticRoute, RipSearch, DeleteFind, CliStep, RipAdd, DeleteUnlink
  <1>2. CASE AddStaticRoute(c)
    <2>1. PICK s \in StaticRoute, h \in FreshHandle :
            add_route(h, s.network, s.mask, s.port, STATIC_AD, {})
      BY <1>2 DEF AddStaticRoute
    <2> QED
      BY <1>1, <2>1, AddOther DEF STATIC_AD, RIP_AD
  <1>3. CASE RipAdd(c)
    <2>1. PICK h \in FreshHandle :
            add_route(h, cli[c].net, route[cli[c].r].mask,
                      route[cli[c].r].outgoing_interface, RIP_AD, {"DB"})
      BY <1>3 DEF RipAdd
    <2> QED
      BY <1>1, <2>1, AddOther
  <1>4. CASE RipSearch(c) \/ DeleteFind(c)
    BY <1>1, <1>4 DEF RipSearch, DeleteFind, tableVars, Listed, NoneLearned, Learned
  <1>5. CASE DeleteUnlink(c)
    <2>1. LL_delete(cli[c].idx)
      BY <1>5 DEF DeleteUnlink
    <2>2. Listed' \subseteq Listed
      BY <2>1, ListedAfterDelete DEF Inv, TypeOK
    <2>3. UNCHANGED route
      BY <2>1 DEF LL_delete, tableVars
    <2> QED
      BY <1>1, <2>2, <2>3 DEF NoneLearned, Learned
  <1> QED
    BY <1>2, <1>3, <1>4, <1>5 DEF CliStep

(***************************************************************************)
(* The one listener.                                                       *)
(***************************************************************************)
LEMMA SearchFindsUnknown ==
  ASSUME OnceInv, OneNeighbour, NEW p \in RipPort, ListenerSearch(p)
  PROVE  OnceRest'
  <1> DEFINE found == routing_table_search(EntryInHand(p).ip)
             new   == [listener[p] EXCEPT !.pc = "apply", !.r = found]
  <1>1. /\ listener \in [Port -> ListenerState] /\ TableTypeOK
        /\ p \in Port /\ \A h \in Listed : h \in Handle
    BY RipAssumption DEF OnceInv, LearnInv, Inv, TypeOK, TableTypeOK, Listed
  <1>2. listener' = [listener EXCEPT ![p] = new]
    BY DEF ListenerSearch
  <1>3. new.todo = listener[p].todo /\ new.r = found
    BY <1>1 DEF ListenerState
  <1>4. UNCHANGED <<routes_ll, route>>
    BY DEF ListenerSearch, tableVars
  <1>5. found = NoRoute => \A h \in Listed : ~ Covers(h, EntryInHand(p).ip)
    BY <1>1, SearchFinds
  <1> HIDE DEF found, new
  <1>6. listener'[p] = new
    BY <1>1, <1>2
  <1>7. EntryInHand(p)' = EntryInHand(p)
    BY <1>3, <1>6 DEF EntryInHand
  <1>8. \A h \in Listed : Learned(h) => Covers(h, route[h].network)
    <2> SUFFICES ASSUME NEW h \in Listed, Learned(h) PROVE Covers(h, route[h].network)
      OBVIOUS
    <2>1. get_subnet(route[h].network, route[h].mask) = route[h].network
      BY <1>1 DEF OnceInv, LearnInv, OwnNetwork
    <2> QED
      BY <2>1 DEF Covers, Learned, belongs_to_subnet
  <1>9. Unknown(p)'
    <2> SUFFICES ASSUME found = NoRoute, NEW h \in Listed, Learned(h)
                 PROVE  route[h].network # EntryInHand(p).ip
      BY <1>3, <1>4, <1>6, <1>7 DEF Unknown, Listed, Learned
    <2> QED
      BY <1>5, <1>8
  <1>10. \A q \in RipPort : Unknown(q)'
    BY <1>9 DEF OneNeighbour
  <1>11. LearnedOnce'
    BY <1>4 DEF OnceInv, OnceRest, LearnedOnce, Listed, Learned
  <1> QED
    BY <1>10, <1>11 DEF OnceRest

LEMMA ApplyLearnsUnknown ==
  ASSUME OnceInv, OneNeighbour, NEW p \in RipPort, ListenerApply(p)
  PROVE  OnceRest'
  <1> DEFINE e == EntryInHand(p)
             r == listener[p].r
             new == [listener[p] EXCEPT !.pc = "search", !.r = NoRoute,
                                        !.todo = Front(listener[p].todo)]
  <1>1. /\ listener \in [Port -> ListenerState] /\ TableTypeOK
        /\ route \in [Handle -> Route] /\ Listed \subseteq Handle
        /\ p \in Port /\ r \in Handle \cup {NoRoute}
    BY RipAssumption DEF OnceInv, LearnInv, Inv, TypeOK, TableTypeOK, Listed, ListenerState
  <1>2. listener' = [listener EXCEPT ![p] = new]
    BY DEF ListenerApply
  <1>3. new.pc = "search"
    BY <1>1 DEF ListenerState
  <1>4. IF r # NoRoute THEN RefreshRoute(r, e) ELSE LearnRoute(p, e)
    BY DEF ListenerApply
  <1>5. r = NoRoute => \A h \in Listed : Learned(h) => route[h].network # e.ip
    BY DEF OnceInv, OnceRest, Unknown, ListenerApply
  <1> HIDE DEF e, r, new
  <1>6. listener'[p].pc = "search"
    BY <1>1, <1>2, <1>3
  <1>7. \A q \in RipPort : listener'[q].pc = "search"
    BY <1>6 DEF OneNeighbour
  <1>8. CASE r # NoRoute
    <2>1. routes_ll' = routes_ll
      BY <1>4, <1>8 DEF RefreshRoute
    <2>2. \A h \in Handle : /\ route'[h].network = route[h].network
                            /\ route'[h].ad = route[h].ad
                            /\ route'[h].flags = route[h].flags
      BY <1>1, <1>4, <1>8 DEF RefreshRoute, Route
    <2>3. NoneLearned
      BY <1>1, <2>1, <2>2 DEF NoneLearned, Listed, Learned
    <2> QED
      BY <1>7, <2>3, OnceKept
  <1>9. CASE r = NoRoute
    <2>1. PICK h \in FreshHandle :
            add_route(h, e.ip, mask_to_prefix(e.mask), p, RIP_AD, {})
      BY <1>4, <1>9 DEF LearnRoute
    <2>2. h \in Handle /\ h \notin Listed
      BY DEF FreshHandle
    <2>3. Listed' \subseteq Listed \cup {h}
      BY <1>1, <2>1, <2>2, ListedAfterAdd DEF add_route
    <2>4. route' = [route EXCEPT ![h] = NewRoute(e.ip, mask_to_prefix(e.mask), p, RIP_AD, {})]
      BY <2>1 DEF add_route
    <2>5. route'[h].network = e.ip
      BY <1>1, <2>2, <2>4 DEF NewRoute
    <2>6. \A g \in Listed : route'[g] = route[g]
      BY <1>1, <2>2, <2>4
    <2>7. ASSUME NEW f \in Listed', NEW g \in Listed', Learned(f)', Learned(g)',
                 route'[f].network = route'[g].network
          PROVE  f = g
      <3>1. \A k \in Listed : /\ Learned(k)' <=> Learned(k)
                              /\ route'[k].network = route[k].network
        BY <2>6 DEF Learned
      <3>2. \A k \in Listed : Learned(k)' => route'[k].network # e.ip
        BY <1>5, <1>9, <3>1
      <3>3. CASE f = h \/ g = h
        BY <2>3, <2>5, <2>7, <3>2, <3>3
      <3>4. CASE f \in Listed /\ g \in Listed
        BY <2>7, <3>1, <3>4 DEF OnceInv, OnceRest, LearnedOnce
      <3> QED
        BY <2>3, <3>3, <3>4
    <2>8. LearnedOnce'
      BY <2>7 DEF LearnedOnce
    <2> QED
      BY <1>7, <2>8 DEF OnceRest, Unknown
  <1> QED
    BY <1>8, <1>9

LEMMA NextKeepsOnce ==
  ASSUME CanonicalMessages, OneNeighbour, OnceInv, [Next]_vars
  PROVE  OnceInv'
  <1>1. LearnInv' /\ Inv
    BY NextKeepsLearnInv DEF OnceInv, LearnInv
  <1>2. CASE Tick \/ TimersStep \/ TimersCrash
    BY <1>1, <1>2, TimersLearnNothing, OnceKept DEF OnceInv
  <1>3. ASSUME NEW p \in RipPort, RipResponse(p) \/ ListenerStep(p)
        PROVE  OnceInv'
    <2>1. CASE RipResponse(p)
      <3>1. NoneLearned
        BY <2>1 DEF RipResponse, tableVars, NoneLearned, Listed, Learned
      <3>2. PICK m \in Message : listener' = [listener EXCEPT ![p].todo = m]
        BY <2>1 DEF RipResponse
      <3>3. listener \in [Port -> ListenerState] /\ p \in Port
        BY <1>1, RipAssumption DEF Inv, TypeOK
      <3>4. listener'[p].pc = "search"
        BY <2>1, <3>2, <3>3 DEF RipResponse, IdleListener, ListenerState
      <3>5. \A q \in RipPort : listener'[q].pc = "search"
        BY <3>4 DEF OneNeighbour
      <3> QED
        BY <1>1, <3>1, <3>5, OnceKept DEF OnceInv
    <2> QED
      BY <1>1, <1>3, <2>1, SearchFindsUnknown, ApplyLearnsUnknown DEF ListenerStep, OnceInv
  <1>4. ASSUME NEW c \in Console,
               AddStaticRoute(c) \/ RipSearch(c) \/ DeleteFind(c) \/ CliStep(c)
        PROVE  OnceInv'
    BY <1>1, <1>4, ConsolesLearnNothing, OnceKept DEF OnceInv
  <1>5. CASE UNCHANGED vars
    <2>1. NoneLearned /\ listener' = listener
      BY <1>5 DEF vars, tableVars, NoneLearned, Listed, Learned
    <2> QED
      BY <1>1, <2>1, OnceKept DEF OnceInv
  <1> QED
    BY <1>2, <1>3, <1>4, <1>5 DEF Next

(***************************************************************************)
(* A network is learned once: RIP_parse_entry adds a route only for an     *)
(* entry that no learned route stands for, with one neighbour that         *)
(* advertises canonical networks, any timers and any number of consoles.   *)
(* (Two listeners may both find nothing and both add.)                     *)
(***************************************************************************)
THEOREM NetworksLearnedOnce ==
  ASSUME CanonicalMessages, OneNeighbour
  PROVE  Spec => []LearnedOnce
  <1>1. Init => OnceInv
    <2> SUFFICES ASSUME Init PROVE OnceInv
      OBVIOUS
    <2>1. \A h \in Handle : ~ Learned(h)
      BY DEF Init, InitTable, Connected, NewRoute, Learned, DIRECTLY_CONNECTED_AD, RIP_AD
    <2>2. Listed \subseteq Handle
      BY InitEstablishes DEF Inv, TypeOK, TableTypeOK, Listed
    <2> QED
      BY <2>1, <2>2, InitLearnInv DEF OnceInv, OnceRest, LearnedOnce, Unknown
  <1>2. OnceInv /\ [Next]_vars => OnceInv'
    BY NextKeepsOnce, CanonicalMessages, OneNeighbour
  <1>3. OnceInv => LearnedOnce
    BY DEF OnceInv, OnceRest
  <1> QED
    BY <1>1, <1>2, <1>3, PTL DEF Spec
=============================================================================
