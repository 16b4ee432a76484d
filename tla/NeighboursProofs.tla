-------------------------- MODULE NeighboursProofs --------------------------
(***************************************************************************)
(* Proofs about Neighbours: two routers on one link.  What RipProofs says  *)
(* of the threads of one router is used for the near one, and what         *)
(* RoutingTableProofs says of a routing table for the far one's.           *)
(***************************************************************************)
EXTENDS Neighbours, RipProofs, FiniteSetTheorems

FarSide == INSTANCE RoutingTableProofs WITH
             Handle <- FarHandle,
             routes_ll <- far_ll, route <- far_route, stale <- far_stale

(***************************************************************************)
(* Both routers have the same addresses, routes and entries.               *)
(***************************************************************************)
LEMMA SameTypes ==
  /\ Far!W = W /\ FarSide!W = W
  /\ Far!Addr = Addr /\ FarSide!Addr = Addr
  /\ Far!Route = Route /\ FarSide!Route = Route
  /\ Far!Entry = Entry
  <1>1. Far!W = W /\ FarSide!W = W
    BY DEF Far!W, FarSide!W, W
  <1>2. Far!Addr = Addr /\ FarSide!Addr = Addr
    BY <1>1 DEF Far!Addr, FarSide!Addr, Addr, Far!Bit, FarSide!Bit, Bit
  <1>3. Far!Flag = Flag /\ FarSide!Flag = Flag
    BY DEF Far!Flag, FarSide!Flag, Flag
  <1>4. Far!Route = Route
    BY <1>1, <1>2, <1>3
       DEF Far!Route, Route, Far!DIRECTLY_CONNECTED_AD, DIRECTLY_CONNECTED_AD,
           Far!STATIC_AD, STATIC_AD, Far!RIP_AD, RIP_AD, Far!RIP_INFINITY, RIP_INFINITY
  <1>5. FarSide!Route = Route
    BY <1>1, <1>2, <1>3
       DEF FarSide!Route, Route, FarSide!DIRECTLY_CONNECTED_AD, DIRECTLY_CONNECTED_AD,
           FarSide!STATIC_AD, STATIC_AD, FarSide!RIP_AD, RIP_AD, FarSide!RIP_INFINITY, RIP_INFINITY
  <1>6. Far!Entry = Entry
    BY <1>2 DEF Far!Entry, Entry
  <1> QED
    BY <1>1, <1>2, <1>4, <1>5, <1>6

LEMMA SameTable ==
  /\ Far!TableTypeOK <=> FarSide!TableTypeOK
  /\ Far!Listed = FarSide!Listed
  BY SameTypes DEF Far!TableTypeOK, FarSide!TableTypeOK, Far!Listed, FarSide!Listed

LEMMA SameTableNext ==
  /\ Far!TableTypeOK' <=> FarSide!TableTypeOK'
  /\ Far!Listed' = FarSide!Listed'
  BY SameTypes DEF Far!TableTypeOK, FarSide!TableTypeOK, Far!Listed, FarSide!Listed

LEMMA SameSearch ==
  ASSUME NEW dst
  PROVE  Far!routing_table_search(dst) = FarSide!routing_table_search(dst)
  BY DEF Far!routing_table_search, FarSide!routing_table_search, Far!Covers, FarSide!Covers,
         Far!FLG_CHK, FarSide!FLG_CHK, Far!belongs_to_subnet, FarSide!belongs_to_subnet,
         Far!get_subnet, FarSide!get_subnet, Far!Shl, FarSide!Shl, Far!Shr, FarSide!Shr,
         Far!Bit, FarSide!Bit, Far!W, FarSide!W, Far!Better, FarSide!Better

LEMMA SameAddition ==
  ASSUME NEW h, NEW network, NEW mask, NEW p, NEW ad, NEW flags
  PROVE  Far!add_route(h, network, mask, p, ad, flags)
           <=> FarSide!add_route(h, network, mask, p, ad, flags)
  BY DEF Far!add_route, FarSide!add_route, Far!LL_add, FarSide!LL_add,
         Far!NewRoute, FarSide!NewRoute

LEMMA SameDeletion ==
  ASSUME NEW i
  PROVE  Far!LL_delete(i) <=> FarSide!LL_delete(i)
  BY DEF Far!LL_delete, FarSide!LL_delete, Far!NextOf, FarSide!NextOf,
         Far!RemoveAt, FarSide!RemoveAt, Far!tableVars, FarSide!tableVars

LEMMA FarTyped ==
  Far!TableTypeOK <=> /\ far_ll \in Seq(FarHandle)
                      /\ far_route \in [FarHandle -> Route]
                      /\ far_stale \in [FarHandle -> FarHandle \cup {NoRoute}]
  BY SameTypes DEF Far!TableTypeOK

LEMMA FarConstants ==
  /\ NoRoute \notin FarHandle /\ MaxAge \in Nat
  /\ RipNetwork \subseteq Addr
  /\ Octets \in Nat \ {0} /\ OctetBits \in Nat \ {0}
  BY NeighboursAssumption, RoutingTableAssumption, RipAssumption, SubnetAssumption

(***************************************************************************)
(* The commands of the far router.  A network is entered in its database   *)
(* with the rip command only.                                              *)
(***************************************************************************)
FarNetworks ==
  \A h \in Far!Listed : FLG_CHK(far_route[h].flags, "DB") => far_route[h].network \in RipNetwork

LEMMA FarAdds ==
  ASSUME Far!TableTypeOK, Far!rip_add_route
  PROVE  Far!TableTypeOK' /\ (FarNetworks => FarNetworks')
  <1>1. PICK net \in RipNetwork, h \in Far!Free :
          /\ Far!routing_table_search(net) # NoRoute
          /\ Far!add_route(h, net, far_route[Far!routing_table_search(net)].mask,
                           far_route[Far!routing_table_search(net)].outgoing_interface,
                           Far!RIP_AD, {"DB"})
    BY DEF Far!rip_add_route
  <1> DEFINE r == Far!routing_table_search(net)
             mask == far_route[r].mask
             port == far_route[r].outgoing_interface
  <1>2. r \in FarSide!Listed \cup {NoRoute}
    BY SameTable, SameSearch, FarConstants, FarSide!SearchFinds
  <1>3. r \in FarHandle
    BY <1>1, <1>2, SameTable, FarTyped DEF Far!Listed
  <1>4. h \in FarHandle /\ h \notin Far!Listed
    BY <1>1 DEF Far!Free
  <1> HIDE DEF r
  <1>5. mask \in 0 .. W /\ port \in Port
    BY <1>3, FarTyped DEF Route
  <1> HIDE DEF mask, port
  <1>6. FarSide!add_route(h, net, mask, port, 110, {"DB"})
    BY <1>1, SameAddition DEF mask, port, r, Far!RIP_AD
  <1>7. /\ net \in FarSide!Addr /\ mask \in 0 .. FarSide!W
        /\ 110 \in {FarSide!DIRECTLY_CONNECTED_AD, FarSide!STATIC_AD, FarSide!RIP_AD}
        /\ {"DB"} \in SUBSET FarSide!Flag
    BY <1>5, SameTypes, FarConstants
       DEF FarSide!RIP_AD, FarSide!Flag
  <1>8. FarSide!TableTypeOK
    BY SameTable
  <1>9. Far!TableTypeOK'
    <2>1. FarSide!TableTypeOK'
      BY <1>4, <1>5, <1>6, <1>7, <1>8, FarConstants, FarSide!AddTyped
    <2> QED
      BY <2>1, SameTableNext
  <1>10. ASSUME FarNetworks PROVE FarNetworks'
    <2>1. Far!Listed' \subseteq Far!Listed \cup {h}
      <3>1. FarSide!Listed' \subseteq FarSide!Listed \cup {h}
        BY <1>4, <1>6, <1>8, FarConstants, FarSide!ListedAfterAdd DEF FarSide!add_route
      <3> QED
        BY <3>1, SameTable, SameTableNext
    <2>2. far_route' = [far_route EXCEPT ![h] = FarSide!NewRoute(net, mask, port, 110, {"DB"})]
      BY <1>6 DEF FarSide!add_route
    <2>3. far_route'[h].network = net
      BY <1>4, <2>2, FarTyped DEF FarSide!NewRoute
    <2>4. \A g \in Far!Listed : far_route'[g] = far_route[g]
      BY <1>4, <2>2, FarTyped DEF Far!Listed
    <2> QED
      BY <1>1, <1>10, <2>1, <2>3, <2>4 DEF FarNetworks
  <1> QED
    BY <1>9, <1>10

LEMMA FarDeletes ==
  ASSUME Far!TableTypeOK, Far!delete_route
  PROVE  Far!TableTypeOK' /\ (FarNetworks => FarNetworks')
  <1>1. PICK i : FarSide!LL_delete(i)
    BY SameDeletion DEF Far!delete_route
  <1>2. FarSide!TableTypeOK'
    BY <1>1, SameTable, FarConstants, FarSide!DeleteTyped
  <1>3. FarSide!Listed' \subseteq FarSide!Listed
    BY <1>1, SameTable, FarConstants, FarSide!ListedAfterDelete
  <1>4. far_route' = far_route
    BY <1>1 DEF FarSide!LL_delete, FarSide!tableVars
  <1> QED
    BY <1>2, <1>3, <1>4, SameTable, SameTableNext DEF FarNetworks

(***************************************************************************)
(* An update is the entry of one route of the database, followed by as     *)
(* many entries of what malloc returned as there are other routes.         *)
(***************************************************************************)
LEMMA LargestPosition ==
  ASSUME NEW n \in Nat, NEW S \in SUBSET (1 .. n), S # {}
  PROVE  Far!Max(S) \in S
  <1> DEFINE T == { n - i : i \in S }
  <1>1. T \in SUBSET Nat /\ T # {}
    <2>1. \A i \in S : n - i \in Nat
      OBVIOUS
    <2>2. PICK i \in S : TRUE
      OBVIOUS
    <2> QED
      BY <2>1, <2>2
  <1>2. PICK t \in T : \A u \in T : t <= u
    BY <1>1, LeastExists
  <1>3. PICK i \in S : t = n - i
    BY <1>2
  <1>4. \A j \in S : i >= j
    BY <1>2, <1>3
  <1> QED
    BY <1>3, <1>4 DEF Far!Max

LEMMA SameCardinality == \A S : Far!Cardinality(S) = Cardinality(S)
  BY DEF Far!Cardinality, Cardinality

LEMMA DatabaseFinite ==
  ASSUME Far!TableTypeOK
  PROVE  /\ Far!Database \in SUBSET (1 .. Len(far_ll))
         /\ Len(far_ll) \in Nat
         /\ \A i \in Far!Database : far_ll[i] \in Far!Listed /\ far_ll[i] \in FarHandle
         /\ \A i \in Far!Database : FLG_CHK(far_route[far_ll[i]].flags, "DB")
         /\ Cardinality(Far!Database) \in Nat
         /\ Far!Database # {} => Cardinality(Far!Database) > 0
  <1>1. far_ll \in Seq(FarHandle)
    BY FarTyped
  <1>2. Far!Database \in SUBSET (1 .. Len(far_ll)) /\ Len(far_ll) \in Nat
    BY <1>1 DEF Far!Database
  <1>3. \A i \in Far!Database : /\ far_ll[i] \in Far!Listed /\ far_ll[i] \in FarHandle
                                /\ FLG_CHK(far_route[far_ll[i]].flags, "DB")
    BY <1>1 DEF Far!Database, Far!Listed, Far!FLG_CHK, FLG_CHK
  <1>4. IsFiniteSet(Far!Database)
    <2>1. IsFiniteSet(1 .. Len(far_ll))
      BY <1>2, FS_Interval
    <2> QED
      BY <1>2, <2>1, FS_Subset
  <1> QED
    BY <1>2, <1>3, <1>4, FS_CardinalityType, FS_EmptySet

FarEntries(S) == \A i \in Far!Database : Far!EntryOf(far_ll[i]) \in S

FarMemory(S) == Leftover \subseteq S \/ Cardinality(Far!Database) <= 1

LEMMA UpdateEntries ==
  ASSUME Far!TableTypeOK, NEW S, FarEntries(S), FarMemory(S),
         NEW u \in Far!RIP_generate_update
  PROVE  u \in Seq(S)
  <1> DEFINE n == Cardinality(Far!Database) - 1
             e == Far!EntryOf(far_ll[Far!Max(Far!Database)])
  <1>1. Far!Database # {} /\ \E rest \in [1 .. n -> Leftover] : u = <<e>> \o rest
    BY SameCardinality DEF Far!RIP_generate_update
  <1>2. PICK rest \in [1 .. n -> Leftover] : u = <<e>> \o rest
    BY <1>1
  <1>3. n \in Nat
    BY <1>1, DatabaseFinite
  <1>4. e \in S
    BY <1>1, DatabaseFinite, LargestPosition DEF FarEntries
  <1>5. n = 0 \/ Leftover \subseteq S
    BY <1>3, DatabaseFinite DEF FarMemory
  <1> HIDE DEF n, e
  <1>6. \A k \in 1 .. n : rest[k] \in S
    BY <1>3, <1>5
  <1>7. rest \in [1 .. n -> S]
    BY <1>2, <1>6
  <1>8. rest \in Seq(S)
    BY <1>3, <1>7
  <1>9. <<e>> \in Seq(S)
    BY <1>4
  <1> QED
    BY <1>2, <1>8, <1>9, ConcatProperties, Zenon

(***************************************************************************)
(* The wire, and what the listener takes off it: never more entries than   *)
(* the update has.                                                         *)
(***************************************************************************)
WireOf(S) == wire \in Seq(Seq(S)) /\ Len(wire) <= Wire

LEMMA InjectKeeps ==
  ASSUME NEW S, WireOf(S), NEW p, \A u \in Far!RIP_generate_update : u \in Seq(S),
         Far!Inject(p)
  PROVE  WireOf(S)'
  <1>1. CASE UNCHANGED wire
    BY <1>1 DEF WireOf
  <1>2. CASE ~ UNCHANGED wire
    <2>1. Len(wire) < Wire
      BY <1>2, NeighboursAssumption DEF Far!Inject, WireOf
    <2>2. PICK u \in Far!RIP_generate_update : wire' = Append(wire, u)
      BY <1>2 DEF Far!Inject
    <2> QED
      BY <2>1, <2>2, NeighboursAssumption DEF WireOf
  <1> QED
    BY <1>1, <1>2

LEMMA TakenOff ==
  ASSUME NEW S, WireOf(S), wire # << >>, wire' = Tail(wire)
  PROVE  WireOf(S)' /\ Head(wire) \in Seq(S)
  BY NeighboursAssumption DEF WireOf

LEMMA EntriesRead ==
  ASSUME NEW S, NEW u \in Seq(S)
  PROVE  SubSeq(u, 1, Far!number_of_rip_entries(Far!udp_len(u))) \in Seq(S)
  <1> DEFINE total == (20 * Len(u)) % 65536
             n == Far!number_of_rip_entries(Far!udp_len(u))
  <1>1. Len(u) \in Nat
    OBVIOUS
  <1>2. Far!udp_len(u) - 8 - 4 = 20 * Len(u)
    BY <1>1 DEF Far!udp_len, Far!sizeof_udp_h, Far!sizeof_rip_h, Far!sizeof_rip_entry_h
  <1>3. n = IF total % 20 # 0 THEN -1 ELSE total \div 20
    BY <1>2, SMTT(20) DEF Far!number_of_rip_entries, Far!UShorts, Far!sizeof_udp_h, Far!sizeof_rip_h,
                Far!sizeof_rip_entry_h
  <1>4. total \in Nat /\ total <= 20 * Len(u)
    BY <1>1
  <1> HIDE DEF n, total
  <1>5. n \in Int /\ n <= Len(u)
    BY <1>1, <1>3, <1>4
  <1>6. \A j \in 1 .. n : u[j] \in S
    BY <1>1, <1>5
  <1> QED
    BY <1>5, <1>6, SubSeqProperties DEF n

(***************************************************************************)
(* What every step of the two routers leaves on the wire.                  *)
(***************************************************************************)
FarTableVars == <<far_ll, far_route, far_stale>>

LEMMA SenderTable ==
  ASSUME Far!SenderStep \/ Far!AnswerRequest
  PROVE  UNCHANGED FarTableVars
  BY DEF Far!SenderStep, Far!Wake, Far!Update1, Far!Update2, Far!AnswerRequest,
         Far!tableVars, FarTableVars

LEMMA WireKept ==
  ASSUME NEW S, Far!TableTypeOK, WireOf(S), FarEntries(S), FarMemory(S), [LinkNext]_allVars
  PROVE  WireOf(S)'
  <1>1. \A u \in Far!RIP_generate_update : u \in Seq(S)
    BY UpdateEntries
  <1>2. ASSUME UNCHANGED wire PROVE WireOf(S)'
    BY <1>2 DEF WireOf
  <1>3. CASE Far!SenderStep
    <2>1. CASE Far!Wake
      BY <1>2, <2>1 DEF Far!Wake
    <2>2. CASE Far!Update1
      BY <1>1, <2>2, InjectKeeps DEF Far!Update1
    <2>3. CASE Far!Update2
      BY <1>1, <2>3, InjectKeeps DEF Far!Update2
    <2> QED
      BY <1>3, <2>1, <2>2, <2>3 DEF Far!SenderStep
  <1>4. CASE FarAnswer
    BY <1>1, <1>4, InjectKeeps DEF FarAnswer, Far!AnswerRequest
  <1>5. CASE Lose \/ Deliver
    BY <1>5, TakenOff DEF Lose, Deliver
  <1>6. CASE FarCommand
    BY <1>2, <1>6 DEF FarCommand, Far!rip_add_route, Far!delete_route
  <1>7. CASE NearListener \/ NearTimers \/ LinkTick \/ UNCHANGED allVars
    BY <1>2, <1>7 DEF NearListener, NearTimers, LinkTick, allVars, farVars
  <1> QED
    BY <1>3, <1>4, <1>5, <1>6, <1>7 DEF LinkNext, FarTimers

(***************************************************************************)
(* The types of both routers.                                              *)
(***************************************************************************)
LinkTyped == Inv /\ Far!AdvertiseTypeOK /\ missed \subseteq RipNetwork

LEMMA LinkParts ==
  LinkTyped <=> /\ Inv
                /\ Far!TableTypeOK
                /\ far_sender \in Far!Sender
                /\ WireOf(Entry)
                /\ missed \subseteq RipNetwork
  BY SameTypes DEF LinkTyped, Far!AdvertiseTypeOK, WireOf

LEMMA UpdatesTyped ==
  ASSUME Far!TableTypeOK
  PROVE  FarEntries(Entry) /\ FarMemory(Entry)
  <1>1. \A h \in FarHandle : far_route[h].network \in Addr
    BY FarTyped DEF Route
  <1>2. \A p : Far!Swap(Far!prefix_to_mask(p)) \in Addr
    BY SameTypes DEF Far!Swap, Far!Addr
  <1>3. 1 \in 0 .. MetricModulus - 1
    BY NeighboursAssumption, RipAssumption
  <1>4. \A h \in FarHandle : Far!EntryOf(h) \in Entry
    BY <1>1, <1>2, <1>3 DEF Far!EntryOf, Entry
  <1> QED
    BY <1>4, DatabaseFinite, NeighboursAssumption DEF FarEntries, FarMemory

LEMMA SenderKeeps ==
  ASSUME far_sender \in Far!Sender, Far!SenderStep \/ Far!Second
  PROVE  far_sender' \in Far!Sender
  <1>1. /\ RIP_T_UPDATE \in Nat \ {0} /\ CHECK_EVERY \in Nat \ {0} /\ MaxLate \in Nat
    BY NeighboursAssumption, RipAssumption
  <1>2. CASE Far!SenderStep
    <2>1. Far!Sleep \in Far!Sender
      <3>1. CHECK_EVERY \in 0 .. CHECK_EVERY
        BY <1>1
      <3> QED
        BY <3>1 DEF Far!Sleep, Far!Sender
    <2>2. \A pc \in {"p1", "p2"} : [far_sender EXCEPT !.pc = pc] \in Far!Sender
      BY <1>1 DEF Far!Sender
    <2>3. \/ far_sender' = Far!Sleep
          \/ far_sender' = [far_sender EXCEPT !.pc = "p1"]
          \/ far_sender' = [far_sender EXCEPT !.pc = "p2"]
      BY <1>2 DEF Far!SenderStep, Far!Wake, Far!Update1, Far!Update2
    <2> QED
      BY <2>1, <2>2, <2>3
  <1>3. CASE Far!Second
    <2>1. (far_sender.clock + 1) % RIP_T_UPDATE \in 0 .. RIP_T_UPDATE - 1
      BY <1>1 DEF Far!Sender
    <2>2. (IF far_sender.remaining > 0 THEN far_sender.remaining - 1 ELSE 0) \in 0 .. CHECK_EVERY
      BY <1>1 DEF Far!Sender
    <2>3. (IF Far!Awake THEN far_sender.late + 1 ELSE far_sender.late) \in 0 .. MaxLate
      BY <1>1, <1>3 DEF Far!Sender, Far!Second
    <2> QED
      BY <1>3, <2>1, <2>2, <2>3 DEF Far!Sender, Far!Second
  <1> QED
    BY <1>2, <1>3

LEMMA DeliverKeeps ==
  ASSUME LinkTyped, Deliver
  PROVE  Inv'
  <1>1. Inv /\ WireOf(Entry) /\ Link \in Port
    BY LinkParts, NeighboursAssumption, RipAssumption
  <1> DEFINE n == Far!number_of_rip_entries(Far!udp_len(Head(wire)))
             todo == SubSeq(Head(wire), 1, n)
  <1>2. todo \in Seq(Entry)
    BY <1>1, TakenOff, EntriesRead DEF Deliver
  <1>3. listener' = [listener EXCEPT ![Link].todo = todo]
    BY DEF Deliver
  <1> HIDE DEF todo
  <1>4. listener \in [Port -> ListenerState] /\ listener[Link].pc = "search"
    BY <1>1 DEF Inv, TypeOK, Deliver, IdleListener
  <1>5. [listener[Link] EXCEPT !.todo = todo] \in ListenerState
    BY <1>1, <1>2, <1>4 DEF ListenerState
  <1>6. /\ listener' \in [Port -> ListenerState]
        /\ \A p \in Port : listener'[p].pc = listener[p].pc
        /\ \A p \in Port \ {Link} : listener'[p] = listener[p]
    BY <1>1, <1>3, <1>4, <1>5 DEF ListenerState
  <1> QED
    BY <1>1, <1>4, <1>6 DEF Deliver, Inv, InHands, TypeOK, TableTypeOK, ConnectedFirst, tableVars

LEMMA InvStutters ==
  ASSUME Inv, UNCHANGED vars
  PROVE  Inv'
  BY NextKeeps

LEMMA NearKeeps ==
  ASSUME LinkTyped, [LinkNext]_allVars
  PROVE  Inv'
  <1>1. Inv /\ Link \in Port
    BY LinkParts, NeighboursAssumption, RipAssumption
  <1>2. CASE FarTimers \/ FarCommand \/ FarAnswer \/ Lose \/ UNCHANGED allVars
    BY <1>1, <1>2, InvStutters DEF FarTimers, FarCommand, FarAnswer, Lose, allVars
  <1>3. CASE Deliver
    BY <1>3, DeliverKeeps
  <1>4. CASE NearListener
    BY <1>1, <1>4, ListenersKeep DEF NearListener
  <1>5. CASE NearTimers
    BY <1>1, <1>5, TimersKeep DEF NearTimers
  <1>6. CASE LinkTick
    BY <1>1, <1>6, TickKeeps DEF LinkTick
  <1> QED
    BY <1>2, <1>3, <1>4, <1>5, <1>6 DEF LinkNext

LEMMA FarKeeps ==
  ASSUME LinkTyped, [LinkNext]_allVars
  PROVE  /\ Far!TableTypeOK'
         /\ far_sender' \in Far!Sender
         /\ FarNetworks => FarNetworks'
  <1>1. Far!TableTypeOK /\ far_sender \in Far!Sender
    BY LinkParts
  <1>2. ASSUME UNCHANGED FarTableVars
        PROVE  Far!TableTypeOK' /\ (FarNetworks => FarNetworks')
    BY <1>1, <1>2, FarTyped DEF FarTableVars, FarNetworks, Far!Listed, Far!TableTypeOK
  <1>3. CASE FarTimers
    BY <1>1, <1>2, <1>3, SenderTable, SenderKeeps DEF FarTimers
  <1>4. CASE FarCommand
    <2>1. Far!rip_add_route \/ Far!delete_route
      BY <1>4 DEF FarCommand
    <2>2. far_sender' = far_sender
      BY <2>1 DEF Far!rip_add_route, Far!delete_route
    <2> QED
      BY <1>1, <2>1, <2>2, FarAdds, FarDeletes
  <1>5. CASE FarAnswer
    BY <1>1, <1>2, <1>5, SenderTable DEF FarAnswer, Far!AnswerRequest
  <1>6. CASE LinkTick
    BY <1>1, <1>2, <1>6, SenderKeeps DEF LinkTick, FarTableVars
  <1>7. CASE Lose \/ Deliver \/ NearListener \/ NearTimers \/ UNCHANGED allVars
    BY <1>1, <1>2, <1>7 DEF Lose, Deliver, NearListener, NearTimers, allVars, farVars, FarTableVars
  <1> QED
    BY <1>3, <1>4, <1>5, <1>6, <1>7 DEF LinkNext

LEMMA MissedKept ==
  ASSUME missed \subseteq RipNetwork, [LinkNext]_allVars
  PROVE  missed' \subseteq RipNetwork
  BY DEF LinkNext, FarTimers, FarCommand, FarAnswer, Lose, Deliver, NearListener, NearTimers,
         LinkTick, allVars, farVars

LEMMA LinkTypedKept ==
  ASSUME LinkTyped, [LinkNext]_allVars
  PROVE  LinkTyped'
  <1>1. WireOf(Entry)'
    BY LinkParts, UpdatesTyped, WireKept
  <1>2. Inv' /\ Far!TableTypeOK' /\ far_sender' \in Far!Sender
    BY NearKeeps, FarKeeps
  <1>3. missed' \subseteq RipNetwork
    BY LinkParts, MissedKept
  <1> QED
    BY <1>1, <1>2, <1>3, SameTypes DEF LinkTyped, Far!AdvertiseTypeOK, WireOf

LEMMA LinkTypedInit == LinkInit => LinkTyped
  <1> SUFFICES ASSUME LinkInit PROVE LinkTyped
    OBVIOUS
  <1>1. Inv
    BY InitEstablishes DEF LinkInit
  <1>2. Far!TableTypeOK
    BY FarTyped, NeighboursAssumption DEF LinkInit
  <1>3. far_sender \in Far!Sender
    <2>1. /\ RIP_T_UPDATE \in Nat \ {0} /\ CHECK_EVERY \in Nat \ {0} /\ MaxLate \in Nat
          /\ CHECK_EVERY % RIP_T_UPDATE = 0
      BY NeighboursAssumption, RipAssumption
    <2>2. RIP_T_UPDATE <= CHECK_EVERY
      <3>1. CHECK_EVERY < RIP_T_UPDATE => CHECK_EVERY % RIP_T_UPDATE = CHECK_EVERY
        BY <2>1
      <3> QED
        BY <2>1, <3>1
    <2>3. PICK s \in 0 .. RIP_T_UPDATE - 1 :
            far_sender = [pc |-> "sleep", remaining |-> s, late |-> 0,
                          clock |-> (RIP_T_UPDATE - s) % RIP_T_UPDATE]
      BY DEF LinkInit, Far!InitAdvertise
    <2>4. (RIP_T_UPDATE - s) % RIP_T_UPDATE \in 0 .. RIP_T_UPDATE - 1
      BY <2>1
    <2>5. s \in 0 .. CHECK_EVERY /\ 0 \in 0 .. MaxLate
      BY <2>1, <2>2
    <2> QED
      BY <2>3, <2>4, <2>5 DEF Far!Sender
  <1>4. WireOf(Entry)
    BY NeighboursAssumption DEF LinkInit, Far!InitAdvertise, WireOf
  <1> QED
    BY <1>1, <1>2, <1>3, <1>4, LinkParts DEF LinkInit

(***************************************************************************)
(* Whatever updates, requests, losses and late rounds come in which order, *)
(* the two routing tables, the timers, the datagrams on the wire and what  *)
(* the listener takes from them keep their types: the entries counted from *)
(* the length of a datagram (ripv2.h:169) are all in it.                   *)
(***************************************************************************)
THEOREM LinkTypes == LinkSpec => []LinkTypeOK
  <1>1. LinkTyped => LinkTypeOK
    BY DEF LinkTyped, LinkTypeOK, Inv
  <1>2. LinkTyped /\ [LinkNext]_allVars => LinkTyped'
    BY LinkTypedKept
  <1> QED
    BY <1>1, <1>2, LinkTypedInit, PTL DEF LinkSpec

(***************************************************************************)
(* Only networks the far router was told to advertise are on the wire, in  *)
(* the listener's hands and in the near table.                             *)
(***************************************************************************)
Truthful == [ip : RipNetwork, mask : Addr, metric : 0 .. MetricModulus - 1]

Advertising ==
  /\ FarNetworks
  /\ WireOf(Truthful)
  /\ listener[Link].todo \in Seq(Truthful)
  /\ LearnsOnlyAdvertised

\* Either an update holds the one entry that is copied to it, or what malloc
\* returns has only held updates of the same router.
NothingStrange ==
  Leftover \subseteq Truthful \/ Cardinality(Far!Database) <= 1

LEMMA UpdatesTruthful ==
  ASSUME Far!TableTypeOK, FarNetworks
  PROVE  FarEntries(Truthful)
  <1>1. \A i \in Far!Database : far_route[far_ll[i]].network \in RipNetwork
    BY DatabaseFinite DEF FarNetworks
  <1>2. \A p : Far!Swap(Far!prefix_to_mask(p)) \in Addr
    BY SameTypes DEF Far!Swap, Far!Addr
  <1>3. 1 \in 0 .. MetricModulus - 1
    BY NeighboursAssumption, RipAssumption
  <1> QED
    BY <1>1, <1>2, <1>3 DEF FarEntries, Far!EntryOf, Truthful

LEMMA NoneLearnedAnew ==
  ASSUME LearnsOnlyAdvertised, NoneLearned
  PROVE  LearnsOnlyAdvertised'
  BY DEF LearnsOnlyAdvertised, NoneLearned

LEMMA ApplyAdvertised ==
  ASSUME Inv, LearnsOnlyAdvertised, listener[Link].todo \in Seq(Truthful), ListenerApply(Link)
  PROVE  LearnsOnlyAdvertised'
  <1> DEFINE e == EntryInHand(Link)
             r == listener[Link].r
  <1>0. Link \in Port /\ TableTypeOK /\ listener[Link].todo # << >>
    BY NeighboursAssumption, RipAssumption DEF Inv, TypeOK, InHands, ListenerApply
  <1>1. e.ip \in RipNetwork
    <2>1. e \in Truthful
      BY <1>0 DEF EntryInHand, Last
    <2> QED
      BY <2>1 DEF Truthful
  <1>2. IF r # NoRoute THEN RefreshRoute(r, e) ELSE LearnRoute(Link, e)
    BY DEF ListenerApply
  <1>3. r \in Handle \cup {NoRoute} /\ route \in [Handle -> Route] /\ Listed \subseteq Handle
    BY <1>0 DEF Inv, TypeOK, ListenerState, TableTypeOK, Listed
  <1> HIDE DEF e, r
  <1>4. CASE r # NoRoute
    <2>1. Listed' = Listed
      BY <1>2, <1>4 DEF RefreshRoute, Listed
    <2>2. \A h \in Handle : /\ route'[h].network = route[h].network
                            /\ route'[h].ad = route[h].ad
                            /\ route'[h].flags = route[h].flags
      <3>1. CASE route[r].ad = RIP_AD
        <4>1. route' = [route EXCEPT ![r].age    = 0,
                                     ![r].metric = NewMetric(e.metric),
                                     ![r].mask   = mask_to_prefix(e.mask)]
          BY <1>2, <1>4, <3>1 DEF RefreshRoute
        <4>2. r \in Handle /\ route[r] \in Route
          BY <1>3, <1>4
        <4>3. /\ route'[r].network = route[r].network
              /\ route'[r].ad = route[r].ad
              /\ route'[r].flags = route[r].flags
          BY <1>3, <4>1, <4>2 DEF Route
        <4>4. \A h \in Handle : h # r => route'[h] = route[h]
          BY <1>3, <4>1
        <4> QED
          BY <4>3, <4>4
      <3>2. CASE route[r].ad # RIP_AD
        BY <1>2, <1>4, <3>2 DEF RefreshRoute
      <3> QED
        BY <3>1, <3>2
    <2> QED
      BY <1>3, <2>1, <2>2 DEF LearnsOnlyAdvertised, Learned
  <1>5. CASE r = NoRoute
    <2>1. PICK h \in FreshHandle : add_route(h, e.ip, mask_to_prefix(e.mask), Link, RIP_AD, {})
      BY <1>2, <1>5 DEF LearnRoute
    <2>2. h \in Handle /\ h \notin Listed
      BY <2>1 DEF FreshHandle
    <2>3. Listed' \subseteq Listed \cup {h}
      BY <1>0, <2>1, <2>2, ListedAfterAdd DEF add_route
    <2>4. route' = [route EXCEPT ![h] = NewRoute(e.ip, mask_to_prefix(e.mask), Link, RIP_AD, {})]
      BY <2>1 DEF add_route
    <2>5. route'[h].network = e.ip /\ \A g \in Listed : route'[g] = route[g]
      BY <1>3, <2>2, <2>4 DEF NewRoute
    <2> QED
      BY <1>1, <2>3, <2>5 DEF LearnsOnlyAdvertised, Learned
  <1> QED
    BY <1>4, <1>5

LEMMA TodoKept ==
  ASSUME NEW S, LinkTyped, WireOf(S), listener[Link].todo \in Seq(S), [LinkNext]_allVars
  PROVE  listener'[Link].todo \in Seq(S)
  <1>0. /\ Inv /\ Link \in Port
        /\ listener \in [Port -> ListenerState]
    BY LinkParts, NeighboursAssumption, RipAssumption DEF Inv, TypeOK
  <1>1. CASE Deliver
    <2> DEFINE n == Far!number_of_rip_entries(Far!udp_len(Head(wire)))
               todo == SubSeq(Head(wire), 1, n)
    <2>1. todo \in Seq(S)
      BY <1>1, TakenOff, EntriesRead DEF Deliver
    <2>2. listener' = [listener EXCEPT ![Link].todo = todo]
      BY <1>1 DEF Deliver
    <2> HIDE DEF todo
    <2> QED
      BY <1>0, <2>1, <2>2 DEF ListenerState
  <1>2. CASE NearListener
    <2>1. CASE ListenerSearch(Link)
      <3>1. listener'[Link].todo = listener[Link].todo
        BY <1>0, <2>1 DEF ListenerSearch, ListenerState
      <3> QED
        BY <3>1
    <2>2. CASE ListenerApply(Link)
      <3> DEFINE todo == listener[Link].todo
      <3>1. listener'[Link].todo = SubSeq(todo, 1, Len(todo) - 1)
        BY <1>0, <2>2 DEF ListenerApply, ListenerState, Front
      <3>2. todo \in Seq(S) /\ Len(todo) \in Nat
        OBVIOUS
      <3> HIDE DEF todo
      <3>3. \A j \in 1 .. Len(todo) - 1 : todo[j] \in S
        BY <3>2
      <3> QED
        BY <3>1, <3>2, <3>3, SubSeqProperties
    <2> QED
      BY <1>2, <2>1, <2>2 DEF NearListener, ListenerStep
  <1>3. CASE NearTimers \/ LinkTick
    BY <1>0, <1>3, TimersLearnNothing DEF NearTimers, LinkTick
  <1>4. CASE FarTimers \/ FarCommand \/ FarAnswer \/ Lose \/ UNCHANGED allVars
    BY <1>4 DEF FarTimers, FarCommand, FarAnswer, Lose, allVars, vars
  <1> QED
    BY <1>1, <1>2, <1>3, <1>4 DEF LinkNext

LEMMA LearningKept ==
  ASSUME LinkTyped, Advertising, [LinkNext]_allVars
  PROVE  LearnsOnlyAdvertised'
  <1>0. Inv /\ LearnsOnlyAdvertised /\ listener[Link].todo \in Seq(Truthful)
    BY LinkParts DEF Advertising
  <1>1. ASSUME UNCHANGED tableVars
        PROVE  LearnsOnlyAdvertised'
    BY <1>0, <1>1 DEF tableVars, LearnsOnlyAdvertised, Listed, Learned
  <1>2. CASE NearListener
    BY <1>0, <1>1, <1>2, ApplyAdvertised DEF NearListener, ListenerStep, ListenerSearch
  <1>3. CASE NearTimers \/ LinkTick
    BY <1>0, <1>3, TimersLearnNothing, NoneLearnedAnew DEF NearTimers, LinkTick
  <1>4. CASE FarTimers \/ FarCommand \/ FarAnswer \/ Lose \/ Deliver \/ UNCHANGED allVars
    BY <1>1, <1>4 DEF FarTimers, FarCommand, FarAnswer, Lose, Deliver, allVars, vars
  <1> QED
    BY <1>2, <1>3, <1>4 DEF LinkNext

LEMMA AdvertisingKept ==
  ASSUME LinkTyped, Advertising, NothingStrange, [LinkNext]_allVars
  PROVE  Advertising'
  <1>1. Far!TableTypeOK /\ FarNetworks /\ WireOf(Truthful)
    BY LinkParts DEF Advertising
  <1>2. FarEntries(Truthful) /\ FarMemory(Truthful)
    BY <1>1, UpdatesTruthful DEF NothingStrange, FarMemory
  <1>3. WireOf(Truthful)'
    BY <1>1, <1>2, WireKept
  <1>4. FarNetworks'
    BY <1>1, FarKeeps
  <1>5. listener'[Link].todo \in Seq(Truthful)
    BY <1>1, TodoKept DEF Advertising
  <1>6. LearnsOnlyAdvertised'
    BY LearningKept
  <1> QED
    BY <1>3, <1>4, <1>5, <1>6 DEF Advertising

LEMMA AdvertisingInit == LinkInit => Advertising
  <1> SUFFICES ASSUME LinkInit PROVE Advertising
    OBVIOUS
  <1>1. FarNetworks
    BY NeighboursAssumption DEF LinkInit, FarNetworks, Far!Listed
  <1>2. WireOf(Truthful)
    BY NeighboursAssumption DEF LinkInit, Far!InitAdvertise, WireOf
  <1>3. listener[Link].todo \in Seq(Truthful)
    BY NeighboursAssumption, RipAssumption DEF LinkInit, Init, IdleListener
  <1>4. LearnsOnlyAdvertised
    <2>1. routes_ll = <<C1, C2>>
      BY DEF LinkInit, Init, InitTable
    <2>2. Listed \subseteq {C1, C2}
      BY <2>1 DEF Listed
    <2>3. Init
      BY DEF LinkInit
    <2>4. \A h \in {C1, C2} : route[h].ad = DIRECTLY_CONNECTED_AD
      BY <2>3, InitEstablishes, RipAssumption DEF Init, InitTable, Connected, NewRoute
    <2> QED
      BY <2>2, <2>4 DEF LearnsOnlyAdvertised, Learned, DIRECTLY_CONNECTED_AD, RIP_AD
  <1> QED
    BY <1>1, <1>2, <1>3, <1>4 DEF Advertising

(***************************************************************************)
(* What the near router learns, the far one was told to advertise, in      *)
(* whatever order updates, requests, losses and changes of the database    *)
(* come: as long as the far router's database holds one network at most,   *)
(* or the memory malloc returns (ripv2.h:78) has only held its own         *)
(* updates.  Without that it fails: what is copied is one entry.           *)
(***************************************************************************)
THEOREM LearnedWasAdvertised ==
  LinkSpec /\ []NothingStrange => []LearnsOnlyAdvertised
  <1>1. LinkTyped /\ [LinkNext]_allVars => LinkTyped'
    BY LinkTypedKept
  <1>2. LinkTyped /\ Advertising /\ NothingStrange /\ [LinkNext]_allVars => Advertising'
    BY AdvertisingKept
  <1>3. Advertising => LearnsOnlyAdvertised
    BY DEF Advertising
  <1> QED
    BY <1>1, <1>2, <1>3, LinkTypedInit, AdvertisingInit, PTL DEF LinkSpec

(***************************************************************************)
(* The schedule of rip_timers.  The seconds until its next round are those *)
(* until the next multiple of RIP_T_UPDATE and those it has been late, but *)
(* for whole periods.                                                      *)
(***************************************************************************)
LEMMA Remainder ==
  ASSUME NEW t \in Nat \ {0}, NEW c \in 0 .. t - 1, NEW q \in Int, NEW n \in Nat,
         n = c + q * t
  PROVE  n % t = c
  <1>1. n = (n \div t) * t + (n % t) /\ n % t \in 0 .. t - 1 /\ n \div t \in Int
    OBVIOUS
  <1> DEFINE d == n \div t - q
  <1>2. d \in Int /\ d * t = c - (n % t)
    BY <1>1
  <1>3. -t < d * t /\ d * t < t
    BY <1>1, <1>2
  <1> HIDE DEF d
  <1>4. d = 0
    <2>1. d >= 1 => d * t >= t
      BY <1>2
    <2>2. d <= -1 => d * t <= -t
      BY <1>2
    <2> QED
      BY <1>2, <1>3, <2>1, <2>2
  <1> QED
    BY <1>1, <1>2, <1>4

Scheduled ==
  \E q \in Int : far_sender.clock + far_sender.remaining = far_sender.late + q * RIP_T_UPDATE

LEMMA Periods ==
  /\ RIP_T_UPDATE \in Nat \ {0} /\ CHECK_EVERY \in Nat \ {0} /\ MaxLate \in Nat
  /\ \E q \in Int : CHECK_EVERY = q * RIP_T_UPDATE
  <1>1. /\ RIP_T_UPDATE \in Nat \ {0} /\ CHECK_EVERY \in Nat \ {0} /\ MaxLate \in Nat
        /\ CHECK_EVERY % RIP_T_UPDATE = 0
    BY NeighboursAssumption, RipAssumption
  <1>2. CHECK_EVERY = (CHECK_EVERY \div RIP_T_UPDATE) * RIP_T_UPDATE
    BY <1>1
  <1> QED
    BY <1>1, <1>2

AwakeAtOnce == far_sender.pc # "sleep" => far_sender.remaining = 0

LEMMA ScheduleOfSecond ==
  ASSUME far_sender \in Far!Sender, Scheduled, AwakeAtOnce, Far!Second
  PROVE  Scheduled' /\ AwakeAtOnce'
  <1> DEFINE T == RIP_T_UPDATE
             clock == far_sender.clock
             remaining == far_sender.remaining
             late == far_sender.late
  <1>1. /\ T \in Nat \ {0} /\ clock \in 0 .. T - 1
        /\ remaining \in Nat /\ late \in Nat
    BY Periods DEF Far!Sender
  <1>2. PICK q \in Int : clock + remaining = late + q * T
    BY DEF Scheduled
  <1>3. /\ far_sender'.clock = (clock + 1) % T
        /\ far_sender'.remaining = (IF remaining > 0 THEN remaining - 1 ELSE 0)
        /\ far_sender'.late = (IF Far!Awake THEN late + 1 ELSE late)
        /\ far_sender'.pc = far_sender.pc
    BY DEF Far!Second, Far!Sender
  <1>4. remaining > 0 <=> ~ Far!Awake
    BY <1>1 DEF Far!Awake, AwakeAtOnce
  <1>5. AwakeAtOnce'
    BY <1>1, <1>3 DEF AwakeAtOnce
  <1>6. clock + 1 + far_sender'.remaining = far_sender'.late + q * T
    <2>1. CASE remaining > 0
      BY <1>1, <1>2, <1>3, <1>4, <2>1
    <2>2. CASE ~ (remaining > 0)
      BY <1>1, <1>2, <1>3, <1>4, <2>2
    <2> QED
      BY <2>1, <2>2
  <1>7. CASE clock + 1 < T
    <2>1. far_sender'.clock = clock + 1
      BY <1>1, <1>3, <1>7
    <2> QED
      BY <1>5, <1>6, <2>1 DEF Scheduled
  <1>8. CASE clock + 1 = T
    <2>1. far_sender'.clock = 0
      BY <1>1, <1>3, <1>8
    <2>2. q - 1 \in Int /\ (q - 1) * T = q * T - T
      BY <1>1
    <2>3. far_sender'.remaining \in Nat /\ far_sender'.late \in Nat /\ q * T \in Int
      BY <1>1, <1>3
    <2>4. 0 + far_sender'.remaining = far_sender'.late + (q * T - T)
      BY <1>1, <1>6, <1>8, <2>3
    <2> QED
      BY <1>5, <2>1, <2>2, <2>4 DEF Scheduled
  <1> QED
    BY <1>1, <1>7, <1>8

LEMMA ScheduleOfRound ==
  ASSUME far_sender \in Far!Sender, Scheduled, AwakeAtOnce, Far!SenderStep
  PROVE  Scheduled' /\ AwakeAtOnce'
  <1> DEFINE T == RIP_T_UPDATE
  <1>1. /\ T \in Nat \ {0} /\ far_sender.clock \in 0 .. T - 1
        /\ far_sender.remaining \in Nat /\ far_sender.late \in Nat
    BY Periods DEF Far!Sender
  <1>2. PICK q \in Int : far_sender.clock + far_sender.remaining = far_sender.late + q * T
    BY DEF Scheduled
  <1>3. far_sender.remaining = 0
    BY DEF Far!SenderStep, Far!Wake, Far!Update1, Far!Update2, AwakeAtOnce
  <1>4. CASE far_sender' = Far!Sleep
    <2>1. PICK m \in Int : CHECK_EVERY = m * T
      BY Periods
    <2>2. /\ far_sender'.clock = far_sender.clock /\ far_sender'.late = far_sender.late
          /\ far_sender'.remaining = CHECK_EVERY /\ far_sender'.pc = "sleep"
      BY <1>4 DEF Far!Sleep, Far!Sender
    <2>3. q + m \in Int /\ (q + m) * T = q * T + m * T
      BY <1>1
    <2>4. far_sender'.clock + far_sender'.remaining = far_sender'.late + (q + m) * T
      BY <1>1, <1>2, <1>3, <2>1, <2>2, <2>3
    <2> QED
      BY <2>2, <2>3, <2>4 DEF Scheduled, AwakeAtOnce
  <1>5. CASE \E pc \in {"p1", "p2"} : far_sender' = [far_sender EXCEPT !.pc = pc]
    <2>1. /\ far_sender'.clock = far_sender.clock /\ far_sender'.late = far_sender.late
          /\ far_sender'.remaining = far_sender.remaining
      BY <1>5 DEF Far!Sender
    <2> QED
      BY <1>2, <1>3, <2>1 DEF Scheduled, AwakeAtOnce
  <1> QED
    BY <1>4, <1>5 DEF Far!SenderStep, Far!Wake, Far!Update1, Far!Update2

LEMMA ScheduleKept ==
  ASSUME LinkTyped, Scheduled, AwakeAtOnce, [LinkNext]_allVars
  PROVE  Scheduled' /\ AwakeAtOnce'
  <1>1. CASE FarTimers
    BY <1>1, LinkParts, ScheduleOfRound DEF FarTimers
  <1>2. CASE LinkTick
    BY <1>2, LinkParts, ScheduleOfSecond DEF LinkTick
  <1>3. CASE FarCommand \/ FarAnswer \/ Lose \/ Deliver \/ NearListener \/ NearTimers
             \/ UNCHANGED allVars
    <2>1. far_sender' = far_sender
      BY <1>3 DEF FarCommand, FarAnswer, Far!AnswerRequest, Far!rip_add_route, Far!delete_route,
                  Lose, Deliver, NearListener, NearTimers, allVars, farVars
    <2> QED
      BY <2>1 DEF Scheduled, AwakeAtOnce
  <1> QED
    BY <1>1, <1>2, <1>3 DEF LinkNext

LEMMA ScheduleInit == LinkInit => Scheduled /\ AwakeAtOnce
  <1> SUFFICES ASSUME LinkInit PROVE Scheduled /\ AwakeAtOnce
    OBVIOUS
  <1> DEFINE T == RIP_T_UPDATE
  <1>1. T \in Nat \ {0}
    BY Periods
  <1>2. PICK s \in 0 .. T - 1 :
          far_sender = [pc |-> "sleep", remaining |-> s, late |-> 0, clock |-> (T - s) % T]
    BY DEF LinkInit, Far!InitAdvertise
  <1>3. CASE s = 0
    <2>1. ((T - s) % T) + s = 0 + 0 * T
      BY <1>1, <1>3
    <2> QED
      BY <1>2, <2>1 DEF Scheduled, AwakeAtOnce
  <1>4. CASE s # 0
    <2>1. (T - s) % T = T - s
      BY <1>1, <1>4
    <2>2. ((T - s) % T) + s = 0 + 1 * T
      BY <1>1, <2>1
    <2> QED
      BY <1>2, <2>2 DEF Scheduled, AwakeAtOnce
  <1> QED
    BY <1>3, <1>4

(***************************************************************************)
(* rip_timers sends updates in a round if and only if what it has been     *)
(* late so far adds up to whole periods (ripv2.h:58): lateness is never    *)
(* made up for.                                                            *)
(***************************************************************************)
THEOREM LatenessDecides == LinkSpec => LatenessSilences
  <1> DEFINE Good == LinkTyped /\ Scheduled /\ AwakeAtOnce
  <1>1. LinkInit => Good
    BY LinkTypedInit, ScheduleInit
  <1>2. Good /\ [LinkNext]_allVars => Good'
    BY LinkTypedKept, ScheduleKept
  <1>3. ASSUME Good, Far!Wake
        PROVE  far_sender'.pc = "p1" <=> far_sender.late % RIP_T_UPDATE = 0
    <2> DEFINE T == RIP_T_UPDATE
    <2>1. /\ T \in Nat \ {0} /\ far_sender.clock \in 0 .. T - 1
          /\ far_sender.late \in Nat /\ far_sender.remaining = 0
      BY <1>3, LinkParts, Periods DEF Far!Sender, Far!Wake
    <2>2. PICK q \in Int : far_sender.clock + far_sender.remaining = far_sender.late + q * T
      BY <1>3 DEF Scheduled
    <2>3. PICK j \in Int : far_sender.late = far_sender.clock + j * T
      <3>1. -q \in Int /\ far_sender.late = far_sender.clock + (-q) * T
        BY <2>1, <2>2
      <3> QED
        BY <3>1
    <2>4. far_sender.late % T = far_sender.clock
      <3>1. T \in Nat \ {0}
        BY <2>1
      <3>2. far_sender.clock \in 0 .. T - 1
        BY <2>1
      <3>3. far_sender.late \in Nat
        BY <2>1
      <3> HIDE DEF T
      <3> QED
        BY <2>3, <3>1, <3>2, <3>3, Remainder, ZenonT(30)
    <2>5. far_sender'.pc = "p1" <=> far_sender.clock = 0
      BY <1>3, LinkParts DEF Far!Wake, Far!Due, Far!Sleep, Far!Sender
    <2> QED
      BY <2>4, <2>5
  <1>4. Good /\ [LinkNext]_allVars =>
          [Far!Wake => (far_sender'.pc = "p1" <=> far_sender.late % RIP_T_UPDATE = 0)]_allVars
    BY <1>3
  <1> QED
    BY <1>1, <1>2, <1>4, PTL DEF LinkSpec, LatenessSilences

(***************************************************************************)
(* A route that is advertised on time stays.  What the updates must be     *)
(* like: the route of one advertised network covers no other one, and an   *)
(* update is not longer than the length field of UDP can say.              *)
(***************************************************************************)
Apart(net, prefix) ==
  \A n \in RipNetwork : belongs_to_subnet(n, net, prefix) <=> n = net

\* The prefix the near router reads from the mask the far one has written.
Received(prefix) == mask_to_prefix(Far!Swap(Far!prefix_to_mask(prefix)))

FarMask == { FarRoutes[h].mask : h \in FarHandle }

NetworksApart ==
  \A net \in RipNetwork, prefix \in FarMask : Apart(net, Received(prefix))

Distinct == { e \in Truthful : Apart(e.ip, mask_to_prefix(e.mask)) }

UpdatesFit == \A i \in DOMAIN wire : Far!udp_len(wire[i]) < Far!UShorts

Ordinary == FarMemory(Distinct) /\ UpdatesFit

(***************************************************************************)
(* The masks of the far router's routes are those it was started with: the *)
(* rip command takes the mask of the route it finds.                       *)
(***************************************************************************)
FarMasks == \A h \in FarHandle : far_route[h].mask \in FarMask

LEMMA MasksCopied ==
  ASSUME Far!TableTypeOK, FarMasks, Far!rip_add_route
  PROVE  FarMasks'
  <1>1. PICK net \in RipNetwork, h \in Far!Free :
          /\ Far!routing_table_search(net) # NoRoute
          /\ Far!add_route(h, net, far_route[Far!routing_table_search(net)].mask,
                           far_route[Far!routing_table_search(net)].outgoing_interface,
                           Far!RIP_AD, {"DB"})
    BY DEF Far!rip_add_route
  <1> DEFINE r == Far!routing_table_search(net)
             mask == far_route[r].mask
             new == Far!NewRoute(net, mask, far_route[r].outgoing_interface,
                                 Far!RIP_AD, {"DB"})
  <1>2. r \in FarSide!Listed \cup {NoRoute}
    BY SameTable, SameSearch, FarConstants, FarSide!SearchFinds
  <1>3. r \in FarHandle
    BY <1>1, <1>2, SameTable, FarTyped DEF Far!Listed
  <1> HIDE DEF r
  <1>4. mask \in FarMask
    BY <1>3 DEF FarMasks
  <1>5. far_route' = [far_route EXCEPT ![h] = new]
    BY <1>1 DEF Far!add_route, r
  <1>6. new.mask = mask
    BY DEF Far!NewRoute
  <1> HIDE DEF mask, new
  <1>7. far_route \in [FarHandle -> Route]
    BY FarTyped
  <1> QED
    BY <1>4, <1>5, <1>6, <1>7 DEF FarMasks

LEMMA FarMasksKept ==
  ASSUME LinkTyped, FarMasks, [LinkNext]_allVars
  PROVE  FarMasks'
  <1>1. Far!TableTypeOK
    BY LinkParts
  <1>2. ASSUME UNCHANGED far_route PROVE FarMasks'
    BY <1>2 DEF FarMasks
  <1>3. CASE FarTimers \/ FarAnswer
    BY <1>2, <1>3, SenderTable DEF FarTimers, FarAnswer, FarTableVars
  <1>4. CASE FarCommand
    <2>1. CASE Far!rip_add_route
      BY <1>1, <2>1, MasksCopied
    <2>2. CASE Far!delete_route
      BY <1>2, <2>2 DEF Far!delete_route, Far!LL_delete, Far!tableVars
    <2> QED
      BY <1>4, <2>1, <2>2 DEF FarCommand
  <1>5. CASE Lose \/ Deliver \/ NearListener \/ NearTimers \/ LinkTick \/ UNCHANGED allVars
    BY <1>2, <1>5 DEF Lose, Deliver, NearListener, NearTimers, LinkTick, allVars, farVars
  <1> QED
    BY <1>3, <1>4, <1>5 DEF LinkNext

(***************************************************************************)
(* So all that is on the wire and in the listener's hands is distinct.     *)
(***************************************************************************)
DistinctLink ==
  /\ FarNetworks /\ FarMasks
  /\ WireOf(Distinct)
  /\ listener[Link].todo \in Seq(Distinct)

LEMMA UpdatesDistinct ==
  ASSUME NetworksApart, Far!TableTypeOK, FarNetworks, FarMasks
  PROVE  FarEntries(Distinct)
  <1> SUFFICES ASSUME NEW i \in Far!Database
               PROVE  Far!EntryOf(far_ll[i]) \in Distinct
    BY DEF FarEntries
  <1> DEFINE h == far_ll[i]
             e == Far!EntryOf(h)
  <1>1. e \in Truthful
    BY UpdatesTruthful DEF FarEntries
  <1>2. h \in FarHandle /\ far_route[h].network \in RipNetwork
    BY DatabaseFinite DEF FarNetworks
  <1>3. Apart(far_route[h].network, Received(far_route[h].mask))
    BY <1>2 DEF FarMasks, NetworksApart
  <1>4. /\ e.ip = far_route[h].network
        /\ e.mask = Far!Swap(Far!prefix_to_mask(far_route[h].mask))
    BY DEF Far!EntryOf
  <1> QED
    BY <1>1, <1>3, <1>4 DEF Distinct, Received

LEMMA DistinctKept ==
  ASSUME NetworksApart, LinkTyped, DistinctLink, Ordinary, [LinkNext]_allVars
  PROVE  DistinctLink'
  <1>1. Far!TableTypeOK /\ FarNetworks /\ FarMasks /\ WireOf(Distinct)
    BY LinkParts DEF DistinctLink
  <1>2. FarEntries(Distinct) /\ FarMemory(Distinct)
    BY <1>1, UpdatesDistinct DEF Ordinary
  <1>3. WireOf(Distinct)'
    BY <1>1, <1>2, WireKept
  <1>4. FarNetworks' /\ FarMasks'
    BY <1>1, FarKeeps, FarMasksKept
  <1>5. listener'[Link].todo \in Seq(Distinct)
    BY <1>1, TodoKept DEF DistinctLink
  <1> QED
    BY <1>3, <1>4, <1>5 DEF DistinctLink

(***************************************************************************)
(* What the timers and the clock do to a route: they add at most a second  *)
(* to its age and never touch its network, mask or distance.               *)
(***************************************************************************)
SameRoute(h) ==
  /\ route'[h].network = route[h].network
  /\ route'[h].mask = route[h].mask
  /\ route'[h].ad = route[h].ad
  /\ "DB" \in route'[h].flags => "DB" \in route[h].flags

NoOlder(h) == route'[h].age \in Nat /\ route'[h].age <= route[h].age

LEMMA TimersTouch ==
  ASSUME Inv, TimersStep \/ TimersCrash, NEW h \in Handle
  PROVE  SameRoute(h) /\ NoOlder(h)
  <1>1. route \in [Handle -> Route] /\ route[h].age \in Nat
    BY RoutingTableAssumption DEF Inv, TypeOK, TableTypeOK, Route
  <1>2. CASE UNCHANGED route
    BY <1>1, <1>2 DEF SameRoute, NoOlder
  <1>3. CASE TimersVisit
    <2>1. timers.curr \in Handle
      BY <1>3 DEF TimersVisit, Inv, TypeOK, TimersState
    <2>2. CASE SetFlush(timers.curr)
      BY <1>1, <2>1, <2>2 DEF SetFlush, SameRoute, NoOlder, Route, FLG_ADD, FLG_RM
    <2>3. CASE SetInvalid(timers.curr)
      BY <1>1, <2>1, <2>3 DEF SetInvalid, SameRoute, NoOlder, Route, FLG_ADD
    <2> QED
      BY <1>2, <1>3, <2>2, <2>3 DEF TimersVisit, NothingDue
  <1>4. CASE TimersStart \/ TimersSleep \/ TimersFind \/ TimersUnlink \/ TimersNext
             \/ TimersCrash
    BY <1>2, <1>4 DEF TimersStart, TimersSleep, TimersFind, TimersUnlink, TimersNext,
                      TimersCrash, tableVars, LL_delete
  <1> QED
    BY <1>3, <1>4 DEF TimersStep

LEMMA TickTouches ==
  ASSUME Inv, Tick, NEW h \in Handle
  PROVE  /\ SameRoute(h)
         /\ route'[h].age \in Nat /\ route'[h].age <= route[h].age + 1
  <1>1. route[h] \in Route /\ MaxAge \in Nat
    BY RoutingTableAssumption DEF Inv, TypeOK, TableTypeOK
  <1>2. route'[h] = [route[h] EXCEPT !.age = Older(route[h].age)]
    BY DEF Tick
  <1>3. Older(route[h].age) \in Nat /\ Older(route[h].age) <= route[h].age + 1
    BY <1>1 DEF Older, Route
  <1> QED
    BY <1>1, <1>2, <1>3 DEF Route, SameRoute

(***************************************************************************)
(* The near table: each learned route is apart from the networks of the    *)
(* others, no network is learned twice, and the route in the listener's    *)
(* hands is the one of the entry in its hands, if there is one.            *)
(***************************************************************************)
LearnedApart(h) ==
  route[h].ad = RIP_AD =>
    /\ "DB" \notin route[h].flags
    /\ route[h].network \in RipNetwork
    /\ Apart(route[h].network, route[h].mask)

InHandIsKnown ==
  listener[Link].pc = "apply" =>
    LET r   == listener[Link].r
        net == EntryInHand(Link).ip
    IN  /\ \A h \in Listed : Learned(h) /\ route[h].network = net => h = r
        /\ r # NoRoute /\ route[r].ad = RIP_AD => route[r].network = net

NearInv ==
  /\ \A h \in Handle : LearnedApart(h)
  /\ LearnedOnce
  /\ InHandIsKnown

LEMMA NearTyped ==
  ASSUME Inv
  PROVE  /\ Link \in Port /\ TableTypeOK
         /\ listener \in [Port -> ListenerState]
         /\ listener[Link] \in ListenerState
         /\ listener[Link].r \in Handle \cup {NoRoute}
         /\ route \in [Handle -> Route]
         /\ Listed \subseteq Handle /\ NoRoute \notin Handle
         /\ listener[Link].pc = "apply" => listener[Link].todo # << >>
  <1>1. Link \in Port
    BY NeighboursAssumption, RipAssumption
  <1>2. TableTypeOK /\ listener \in [Port -> ListenerState]
    BY DEF Inv, TypeOK
  <1> QED
    BY <1>1, <1>2, RoutingTableAssumption
       DEF Inv, InHands, ListenerState, TableTypeOK, Listed

\* A step of the timers or the clock, or one that leaves the table alone.
LEMMA NearSame ==
  ASSUME Inv, NearInv, NoneLearned, \A h \in Handle : SameRoute(h),
         listener'[Link] = listener[Link] \/ listener'[Link].pc = "search"
  PROVE  NearInv'
  <1>1. \A h \in Handle : LearnedApart(h)'
    BY DEF NearInv, LearnedApart, SameRoute
  <1>2. LearnedOnce'
    BY DEF NearInv, LearnedOnce, NoneLearned
  <1>3. InHandIsKnown'
    <2>1. CASE listener'[Link] = listener[Link]
      <3>1. EntryInHand(Link)' = EntryInHand(Link)
        BY <2>1 DEF EntryInHand
      <3>2. listener[Link].r \in Handle \cup {NoRoute} /\ InHandIsKnown
        BY NearTyped DEF NearInv
      <3> QED
        BY <2>1, <3>1, <3>2 DEF InHandIsKnown, NoneLearned, SameRoute
    <2>2. CASE listener'[Link].pc = "search"
      BY <2>2 DEF InHandIsKnown
    <2> QED
      BY <2>1, <2>2
  <1> QED
    BY <1>1, <1>2, <1>3 DEF NearInv

LEMMA EntryIsDistinct ==
  ASSUME Inv, DistinctLink, listener[Link].todo # << >>
  PROVE  /\ EntryInHand(Link) \in Distinct
         /\ EntryInHand(Link).ip \in RipNetwork
         /\ Apart(EntryInHand(Link).ip, mask_to_prefix(EntryInHand(Link).mask))
  <1>1. EntryInHand(Link) \in Distinct
    BY DEF DistinctLink, EntryInHand, Last
  <1> QED
    BY <1>1 DEF Distinct, Truthful

LEMMA SearchKnows ==
  ASSUME Inv, NearInv, DistinctLink, ListenerSearch(Link)
  PROVE  NearInv'
  <1> DEFINE net   == EntryInHand(Link).ip
             found == routing_table_search(net)
             new   == [listener[Link] EXCEPT !.pc = "apply", !.r = found]
  <1>1. listener' = [listener EXCEPT ![Link] = new]
    BY DEF ListenerSearch
  <1>2. new.todo = listener[Link].todo /\ new.r = found
    BY NearTyped DEF ListenerState
  <1>3. UNCHANGED <<routes_ll, route>>
    BY DEF ListenerSearch, tableVars
  <1>4. net \in RipNetwork
    BY EntryIsDistinct DEF ListenerSearch
  <1>5. /\ found \in Listed \cup {NoRoute}
        /\ found # NoRoute => Covers(found, net)
        /\ \A h \in Listed : Covers(h, net) => found # NoRoute /\ route[h].ad <= route[found].ad
    BY NearTyped, SearchFinds, SearchPrefers
  <1> HIDE DEF found, new
  <1>6. listener'[Link] = new
    BY <1>1, NearTyped
  <1>7. EntryInHand(Link)' = EntryInHand(Link)
    BY <1>2, <1>6 DEF EntryInHand
  <1> HIDE DEF net
  <1>8. ASSUME found # NoRoute, route[found].ad = RIP_AD
        PROVE  route[found].network = net /\ Learned(found) /\ found \in Listed
    <2>1. found \in Listed /\ found \in Handle /\ LearnedApart(found)
      BY <1>5, <1>8, NearTyped DEF NearInv
    <2>2. belongs_to_subnet(net, route[found].network, route[found].mask)
      BY <1>5, <1>8 DEF Covers
    <2> QED
      BY <1>4, <1>8, <2>1, <2>2 DEF LearnedApart, Apart, Learned, FLG_CHK
  <1>9. ASSUME NEW h \in Listed, Learned(h), route[h].network = net
        PROVE  h = found
    <2>1. route[h].ad = RIP_AD /\ ~ FLG_CHK(route[h].flags, "DB") /\ h \in Handle
      BY <1>9, NearTyped DEF Learned
    <2>2. belongs_to_subnet(net, route[h].network, route[h].mask)
      BY <1>4, <1>9, <2>1 DEF NearInv, LearnedApart, Apart
    <2>3. Covers(h, net)
      BY <2>1, <2>2 DEF Covers
    <2>4. found \in Handle /\ found # NoRoute /\ 110 <= route[found].ad
      BY <1>5, <2>1, <2>3, NearTyped DEF RIP_AD
    <2>5. route[found].ad = RIP_AD
      BY <2>4, NearTyped DEF Route, RIP_AD, STATIC_AD, DIRECTLY_CONNECTED_AD
    <2> QED
      BY <1>8, <1>9, <2>4, <2>5 DEF NearInv, LearnedOnce
  <1>10. InHandIsKnown'
    BY <1>2, <1>3, <1>6, <1>7, <1>8, <1>9 DEF InHandIsKnown, net, Listed, Learned
  <1>11. (\A h \in Handle : LearnedApart(h)') /\ LearnedOnce'
    BY <1>3 DEF NearInv, LearnedApart, LearnedOnce, Listed, Learned
  <1> QED
    BY <1>10, <1>11 DEF NearInv

(***************************************************************************)
(* The three things RIP_parse_entry can do with an entry.                  *)
(***************************************************************************)
Refreshes ==
  LET r == listener[Link].r
      e == EntryInHand(Link)
  IN  /\ r \in Handle /\ Listed' = Listed
      /\ \A h \in Handle : h # r => route'[h] = route[h]
      /\ route[r].ad = RIP_AD
      /\ route'[r].network = route[r].network /\ route'[r].ad = route[r].ad
      /\ route'[r].flags = route[r].flags
      /\ route'[r].mask = mask_to_prefix(e.mask) /\ route'[r].age = 0

Ignores ==
  /\ listener[Link].r \in Handle /\ route[listener[Link].r].ad # RIP_AD
  /\ UNCHANGED <<routes_ll, route>>

Learns ==
  LET e == EntryInHand(Link)
  IN  /\ listener[Link].r = NoRoute
      /\ \E h \in Handle :
           /\ h \notin Listed /\ Listed' \subseteq Listed \cup {h}
           /\ \A g \in Handle : g # h => route'[g] = route[g]
           /\ route'[h].network = e.ip /\ route'[h].ad = RIP_AD
           /\ route'[h].flags = {}
           /\ route'[h].mask = mask_to_prefix(e.mask) /\ route'[h].age = 0

LEMMA ApplyDoes ==
  ASSUME Inv, ListenerApply(Link)
  PROVE  Refreshes \/ Ignores \/ Learns
  <1> DEFINE r == listener[Link].r
             e == EntryInHand(Link)
  <1>1. IF r # NoRoute THEN RefreshRoute(r, e) ELSE LearnRoute(Link, e)
    BY DEF ListenerApply
  <1>2. r \in Handle \cup {NoRoute} /\ route \in [Handle -> Route]
    BY NearTyped
  <1>3. CASE r # NoRoute /\ route[r].ad = RIP_AD
    <2>1. route' = [route EXCEPT ![r].age    = 0,
                                 ![r].metric = NewMetric(e.metric),
                                 ![r].mask   = mask_to_prefix(e.mask)]
      BY <1>1, <1>3 DEF RefreshRoute
    <2>2. r \in Handle /\ route[r] \in Route /\ Listed' = Listed
      BY <1>1, <1>2, <1>3 DEF RefreshRoute, Listed
    <2>3. \A h \in Handle : h # r => route'[h] = route[h]
      BY <1>2, <2>1
    <2>4. /\ route'[r].network = route[r].network /\ route'[r].ad = route[r].ad
          /\ route'[r].flags = route[r].flags
          /\ route'[r].mask = mask_to_prefix(e.mask) /\ route'[r].age = 0
      <3> HIDE DEF e, r
      <3> QED
        BY <1>2, <2>1, <2>2 DEF Route
    <2> QED
      BY <1>3, <2>2, <2>3, <2>4 DEF Refreshes
  <1>4. CASE r # NoRoute /\ route[r].ad # RIP_AD
    BY <1>1, <1>2, <1>4 DEF RefreshRoute, Ignores
  <1>5. CASE r = NoRoute
    <2>1. PICK h \in FreshHandle : add_route(h, e.ip, mask_to_prefix(e.mask), Link, RIP_AD, {})
      BY <1>1, <1>5 DEF LearnRoute
    <2>2. h \in Handle /\ h \notin Listed
      BY DEF FreshHandle
    <2>3. Listed' \subseteq Listed \cup {h}
      BY <2>1, <2>2, NearTyped, ListedAfterAdd DEF add_route
    <2> DEFINE new == NewRoute(e.ip, mask_to_prefix(e.mask), Link, RIP_AD, {})
    <2>4. route' = [route EXCEPT ![h] = new]
      BY <2>1 DEF add_route
    <2>5. /\ new.network = e.ip /\ new.ad = RIP_AD /\ new.flags = {}
          /\ new.mask = mask_to_prefix(e.mask) /\ new.age = 0
      BY DEF NewRoute
    <2> HIDE DEF new
    <2>6. route'[h] = new /\ \A g \in Handle : g # h => route'[g] = route[g]
      BY <1>2, <2>2, <2>4
    <2> QED
      BY <1>5, <2>2, <2>3, <2>5, <2>6 DEF Learns
  <1> QED
    BY <1>2, <1>3, <1>4, <1>5

LEMMA ApplyKnows ==
  ASSUME Inv, NearInv, DistinctLink, ListenerApply(Link)
  PROVE  NearInv'
  <1> DEFINE r == listener[Link].r
             e == EntryInHand(Link)
  <1>1. /\ e.ip \in RipNetwork /\ Apart(e.ip, mask_to_prefix(e.mask))
        /\ Listed \subseteq Handle
    BY NearTyped, EntryIsDistinct DEF ListenerApply
  <1>2. /\ \A h \in Listed : Learned(h) /\ route[h].network = e.ip => h = r
        /\ r # NoRoute /\ route[r].ad = RIP_AD => route[r].network = e.ip
    BY DEF ListenerApply, NearInv, InHandIsKnown
  <1>3. InHandIsKnown'
    <2>1. listener' = [listener EXCEPT ![Link] = [listener[Link] EXCEPT
                         !.pc = "search", !.todo = Front(listener[Link].todo), !.r = NoRoute]]
      BY DEF ListenerApply
    <2>2. listener'[Link].pc = "search"
      BY <2>1, NearTyped DEF ListenerState
    <2> QED
      BY <2>2 DEF InHandIsKnown
  <1>4. CASE Refreshes
    <2>1. route[r].network = e.ip /\ r \in Handle /\ r # NoRoute
      BY <1>2, <1>4, NearTyped DEF Refreshes
    <2>2. PICK g \in Handle : g = r
      BY <2>1
    <2>3. \A h \in Handle : LearnedApart(h)'
      <3>1. LearnedApart(g)'
        BY <1>1, <1>4, <2>1, <2>2 DEF Refreshes, NearInv, LearnedApart
      <3>2. ASSUME NEW h \in Handle, h # g PROVE LearnedApart(h)'
        BY <1>4, <2>2, <3>2 DEF Refreshes, NearInv, LearnedApart
      <3> QED
        BY <3>1, <3>2
    <2>4. LearnedOnce'
      <3>1. \A h \in Listed : /\ route'[h].network = route[h].network
                              /\ Learned(h)' <=> Learned(h)
        BY <1>1, <1>4 DEF Refreshes, Learned
      <3> QED
        BY <1>4, <3>1 DEF Refreshes, NearInv, LearnedOnce
    <2> QED
      BY <1>3, <2>3, <2>4 DEF NearInv
  <1>5. CASE Ignores
    BY <1>3, <1>5 DEF Ignores, NearInv, LearnedApart, LearnedOnce, Listed, Learned
  <1>6. CASE Learns
    <2>1. PICK h \in Handle :
            /\ h \notin Listed /\ Listed' \subseteq Listed \cup {h}
            /\ \A g \in Handle : g # h => route'[g] = route[g]
            /\ route'[h].network = e.ip /\ route'[h].ad = RIP_AD
            /\ route'[h].flags = {}
            /\ route'[h].mask = mask_to_prefix(e.mask)
      BY <1>6 DEF Learns
    <2>2. \A g \in Handle : LearnedApart(g)'
      BY <1>1, <2>1 DEF NearInv, LearnedApart
    <2>3. \A g \in Listed : Learned(g) => route[g].network # e.ip
      BY <1>1, <1>2, <1>6, NearTyped DEF Learns
    <2>4. \A g \in Listed : route'[g] = route[g] /\ (Learned(g)' <=> Learned(g))
      BY <1>1, <2>1 DEF Learned
    <2>5. LearnedOnce'
      <3> SUFFICES ASSUME NEW f \in Listed', NEW g \in Listed', Learned(f)', Learned(g)',
                          route'[f].network = route'[g].network
                   PROVE  f = g
        BY DEF LearnedOnce
      <3>1. CASE f = h \/ g = h
        BY <2>1, <2>3, <2>4, <3>1
      <3>2. CASE f \in Listed /\ g \in Listed
        BY <2>4, <3>2 DEF NearInv, LearnedOnce
      <3> QED
        BY <2>1, <3>1, <3>2
    <2> QED
      BY <1>3, <2>2, <2>5 DEF NearInv
  <1> QED
    BY <1>4, <1>5, <1>6, ApplyDoes

LEMMA NearKept ==
  ASSUME LinkTyped, NearInv, DistinctLink, [LinkNext]_allVars
  PROVE  NearInv'
  <1>1. Inv
    BY LinkParts
  <1>2. ASSUME UNCHANGED tableVars,
               listener'[Link] = listener[Link] \/ listener'[Link].pc = "search"
        PROVE  NearInv'
    <2>1. NoneLearned /\ \A h \in Handle : SameRoute(h)
      BY <1>2 DEF tableVars, NoneLearned, Listed, Learned, SameRoute
    <2> QED
      BY <1>1, <1>2, <2>1, NearSame
  <1>3. CASE NearListener
    BY <1>1, <1>3, SearchKnows, ApplyKnows DEF NearListener, ListenerStep
  <1>4. CASE NearTimers
    <2>1. TimersStep \/ TimersCrash
      BY <1>4 DEF NearTimers
    <2>2. NoneLearned /\ listener' = listener /\ \A h \in Handle : SameRoute(h)
      BY <1>1, <2>1, TimersLearnNothing, TimersTouch
    <2> QED
      BY <1>1, <2>2, NearSame
  <1>5. CASE LinkTick
    <2>1. NoneLearned /\ listener' = listener /\ \A h \in Handle : SameRoute(h)
      BY <1>1, <1>5, TimersLearnNothing, TickTouches DEF LinkTick
    <2> QED
      BY <1>1, <2>1, NearSame
  <1>6. CASE Deliver
    <2>1. listener'[Link].pc = "search"
      <3>1. listener' = [listener EXCEPT ![Link].todo =
              SubSeq(Head(wire), 1, Far!number_of_rip_entries(Far!udp_len(Head(wire))))]
        BY <1>6 DEF Deliver
      <3>2. listener[Link].pc = "search"
        BY <1>6 DEF Deliver, IdleListener
      <3> QED
        BY <1>1, <3>1, <3>2, NearTyped DEF ListenerState
    <2> QED
      BY <1>2, <1>6, <2>1 DEF Deliver
  <1>7. CASE FarTimers \/ FarCommand \/ FarAnswer \/ Lose \/ UNCHANGED allVars
    BY <1>2, <1>7 DEF FarTimers, FarCommand, FarAnswer, Lose, allVars, vars
  <1> QED
    BY <1>3, <1>4, <1>5, <1>6, <1>7 DEF LinkNext

(***************************************************************************)
(* How old a route can be.  Since is what its age is at most when the last *)
(* update has been worked off: the seconds since rip_timers last went to   *)
(* sleep.  A route whose update is on its way may be one round older.      *)
(***************************************************************************)
Since == IF far_sender.pc = "p2" /\ Link = P1 THEN 0 ELSE CHECK_EVERY - far_sender.remaining

Coming ==
  Networks(listener[Link].todo) \cup UNION { Networks(wire[i]) : i \in DOMAIN wire }

InTime ==
  \A h \in Listed : Learned(h) /\ route[h].network \notin missed =>
    \/ route[h].age <= Since
    \/ route[h].network \in Coming /\ route[h].age <= CHECK_EVERY

LEMMA SinceType ==
  ASSUME LinkTyped
  PROVE  /\ CHECK_EVERY \in Nat /\ far_sender.remaining \in 0 .. CHECK_EVERY
         /\ Since \in 0 .. CHECK_EVERY
  BY LinkParts, Periods DEF Far!Sender, Since

LEMMA AgeType ==
  ASSUME Inv
  PROVE  \A h \in Handle : route[h].age \in Nat
  BY NearTyped, RoutingTableAssumption DEF Route

\* A step that makes no route older and no update vanish.
LEMMA AgesSame ==
  ASSUME LinkTyped, LinkTyped', InTime, NoneLearned, \A h \in Handle : NoOlder(h),
         missed \subseteq missed', Since <= Since', Coming \subseteq Coming'
  PROVE  InTime'
  <1>1. SUFFICES ASSUME NEW h \in Listed', Learned(h)', route'[h].network \notin missed'
                 PROVE  \/ route'[h].age <= Since'
                        \/ route'[h].network \in Coming' /\ route'[h].age <= CHECK_EVERY
    BY DEF InTime
  <1>2. Inv /\ h \in Listed /\ h \in Handle /\ Learned(h) /\ route'[h].network = route[h].network
    BY <1>1, LinkParts, NearTyped DEF NoneLearned
  <1>3. /\ route'[h].age \in Nat /\ route'[h].age <= route[h].age /\ route[h].age \in Nat
    BY <1>2, AgeType DEF NoOlder
  <1>4. /\ CHECK_EVERY \in Nat /\ Since \in Int
    BY SinceType
  <1>5. Since' \in Int
    BY <1>4, LinkParts DEF LinkTyped, Since, Far!AdvertiseTypeOK, Far!Sender
  <1> QED
    BY <1>1, <1>2, <1>3, <1>4, <1>5 DEF InTime

LEMMA AllMissed ==
  ASSUME Inv', NearInv', missed' = RipNetwork
  PROVE  InTime'
  <1>1. Listed' \subseteq Handle
    BY DEF Inv, TypeOK, TableTypeOK, Listed
  <1> QED
    BY <1>1 DEF InTime, NearInv, LearnedApart, Learned

\* An update that is sent carries all that is not missed.
LEMMA AgesSent ==
  ASSUME LinkTyped, InTime, NEW u, wire' = Append(wire, u),
         UNCHANGED vars, missed' = missed \cup (RipNetwork \ Networks(u)), NearInv
  PROVE  InTime'
  <1>1. Inv /\ WireOf(Entry)
    BY LinkParts
  <1>2. Networks(u) \subseteq Coming'
    <2>1. wire'[Len(wire) + 1] = u /\ Len(wire) + 1 \in DOMAIN wire'
      BY <1>1 DEF WireOf
    <2> QED
      BY <2>1 DEF Coming
  <1>3. SUFFICES ASSUME NEW h \in Listed, Learned(h), route[h].network \notin missed'
                 PROVE  route[h].network \in Coming' /\ route[h].age <= CHECK_EVERY
    BY DEF InTime, vars, tableVars, Listed, Learned
  <1>4. route[h].network \in RipNetwork /\ h \in Handle
    BY <1>1, <1>3, NearTyped DEF NearInv, LearnedApart, Learned
  <1>5. route[h].network \in Networks(u) /\ route[h].network \notin missed
    BY <1>3, <1>4
  <1>6. route[h].age \in Nat
    BY <1>1, <1>4, AgeType
  <1>7. route[h].age <= CHECK_EVERY
    BY <1>3, <1>5, <1>6, SinceType DEF InTime
  <1> QED
    BY <1>2, <1>5, <1>7

LEMMA CountOfEntries ==
  ASSUME NEW k \in Nat, NEW t \in Nat, t = 20 * k, t < 65536
  PROVE  t % 65536 = t /\ t % 20 = 0 /\ t \div 20 = k
  <1>1. t % 65536 = t
    OBVIOUS
  <1>2. t % 20 = 0
    OBVIOUS
  <1>3. t \div 20 = k
    OBVIOUS
  <1> QED
    BY <1>1, <1>2, <1>3

LEMMA EntriesAllRead ==
  ASSUME NEW S, NEW u \in Seq(S), Far!udp_len(u) < Far!UShorts
  PROVE  Far!number_of_rip_entries(Far!udp_len(u)) = Len(u)
  <1> DEFINE total == Far!udp_len(u) - 8 - 4
  <1>1. Len(u) \in Nat /\ Far!udp_len(u) = 12 + 20 * Len(u)
    BY DEF Far!udp_len, Far!sizeof_udp_h, Far!sizeof_rip_h, Far!sizeof_rip_entry_h
  <1>2. total \in Nat /\ total = 20 * Len(u) /\ total < 65536
    BY <1>1 DEF Far!UShorts
  <1> HIDE DEF total
  <1>3. total % 65536 = total /\ total % 20 = 0 /\ total \div 20 = Len(u)
    BY <1>1, <1>2, CountOfEntries
  <1>4. Far!number_of_rip_entries(Far!udp_len(u)) =
          IF (total % 65536) % 20 # 0 THEN -1 ELSE (total % 65536) \div 20
    BY DEF Far!number_of_rip_entries, Far!UShorts, Far!sizeof_udp_h,
           Far!sizeof_rip_h, Far!sizeof_rip_entry_h, total
  <1> QED
    BY <1>3, <1>4

LEMMA ComingDelivered ==
  ASSUME LinkTyped, UpdatesFit, Deliver
  PROVE  Coming \subseteq Coming'
  <1>1. /\ Inv /\ wire \in Seq(Seq(Entry)) /\ wire # << >>
        /\ wire' = Tail(wire) /\ listener[Link].todo = << >>
    BY LinkParts DEF WireOf, Deliver, IdleListener
  <1>2. /\ Head(wire) \in Seq(Entry) /\ Head(wire) = wire[1]
        /\ Far!udp_len(Head(wire)) < Far!UShorts
    BY <1>1 DEF UpdatesFit
  <1> DEFINE n == Far!number_of_rip_entries(Far!udp_len(Head(wire)))
             todo == SubSeq(Head(wire), 1, n)
  <1>3. n = Len(Head(wire))
    BY <1>2, EntriesAllRead
  <1>4. Networks(todo) = Networks(Head(wire))
    <2> DEFINE u == Head(wire)
    <2>1. u \in Seq(Entry) /\ todo = SubSeq(u, 1, Len(u))
      BY <1>2, <1>3
    <2> HIDE DEF u, todo
    <2>2. DOMAIN todo = DOMAIN u /\ \A i \in DOMAIN u : todo[i] = u[i]
      BY <2>1
    <2>3. Networks(todo) = Networks(u)
      BY <2>2 DEF Networks
    <2> QED
      BY <2>3 DEF u
  <1>5. listener'[Link].todo = todo
    <2>1. listener' = [listener EXCEPT ![Link].todo = todo]
      BY DEF Deliver
    <2> HIDE DEF todo
    <2> QED
      BY <1>1, <2>1, NearTyped DEF ListenerState
  <1>6. Networks(Head(wire)) \subseteq Coming'
    BY <1>4, <1>5 DEF Coming
  <1>7. ASSUME NEW i \in DOMAIN wire PROVE Networks(wire[i]) \subseteq Coming'
    <2>1. CASE i = 1
      BY <1>2, <1>6, <2>1
    <2>2. CASE i # 1
      <3>1. i - 1 \in DOMAIN wire' /\ wire'[i - 1] = wire[i]
        BY <1>1, <2>2
      <3> QED
        BY <3>1 DEF Coming
    <2> QED
      BY <2>1, <2>2
  <1>8. Networks(listener[Link].todo) = {}
    BY <1>1 DEF Networks
  <1>9. Coming = UNION { Networks(wire[i]) : i \in DOMAIN wire }
    BY <1>8 DEF Coming
  <1> QED
    BY <1>7, <1>9

LEMMA ComingKept ==
  ASSUME LinkTyped, listener' = listener,
         UNCHANGED wire \/ \E u : wire' = Append(wire, u)
  PROVE  Coming \subseteq Coming'
  <1>1. wire \in Seq(Seq(Entry))
    BY LinkParts DEF WireOf
  <1>2. ASSUME NEW i \in DOMAIN wire PROVE i \in DOMAIN wire' /\ wire'[i] = wire[i]
    <2>1. CASE UNCHANGED wire
      BY <2>1
    <2>2. ASSUME NEW u, wire' = Append(wire, u)
          PROVE  i \in DOMAIN wire' /\ wire'[i] = wire[i]
      <3>1. i \in 1 .. Len(wire) /\ Len(wire) \in Nat
        BY <1>1
      <3>2. i \in DOMAIN wire'
        BY <1>1, <2>2, <3>1
      <3>3. wire'[i] = wire[i]
        BY <1>1, <2>2, <3>1
      <3> QED
        BY <3>2, <3>3
    <2> QED
      BY <2>1, <2>2
  <1>3. UNION { Networks(wire[i]) : i \in DOMAIN wire } \subseteq Coming'
    BY <1>2 DEF Coming
  <1> QED
    BY <1>3 DEF Coming

\* A step that leaves the near router alone.
LEMMA NearAlone ==
  ASSUME LinkTyped, UNCHANGED vars
  PROVE  NoneLearned /\ (\A h \in Handle : NoOlder(h)) /\ listener' = listener
  BY LinkParts, AgeType DEF vars, tableVars, NoneLearned, Listed, Learned, NoOlder

LEMMA RoundInTime ==
  ASSUME LinkTyped, LinkTyped', NearInv, NearInv', InTime, FarTimers
  PROVE  InTime'
  <1>0. /\ Inv' /\ UNCHANGED vars /\ Far!SenderStep
        /\ missed' = IF Skipped \/ (Sending /\ Len(wire') = Len(wire)) THEN RipNetwork
                     ELSE IF Sending THEN missed \cup (RipNetwork \ Networks(Last(wire')))
                     ELSE missed
    BY DEF FarTimers, LinkTyped
  <1>1. /\ far_sender \in Far!Sender /\ wire \in Seq(Seq(Entry))
        /\ CHECK_EVERY \in Nat
        /\ Since \in 0 .. CHECK_EVERY
        /\ far_sender.remaining \in 0 .. CHECK_EVERY
    BY LinkParts, SinceType DEF WireOf
  <1>2. UNCHANGED wire \/ \E u : wire' = Append(wire, u)
    BY <1>0 DEF Far!SenderStep, Far!Wake, Far!Update1, Far!Update2, Far!Inject
  <1>3. CASE Skipped \/ (Sending /\ Len(wire') = Len(wire))
    BY <1>0, <1>3, AllMissed
  <1>4. CASE Sending /\ Len(wire') # Len(wire)
    <2>1. PICK u : wire' = Append(wire, u)
      BY <1>2, <1>4
    <2>2. Last(wire') = u
      BY <1>1, <2>1 DEF Last
    <2>3. ~ Skipped
      BY <1>4, <2>1 DEF Skipped, Far!Wake
    <2>4. missed' = missed \cup (RipNetwork \ Networks(u))
      BY <1>0, <1>4, <2>2, <2>3
    <2> QED
      BY <1>0, <2>1, <2>4, AgesSent
  <1>5. CASE ~ Skipped /\ ~ Sending
    <2>1. missed' = missed
      BY <1>0, <1>5
    <2>2. Since <= Since'
      <3>1. CASE Far!Wake
        <4>1. far_sender.pc = "sleep" /\ far_sender' = [far_sender EXCEPT !.pc = "p1"]
          BY <1>1, <1>5, <3>1 DEF Far!Wake, Skipped, Far!Sleep, Far!Sender
        <4>2. far_sender'.pc = "p1" /\ far_sender'.remaining = far_sender.remaining
          BY <1>1, <4>1 DEF Far!Sender
        <4> QED
          BY <1>1, <4>1, <4>2 DEF Since
      <3>2. CASE Far!Update1
        <4>1. far_sender.pc = "p1" /\ far_sender' = [far_sender EXCEPT !.pc = "p2"]
          BY <3>2 DEF Far!Update1
        <4>2. far_sender'.pc = "p2" /\ far_sender'.remaining = far_sender.remaining
          BY <1>1, <4>1 DEF Far!Sender
        <4>3. Link # P1
          BY <1>5, <4>1 DEF Sending
        <4> QED
          BY <1>1, <4>1, <4>2, <4>3 DEF Since
      <3>3. CASE Far!Update2
        <4>1. far_sender.pc = "p2" /\ far_sender' = Far!Sleep
          BY <3>3 DEF Far!Update2
        <4>2. far_sender'.pc = "sleep" /\ far_sender'.remaining = CHECK_EVERY
          BY <1>1, <4>1 DEF Far!Sleep, Far!Sender
        <4>3. Link = P1
          BY <1>5, <4>1 DEF Sending
        <4> QED
          BY <1>1, <4>1, <4>2, <4>3 DEF Since
      <3> QED
        BY <1>0, <3>1, <3>2, <3>3 DEF Far!SenderStep
    <2>3. NoneLearned /\ (\A h \in Handle : NoOlder(h)) /\ listener' = listener
      BY <1>0, NearAlone
    <2>4. Coming \subseteq Coming'
      BY <1>2, <2>3, ComingKept
    <2> QED
      BY <2>1, <2>2, <2>3, <2>4, AgesSame
  <1> QED
    BY <1>3, <1>4, <1>5

LEMMA SecondInTime ==
  ASSUME LinkTyped, LinkTyped', NearInv', InTime, LinkTick
  PROVE  InTime'
  <1>1. /\ Inv /\ Inv' /\ Settled /\ Tick /\ Far!Second
        /\ missed' = IF Far!Awake THEN RipNetwork ELSE missed
    BY LinkParts DEF LinkTick, LinkTyped
  <1>2. CASE Far!Awake
    BY <1>1, <1>2, AllMissed
  <1>3. CASE ~ Far!Awake
    <2>1. /\ CHECK_EVERY \in Nat /\ far_sender.remaining \in 0 .. CHECK_EVERY
          /\ far_sender.pc = "sleep" /\ far_sender.remaining # 0
      BY <1>3, SinceType DEF Far!Awake
    <2>2. far_sender'.pc = "sleep" /\ far_sender'.remaining = far_sender.remaining - 1
      BY <1>1, <2>1, LinkParts DEF Far!Second, Far!Sender
    <2>3. Since' = Since + 1 /\ Since \in Nat
      BY <2>1, <2>2 DEF Since
    <2>4. Coming = {}
      BY <1>1 DEF Settled, Coming, Networks, IdleListener
    <2>5. SUFFICES ASSUME NEW h \in Listed', Learned(h)', route'[h].network \notin missed'
                   PROVE  route'[h].age <= Since'
      BY DEF InTime
    <2>6. /\ h \in Listed /\ h \in Handle /\ Learned(h)
          /\ route'[h].network = route[h].network
      BY <1>1, <2>5, TimersLearnNothing, NearTyped DEF NoneLearned
    <2>7. route[h].age <= Since
      BY <1>1, <1>3, <2>4, <2>5, <2>6 DEF InTime
    <2>8. /\ route'[h].age \in Nat /\ route'[h].age <= route[h].age + 1
          /\ route[h].age \in Nat
      BY <1>1, <2>6, TickTouches, AgeType
    <2> QED
      BY <2>3, <2>7, <2>8
  <1> QED
    BY <1>2, <1>3

\* Of all the others that are listed, the entry in hand says nothing.
LEMMA ApplySpares ==
  ASSUME Inv, NearInv, NearListener, ListenerApply(Link),
         NEW h \in Listed', Learned(h)'
  PROVE  \/ route'[h].age = 0
         \/ /\ h \in Listed /\ Learned(h) /\ route'[h] = route[h]
            /\ route[h].network # EntryInHand(Link).ip
  <1> DEFINE net == EntryInHand(Link).ip
             r   == listener[Link].r
  <1>1. \A g \in Listed : Learned(g) /\ route[g].network = net => g = r
    BY DEF NearInv, InHandIsKnown, ListenerApply
  <1>2. CASE Refreshes
    BY <1>1, <1>2, NearTyped DEF Refreshes, Learned
  <1>3. CASE Ignores
    BY <1>1, <1>3 DEF Ignores, Listed, Learned
  <1>4. CASE Learns
    BY <1>1, <1>4, NearTyped DEF Learns, Learned
  <1> QED
    BY <1>2, <1>3, <1>4, ApplyDoes

LEMMA ApplyMisses ==
  ASSUME Inv, NearInv, NearListener, ListenerApply(Link)
  PROVE  missed \ {EntryInHand(Link).ip} \subseteq missed'
  <1>1. Refreshed \subseteq {EntryInHand(Link).ip}
    BY DEF Refreshed, NearInv, InHandIsKnown, ListenerApply
  <1> QED
    BY <1>1 DEF NearListener

LEMMA ApplyTakes ==
  ASSUME LinkTyped, NearListener, ListenerApply(Link)
  PROVE  Coming \ {EntryInHand(Link).ip} \subseteq Coming'
  <1> DEFINE todo == listener[Link].todo
             new  == [listener[Link] EXCEPT !.pc = "search", !.todo = Front(todo), !.r = NoRoute]
  <1>1. todo \in Seq(Entry) /\ todo # << >> /\ wire' = wire
    BY LinkParts, NearTyped DEF ListenerState, NearListener, ListenerApply
  <1>2. listener' = [listener EXCEPT ![Link] = new]
    BY DEF ListenerApply
  <1>3. new.todo = Front(todo)
    BY LinkParts, NearTyped DEF ListenerState
  <1> HIDE DEF new
  <1>4. listener'[Link].todo = Front(todo)
    BY <1>2, <1>3, LinkParts, NearTyped
  <1>5. Networks(todo) \ {EntryInHand(Link).ip} \subseteq Networks(Front(todo))
    <2>1. EntryInHand(Link) = todo[Len(todo)]
      BY DEF EntryInHand, Last
    <2> HIDE DEF todo
    <2>2. \A i \in DOMAIN todo : i # Len(todo) =>
            i \in DOMAIN Front(todo) /\ Front(todo)[i] = todo[i]
      BY <1>1 DEF Front
    <2> QED
      BY <2>1, <2>2 DEF Networks
  <1> QED
    BY <1>1, <1>4, <1>5 DEF Coming

LEMMA ApplyInTime ==
  ASSUME LinkTyped, NearInv, InTime, NearListener, ListenerApply(Link)
  PROVE  InTime'
  <1>1. SUFFICES ASSUME NEW h \in Listed', Learned(h)', route'[h].network \notin missed'
                 PROVE  \/ route'[h].age <= Since'
                        \/ route'[h].network \in Coming' /\ route'[h].age <= CHECK_EVERY
    BY DEF InTime
  <1>2. Since' = Since /\ Since \in 0 .. CHECK_EVERY /\ CHECK_EVERY \in Nat /\ Inv
    BY SinceType, LinkParts DEF NearListener, Since
  <1>3. CASE route'[h].age = 0
    BY <1>2, <1>3
  <1>4. CASE /\ h \in Listed /\ Learned(h) /\ route'[h] = route[h]
             /\ route[h].network # EntryInHand(Link).ip
    BY <1>1, <1>2, <1>4, ApplyMisses, ApplyTakes DEF InTime
  <1> QED
    BY <1>1, <1>2, <1>3, <1>4, ApplySpares

LEMMA InTimeKept ==
  ASSUME LinkTyped, LinkTyped', NearInv, NearInv', InTime, UpdatesFit, [LinkNext]_allVars
  PROVE  InTime'
  <1>1. Inv /\ Inv'
    BY LinkParts DEF LinkTyped
  <1>2. ASSUME UNCHANGED <<vars, far_sender, missed>>,
               UNCHANGED wire \/ \E u : wire' = Append(wire, u)
        PROVE  InTime'
    <2>1. NoneLearned /\ (\A h \in Handle : NoOlder(h)) /\ listener' = listener
      BY <1>2, NearAlone
    <2>2. Coming \subseteq Coming'
      BY <1>2, <2>1, ComingKept
    <2>3. Since <= Since'
      BY <1>2, SinceType DEF Since
    <2> QED
      BY <1>2, <2>1, <2>2, <2>3, AgesSame
  <1>3. CASE FarTimers
    BY <1>3, RoundInTime
  <1>4. CASE FarCommand
    BY <1>2, <1>4 DEF FarCommand, Far!rip_add_route, Far!delete_route
  <1>5. CASE FarAnswer
    BY <1>2, <1>5 DEF FarAnswer, Far!AnswerRequest, Far!Inject
  <1>6. CASE Lose
    BY <1>1, <1>6, AllMissed DEF Lose
  <1>7. ASSUME UNCHANGED <<far_sender, missed>>, NoneLearned, \A h \in Handle : NoOlder(h),
               Coming \subseteq Coming'
        PROVE  InTime'
    <2>1. Since <= Since'
      BY <1>7, SinceType DEF Since
    <2> QED
      BY <1>7, <2>1, AgesSame
  <1>8. CASE Deliver
    <2>1. NoneLearned /\ \A h \in Handle : NoOlder(h)
      BY <1>1, <1>8, AgeType DEF Deliver, tableVars, NoneLearned, Listed, Learned, NoOlder
    <2> QED
      BY <1>7, <1>8, <2>1, ComingDelivered DEF Deliver
  <1>9. CASE NearListener
    <2>1. CASE ListenerApply(Link)
      BY <1>9, <2>1, ApplyInTime
    <2>2. CASE ListenerSearch(Link)
      <3>1. NoneLearned /\ \A h \in Handle : NoOlder(h)
        BY <1>1, <2>2, AgeType DEF ListenerSearch, tableVars, NoneLearned, Listed, Learned, NoOlder
      <3>2. listener'[Link].todo = listener[Link].todo
        BY <1>1, <2>2, NearTyped DEF ListenerSearch, ListenerState
      <3>3. Coming \subseteq Coming'
        BY <1>9, <3>2 DEF NearListener, Coming
      <3>4. missed' = missed /\ far_sender' = far_sender
        BY <1>9, <2>2 DEF NearListener, ListenerSearch
      <3> QED
        BY <1>7, <3>1, <3>3, <3>4
    <2> QED
      BY <1>9, <2>1, <2>2 DEF NearListener, ListenerStep
  <1>10. CASE NearTimers
    <2>1. TimersStep \/ TimersCrash
      BY <1>10 DEF NearTimers
    <2>2. NoneLearned /\ listener' = listener /\ \A h \in Handle : NoOlder(h)
      BY <1>1, <2>1, TimersLearnNothing, TimersTouch
    <2>3. UNCHANGED <<far_sender, missed, wire>>
      BY <1>10 DEF NearTimers, farVars
    <2>4. Coming \subseteq Coming'
      BY <2>2, <2>3, ComingKept
    <2> QED
      BY <1>7, <2>2, <2>3, <2>4
  <1>11. CASE LinkTick
    BY <1>11, SecondInTime
  <1>12. CASE UNCHANGED allVars
    BY <1>2, <1>12 DEF allVars, farVars
  <1> QED
    BY <1>3, <1>4, <1>5, <1>6, <1>8, <1>9, <1>10, <1>11, <1>12 DEF LinkNext

(***************************************************************************)
(* The inductive invariant.                                                *)
(***************************************************************************)
OnTimeInv == LinkTyped /\ DistinctLink /\ NearInv /\ InTime

LEMMA OnTimeInit ==
  ASSUME LinkInit
  PROVE  OnTimeInv
  <1>1. LinkTyped /\ Advertising
    BY LinkTypedInit, AdvertisingInit
  <1>2. DistinctLink
    <2>1. FarMasks
      BY NeighboursAssumption DEF LinkInit, FarMasks, FarMask
    <2>2. WireOf(Distinct)
      BY NeighboursAssumption DEF LinkInit, Far!InitAdvertise, WireOf
    <2>3. listener[Link].todo \in Seq(Distinct)
      BY NeighboursAssumption, RipAssumption DEF LinkInit, Init, IdleListener
    <2> QED
      BY <1>1, <2>1, <2>2, <2>3 DEF DistinctLink, Advertising
  <1>3. \A h \in Handle : route[h].ad # RIP_AD
    BY DEF LinkInit, Init, InitTable, Connected, NewRoute, DIRECTLY_CONNECTED_AD, RIP_AD
  <1>4. Listed \subseteq Handle
    BY <1>1, LinkParts, NearTyped
  <1>5. NearInv
    <2>1. InHandIsKnown
      BY NeighboursAssumption, RipAssumption DEF LinkInit, Init, IdleListener, InHandIsKnown
    <2> QED
      BY <1>3, <1>4, <2>1 DEF NearInv, LearnedApart, LearnedOnce, Learned
  <1>6. InTime
    BY <1>3, <1>4 DEF InTime, Learned
  <1> QED
    BY <1>1, <1>2, <1>5, <1>6 DEF OnTimeInv

LEMMA OnTimeKept ==
  ASSUME NetworksApart, OnTimeInv, Ordinary, [LinkNext]_allVars
  PROVE  OnTimeInv'
  <1>1. LinkTyped'
    BY LinkTypedKept DEF OnTimeInv
  <1>2. DistinctLink'
    BY DistinctKept DEF OnTimeInv
  <1>3. NearInv'
    BY NearKept DEF OnTimeInv
  <1>4. InTime'
    BY <1>1, <1>3, InTimeKept DEF OnTimeInv, Ordinary
  <1> QED
    BY <1>1, <1>2, <1>3, <1>4 DEF OnTimeInv

\* Only the check of the timers sets a route INVALID.
LEMMA SetByCheck ==
  ASSUME Inv, [LinkNext]_allVars,
         NEW h \in Listed, ~ Invalid(h), FLG_CHK(route'[h].flags, "INVALID")
  PROVE  SetInvalid(h)
  <1>0. h \in Handle /\ route \in [Handle -> Route]
    BY NearTyped
  <1>1. ~ UNCHANGED route
    BY DEF Invalid
  <1>2. CASE NearListener
    <2>1. ListenerApply(Link)
      BY <1>1, <1>2 DEF NearListener, ListenerStep, ListenerSearch, tableVars
    <2> QED
      BY <1>0, <1>1, <2>1, ApplyDoes DEF Refreshes, Ignores, Learns, Invalid, FLG_CHK
  <1>3. CASE NearTimers
    <2>1. TimersVisit
      BY <1>1, <1>3 DEF NearTimers, TimersStep, TimersStart, TimersSleep, TimersFind,
                        TimersUnlink, TimersNext, TimersCrash, tableVars, LL_delete
    <2>2. timers.curr \in Handle
      BY <2>1 DEF TimersVisit, Inv, TypeOK, TimersState
    <2>3. SetFlush(timers.curr) \/ SetInvalid(timers.curr)
      BY <1>1, <2>1 DEF TimersVisit, NothingDue
    <2>4. h = timers.curr
      BY <1>0, <2>2, <2>3 DEF SetFlush, SetInvalid, Invalid
    <2>5. ~ SetFlush(timers.curr)
      BY <2>4 DEF SetFlush
    <2> QED
      BY <2>3, <2>4, <2>5
  <1>4. CASE LinkTick
    <2>1. route'[h] = [route[h] EXCEPT !.age = Older(route[h].age)]
      BY <1>0, <1>4 DEF LinkTick, Tick
    <2>2. route'[h].flags = route[h].flags
      BY <1>0, <2>1 DEF Route
    <2> QED
      BY <2>2 DEF Invalid
  <1>5. CASE FarTimers \/ FarCommand \/ FarAnswer \/ Lose \/ Deliver \/ UNCHANGED allVars
    BY <1>1, <1>5 DEF FarTimers, FarCommand, FarAnswer, Lose, Deliver, allVars, vars, tableVars
  <1> QED
    BY <1>2, <1>3, <1>4, <1>5 DEF LinkNext

(***************************************************************************)
(* A route that is advertised on time is never set INVALID (ripv2.h:32),   *)
(* whatever the order of rounds, updates, requests, checks and commands,   *)
(* and with the updates as far apart as RIP_T_INVALID: only a lost or late *)
(* update, or one without the network, lets it grow too old.  It takes     *)
(* rounds no further apart than RIP_T_INVALID, networks that do not cover  *)
(* one another, and updates that hold their entries and nothing strange.   *)
(***************************************************************************)
THEOREM AdvertisedStay ==
  ASSUME CHECK_EVERY <= RIP_T_INVALID, NetworksApart
  PROVE  LinkSpec /\ []Ordinary => AdvertisedKept
  <1>1. LinkInit => OnTimeInv
    BY OnTimeInit
  <1>2. OnTimeInv /\ Ordinary /\ [LinkNext]_allVars => OnTimeInv'
    BY OnTimeKept, NetworksApart
  <1>3. ASSUME OnTimeInv, [LinkNext]_allVars, NEW h \in Listed,
               ~ Invalid(h), FLG_CHK(route'[h].flags, "INVALID")
        PROVE  route[h].network \in missed
    <2>1. LinkTyped /\ Inv /\ InTime
      BY <1>3, LinkParts DEF OnTimeInv
    <2>2. SetInvalid(h)
      BY <1>3, <2>1, SetByCheck
    <2>3. Learned(h) /\ route[h].age > RIP_T_INVALID
      BY <2>2 DEF SetInvalid
    <2>4. /\ RIP_T_INVALID \in Nat /\ CHECK_EVERY \in Nat /\ Since <= CHECK_EVERY
          /\ Since \in Nat /\ route[h].age \in Nat
      BY <2>1, SinceType, AgeType, NearTyped, RipAssumption, RoutingTableAssumption
    <2> QED
      BY <2>1, <2>3, <2>4 DEF InTime
  <1>4. OnTimeInv /\ [LinkNext]_allVars =>
          [\A h \in Listed : ~ Invalid(h) /\ FLG_CHK(route'[h].flags, "INVALID")
             => route[h].network \in missed]_allVars
    BY <1>3
  <1> QED
    BY <1>1, <1>2, <1>4, PTL DEF LinkSpec, AdvertisedKept
=============================================================================
