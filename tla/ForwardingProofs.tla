-------------------------- MODULE ForwardingProofs --------------------------
(***************************************************************************)
(* Proofs about the listeners and the ARP cache, for any number of threads *)
(* and stations and any routing table that stands still.                   *)
(***************************************************************************)
EXTENDS ForwardingProps, RoutingTableProofs

USE DEF Frame

(***************************************************************************)
(* What a thread has in its hands at each place of its code: an ARP packet *)
(* while incoming_arp works, a packet to forward or a console's question   *)
(* in arp_get.                                                             *)
(***************************************************************************)
InArp(j) == j.pc \in {"merge", "update", "add", "target"}

Shape(t, j) ==
  /\ InArp(j) => t \in Port /\ j.frame \in ArpFrame
  /\ j.pc = "route" => t \in Port /\ j.frame \in IpFrame
  /\ j.pc \in {"get", "wait"} => j.frame \in IpFrame \cup Question

TypeInv == TypeOK /\ \A t \in Thread : Shape(t, job[t])

(***************************************************************************)
(* The hypotheses about the stations: an ARP packet carries the addresses  *)
(* of a station of the interface it comes from, and no two interfaces have *)
(* a station with the same address.                                        *)
(***************************************************************************)
HonestFrame(p, f) ==
  f.kind = "arp" =>
    \E s \in Station : s.port = p /\ s.ip = f.spa /\ s.mac = f.sha

HonestStations == \A p \in Port : \A f \in Arriving[p] : HonestFrame(p, f)

ApartStations == \A s, u \in Station : s.ip = u.ip => s.port = u.port

HonestJob(t, j) == InArp(j) => HonestFrame(t, j.frame)

Honest ==
  /\ \A p \in Port : \A i \in DOMAIN inq[p] : HonestFrame(p, inq[p][i])
  /\ \A p \in Failing : HonestFrame(p, last[p])
  /\ \A t \in Thread : HonestJob(t, job[t])

HonestInv == TypeInv /\ Honest

TrueInv == HonestInv /\ CacheTrue

\* Who is about to add an address has seen that it is not there.
AddsNew == \A p \in Port : job[p].pc = "add" => EntriesOf(job[p].frame.spa) = {}

OnceInv == HonestInv /\ EntryOnce /\ AddsNew

(***************************************************************************)
(* A step that changes the job of one thread.                              *)
(***************************************************************************)
LEMMA JobSteps ==
  ASSUME TypeInv, NEW t \in Thread, NEW j \in Job, Shape(t, j),
         job' = [job EXCEPT ![t] = j]
  PROVE  /\ job' \in [Thread -> Job]
         /\ \A u \in Thread : Shape(u, job'[u])
         /\ job'[t] = j
         /\ \A u \in Thread \ {t} : job'[u] = job[u]
  <1>1. job \in [Thread -> Job]
    BY DEF TypeInv, TypeOK
  <1>2. /\ job' \in [Thread -> Job]
        /\ job'[t] = j
        /\ \A u \in Thread \ {t} : job'[u] = job[u]
    BY <1>1
  <1>3. \A u \in Thread : Shape(u, job'[u])
    BY <1>2 DEF TypeInv
  <1> QED
    BY <1>2, <1>3

LEMMA IdleJob ==
  ASSUME NEW t \in Thread
  PROVE  Idle \in Job /\ Shape(t, Idle) /\ HonestJob(t, Idle)
  <1>1. Idle \in Job
    BY ForwardingAssumption DEF Idle, Job
  <1> QED
    BY <1>1 DEF Idle, Shape, HonestJob, InArp

(***************************************************************************)
(* The search of the routing table, and the table that stands still.       *)
(***************************************************************************)
LEMMA RouteFound ==
  ASSUME TypeInv, NEW dst, routing_table_search(dst) # NoRoute
  PROVE  route[routing_table_search(dst)].outgoing_interface \in Port
  <1>1. TableTypeOK
    BY DEF TypeInv, TypeOK
  <1>2. routing_table_search(dst) \in Listed
    BY <1>1, SearchFinds
  <1>3. Listed \subseteq Handle
    BY <1>1 DEF Listed, TableTypeOK
  <1>4. route[routing_table_search(dst)] \in Route
    BY <1>1, <1>2, <1>3 DEF TableTypeOK
  <1> QED
    BY <1>4 DEF Route

LEMMA TableStands ==
  ASSUME TableTypeOK, UNCHANGED tableVars
  PROVE  TableTypeOK'
  BY DEF TableTypeOK, tableVars

(***************************************************************************)
(* What arp_cache_search returns is in the cache, for that address.        *)
(***************************************************************************)
LEMMA CacheSearch ==
  ASSUME TypeInv, NEW ip
  PROVE  /\ EntriesOf(ip) = {} => arp_cache_search(ip) = NoMac
         /\ EntriesOf(ip) # {} =>
              \E i \in DOMAIN cache : /\ cache[i].ip = ip
                                      /\ arp_cache_search(ip) = cache[i].mac
                                      /\ cache[i].mac \in Mac
  <1> DEFINE C == EntriesOf(ip)
  <1>1. CASE C = {}
    BY <1>1 DEF arp_cache_search
  <1>2. CASE C # {}
    <2>1. cache \in Seq(Arp)
      BY DEF TypeInv, TypeOK
    <2>2. C \in SUBSET Nat
      BY <2>1 DEF EntriesOf
    <2>3. PICK i \in C : \A j \in C : i <= j
      BY <1>2, <2>2, LeastExists
    <2> DEFINE least == CHOOSE k \in C : \A j \in C : k <= j
    <2>4. least \in C
      BY <2>3
    <2>5. arp_cache_search(ip) = cache[least].mac
      BY <1>2 DEF arp_cache_search
    <2> HIDE DEF least
    <2>6. least \in DOMAIN cache /\ cache[least].ip = ip
      BY <2>4 DEF EntriesOf
    <2>7. cache[least] \in Arp
      <3>1. least \in 1 .. Len(cache)
        BY <2>1, <2>6
      <3> QED
        BY <2>1, <3>1, ElementOfSeq
    <2>8. cache[least].mac \in Mac
      BY <2>6, <2>7 DEF Arp
    <2> QED
      BY <1>2, <2>5, <2>6, <2>8
  <1> QED
    BY <1>1, <1>2

(***************************************************************************)
(* The types, and what is in the hands of a thread.                        *)
(***************************************************************************)
LEMMA InitTypeInv == Init => TypeInv
  <1> SUFFICES ASSUME Init PROVE TypeInv
    OBVIOUS
  <1>1. TableTypeOK
    BY ForwardingAssumption DEF Init, InitTable, TableTypeOK
  <1>2. job \in [Thread -> Job] /\ \A t \in Thread : Shape(t, job[t])
    BY IdleJob DEF Init
  <1>3. /\ cache \in Seq(Arp)
        /\ inq \in [Port -> Seq(ArpFrame \cup IpFrame)]
        /\ last \in [Failing -> ArpFrame \cup IpFrame \cup {NoFrame}]
        /\ asked \subseteq Port \X Addr
        /\ sent \in Injected
    BY DEF Init, Injected
  <1> QED
    BY <1>1, <1>2, <1>3 DEF TypeInv, TypeOK

LEMMA SilentType ==
  ASSUME Silent PROVE sent' \in Injected
  BY DEF Silent, Injected

LEMMA CaptureType ==
  ASSUME TypeInv, NEW p \in Port, NEW f \in ArpFrame \cup IpFrame, Capture(p, f)
  PROVE  /\ inq' \in [Port -> Seq(ArpFrame \cup IpFrame)]
         /\ inq' = [inq EXCEPT ![p] = Append(inq[p], f)]
  BY DEF TypeInv, TypeOK, Capture

LEMMA ArriveType ==
  ASSUME TypeInv, NEW p \in Port, Arrive(p)
  PROVE  TypeInv'
  <1>1. PICK f \in Arriving[p] : Capture(p, f)
    BY DEF Arrive
  <1>2. f \in ArpFrame \cup IpFrame
    BY ForwardingAssumption
  <1>3. inq' \in [Port -> Seq(ArpFrame \cup IpFrame)]
    BY <1>1, <1>2, CaptureType
  <1>4. sent' \in Injected
    BY DEF Arrive, Injected
  <1> QED
    BY <1>3, <1>4, TableStands DEF Arrive, TypeInv, TypeOK

\* The reply of a station.
ReplyOf(s) ==
  [kind |-> "arp", oc |-> "reply", spa |-> s.ip, sha |-> s.mac, tpa |-> PortIp[s.port]]

LEMMA AnswerType ==
  ASSUME TypeInv, NEW s \in Station, Answer(s)
  PROVE  TypeInv'
  <1>1. s.port \in Port /\ s.ip \in Addr /\ s.mac \in Mac
    BY ForwardingAssumption
  <1>2. ReplyOf(s) \in ArpFrame
    BY <1>1, ForwardingAssumption DEF ReplyOf, ArpFrame
  <1>3. Capture(s.port, ReplyOf(s))
    BY DEF Answer, ReplyOf
  <1>4. inq' \in [Port -> Seq(ArpFrame \cup IpFrame)]
    BY <1>1, <1>2, <1>3, CaptureType
  <1>5. sent' \in Injected
    BY DEF Answer, Injected
  <1>6. asked' \subseteq Port \X Addr
    BY DEF Answer, TypeInv, TypeOK
  <1> QED
    BY <1>4, <1>5, <1>6, TableStands DEF Answer, TypeInv, TypeOK

\* The parser gives a listener the frame, at the place its kind belongs to.
LEMMA ParseType ==
  ASSUME TypeInv, NEW p \in Port, job[p].pc = "idle",
         NEW f \in ArpFrame \cup IpFrame, Parse(p, f)
  PROVE  /\ job' \in [Thread -> Job]
         /\ \A t \in Thread : Shape(t, job'[t])
         /\ job'[p].frame = f
         /\ job'[p].pc \in {"merge", "route"}
         /\ \A t \in Thread \ {p} : job'[t] = job[t]
  <1> DEFINE j == [job[p] EXCEPT !.pc = IF f.kind = "arp" THEN "merge" ELSE "route",
                                 !.frame = f]
  <1>1. p \in Thread
    BY DEF Thread
  <1>2. job[p] \in Job
    BY <1>1 DEF TypeInv, TypeOK
  <1>3. j \in Job
    BY <1>2 DEF Job
  <1>4. f.kind = "arp" => f \in ArpFrame
    BY DEF ArpFrame, IpFrame
  <1>5. f.kind # "arp" => f \in IpFrame
    BY DEF ArpFrame, IpFrame
  <1>6. j.frame = f /\ j.pc = IF f.kind = "arp" THEN "merge" ELSE "route"
    BY <1>2 DEF Job
  <1>7. job' = [job EXCEPT ![p] = j]
    BY <1>1 DEF Parse, is_for_me_eth, is_multicast, TypeInv, TypeOK
  <1> HIDE DEF j
  <1>8. Shape(p, j)
    BY <1>4, <1>5, <1>6 DEF Shape, InArp
  <1> QED
    BY <1>1, <1>3, <1>6, <1>7, <1>8, JobSteps

LEMMA ReceiveType ==
  ASSUME TypeInv, NEW p \in Port, Receive(p)
  PROVE  TypeInv'
  <1> DEFINE f == Head(inq[p])
  <1>1. inq[p] \in Seq(ArpFrame \cup IpFrame) /\ inq[p] # << >>
    BY DEF Receive, TypeInv, TypeOK
  <1>2. f \in ArpFrame \cup IpFrame
    BY <1>1
  <1>3. Tail(inq[p]) \in Seq(ArpFrame \cup IpFrame)
    BY <1>1
  <1>4. inq' \in [Port -> Seq(ArpFrame \cup IpFrame)]
    BY <1>3 DEF Receive, TypeInv, TypeOK
  <1>5. last' \in [Failing -> ArpFrame \cup IpFrame \cup {NoFrame}]
    BY <1>2 DEF Receive, TypeInv, TypeOK
  <1>6. job' \in [Thread -> Job] /\ \A t \in Thread : Shape(t, job'[t])
    BY <1>2, ParseType DEF Receive
  <1>7. sent' \in Injected
    BY SilentType DEF Receive
  <1> QED
    BY <1>4, <1>5, <1>6, <1>7, TableStands DEF Receive, TypeInv, TypeOK

LEMMA ReadErrorType ==
  ASSUME TypeInv, NEW p \in Port, ReadError(p)
  PROVE  TypeInv'
  <1>1. last[p] \in ArpFrame \cup IpFrame
    BY DEF ReadError, TypeInv, TypeOK
  <1>2. job' \in [Thread -> Job] /\ \A t \in Thread : Shape(t, job'[t])
    BY <1>1, ParseType DEF ReadError
  <1>3. sent' \in Injected
    BY SilentType DEF ReadError
  <1> QED
    BY <1>2, <1>3, TableStands DEF ReadError, TypeInv, TypeOK

\* A listener at work on an ARP packet goes to another place in incoming_arp.
LEMMA ArpJob ==
  ASSUME TypeInv, NEW p \in Port, InArp(job[p]),
         NEW pc \in {"merge", "update", "add", "target"}, NEW m \in BOOLEAN,
         job' = [job EXCEPT ![p] = [job[p] EXCEPT !.pc = pc, !.merged = m]]
  PROVE  /\ job' \in [Thread -> Job]
         /\ \A t \in Thread : Shape(t, job'[t])
         /\ job'[p].pc = pc
         /\ job'[p].frame = job[p].frame
         /\ job[p].frame \in ArpFrame
         /\ \A t \in Thread \ {p} : job'[t] = job[t]
  <1> DEFINE j == [job[p] EXCEPT !.pc = pc, !.merged = m]
  <1>1. p \in Thread
    BY DEF Thread
  <1>2. job[p] \in Job /\ job[p].frame \in ArpFrame
    BY <1>1 DEF TypeInv, TypeOK, Shape
  <1>3. j \in Job /\ j.pc = pc /\ j.frame = job[p].frame
    BY <1>2 DEF Job
  <1>4. job' = [job EXCEPT ![p] = j]
    OBVIOUS
  <1> HIDE DEF j
  <1>5. Shape(p, j)
    BY <1>2, <1>3 DEF Shape, InArp
  <1> QED
    BY <1>1, <1>2, <1>3, <1>4, <1>5, JobSteps

LEMMA GoIsArpJob ==
  ASSUME TypeInv, NEW p \in Port, NEW pc, Go(p, pc)
  PROVE  job' = [job EXCEPT ![p] = [job[p] EXCEPT !.pc = pc, !.merged = job[p].merged]]
  <1>1. p \in Thread /\ job[p] \in Job
    BY DEF TypeInv, TypeOK, Thread
  <1>2. [job[p] EXCEPT !.pc = pc] = [job[p] EXCEPT !.pc = pc, !.merged = job[p].merged]
    BY <1>1 DEF Job
  <1>3. job' = [job EXCEPT ![p] = [job[p] EXCEPT !.pc = pc]]
    BY DEF Go
  <1> QED
    BY <1>2, <1>3

\* The steps inside incoming_arp: where they go.
ArpMove(p) == Merge(p) \/ Update(p) \/ Add(p) \/ TargetLearn(p)

LEMMA ArpMoves ==
  ASSUME TypeInv, NEW p \in Port, ArpMove(p)
  PROVE  /\ InArp(job[p])
         /\ \E pc \in {"update", "add", "target"}, m \in BOOLEAN :
              /\ job' = [job EXCEPT ![p] = [job[p] EXCEPT !.pc = pc, !.merged = m]]
              /\ pc = "add" => Update(p) /\ EntriesOf(job[p].frame.spa) = {}
  <1>1. p \in Thread /\ job[p] \in Job
    BY DEF TypeInv, TypeOK, Thread
  <1>2. job[p].merged \in BOOLEAN
    BY <1>1 DEF Job
  <1>3. InArp(job[p])
    BY DEF ArpMove, Merge, Update, Add, TargetLearn, At, InArp
  <1>4. CASE Merge(p)
    <2>1. Go(p, "update") \/ Go(p, "target")
      BY <1>4 DEF Merge
    <2> QED
      BY <1>2, <1>3, <2>1, GoIsArpJob
  <1>5. CASE TargetLearn(p)
    BY <1>2, <1>3, <1>5, GoIsArpJob DEF TargetLearn
  <1>6. CASE Add(p)
    <2>1. job' = [job EXCEPT ![p] = [job[p] EXCEPT !.pc = "target", !.merged = TRUE]]
      BY <1>1, <1>6 DEF Add, TypeInv, TypeOK
    <2> QED
      BY <1>3, <2>1
  <1>7. CASE Update(p) /\ EntriesOf(job[p].frame.spa) = {}
    <2>1. Go(p, "add")
      BY <1>7 DEF Update, Go, InHand
    <2> QED
      BY <1>2, <1>3, <1>7, <2>1, GoIsArpJob
  <1>8. CASE Update(p) /\ EntriesOf(job[p].frame.spa) # {}
    <2>1. job' = [job EXCEPT ![p] = [job[p] EXCEPT !.pc = "target", !.merged = TRUE]]
      BY <1>1, <1>8 DEF Update, InHand, TypeInv, TypeOK
    <2> QED
      BY <1>3, <2>1
  <1> QED
    BY <1>4, <1>5, <1>6, <1>7, <1>8 DEF ArpMove

LEMMA CacheSteps ==
  ASSUME TypeInv, NEW ip \in Addr, NEW mac \in Mac
  PROVE  /\ Rewritten(ip, mac) \in Seq(Arp)
         /\ DOMAIN Rewritten(ip, mac) = DOMAIN cache
         /\ \A i \in DOMAIN cache :
              /\ Rewritten(ip, mac)[i].ip = cache[i].ip
              /\ Rewritten(ip, mac)[i].mac = IF cache[i].ip = ip THEN mac ELSE cache[i].mac
         /\ Append(cache, add_arp(ip, mac)) \in Seq(Arp)
  <1> DEFINE E == Arp
             R == Rewritten(ip, mac)
  <1>1. cache \in Seq(E)
    BY DEF TypeInv, TypeOK
  <1>2. add_arp(ip, mac) \in E
    BY DEF add_arp, Arp
  <1>3. Append(cache, add_arp(ip, mac)) \in Seq(E)
    BY <1>1, <1>2, AppendProperties
  <1>4. DOMAIN cache = 1 .. Len(cache) /\ Len(cache) \in Nat
    BY <1>1
  <1>5. ASSUME NEW i \in DOMAIN cache
        PROVE  /\ R[i] \in E
               /\ R[i].ip = cache[i].ip
               /\ R[i].mac = IF cache[i].ip = ip THEN mac ELSE cache[i].mac
    <2>1. cache[i] \in E
      BY <1>1, <1>4, <1>5, ElementOfSeq
    <2>2. R[i] = IF cache[i].ip = ip THEN [cache[i] EXCEPT !.mac = mac] ELSE cache[i]
      BY <1>5 DEF Rewritten
    <2> QED
      BY <2>1, <2>2 DEF Arp
  <1>6. R = [i \in 1 .. Len(cache) |-> R[i]] /\ DOMAIN R = DOMAIN cache
    BY <1>4 DEF Rewritten
  <1> HIDE DEF R
  <1>7. R \in Seq(E)
    BY <1>4, <1>5, <1>6, IsASeq
  <1> QED
    BY <1>3, <1>5, <1>6, <1>7 DEF R

LEMMA ArpMoveType ==
  ASSUME TypeInv, NEW p \in Port, ArpMove(p)
  PROVE  TypeInv'
  <1>1. PICK pc \in {"update", "add", "target"}, m \in BOOLEAN :
          job' = [job EXCEPT ![p] = [job[p] EXCEPT !.pc = pc, !.merged = m]]
    BY ArpMoves
  <1>2. /\ job' \in [Thread -> Job] /\ \A t \in Thread : Shape(t, job'[t])
        /\ job[p].frame \in ArpFrame
    BY <1>1, ArpMoves, ArpJob
  <1>3. InHand(p).spa \in Addr /\ InHand(p).sha \in Mac
    BY <1>2 DEF InHand, ArpFrame
  <1>4. cache' \in Seq(Arp)
    <2>1. cache' \in {cache, Rewritten(InHand(p).spa, InHand(p).sha),
                      Append(cache, add_arp(InHand(p).spa, InHand(p).sha))}
      BY DEF ArpMove, Merge, Update, Add, TargetLearn
    <2>2. cache \in Seq(Arp)
      BY DEF TypeInv, TypeOK
    <2>3. /\ Rewritten(InHand(p).spa, InHand(p).sha) \in Seq(Arp)
          /\ Append(cache, add_arp(InHand(p).spa, InHand(p).sha))
               \in Seq(Arp)
      BY <1>3, CacheSteps
    <2> QED
      BY <2>1, <2>2, <2>3
  <1>5. sent' \in Injected
    BY SilentType DEF ArpMove, Merge, Update, Add, TargetLearn
  <1> QED
    BY <1>2, <1>4, <1>5, TableStands
       DEF ArpMove, Merge, Update, Add, TargetLearn, TypeInv, TypeOK

LEMMA ArpReplyType ==
  ASSUME NEW p \in Port, NEW f \in ArpFrame, NEW ip \in Addr
  PROVE  ArpReply(p, f, ip) \in Injected
  BY ForwardingAssumption DEF ArpReply, memswap, ArpFrame, Injected

LEMMA FinishType ==
  ASSUME TypeInv, NEW t \in Thread, Finish(t)
  PROVE  /\ job' \in [Thread -> Job]
         /\ \A u \in Thread : Shape(u, job'[u])
         /\ job'[t] = Idle
         /\ \A u \in Thread \ {t} : job'[u] = job[u]
  BY IdleJob, JobSteps DEF Finish

\* The packet is dealt with: a reply, or nothing.
ArpEnd(p) == TargetReply(p) \/ TargetProxy(p)

LEMMA ArpEndType ==
  ASSUME TypeInv, NEW p \in Port, ArpEnd(p)
  PROVE  TypeInv'
  <1>1. p \in Thread /\ InArp(job[p])
    BY DEF ArpEnd, TargetReply, TargetProxy, At, InArp, Thread
  <1>2. job[p].frame \in ArpFrame
    BY <1>1 DEF TypeInv, Shape
  <1>3. job[p].frame.tpa \in Addr /\ PortIp[p] \in Addr
    BY <1>2, ForwardingAssumption DEF ArpFrame
  <1>4. sent' \in Injected
    <2>1. NoFrame \in Injected
      BY DEF Injected
    <2>2. CASE TargetReply(p)
      BY <1>2, <1>3, <2>1, <2>2, ArpReplyType DEF TargetReply, InHand
    <2>3. CASE TargetProxy(p)
      <3>1. memswap(InHand(p)).spa \in Addr
        BY <1>2, <1>3 DEF memswap, ArpFrame, InHand
      <3> QED
        BY <1>2, <2>1, <2>3, <3>1, ArpReplyType DEF TargetProxy, InHand
    <2> QED
      BY <2>2, <2>3 DEF ArpEnd
  <1>5. job' \in [Thread -> Job] /\ \A t \in Thread : Shape(t, job'[t])
    BY <1>1, FinishType DEF ArpEnd, TargetReply, TargetProxy
  <1> QED
    BY <1>4, <1>5, TableStands DEF ArpEnd, TargetReply, TargetProxy, TypeInv, TypeOK

LEMMA SearchRouteType ==
  ASSUME TypeInv, NEW p \in Port, SearchRoute(p)
  PROVE  /\ TypeInv'
         /\ job'[p].pc \in {"idle", "get"}
         /\ \A t \in Thread \ {p} : job'[t] = job[t]
  <1> DEFINE r == routing_table_search(InHand(p).dst)
             j == [job[p] EXCEPT !.pc = "get", !.out = route[r].outgoing_interface]
  <1>1. p \in Thread /\ job[p] \in Job /\ job[p].frame \in IpFrame
    BY DEF TypeInv, TypeOK, Thread, SearchRoute, At, Shape
  <1>2. /\ job' \in [Thread -> Job] /\ \A t \in Thread : Shape(t, job'[t])
        /\ job'[p].pc \in {"idle", "get"}
        /\ \A t \in Thread \ {p} : job'[t] = job[t]
    <2>1. CASE r = NoRoute
      <3>1. Finish(p)
        BY <2>1 DEF SearchRoute, Finish
      <3> QED
        BY <1>1, <3>1, FinishType DEF Idle
    <2>2. CASE r # NoRoute
      <3>1. route[r].outgoing_interface \in Port
        BY <2>2, RouteFound
      <3>2. job' = [job EXCEPT ![p] = j]
        BY <2>2 DEF SearchRoute
      <3> HIDE DEF r
      <3>3. j \in Job /\ j.pc = "get" /\ j.frame = job[p].frame
        BY <1>1, <3>1 DEF Job
      <3> HIDE DEF j
      <3>4. Shape(p, j)
        BY <1>1, <3>3 DEF Shape, InArp
      <3> QED
        BY <1>1, <3>2, <3>3, <3>4, JobSteps
    <2> QED
      BY <2>1, <2>2
  <1>3. sent' \in Injected
    BY SilentType DEF SearchRoute
  <1> QED
    BY <1>2, <1>3, TableStands DEF SearchRoute, TypeInv, TypeOK

(***************************************************************************)
(* arp_get: the first look, a turn of the loop, and the end of the time.   *)
(***************************************************************************)
LEMMA GetType ==
  ASSUME TypeInv, NEW t \in Thread, Get(t)
  PROVE  /\ TypeInv'
         /\ job'[t].pc \in {"idle", "wait"}
         /\ \A u \in Thread \ {t} : job'[u] = job[u]
  <1>1. /\ job[t] \in Job
        /\ job[t].frame \in IpFrame \cup Question
        /\ InHand(t) = job[t].frame
    BY DEF TypeInv, TypeOK, Get, ArpGet, Found, GiveUp, At, Shape, InHand
  <1>2. job[t].out \in Port /\ job[t].frame.dst \in Addr
    BY <1>1 DEF Job, IpFrame, Question
  <1>3. ASSUME NEW mac \in Mac, Resolve(t, mac)
        PROVE  sent' \in Injected
    <2>1. job[t].frame.kind = "ip" => job[t].frame \in IpFrame
      BY <1>1 DEF IpFrame, Question
    <2> QED
      BY <1>1, <1>2, <1>3, <2>1 DEF Resolve, Injected
  <1>4. arp_cache_search(InHand(t).dst) # NoMac => arp_cache_search(InHand(t).dst) \in Mac
    BY CacheSearch
  <1>5. CASE Finish(t) /\ asked' = asked /\ sent' \in Injected
    <2>1. /\ job' \in [Thread -> Job] /\ \A u \in Thread : Shape(u, job'[u])
          /\ job'[t].pc = "idle"
          /\ \A u \in Thread \ {t} : job'[u] = job[u]
      BY <1>5, FinishType DEF Idle
    <2> QED
      BY <1>5, <2>1, TableStands DEF Get, ArpGet, Found, GiveUp, TypeInv, TypeOK
  <1>6. CASE Ask(t) /\ ArpGet(t)
    <2> DEFINE j == [job[t] EXCEPT !.pc = "wait", !.elapsed = 0]
    <2>1. job' = [job EXCEPT ![t] = j]
      BY <1>6 DEF Ask, TypeInv, TypeOK
    <2> ARP_TIMEOUT \in Nat /\ 0 \in 0 .. ARP_TIMEOUT + 1
      BY ForwardingAssumption
    <2>2. j \in Job /\ j.pc = "wait" /\ j.frame = job[t].frame
      BY <1>1 DEF Job
    <2> HIDE DEF j
    <2>3. Shape(t, j)
      BY <1>1, <2>2 DEF Shape, InArp
    <2>4. /\ job' \in [Thread -> Job] /\ \A u \in Thread : Shape(u, job'[u])
          /\ job'[t] = j
          /\ \A u \in Thread \ {t} : job'[u] = job[u]
      BY <2>1, <2>2, <2>3, JobSteps
    <2>5. sent' \in Injected
      BY <1>1, <1>2, <1>6, ForwardingAssumption DEF Ask, Injected
    <2>6. asked' \subseteq Port \X Addr
      BY <1>1, <1>2, <1>6 DEF Ask, TypeInv, TypeOK
    <2> QED
      BY <1>6, <2>2, <2>4, <2>5, <2>6, TableStands DEF ArpGet, TypeInv, TypeOK
  <1>7. CASE ArpGet(t)
    BY <1>3, <1>4, <1>5, <1>6, <1>7 DEF ArpGet, Resolve
  <1>8. CASE Found(t)
    BY <1>3, <1>4, <1>5, <1>8 DEF Found, Resolve
  <1>9. CASE GiveUp(t)
    BY <1>5, <1>9, SilentType DEF GiveUp
  <1> QED
    BY <1>7, <1>8, <1>9 DEF Get

LEMMA SendArpRequestType ==
  ASSUME TypeInv, NEW c \in Console, SendArpRequest(c)
  PROVE  /\ TypeInv'
         /\ job'[c].pc = "get"
         /\ \A u \in Thread \ {c} : job'[u] = job[u]
  <1>1. PICK ip \in Asked :
          job' = [job EXCEPT ![c] = [job[c] EXCEPT !.pc = "get", !.out = P1,
                               !.frame = [kind |-> "question", dst |-> ip]]]
    BY DEF SendArpRequest, Thread, TypeInv, TypeOK
  <1> DEFINE j == [job[c] EXCEPT !.pc = "get", !.out = P1,
                                 !.frame = [kind |-> "question", dst |-> ip]]
  <1>2. c \in Thread /\ job[c] \in Job
    BY DEF TypeInv, TypeOK, Thread
  <1>3. [kind |-> "question", dst |-> ip] \in Question
    BY ForwardingAssumption DEF Question
  <1>4. j \in Job /\ j.pc = "get" /\ j.frame = [kind |-> "question", dst |-> ip]
    BY <1>2, <1>3, ForwardingAssumption DEF Job
  <1>5. job' = [job EXCEPT ![c] = j]
    BY <1>1
  <1> HIDE DEF j
  <1>6. Shape(c, j)
    BY <1>3, <1>4 DEF Shape, InArp
  <1>7. /\ job' \in [Thread -> Job] /\ \A u \in Thread : Shape(u, job'[u])
        /\ job'[c] = j
        /\ \A u \in Thread \ {c} : job'[u] = job[u]
    BY <1>2, <1>4, <1>5, <1>6, JobSteps
  <1>8. sent' \in Injected
    BY SilentType DEF SendArpRequest
  <1> QED
    BY <1>4, <1>7, <1>8, TableStands DEF SendArpRequest, TypeInv, TypeOK

LEMMA NewCacheType ==
  ASSUME TypeInv, NewCache
  PROVE  TypeInv'
  <1>1. sent' \in Injected
    BY SilentType DEF NewCache
  <1>2. cache' \in Seq(Arp)
    BY DEF NewCache
  <1> QED
    BY <1>1, <1>2, TableStands DEF NewCache, TypeInv, TypeOK

\* A second changes how long a thread has waited and nothing else.
LEMMA TickType ==
  ASSUME TypeInv, Tick
  PROVE  /\ TypeInv'
         /\ \A t \in Thread : job'[t].pc = job[t].pc /\ job'[t].frame = job[t].frame
  <1>1. \A t \in Thread :
          /\ job'[t] \in Job
          /\ job'[t].pc = job[t].pc
          /\ job'[t].frame = job[t].frame
    <2> SUFFICES ASSUME NEW t \in Thread
                 PROVE  /\ job'[t] \in Job
                        /\ job'[t].pc = job[t].pc
                        /\ job'[t].frame = job[t].frame
      OBVIOUS
    <2>1. job[t] \in Job
      BY DEF TypeInv, TypeOK
    <2>2. job'[t] = IF At(t, "wait") /\ ~ TimedOut(t)
                    THEN [job[t] EXCEPT !.elapsed = job[t].elapsed + 1] ELSE job[t]
      BY DEF Tick
    <2>3. ~ TimedOut(t) => job[t].elapsed + 1 \in 0 .. ARP_TIMEOUT + 1
      BY <2>1, ForwardingAssumption DEF TimedOut, Job
    <2> QED
      BY <2>1, <2>2, <2>3 DEF Job
  <1>2. job' \in [Thread -> Job]
    BY <1>1 DEF Tick
  <1>3. \A t \in Thread : Shape(t, job'[t])
    BY <1>1 DEF Shape, InArp, TypeInv
  <1>4. sent' \in Injected
    BY SilentType DEF Tick
  <1> QED
    BY <1>1, <1>2, <1>3, <1>4, TableStands DEF Tick, TypeInv, TypeOK

LEMMA NextKeepsTypeInv ==
  ASSUME TypeInv, [Next]_vars
  PROVE  TypeInv'
  <1>1. CASE Tick \/ NewCache
    BY <1>1, TickType, NewCacheType
  <1>2. ASSUME NEW p \in Port, Arrive(p) \/ ListenerStep(p) \/ ReadError(p)
        PROVE  TypeInv'
    <2>1. CASE ArpMove(p)
      BY <2>1, ArpMoveType
    <2>2. CASE ArpEnd(p)
      BY <2>2, ArpEndType
    <2>3. CASE Arrive(p) \/ Receive(p) \/ ReadError(p) \/ SearchRoute(p)
      BY <2>3, ArriveType, ReceiveType, ReadErrorType, SearchRouteType
    <2> QED
      BY <1>2, <2>1, <2>2, <2>3 DEF ListenerStep, incoming_arp, ArpMove, ArpEnd
  <1>3. ASSUME NEW s \in Station, Answer(s) PROVE TypeInv'
    BY <1>3, AnswerType
  <1>4. ASSUME NEW c \in Console, SendArpRequest(c) PROVE TypeInv'
    BY <1>4, SendArpRequestType
  <1>5. ASSUME NEW t \in Thread, Get(t) PROVE TypeInv'
    BY <1>5, GetType
  <1>6. CASE UNCHANGED vars
    BY <1>6, TableStands DEF vars, TypeInv, TypeOK
  <1> QED
    BY <1>1, <1>2, <1>3, <1>4, <1>5, <1>6 DEF Next

(***************************************************************************)
(* Every frame, cache entry and job is of its type, whatever the stations  *)
(* send: incoming_arp always has an ARP packet in hand, and what is        *)
(* forwarded is a packet with an address somebody was found to have.       *)
(***************************************************************************)
THEOREM ForwardTypeCorrect == Spec => []TypeOK
  <1>1. Init => TypeInv
    BY InitTypeInv
  <1>2. TypeInv /\ [Next]_vars => TypeInv'
    BY NextKeepsTypeInv
  <1>3. TypeInv => TypeOK
    BY DEF TypeInv
  <1> QED
    BY <1>1, <1>2, <1>3, PTL DEF Spec

(***************************************************************************)
(* Frames stay honest from the capture to the end of incoming_arp.         *)
(***************************************************************************)
LEMMA InitHonest == Init => Honest
  BY DEF Init, Honest, HonestJob, HonestFrame, InArp, Idle, NoFrame

LEMMA CaptureHonest ==
  ASSUME HonestInv, NEW p \in Port, NEW f \in ArpFrame \cup IpFrame,
         Capture(p, f), HonestFrame(p, f), last' = last, job' = job
  PROVE  Honest'
  <1>1. inq \in [Port -> Seq(ArpFrame \cup IpFrame)]
    BY DEF HonestInv, TypeInv, TypeOK
  <1>2. inq' = [inq EXCEPT ![p] = Append(inq[p], f)]
    BY DEF Capture
  <1>3. ASSUME NEW q \in Port, NEW i \in DOMAIN inq'[q]
        PROVE  HonestFrame(q, inq'[q][i])
    <2>1. CASE q # p
      <3>1. inq'[q] = inq[q]
        BY <1>1, <1>2, <2>1
      <3> QED
        BY <1>3, <3>1 DEF HonestInv, Honest
    <2>2. CASE q = p
      <3> DEFINE s == inq[p]
      <3>1. s \in Seq(ArpFrame \cup IpFrame) /\ inq'[q] = Append(s, f)
        BY <1>1, <1>2, <2>2
      <3> HIDE DEF s
      <3>2. \/ i \in DOMAIN s /\ inq'[q][i] = s[i]
            \/ inq'[q][i] = f
        BY <1>3, <3>1, AppendProperties
      <3> QED
        BY <2>2, <3>2 DEF HonestInv, Honest, s
    <2> QED
      BY <2>1, <2>2
  <1> QED
    BY <1>3 DEF HonestInv, Honest

LEMMA ArriveHonest ==
  ASSUME HonestStations, HonestInv, NEW p \in Port, Arrive(p)
  PROVE  Honest'
  <1>1. PICK f \in Arriving[p] : Capture(p, f)
    BY DEF Arrive
  <1>2. f \in ArpFrame \cup IpFrame
    BY ForwardingAssumption
  <1>3. HonestFrame(p, f)
    BY DEF HonestStations
  <1> QED
    BY <1>1, <1>2, <1>3, CaptureHonest DEF Arrive

LEMMA AnswerHonest ==
  ASSUME HonestInv, NEW s \in Station, Answer(s)
  PROVE  Honest'
  <1>1. s.port \in Port /\ s.ip \in Addr /\ s.mac \in Mac
    BY ForwardingAssumption
  <1>2. ReplyOf(s) \in ArpFrame
    BY <1>1, ForwardingAssumption DEF ReplyOf, ArpFrame
  <1>3. HonestFrame(s.port, ReplyOf(s))
    BY DEF HonestFrame, ReplyOf
  <1>4. Capture(s.port, ReplyOf(s))
    BY DEF Answer, ReplyOf
  <1> QED
    BY <1>1, <1>2, <1>3, <1>4, CaptureHonest DEF Answer

\* A listener takes an honest frame.
LEMMA TakenHonest ==
  ASSUME HonestInv, NEW p \in Port, job[p].pc = "idle",
         NEW f \in ArpFrame \cup IpFrame, HonestFrame(p, f), Parse(p, f)
  PROVE  \A t \in Thread : HonestJob(t, job'[t])
  BY ParseType DEF HonestInv, Honest, HonestJob

LEMMA ReceiveHonest ==
  ASSUME HonestInv, NEW p \in Port, Receive(p)
  PROVE  Honest'
  <1> DEFINE s == inq[p]
             f == Head(inq[p])
  <1>1. inq \in [Port -> Seq(ArpFrame \cup IpFrame)]
    BY DEF HonestInv, TypeInv, TypeOK
  <1>2. s \in Seq(ArpFrame \cup IpFrame) /\ s # << >>
    BY <1>1 DEF Receive
  <1>3. f \in ArpFrame \cup IpFrame /\ f = s[1] /\ 1 \in DOMAIN s
    BY <1>2
  <1>4. HonestFrame(p, f)
    BY <1>3 DEF HonestInv, Honest
  <1>5. \A t \in Thread : HonestJob(t, job'[t])
    BY <1>3, <1>4, TakenHonest DEF Receive
  <1>6. ASSUME NEW q \in Port, NEW i \in DOMAIN inq'[q]
        PROVE  HonestFrame(q, inq'[q][i])
    <2>1. inq' = [inq EXCEPT ![p] = Tail(s)]
      BY DEF Receive
    <2>2. CASE q # p
      <3>1. inq'[q] = inq[q]
        BY <1>1, <2>1, <2>2
      <3> QED
        BY <1>6, <3>1 DEF HonestInv, Honest
    <2>3. CASE q = p
      <3>1. inq'[q] = Tail(s)
        BY <1>1, <2>1, <2>3
      <3> HIDE DEF s
      <3>2. i + 1 \in DOMAIN s /\ inq'[q][i] = s[i + 1]
        BY <1>2, <1>6, <3>1
      <3> QED
        BY <2>3, <3>2 DEF HonestInv, Honest, s
    <2> QED
      BY <2>2, <2>3
  <1>7. ASSUME NEW q \in Failing PROVE HonestFrame(q, last'[q])
    <2>1. last' = IF p \in Failing THEN [last EXCEPT ![p] = f] ELSE last
      BY DEF Receive
    <2>2. (last'[q] = f /\ q = p) \/ last'[q] = last[q]
      BY <2>1 DEF HonestInv, TypeInv, TypeOK
    <2> QED
      BY <1>4, <2>2 DEF HonestInv, Honest
  <1> QED
    BY <1>5, <1>6, <1>7 DEF Honest

LEMMA ReadErrorHonest ==
  ASSUME HonestInv, NEW p \in Port, ReadError(p)
  PROVE  Honest'
  <1>1. last[p] \in ArpFrame \cup IpFrame
    BY DEF ReadError, HonestInv, TypeInv, TypeOK
  <1>2. HonestFrame(p, last[p])
    BY DEF ReadError, HonestInv, Honest
  <1>3. \A t \in Thread : HonestJob(t, job'[t])
    BY <1>1, <1>2, TakenHonest DEF ReadError
  <1> QED
    BY <1>3 DEF ReadError, HonestInv, Honest

\* A thread that is not in incoming_arp afterwards, or holds the same frame.
LEMMA OthersHonest ==
  ASSUME HonestInv, NEW t \in Thread, inq' = inq, last' = last,
         \A u \in Thread \ {t} : job'[u] = job[u],
         ~ InArp(job'[t]) \/ (InArp(job[t]) /\ job'[t].frame = job[t].frame)
  PROVE  Honest'
  <1>1. \A u \in Thread : HonestJob(u, job'[u])
    BY DEF HonestInv, Honest, HonestJob
  <1> QED
    BY <1>1 DEF HonestInv, Honest

LEMMA ArpMoveJob ==
  ASSUME TypeInv, NEW p \in Port, ArpMove(p)
  PROVE  /\ InArp(job[p])
         /\ job[p].frame \in ArpFrame
         /\ job'[p].frame = job[p].frame
         /\ job'[p].pc = "add" => Update(p) /\ EntriesOf(job[p].frame.spa) = {}
         /\ \A t \in Thread \ {p} : job'[t] = job[t]
  <1>1. PICK pc \in {"update", "add", "target"}, m \in BOOLEAN :
          /\ job' = [job EXCEPT ![p] = [job[p] EXCEPT !.pc = pc, !.merged = m]]
          /\ pc = "add" => Update(p) /\ EntriesOf(job[p].frame.spa) = {}
    BY ArpMoves
  <1>2. InArp(job[p])
    BY ArpMoves
  <1>3. /\ job'[p].pc = pc
        /\ job'[p].frame = job[p].frame
        /\ job[p].frame \in ArpFrame
        /\ \A t \in Thread \ {p} : job'[t] = job[t]
    BY <1>1, <1>2, ArpJob
  <1> QED
    BY <1>1, <1>2, <1>3

\* The steps that end in a place outside incoming_arp.
Leaves(t) ==
  \/ t \in Port /\ (ArpEnd(t) \/ SearchRoute(t))
  \/ t \in Console /\ SendArpRequest(t)
  \/ Get(t)

LEMMA LeavesJob ==
  ASSUME TypeInv, NEW t \in Thread, Leaves(t)
  PROVE  /\ job'[t].pc \in {"idle", "get", "wait"}
         /\ ~ InArp(job'[t])
         /\ \A u \in Thread \ {t} : job'[u] = job[u]
         /\ UNCHANGED <<cache, inq, last>>
  <1>1. CASE t \in Port /\ ArpEnd(t)
    <2>1. Finish(t) /\ UNCHANGED <<cache, inq, last>>
      BY <1>1 DEF ArpEnd, TargetReply, TargetProxy
    <2> QED
      BY <2>1, FinishType DEF Idle, InArp
  <1>2. CASE t \in Port /\ SearchRoute(t)
    BY <1>2, SearchRouteType DEF SearchRoute, InArp
  <1>3. CASE t \in Console /\ SendArpRequest(t)
    BY <1>3, SendArpRequestType DEF SendArpRequest, InArp
  <1>4. CASE Get(t)
    <2>1. UNCHANGED <<cache, inq, last>>
      BY <1>4 DEF Get, ArpGet, Found, GiveUp
    <2> QED
      BY <1>4, <2>1, GetType DEF InArp
  <1> QED
    BY <1>1, <1>2, <1>3, <1>4 DEF Leaves

\* Every step is one of these.
LEMMA NextCases ==
  ASSUME Next
  PROVE  \/ Tick \/ NewCache
         \/ \E p \in Port : Arrive(p) \/ Receive(p) \/ ReadError(p) \/ ArpMove(p)
         \/ \E s \in Station : Answer(s)
         \/ \E t \in Thread : Leaves(t)
  BY DEF Next, ListenerStep, incoming_arp, ArpMove, ArpEnd, Leaves, Thread

LEMMA NextKeepsHonestInv ==
  ASSUME HonestStations, HonestInv, [Next]_vars
  PROVE  HonestInv'
  <1>0. TypeInv /\ TypeInv'
    BY NextKeepsTypeInv DEF HonestInv
  <1>1. CASE Tick
    <2>1. \A t \in Thread : HonestJob(t, job'[t])
      BY <1>0, <1>1, TickType DEF HonestInv, Honest, HonestJob, InArp
    <2> QED
      BY <1>0, <1>1, <2>1 DEF HonestInv, Honest, Tick
  <1>2. CASE NewCache \/ UNCHANGED vars
    BY <1>0, <1>2 DEF HonestInv, Honest, NewCache, vars
  <1>3. ASSUME NEW p \in Port, Arrive(p) \/ Receive(p) \/ ReadError(p)
        PROVE  HonestInv'
    BY <1>0, <1>3, ArriveHonest, ReceiveHonest, ReadErrorHonest DEF HonestInv
  <1>4. ASSUME NEW p \in Port, ArpMove(p) PROVE HonestInv'
    <2>1. p \in Thread /\ UNCHANGED <<inq, last>>
      BY <1>4 DEF Thread, ArpMove, Merge, Update, Add, TargetLearn
    <2> QED
      BY <1>0, <1>4, <2>1, ArpMoveJob, OthersHonest DEF HonestInv
  <1>5. ASSUME NEW s \in Station, Answer(s) PROVE HonestInv'
    BY <1>0, <1>5, AnswerHonest DEF HonestInv
  <1>6. ASSUME NEW t \in Thread, Leaves(t) PROVE HonestInv'
    BY <1>0, <1>6, LeavesJob, OthersHonest DEF HonestInv
  <1> QED
    BY <1>1, <1>2, <1>3, <1>4, <1>5, <1>6, NextCases

(***************************************************************************)
(* The cache, and what is forwarded.                                       *)
(***************************************************************************)
EntriesTrue == \A i \in DOMAIN cache : StationAt(cache[i].ip, cache[i].mac)
SentTrue    == sent.kind = "ip" => StationAt(sent.cause.dst, sent.mac)

\* The steps that write the cache.
LEMMA CacheWritten ==
  ASSUME TypeInv, [Next]_vars
  PROVE  \/ cache' = cache
         \/ NewCache
         \/ \E p \in Port : /\ ArpMove(p)
                            /\ \/ cache' = Rewritten(InHand(p).spa, InHand(p).sha)
                               \/ Add(p)
  <1>1. ASSUME NEW t \in Thread, Leaves(t) PROVE cache' = cache
    BY <1>1, LeavesJob
  <1>2. ASSUME NEW p \in Port, ArpMove(p)
        PROVE  \/ cache' = cache
               \/ cache' = Rewritten(InHand(p).spa, InHand(p).sha)
               \/ Add(p)
    BY <1>2 DEF ArpMove, Merge, Update, TargetLearn
  <1> QED
    BY <1>1, <1>2, NextCases DEF Tick, Arrive, Receive, ReadError, Answer, vars

\* Who works on an ARP packet has one of a station in hand.
LEMMA InHandHonest ==
  ASSUME HonestInv, NEW p \in Port, ArpMove(p)
  PROVE  /\ StationAt(InHand(p).spa, InHand(p).sha)
         /\ InHand(p).spa \in Addr /\ InHand(p).sha \in Mac
  <1>1. TypeInv
    BY DEF HonestInv
  <1>2. InArp(job[p]) /\ job[p].frame \in ArpFrame
    BY <1>1, ArpMoveJob
  <1>3. HonestFrame(p, job[p].frame)
    BY <1>2 DEF HonestInv, Honest, HonestJob, Thread
  <1> QED
    BY <1>2, <1>3 DEF HonestFrame, StationAt, InHand, ArpFrame

LEMMA NextKeepsEntriesTrue ==
  ASSUME HonestInv, EntriesTrue, [Next]_vars
  PROVE  EntriesTrue'
  <1>1. TypeInv /\ cache \in Seq(Arp)
    BY DEF HonestInv, TypeInv, TypeOK
  <1>2. CASE cache' = cache
    BY <1>2 DEF EntriesTrue, StationAt
  <1>3. CASE NewCache
    BY <1>3 DEF EntriesTrue, NewCache
  <1>4. ASSUME NEW p \in Port, ArpMove(p),
               cache' = Rewritten(InHand(p).spa, InHand(p).sha)
        PROVE  EntriesTrue'
    <2>1. /\ StationAt(InHand(p).spa, InHand(p).sha)
          /\ InHand(p).spa \in Addr /\ InHand(p).sha \in Mac
      BY <1>4, InHandHonest
    <2> DEFINE R == Rewritten(InHand(p).spa, InHand(p).sha)
    <2>2. /\ DOMAIN R = DOMAIN cache
          /\ \A i \in DOMAIN cache :
               /\ R[i].ip = cache[i].ip
               /\ R[i].mac = IF cache[i].ip = InHand(p).spa THEN InHand(p).sha
                             ELSE cache[i].mac
      BY <1>1, <2>1, CacheSteps
    <2>3. cache' = R
      BY <1>4
    <2> HIDE DEF R
    <2>4. \A i \in DOMAIN R : StationAt(R[i].ip, R[i].mac)
      BY <2>1, <2>2 DEF EntriesTrue
    <2> QED
      BY <2>3, <2>4 DEF EntriesTrue, StationAt
  <1>5. ASSUME NEW p \in Port, ArpMove(p), Add(p)
        PROVE  EntriesTrue'
    <2> DEFINE e == add_arp(InHand(p).spa, InHand(p).sha)
    <2>1. /\ StationAt(InHand(p).spa, InHand(p).sha)
          /\ InHand(p).spa \in Addr /\ InHand(p).sha \in Mac
      BY <1>5, InHandHonest
    <2>2. e \in Arp /\ StationAt(e.ip, e.mac)
      BY <2>1 DEF add_arp, Arp
    <2>3. cache' = Append(cache, e)
      BY <1>5 DEF Add
    <2> HIDE DEF e
    <2>4. \A i \in DOMAIN cache' : (i \in DOMAIN cache /\ cache'[i] = cache[i]) \/ cache'[i] = e
      BY <1>1, <2>2, <2>3, AppendProperties
    <2> QED
      BY <2>2, <2>4 DEF EntriesTrue, StationAt
  <1> QED
    BY <1>1, <1>2, <1>3, <1>4, <1>5, CacheWritten

\* Only a thread that has found the address forwards.
LEMMA NextKeepsSentTrue ==
  ASSUME HonestInv, EntriesTrue, SentTrue, [Next]_vars
  PROVE  SentTrue'
  <1>0. TypeInv
    BY DEF HonestInv
  <1>1. CASE sent' = sent
    BY <1>1 DEF SentTrue, StationAt
  <1>2. CASE sent'.kind # "ip"
    BY <1>2 DEF SentTrue
  <1>3. ASSUME NEW t \in Thread, ArpGet(t) \/ Found(t),
               arp_cache_search(InHand(t).dst) # NoMac,
               Resolve(t, arp_cache_search(InHand(t).dst))
        PROVE  SentTrue'
    <2>1. StationAt(InHand(t).dst, arp_cache_search(InHand(t).dst))
      BY <1>0, <1>3, CacheSearch DEF EntriesTrue
    <2>2. sent'.kind = "ip" =>
            sent'.cause.dst = InHand(t).dst /\ sent'.mac = arp_cache_search(InHand(t).dst)
      BY <1>3 DEF Resolve, NoFrame
    <2> QED
      BY <2>1, <2>2 DEF SentTrue, StationAt
  <1>4. ASSUME NEW t \in Thread, Leaves(t)
        PROVE  SentTrue'
    <2>1. CASE ArpGet(t)
      <3>1. CASE Ask(t)
        BY <1>2, <3>1 DEF Ask
      <3> QED
        BY <1>3, <2>1, <3>1 DEF ArpGet
    <2>2. CASE Found(t)
      BY <1>3, <2>2 DEF Found
    <2>3. CASE GiveUp(t) \/ SearchRoute(t) \/ SendArpRequest(t)
      BY <1>2, <2>3 DEF GiveUp, SearchRoute, SendArpRequest, Silent, NoFrame
    <2>4. CASE ArpEnd(t)
      BY <1>2, <2>4 DEF ArpEnd, TargetReply, TargetProxy, ArpReply, NoFrame
    <2> QED
      BY <1>4, <2>1, <2>2, <2>3, <2>4 DEF Leaves, Get
  <1>5. ASSUME NEW p \in Port, Arrive(p) \/ Receive(p) \/ ReadError(p) \/ ArpMove(p)
        PROVE  SentTrue'
    <2>1. sent' = NoFrame
      BY <1>5 DEF Arrive, Receive, ReadError, ArpMove, Merge, Update, Add, TargetLearn, Silent
    <2> QED
      BY <1>2, <2>1 DEF NoFrame
  <1>6. CASE Tick \/ NewCache \/ \E s \in Station : Answer(s)
    <2>1. sent' = NoFrame
      BY <1>6 DEF Tick, NewCache, Answer, Silent
    <2> QED
      BY <1>2, <2>1 DEF NoFrame
  <1>7. CASE UNCHANGED vars
    BY <1>1, <1>7 DEF vars
  <1> QED
    BY <1>4, <1>5, <1>6, <1>7, NextCases

(***************************************************************************)
(* If the stations tell the truth about themselves, no entry of the cache  *)
(* and no frame that is forwarded carries the hardware address of a        *)
(* station that does not have the address, however the listeners and the   *)
(* console interleave in arp_cache_search, arp_cache_update and arp_get.   *)
(***************************************************************************)
THEOREM CacheHolds ==
  ASSUME HonestStations
  PROVE  Spec => []CacheTrue
  <1>1. Init => TrueInv
    <2>1. Init => EntriesTrue /\ SentTrue
      BY DEF Init, EntriesTrue, SentTrue, NoFrame
    <2> QED
      BY <2>1, InitTypeInv, InitHonest
         DEF TrueInv, HonestInv, CacheTrue, EntriesTrue, SentTrue
  <1>2. TrueInv /\ [Next]_vars => TrueInv'
    <2> SUFFICES ASSUME TrueInv, [Next]_vars PROVE TrueInv'
      OBVIOUS
    <2>1. HonestInv /\ EntriesTrue /\ SentTrue
      BY DEF TrueInv, CacheTrue, EntriesTrue, SentTrue
    <2>2. HonestInv' /\ EntriesTrue' /\ SentTrue'
      BY <2>1, NextKeepsHonestInv, NextKeepsEntriesTrue, NextKeepsSentTrue
    <2> QED
      BY <2>2 DEF TrueInv, CacheTrue, EntriesTrue, SentTrue
  <1>3. TrueInv => CacheTrue
    BY DEF TrueInv
  <1> QED
    BY <1>1, <1>2, <1>3, PTL DEF Spec

(***************************************************************************)
(* One entry for an address.                                               *)
(***************************************************************************)
\* Two listeners never have the same address in hand.
LEMMA HandsApart ==
  ASSUME ApartStations, HonestInv, NEW p \in Port, NEW q \in Port,
         InArp(job[p]), InArp(job[q]), job[p].frame.spa = job[q].frame.spa
  PROVE  p = q
  <1>1. /\ job[p].frame \in ArpFrame /\ HonestFrame(p, job[p].frame)
        /\ job[q].frame \in ArpFrame /\ HonestFrame(q, job[q].frame)
    BY DEF HonestInv, Honest, HonestJob, TypeInv, Shape, Thread
  <1>2. job[p].frame.kind = "arp" /\ job[q].frame.kind = "arp"
    BY <1>1 DEF ArpFrame
  <1> QED
    BY <1>1, <1>2 DEF HonestFrame, ApartStations

LEMMA NextKeepsEntryOnce ==
  ASSUME OnceInv, [Next]_vars
  PROVE  EntryOnce'
  <1>1. TypeInv /\ HonestInv /\ cache \in Seq(Arp)
    BY DEF OnceInv, HonestInv, TypeInv, TypeOK
  <1>2. CASE cache' = cache
    BY <1>2 DEF OnceInv, EntryOnce
  <1>3. CASE NewCache
    BY <1>3 DEF EntryOnce, NewCache
  <1>4. ASSUME NEW p \in Port, ArpMove(p),
               cache' = Rewritten(InHand(p).spa, InHand(p).sha)
        PROVE  EntryOnce'
    <2>1. InHand(p).spa \in Addr /\ InHand(p).sha \in Mac
      BY <1>1, <1>4, InHandHonest
    <2>2. DOMAIN cache' = DOMAIN cache /\ \A i \in DOMAIN cache : cache'[i].ip = cache[i].ip
      BY <1>1, <1>4, <2>1, CacheSteps
    <2> QED
      BY <2>2 DEF OnceInv, EntryOnce
  <1>5. ASSUME NEW p \in Port, ArpMove(p), Add(p)
        PROVE  EntryOnce'
    <2> DEFINE e == add_arp(InHand(p).spa, InHand(p).sha)
    <2>1. InHand(p).spa \in Addr /\ InHand(p).sha \in Mac
      BY <1>1, <1>5, InHandHonest
    <2>2. e \in Arp /\ e.ip = InHand(p).spa
      BY <2>1 DEF add_arp, Arp
    <2>3. \A i \in DOMAIN cache : cache[i].ip # e.ip
      BY <1>5, <2>2 DEF Add, At, InHand, OnceInv, AddsNew, EntriesOf
    <2>4. cache' = Append(cache, e)
      BY <1>5 DEF Add
    <2> HIDE DEF e
    <2>5. DOMAIN cache' = 1 .. Len(cache) + 1 /\ Len(cache) \in Nat
      BY <1>1, <2>2, <2>4, AppendProperties
    <2>6. \A i \in DOMAIN cache' :
            \/ i \in DOMAIN cache /\ cache'[i] = cache[i]
            \/ i = Len(cache) + 1 /\ cache'[i] = e
      BY <1>1, <2>2, <2>4, <2>5, AppendProperties
    <2> QED
      BY <2>3, <2>6 DEF OnceInv, EntryOnce
  <1> QED
    BY <1>1, <1>2, <1>3, <1>4, <1>5, CacheWritten

\* A step that leaves a thread in "add" found nothing, and one that adds an
\* address leaves no other thread about to add it.
LEMMA NextKeepsAddsNew ==
  ASSUME ApartStations, OnceInv, [Next]_vars
  PROVE  AddsNew'
  <1>0. TypeInv /\ HonestInv
    BY DEF OnceInv, HonestInv
  <1> SUFFICES ASSUME NEW q \in Port, job'[q].pc = "add"
               PROVE  \A i \in DOMAIN cache' : cache'[i].ip # job'[q].frame.spa
    BY DEF AddsNew, EntriesOf
  <1>1. CASE job'[q].pc = job[q].pc /\ job'[q].frame = job[q].frame /\ cache' = cache
    BY <1>1 DEF OnceInv, AddsNew, EntriesOf
  <1>2. CASE NewCache
    BY <1>2 DEF NewCache, EntriesOf
  <1>3. ASSUME NEW p \in Port, ArpMove(p)
        PROVE  \A i \in DOMAIN cache' : cache'[i].ip # job'[q].frame.spa
    <2>1. /\ InArp(job[p])
          /\ job'[p].frame = job[p].frame
          /\ job'[p].pc = "add" => Update(p) /\ EntriesOf(job[p].frame.spa) = {}
          /\ \A t \in Thread \ {p} : job'[t] = job[t]
      BY <1>0, <1>3, ArpMoveJob
    <2>2. InHand(p).spa \in Addr /\ InHand(p).sha \in Mac
      BY <1>0, <1>3, InHandHonest
    <2>3. /\ EntriesOf(job'[q].frame.spa) = {}
          /\ job'[q].frame = job[q].frame
          /\ q = p => Update(p)
      <3>1. CASE q = p
        BY <2>1, <3>1
      <3>2. CASE q # p
        BY <2>1, <3>2 DEF Thread, OnceInv, AddsNew
      <3> QED
        BY <3>1, <3>2
    <2>4. CASE cache' = cache
      BY <2>3, <2>4 DEF EntriesOf
    <2>5. CASE cache' = Rewritten(InHand(p).spa, InHand(p).sha)
      <3>1. DOMAIN cache' = DOMAIN cache /\ \A i \in DOMAIN cache : cache'[i].ip = cache[i].ip
        BY <1>0, <2>2, <2>5, CacheSteps
      <3> QED
        BY <2>3, <3>1 DEF EntriesOf
    <2>6. CASE Add(p)
      <3>1. q # p
        BY <2>3, <2>6 DEF Add, Update, At
      <3>2. InArp(job[q])
        BY <2>1, <3>1 DEF Thread, InArp
      <3>3. job[q].frame.spa # job[p].frame.spa
        BY <1>0, <2>1, <3>1, <3>2, HandsApart
      <3> DEFINE e == add_arp(InHand(p).spa, InHand(p).sha)
      <3>4. e \in Arp /\ e.ip = job[p].frame.spa
        BY <2>2 DEF add_arp, Arp, InHand
      <3>5. cache' = Append(cache, e) /\ cache \in Seq(Arp)
        BY <1>0, <2>6 DEF Add, TypeInv, TypeOK
      <3> HIDE DEF e
      <3>6. \A i \in DOMAIN cache' :
              (i \in DOMAIN cache /\ cache'[i] = cache[i]) \/ cache'[i] = e
        BY <3>4, <3>5, AppendProperties
      <3> QED
        BY <2>3, <3>3, <3>4, <3>6 DEF EntriesOf
    <2> QED
      BY <1>3, <2>4, <2>5, <2>6 DEF ArpMove, Merge, Update, TargetLearn
  <1>4. ASSUME NEW t \in Thread, Leaves(t)
        PROVE  \A i \in DOMAIN cache' : cache'[i].ip # job'[q].frame.spa
    <2>1. /\ job'[t].pc \in {"idle", "get", "wait"}
          /\ \A u \in Thread \ {t} : job'[u] = job[u]
          /\ cache' = cache
      BY <1>0, <1>4, LeavesJob
    <2> QED
      BY <1>1, <2>1 DEF Thread
  <1>5. ASSUME NEW p \in Port, Arrive(p) \/ Receive(p) \/ ReadError(p)
        PROVE  \A i \in DOMAIN cache' : cache'[i].ip # job'[q].frame.spa
    <2>1. CASE Arrive(p)
      BY <1>1, <2>1 DEF Arrive
    <2>2. CASE Receive(p)
      <3>1. Head(inq[p]) \in ArpFrame \cup IpFrame
        <4>1. inq[p] \in Seq(ArpFrame \cup IpFrame) /\ inq[p] # << >>
          BY <1>0, <2>2 DEF Receive, TypeInv, TypeOK
        <4> QED
          BY <4>1
      <3>2. job'[p].pc \in {"merge", "route"} /\ \A t \in Thread \ {p} : job'[t] = job[t]
        BY <1>0, <2>2, <3>1, ParseType DEF Receive
      <3> QED
        BY <1>1, <2>2, <3>2 DEF Receive, Thread
    <2>3. CASE ReadError(p)
      <3>1. last[p] \in ArpFrame \cup IpFrame
        BY <1>0, <2>3 DEF ReadError, TypeInv, TypeOK
      <3>2. job'[p].pc \in {"merge", "route"} /\ \A t \in Thread \ {p} : job'[t] = job[t]
        BY <1>0, <2>3, <3>1, ParseType DEF ReadError
      <3> QED
        BY <1>1, <2>3, <3>2 DEF ReadError, Thread
    <2> QED
      BY <1>5, <2>1, <2>2, <2>3
  <1>6. CASE Tick
    BY <1>0, <1>1, <1>6, TickType DEF Tick, Thread
  <1>7. CASE UNCHANGED vars \/ \E s \in Station : Answer(s)
    BY <1>1, <1>7 DEF vars, Answer
  <1> QED
    BY <1>2, <1>3, <1>4, <1>5, <1>6, <1>7, NextCases

(***************************************************************************)
(* If moreover no two interfaces have a station with the same address, no  *)
(* address has two entries: between the walk of arp_cache_update that      *)
(* finds none and the LL_add that follows it, nobody else adds the same.   *)
(***************************************************************************)
THEOREM AddressOnce ==
  ASSUME HonestStations, ApartStations
  PROVE  Spec => []EntryOnce
  <1>1. Init => OnceInv
    <2>1. Init => EntryOnce /\ AddsNew
      BY DEF Init, EntryOnce, AddsNew, EntriesOf
    <2> QED
      BY <2>1, InitTypeInv, InitHonest DEF OnceInv, HonestInv
  <1>2. OnceInv /\ [Next]_vars => OnceInv'
    <2> SUFFICES ASSUME OnceInv, [Next]_vars PROVE OnceInv'
      OBVIOUS
    <2>1. HonestInv
      BY DEF OnceInv
    <2>2. HonestInv' /\ EntryOnce' /\ AddsNew'
      BY <2>1, NextKeepsHonestInv, NextKeepsEntryOnce, NextKeepsAddsNew
    <2> QED
      BY <2>2 DEF OnceInv
  <1>3. OnceInv => EntryOnce
    BY DEF OnceInv
  <1> QED
    BY <1>1, <1>2, <1>3, PTL DEF Spec

(***************************************************************************)
(* The hypothesis about the routing table: interfaces have networks of     *)
(* whole octets, and a route leads out of an interface to the network of   *)
(* an address of the interface's own network, or to a part of it.          *)
(***************************************************************************)
RoutesOwn ==
  \A h \in { Table[i] : i \in DOMAIN Table } :
    LET p == Routes[h].outgoing_interface
    IN  \E k, m \in 1 .. Octets, b \in Addr :
          /\ k <= m /\ PortMask[p] = OctetBits * k /\ Routes[h].mask = OctetBits * m
          /\ Routes[h].network = ip_mask_to_network(b, OctetBits * m)
          /\ OwnSubnet(p, b)

LEMMA WithinOwn ==
  ASSUME NEW p \in Port, NEW k \in 1 .. Octets, NEW m \in 1 .. Octets, k <= m,
         PortMask[p] = OctetBits * k,
         NEW a \in Addr, NEW b \in Addr, OwnSubnet(p, b),
         belongs_to_subnet(a, ip_mask_to_network(b, OctetBits * m), OctetBits * m)
  PROVE  OwnSubnet(p, a)
  <1>1. \A i \in Bit : i < OctetBits * m => (i \in a <=> i \in b)
    BY AlignedMembership
  <1>2. OctetBits \in Nat \ {0} /\ Octets \in Nat \ {0}
    BY SubnetAssumption
  <1>3. OctetBits * k \in Nat \ {0} /\ OctetBits * k <= OctetBits * m /\ OctetBits * m \in Nat
    <2>1. m - k \in Nat /\ OctetBits * m = OctetBits * k + OctetBits * (m - k)
      BY <1>2
    <2>2. OctetBits * (m - k) \in Nat
      BY <1>2, <2>1
    <2> QED
      BY <1>2, <2>1, <2>2
  <1> DEFINE q == OctetBits * k
  <1>4. q \in 0 .. W /\ Kept(q) = q
    BY <1>3, ForwardingAssumption DEF Kept
  <1> HIDE DEF q
  <1>5. get_subnet(a, q) = { i \in a : i < q } /\ get_subnet(b, q) = { i \in b : i < q }
    BY <1>4, LowBits
  <1>6. \A i \in Bit : i < q => (i \in a <=> i \in b)
    <2>1. q \in Nat /\ q <= OctetBits * m /\ OctetBits * m \in Nat
      BY <1>3 DEF q
    <2>2. W \in Nat
      BY WidthIsPositive
    <2> QED
      BY <1>1, <2>1, <2>2 DEF Bit
  <1>7. get_subnet(a, q) = get_subnet(b, q)
    BY <1>5, <1>6 DEF Addr
  <1> QED
    BY <1>7 DEF OwnSubnet, belongs_to_subnet, q

\* A route that covers an address outside the interface's own network leads
\* out of another interface.
LEMMA OtherInterface ==
  ASSUME RoutesOwn, TypeInv, routes_ll = Table, route = Routes,
         NEW p \in Port, NEW ip \in Addr, ~ OwnSubnet(p, ip),
         routing_table_search(ip) # NoRoute
  PROVE  route[routing_table_search(ip)].outgoing_interface # p
  <1> DEFINE r == routing_table_search(ip)
  <1>1. TableTypeOK
    BY DEF TypeInv, TypeOK
  <1>2. r \in Listed /\ Covers(r, ip)
    BY <1>1, SearchFinds
  <1>3. r \in { Table[i] : i \in DOMAIN Table } /\ r \in Handle
    BY <1>1, <1>2 DEF Listed, TableTypeOK
  <1> HIDE DEF r
  <1> DEFINE q == Routes[r].outgoing_interface
  <1>4. q \in Port
    BY <1>3, ForwardingAssumption DEF Route
  <1>5. PICK k \in 1 .. Octets, m \in 1 .. Octets, b \in Addr :
          /\ k <= m /\ PortMask[q] = OctetBits * k /\ Routes[r].mask = OctetBits * m
          /\ Routes[r].network = ip_mask_to_network(b, OctetBits * m)
          /\ OwnSubnet(q, b)
    BY <1>3 DEF RoutesOwn
  <1>6. belongs_to_subnet(ip, ip_mask_to_network(b, OctetBits * m), OctetBits * m)
    BY <1>2, <1>5 DEF Covers
  <1> HIDE DEF q
  <1>7. OwnSubnet(q, ip)
    BY <1>4, <1>5, <1>6, WithinOwn
  <1> QED
    BY <1>7 DEF q, r

TableStill == routes_ll = Table /\ route = Routes

LEMMA NextKeepsStill ==
  ASSUME TableStill, [Next]_vars
  PROVE  TableStill' /\ \A ip : routing_table_search(ip)' = routing_table_search(ip)
  <1>1. UNCHANGED tableVars
    BY DEF Next, ListenerStep, incoming_arp, Get, Tick, NewCache, Arrive, Receive, ReadError,
           Merge, Update, Add, TargetLearn, TargetReply, TargetProxy, SearchRoute, Answer,
           SendArpRequest, ArpGet, Found, GiveUp, vars
  <1>2. routes_ll' = routes_ll /\ route' = route
    BY <1>1 DEF tableVars
  <1>3. \A ip : routing_table_search(ip)' = routing_table_search(ip)
    BY <1>2 DEF routing_table_search, Covers, Better
  <1> QED
    BY <1>2, <1>3 DEF TableStill

\* The one step that answers for another address.
LEMMA NextProxies ==
  ASSUME TypeInv, [Next]_vars
  PROVE  \/ sent' = sent
         \/ sent'.kind # "arp"
         \/ sent'.oc # "reply"
         \/ sent'.spa = PortIp[sent'.port]
         \/ \E p \in Port : \E ip \in Addr :
              /\ sent'.spa = ip /\ sent'.port = p
              /\ ~ OwnSubnet(p, ip) /\ routing_table_search(ip) # NoRoute
  <1>1. ASSUME sent' = NoFrame PROVE sent'.kind # "arp"
    BY <1>1 DEF NoFrame
  <1>2. ASSUME NEW p \in Port, TargetReply(p)
        PROVE  sent'.kind # "arp" \/ sent'.spa = PortIp[sent'.port]
    BY <1>1, <1>2 DEF TargetReply, ArpReply
  <1>3. ASSUME NEW p \in Port, TargetProxy(p)
        PROVE  \/ sent'.kind # "arp"
               \/ \E ip \in Addr : /\ sent'.spa = ip /\ sent'.port = p
                                   /\ ~ OwnSubnet(p, ip) /\ routing_table_search(ip) # NoRoute
    <2> DEFINE ip == InHand(p).tpa
    <2>1. InHand(p) \in ArpFrame
      BY <1>3 DEF TargetProxy, At, InHand, TypeInv, Shape, InArp, Thread
    <2>2. ip \in Addr /\ memswap(InHand(p)).spa = ip
      BY <2>1 DEF ArpFrame, memswap
    <2>3. CASE OwnSubnet(p, ip) \/ routing_table_search(ip) = NoRoute
      BY <1>1, <1>3, <2>3 DEF TargetProxy
    <2>4. CASE ~ (OwnSubnet(p, ip) \/ routing_table_search(ip) = NoRoute)
      <3>1. sent' = ArpReply(p, InHand(p), ip)
        BY <1>3, <2>2, <2>4 DEF TargetProxy
      <3> HIDE DEF ip
      <3>2. sent'.spa = ip /\ sent'.port = p
        BY <3>1 DEF ArpReply
      <3> QED
        BY <2>2, <2>4, <3>2
    <2> QED
      BY <2>3, <2>4
  <1>4. ASSUME NEW p \in Port, Arrive(p) \/ Receive(p) \/ ReadError(p) \/ ArpMove(p)
        PROVE  sent' = NoFrame
    BY <1>4 DEF Arrive, Receive, ReadError, ArpMove, Merge, Update, Add, TargetLearn, Silent
  <1>5. ASSUME NEW t \in Thread, Get(t) \/ SearchRoute(t) \/ SendArpRequest(t)
        PROVE  sent'.kind # "arp" \/ sent'.oc # "reply"
    BY <1>1, <1>5 DEF Get, ArpGet, Found, GiveUp, Resolve, Ask, SearchRoute, SendArpRequest, Silent
  <1>6. CASE Tick \/ NewCache \/ \E s \in Station : Answer(s)
    BY <1>1, <1>6 DEF Tick, NewCache, Answer, Silent
  <1>7. CASE UNCHANGED vars
    BY <1>7 DEF vars
  <1> QED
    BY <1>1, <1>2, <1>3, <1>4, <1>5, <1>6, <1>7, NextCases DEF Leaves, ArpEnd

(***************************************************************************)
(* Where every route leads out of an interface to the interface's own      *)
(* network or a part of it, the proxy branch of incoming_arp (arp.h:148)   *)
(* answers for another address only on an interface the address is not     *)
(* reached through, whichever packets the listeners take it for.           *)
(***************************************************************************)
THEOREM ProxiesAcross ==
  ASSUME RoutesOwn
  PROVE  Spec => []ProxyOnlyAcross
  <1> DEFINE Good == TypeInv /\ TableStill /\ ProxyOnlyAcross
  <1>1. Init => Good
    BY InitTypeInv DEF Init, InitTable, TableStill, ProxyOnlyAcross, NoFrame
  <1>2. Good /\ [Next]_vars => Good'
    <2> SUFFICES ASSUME Good, [Next]_vars PROVE Good'
      OBVIOUS
    <2>1. TypeInv' /\ TableStill'
      BY NextKeepsTypeInv, NextKeepsStill
    <2>2. \A ip : routing_table_search(ip)' = routing_table_search(ip)
      BY NextKeepsStill
    <2>3. route' = route
      BY <2>1 DEF TableStill
    <2>4. ASSUME sent' = sent PROVE ProxyOnlyAcross'
      <3>1. PICK ip : ip = sent.spa
        OBVIOUS
      <3>2. routing_table_search(sent.spa)' = routing_table_search(sent.spa)
        BY <2>2, <2>4, <3>1
      <3> QED
        BY <2>3, <2>4, <3>2 DEF ProxyOnlyAcross
    <2>5. ASSUME \/ sent'.kind # "arp" \/ sent'.oc # "reply"
                 \/ sent'.spa = PortIp[sent'.port]
          PROVE  ProxyOnlyAcross'
      BY <2>5 DEF ProxyOnlyAcross
    <2>6. ASSUME NEW p \in Port, NEW ip \in Addr,
                 sent'.spa = ip, sent'.port = p,
                 ~ OwnSubnet(p, ip), routing_table_search(ip) # NoRoute
          PROVE  ProxyOnlyAcross'
      <3>1. route[routing_table_search(ip)].outgoing_interface # p
        BY <2>6, OtherInterface DEF TableStill
      <3>2. routing_table_search(sent.spa)' = routing_table_search(ip)
        BY <2>2, <2>6
      <3> QED
        BY <2>3, <2>6, <3>1, <3>2 DEF ProxyOnlyAcross
    <2> QED
      BY <2>1, <2>4, <2>5, <2>6, NextProxies
  <1>3. Good => ProxyOnlyAcross
    OBVIOUS
  <1> QED
    BY <1>1, <1>2, <1>3, PTL DEF Spec
=============================================================================
