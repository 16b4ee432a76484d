-------------------------------- MODULE Rip --------------------------------
(***************************************************************************)
(* The routing table of the running router: what its threads do to it.     *)
(*                                                                         *)
(*   timers      rip_timers, which calls RIP_check_timers every            *)
(*               CHECK_EVERY seconds: silent RIP routes become INVALID,    *)
(*               then FLUSH, and are then deleted;                         *)
(*   listener    one port_listener per interface, whose frames may carry   *)
(*               RIP responses: incoming_rip and RIP_parse_entry;          *)
(*   cli         the consoles (the config thread and the UDP listener):    *)
(*               the commands network, rip and delete_route.               *)
(*                                                                         *)
(* Nothing is locked: the mutex of main.c is initialised and its two uses  *)
(* are commented out.  A step is one walk over the list or one insertion   *)
(* or removal, and threads interleave between steps.  (The periodic update *)
(* that rip_timers also sends reads the table only; see RipAdvertise.)     *)
(***************************************************************************)
EXTENDS RoutingTable

CONSTANTS
  CHECK_EVERY,      \* seconds rip_timers sleeps between two checks
  RIP_T_INVALID,    \* silence after which a route is INVALID
  RIP_T_FLUSH,      \* and, after it was set to FLUSH, deleted
  C1, C2,           \* the handles of the two connected routes
  P1, P2,           \* the two interfaces
  RipPort,          \* those with a RIP neighbour
  PortIp, PortMask, \* the addresses create_port_struct gives the ports
  MetricModulus,    \* 2^32, the range of a u_int metric
  Message,          \* RIP responses the neighbours send
  StaticRoute,      \* arguments of the network command
  RipNetwork,       \* arguments of the rip command
  Console,          \* threads that execute commands
  Command           \* the commands they are given

Entry == [ip : Addr, mask : Addr, metric : 0 .. MetricModulus - 1]

ASSUME RipAssumption ==
  /\ CHECK_EVERY \in Nat \ {0}
  /\ RIP_T_INVALID \in 0 .. MaxAge - 1
  /\ RIP_T_FLUSH \in 0 .. MaxAge - 1
  /\ C1 \in Handle /\ C2 \in Handle /\ C1 # C2
  /\ Port = {P1, P2} /\ RipPort \subseteq Port
  /\ PortIp \in [Port -> Addr]
  /\ PortMask \in [Port -> 0 .. W]
  /\ MetricModulus \in Nat \ {0}
  /\ Message \subseteq Seq(Entry)
  /\ StaticRoute \subseteq [network : Addr, mask : 0 .. W, port : Port]
  /\ RipNetwork \subseteq Addr
  /\ Command \subseteq {"network", "rip", "delete_route"}

VARIABLES
  timers,        \* rip_timers: where it is, its curr, the position to delete
  listener,      \* the entries of the response each listener is processing
  cli,           \* the command each console is executing
  up             \* the process has not died of a bad access

vars == <<tableVars, timers, listener, cli, up>>

TimersState ==
  [ pc        : {"sleep", "visit", "find", "unlink", "next"},
    curr      : Handle \cup {NoRoute},
    idx       : Nat,
    remaining : 0 .. CHECK_EVERY ]

ListenerState ==
  [ pc : {"search", "apply"}, todo : Seq(Entry), r : Handle \cup {NoRoute} ]

CliState ==
  [ pc : {"idle", "rip", "unlink"}, r : Handle \cup {NoRoute}, net : Addr, idx : Nat ]

TypeOK ==
  /\ TableTypeOK
  /\ timers \in TimersState
  /\ listener \in [Port -> ListenerState]
  /\ cli \in [Console -> CliState]
  /\ up \in BOOLEAN

(***************************************************************************)
(* main: create_port_struct has put the two connected routes in the table  *)
(* before any thread starts.                                               *)
(***************************************************************************)
Connected(p) ==
  NewRoute(ip_mask_to_network(PortIp[p], PortMask[p]), PortMask[p], p,
           DIRECTLY_CONNECTED_AD, {})

InitTable ==
  /\ routes_ll = <<C1, C2>>
  /\ route = [h \in Handle |-> IF h = C2 THEN Connected(P2) ELSE Connected(P1)]
  /\ stale = [h \in Handle |-> NoRoute]

IdleTimers   == [pc |-> "sleep", curr |-> NoRoute, idx |-> 0, remaining |-> 0]
IdleListener == [pc |-> "search", todo |-> << >>, r |-> NoRoute]
IdleCli      == [pc |-> "idle", r |-> NoRoute, net |-> {}, idx |-> 0]

Init ==
  /\ InitTable
  /\ timers = IdleTimers
  /\ listener = [p \in Port |-> IdleListener]
  /\ cli = [c \in Console |-> IdleCli]
  /\ up = TRUE

(***************************************************************************)
(* malloc: a Route no thread holds, in an Item that is not in the list.    *)
(* The timers thread holds the Route it is about to look for; the Item it  *)
(* goes on from may already have been given to somebody else.              *)
(***************************************************************************)
Held ==
  { listener[p].r : p \in Port } \cup { cli[c].r : c \in Console }
    \cup (IF timers.pc = "find" THEN {timers.curr} ELSE {})

FreshHandle == Handle \ (Listed \cup Held)

(***************************************************************************)
(* rip_timers and RIP_check_timers.                                        *)
(***************************************************************************)
Learned(h) == route[h].ad = RIP_AD /\ ~ FLG_CHK(route[h].flags, "DB")

Invalid(h) == FLG_CHK(route[h].flags, "INVALID")
Flush(h)   == FLG_CHK(route[h].flags, "FLUSH")

TimersAt(pc) == up /\ timers.pc = pc

TimersStart ==
  /\ TimersAt("sleep")
  /\ timers.remaining = 0
  /\ timers' = [timers EXCEPT !.pc = "visit", !.curr = Head1]
  /\ UNCHANGED <<tableVars, listener, cli, up>>

TimersSleep ==        \* while (curr) has ended
  /\ TimersAt("visit")
  /\ timers.curr = NoRoute
  /\ timers' = [IdleTimers EXCEPT !.remaining = CHECK_EVERY]
  /\ UNCHANGED <<tableVars, listener, cli, up>>

Expired(h) == Learned(h) /\ Flush(h) /\ route[h].age > RIP_T_FLUSH

\* Mutant: the FLG_RM is forgotten.
SetFlushKeepsInvalid(h) ==
  /\ Learned(h) /\ ~ Flush(h) /\ Invalid(h)
  /\ route[h].age > RIP_T_INVALID
  /\ route' = [route EXCEPT
                 ![h].metric = RIP_INFINITY,
                 ![h].age    = 0,
                 ![h].flags  = FLG_ADD(route[h].flags, "FLUSH")]

\* What the check does to the flags of the Route it looks at.
SetFlush(h) ==
  /\ Learned(h) /\ ~ Flush(h) /\ Invalid(h)
  /\ route[h].age > RIP_T_INVALID
  /\ route' = [route EXCEPT
                 ![h].metric = RIP_INFINITY,
                 ![h].age    = 0,
                 ![h].flags  = FLG_ADD(FLG_RM(route[h].flags, "INVALID"), "FLUSH")]

\* Mutant: a route is set INVALID at the limit already.
SetInvalidAtLimit(h) ==
  /\ Learned(h) /\ ~ Flush(h) /\ ~ Invalid(h)
  /\ route[h].age >= RIP_T_INVALID
  /\ route' = [route EXCEPT ![h].flags = FLG_ADD(route[h].flags, "INVALID")]

SetInvalid(h) ==
  /\ Learned(h) /\ ~ Flush(h) /\ ~ Invalid(h)
  /\ route[h].age > RIP_T_INVALID
  /\ route' = [route EXCEPT ![h].flags = FLG_ADD(route[h].flags, "INVALID")]

NothingDue(h) ==
  /\ \/ ~ Learned(h)
     \/ Flush(h) /\ route[h].age <= RIP_T_FLUSH
     \/ ~ Flush(h) /\ route[h].age <= RIP_T_INVALID
  /\ UNCHANGED route

TimersVisit ==
  /\ TimersAt("visit")
  /\ timers.curr # NoRoute
  /\ \/ /\ SetFlush(timers.curr) \/ SetInvalid(timers.curr) \/ NothingDue(timers.curr)
        /\ timers' = [timers EXCEPT !.pc = "next"]
     \/ /\ Expired(timers.curr)
        /\ timers' = [timers EXCEPT !.pc = "find"]
        /\ UNCHANGED route
  /\ UNCHANGED <<routes_ll, stale, listener, cli, up>>

TimersFind ==         \* routing_table_delete(R, 0): its walk ...
  /\ TimersAt("find")
  /\ LET i == PositionByRoute(timers.curr)
     IN  timers' = [timers EXCEPT !.pc = IF i = 0 THEN "next" ELSE "unlink",
                                  !.idx = i]
  /\ UNCHANGED <<tableVars, listener, cli, up>>

TimersUnlink ==       \* ... and its LL_delete
  /\ TimersAt("unlink")
  /\ LL_delete(timers.idx)
  /\ timers' = [timers EXCEPT !.pc = "next", !.idx = 0]
  /\ UNCHANGED <<listener, cli, up>>

TimersNext ==         \* curr = curr->next, of a freed Item as well
  /\ TimersAt("next")
  /\ timers' = [timers EXCEPT !.pc = "visit", !.curr = Successor(timers.curr)]
  /\ UNCHANGED <<tableVars, listener, cli, up>>

\* The memory of a freed Item may hold anything: using it may be the end.
TimersCrash ==
  /\ TimersAt("visit") \/ TimersAt("next")
  /\ timers.curr # NoRoute
  /\ timers.curr \notin Listed
  /\ up' = FALSE
  /\ UNCHANGED <<tableVars, timers, listener, cli>>

TimersStep ==
  \/ TimersStart \/ TimersSleep \/ TimersVisit \/ TimersFind
  \/ TimersUnlink \/ TimersNext

(***************************************************************************)
(* incoming_rip, on the listener of port p: the entries of a response from *)
(* the last to the first, for each a search and then an update or add.     *)
(***************************************************************************)
RipResponse(p) ==
  /\ up
  /\ listener[p] = IdleListener
  /\ \E m \in Message : listener' = [listener EXCEPT ![p].todo = m]
  /\ UNCHANGED <<tableVars, timers, cli, up>>

EntryInHand(p) == Last(listener[p].todo)

ListenerSearch(p) ==
  /\ up
  /\ listener[p].pc = "search"
  /\ listener[p].todo # << >>
  /\ listener' = [listener EXCEPT
                    ![p].pc = "apply",
                    ![p].r  = routing_table_search(EntryInHand(p).ip)]
  /\ UNCHANGED <<tableVars, timers, cli, up>>

\* Mutant: the MIN is forgotten.
NewMetricUnbounded(m) == m + 1

NewMetric(m) ==       \* MIN(RIP_INFINITY, m + 1), of u_ints
  LET sum == (m + 1) % MetricModulus
  IN  IF RIP_INFINITY < sum THEN RIP_INFINITY ELSE sum

\* Mutant: an update makes the route valid again.
RefreshRouteRevives(h, e) ==
  /\ route' = IF route[h].ad = RIP_AD
              THEN [route EXCEPT ![h].age    = 0,
                                 ![h].metric = NewMetric(e.metric),
                                 ![h].mask   = mask_to_prefix(e.mask),
                                 ![h].flags  = {}]
              ELSE route
  /\ UNCHANGED <<routes_ll, stale>>

RefreshRoute(h, e) ==
  /\ route' = IF route[h].ad = RIP_AD
              THEN [route EXCEPT ![h].age    = 0,
                                 ![h].metric = NewMetric(e.metric),
                                 ![h].mask   = mask_to_prefix(e.mask)]
              ELSE route
  /\ UNCHANGED <<routes_ll, stale>>

LearnRoute(p, e) ==
  \E h \in FreshHandle :
    add_route(h, e.ip, mask_to_prefix(e.mask), p, RIP_AD, {})

ListenerApply(p) ==
  /\ up
  /\ listener[p].pc = "apply"
  /\ IF listener[p].r # NoRoute
     THEN RefreshRoute(listener[p].r, EntryInHand(p))
     ELSE LearnRoute(p, EntryInHand(p))
  /\ listener' = [listener EXCEPT ![p].pc   = "search",
                                  ![p].todo = Front(@),
                                  ![p].r    = NoRoute]
  /\ UNCHANGED <<timers, cli, up>>

ListenerStep(p) == ListenerSearch(p) \/ ListenerApply(p)

(***************************************************************************)
(* The commands.                                                           *)
(***************************************************************************)
CliAt(c, pc) == up /\ cli[c].pc = pc

AddStaticRoute(c) ==
  /\ CliAt(c, "idle")
  /\ "network" \in Command
  /\ \E s \in StaticRoute, h \in FreshHandle :
       add_route(h, s.network, s.mask, s.port, STATIC_AD, {})
  /\ UNCHANGED <<timers, listener, cli, up>>

RipSearch(c) ==       \* a network that has no route is refused
  /\ CliAt(c, "idle")
  /\ "rip" \in Command
  /\ \E net \in RipNetwork :
       LET r == routing_table_search(net)
       IN  /\ r # NoRoute
           /\ cli' = [cli EXCEPT ![c].pc = "rip", ![c].r = r, ![c].net = net]
  /\ UNCHANGED <<tableVars, timers, listener, up>>

RipAdd(c) ==
  /\ CliAt(c, "rip")
  /\ LET r == route[cli[c].r]
     IN  \E h \in FreshHandle :
           add_route(h, cli[c].net, r.mask, r.outgoing_interface, RIP_AD, {"DB"})
  /\ cli' = [cli EXCEPT ![c] = IdleCli]
  /\ UNCHANGED <<timers, listener, up>>

DeleteFind(c) ==      \* delete_route <id>: the walk of routing_table_delete ...
  /\ CliAt(c, "idle")
  /\ "delete_route" \in Command
  /\ \E id \in DOMAIN routes_ll :
       /\ PositionById(id) # 0
       /\ cli' = [cli EXCEPT ![c].pc = "unlink", ![c].idx = PositionById(id)]
  /\ UNCHANGED <<tableVars, timers, listener, up>>

DeleteUnlink(c) ==    \* ... and its LL_delete
  /\ CliAt(c, "unlink")
  /\ LL_delete(cli[c].idx)
  /\ cli' = [cli EXCEPT ![c] = IdleCli]
  /\ UNCHANGED <<timers, listener, up>>

CliStep(c) == RipAdd(c) \/ DeleteUnlink(c)

(***************************************************************************)
(* A second passes: for every last_update, and for the sleeping thread.    *)
(***************************************************************************)
Older(n) == IF n < MaxAge THEN n + 1 ELSE MaxAge

Tick ==
  /\ up
  /\ route' = [h \in Handle |-> [route[h] EXCEPT !.age = Older(@)]]
  /\ timers' = [timers EXCEPT !.remaining = IF @ > 0 THEN @ - 1 ELSE 0]
  /\ UNCHANGED <<routes_ll, stale, listener, cli, up>>

Next ==
  \/ Tick
  \/ TimersStep \/ TimersCrash
  \/ \E p \in RipPort : RipResponse(p) \/ ListenerStep(p)
  \/ \E c \in Console :
       AddStaticRoute(c) \/ RipSearch(c) \/ DeleteFind(c) \/ CliStep(c)

Spec == Init /\ [][Next]_vars

(***************************************************************************)
(* Time passes, and the operating system runs every thread that can run.   *)
(* Nobody is obliged to send a response or to enter a command.             *)
(***************************************************************************)
Fairness ==
  /\ WF_vars(Tick)
  /\ WF_vars(TimersStep)
  /\ \A p \in RipPort : WF_vars(ListenerStep(p))
  /\ \A c \in Console : WF_vars(CliStep(c))

FairSpec == Spec /\ Fairness
=============================================================================
