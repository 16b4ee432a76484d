----------------------------- MODULE Neighbours -----------------------------
(***************************************************************************)
(* Two routers on one link.  The far one advertises its RIP database (an   *)
(* instance of RipAdvertise); the near one learns (Rip): its listener on   *)
(* port Link gets the updates the other has sent, and its timers age what  *)
(* it has learned.  Both run the same program.                             *)
(*                                                                         *)
(* An update reaches the near router's listener, and is worked off, within *)
(* the second it was sent in, or it is lost.                               *)
(***************************************************************************)
EXTENDS Rip

CONSTANTS
  FarHandle,       \* the Items of the far router
  FarTable,        \* its list before a network is advertised,
  FarRoutes,       \* and the routes
  Link,            \* the interface of each that the link is on
  RIP_T_UPDATE, Leftover, Wire, MaxLate    \* see RipAdvertise

VARIABLES
  far_ll, far_route, far_stale,    \* the far router's routing table
  far_sender,                      \* its rip_timers
  wire,                            \* updates on their way
  missed                           \* networks whose last update did not come
                                   \* (a history: no step depends on it)

Far == INSTANCE RipAdvertise WITH
         Handle <- FarHandle, Metrics <- MetricModulus,
         routes_ll <- far_ll, route <- far_route, stale <- far_stale,
         sender <- far_sender

farVars == <<far_ll, far_route, far_stale, far_sender, wire, missed>>
allVars == <<vars, farVars>>

ASSUME NeighboursAssumption ==
  /\ NoRoute \notin FarHandle
  /\ FarTable \in Seq(FarHandle)
  /\ FarRoutes \in [FarHandle -> Route]
  /\ \A i \in DOMAIN FarTable : ~ FLG_CHK(FarRoutes[FarTable[i]].flags, "DB")
  /\ Link \in RipPort
  /\ MetricModulus > 1
  /\ RIP_T_UPDATE \in Nat \ {0}
  /\ CHECK_EVERY % RIP_T_UPDATE = 0
  /\ Leftover \subseteq Entry
  /\ Wire \in Nat \ {0}
  /\ MaxLate \in Nat

LinkTypeOK ==
  /\ TypeOK
  /\ Far!AdvertiseTypeOK
  /\ missed \subseteq RipNetwork

LinkInit ==
  /\ Init
  /\ far_ll = FarTable
  /\ far_route = FarRoutes
  /\ far_stale = [h \in FarHandle |-> NoRoute]
  /\ Far!InitAdvertise
  /\ missed = {}

Networks(update) == { update[i].ip : i \in DOMAIN update }

(***************************************************************************)
(* The far router.                                                         *)
(***************************************************************************)
Skipped == Far!Wake /\ far_sender'.pc = "sleep"       \* a round without updates
Sending == far_sender.pc = IF Link = P1 THEN "p1" ELSE "p2"

FarTimers ==
  /\ Far!SenderStep
  /\ missed' = IF Skipped \/ (Sending /\ Len(wire') = Len(wire)) THEN RipNetwork
               ELSE IF Sending THEN missed \cup (RipNetwork \ Networks(Last(wire')))
               ELSE missed
  /\ UNCHANGED vars

FarCommand ==
  /\ Far!rip_add_route \/ Far!delete_route
  /\ UNCHANGED <<vars, missed>>

FarAnswer ==
  /\ Far!AnswerRequest
  /\ UNCHANGED <<vars, missed>>

Lose ==
  /\ wire # << >>
  /\ wire' = Tail(wire)
  /\ missed' = RipNetwork
  /\ UNCHANGED <<vars, far_ll, far_route, far_stale, far_sender>>

(***************************************************************************)
(* The near router.  incoming_rip takes as many entries as the length of   *)
(* the datagram says there are.                                            *)
(***************************************************************************)
Deliver ==
  /\ up
  /\ wire # << >>
  /\ listener[Link] = IdleListener
  /\ LET n == Far!number_of_rip_entries(Far!udp_len(Head(wire)))
     IN  listener' = [listener EXCEPT ![Link].todo = SubSeq(Head(wire), 1, n)]
  /\ wire' = Tail(wire)
  /\ UNCHANGED <<tableVars, timers, cli, up,
                 far_ll, far_route, far_stale, far_sender, missed>>

Refreshed ==      \* the network the listener is about to refresh or to learn, if any
  IF listener[Link].r = NoRoute THEN {EntryInHand(Link).ip}
  ELSE IF route[listener[Link].r].ad = RIP_AD THEN {route[listener[Link].r].network}
  ELSE {}

NearListener ==
  /\ ListenerStep(Link)
  /\ missed' = IF listener[Link].pc = "apply" THEN missed \ Refreshed ELSE missed
  /\ UNCHANGED <<far_ll, far_route, far_stale, far_sender, wire>>

NearTimers ==
  /\ TimersStep \/ TimersCrash
  /\ UNCHANGED farVars

(***************************************************************************)
(* A second passes for both.                                               *)
(***************************************************************************)
Settled == wire = << >> /\ listener[Link] = IdleListener

LinkTick ==
  /\ Settled
  /\ Tick
  /\ Far!Second
  /\ missed' = IF Far!Awake THEN RipNetwork ELSE missed
  /\ UNCHANGED <<far_ll, far_route, far_stale, wire>>

LinkNext ==
  \/ FarTimers \/ FarCommand \/ FarAnswer \/ Lose
  \/ Deliver \/ NearListener \/ NearTimers
  \/ LinkTick

LinkSpec == LinkInit /\ [][LinkNext]_allVars

(***************************************************************************)
(* Time passes, also between requests that keep the listener busy; both    *)
(* routers' threads run, and an update that is not lost arrives.  Nobody   *)
(* is obliged to enter a command.                                          *)
(***************************************************************************)
LinkFairness ==
  /\ SF_allVars(LinkTick)
  /\ WF_allVars(FarTimers)
  /\ WF_allVars(Deliver)
  /\ WF_allVars(NearListener)
  /\ WF_allVars(TimersStep /\ UNCHANGED farVars)

LinkFairSpec == LinkSpec /\ LinkFairness

(***************************************************************************)
(* What the two must and must not do.                                      *)
(***************************************************************************)
Advertised(net) ==
  \E i \in Far!Database : far_route[far_ll[i]].network = net

(***************************************************************************)
(* ripv2.h: "copy rip entries".  A network the near router has learned is  *)
(* one the far router was told to advertise, whatever updates, requests,   *)
(* losses and changes of the database come in which order.                 *)
(***************************************************************************)
LearnsOnlyAdvertised ==
  \A h \in Listed : Learned(h) => route[h].network \in RipNetwork

(***************************************************************************)
(* A route that keeps being advertised on time is never set INVALID,       *)
(* though the updates are exactly as far apart as RIP_T_INVALID and the    *)
(* two routers' rounds fall in any order within the second: only a lost or *)
(* late update, or one without the network, makes the timers do it.        *)
(***************************************************************************)
AdvertisedKept ==
  [][\A h \in Listed :
       ~ Invalid(h) /\ FLG_CHK(route'[h].flags, "INVALID")
         => route[h].network \in missed]_allVars

(***************************************************************************)
(* ripv2.h: "send periodic updates".  They are sent in a round if and only *)
(* if the seconds the thread has been late so far add up to a multiple of  *)
(* RIP_T_UPDATE: a thread that is late once is silent in every round from  *)
(* then on, until it has been late by a whole period.                      *)
(***************************************************************************)
LatenessSilences ==
  [][Far!Wake => (far_sender'.pc = "p1" <=> far_sender.late % RIP_T_UPDATE = 0)]_allVars

(***************************************************************************)
(* A network that stays in the far router's database is learned, if the    *)
(* updates come on time from some moment on and none of them is lost: the  *)
(* near router's search for its network number finds a route again and     *)
(* again, whatever was advertised and withdrawn before.                    *)
(***************************************************************************)
OnTime == <>[](far_sender.late % RIP_T_UPDATE = 0) /\ <>[][~ Lose]_allVars

AdvertisedLearned ==
  OnTime => \A net \in RipNetwork :
    <>[]Advertised(net) => []<>(up => routing_table_search(net) # NoRoute)
=============================================================================
