---------------------------- MODULE RipAdvertise ----------------------------
(***************************************************************************)
(* The advertising half of ripv2.h: the schedule of rip_timers, the        *)
(* update RIP_generate_update builds from the entries of the RIP database  *)
(* (the routes with the flag DB), the answer to a request, and what        *)
(* number_of_rip_entries makes of the length of a received update.         *)
(*                                                                         *)
(* RIP_generate_update reads the routing table and changes nothing in it.  *)
(* The commands rip and delete_route, which change the database, are here  *)
(* as one step each; Rip has them with the steps of other threads between. *)
(***************************************************************************)
EXTENDS RoutingTable

CONSTANTS
  CHECK_EVERY,     \* seconds rip_timers sleeps between two rounds
  RIP_T_UPDATE,    \* seconds between two updates
  P1, P2,          \* the interfaces, in the order RIP_update serves them
  Link,            \* the one of them the neighbour is on
  Metrics,         \* 2^32
  RipNetwork,      \* arguments of the rip command
  Leftover,        \* entries that memory from malloc may hold by chance
  Wire,            \* updates that may be on their way to the neighbour
  MaxLate          \* bound: seconds rip_timers runs late in all

Entry == [ip : Addr, mask : Addr, metric : 0 .. Metrics - 1]

VARIABLES
  sender,          \* rip_timers
  wire             \* the updates on their way to the neighbour

advertiseVars == <<tableVars, sender, wire>>

(***************************************************************************)
(* clock is the seconds since start_time, which only count modulo          *)
(* RIP_T_UPDATE; late is how long the thread has not slept so far.         *)
(***************************************************************************)
Sender ==
  [ pc        : {"sleep", "p1", "p2"},
    clock     : 0 .. RIP_T_UPDATE - 1,
    remaining : 0 .. CHECK_EVERY,
    late      : 0 .. MaxLate ]

AdvertiseTypeOK ==
  /\ TableTypeOK
  /\ sender \in Sender
  /\ wire \in Seq(Seq(Entry)) /\ Len(wire) <= Wire

\* The two routers of a link are not started at the same moment.
InitAdvertise ==
  /\ \E s \in 0 .. RIP_T_UPDATE - 1 :
       sender = [pc |-> "sleep", remaining |-> s, late |-> 0,
                 clock |-> (RIP_T_UPDATE - s) % RIP_T_UPDATE]
  /\ wire = << >>

(***************************************************************************)
(* RIP_generate_update.                                                    *)
(***************************************************************************)
\* Mutant: the test for the flag is left out.
DatabaseAll == DOMAIN routes_ll

Database == { i \in DOMAIN routes_ll : FLG_CHK(route[routes_ll[i]].flags, "DB") }

EntryOf(h) ==
  [ip |-> route[h].network, mask |-> Swap(prefix_to_mask(route[h].mask)), metric |-> 1]

\* The length counts every entry of the database; the last one is copied to
\* the first place, and the other places are what malloc returned.
RIP_generate_update ==
  IF Database = {} THEN {}
  ELSE { <<EntryOf(routes_ll[Max(Database)])>> \o rest :
           rest \in [1 .. Cardinality(Database) - 1 -> Leftover] }

UShorts == 65536      \* 2^16

sizeof_udp_h       == 8
sizeof_rip_h       == 4
sizeof_rip_entry_h == 20

udp_len(update) == sizeof_udp_h + sizeof_rip_h + sizeof_rip_entry_h * Len(update)

\* Mutant: the RIP header is not taken off.
number_with_header(len) ==
  LET total == (len - sizeof_udp_h) % UShorts
  IN  IF total % sizeof_rip_entry_h # 0 THEN -1 ELSE total \div sizeof_rip_entry_h

number_of_rip_entries(len) ==     \* of u_shorts
  LET total == (len - sizeof_udp_h - sizeof_rip_h) % UShorts
  IN  IF total % sizeof_rip_entry_h # 0 THEN -1 ELSE total \div sizeof_rip_entry_h

(***************************************************************************)
(* inject_frame, of a null pointer too.  Frames to the other interface     *)
(* reach nobody here; one that finds the wire full is lost.                *)
(***************************************************************************)
Inject(p) ==
  IF p # Link \/ RIP_generate_update = {} \/ Len(wire) >= Wire
  THEN UNCHANGED wire
  ELSE \E u \in RIP_generate_update : wire' = Append(wire, u)

(***************************************************************************)
(* rip_timers: the time is read first, the table is checked (Rip), and     *)
(* then the update is due or not, by the time that was read.               *)
(***************************************************************************)
Awake == sender.pc # "sleep" \/ sender.remaining = 0

\* Mutant: every round is due, as if time since the last update counted.
DueAnyway(clock) == TRUE

Due(clock) == clock = 0       \* (now - start_time) % RIP_T_UPDATE == 0

\* Mutant: the seconds are counted from 1.
SleepLonger == [sender EXCEPT !.pc = "sleep", !.remaining = CHECK_EVERY + 1]

Sleep == [sender EXCEPT !.pc = "sleep", !.remaining = CHECK_EVERY]

Wake ==
  /\ sender.pc = "sleep" /\ sender.remaining = 0
  /\ sender' = IF Due(sender.clock) THEN [sender EXCEPT !.pc = "p1"] ELSE Sleep
  /\ UNCHANGED <<tableVars, wire>>

Update1 ==
  /\ sender.pc = "p1"
  /\ Inject(P1)
  /\ sender' = [sender EXCEPT !.pc = "p2"]
  /\ UNCHANGED tableVars

Update2 ==
  /\ sender.pc = "p2"
  /\ Inject(P2)
  /\ sender' = Sleep
  /\ UNCHANGED tableVars

SenderStep == Wake \/ Update1 \/ Update2

\* incoming_rip, of a request: a listener answers on the same interface.
AnswerRequest ==
  /\ RIP_generate_update # {}
  /\ Inject(Link)
  /\ UNCHANGED <<tableVars, sender>>

(***************************************************************************)
(* The commands that change the database.                                  *)
(***************************************************************************)
Free == Handle \ Listed

rip_add_route ==      \* the mask and the interface of the route found
  /\ \E net \in RipNetwork, h \in Free :
       LET r == routing_table_search(net)
       IN  /\ r # NoRoute
           /\ add_route(h, net, route[r].mask, route[r].outgoing_interface,
                        RIP_AD, {"DB"})
  /\ UNCHANGED <<sender, wire>>

delete_route ==
  /\ \E id \in DOMAIN routes_ll :
       /\ PositionById(id) # 0
       /\ LL_delete(PositionById(id))
  /\ UNCHANGED <<sender, wire>>

(***************************************************************************)
(* A second passes.  A thread that is due and does not run, or that takes  *)
(* a second for its round, is late by it.                                  *)
(***************************************************************************)
Second ==
  /\ Awake => sender.late < MaxLate
  /\ sender' = [sender EXCEPT
                  !.clock     = (@ + 1) % RIP_T_UPDATE,
                  !.remaining = IF @ > 0 THEN @ - 1 ELSE 0,
                  !.late      = IF Awake THEN @ + 1 ELSE @]
  /\ UNCHANGED <<tableVars, wire>>
=============================================================================
