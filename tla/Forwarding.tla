----------------------------- MODULE Forwarding -----------------------------
(***************************************************************************)
(* What a port_listener does with the frames of its interface: the parser, *)
(* incoming_arp, the search for a route, arp_get and the injection; with   *)
(* the ARP cache the two listeners and the console share.                  *)
(*                                                                         *)
(* A step is one walk over the cache or one change of it, as in Rip.  The  *)
(* routing table stands still here: Rip is about its changes.  RIP         *)
(* responses are frames that are never forwarded; they are in Rip too.     *)
(***************************************************************************)
EXTENDS RoutingTable

CONSTANTS
  Mac, NoMac,         \* hardware addresses; the null pointer of arp_get
  PortMac,            \* p->mac
  PortIp, PortMask,   \* p->ip, p->mask
  Table, Routes,      \* the routing table: its list, and its routes
  P1,                 \* the interface send_arp_request asks on
  Console,            \* threads that execute commands
  Asked,              \* arguments of send_arp_request
  Arriving,           \* the frames the stations at a port send by themselves
  Station,            \* [port, ip, mac] of those that answer ARP requests
  ARP_TIMEOUT,        \* seconds arp_get waits
  Backlog,            \* frames the kernel keeps for one interface
  Failing             \* interfaces whose capture may fail

Thread == Port \cup Console

ArpFrame ==
  [ kind : {"arp"}, oc : {"request", "reply"}, spa : Addr, sha : Mac, tpa : Addr ]

\* to: whose hardware address the frame carries: the router's, another's or
\* that of a broadcast.
IpFrame == [ kind : {"ip"}, dst : Addr, to : {"router", "other", "all"} ]

\* A Frame as it goes through the listener.
Frame == ArpFrame \cup IpFrame

\* What a console asks arp_get for.
Question == [ kind : {"question"}, dst : Addr ]

NoFrame == [ kind |-> "none" ]

Arp == [ ip : Addr, mac : Mac ]     \* an entry of the cache

ASSUME ForwardingAssumption ==
  /\ NoMac \notin Mac
  /\ PortMac \in [Port -> Mac]
  /\ PortIp \in [Port -> Addr]
  /\ PortMask \in [Port -> 0 .. W]
  /\ Table \in Seq(Handle)
  /\ Routes \in [Handle -> Route]
  /\ P1 \in Port
  /\ Port \cap Console = {}
  /\ Asked \subseteq Addr
  /\ Arriving \in [Port -> SUBSET Frame]
  /\ Station \subseteq [port : Port, ip : Addr, mac : Mac]
  /\ ARP_TIMEOUT \in Nat
  /\ Backlog \in Nat
  /\ Failing \subseteq Port

VARIABLES
  cache,     \* arp_cache_ll
  inq,       \* frames captured on an interface and not read yet
  last,      \* where pcap_next_ex left packet (of Failing: nothing else needs it)
  job,       \* what a thread is doing, with the frame it has in hand
  asked,     \* ARP requests on a wire that a station may still answer
  sent       \* the frame the last step injected, and the frame that caused it

vars == <<tableVars, cache, inq, last, job, asked, sent>>

Job ==
  [ pc      : {"idle", "merge", "update", "add", "target", "route", "get", "wait"},
    frame   : Frame \cup Question \cup {NoFrame},
    merged  : BOOLEAN,               \* merge_flag
    out     : Port,                  \* where the answer is expected
    elapsed : 0 .. ARP_TIMEOUT + 1 ] \* time(0) - send_time

Injected ==
  [ kind : {"arp"}, port : Port, oc : {"request", "reply"},
    spa : Addr, sha : Mac, tpa : Addr, cause : ArpFrame \cup {NoFrame} ]
  \cup [ kind : {"ip"}, port : Port, mac : Mac, cause : IpFrame ]
  \cup {NoFrame}

TypeOK ==
  /\ TableTypeOK
  /\ cache \in Seq(Arp)
  /\ inq \in [Port -> Seq(Frame)]
  /\ last \in [Failing -> Frame \cup {NoFrame}]
  /\ job \in [Thread -> Job]
  /\ asked \subseteq Port \X Addr
  /\ sent \in Injected

Idle == [ pc |-> "idle", frame |-> NoFrame, merged |-> FALSE, out |-> P1, elapsed |-> 0 ]

InitTable ==
  /\ routes_ll = Table
  /\ route = Routes
  /\ stale = [h \in Handle |-> NoRoute]

Init ==
  /\ InitTable
  /\ cache = << >>
  /\ inq = [p \in Port |-> << >>]
  /\ last = [p \in Failing |-> NoFrame]
  /\ job = [t \in Thread |-> Idle]
  /\ asked = {}
  /\ sent = NoFrame

(***************************************************************************)
(* The ARP cache.                                                          *)
(***************************************************************************)
EntriesOf(ip) == { i \in DOMAIN cache : cache[i].ip = ip }

arp_cache_search(ip) ==      \* the first entry of the address
  IF EntriesOf(ip) = {} THEN NoMac
  ELSE cache[CHOOSE i \in EntriesOf(ip) : \A j \in EntriesOf(ip) : i <= j].mac

add_arp(ip, mac) == [ip |-> ip, mac |-> mac]

\* Mutant: every entry is written, whatever its address.
RewrittenAll(ip, mac) == [i \in DOMAIN cache |-> [cache[i] EXCEPT !.mac = mac]]

\* The walk of arp_cache_update: it writes every entry of the address.
Rewritten(ip, mac) ==
  [i \in DOMAIN cache |-> IF cache[i].ip = ip THEN [cache[i] EXCEPT !.mac = mac]
                          ELSE cache[i]]

(***************************************************************************)
(* The stations.  A frame finds room in the capture buffer of its          *)
(* interface or is lost; a request may never be answered.                  *)
(***************************************************************************)
Capture(p, f) ==
  /\ Len(inq[p]) < Backlog
  /\ inq' = [inq EXCEPT ![p] = Append(@, f)]

Arrive(p) ==
  /\ \E f \in Arriving[p] : Capture(p, f)
  /\ sent' = NoFrame
  /\ UNCHANGED <<tableVars, cache, last, job, asked>>

Answer(s) ==
  /\ <<s.port, s.ip>> \in asked
  /\ Capture(s.port, [kind |-> "arp", oc |-> "reply", spa |-> s.ip, sha |-> s.mac,
                      tpa |-> PortIp[s.port]])
  /\ asked' = asked \ {<<s.port, s.ip>>}
  /\ sent' = NoFrame
  /\ UNCHANGED <<tableVars, cache, last, job>>

(***************************************************************************)
(* The parser.  is_multicast returns 1 whatever the frame's address is.    *)
(***************************************************************************)
\* Requests are broadcast, replies are not.
is_broadcast(f) ==
  \/ f.kind = "arp" /\ f.oc = "request"
  \/ f.kind = "ip" /\ f.to = "all"

is_multicast(f)  == TRUE
is_for_me_eth(f) == is_broadcast(f) \/ is_multicast(f) \/ (f.kind = "ip" /\ f.to = "router")

Go(t, pc) == job' = [job EXCEPT ![t].pc = pc]
Finish(t) == job' = [job EXCEPT ![t] = Idle]

Silent == sent' = NoFrame

\* add_frame: the parser decides what the listener does with the frame.
Parse(p, f) ==
  job' = IF is_for_me_eth(f)
         THEN [job EXCEPT ![p].pc    = IF f.kind = "arp" THEN "merge" ELSE "route",
                          ![p].frame = f]
         ELSE job

Receive(p) ==
  /\ job[p].pc = "idle"
  /\ inq[p] # << >>
  /\ Parse(p, Head(inq[p]))
  /\ inq' = [inq EXCEPT ![p] = Tail(@)]
  /\ last' = IF p \in Failing THEN [last EXCEPT ![p] = Head(inq[p])] ELSE last
  /\ Silent
  /\ UNCHANGED <<tableVars, cache, asked>>

\* pcap_next_ex returns -1 and leaves packet alone: the frame it points to is
\* taken once more.  Before the first frame packet is not initialised, and the
\* model does not say what is read then.
ReadError(p) ==
  /\ p \in Failing
  /\ job[p].pc = "idle"
  /\ last[p] # NoFrame
  /\ Parse(p, last[p])
  /\ Silent
  /\ UNCHANGED <<tableVars, cache, inq, last, asked>>

(***************************************************************************)
(* incoming_arp: an entry that is there is updated, a new one is added if  *)
(* the packet is for the router; then the packet is looked at.             *)
(***************************************************************************)
At(t, pc) == job[t].pc = pc

InHand(t) == job[t].frame

Merge(p) ==
  /\ At(p, "merge")
  /\ Go(p, IF arp_cache_search(InHand(p).spa) # NoMac THEN "update" ELSE "target")
  /\ Silent
  /\ UNCHANGED <<tableVars, cache, inq, last, asked>>

\* Mutant: update_flag is never set.
UpdateAlwaysAdds(p) ==
  /\ At(p, "update")
  /\ cache' = Rewritten(InHand(p).spa, InHand(p).sha)
  /\ Go(p, "add")
  /\ Silent
  /\ UNCHANGED <<tableVars, inq, last, asked>>

Update(p) ==          \* arp_cache_update: the walk, which may find nothing any more
  /\ At(p, "update")
  /\ cache' = Rewritten(InHand(p).spa, InHand(p).sha)
  /\ job' = IF EntriesOf(InHand(p).spa) = {}
            THEN [job EXCEPT ![p].pc = "add"]
            ELSE [job EXCEPT ![p].pc = "target", ![p].merged = TRUE]
  /\ Silent
  /\ UNCHANGED <<tableVars, inq, last, asked>>

Add(p) ==             \* ... and the LL_add
  /\ At(p, "add")
  /\ cache' = Append(cache, add_arp(InHand(p).spa, InHand(p).sha))
  /\ job' = [job EXCEPT ![p].pc = "target", ![p].merged = TRUE]
  /\ Silent
  /\ UNCHANGED <<tableVars, inq, last, asked>>

ForRouter(p, f) == f.tpa = PortIp[p] \/ f.tpa = {}

\* Sender and target change places.
memswap(f) == [f EXCEPT !.spa = f.tpa, !.tpa = f.spa]

\* A reply to f that says ip is at p's own hardware address.
ArpReply(p, f, ip) ==
  [ kind |-> "arp", port |-> p, oc |-> "reply", spa |-> ip, sha |-> PortMac[p],
    tpa |-> memswap(f).tpa, cause |-> f ]

\* Mutant: the test for the interface's own network is left out.
OwnSubnetNever(p, ip) == FALSE

OwnSubnet(p, ip) ==
  belongs_to_subnet(ip, get_subnet(PortIp[p], PortMask[p]), PortMask[p])

TargetLearn(p) ==
  /\ At(p, "target")
  /\ ForRouter(p, InHand(p)) /\ ~ job[p].merged
  /\ Go(p, "update")
  /\ Silent
  /\ UNCHANGED <<tableVars, cache, inq, last, asked>>

TargetReply(p) ==
  /\ At(p, "target")
  /\ ForRouter(p, InHand(p)) /\ job[p].merged
  /\ Finish(p)
  /\ sent' = IF InHand(p).oc = "request" THEN ArpReply(p, InHand(p), PortIp[p])
             ELSE NoFrame
  /\ UNCHANGED <<tableVars, cache, inq, last, asked>>

TargetProxy(p) ==     \* another's address: not on this network, but routed
  /\ At(p, "target")
  /\ ~ ForRouter(p, InHand(p))
  /\ Finish(p)
  /\ LET tpa == InHand(p).tpa
     IN  sent' = IF OwnSubnet(p, tpa) \/ routing_table_search(tpa) = NoRoute
                 THEN NoFrame
                 ELSE ArpReply(p, InHand(p), memswap(InHand(p)).spa)
  /\ UNCHANGED <<tableVars, cache, inq, last, asked>>

incoming_arp(p) ==
  \/ Merge(p) \/ Update(p) \/ Add(p)
  \/ TargetLearn(p) \/ TargetReply(p) \/ TargetProxy(p)

(***************************************************************************)
(* port_listener's search, and forward_packet.  arp_get looks in the cache *)
(* once; if the address is not there it sends a request, and looks again   *)
(* and again until the time is up.  A listener in arp_get reads no frames. *)
(* The mac it returns is copied and the frame injected in the same step.   *)
(***************************************************************************)
SearchRoute(p) ==
  /\ At(p, "route")
  /\ LET r == routing_table_search(InHand(p).dst)
     IN  job' = IF r = NoRoute THEN [job EXCEPT ![p] = Idle]
                ELSE [job EXCEPT ![p].pc = "get", ![p].out = route[r].outgoing_interface]
  /\ Silent
  /\ UNCHANGED <<tableVars, cache, inq, last, asked>>

SendArpRequest(c) ==
  /\ At(c, "idle")
  /\ \E ip \in Asked :
       job' = [job EXCEPT ![c].pc = "get", ![c].out = P1,
                          ![c].frame = [kind |-> "question", dst |-> ip]]
  /\ Silent
  /\ UNCHANGED <<tableVars, cache, inq, last, asked>>

Resolve(t, mac) ==    \* arp_get returns mac: forward the frame
  /\ Finish(t)
  /\ sent' = IF InHand(t).kind = "ip"
             THEN [kind |-> "ip", port |-> job[t].out, mac |-> mac, cause |-> InHand(t)]
             ELSE NoFrame
  /\ UNCHANGED asked

Ask(t) ==             \* the request, and the wait for its answer
  /\ job' = [job EXCEPT ![t].pc = "wait", ![t].elapsed = 0]
  /\ sent' = [kind |-> "arp", port |-> job[t].out, oc |-> "request",
              spa |-> PortIp[job[t].out], sha |-> PortMac[job[t].out],
              tpa |-> InHand(t).dst, cause |-> NoFrame]
  /\ asked' = asked \cup {<<job[t].out, InHand(t).dst>>}

ArpGet(t) ==
  /\ At(t, "get")
  /\ LET mac == arp_cache_search(InHand(t).dst)
     IN  IF mac # NoMac THEN Resolve(t, mac) ELSE Ask(t)
  /\ UNCHANGED <<tableVars, cache, inq, last>>

\* Mutant: a second too long.
TimedOutLate(t) == job[t].elapsed > ARP_TIMEOUT + 1

TimedOut(t) == job[t].elapsed > ARP_TIMEOUT

Found(t) ==           \* a turn of the loop that finds the address in time
  /\ At(t, "wait")
  /\ ~ TimedOut(t)
  /\ LET mac == arp_cache_search(InHand(t).dst)
     IN  mac # NoMac /\ Resolve(t, mac)
  /\ UNCHANGED <<tableVars, cache, inq, last>>

\* Mutant: send_time is read again instead.
GiveUpRestarts(t) ==
  /\ At(t, "wait")
  /\ TimedOut(t)
  /\ job' = [job EXCEPT ![t].elapsed = 0]
  /\ Silent
  /\ UNCHANGED <<tableVars, cache, inq, last, asked>>

GiveUp(t) ==          \* the time is looked at before what was found
  /\ At(t, "wait")
  /\ TimedOut(t)
  /\ Finish(t)
  /\ Silent
  /\ UNCHANGED <<tableVars, cache, inq, last, asked>>

(***************************************************************************)
(* delete_arp_cache, and main, which replaces the list once more after it  *)
(* has started the listeners.                                              *)
(***************************************************************************)
NewCache ==
  /\ cache' = << >>
  /\ Silent
  /\ UNCHANGED <<tableVars, inq, last, job, asked>>

Tick ==
  /\ job' = [t \in Thread |->
               IF At(t, "wait") /\ ~ TimedOut(t)
               THEN [job[t] EXCEPT !.elapsed = @ + 1] ELSE job[t]]
  /\ Silent
  /\ UNCHANGED <<tableVars, cache, inq, last, asked>>

ListenerStep(p) == Receive(p) \/ incoming_arp(p) \/ SearchRoute(p)

Get(t) == ArpGet(t) \/ Found(t) \/ GiveUp(t)

Next ==
  \/ Tick \/ NewCache
  \/ \E p \in Port : Arrive(p) \/ ListenerStep(p) \/ ReadError(p)
  \/ \E s \in Station : Answer(s)
  \/ \E c \in Console : SendArpRequest(c)
  \/ \E t \in Thread : Get(t)

Spec == Init /\ [][Next]_vars

(***************************************************************************)
(* Time passes and the operating system runs every thread that can run.    *)
(* The stations and the console owe the router nothing; a capture that     *)
(* fails need not fail again.                                              *)
(***************************************************************************)
Fairness ==
  /\ WF_vars(Tick)
  /\ \A p \in Port : WF_vars(ListenerStep(p))
  /\ \A t \in Thread : WF_vars(Get(t))

FairSpec == Spec /\ Fairness
=============================================================================
