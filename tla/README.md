# A TLA+ model of the software router

This directory models the router of this repository: a C program that listens on
two network interfaces, forwards IP packets between them, answers and sends ARP,
learns routes from RIP version 2 neighbours and takes commands from a console and
from a UDP socket. The modules are translated from the headers `main.c` includes,
and from rules.h; `PROJECT.json` names, for every definition, the lines
it stands for.

## The system

`main` (main.c) creates the two ports, each with a route to its own network, opens
their pcap handles and starts five threads, then prints the tables once a second
for ever. Nothing is locked: `mutex` is initialised (main.c:195) and its two uses
are commented out (port_listener.h:39 and 79).

| Component | State | Operations | Who runs it |
|---|---|---|---|
| Address arithmetic (functions.h) | none | `get_subnet`, `belongs_to_subnet`, `ip_mask_to_network`, masks and prefixes | everybody |
| Text and checksums (functions.h, icmp.h) | the buffer of `get_line` | reading, writing and testing addresses, `split_cmd`, `str_trim`, `csum`, `ip_checksum`, `icmp_checksum` | consoles, the sender of RIP updates |
| Linked list (functions.h) | `LL`, `Item` | `LL_add` at the end, `LL_delete` by position, walks that print | everybody |
| Routing table (routing_table.h) | `routes_ll` of `Route` | `add_route`, `routing_table_search`, `routing_table_delete` by id or by route | everybody |
| RIP timers (ripv2.h) | flags and `last_update` of learned routes | `RIP_check_timers` | `rip_timers` |
| RIP learning (ripv2.h) | metric, mask, `last_update` | `incoming_rip`, `RIP_parse_entry` | a port listener |
| RIP advertising (ripv2.h) | `start_time` | `rip_timers`' schedule, `RIP_update`, `RIP_generate_update` | `rip_timers`, a port listener |
| ARP (arp.h) | `arp_cache_ll` | `incoming_arp`, `arp_cache_update`, `arp_cache_search`, `arp_get` | port listeners, consoles |
| Parser (parser.h) | the frame | `parse_l2` .. `parse_udp` | a port listener |
| Forwarding (port_listener.h, injector.h) | the frame, the route found | `port_listener`, `forward_packet`, `inject_frame` | one thread per port |
| Console (config.h) | `cmd_ll`, `response`, a port's address | the commands | `config` thread, UDP `listener` |
| UDP listener (communicator.h) | its socket, `response` | `parse_command`, `sendto` | `listener` thread |
| Startup and rendering (main.c) | the ports, `pause_rendering` | options, creation, threads, printing | main thread |
| Filter rules, statistics (rules.h, stats.h) | `rules_ll`, the counters | `create_rule`, `apply_rules`, `update_stats` | nobody: the calls are commented out |
| Self tests (test.c) | none | five tests | a program of its own |
| Logging, superseded headers, tools | | | not modelled, see below |

The hard behaviour is in what is shared. Three threads and the consoles change one
list of routes; a deletion is a walk that finds a position and a second walk that
counts to it; a walk goes on from an `Item` that has just been freed; the age of a
route is checked before it is removed by other means; a listener searches and then
adds. A listener that needs a hardware address waits for up to five seconds on the
thread that would have to read the answer. Updates are sent by the clock of a thread
that may be late. Two threads execute commands over one response buffer. Addresses
are kept in network byte order on a little-endian machine and shifted as if they
were not.

What makes each part correct:

* Address arithmetic: membership means having the network's leading bits; a mask
  survives the trip to a neighbour and back.
* Text and checksums: what a test lets through is read as it was meant; what is
  written is read back; who receives a checksum can verify it.
* Linked list: what is freed is not reached from the head any more; what is added
  stays until it is deleted; a walk over the list follows no null pointer.
* Routing table: the connected routes cannot be deleted; a search finds a route if
  there is one.
* RIP: a learned route is deleted only after INVALID and FLUSH, one check at a time;
  a known network is not added again; what a neighbour advertises on time is learned
  and kept, a route that nothing renews is forgotten, and nothing else is learned.
* ARP: an address is in the cache once and with its true hardware address; waiting
  ends; the router answers for another's address only across.
* Commands: each is answered; the answer to a datagram carries nothing of the answer to
  an earlier one; a change of an address is not half of one and half of another.

## The modules

| Module | What it is |
|---|---|
| `Subnet` | Addresses as sets of bit positions of the `u_int` of a packet, for any number of octets and bits per octet, and the functions of functions.h under their names. |
| `RoutingTable` | The list and the routes: `add_route`, `routing_table_search`, the two halves of `routing_table_delete`. No next-state relation of its own; extended by the modules below. |
| `Rip` | The threads that change the routing table: timers, listeners with a RIP response, consoles. |
| `RipProps` | The properties of `Rip`. |
| `RouteLife` | The abstract specification of one entry of the table: kept, or valid, invalid, flush, free. `Rip` implements it (`Lifecycle`). |
| `RipAdvertise` | The sending half of ripv2.h over its own routing table: the schedule, the update, the answer to a request. |
| `Neighbours` | Two routers on a link: a far one that advertises (an instance of `RipAdvertise`) and a near one that learns and ages (`Rip`), with the wire between them; and the properties of the two. |
| `Forwarding` | What a listener does with ARP and IP frames, `arp_get`, the shared ARP cache, the stations on the wire. Extends `RoutingTable`, whose table stands still there. |
| `ForwardingProps` | The properties of `Forwarding`. |
| `Process` | The process: the calls of `main` and their failures, the rendering loop, the console thread, the UDP thread, `exec_cmd` and the response buffer. |
| `ProcessProps` | The properties of `Process`. |
| `LinkedList` | `LL_add`, `LL_delete` and the printing walks load by load and store by store, for several threads, with their properties. A field the source names twice is loaded twice. |
| `Text`, `Checksums` | The conversions of functions.h as functions on sequences of characters and bytes. |
| `Filter` | rules.h, stats.h and the layers parser.h finds, with their properties. |
| `MCSubnet`, `MCFunctions`, `MCRip`, `MCNeighbours`, `MCForwarding`, `MCProcess` | The instances the runs check. |
| `SubnetProofs`, `RoutingTableProofs`, `RipProofs`, `NeighboursProofs`, `ForwardingProofs`, `ProcessProofs`, `LinkedListProofs`, `FunctionsProofs` | The theorems and their lemmas. |

Definitions called mutant are altered forms of the definition that follows them.
No specification uses them; they are there to try whether a property notices.

### How state and actions correspond to the code

**Routes.** A handle stands for one `Item` and its `Route`. `routes_ll` is the
sequence of handles in list order, `route` the contents. `LL_delete` frees the `Item`
and never the `Route`, so a listener that still holds a `Route` pointer goes on using
it, and the model lets it. `stale` is the `next` pointer left in a freed `Item`:
`TimersNext` follows it, as `curr = curr->next` (ripv2.h:38) does. A handle is given
out again when it is neither in the list nor in a thread's hands; the timers' walk
does not count as holding its `Item`, so it may find itself in the list again in
another place. Touching freed memory may also end the process: `TimersCrash`.

**Flags** are sets; `FLG_RM` is symmetric difference, as the macro's `^` is.
`last_update` is kept as the seconds since, which is how the code reads it, and is
capped at `MaxAge`, one above the greatest threshold.

**Steps.** One walk over the list, one insertion or one removal is one step; the
threads interleave between steps. So the timers' check of a route, the walk of
`routing_table_delete` (`TimersFind`) and its `LL_delete` (`TimersUnlink`) are three
steps, a listener's search and its update or insertion two, a console's search and
insertion (`rip`) two, its `delete_route` two. An `LL_add` or `LL_delete` that is
interleaved with another inside its own walk is finer than this model; `LinkedList`
is about that.

**RIP.** `RipResponse` hands a response to a listener, which works through its
entries from the last to the first, as `incoming_rip` does. `NewMetric` is the sum of
`u_int`s, modulo `MetricModulus`. The masks of entries arrive in network byte order.

**Advertising.** `sender` is `rip_timers` of the far router. `clock` is the seconds
since `start_time` modulo `RIP_T_UPDATE`, which is all the code asks of it; it is read
once, at the start of a round (`Wake`), and the two calls of `RIP_update` follow
(`Update1`, `Update2`). `late` counts the seconds in which the thread was due and did
not run, or was busy. `RIP_generate_update` makes room for every entry of the database
and copies one, the last (ripv2.h:142): the other places are what malloc returned,
members of `Leftover`. `wire` holds the updates on their way; one that finds it full
is lost. `Due` has no memory of the last update, as in the code.

**Neighbours.** `Deliver` takes as many entries of an update as
`number_of_rip_entries` computes from its length and hands them to the near router's
listener. An update is delivered and worked off within the second it was sent in, or
it is lost (`Lose`). `missed` is a history: the networks whose last update did not
come, because it was lost, late, not sent, or without them; the listener takes a
network out of it when it refreshes or learns that network's route (`Refreshed`).

**ARP and forwarding.** `job[t]` is where a listener or a console is in its code and
the frame it has in hand. `incoming_arp` is `Merge` (the search), `Update` and `Add`
(the walk of `arp_cache_update` and its `LL_add`), then `TargetLearn`, `TargetReply`
or `TargetProxy`; `merged` is `merge_flag`. `arp_get` is `ArpGet`, and then `Found` or
`GiveUp`; a turn of its loop that finds nothing changes nothing and is a stutter. The
hardware address it returns is copied into the frame in the same step: it is read a
moment later in the code, through the pointer, and no other thread's step between the
two makes a difference that the order of steps could not make as well.
`NewCache` is `delete_arp_cache`, and also main.c:212, where main replaces the list
after it has started the listeners. Stations, the capture buffer (`inq`) and the clock
are external: requests may stay unanswered and frames may find the buffer full.

A frame is `to` the router, another station or all: `is_for_me_eth` tests it, and
`is_multicast` lets everything pass. On an interface in `Failing`, `ReadError` is the
branch the loop takes when `pcap_next_ex` returns -1: `last`, the frame `packet`
points to, is parsed once more.

**The process.** `Boot` is the sequence of `main`'s calls; each may fail, and `must`
says whether `main` exits then. `exec[t]` is the command that the console thread or the
UDP thread executes, from `exec_cmd`'s search (`LookupFound`, `LookupMissed`,
`LookupDies`) to its status. What a command does to the tables is in the other modules;
here it is what it does to `response` and to the address of an interface. An argument
that is missing is part of the command: `network` without its interface compares the
null pointer (config.h:207) and ends the process, `RunDies`.

`response` is kept cell by cell. A cell holds a piece of a text, of which its writer and
the datagram it answers count, or zeros; a line of a table takes `Width` cells and any
other text one, so that a short text can end inside a longer one. A copy (`Copied`) puts
the terminator behind what it wrote and leaves the rest of the buffer as it is:
`strcpy` starts at the first cell, `strcat` is two steps, `ListFindEnd` and
`ListAppend`, so the line is written where the end was found, which another thread may
have moved, and lies behind the terminator if the text was made shorter in between.
`Reply` sends every cell, the ones behind the terminator included, as `sendto` sends
2048 bytes. `strclr` is two steps, `FindText`, which takes the length, and `Clear`, which
clears that many cells and no more. `ListOverrun` is the step that finds no room.
One copy or clear is one step; two that interleave inside are not in the model.
`address` is kept as who set its two fields. `typed`, `disturbed` and `clash` are
histories: a command of the console has written into `response`, has done so while a
datagram's command was at it, and two `ip_address` have overlapped.

**The list.** In `LinkedList` a step is one load or store of a shared field, in the order
in which a build without optimisation (Makefile) makes them. `LL_add` names `head` twice
(functions.h:444 and 450) and so does its loop with `curr->next` (functions.h:452-453):
`AddTest` and `AddStart`, `AddWalk` and `AddNext` are steps of their own, and an
`LL_delete` between two of them leaves `curr` null. The next load through it is `Faulted`:
the process is over and no thread takes another step. `LL_delete` loads `curr->next` once
into `item`; its check loads `number_of_items` and its start `head` (`DeleteCheck`,
`DeleteEnter`). A freed `Item` keeps its contents until malloc gives it out again, which
is how the C library treats the fields that matter here most of the time, and not what
the language promises; the crash is in `Rip`. `SerialCalls` says what the one-step `LL_add` and
`LL_delete` of `RoutingTable` stand for: calls that do not overlap. `Walk` is
`print_routing_table`, `print_arp_cache` and `print_rules`, which are the same loop.
`alone`, `linked`, `serial`, `clash`, `mixed`, `freed`, `reused` and `op[t].due` are
histories.

**Functions.** `Text`, `Checksums` and `Filter` translate functions whose inputs
`MCFunctions` builds step by step, a behaviour for each `subject`. A character is a
one-character string. `strtok` is modelled with what it leaves in the text, since
`create_rule` copies the text after it. `get_line` is one call of `fgetc` with what
follows it: a character, a new line or EOF, a realloc that may fail, and the offset the
terminator is written at. That offset is one before the last character, whatever that
was, so at an EOF the line loses a character, and with nothing stored the offset is -1,
outside the memory. `atoi` computes without a width where C has an int; of the nine
characters of a text in the run, and of any text `is_valid_ip` lets through with numbers
that fit one, that is the same.

## What is checked

All constants are model values or small sets; the bounds are in the `.cfg` files and
the MC modules. Deadlock is not checked: the process of `Rip` and `Process` may end, a
router without frames has nothing to do, and the inputs of `MCFunctions` are exhausted.

| Run | Checks | Shows |
|---|---|---|
| `functions` | `AlignedMembers`, `MaskTravels`, `ChecksumVerifies`, `HexTravels`, `ValidIpRead`, `CommandRead`, `LineFits` | The pure functions over all small inputs against what they are for: membership and masks for two octets of three bits, checksums that verify, texts that are read back, a line buffer that grows in time and takes its terminator but for a file that is empty. |
| | `CountedOnce`, `NewestDecides` | The counters of an interface over three frames and the rules over two rules, where the newest that is about a frame names no IP address. |
| | `ListTypeOK`, `NullNeedsDelete`, `FreedUnreachable`, `KeptUnlessOverlapped`, `WalkMissesNothing`, `SerialCalls` | Two threads in one list, every interleaving of loads and stores: what is lost is lost by overlapping calls and by nothing else, and a null pointer is followed only where a deletion has overlapped. |
| `rip_threads` | `TypeOK`, `SelfCovered`, `Lifecycle` | Two listeners race the timers for two free entries. A route keeps covering its own network when another mask is written over it, and no route is deleted that did not pass through INVALID and FLUSH. |
| `rip_console` | `ConnectedFirst`, `FlagsChain`, `LearnedOnce`, `FlagsOnlyAge` | A console adds static routes and database entries and deletes by id while a neighbour's two-entry responses come in and the timers delete by route. |
| `rip_live` | `LinkTypeOK`, `LearnsOnlyAdvertised`, `AdvertisedKept`, `LatenessSilences`, `AdvertisedLearned` | Two routers with lost updates, late rounds, requests and a database that changes. A route advertised on time is never set INVALID, though updates are exactly as far apart as that takes; a thread that was late once is silent until its lateness adds up to a period; under fairness what stays advertised is found again and again. |
| `rip_withdrawn` | `WithdrawnForgotten` | Under fairness a learned route whose network is no longer in the responses is forgotten, while responses with another network, which lies apart from it, keep coming. |
| `forward_threads` | `TypeOK`, `CacheTrue`, `EntryOnce`, `ProxyOnlyAcross` | Two listeners and a console share the cache, which is replaced at any moment. |
| `forward_live` | `ListenersReturn` | Under fairness every listener gets back to its frames, also where the capture of one interface fails. |
| `process` | `TypeOK`, `BootOrder`, `ReplyOwn`, `AddressWhole`, `ScreenOnce`, `RenderingResumes`, `Answered` | Every order of `main`'s calls and their failures, of typed and received commands, of screens: no listener starts over an interface that is not open, the text of a reply holds nothing of another datagram's answer, nor do the bytes behind it unless the console has written, the screens stop in config mode after at most one and come back after it; under fairness every command that arrives is answered, failed, unknown or not yet registered, unless the process ends. |

Four runs end in a counterexample: the code does something else than the line quoted
in the finding says.

| Run | Property | What the code does |
|---|---|---|
| `subnet_odd` | `InterfaceInItsNetwork` | For a prefix that ends inside an octet the bits compared are the low ones of that octet. 10.0.0.1, the address the program gives its second port, is not in 10.0.0.0/25, the network it enters for it. |
| `rip_delete_race` | `TimersRemoveOnlyFlushed` | A `delete_route` between finding the position and `LL_delete` shifts the list: the timers unlink another route. |
| `update_copied` | `LearnsOnlyAdvertised` | With two entries in its database a router sends one, and in the place of the other whatever malloc returned; its neighbour learns that. `rip_live` checks the same property with room for one entry. |
| `forward_missed` | `NoAnswerMissed` | A listener that hears a frame for a station on its own wire asks for that station and waits; the answer comes to its own interface and is not read before it gives up. |

More disagreements show in the models and have no run of their own:

* `is_multicast` returns 1 for every frame, so "Frame is not for me.." (parser.h:53) is
  never reached.
* The proxy branch of `incoming_arp` answers replies as well as requests. With a network
  that ends inside an octet it answers for a neighbour on the same network, in spite of
  "do not reply to same interface" (arp.h:142), for the reason `subnet_odd` shows, and a
  neighbour that repeats such a network adds a route with each response.
* An update that comes between the check of a route's age and its deletion does not save
  the route.
* A learned route that covers another network which is still advertised is refreshed by
  the updates of that network (ripv2.h:196-202), so it stays when its own network is
  withdrawn. `WithdrawnForgotten` is about networks that lie apart.
* A rule that names an IP address, "MAC or IP" in rules.h:9-10, fits no frame:
  `create_rule` tests the text before it copies it, and the `strtok` of `is_valid_ip` has
  put a zero behind the first number by then (functions.h:114). `NewestDecides` claims
  nothing of such a rule.
* `sendto` sends all 2048 bytes of `response` (communicator.h:63), and `strclr` clears up
  to the first zero (functions.h:67-70). A short text of the console over a listing
  (`delete_arp_cache`, config.h:156) hides the rest of the listing behind its terminator,
  and that goes out behind the answer to a later datagram.
* `get_arp_cache`, sent to the UDP socket as the example of the command has it
  (config.h:75), has no blank; `split_cmd` returns the null pointer and `exec_cmd` compares
  it. The process ends (`LookupDies`), as it does for `network` with arguments missing
  (`RunDies`). `Answered` allows for both.
* At EOF `get_line` drops the last character of the command, not a new line ("dont save
  new line character", functions.h:324), and with nothing stored writes before the buffer.
  `LineFits` leaves the second out by name.
* The comparison in a comment at test.c:136 expects 192.168.0.0 of
  `ip_mask_to_network` for 192.168.5.61 and prefix 24; the function gives 192.168.5.0. The
  test prints it and compares nothing.
* `LL_add` against `LL_delete` may follow a null pointer; `NullNeedsDelete` says that
  where no deletion overlaps another call it does not.

### The bounds, and why they are enough

* Addresses: `Rip` has two octets of one bit, room for the two connected networks, two
  hosts at the neighbours and a network that contains both. The arithmetic itself is
  checked on its own with wider octets, and membership is proved for every width.
* Entries: two besides the connected ones in the runs of `Rip`. Each race needs the
  route that is being deleted and one more; freed entries are used again. In
  `rip_live` the near router has one free entry and the far one three handles, so one
  network is advertised, withdrawn and advertised again.
* Ages: `MaxAge` is one more than the thresholds. A route is young enough or too old,
  nothing else is asked. `rip_threads` and `rip_console` have thresholds 0,
  `rip_delete_race` and `rip_withdrawn` 1. The runs of `Neighbours` have 2 for
  `CHECK_EVERY`, `RIP_T_UPDATE` and both thresholds, since their properties compare them: the program has 5 for all four
  (ripv2.h:1-4). `CHECK_EVERY` is a multiple of `RIP_T_UPDATE`
  (`NeighboursAssumption`), without which a round on time may be silent as well.
* `rip_withdrawn` has one neighbour and two networks, either or both of which are in a
  response, and each may be left out from some moment on. Their masks name whole octets,
  so neither contains the other.
* `MaxLate` is 2, a whole period: the sender falls silent and comes back. `Wire` is 1:
  an update and an answer to a request compete for it.
* `MetricModulus` is 32, so the metrics sent include the one that wraps.
* Frames: one captured frame per interface waits (`Backlog`), while each thread has
  one in hand. `ARP_TIMEOUT` is 1 where waiting is what is asked, otherwise 0: a turn
  of the loop in time and the end of the time are both reached.
* Process: a command of each kind of effect. A line of a table takes one cell and a
  listing has two; `Room` is three, so that a listing and its terminator just fit, a
  second one meets the end, and a text of one cell over a listing leaves a line behind
  its terminator. Screens printed in config mode are counted to 2, one more than allowed.
* Functions: two threads, three `Item`s and three calls, so that two overlap and a third
  finds what they left; buffers of six bytes, the length of a hardware address; texts
  of nine characters, longer than the shortest address of four numbers; 700 characters
  of a line, past the third growth, with a realloc that fails and an EOF at any place.
  The characters and bytes are chosen from each class the functions tell apart.
* `SYMMETRY` is over the free handles only, which no constant tells apart, and only in
  runs without liveness properties. `Lifecycle` has no fairness and is a safety
  property that treats the handles alike.

### Fairness

`FairSpec` of `Rip`: time passes, and the timers, a listener with an entry in hand and
a console in the middle of a command go on. Each is a thread of its own that never
blocks there: there is no lock, and the loops end. A listener that cannot add because
no handle is free waits for one; `malloc` has no such bound. Nobody is made to send a
response or enter a command.

`LinkFairness` of `Neighbours` is the same for the two routers, with strong fairness for
time: requests of other neighbours may keep the listener busy again and again, and the
clock does not stop for them. That an update which is not lost is delivered and worked
off is weak fairness of `Deliver` and the listener. `AdvertisedLearned` supposes
besides that from some moment on no update is lost and the thread is not late
(`OnTime`), because without it the network is not advertised at all; the run shows
that the past does not matter. The properties speak of a process that is still up: a
walk over a freed `Item` may end it (`TimersCrash`), nothing makes it end, and the
behaviours in which it survives are all there.

`FairSpec` of `Forwarding`: time passes, listeners with a frame to read or in hand go
on, and so does a thread in `arp_get`, which polls the clock. The stations are not made
to answer, nor anybody to send; a capture that fails need not fail again.

`FairSpec` of `Process`: the main thread, the console and the UDP thread go on where
they do not wait for a person or a datagram, and a command that is being executed goes
on. `arp_get`, the one command that waits, gives up by the clock. Calls of `main` or of
the socket need not fail.

## What is proved

TLAPS checks the theorems for every value of the constants that meets the named
assumptions: `SubnetAssumption` (an address has octets, an octet has bits),
`RoutingTableAssumption` (the null pointer is no handle), `RipAssumption` (types, two
ports, two different connected handles, thresholds below the cap on ages),
`NeighboursAssumption` (the same of the far router, and the round is a multiple of the
period of updates), `ForwardingAssumption` (types; the null pointer is no hardware
address; consoles are no ports), `ProcessAssumption` (types), `LinkedListAssumption`
(finitely many `Item`s, fewer than `number_of_items` counts to) and `TextAssumption`
(what the rules need of their texts, see below). TLC evaluates all of them in the runs.

### Addresses and the routing table

* `AlignedMembership` (SubnetProofs). For a prefix of k whole octets,
  `belongs_to_subnet` with the network of `ip_mask_to_network` is true of exactly the
  addresses whose first k octets are the network's. Lemma `LowBits` says what
  `get_subnet` keeps: the positions below the prefix in the `u_int`. Below a multiple
  of the octet's width these are the leading octets, because the byte swap
  (`MirrorTwice`, `AlignedPositions`) permutes octets and keeps positions inside them.
* `MembersTold`, `PrefixesTravel` (FunctionsProofs). The same as the run has it, and
  the trip of a prefix as the mask of an entry: `mask_to_prefix` shifts until a bit
  falls out, and the first of the mask `prefix_to_mask` has made is found at the prefix.
* `SearchFinds` (RoutingTableProofs). `routing_table_search` returns a listed route
  that covers the destination, and the null pointer only when there is none. The walk's
  preference is a total order on positions, and a non-empty set of positions has a
  best one (`BestExists`, by well-founded induction on a set, not on an operator).
  Lemma `SearchPrefers` adds the order: no route that covers the destination has a
  greater `ad` than the one found (routing_table.h keeps the greater value).

### RIP

* `TypeCorrect`, `ConnectedRoutesStay` (RipProofs). Types alone are not inductive: the
  connected routes stay first because every position at which something is deleted was
  found at 3 or more, and stays so while the list changes under the thread that holds
  it. The invariant `Inv` adds that (for `timers.idx` and `cli[c].idx`), and that a
  thread has a route or an entry in hand where its code uses one (`InHands`); it is
  preserved by every action, and `TypeOK` and `ConnectedFirst` follow.
* `LifecycleHolds` (RipProofs). If the consoles do not delete, the router
  implements `RouteLife`. Only the timers remove then, so the position they found is
  still that route's when they unlink it, and its flag is still FLUSH: the invariant
  `LifeInv` ties the three steps of the deletion together. Each step of `Rip` is then a
  step of one entry's life or none. With `delete_route` it is false: `rip_delete_race`.
* `LearnedRoutesCoverThemselves` (RipProofs). If neighbours only advertise
  networks of whole octets, in their canonical form (`CanonicalMessages`), a learned
  route is found again under its own network number, whatever update is written over
  its mask. A mask is written only over a route that covers the entry, so the route's
  network lies within the entry's (`SubnetsCommute`).
* `NetworksLearnedOnce` (RipProofs). If moreover there is one neighbour
  (`OneNeighbour`), no network is learned twice. A route that covers its own network is
  found by a search for it, so a search that finds none says that the network is
  unknown; the invariant `Unknown` says that it still is when the route is added, since
  timers and consoles only remove learned routes. Two listeners may both add one.
* `FlagsStayChained`, `FlagsGrowOlder` (RipProofs). `FLG_RM` is an exclusive or, so
  that a route is never INVALID and FLUSH at once depends on who adds which flag to
  what. The invariant `Stages` says that a route has no flag, or one, and that only a
  RIP route has INVALID or FLUSH; a route of the database is never aged. It is
  preserved because the check reads and writes the flags in one step and nobody else
  writes them but `add_route`, to a handle that is not listed.
* `LinkTypes` (NeighboursProofs). The near router's steps are `Rip`'s, so `Inv` serves
  again; the far router is an instance with a table of its own. What is on the wire and
  in the listener's hands are sequences of entries (`WireOf`), however many of them the
  length of a datagram pretends.
* `LearnedWasAdvertised` (NeighboursProofs). What the near router learns, the far one
  was told to advertise. The invariant `Advertising` follows a network from the far
  table to the wire, to the listener and into the near table. The hypothesis is
  `NothingStrange`, in every state: the database has one entry at most, so that the one
  `RIP_generate_update` copies is all there is, or malloc returns memory that held such
  updates. `rip_live` meets it (one network to advertise); without it the property is
  false: `update_copied`.
* `LatenessDecides` (NeighboursProofs). A round sends updates if and only if the
  lateness so far adds up to whole periods, for every period and every number of
  periods to a round. The invariant `Scheduled` says that the clock and the rest of the
  sleep add up to the lateness and whole periods.

* `AdvertisedStay` (NeighboursProofs). A learned route becomes INVALID only if its
  network's last update did not come: the thresholds leave the timers no room to give
  up a route whose updates arrive. The invariant `OnTimeInv` relates the two routers'
  clocks. Its part `InTime` says of every learned route whose network is not in
  `missed` that it is no older than the seconds since `rip_timers` last went to sleep
  (`Since`), or that its network is on the wire or in the listener's hands (`Coming`)
  and it is at most one round older. It needs to know that the entry in hand is
  applied to that network's own route: networks are learned once and apart
  (`NearInv`), and so are the entries on their way (`DistinctLink`); a search that
  prefers the greater `ad` then finds it (`SearchPrefers`). The hypotheses are that a
  round is no longer than `RIP_T_INVALID` (5 and 5, ripv2.h:1-3), that no advertised
  network, with the prefix read from the mask it comes with, covers another one
  (`NetworksApart`), and in every state `Ordinary`: what malloc returned held such updates, or there is one entry to
  send, and an update fits the length field of UDP. `rip_live` meets all of them.

### ARP and forwarding

* `ForwardTypeCorrect` (ForwardingProofs). Types alone are not inductive here either:
  `TypeInv` adds what a thread has in hand at each place of its code (`Shape`).
* `CacheHolds`. If the stations tell the truth about themselves (`HonestStations`:
  an ARP packet carries the addresses of a station of its interface), no cache entry
  and no forwarded frame carries a wrong hardware address. The invariant follows the
  packet from the capture buffer, or from `last` after a failed capture, into the hands
  of a listener, into the cache and out of it again.
* `AddressOnce`. If moreover no two interfaces have a station with the same address
  (`ApartStations`), no address is in the cache twice. The strengthening is `AddsNew`:
  a listener that is about to add an address has seen that it is not there, and it still
  is not, since only listeners of the station's own interface add it, and each is one
  thread. Without `ApartStations` two listeners may add it at once.
* `ProxiesAcross`. If networks are whole octets and a route leads out of an interface
  only to the interface's own network or a part of it (`RoutesOwn`), the proxy branch
  answers for another address only on an interface the address is not reached through.
  The connected routes meet `RoutesOwn`, as those of the runs do; a static or learned
  route to a network behind a neighbour does not, and there the branch does answer on
  the interface the address is reached through.

### The process

* `ProcessTyped` (ProcessProofs). `Counting` adds to the types what they rest on: the last
  cell of `response` stays zero, so the text in it has an end, a listing that appends has
  lines left, and `main` does not run past its calls.
* `BootInOrder`. No thread runs before what it uses is made, whichever calls fail.
  `BootInv` ties what is opened and started to the step `main` has reached, and a
  command in execution to a thread that was started.
* `AddressesWhole`. The two fields of an interface's address are set by one command
  unless two have overlapped. Between the two stores the first field is the executing
  thread's and nobody else is there (`AddressInv`).
* `ScreensOnce`. After rendering has been paused `main` prints at most the screen it had
  decided to print: the flag says what the console does, and after one screen `main` is
  no longer on its way to print (`ScreenInv`).
* `RepliesOwn`. Of the text a client is sent, each cell that the UDP thread wrote is of the
  command it answers, and all that command wrote is there unless a command of the console
  wrote meanwhile. Text of the console may be in it, of whatever time. All the bytes that
  are sent, the ones behind the text too, are of that command as long as the console has
  never written into `response`; after that they need not be, see above. Two
  invariants carry it. `ReplyInv` counts the cells of the UDP thread in the text and says
  that the end a `strcat` has found is still the end. `CleanInv` says that before the
  console writes there is only zero behind the text, so that the length `strclr` takes is
  all there is to clear. Both rest on lemmas about a copy over cells (`CopiedKeeps`,
  `Replaces`, `Writes`) and on `TurnInv`, that each thread executes only in its own turn.

### The linked list

* `ListTypes` (LinkedListProofs). `Pointers` says in which places of the code a thread's
  pointers are set: `LL_delete` and the walks test a pointer before they load through it,
  so they stand on an `Item` there. Of `LL_add` that is not true, and not claimed.
* `NullOnlyByDelete`. An `LL_add` follows a null pointer only if an `LL_delete` has
  overlapped an `LL_add`, or two `LL_delete`s each other: additions alone never set a
  pointer back to null. `NullSafe` says that while neither has happened what an `LL_add`
  has seen to be set stays set.
* `FreedNeverReached`. Unless two `LL_delete`s have overlapped, no freed `Item` is on the
  list as seen from `head`. A thread that stands on an `Item` while it is freed goes on
  from there, which is what `WalkPassesAll` is about. `ListSafe` takes the `Item`s that are allocated and not about to
  be freed (`Live`) and says that what they point to is kept (`Shape`), that nothing points to an
  `Item` still in the hands of an `LL_add` (`Apart`), and what the one thread that deletes
  knows of the two pointers it holds (`DeleterKnows`). `LL_add`s may overlap with it and
  with one another.
* `LastingKept`. An `Item` whose `LL_add` met no other call stays on the list until it is
  deleted, whatever calls overlap later, or until one of them follows a null pointer. `ListKept` says that a store of any other
  thread can only cut off what does not last: no `Item` that lasts is behind the pointer
  an `LL_add` is about to overwrite (`NothingLost`), and an `LL_add` that is alone is
  where the list ends (`SoloAdds`).
* `WalkPassesAll`. A printing walk passes every `Item` that was in the list when it
  began and lasts, also over an `Item` that is freed under it. `WalksSafe` is about
  every `Item` that was ever given out (`Touched`): the freed ones still lead to where
  they did, as long as none is given out again.
* `SerialCallsAreOneChange`. While calls do not overlap, the stores of `LL_add` append one
  `Item`, those of `LL_delete` take out the one asked for, and no other step changes the
  list. `ListSerial` gives the list as a sequence and the place in it of what the one
  call in progress holds (`Place`); `ListsIsChain` says that the sequence is what a walk
  sees.
* `ListWithin` (FunctionsProofs). The composition the run checks takes only the list's
  own steps, so that what is proved of `ListSpec` holds of it.

What a walk sees is a recursive function of the number of steps. Where an induction
would be used, the proofs take the least counterexample (`LeastNatural`), and the
`Item`s that can be reached are the least set closed under `next` (`ChainIsReach`).

### Functions, statistics and rules

* `EveryLineFits`, `LinesFit`. For a line of any length, as a sequence of calls of `fgetc`
  with any characters and any failures of memory, `get_line` stores no more than it has
  memory for, and its terminator is written inside too, unless EOF comes before the first
  character (`LineOK`: stored and left over are the memory). The second theorem is the
  first for the lines of the run.
* `AnyCommandRead`, `CommandsRead`. Of any text over any characters, `split_cmd` and
  `str_trim` take the name, and of the arguments the blanks at both ends and nothing else.
  The second theorem is the first for the lines of the run.
* `EachFrameOnce`. However many frames: each frame of `l2_total` is in exactly one of
  the counters that add up to it (`Balanced`).
* `NewestRule`. However many rules: if the newest of those that are about a frame, as they
  were typed, names no IP address, it decides, and a frame no rule is about passes.
  Nothing is claimed of a rule that names an IP address: those are kept with the first
  number only and decide over no frame, which is not what rules.h:9-10 says of
  them. `RulesOK` says that the list holds the accepted rules, the newest
  first, each as `create_rule` has left it. `TextAssumption` says that what is kept
  of an address, its first number, is no address of a frame, that no protocol is typed
  as the number the code has for any, and that the addresses of `mock_rule` are no
  IP addresses; without it the code takes one text for another.

* `SumsVerify`, `ChecksumsVerify`. Behind any buffer of up to 131069 bytes, more than
  a datagram can hold, `csum` computes a sum that verifies; `icmp_checksum` agrees
  with it, and `ip_checksum` over an even number of bytes. Adding the high half to the
  low one keeps the remainder modulo 65535, and below 2^32 two additions are enough, so
  the width of the sum is what bounds the buffer.
* `HexReturns`, `HexAlwaysTravels`. Of any buffer, the text `get_hex` makes is read back
  by `hexStringToBytes` once the colons are gone, and `is_valid_mac` takes it if and
  only if it is of six bytes; `dec_to_bin` gives the digits of up to three bytes.
  `IsHex`, `IsDigits` and `IsRead` say what the loops have made after k signs. The
  second theorem is the first for the buffers of the run.
* `AddressesReturn`, `ValidIpsRead`. Of any text that `is_valid_ip` lets through,
  `string_to_ip` reads the four numbers side by side, and what `ip_to_string` writes of
  them is valid and the same address. `TokRead` says what `strtok` has cut off after
  every sign of such a text (`FourTokens`); `DecimalIs` and `AtoiReads` that an octet
  comes back from its digits; `OctetsApart` that the shifted numbers do not meet, and
  `ValueOfBits` that the bits of a byte are the byte. The second theorem is the first
  for the texts of the run.

The loops over texts and buffers are folds, and the prover has no induction over
data. The proofs unfold a fold to the recursive function it is defined by, on the sets
of positions that are left to visit. `Solvable` shows that the recursion has an answer,
and `WalksInside` follows an invariant along it: were there a number of positions for
which it failed there would be a least one (`LeastNatural`), and the step before it
leads to it.

### Only model-checked

Liveness (`AdvertisedLearned`, `WithdrawnForgotten`, `ListenersReturn`,
`RenderingResumes`, `Answered`) is beyond the prover. The four properties
that fail are shown by their counterexamples.

## What is not modelled, and why

* The commands' arguments as text: `sscanf` and `strcpy` into buffers on the stack
  are taken to find room, and what `strclr` reads of a buffer that was never written
  is not said. Nor is what lies behind `response` when a listing runs past it, or what
  `packet` points to when the first capture fails: the models stop there or leave the
  step out.
* A prefix outside 0 .. 32 from a console or a mask with holes is outside `Route`'s type
  or reads as a prefix (`mask_to_prefix` counts shifts); the operator is taken to enter
  prefixes. A prefix of 0 is modelled as the build computes it.
* `ip_address` does not change the connected route of the interface, which the tables of
  `Rip` and `Forwarding` therefore keep; their `PortIp` stands still.
* The fields `index` and `auto_increment` of the list: only `LL_print` reads them.
* ICMP beyond `icmp_checksum`: `incoming_icmp` is empty and `icmp_reply` is never
  called. `clear_arp_cache` and `clear_routing_table` are never called either.
* test.c is a program of its own. Each of its comparisons is one computation of a function
  that `Subnet`, `Text` or `RoutingTable` has, about which the runs and theorems ask more.
* Logging, `dump` and printing, which only write; the shared line `log_b` is no state
  of the router.
* rules.h calls `get_src_ip` and `get_dst_ip`, which are defined nowhere; `Filter` takes
  them to give the text of a frame's addresses.
* hash_table.h, router.h, eth_parser.h, ip_parser.h and hdrs belong to an earlier version
  of the program and are not included by it; dhcp.h is a byte dump; headers_maker.c is
  a vendored copy of the makeheaders tool.

## Plan

1. `RipAdvertise` on its own: with one entry in the database the update is exactly that
   entry, also in a network of more than two routers.
2. `Forwarding` over a changing table: compose it with the actions of `Rip`, so that a
   route is used after it is deleted, or after `ip_address` has moved the interface.
3. `LinkedList` with one writer as a refinement of a sequence, from `ListSerial`.
