------------------------------- MODULE Process -------------------------------
(***************************************************************************)
(* The process around the router: what main does before and after it has   *)
(* started the threads (main.c), the console thread and its commands       *)
(* (config.h), and the thread that takes the same commands from a UDP      *)
(* socket and replies with the one response buffer they write text into    *)
(* (communicator.h).                                                       *)
(*                                                                         *)
(* What the commands do to the routing table and the ARP cache is in Rip   *)
(* and Forwarding.  Here is what they do to response, to the address of an *)
(* interface, and whether they are found, executed and answered.  Nothing  *)
(* is locked.                                                              *)
(***************************************************************************)
EXTENDS Naturals, Sequences, FiniteSets, SequencesExt

CONSTANTS
  Options,      \* command lines main may be started with
  Lines,        \* lines typed in config mode
  Datagrams,    \* datagrams that arrive at port 5000
  Listing,      \* numbers of lines a table may have when it is listed
  Width,        \* cells of response a line of a table takes
  Room          \* cells response has

Executor == {"config", "udp"}     \* the two threads that execute commands

\* init_commands registers them in this order.
CommandNames ==
  << "get_arp_cache", "delete_arp_cache", "send_arp_request", "ip_address",
     "get_interface_details", "get_routing_table", "network", "rip",
     "delete_route", "?" >>

\* A Command is its name: of the others of its fields, execute is what the
\* actions below do, and description and example are only printed.
Command == ToSet(CommandNames)

\* What is typed or received: a name, whether a blank follows it, and
\* whether all the arguments do.
Input == [name : Command, blank : BOOLEAN, full : BOOLEAN]

NoInput == [name |-> "?", blank |-> FALSE, full |-> FALSE]

ASSUME ProcessAssumption ==
  /\ Options \subseteq Seq({"1", "2", "l", "m", "h"})
  /\ Lines \subseteq Input
  /\ Datagrams \subseteq Input
  /\ Listing \subseteq Nat \ {0}
  /\ Width \in Nat \ {0}
  /\ Room \in Nat \ {0, 1}

VARIABLES
  process,          \* whether it runs, has exited, or has died
  main,             \* the main thread
  opened,           \* the interfaces whose handle is activated
  started,          \* the threads that have been created
  arp_cache_ll,     \* the list has been made
  registered,       \* how many of CommandNames are in cmd_ll
  pause_rendering,
  screens,          \* screens printed in config mode (a history)
  console,          \* the console thread
  udp,              \* the UDP thread
  exec,             \* the command each of the two executes
  response,         \* the buffer, cell by cell
  address,          \* ip and mask of an interface: who set them
  typed,            \* a command of the console has written into response, and
  disturbed,        \* has done so while a datagram's command was at it
  clash             \* two ip_address commands have overlapped (histories)

vars == <<process, main, opened, started, arp_cache_ll, registered,
          pause_rendering, screens, console, udp, exec, response, address,
          typed, disturbed, clash>>

bootVars    == <<opened, started, arp_cache_ll>>
commandVars == <<exec, response, address, typed, disturbed, clash>>

Setter == {"boot"} \cup Executor

\* What commands change of a Port, each field by who set it.
Port   == [ip : Setter, mask : Setter]

(***************************************************************************)
(* A cell of response holds a piece of a text, of which only who wrote it  *)
(* counts and for which datagram, or zeros.  A line of a table takes Width *)
(* cells, any other text one, and the terminator behind it one more.       *)
(***************************************************************************)
Line   == [by : Executor, tag : 0 .. 1]
Zero   == [by |-> "nobody", tag |-> 0]

Exec ==
  [ pc   : {"idle", "lookup", "run", "list", "append", "mask", "done"},
    cmd  : Input,
    left : Nat,                  \* lines of the listing still to come
    end  : 0 .. Room,            \* the length strcat found response to have
    status : 0 .. 1 ]

NoExec == [pc |-> "idle", cmd |-> NoInput, left |-> 0, end |-> 0, status |-> 0]

(***************************************************************************)
(* main: the calls it makes one after the other, what each needs and makes, *)
(* and whether it exits when the call fails.  The directions it asks for   *)
(* are refused before a handle is activated; it goes on.                   *)
(***************************************************************************)
Call(name, on, must) == [name |-> name, on |-> on, must |-> must]

\* Mutant: the list is made last.
BootCacheLast ==
  << Call("setdirection", "p1", FALSE), Call("set_promisc", "p1", TRUE),
     Call("set_immediate_mode", "p1", TRUE), Call("activate", "p1", TRUE),
     Call("setdirection", "p2", FALSE), Call("set_promisc", "p2", TRUE),
     Call("set_immediate_mode", "p2", TRUE), Call("activate", "p2", TRUE),
     Call("thread", "p1", TRUE), Call("thread", "p2", TRUE), Call("thread", "rip_timers", TRUE),
     Call("thread", "config", FALSE), Call("thread", "udp", FALSE),
     Call("LL_init", "arp_cache_ll", FALSE) >>

Boot ==
  << Call("setdirection", "p1", FALSE), Call("set_promisc", "p1", TRUE),
     Call("set_immediate_mode", "p1", TRUE), Call("activate", "p1", TRUE),
     Call("setdirection", "p2", FALSE), Call("set_promisc", "p2", TRUE),
     Call("set_immediate_mode", "p2", TRUE), Call("activate", "p2", TRUE),
     Call("thread", "p1", TRUE), Call("thread", "p2", TRUE), Call("thread", "rip_timers", TRUE),
     Call("LL_init", "arp_cache_ll", FALSE),
     Call("thread", "config", FALSE), Call("thread", "udp", FALSE) >>

TypeOK ==
  /\ process \in {"up", "exited", "died", "overrun"}
  /\ main \in [pc : {"options", "boot", "check", "print", "sleep"}, step : 1 .. Len(Boot)]
  /\ opened \subseteq {"p1", "p2"}
  /\ started \subseteq {"p1", "p2", "rip_timers", "config", "udp"}
  /\ arp_cache_ll \in BOOLEAN
  /\ registered \in 0 .. Len(CommandNames)
  /\ pause_rendering \in 0 .. 1
  /\ screens \in 0 .. 2
  /\ console \in {"init", "char", "line", "exec"}
  /\ udp \in [pc  : {"socket", "bind", "receive", "exec", "reply", "clear", "zero", "ended"},
              tag : 0 .. 1, wrote : Nat, end : 0 .. Room]
  /\ exec \in [Executor -> Exec]
  /\ response \in [1 .. Room -> Line \cup {Zero}]
  /\ address \in Port
  /\ typed \in BOOLEAN /\ disturbed \in BOOLEAN /\ clash \in BOOLEAN

Init ==
  /\ process = "up"
  /\ main = [pc |-> "options", step |-> 1]
  /\ opened = {} /\ started = {} /\ arp_cache_ll = FALSE
  /\ registered = 0
  /\ pause_rendering = 0 /\ screens = 0
  /\ console = "init"
  /\ udp = [pc |-> "socket", tag |-> 0, wrote |-> 0, end |-> 0]
  /\ exec = [t \in Executor |-> NoExec]
  /\ response = [i \in 1 .. Room |-> Zero]
  /\ address = [ip |-> "boot", mask |-> "boot"]
  /\ typed = FALSE /\ disturbed = FALSE /\ clash = FALSE

Up == process = "up"

Exits(o) == \E i \in DOMAIN o : o[i] \in {"l", "h"}

\* getopt: -l lists the interfaces and -h the usage, and the process is over.
ParseOptions ==
  /\ Up /\ main.pc = "options"
  /\ \E o \in Options :
       IF Exits(o) THEN process' = "exited" /\ UNCHANGED main
       ELSE main' = [main EXCEPT !.pc = "boot"] /\ UNCHANGED process
  /\ UNCHANGED <<bootVars, registered, pause_rendering, screens, console, udp, commandVars>>

\* Mutant: the last call is taken for one before it.
NextCallPast ==
  main' = IF main.step > Len(Boot) THEN [main EXCEPT !.pc = "check"]
          ELSE [main EXCEPT !.step = @ + 1]

NextCall ==
  main' = IF main.step = Len(Boot) THEN [main EXCEPT !.pc = "check"]
          ELSE [main EXCEPT !.step = @ + 1]

CallSucceeds ==
  /\ Up /\ main.pc = "boot"
  /\ LET c == Boot[main.step]
     IN  /\ opened' = IF c.name = "activate" THEN opened \cup {c.on} ELSE opened
         /\ started' = IF c.name = "thread" THEN started \cup {c.on} ELSE started
         /\ arp_cache_ll' = (arp_cache_ll \/ c.name = "LL_init")
  /\ NextCall
  /\ UNCHANGED <<process, registered, pause_rendering, screens, console, udp, commandVars>>

CallFails ==
  /\ Up /\ main.pc = "boot"
  /\ Boot[main.step].name # "LL_init"
  /\ IF Boot[main.step].must THEN process' = "exited" /\ UNCHANGED main
     ELSE NextCall /\ UNCHANGED process
  /\ UNCHANGED <<bootVars, registered, pause_rendering, screens, console, udp, commandVars>>

\* A listener's arp_cache_search makes the list if it is not there.
ListenerMakesCache ==
  /\ Up
  /\ started \cap {"p1", "p2"} # {}
  /\ ~ arp_cache_ll
  /\ arp_cache_ll' = TRUE
  /\ UNCHANGED <<process, main, opened, started, registered, pause_rendering,
                 screens, console, udp, commandVars>>

(***************************************************************************)
(* The loop that prints the tables.  pause_rendering is looked at first,   *)
(* then the screen is printed, then main sleeps.                           *)
(***************************************************************************)
MainOnly == UNCHANGED <<process, bootVars, registered, pause_rendering, console, udp, commandVars>>

\* Mutant: config mode does not stop the screens.
RenderCheckAlways ==
  /\ Up /\ main.pc = "check"
  /\ main' = [main EXCEPT !.pc = "print"]
  /\ UNCHANGED screens
  /\ MainOnly

RenderCheck ==
  /\ Up /\ main.pc = "check"
  /\ pause_rendering # 1
  /\ main' = [main EXCEPT !.pc = "print"]
  /\ UNCHANGED screens
  /\ MainOnly

RenderPrint ==
  /\ Up /\ main.pc = "print"
  /\ main' = [main EXCEPT !.pc = "sleep"]
  /\ screens' = IF pause_rendering = 1 /\ screens < 2 THEN screens + 1 ELSE screens
  /\ MainOnly

RenderSleep ==
  /\ Up /\ main.pc = "sleep"
  /\ main' = [main EXCEPT !.pc = "check"]
  /\ UNCHANGED screens
  /\ MainOnly

signal_handler ==
  /\ Up
  /\ process' = "exited"
  /\ UNCHANGED <<main, bootVars, registered, pause_rendering, screens, console,
                 udp, commandVars>>

(***************************************************************************)
(* response.  A text is copied to where it is to begin, with a terminator  *)
(* behind it; what lies behind that stays.  strcpy and sprintf begin at    *)
(* the start, strcat where it has found the end of the text: if the text   *)
(* has grown meanwhile it is cut off, if it has shrunk what is copied lies *)
(* behind the terminator.                                                  *)
(***************************************************************************)
strlen(s) ==
  LET Zeros == { i \in DOMAIN s : s[i] = Zero }
  IN  (CHOOSE i \in Zeros : \A j \in Zeros : i <= j) - 1

Written(t) == [by |-> t, tag |-> IF t = "udp" THEN udp.tag ELSE 0]

Copied(pos, len, line) ==
  [i \in 1 .. Room |-> IF i \in pos + 1 .. pos + len THEN line
                       ELSE IF i = pos + len + 1 THEN Zero ELSE response[i]]

strcpy(line)      == Copied(0, 1, line)
strcat(pos, line) == Copied(pos, Width, line)

\* Bookkeeping of the histories: thread t writes n cells more, or n afresh.
Meddles(t) ==
  /\ typed' = (typed \/ t = "config")
  /\ disturbed' = (disturbed \/ (t = "config" /\ udp.pc \in {"exec", "reply"}))

Wrote(t, n) == udp' = IF t = "udp" THEN [udp EXCEPT !.wrote = n] ELSE udp

(***************************************************************************)
(* exec_cmd.  The name split_cmd returns is copied without its terminator, *)
(* so what malloc left behind it may make it a name nobody registered;     *)
(* it is the null pointer if there is no blank, and comparing that with a  *)
(* registered command is the end of the process.                           *)
(***************************************************************************)
ThreadsOnly == UNCHANGED <<main, bootVars, registered, pause_rendering, screens, console>>

At(t, pc) == Up /\ exec[t].pc = pc

GoTo(t, pc) == exec' = [exec EXCEPT ![t].pc = pc]

Done(t, status) == exec' = [exec EXCEPT ![t] = [NoExec EXCEPT !.pc = "done", !.status = status]]

Registered(name) == \E i \in 1 .. registered : CommandNames[i] = name

LookupFound(t) ==
  /\ At(t, "lookup")
  /\ exec[t].cmd.blank
  /\ Registered(exec[t].cmd.name)
  /\ GoTo(t, "run")
  /\ UNCHANGED <<process, udp, response, address, typed, disturbed, clash>>
  /\ ThreadsOnly

LookupMissed(t) ==        \* not registered yet, or unknown by chance
  /\ At(t, "lookup")
  /\ exec[t].cmd.blank \/ registered = 0
  /\ Done(t, 0)
  /\ UNCHANGED <<process, udp, response, address, typed, disturbed, clash>>
  /\ ThreadsOnly

LookupDies(t) ==
  /\ At(t, "lookup")
  /\ ~ exec[t].cmd.blank
  /\ registered > 0
  /\ process' = "died"
  /\ UNCHANGED <<udp, commandVars>>
  /\ ThreadsOnly

Running(t, names) == At(t, "run") /\ exec[t].cmd.name \in names

RunSilent(t) ==       \* they leave response alone
  /\ Running(t, {"send_arp_request", "network", "rip", "delete_route", "?"})
  /\ exec[t].cmd.name = "network" => exec[t].cmd.full
  /\ Done(t, 1)
  /\ UNCHANGED <<process, udp, response, address, typed, disturbed, clash>>
  /\ ThreadsOnly

\* network: strsep leaves the null pointer for an argument that is missing,
\* and the interface is the last of them.
RunDies(t) ==
  /\ Running(t, {"network"})
  /\ ~ exec[t].cmd.full
  /\ process' = "died"
  /\ UNCHANGED <<udp, commandVars>>
  /\ ThreadsOnly

\* delete_arp_cache, the details of the two interfaces, rip of an unknown network.
RunReplace(t) ==
  /\ Running(t, {"delete_arp_cache", "get_interface_details", "rip"})
  /\ Done(t, IF exec[t].cmd.name = "rip" THEN 0 ELSE 1)
  /\ response' = strcpy(Written(t))
  /\ Wrote(t, 1) /\ Meddles(t)
  /\ UNCHANGED <<process, address, clash>>
  /\ ThreadsOnly

\* A walk over a table; get_arp_cache says so if it is empty.
RunListing(t) ==
  /\ Running(t, {"get_arp_cache", "get_routing_table"})
  /\ exec[t].cmd.name = "get_arp_cache" => arp_cache_ll
  /\ \E n \in Listing : exec' = [exec EXCEPT ![t].pc = "list", ![t].left = n]
  /\ UNCHANGED <<process, udp, response, address, typed, disturbed, clash>>
  /\ ThreadsOnly

ListFindEnd(t) ==     \* strcat: strlen(response) ...
  /\ At(t, "list")
  /\ IF exec[t].left = 0 THEN Done(t, 1)
     ELSE exec' = [exec EXCEPT ![t].pc = "append", ![t].end = strlen(response)]
  /\ UNCHANGED <<process, udp, response, address, typed, disturbed, clash>>
  /\ ThreadsOnly

ListAppend(t) ==      \* ... and the copy
  /\ At(t, "append")
  /\ exec[t].end + Width < Room
  /\ response' = strcat(exec[t].end, Written(t))
  /\ exec' = [exec EXCEPT ![t].pc = "list", ![t].left = @ - 1, ![t].end = 0]
  /\ Wrote(t, udp.wrote + Width) /\ Meddles(t)
  /\ UNCHANGED <<process, address, clash>>
  /\ ThreadsOnly

\* There is no room for another line and its terminator; what lies behind
\* response is written over, and the model goes no further.
ListOverrun(t) ==
  /\ At(t, "append")
  /\ exec[t].end + Width >= Room
  /\ process' = "overrun"
  /\ UNCHANGED <<udp, commandVars>>
  /\ ThreadsOnly

\* Mutant: the command ends before it has set the mask.
SetIpAlone(t) ==
  /\ Running(t, {"ip_address"})
  /\ address' = [address EXCEPT !.ip = t]
  /\ Done(t, 1)
  /\ UNCHANGED <<process, udp, response, typed, disturbed, clash>>
  /\ ThreadsOnly

SetIp(t) ==           \* ip_address: first the address ...
  /\ Running(t, {"ip_address"})
  /\ address' = [address EXCEPT !.ip = t]
  /\ GoTo(t, "mask")
  /\ clash' = (clash \/ \E u \in Executor \ {t} : exec[u].pc = "mask")
  /\ UNCHANGED <<process, udp, response, typed, disturbed>>
  /\ ThreadsOnly

SetMask(t) ==         \* ... then the mask
  /\ At(t, "mask")
  /\ address' = [address EXCEPT !.mask = t]
  /\ Done(t, 1)
  /\ UNCHANGED <<process, udp, response, typed, disturbed, clash>>
  /\ ThreadsOnly

Execute(t) ==
  \/ LookupFound(t) \/ LookupMissed(t) \/ LookupDies(t)
  \/ RunSilent(t) \/ RunDies(t) \/ RunReplace(t)
  \/ RunListing(t) \/ ListFindEnd(t) \/ ListAppend(t) \/ ListOverrun(t)
  \/ SetIp(t) \/ SetMask(t)

(***************************************************************************)
(* The console thread: it registers the commands, waits for the letter c,  *)
(* and is then in config mode until the line is q.  A line without a blank *)
(* is not executed.                                                        *)
(***************************************************************************)
ConsoleAt(pc) == Up /\ "config" \in started /\ console = pc

ConsoleOnly == UNCHANGED <<process, main, bootVars, udp, response, address, typed, disturbed, clash>>

create_cmd ==
  /\ ConsoleAt("init")
  /\ registered' = registered + 1
  /\ console' = IF registered' = Len(CommandNames) THEN "char" ELSE "init"
  /\ UNCHANGED <<pause_rendering, screens, exec>>
  /\ ConsoleOnly

EnterConfigMode ==
  /\ ConsoleAt("char")
  /\ pause_rendering' = 1
  /\ console' = "line"
  /\ UNCHANGED <<registered, screens, exec>>
  /\ ConsoleOnly

\* Mutant: pause_rendering is left as it is.
QuitStaysPaused ==
  /\ ConsoleAt("line")
  /\ console' = "char" /\ screens' = 0
  /\ UNCHANGED <<registered, exec, pause_rendering>>
  /\ ConsoleOnly

Quit ==
  /\ ConsoleAt("line")
  /\ pause_rendering' = 0 /\ screens' = 0
  /\ console' = "char"
  /\ UNCHANGED <<registered, exec>>
  /\ ConsoleOnly

TypeLine ==
  /\ ConsoleAt("line")
  /\ \E l \in Lines :
       /\ l.blank
       /\ exec' = [exec EXCEPT !["config"] = [NoExec EXCEPT !.pc = "lookup", !.cmd = l]]
  /\ console' = "exec"
  /\ UNCHANGED <<registered, pause_rendering, screens>>
  /\ ConsoleOnly

LineDone ==           \* OK or ERROR is printed; response stays as it is
  /\ ConsoleAt("exec")
  /\ exec["config"].pc = "done"
  /\ exec' = [exec EXCEPT !["config"] = NoExec]
  /\ console' = "line"
  /\ UNCHANGED <<registered, pause_rendering, screens>>
  /\ ConsoleOnly

(***************************************************************************)
(* The UDP thread, listener of communicator.h.  It ends when a call on its *)
(* socket fails.                                                           *)
(***************************************************************************)
UdpAt(pc) == Up /\ "udp" \in started /\ udp.pc = pc

UdpOnly == UNCHANGED <<process, main, bootVars, registered, pause_rendering, screens,
                       console, address, typed, clash>>

UdpGo(pc) == udp' = [udp EXCEPT !.pc = pc]

UdpOpens ==
  /\ \/ UdpAt("socket") /\ UdpGo("bind")
     \/ UdpAt("bind")   /\ UdpGo("receive")
  /\ UNCHANGED <<exec, response, disturbed>>
  /\ UdpOnly

UdpFails ==           \* socket, bind, recvfrom or sendto returns -1
  /\ UdpAt("socket") \/ UdpAt("bind") \/ UdpAt("receive") \/ UdpAt("reply")
  /\ UdpGo("ended")
  /\ UNCHANGED <<exec, response, disturbed>>
  /\ UdpOnly

Receive ==
  /\ UdpAt("receive")
  /\ \E d \in Datagrams :
       exec' = [exec EXCEPT !["udp"] = [NoExec EXCEPT !.pc = "lookup", !.cmd = d]]
  /\ udp' = [udp EXCEPT !.pc = "exec", !.tag = 1 - @]
  /\ disturbed' = FALSE
  /\ UNCHANGED response
  /\ UdpOnly

\* Mutant: a command that failed is not answered.
CommandDoneQuietly ==
  /\ UdpAt("exec")
  /\ exec["udp"].pc = "done"
  /\ exec["udp"].status = 1
  /\ response' = response /\ UdpGo("reply")
  /\ exec' = [exec EXCEPT !["udp"] = NoExec]
  /\ UNCHANGED disturbed
  /\ UdpOnly

CommandDone ==        \* parse_command writes over what a failed command wrote
  /\ UdpAt("exec")
  /\ exec["udp"].pc = "done"
  /\ IF exec["udp"].status = 0
     THEN /\ response' = strcpy(Written("udp"))
          /\ udp' = [udp EXCEPT !.pc = "reply", !.wrote = 1]
     ELSE /\ response' = response
          /\ UdpGo("reply")
  /\ exec' = [exec EXCEPT !["udp"] = NoExec]
  /\ UNCHANGED disturbed
  /\ UdpOnly

Reply ==              \* sendto, of all the cells response has
  /\ UdpAt("reply")
  /\ UdpGo("clear")
  /\ UNCHANGED <<exec, response, disturbed>>
  /\ UdpOnly

(***************************************************************************)
(* strclr: zeros from the start to the first zero, found before they are   *)
(* written.                                                                *)
(***************************************************************************)
FindText ==
  /\ UdpAt("clear")
  /\ udp' = [udp EXCEPT !.pc = "zero", !.end = strlen(response)]
  /\ UNCHANGED <<exec, response, disturbed>>
  /\ UdpOnly

\* Mutant: the buffer is not cleared.
ClearForgotten ==
  /\ UdpAt("zero")
  /\ udp' = [udp EXCEPT !.pc = "receive", !.wrote = 0, !.end = 0]
  /\ UNCHANGED <<exec, response, disturbed>>
  /\ UdpOnly

Clear ==
  /\ UdpAt("zero")
  /\ response' = [i \in 1 .. Room |-> IF i <= udp.end THEN Zero ELSE response[i]]
  /\ udp' = [udp EXCEPT !.pc = "receive", !.wrote = 0, !.end = 0]
  /\ UNCHANGED <<exec, disturbed>>
  /\ UdpOnly

MainStep    == RenderCheck \/ RenderPrint \/ RenderSleep
BootStep    == ParseOptions \/ CallSucceeds
ConsoleStep == create_cmd \/ LineDone
UdpStep     == UdpOpens \/ CommandDone \/ Reply \/ FindText \/ Clear

Next ==
  \/ BootStep \/ CallFails \/ ListenerMakesCache \/ MainStep \/ signal_handler
  \/ ConsoleStep \/ EnterConfigMode \/ TypeLine \/ Quit
  \/ UdpStep \/ UdpFails \/ Receive
  \/ \E t \in Executor : Execute(t)

Spec == Init /\ [][Next]_vars

(***************************************************************************)
(* The operating system runs every thread that can run: no loop here waits *)
(* for another thread, and a command ends (arp_get gives up by the clock). *)
(* Nobody is obliged to type a line or to send a datagram.                 *)
(***************************************************************************)
Fairness ==
  /\ WF_vars(BootStep) /\ WF_vars(MainStep)
  /\ WF_vars(ConsoleStep) /\ WF_vars(UdpStep)
  /\ \A t \in Executor : WF_vars(Execute(t))

FairSpec == Spec /\ Fairness
=============================================================================
