---------------------------- MODULE ProcessProofs ----------------------------
(***************************************************************************)
(* Proofs about Process: what it promises holds for every set of command   *)
(* lines, typed lines and datagrams, for tables of any length and for a    *)
(* response of any size.                                                   *)
(***************************************************************************)
EXTENDS ProcessProps, TLAPS, FiniteSetTheorems, WellFoundedInduction

(***************************************************************************)
(* What the proofs use of the calls main makes: their number, which open   *)
(* an interface, which start a thread, and which makes the list.           *)
(***************************************************************************)
LEMMA BootMakes ==
  /\ Len(Boot) = 14
  /\ Boot[4] = Call("activate", "p1", TRUE)
  /\ Boot[8] = Call("activate", "p2", TRUE)
  /\ Boot[12] = Call("LL_init", "arp_cache_ll", FALSE)
  BY DEF Boot

LEMMA BootOpens ==
  ASSUME NEW i \in 1 .. 14, Boot[i].name = "activate"
  PROVE  Boot[i].on \in {"p1", "p2"}
  BY DEF Boot, Call

LEMMA BootStarts ==
  ASSUME NEW i \in 1 .. 14, Boot[i].name = "thread"
  PROVE  \/ i > 8 /\ Boot[i].on \in {"p1", "p2", "rip_timers"}
         \/ i > 12 /\ Boot[i].on \in {"config", "udp"}
  BY DEF Boot, Call

(***************************************************************************)
(* The text in response ends at its first zero, and the last cell is one.  *)
(***************************************************************************)
Cells(r) == r \in [1 .. Room -> Line \cup {Zero}] /\ r[Room] = Zero

LEMMA LeastNatural ==
  ASSUME NEW S \in SUBSET Nat, S # {}
  PROVE  \E n \in S : \A m \in S : n <= m
  <1> DEFINE Below == OpToRel(<, Nat)
  <1>1. \A m, n \in Nat : m < n => <<m, n>> \in Below
    BY DEF OpToRel
  <1>2. IsWellFoundedOn(Below, Nat)
    BY NatLessThanWellFounded
  <1> HIDE DEF Below
  <1>3. PICK n \in S : \A m \in S : ~ (<<m, n>> \in Below)
    BY <1>2, WFMin
  <1>4. \A m \in S : ~ (m < n)
    BY <1>1, <1>3, Zenon
  <1> QED
    BY <1>4

LEMMA Blank ==
  ASSUME NEW line \in Line
  PROVE  line # Zero /\ line.by \in Executor
  BY DEF Line, Zero, Executor

LEMMA TextEnds ==
  ASSUME NEW r, Cells(r)
  PROVE  /\ strlen(r) \in 0 .. Room - 1
         /\ r[strlen(r) + 1] = Zero
         /\ \A i \in 1 .. strlen(r) : r[i] # Zero
  <1> DEFINE Zeros == { i \in DOMAIN r : r[i] = Zero }
  <1>1. DOMAIN r = 1 .. Room /\ Room \in Nat \ {0, 1}
    BY ProcessAssumption DEF Cells
  <1>2. Zeros \in SUBSET Nat /\ Room \in Zeros
    BY <1>1 DEF Cells
  <1> DEFINE first == CHOOSE i \in Zeros : \A j \in Zeros : i <= j
  <1>3. first \in Zeros /\ \A j \in Zeros : first <= j
    <2>1. \E i \in Zeros : \A j \in Zeros : i <= j
      BY <1>2, LeastNatural
    <2> HIDE DEF Zeros
    <2> QED
      BY <2>1
  <1>4. strlen(r) = first - 1
    BY DEF strlen
  <1> HIDE DEF first
  <1>5. first \in 1 .. Room /\ r[first] = Zero
    BY <1>1, <1>3
  <1>6. ASSUME NEW i \in 1 .. first - 1 PROVE r[i] # Zero
    BY <1>1, <1>3, <1>5
  <1> QED
    BY <1>1, <1>4, <1>5, <1>6

LEMMA EndIs ==
  ASSUME NEW r, Cells(r), NEW n \in Nat, n < Room, r[n + 1] = Zero,
         \A i \in 1 .. n : r[i] # Zero
  PROVE  strlen(r) = n
  <1> DEFINE e == strlen(r)
  <1>1. e \in 0 .. Room - 1 /\ r[e + 1] = Zero /\ \A i \in 1 .. e : r[i] # Zero
    BY TextEnds
  <1> HIDE DEF e
  <1>2. ~ (e < n)
    <2> SUFFICES ASSUME e < n PROVE FALSE
      OBVIOUS
    <2>1. e + 1 \in 1 .. n
      BY <1>1, ProcessAssumption
    <2> QED
      BY <1>1, <2>1
  <1>3. ~ (n < e)
    <2> SUFFICES ASSUME n < e PROVE FALSE
      OBVIOUS
    <2>1. n + 1 \in 1 .. e
      BY <1>1, ProcessAssumption
    <2> QED
      BY <1>1, <2>1
  <1> QED
    BY <1>1, <1>2, <1>3, ProcessAssumption DEF e

(***************************************************************************)
(* What a copy to pos leaves in response: the text up to pos and the line, *)
(* if pos is not behind the end of the text; and otherwise the text as it  *)
(* is.                                                                     *)
(***************************************************************************)
LEMMA CopiedKeeps ==
  ASSUME Cells(response), NEW pos \in Nat, NEW len \in Nat \ {0}, pos + len < Room, NEW line \in Line
  PROVE  LET r == Copied(pos, len, line)
         IN  /\ Cells(r)
             /\ \A i \in 1 .. Room : r[i] = IF i \in pos + 1 .. pos + len THEN line
                                           ELSE IF i = pos + len + 1 THEN Zero ELSE response[i]
             /\ pos <= strlen(response) => strlen(r) = pos + len
             /\ pos > strlen(response) => strlen(r) = strlen(response)
  <1> DEFINE r == Copied(pos, len, line)
  <1>1. Room \in Nat \ {0, 1}
    BY ProcessAssumption
  <1>2. \A i \in 1 .. Room : r[i] = IF i \in pos + 1 .. pos + len THEN line
                                    ELSE IF i = pos + len + 1 THEN Zero ELSE response[i]
    BY DEF Copied
  <1>3. DOMAIN r = 1 .. Room /\ r = [i \in 1 .. Room |-> r[i]]
    BY DEF Copied
  <1> HIDE DEF r
  <1>4. Cells(r)
    <2>1. \A i \in 1 .. Room : r[i] \in Line \cup {Zero}
      BY <1>2 DEF Cells
    <2>2. r[Room] = Zero
      <3>1. Room \notin pos + 1 .. pos + len
        BY <1>1
      <3> QED
        BY <1>1, <1>2, <3>1 DEF Cells
    <2> QED
      BY <1>3, <2>1, <2>2 DEF Cells
  <1>5. line # Zero
    BY Blank
  <1> DEFINE e == strlen(response)
  <1>6. e \in 0 .. Room - 1 /\ response[e + 1] = Zero /\ \A i \in 1 .. e : response[i] # Zero
    BY TextEnds
  <1> HIDE DEF e
  <1>7. ASSUME pos <= e PROVE strlen(r) = pos + len
    <2>1. r[pos + len + 1] = Zero
      BY <1>1, <1>2
    <2>2. ASSUME NEW i \in 1 .. pos + len PROVE r[i] # Zero
      <3>1. CASE i > pos
        BY <1>1, <1>2, <1>5, <3>1
      <3>2. CASE i <= pos
        <4>1. i \in 1 .. e /\ r[i] = response[i]
          BY <1>1, <1>2, <1>6, <1>7, <3>2
        <4> QED
          BY <1>6, <4>1
      <3> QED
        BY <3>1, <3>2
    <2> QED
      BY <1>1, <1>4, <2>1, <2>2, EndIs
  <1>8. ASSUME pos > e PROVE strlen(r) = e
    <2>1. r[e + 1] = Zero
      BY <1>1, <1>2, <1>6, <1>8
    <2>2. \A i \in 1 .. e : r[i] # Zero
      BY <1>1, <1>2, <1>6, <1>8
    <2> QED
      BY <1>1, <1>4, <1>6, <2>1, <2>2, EndIs
  <1> QED
    BY <1>2, <1>4, <1>6, <1>7, <1>8 DEF r, e

(***************************************************************************)
(* TypeOK is inductive together with the bounds of what is counted: a      *)
(* thread appends while its listing has lines left, the console registers  *)
(* while there are commands left, and the text in response has an end.     *)
(***************************************************************************)
Counting ==
  /\ \A t \in Executor : exec[t].pc = "append" => exec[t].left > 0
  /\ console = "init" => registered < Len(CommandNames)
  /\ response[Room] = Zero

TypeInv == TypeOK /\ Counting

LEMMA Names ==
  /\ Len(CommandNames) = 10
  /\ NoInput \in Input
  /\ Lines \subseteq Input /\ Datagrams \subseteq Input
  <1>1. Len(CommandNames) = 10 /\ CommandNames[10] = "?"
    BY DEF CommandNames
  <1>2. "?" \in Command
    BY <1>1 DEF Command, ToSet, CommandNames
  <1> QED
    BY <1>1, <1>2, ProcessAssumption DEF NoInput, Input

LEMMA NoExecTyped == NoExec \in Exec
  BY Names, ProcessAssumption DEF NoExec, Exec

LEMMA TypeInit == Init => TypeInv
  <1> SUFFICES ASSUME Init PROVE TypeInv
    OBVIOUS
  <1>1. exec \in [Executor -> Exec] /\ \A t \in Executor : exec[t].pc = "idle"
    BY NoExecTyped DEF Init, NoExec
  <1>2. Cells(response)
    BY ProcessAssumption DEF Init, Cells
  <1>3. Counting
    BY <1>1, <1>2, Names DEF Init, Counting, Cells
  <1>4. main \in [pc : {"options", "boot", "check", "print", "sleep"}, step : 1 .. Len(Boot)]
    BY BootMakes DEF Init
  <1>5. address \in Port /\ registered \in 0 .. Len(CommandNames)
    BY Names DEF Init, Port, Setter
  <1>6. udp \in [pc  : {"socket", "bind", "receive", "exec", "reply", "clear", "zero", "ended"},
                 tag : 0 .. 1, wrote : Nat, end : 0 .. Room]
    BY ProcessAssumption DEF Init
  <1>7. arp_cache_ll \in BOOLEAN /\ typed \in BOOLEAN /\ disturbed \in BOOLEAN /\ clash \in BOOLEAN
    BY DEF Init
  <1>8. pause_rendering \in 0 .. 1 /\ screens \in 0 .. 2
    BY DEF Init
  <1> QED
    BY <1>1, <1>2, <1>3, <1>4, <1>5, <1>6, <1>7, <1>8 DEF Init, TypeInv, TypeOK, Cells

LEMMA BootTyped ==
  ASSUME TypeInv, BootStep \/ CallFails \/ ListenerMakesCache \/ MainStep \/ signal_handler
  PROVE  TypeInv'
  <1> USE DEF TypeInv, TypeOK, bootVars, commandVars, Counting
  <1>1. CASE ParseOptions
    BY <1>1, BootMakes DEF ParseOptions
  <1>2. CASE CallSucceeds
    <2>1. main.step \in 1 .. 14 /\ main.pc = "boot"
      BY <1>2, BootMakes DEF CallSucceeds
    <2>2. main' \in [pc : {"options", "boot", "check", "print", "sleep"}, step : 1 .. Len(Boot)]
      BY <2>1, <1>2, BootMakes DEF CallSucceeds, NextCall
    <2>3. opened' \subseteq {"p1", "p2"}
      BY <2>1, <1>2, BootOpens DEF CallSucceeds
    <2>4. started' \subseteq {"p1", "p2", "rip_timers", "config", "udp"}
      BY <2>1, <1>2, BootStarts DEF CallSucceeds
    <2>5. arp_cache_ll' \in BOOLEAN
      BY <1>2 DEF CallSucceeds
    <2> QED
      BY <2>2, <2>3, <2>4, <2>5, <1>2 DEF CallSucceeds
  <1>3. CASE CallFails
    <2>1. main.step \in 1 .. 14 /\ main.pc = "boot"
      BY <1>3, BootMakes DEF CallFails
    <2>2. /\ main' \in [pc : {"options", "boot", "check", "print", "sleep"}, step : 1 .. Len(Boot)]
          /\ process' \in {"up", "exited", "died", "overrun"}
      <3>1. CASE Boot[main.step].must
        <4>1. main' = main /\ process' = "exited"
          BY <1>3, <3>1 DEF CallFails
        <4> QED
          BY <4>1
      <3>2. CASE ~ Boot[main.step].must
        <4>1. NextCall /\ process' = process
          BY <1>3, <3>2 DEF CallFails
        <4> QED
          BY <2>1, <4>1, BootMakes, SMTT(20) DEF NextCall
      <3> QED
        BY <3>1, <3>2
    <2>3. UNCHANGED <<opened, started, arp_cache_ll, registered, pause_rendering, screens,
                      console, udp, exec, response, address, typed, disturbed, clash>>
      BY <1>3 DEF CallFails
    <2> QED
      BY <2>2, <2>3
  <1>4. CASE ListenerMakesCache
    BY <1>4 DEF ListenerMakesCache
  <1>5. CASE MainStep
    <2>1. CASE RenderCheck \/ RenderSleep
      BY <2>1 DEF RenderCheck, RenderSleep, MainOnly
    <2>2. CASE RenderPrint
      BY <2>2 DEF RenderPrint, MainOnly
    <2> QED
      BY <1>5, <2>1, <2>2 DEF MainStep
  <1>6. CASE signal_handler
    BY <1>6 DEF signal_handler
  <1> QED
    BY <1>1, <1>2, <1>3, <1>4, <1>5, <1>6 DEF BootStep

LEMMA ConsoleTyped ==
  ASSUME TypeInv, ConsoleStep \/ EnterConfigMode \/ TypeLine \/ Quit
  PROVE  TypeInv'
  <1> USE DEF TypeInv, TypeOK, Counting, ConsoleOnly, bootVars, ConsoleAt
  <1>1. CASE create_cmd
    BY <1>1, Names DEF create_cmd
  <1>2. CASE LineDone
    <2>1. exec' \in [Executor -> Exec] /\ \A t \in Executor : exec'[t].pc = "append" => exec'[t].left > 0
      BY <1>2, NoExecTyped DEF LineDone, NoExec
    <2> QED
      BY <1>2, <2>1 DEF LineDone
  <1>3. CASE EnterConfigMode
    BY <1>3 DEF EnterConfigMode
  <1>4. CASE TypeLine
    <2>1. PICK l \in Lines :
            exec' = [exec EXCEPT !["config"] = [NoExec EXCEPT !.pc = "lookup", !.cmd = l]]
      BY <1>4 DEF TypeLine
    <2>2. [NoExec EXCEPT !.pc = "lookup", !.cmd = l] \in Exec
      BY Names, NoExecTyped DEF NoExec, Exec
    <2>3. exec' \in [Executor -> Exec] /\ \A t \in Executor : exec'[t].pc = "append" => exec'[t].left > 0
      BY <2>1, <2>2 DEF NoExec
    <2>4. /\ console' = "exec"
          /\ UNCHANGED <<process, main, opened, started, arp_cache_ll, registered,
                         pause_rendering, screens, udp, response, address>>
          /\ typed' \in BOOLEAN /\ disturbed' \in BOOLEAN /\ clash' \in BOOLEAN
      BY <1>4 DEF TypeLine
    <2> QED
      BY <2>3, <2>4
  <1>5. CASE Quit
    BY <1>5 DEF Quit
  <1> QED
    BY <1>1, <1>2, <1>3, <1>4, <1>5 DEF ConsoleStep

UdpState ==
  [pc : {"socket", "bind", "receive", "exec", "reply", "clear", "zero", "ended"},
   tag : 0 .. 1, wrote : Nat, end : 0 .. Room]

LEMMA UdpFields ==
  ASSUME NEW u \in UdpState
  PROVE  /\ [u EXCEPT !.pc = "reply"] \in UdpState
         /\ [u EXCEPT !.pc = "reply", !.wrote = 1] \in UdpState
         /\ [u EXCEPT !.pc = "receive", !.wrote = 0, !.end = 0] \in UdpState
         /\ \A end \in 0 .. Room : [u EXCEPT !.pc = "zero", !.end = end] \in UdpState
         /\ \A tag \in 0 .. 1 : [u EXCEPT !.pc = "exec", !.tag = tag] \in UdpState
         /\ \A n \in Nat : [u EXCEPT !.wrote = n] \in UdpState
  <1>1. 0 \in 0 .. Room
    BY ProcessAssumption
  <1>2. /\ [u EXCEPT !.pc = "reply"] \in UdpState
        /\ [u EXCEPT !.pc = "reply", !.wrote = 1] \in UdpState
        /\ [u EXCEPT !.pc = "receive", !.wrote = 0, !.end = 0] \in UdpState
    BY <1>1 DEF UdpState
  <1>3. ASSUME NEW end \in 0 .. Room
        PROVE  [u EXCEPT !.pc = "zero", !.end = end] \in UdpState
    BY DEF UdpState
  <1>4. ASSUME NEW tag \in 0 .. 1
        PROVE  [u EXCEPT !.pc = "exec", !.tag = tag] \in UdpState
    BY DEF UdpState
  <1>5. ASSUME NEW n \in Nat
        PROVE  [u EXCEPT !.wrote = n] \in UdpState
    BY DEF UdpState
  <1> QED
    BY <1>2, <1>3, <1>4, <1>5

\* The commands in execution: typed, and with lines left to append.
ExecTyped ==
  /\ exec \in [Executor -> Exec]
  /\ \A t \in Executor : exec[t].pc = "append" => exec[t].left > 0

LEMMA TypeInvIs ==
  /\ TypeInv => ExecTyped /\ udp \in UdpState /\ Cells(response)
  /\ TypeInv' => ExecTyped' /\ udp' \in UdpState /\ Cells(response)'
  BY DEF TypeInv, TypeOK, Counting, ExecTyped, UdpState, Cells

\* What the threads write is a line.
LEMMA Writes ==
  ASSUME udp \in UdpState, NEW t \in Executor
  PROVE  Written(t) \in Line /\ Written(t).by = t /\ (t = "udp" => Written(t).tag = udp.tag)
  BY DEF Written, Line, UdpState

LEMMA Replaces ==
  ASSUME Cells(response), NEW line \in Line
  PROVE  /\ Cells(strcpy(line)) /\ strlen(strcpy(line)) = 1
         /\ \A i \in 1 .. Room : strcpy(line)[i] = IF i = 1 THEN line
                                                ELSE IF i = 2 THEN Zero ELSE response[i]
  <1>1. 0 \in Nat /\ 1 \in Nat \ {0} /\ 0 + 1 < Room /\ 0 <= strlen(response)
    BY TextEnds, ProcessAssumption
  <1>2. strcpy(line) = Copied(0, 1, line)
    BY DEF strcpy
  <1>3. /\ Cells(strcpy(line)) /\ strlen(strcpy(line)) = 0 + 1
        /\ \A i \in 1 .. Room : strcpy(line)[i] = IF i \in 0 + 1 .. 0 + 1 THEN line
                                               ELSE IF i = 0 + 1 + 1 THEN Zero ELSE response[i]
    BY <1>1, <1>2, CopiedKeeps
  <1> QED
    BY <1>3

\* A step that gives thread t another command, or takes it further.
LEMMA OneExecutes ==
  ASSUME ExecTyped, NEW t \in Executor, NEW new \in Exec, new.pc = "append" => new.left > 0,
         exec' = [exec EXCEPT ![t] = new]
  PROVE  ExecTyped'
  BY DEF ExecTyped

LEMMA Fresh ==
  /\ NoExec \in Exec /\ NoExec.pc = "idle"
  /\ \A l \in Input : LET new == [NoExec EXCEPT !.pc = "lookup", !.cmd = l]
                      IN  new \in Exec /\ new.pc = "lookup"
  /\ \A status \in 0 .. 1 : LET new == [NoExec EXCEPT !.pc = "done", !.status = status]
                             IN  new \in Exec /\ new.pc = "done"
  BY NoExecTyped DEF NoExec, Exec

LEMMA ListsOn ==
  ASSUME NEW e \in Exec, NEW left \in Nat
  PROVE  LET new == [e EXCEPT !.pc = "list", !.left = left, !.end = 0]
         IN  new \in Exec /\ new.pc # "append"
  <1>1. 0 \in 0 .. Room
    BY ProcessAssumption
  <1> QED
    BY <1>1 DEF Exec

LEMMA UdpTyped ==
  ASSUME TypeInv, UdpStep \/ UdpFails \/ Receive
  PROVE  TypeInv'
  <1> USE DEF UdpOnly, bootVars, UdpAt, UdpGo
  <1>0. ExecTyped /\ udp \in UdpState /\ Cells(response)
    BY TypeInvIs
  <1>1. UdpOnly
    BY DEF UdpStep, UdpOpens, CommandDone, Reply, FindText, Clear, UdpFails, Receive
  <1>2. udp' \in UdpState
    <2> SUFFICES ASSUME udp \in UdpState PROVE udp' \in UdpState
      BY <1>0
    <2>1. CASE UdpOpens \/ UdpFails \/ Reply
      BY <2>1 DEF UdpOpens, UdpFails, Reply, UdpState
    <2>2. CASE CommandDone
      <3>1. \/ udp' = [udp EXCEPT !.pc = "reply", !.wrote = 1]
            \/ udp' = [udp EXCEPT !.pc = "reply"]
        BY <2>2 DEF CommandDone
      <3> QED
        BY <3>1, UdpFields
    <2>4. CASE FindText
      <3>1. udp' = [udp EXCEPT !.pc = "zero", !.end = strlen(response)]
        BY <2>4 DEF FindText
      <3>2. strlen(response) \in 0 .. Room
        BY <1>0, TextEnds, ProcessAssumption
      <3> QED
        BY <3>1, <3>2, UdpFields
    <2>3. CASE Clear \/ Receive
      <3>1. \/ udp' = [udp EXCEPT !.pc = "receive", !.wrote = 0, !.end = 0]
            \/ udp' = [udp EXCEPT !.pc = "exec", !.tag = 1 - udp.tag]
        BY <2>3 DEF Clear, Receive
      <3>2. 1 - udp.tag \in 0 .. 1
        BY DEF UdpState
      <3> QED
        BY <3>1, <3>2, UdpFields
    <2> QED
      BY <2>1, <2>2, <2>3, <2>4 DEF UdpStep
  <1>3. ExecTyped'
    <2>1. CASE CommandDone
      <3>1. exec' = [exec EXCEPT !["udp"] = NoExec] /\ "udp" \in Executor
        BY <2>1 DEF CommandDone, Executor
      <3> QED
        BY <3>1, <1>0, Fresh, OneExecutes
    <2>2. CASE Receive
      <3>1. PICK d \in Datagrams :
              exec' = [exec EXCEPT !["udp"] = [NoExec EXCEPT !.pc = "lookup", !.cmd = d]]
        BY <2>2 DEF Receive
      <3> QED
        BY <3>1, <1>0, Fresh, Names, OneExecutes DEF Executor
    <2>3. CASE UNCHANGED exec
      BY <2>3, <1>0 DEF ExecTyped
    <2> QED
      BY <2>1, <2>2, <2>3 DEF UdpStep, UdpOpens, Reply, FindText, Clear, UdpFails
  <1>4. Cells(response)'
    <2>1. CASE CommandDone
      <3>1. Cells(strcpy(Written("udp")))
        BY <1>0, Writes, Replaces DEF Executor
      <3> QED
        BY <2>1, <3>1, <1>0 DEF CommandDone
    <2>2. CASE Clear
      <3>1. response' = [i \in 1 .. Room |-> IF i <= udp.end THEN Zero ELSE response[i]]
        BY <2>2 DEF Clear
      <3> QED
        BY <3>1, <1>0, ProcessAssumption DEF Cells
    <2>3. CASE UNCHANGED response
      BY <2>3, <1>0
    <2> QED
      BY <2>1, <2>2, <2>3 DEF UdpStep, UdpOpens, Reply, FindText, UdpFails, Receive
  <1>5. disturbed' \in BOOLEAN
    BY DEF UdpStep, UdpOpens, CommandDone, Reply, FindText, Clear, UdpFails, Receive, TypeInv, TypeOK
  <1> QED
    BY <1>1, <1>2, <1>3, <1>4, <1>5
    DEF ExecTyped, UdpState, Cells, TypeInv, TypeOK, Counting

\* What GoTo and Done make of the commands in execution.
LEMMA GoesOn ==
  ASSUME ExecTyped, NEW t \in Executor,
         \/ \E status \in 0 .. 1 : Done(t, status)
         \/ \E pc \in {"run", "mask"} : GoTo(t, pc)
  PROVE  ExecTyped'
  <1>1. CASE \E status \in 0 .. 1 : Done(t, status)
    <2>1. PICK status \in 0 .. 1 : exec' = [exec EXCEPT ![t] = [NoExec EXCEPT !.pc = "done", !.status = status]]
      BY <1>1 DEF Done
    <2> QED
      BY <2>1, Fresh, OneExecutes
  <1>2. CASE \E pc \in {"run", "mask"} : GoTo(t, pc)
    <2>1. PICK pc \in {"run", "mask"} : exec' = [exec EXCEPT ![t].pc = pc]
      BY <1>2 DEF GoTo
    <2> DEFINE new == [exec[t] EXCEPT !.pc = pc]
    <2>2. new \in Exec /\ new.pc # "append"
      BY DEF ExecTyped, Exec
    <2>3. exec' = [exec EXCEPT ![t] = new]
      BY <2>1 DEF ExecTyped
    <2> HIDE DEF new
    <2> QED
      BY <2>2, <2>3, OneExecutes
  <1> QED
    BY <1>1, <1>2

LEMMA ExecuteTyped ==
  ASSUME TypeInv, NEW t \in Executor, Execute(t)
  PROVE  TypeInv'
  <1> USE DEF ThreadsOnly, bootVars, At
  <1>0. ExecTyped /\ udp \in UdpState /\ Cells(response) /\ exec[t] \in Exec
    BY TypeInvIs DEF ExecTyped
  <1>9. /\ Room \in Nat \ {0} /\ Listing \subseteq Nat \ {0} /\ Width \in Nat \ {0}
        /\ Written(t) \in Line
    BY <1>0, Writes, ProcessAssumption
  <1>1. CASE LookupFound(t) \/ LookupMissed(t)
    <2>1. ExecTyped'
      BY <1>1, <1>0, GoesOn DEF LookupFound, LookupMissed
    <2>2. UNCHANGED <<process, main, opened, started, arp_cache_ll, registered, pause_rendering,
                      screens, console, udp, response, address, typed, disturbed, clash>>
      BY <1>1 DEF LookupFound, LookupMissed
    <2> QED
      BY <2>1, <2>2 DEF TypeInv, TypeOK, Counting, ExecTyped
  <1>2. CASE LookupDies(t) \/ RunDies(t) \/ ListOverrun(t)
    BY <1>2 DEF LookupDies, RunDies, ListOverrun, commandVars, TypeInv, TypeOK, Counting, ExecTyped, UdpState
  <1>3. CASE RunSilent(t)
    <2>1. ExecTyped'
      BY <1>3, <1>0, GoesOn DEF RunSilent
    <2> QED
      BY <1>3, <2>1 DEF RunSilent, TypeInv, TypeOK, Counting, ExecTyped, UdpState
  <1>4. CASE RunReplace(t)
    <2>1. ExecTyped'
      BY <1>4, <1>0, GoesOn DEF RunReplace
    <2>2. udp' \in UdpState
      BY <1>0, <1>4, UdpFields DEF RunReplace, Wrote
    <2>3. typed' \in BOOLEAN /\ disturbed' \in BOOLEAN
      BY <1>4 DEF RunReplace, Meddles, TypeInv, TypeOK
    <2>4. Cells(response')
      BY <1>0, <1>9, <1>4, Replaces DEF RunReplace
    <2> QED
      BY <1>4, <2>1, <2>2, <2>3, <2>4 DEF RunReplace, TypeInv, TypeOK, Counting, ExecTyped, UdpState, Cells
  <1>5. CASE RunListing(t)
    <2>1. ExecTyped'
      <3>1. PICK n \in Listing : exec' = [exec EXCEPT ![t].pc = "list", ![t].left = n]
        BY <1>5 DEF RunListing
      <3> DEFINE new == [exec[t] EXCEPT !.pc = "list", !.left = n]
      <3>2. new \in Exec /\ new.pc # "append"
        BY <1>0, <1>9 DEF ExecTyped, Exec
      <3>3. exec' = [exec EXCEPT ![t] = new]
        BY <3>1, <1>0 DEF ExecTyped
      <3> HIDE DEF new
      <3> QED
        BY <3>2, <3>3, <1>0, OneExecutes
    <2> QED
      BY <1>5, <2>1 DEF RunListing, TypeInv, TypeOK, Counting, ExecTyped, UdpState
  <1>6. CASE ListFindEnd(t)
    <2>1. ExecTyped'
      <3>1. CASE exec[t].left = 0
        BY <1>6, <3>1, <1>0, GoesOn DEF ListFindEnd
      <3>2. CASE exec[t].left # 0
        <4> DEFINE new == [exec[t] EXCEPT !.pc = "append", !.end = strlen(response)]
        <4>1. strlen(response) \in 0 .. Room
          BY <1>0, <1>9, TextEnds
        <4>2. new \in Exec /\ new.left > 0
          <5>1. exec[t].left > 0
            BY <1>0, <3>2 DEF Exec
          <5> QED
            BY <1>0, <4>1, <5>1 DEF Exec
        <4>3. exec' = [exec EXCEPT ![t] = new]
          BY <1>0, <1>6, <3>2 DEF ListFindEnd, ExecTyped
        <4> HIDE DEF new
        <4> QED
          BY <4>2, <4>3, <1>0, OneExecutes
      <3> QED
        BY <3>1, <3>2
    <2> QED
      BY <1>6, <2>1 DEF ListFindEnd, TypeInv, TypeOK, Counting, ExecTyped, UdpState
  <1>7. CASE ListAppend(t)
    <2>1. ExecTyped'
      <3> DEFINE left == exec[t].left - 1
                 new  == [exec[t] EXCEPT !.pc = "list", !.left = left, !.end = 0]
      <3>1. left \in Nat
        BY <1>0, <1>7 DEF ListAppend, ExecTyped, Exec
      <3>2. new \in Exec /\ new.pc # "append"
        BY <1>0, <3>1, ListsOn
      <3>3. exec' = [exec EXCEPT ![t] = new]
        BY <1>0, <1>7 DEF ListAppend, ExecTyped
      <3> HIDE DEF new
      <3> QED
        BY <3>2, <3>3, <1>0, OneExecutes
    <2>2. udp' \in UdpState
      <3>1. udp \in UdpState
        BY DEF TypeInv, TypeOK, UdpState
      <3>2. Wrote(t, udp.wrote + Width)
        BY <1>7 DEF ListAppend
      <3>3. udp.wrote + Width \in Nat
        BY <1>0, <1>9 DEF UdpState
      <3> QED
        BY <3>1, <3>2, <3>3, UdpFields DEF Wrote
    <2>3. typed' \in BOOLEAN /\ disturbed' \in BOOLEAN
      BY <1>7 DEF ListAppend, Meddles, TypeInv, TypeOK
    <2>4. exec[t].end \in Nat /\ exec[t].end + Width < Room
      BY <1>0, <1>7 DEF ListAppend, Exec
    <2>5. Cells(response')
      <3>1. response' = Copied(exec[t].end, Width, Written(t))
        BY <1>7 DEF ListAppend, strcat
      <3> QED
        BY <1>0, <1>9, <2>4, <3>1, CopiedKeeps
    <2> QED
      BY <1>7, <2>1, <2>2, <2>3, <2>5 DEF ListAppend, TypeInv, TypeOK, Counting, ExecTyped, UdpState, Cells
  <1>8. CASE SetIp(t) \/ SetMask(t)
    <2>1. ExecTyped'
      BY <1>8, <1>0, GoesOn DEF SetIp, SetMask
    <2>2. address' \in Port
      BY <1>8 DEF SetIp, SetMask, TypeInv, TypeOK, Port, Setter
    <2>3. typed' \in BOOLEAN /\ disturbed' \in BOOLEAN
      BY <1>8 DEF SetIp, SetMask, TypeInv, TypeOK
    <2>4. clash' \in BOOLEAN
      BY <1>8 DEF SetIp, SetMask, TypeInv, TypeOK
    <2> QED
      BY <1>8, <2>1, <2>2, <2>3, <2>4 DEF SetIp, SetMask, TypeInv, TypeOK, Counting, ExecTyped, UdpState
  <1> QED
    BY <1>1, <1>2, <1>3, <1>4, <1>5, <1>6, <1>7, <1>8 DEF Execute

LEMMA GoneTo ==
  ASSUME TypeInv, NEW t \in Executor, NEW pc, GoTo(t, pc)
  PROVE  exec'[t].pc = pc
  <1>1. exec \in [Executor -> Exec] /\ exec' = [exec EXCEPT ![t].pc = pc]
    BY DEF TypeInv, TypeOK, GoTo
  <1> QED
    BY <1>1 DEF Exec

LEMMA IsDone ==
  ASSUME TypeInv, NEW t \in Executor, NEW status, Done(t, status)
  PROVE  exec'[t].pc = "done"
  <1>1. exec \in [Executor -> Exec] /\ exec' = [exec EXCEPT ![t] = [NoExec EXCEPT !.pc = "done", !.status = status]]
    BY DEF TypeInv, TypeOK, Done
  <1> QED
    BY <1>1 DEF NoExec

LEMMA MeddlesUdp ==
  ASSUME TypeInv, Meddles("udp")
  PROVE  typed' = typed /\ disturbed' = disturbed
  BY DEF Meddles, TypeInv, TypeOK

\* A thread that executes has a command, and leaves the other's alone.
LEMMA ExecuteOne ==
  ASSUME TypeInv, NEW t \in Executor, Execute(t)
  PROVE  exec[t].pc # "idle" /\ \A u \in Executor \ {t} : exec'[u] = exec[u]
  <1>1. exec[t].pc # "idle"
    BY DEF Execute, LookupFound, LookupMissed, LookupDies, RunSilent, RunDies, RunReplace, RunListing,
           ListFindEnd, ListAppend, ListOverrun, SetIp, SetMask, Running, At
  <1>2. exec \in [Executor -> Exec]
    BY DEF TypeInv, TypeOK
  <1>3. CASE LookupFound(t) \/ LookupMissed(t) \/ LookupDies(t) \/ RunDies(t) \/ ListOverrun(t)
    BY <1>1, <1>2, <1>3 DEF LookupFound, LookupMissed, LookupDies, RunDies, ListOverrun, commandVars, GoTo, Done
  <1>4. CASE RunSilent(t) \/ RunReplace(t) \/ SetIp(t) \/ SetMask(t)
    BY <1>1, <1>2, <1>4 DEF RunSilent, RunReplace, SetIp, SetMask, GoTo, Done
  <1>5. CASE RunListing(t)
    BY <1>1, <1>2, <1>5 DEF RunListing
  <1>6. CASE ListFindEnd(t) \/ ListAppend(t)
    BY <1>1, <1>2, <1>6 DEF ListFindEnd, ListAppend, Done
  <1> QED
    BY <1>3, <1>4, <1>5, <1>6 DEF Execute

\* What the two threads do to the commands in execution around Execute: a new
\* one is looked up, or one that is done is forgotten.
LEMMA ConsoleExec ==
  ASSUME TypeInv, ConsoleStep \/ EnterConfigMode \/ TypeLine \/ Quit
  PROVE  /\ exec'["udp"] = exec["udp"]
         /\ \/ exec'["config"] = exec["config"]
            \/ /\ console = "line" /\ console' = "exec"
               /\ exec'["config"].pc = "lookup"
            \/ exec["config"].pc = "done" /\ exec'["config"].pc = "idle"
  <1>1. exec \in [Executor -> Exec]
    BY DEF TypeInv, TypeOK
  <1>2. CASE create_cmd \/ EnterConfigMode \/ Quit
    BY <1>2 DEF create_cmd, EnterConfigMode, Quit
  <1>3. CASE LineDone
    BY <1>1, <1>3 DEF LineDone, NoExec, Executor
  <1>4. CASE TypeLine
    <2>1. PICK l \in Lines :
            exec' = [exec EXCEPT !["config"] = [NoExec EXCEPT !.pc = "lookup", !.cmd = l]]
      BY <1>4 DEF TypeLine
    <2> QED
      BY <1>1, <1>4, <2>1 DEF TypeLine, ConsoleAt, NoExec, Executor
  <1> QED
    BY <1>2, <1>3, <1>4 DEF ConsoleStep

LEMMA UdpExec ==
  ASSUME TypeInv, UdpStep \/ UdpFails \/ Receive
  PROVE  /\ exec'["config"] = exec["config"]
         /\ \/ exec'["udp"] = exec["udp"]
            \/ Receive /\ exec'["udp"].pc = "lookup"
            \/ CommandDone /\ exec["udp"].pc = "done" /\ exec'["udp"].pc = "idle"
  <1>1. exec \in [Executor -> Exec]
    BY DEF TypeInv, TypeOK
  <1>2. CASE UdpOpens \/ Reply \/ FindText \/ Clear \/ UdpFails
    BY <1>2 DEF UdpOpens, Reply, FindText, Clear, UdpFails
  <1>3. CASE CommandDone
    BY <1>1, <1>3 DEF CommandDone, NoExec, Executor
  <1>4. CASE Receive
    <2>1. PICK d \in Datagrams :
            exec' = [exec EXCEPT !["udp"] = [NoExec EXCEPT !.pc = "lookup", !.cmd = d]]
      BY <1>4 DEF Receive
    <2> QED
      BY <1>1, <1>4, <2>1 DEF NoExec, Executor
  <1> QED
    BY <1>2, <1>3, <1>4 DEF UdpStep

LEMMA TypeStep == TypeInv /\ [Next]_vars => TypeInv'
  <1>1. ASSUME TypeInv, Next PROVE TypeInv'
    BY <1>1, BootTyped, ConsoleTyped, UdpTyped, ExecuteTyped DEF Next
  <1>2. ASSUME TypeInv, UNCHANGED vars PROVE TypeInv'
    BY <1>2 DEF vars, bootVars, commandVars, TypeInv, TypeOK, Counting
  <1> QED
    BY <1>1, <1>2

LEMMA TypeInvariant == Spec => []TypeInv
  BY TypeInit, TypeStep, PTL DEF Spec

\* The state of the process is well formed: a cell of response is zero or
\* a piece of a text, whatever is copied where, and the count of registered commands stays one.
THEOREM ProcessTyped == Spec => []TypeOK
  <1>1. TypeInv => TypeOK
    BY DEF TypeInv
  <1> QED
    BY <1>1, TypeInvariant, PTL
(***************************************************************************)
(* BootOrder.  How far main has come says what there is: the handles are   *)
(* activated by calls it does not survive the failure of, and the list is  *)
(* made before the threads that walk it are created.                       *)
(***************************************************************************)
BootInv ==
  /\ main.pc = "options" => main.step = 1
  /\ main.step > 4 => "p1" \in opened
  /\ main.step > 8 => "p2" \in opened
  /\ main.step > 12 => arp_cache_ll
  /\ started \cap {"p1", "p2"} # {} => main.step > 8
  /\ started \cap Executor # {} => main.step > 12
  /\ \A t \in Executor : exec[t].pc # "idle" => t \in started

LEMMA BootInit == Init => BootInv
  BY BootMakes DEF Init, BootInv, NoExec, Executor

\* Only main's calls disturb it, and a command that begins.
LEMMA BootStays ==
  ASSUME BootInv, UNCHANGED main, opened' = opened, started' = started,
         arp_cache_ll => arp_cache_ll',
         \A t \in Executor : exec'[t].pc # "idle" => exec[t].pc # "idle" \/ t \in started
  PROVE  BootInv'
  BY DEF BootInv

LEMMA BootInvStep == TypeInv /\ BootInv /\ [Next]_vars => BootInv'
  <1> SUFFICES ASSUME TypeInv, BootInv, [Next]_vars PROVE BootInv'
    OBVIOUS
  <1>0. main.step \in 1 .. 14 /\ main = [pc |-> main.pc, step |-> main.step]
    BY BootMakes DEF TypeInv, TypeOK
  <1>1. CASE ParseOptions
    BY <1>0, <1>1 DEF ParseOptions, BootInv, bootVars, commandVars
  <1>2. CASE CallSucceeds
    <2>1. main.pc = "boot" /\ exec' = exec /\ arp_cache_ll' = (arp_cache_ll \/ Boot[main.step].name = "LL_init")
      BY <1>2 DEF CallSucceeds, commandVars
    <2>2. /\ opened' = IF Boot[main.step].name = "activate" THEN opened \cup {Boot[main.step].on} ELSE opened
          /\ started' = IF Boot[main.step].name = "thread" THEN started \cup {Boot[main.step].on} ELSE started
      BY <1>2 DEF CallSucceeds
    <2>3. /\ main'.step = IF main.step = 14 THEN 14 ELSE main.step + 1
          /\ main'.pc # "options"
      BY <1>0, <1>2, <2>1, BootMakes DEF CallSucceeds, NextCall
    <2>4. main'.step > 4 => "p1" \in opened'
      BY <1>0, <2>2, <2>3, BootMakes DEF Call, BootInv
    <2>5. main'.step > 8 => "p2" \in opened'
      BY <1>0, <2>2, <2>3, BootMakes DEF Call, BootInv
    <2>6. main'.step > 12 => arp_cache_ll'
      <3>1. main'.step > 12 => main.step = 12 \/ main.step > 12
        BY <1>0, <2>3
      <3>2. main.step = 12 => Boot[main.step].name = "LL_init"
        BY BootMakes DEF Call
      <3> QED
        BY <3>1, <3>2, <2>1 DEF BootInv
    <2>7. started' \cap {"p1", "p2"} # {} => main'.step > 8
      BY <1>0, <2>2, <2>3, BootStarts DEF BootInv
    <2>8. started' \cap Executor # {} => main'.step > 12
      BY <1>0, <2>2, <2>3, BootStarts DEF BootInv, Executor
    <2>9. \A t \in Executor : exec'[t].pc # "idle" => t \in started'
      BY <2>1, <2>2 DEF BootInv
    <2> QED
      BY <2>3, <2>4, <2>5, <2>6, <2>7, <2>8, <2>9 DEF BootInv
  <1>3. CASE CallFails
    <2>1. /\ main.pc = "boot" /\ exec' = exec /\ opened' = opened /\ started' = started
          /\ arp_cache_ll' = arp_cache_ll /\ main.step # 12
      <3>1. Boot[main.step].name # "LL_init"
        BY <1>3 DEF CallFails
      <3>2. main.step # 12
        BY <3>1, BootMakes DEF Call
      <3> QED
        BY <1>3, <3>2 DEF CallFails, commandVars, bootVars
    <2>2. CASE UNCHANGED main
      BY <2>1, <2>2, BootStays
    <2>3. CASE ~ Boot[main.step].must /\ NextCall
      <3>1. main.step # 4 /\ main.step # 8
        BY <2>3, BootMakes DEF Call
      <3>2. /\ main'.step = IF main.step = 14 THEN 14 ELSE main.step + 1
            /\ main'.pc # "options"
        BY <1>0, <2>1, <2>3, BootMakes DEF NextCall
      <3> QED
        BY <1>0, <2>1, <3>1, <3>2 DEF BootInv
    <2> QED
      BY <1>3, <2>2, <2>3 DEF CallFails
  <1>4. CASE ListenerMakesCache \/ signal_handler \/ UNCHANGED vars
    BY <1>4, BootStays DEF ListenerMakesCache, signal_handler, vars, bootVars, commandVars
  <1>5. CASE MainStep
    <2>1. main'.step = main.step /\ main'.pc # "options"
      BY <1>0, <1>5 DEF MainStep, RenderCheck, RenderPrint, RenderSleep
    <2>2. UNCHANGED <<opened, started, arp_cache_ll, exec>>
      BY <1>5 DEF MainStep, RenderCheck, RenderPrint, RenderSleep, MainOnly, bootVars, commandVars
    <2> QED
      BY <2>1, <2>2 DEF BootInv
  <1>6. CASE ConsoleStep \/ EnterConfigMode \/ TypeLine \/ Quit
    <2>1. UNCHANGED <<main, opened, started, arp_cache_ll>>
      BY <1>6 DEF ConsoleStep, create_cmd, LineDone, EnterConfigMode, TypeLine, Quit, ConsoleOnly, bootVars
    <2>2. "config" \in started /\ exec'["udp"] = exec["udp"]
      BY <1>6 DEF ConsoleStep, create_cmd, LineDone, EnterConfigMode, TypeLine, Quit, ConsoleAt,
                  TypeInv, TypeOK, Executor
    <2> QED
      BY <2>1, <2>2, BootStays DEF Executor
  <1>7. CASE UdpStep \/ UdpFails \/ Receive
    <2>1. UNCHANGED <<main, opened, started, arp_cache_ll>>
      BY <1>7 DEF UdpStep, UdpOpens, CommandDone, Reply, FindText, Clear, UdpFails, Receive, UdpOnly, bootVars
    <2>2. "udp" \in started /\ exec'["config"] = exec["config"]
      BY <1>7 DEF UdpStep, UdpOpens, CommandDone, Reply, FindText, Clear, UdpFails, Receive, UdpAt,
                  TypeInv, TypeOK, Executor
    <2> QED
      BY <2>1, <2>2, BootStays DEF Executor
  <1>8. CASE \E t \in Executor : Execute(t)
    <2>1. PICK t \in Executor : Execute(t)
      BY <1>8
    <2>2. UNCHANGED <<main, opened, started, arp_cache_ll>>
      BY <2>1 DEF Execute, LookupFound, LookupMissed, LookupDies, RunSilent, RunDies, RunReplace, RunListing,
                  ListFindEnd, ListAppend, ListOverrun, SetIp, SetMask, ThreadsOnly, bootVars
    <2>3. exec[t].pc # "idle" /\ \A u \in Executor \ {t} : exec'[u] = exec[u]
      BY <2>1, ExecuteOne
    <2> QED
      BY <2>2, <2>3, BootStays DEF Executor
  <1> QED
    BY <1>1, <1>2, <1>3, <1>4, <1>5, <1>6, <1>7, <1>8 DEF Next, BootStep

\* A command is executed only once there is a list, and the listeners only
\* run when both interfaces are open.
THEOREM BootInOrder == Spec => []BootOrder
  <1>1. TypeInv /\ BootInv => BootOrder
    <2> SUFFICES ASSUME TypeInv, BootInv PROVE BootOrder
      OBVIOUS
    <2>1. main.step \in 1 .. 14 /\ opened \subseteq {"p1", "p2"}
      BY BootMakes DEF TypeInv, TypeOK
    <2>2. main.step > 8 => opened = {"p1", "p2"}
      <3>1. main.step > 8 => "p1" \in opened /\ "p2" \in opened
        BY <2>1 DEF BootInv
      <3> QED
        BY <2>1, <3>1
    <2>3. ASSUME NEW t \in Executor, exec[t].pc = "run" PROVE arp_cache_ll
      BY <2>1, <2>3 DEF BootInv
    <2> QED
      BY <2>2, <2>3 DEF BootInv, BootOrder
  <1> QED
    BY <1>1, BootInit, BootInvStep, TypeInvariant, PTL DEF Spec
(***************************************************************************)
(* A thread has a command in execution only while it waits for it.         *)
(***************************************************************************)
TurnInv ==
  /\ exec["config"].pc # "idle" => console = "exec"
  /\ exec["udp"].pc # "idle" => udp.pc = "exec"

LEMMA TurnInit == Init => TurnInv
  BY DEF Init, TurnInv, NoExec, Executor

LEMMA TurnStep == TypeInv /\ TurnInv /\ [Next]_vars => TurnInv'
  <1> SUFFICES ASSUME TypeInv, TurnInv, [Next]_vars PROVE TurnInv'
    OBVIOUS
  <1>0. udp \in UdpState
    BY TypeInvIs
  <1>1. CASE ConsoleStep \/ EnterConfigMode \/ TypeLine \/ Quit
    <2>1. udp' = udp /\ (console = "exec" => console' = "exec" \/ LineDone)
      BY <1>1 DEF ConsoleStep, create_cmd, LineDone, EnterConfigMode, TypeLine, Quit, ConsoleAt, ConsoleOnly
    <2>2. LineDone => exec'["config"].pc = "idle"
      BY DEF LineDone, NoExec, TypeInv, TypeOK, Executor
    <2> QED
      BY <1>1, <2>1, <2>2, ConsoleExec DEF TurnInv
  <1>2. CASE UdpStep \/ UdpFails \/ Receive
    <2>1. console' = console
      BY <1>2 DEF UdpStep, UdpOpens, CommandDone, Reply, FindText, Clear, UdpFails, Receive, UdpOnly
    <2>2. udp.pc = "exec" => CommandDone
      BY <1>2 DEF UdpStep, UdpOpens, Reply, FindText, Clear, UdpFails, Receive, UdpAt
    <2>3. CommandDone => exec'["udp"].pc = "idle"
      BY DEF CommandDone, NoExec, TypeInv, TypeOK, Executor
    <2>4. Receive => udp'.pc = "exec"
      BY <1>0 DEF Receive, UdpState
    <2> QED
      BY <1>2, <2>1, <2>2, <2>3, <2>4, UdpExec DEF TurnInv
  <1>3. CASE \E t \in Executor : Execute(t)
    <2>1. PICK t \in Executor : Execute(t)
      BY <1>3
    <2>2. console' = console /\ udp'.pc = udp.pc
      BY <1>0, <2>1 DEF Execute, LookupFound, LookupMissed, LookupDies, RunSilent, RunDies, RunReplace, RunListing,
                  ListFindEnd, ListAppend, ListOverrun, SetIp, SetMask, ThreadsOnly, Wrote, UdpState
    <2> QED
      BY <2>1, <2>2, ExecuteOne DEF TurnInv, Executor
  <1>4. CASE BootStep \/ CallFails \/ ListenerMakesCache \/ MainStep \/ signal_handler \/ UNCHANGED vars
    BY <1>4 DEF BootStep, ParseOptions, CallSucceeds, CallFails, ListenerMakesCache, signal_handler,
                MainStep, RenderCheck, RenderPrint, RenderSleep, MainOnly, commandVars, vars, TurnInv
  <1> QED
    BY <1>1, <1>2, <1>3, <1>4 DEF Next

LEMMA Turns == Spec => []TurnInv
  BY TurnInit, TurnStep, TypeInvariant, PTL DEF Spec

(***************************************************************************)
(* AddressWhole.  While no two ip_address commands have overlapped, at     *)
(* most one is half done, and then the address is its.                     *)
(***************************************************************************)
AddressInv ==
  ~ clash =>
    /\ \A t \in Executor : exec[t].pc = "mask" =>
         address.ip = t /\ \A u \in Executor \ {t} : exec[u].pc # "mask"
    /\ (\A t \in Executor : exec[t].pc # "mask") => address.ip = address.mask

\* No other step begins or ends the setting of a mask.
LEMMA AddressStays ==
  ASSUME AddressInv, UNCHANGED <<address, clash>>,
         \A t \in Executor : exec'[t].pc = "mask" <=> exec[t].pc = "mask"
  PROVE  AddressInv'
  BY DEF AddressInv

LEMMA AddressInit == Init => AddressInv
  BY DEF Init, AddressInv, NoExec, Executor

LEMMA AddressStep == TypeInv /\ TurnInv /\ AddressInv /\ [Next]_vars => AddressInv'
  <1> SUFFICES ASSUME TypeInv, TurnInv, AddressInv, [Next]_vars PROVE AddressInv'
    OBVIOUS
  <1>0. exec \in [Executor -> Exec] /\ address \in Port
    BY DEF TypeInv, TypeOK
  <1>1. CASE \E t \in Executor : SetIp(t)
    <2>1. PICK t \in Executor : SetIp(t)
      BY <1>1
    <2>2. /\ address'.ip = t /\ clash' = (clash \/ \E u \in Executor \ {t} : exec[u].pc = "mask")
          /\ exec'[t].pc = "mask" /\ \A u \in Executor \ {t} : exec'[u] = exec[u]
      BY <1>0, <2>1 DEF SetIp, GoTo, Port, Exec
    <2> QED
      BY <2>2 DEF AddressInv
  <1>2. CASE \E t \in Executor : SetMask(t)
    <2>1. PICK t \in Executor : SetMask(t)
      BY <1>2
    <2>2. /\ address'.ip = address.ip /\ address'.mask = t /\ clash' = clash
          /\ exec[t].pc = "mask" /\ exec'[t].pc = "done"
          /\ \A u \in Executor \ {t} : exec'[u] = exec[u]
      BY <1>0, <2>1 DEF SetMask, Done, NoExec, At, Port
    <2> QED
      BY <2>2 DEF AddressInv
  <1>3. CASE \E t \in Executor : Execute(t) /\ ~ SetIp(t) /\ ~ SetMask(t)
    <2>1. PICK t \in Executor : Execute(t) /\ ~ SetIp(t) /\ ~ SetMask(t)
      BY <1>3
    <2>2. UNCHANGED <<address, clash>>
      BY <2>1 DEF Execute, LookupFound, LookupMissed, LookupDies, RunSilent, RunDies, RunReplace, RunListing,
                  ListFindEnd, ListAppend, ListOverrun, commandVars
    <2>3. exec'[t].pc = "mask" <=> exec[t].pc = "mask"
      <3>1. CASE LookupFound(t)
        BY <1>0, <3>1 DEF LookupFound, At, GoTo, Exec
      <3>7. CASE LookupMissed(t)
        BY <1>0, <3>7 DEF LookupMissed, At, Done, NoExec
      <3>6. CASE LookupDies(t) \/ RunDies(t) \/ ListOverrun(t)
        BY <3>6 DEF LookupDies, RunDies, ListOverrun, commandVars
      <3>2. CASE RunSilent(t) \/ RunReplace(t)
        BY <1>0, <3>2 DEF RunSilent, RunReplace, Running, At, Done, NoExec
      <3>3. CASE RunListing(t)
        <4>1. PICK n \in Listing : exec' = [exec EXCEPT ![t].pc = "list", ![t].left = n]
          BY <3>3 DEF RunListing
        <4> QED
          BY <1>0, <3>3, <4>1 DEF RunListing, Running, At, Exec
      <3>4. CASE ListFindEnd(t)
        BY <1>0, <3>4 DEF ListFindEnd, At, Done, NoExec, Exec
      <3>5. CASE ListAppend(t)
        BY <1>0, <3>5 DEF ListAppend, At, Exec
      <3> QED
        BY <2>1, <3>1, <3>2, <3>3, <3>4, <3>5, <3>6, <3>7 DEF Execute
    <2> QED
      BY <2>1, <2>2, <2>3, ExecuteOne, AddressStays
  <1>4. CASE ConsoleStep \/ EnterConfigMode \/ TypeLine \/ Quit
    <2>1. UNCHANGED <<address, clash>>
      BY <1>4 DEF ConsoleStep, create_cmd, LineDone, EnterConfigMode, TypeLine, Quit, ConsoleOnly
    <2>2. \A t \in Executor : exec'[t].pc = "mask" <=> exec[t].pc = "mask"
      BY <1>4, ConsoleExec DEF Executor, TurnInv
    <2> QED
      BY <2>1, <2>2, AddressStays
  <1>5. CASE UdpStep \/ UdpFails \/ Receive
    <2>1. UNCHANGED <<address, clash>>
      BY <1>5 DEF UdpStep, UdpOpens, CommandDone, Reply, FindText, Clear, UdpFails, Receive, UdpOnly
    <2>2. \A t \in Executor : exec'[t].pc = "mask" <=> exec[t].pc = "mask"
      <3>1. Receive => udp.pc # "exec"
        BY DEF Receive, UdpAt
      <3> QED
        BY <1>5, <3>1, UdpExec DEF Executor, TurnInv
    <2> QED
      BY <2>1, <2>2, AddressStays
  <1>6. CASE BootStep \/ CallFails \/ ListenerMakesCache \/ MainStep \/ signal_handler \/ UNCHANGED vars
    <2>1. UNCHANGED <<address, clash, exec>>
      BY <1>6 DEF BootStep, ParseOptions, CallSucceeds, CallFails, ListenerMakesCache, signal_handler,
                  MainStep, RenderCheck, RenderPrint, RenderSleep, MainOnly, commandVars, vars
    <2> QED
      BY <2>1, AddressStays
  <1> QED
    BY <1>1, <1>2, <1>3, <1>4, <1>5, <1>6 DEF Next

\* The mask of an interface is the one given with its address, unless two
\* commands that set them have overlapped.
THEOREM AddressesWhole == Spec => []AddressWhole
  <1>1. AddressInv => AddressWhole
    BY DEF AddressInv, AddressWhole
  <1> QED
    BY <1>1, AddressInit, AddressStep, TypeInvariant, Turns, PTL DEF Spec

(***************************************************************************)
(* ScreenOnce.  main looks at pause_rendering before each screen, so once  *)
(* the console has set it there is one print at most left to come.         *)
(***************************************************************************)
ScreenInv ==
  /\ pause_rendering = 1 <=> console \in {"line", "exec"}
  /\ console \notin {"line", "exec"} => screens = 0
  /\ screens <= 1
  /\ screens = 1 => main.pc # "print"

LEMMA ScreenInit == Init => ScreenInv
  BY DEF Init, ScreenInv

LEMMA ScreenStep == TypeInv /\ ScreenInv /\ [Next]_vars => ScreenInv'
  <1> SUFFICES ASSUME TypeInv, ScreenInv, [Next]_vars PROVE ScreenInv'
    OBVIOUS
  <1>0. /\ main \in [pc : {"options", "boot", "check", "print", "sleep"}, step : 1 .. Len(Boot)]
        /\ pause_rendering \in 0 .. 1 /\ screens \in 0 .. 2
        /\ console \in {"init", "char", "line", "exec"}
    BY DEF TypeInv, TypeOK
  <1>1. CASE BootStep \/ CallFails
    <2>1. UNCHANGED <<pause_rendering, console, screens>> /\ main'.pc # "print"
      BY <1>0, <1>1 DEF BootStep, ParseOptions, CallSucceeds, CallFails, NextCall
    <2> QED
      BY <2>1 DEF ScreenInv
  <1>2. CASE RenderCheck
    <2>1. pause_rendering # 1 /\ UNCHANGED <<pause_rendering, console, screens>>
      BY <1>2 DEF RenderCheck, MainOnly
    <2> QED
      BY <2>1, <1>0 DEF ScreenInv
  <1>3. CASE RenderPrint
    <2>1. /\ main.pc = "print" /\ main'.pc = "sleep" /\ UNCHANGED <<pause_rendering, console>>
          /\ screens' = IF pause_rendering = 1 /\ screens < 2 THEN screens + 1 ELSE screens
      BY <1>0, <1>3 DEF RenderPrint, MainOnly
    <2> QED
      BY <1>0, <2>1 DEF ScreenInv
  <1>4. CASE RenderSleep
    <2>1. main'.pc = "check" /\ UNCHANGED <<pause_rendering, console, screens>>
      BY <1>0, <1>4 DEF RenderSleep, MainOnly
    <2> QED
      BY <2>1 DEF ScreenInv
  <1>5. CASE ConsoleStep \/ EnterConfigMode \/ TypeLine \/ Quit
    <2>1. UNCHANGED main
      BY <1>5 DEF ConsoleStep, create_cmd, LineDone, EnterConfigMode, TypeLine, Quit, ConsoleOnly
    <2>2. CASE EnterConfigMode
      BY <2>1, <2>2 DEF EnterConfigMode, ScreenInv, ConsoleAt
    <2>3. CASE Quit
      BY <2>1, <2>3 DEF Quit, ScreenInv
    <2>4. CASE ConsoleStep \/ TypeLine
      BY <2>1, <2>4 DEF ConsoleStep, create_cmd, LineDone, TypeLine, ScreenInv, ConsoleAt
    <2> QED
      BY <1>5, <2>2, <2>3, <2>4
  <1>6. CASE UdpStep \/ UdpFails \/ Receive
    BY <1>6 DEF UdpStep, UdpOpens, CommandDone, Reply, FindText, Clear, UdpFails, Receive, UdpOnly, ScreenInv
  <1>7. CASE \E t \in Executor : Execute(t)
    <2>1. UNCHANGED <<main, pause_rendering, console, screens>>
      BY <1>7 DEF Execute, LookupFound, LookupMissed, LookupDies, RunSilent, RunDies, RunReplace, RunListing,
                  ListFindEnd, ListAppend, ListOverrun, SetIp, SetMask, ThreadsOnly
    <2> QED
      BY <2>1 DEF ScreenInv
  <1>8. CASE ListenerMakesCache \/ signal_handler \/ UNCHANGED vars
    BY <1>8 DEF ListenerMakesCache, signal_handler, vars, ScreenInv
  <1> QED
    BY <1>1, <1>2, <1>3, <1>4, <1>5, <1>6, <1>7, <1>8 DEF Next, MainStep

\* Config mode is disturbed by one screen at most.
THEOREM ScreensOnce == Spec => []ScreenOnce
  <1>1. ScreenInv => ScreenOnce
    BY DEF ScreenInv, ScreenOnce
  <1> QED
    BY <1>1, ScreenInit, ScreenStep, TypeInvariant, PTL DEF Spec
(***************************************************************************)
(* ReplyOwn.  The UDP thread leaves no text of its own behind when it waits *)
(* for a datagram; what it writes then carries the tag of the datagram it  *)
(* has; and while the console does not write, it appends where it left off. *)
(***************************************************************************)
Own(r) == { i \in 1 .. strlen(r) : r[i].by = "udp" }

ReplyInv ==
  /\ udp.pc \in {"socket", "bind", "receive"} => OwnCells = {} /\ udp.wrote = 0
  /\ udp.pc \in {"exec", "reply"} => \A i \in OwnCells : response[i].tag = udp.tag
  /\ udp.pc \in {"exec", "reply"} /\ ~ disturbed => Cardinality(OwnCells) = udp.wrote
  /\ udp.pc = "zero" /\ udp.end = 0 => OwnCells = {}
  /\ exec["udp"].pc = "append" /\ ~ disturbed => exec["udp"].end = strlen(response)

LEMMA OwnCounted ==
  ASSUME NEW r, Cells(r)
  PROVE  IsFiniteSet(Own(r)) /\ Cardinality(Own(r)) \in Nat
  <1>1. Own(r) \subseteq 1 .. strlen(r) /\ strlen(r) \in Nat
    BY TextEnds, ProcessAssumption DEF Own
  <1>2. IsFiniteSet(1 .. strlen(r))
    BY <1>1, FS_Interval
  <1> QED
    BY <1>1, <1>2, FS_Subset, FS_CardinalityType

LEMMA OwnReplaced ==
  ASSUME Cells(response), NEW line \in Line
  PROVE  /\ \A i \in Own(strcpy(line)) : strcpy(line)[i] = line
         /\ line.by = "udp" => Cardinality(Own(strcpy(line))) = 1
         /\ line.by # "udp" => Own(strcpy(line)) = {}
  <1>1. strlen(strcpy(line)) = 1 /\ strcpy(line)[1] = line
    BY Replaces, ProcessAssumption
  <1>2. Own(strcpy(line)) = IF line.by = "udp" THEN {1} ELSE {}
    BY <1>1 DEF Own
  <1> QED
    BY <1>1, <1>2, FS_Singleton

LEMMA OwnAppended ==
  ASSUME Cells(response), NEW pos \in Nat, pos + Width < Room, NEW line \in Line
  PROVE  LET r == strcat(pos, line)
         IN  /\ \A i \in Own(r) : r[i] = line \/ (i \in Own(response) /\ r[i] = response[i])
             /\ line.by = "udp" /\ pos = strlen(response) =>
                  Cardinality(Own(r)) = Cardinality(Own(response)) + Width
  <1> DEFINE r == strcat(pos, line)
             e == strlen(response)
  <1>0. Room \in Nat \ {0, 1} /\ Width \in Nat \ {0}
    BY ProcessAssumption
  <1>1. /\ Cells(r)
        /\ \A i \in 1 .. Room : r[i] = IF i \in pos + 1 .. pos + Width THEN line
                                      ELSE IF i = pos + Width + 1 THEN Zero ELSE response[i]
        /\ pos <= e => strlen(r) = pos + Width
        /\ pos > e => strlen(r) = e
    BY <1>0, CopiedKeeps DEF strcat
  <1>2. e \in 0 .. Room - 1
    BY TextEnds
  <1> HIDE DEF r, e
  <1>3. ASSUME NEW i \in Own(r)
        PROVE  r[i] = line \/ (i \in Own(response) /\ r[i] = response[i])
    <2>1. i \in 1 .. strlen(r) /\ r[i].by = "udp"
      BY DEF Own
    <2>2. CASE pos <= e
      <3>1. i \in 1 .. pos + Width /\ i \in 1 .. Room
        BY <1>0, <1>1, <2>1, <2>2
      <3>2. CASE i > pos
        BY <1>0, <1>1, <3>1, <3>2
      <3>3. CASE i <= pos
        <4>1. i \in 1 .. e /\ r[i] = response[i]
          BY <1>0, <1>1, <1>2, <2>2, <3>1, <3>3
        <4> QED
          BY <2>1, <4>1 DEF Own, e
      <3> QED
        BY <3>1, <3>2, <3>3
    <2>3. CASE pos > e
      <3>1. i \in 1 .. e /\ i \in 1 .. Room
        BY <1>0, <1>1, <1>2, <2>1, <2>3
      <3>2. r[i] = response[i]
        BY <1>0, <1>1, <1>2, <2>3, <3>1
      <3> QED
        BY <2>1, <3>1, <3>2 DEF Own, e
    <2> QED
      BY <1>2, <2>2, <2>3
  <1>4. ASSUME line.by = "udp", pos = e
        PROVE  Cardinality(Own(r)) = Cardinality(Own(response)) + Width
    <2> DEFINE more == pos + 1 .. pos + Width
    <2>1. strlen(r) = pos + Width
      BY <1>1, <1>2, <1>4
    <2>2. Own(r) = Own(response) \cup more
      <3>1. ASSUME NEW i \in 1 .. pos + Width
            PROVE  i \in Own(r) <=> i \in Own(response) \cup more
        <4>1. CASE i > pos
          <5>1. i \in more /\ r[i] = line
            BY <1>0, <1>1, <4>1
          <5> QED
            BY <1>4, <2>1, <5>1 DEF Own
        <4>2. CASE i <= pos
          <5>1. i \in 1 .. e /\ i \notin more /\ r[i] = response[i]
            BY <1>0, <1>1, <1>4, <4>2
          <5> QED
            BY <2>1, <5>1 DEF Own, e
        <4> QED
          BY <4>1, <4>2
      <3>2. Own(r) \subseteq 1 .. pos + Width
        BY <2>1 DEF Own
      <3>3. Own(response) \cup more \subseteq 1 .. pos + Width
        <4>1. Own(response) \subseteq 1 .. pos
          BY <1>4 DEF Own, e
        <4> QED
          BY <1>0, <4>1
      <3> QED
        BY <3>1, <3>2, <3>3
    <2>3. Own(response) \cap more = {}
      <3>1. Own(response) \subseteq 1 .. pos
        BY <1>4 DEF Own, e
      <3> QED
        BY <3>1
    <2>4. IsFiniteSet(more) /\ Cardinality(more) = Width
      BY <1>0, FS_Interval
    <2>5. IsFiniteSet(Own(response)) /\ Cardinality(Own(response)) \in Nat
      BY OwnCounted
    <2>6. Cardinality(Own(response) \cap more) = 0
      BY <2>3, FS_EmptySet
    <2> HIDE DEF more
    <2>7. Cardinality(Own(response) \cup more)
            = Cardinality(Own(response)) + Cardinality(more) - Cardinality(Own(response) \cap more)
      BY <2>4, <2>5, FS_Union
    <2> QED
      BY <1>0, <2>2, <2>4, <2>5, <2>6, <2>7
  <1> QED
    BY <1>3, <1>4 DEF r, e

LEMMA ReplyInit == Init => ReplyInv
  <1> SUFFICES ASSUME Init PROVE ReplyInv
    OBVIOUS
  <1>1. Cells(response)
    BY TypeInit, TypeInvIs
  <1>2. OwnCells = {}
    <2>1. \A i \in 1 .. strlen(response) : response[i] = Zero
      BY <1>1, TextEnds, ProcessAssumption DEF Init
    <2> QED
      BY <2>1 DEF OwnCells, Zero
  <1> QED
    BY <1>2 DEF Init, ReplyInv, NoExec, Executor

\* A step that leaves response and the UDP thread's bookkeeping alone.
LEMMA ReplyStays ==
  ASSUME ReplyInv, UNCHANGED <<udp, response, disturbed>>,
         exec'["udp"].pc = "append" /\ ~ disturbed =>
           \/ exec["udp"].pc = "append" /\ exec'["udp"].end = exec["udp"].end
           \/ exec'["udp"].end = strlen(response)
  PROVE  ReplyInv'
  <1>1. OwnCells' = OwnCells
    BY DEF OwnCells
  <1> QED
    BY <1>1 DEF ReplyInv

\* The console writes into response.
LEMMA ReplyMeddled ==
  ASSUME ReplyInv, TurnInv, udp' = udp, exec'["udp"] = exec["udp"],
         disturbed' = (disturbed \/ udp.pc \in {"exec", "reply"}),
         \A i \in OwnCells' : i \in OwnCells /\ response'[i] = response[i]
  PROVE  ReplyInv'
  <1>1. OwnCells = {} => OwnCells' = {}
    OBVIOUS
  <1>2. \A i \in OwnCells' : response'[i].tag = response[i].tag /\ i \in OwnCells
    OBVIOUS
  <1>3. udp.pc \in {"exec", "reply"} => disturbed'
    OBVIOUS
  <1>4. exec["udp"].pc = "append" => disturbed'
    BY <1>3 DEF TurnInv
  <1> HIDE DEF OwnCells
  <1> QED
    BY <1>1, <1>2, <1>3, <1>4 DEF ReplyInv

LEMMA ReplyUdp ==
  ASSUME TypeInv, TurnInv, ReplyInv, UdpStep \/ UdpFails \/ Receive
  PROVE  ReplyInv'
  <1> USE DEF UdpAt, UdpGo
  <1>0. /\ exec \in [Executor -> Exec] /\ udp \in UdpState /\ Cells(response)
        /\ \A pc \in {"socket", "bind", "receive", "reply", "clear", "ended"} :
             [udp EXCEPT !.pc = pc].wrote = udp.wrote /\ [udp EXCEPT !.pc = pc].tag = udp.tag
    BY TypeInvIs DEF ExecTyped, UdpState
  <1>1. CASE UdpOpens \/ UdpFails \/ Reply
    <2>1. /\ udp'.wrote = udp.wrote /\ udp'.tag = udp.tag
          /\ \/ udp.pc \in {"socket", "bind"} /\ udp'.pc \in {"bind", "receive"}
             \/ udp'.pc = "ended"
             \/ udp.pc = "reply" /\ udp'.pc = "clear"
          /\ udp.pc # "exec"
      BY <1>0, <1>1 DEF UdpOpens, UdpFails, Reply, UdpState
    <2>2. UNCHANGED <<exec, response, disturbed>> /\ OwnCells' = OwnCells
      BY <1>1 DEF UdpOpens, UdpFails, Reply, OwnCells
    <2>3. exec["udp"].pc # "append"
      BY <2>1 DEF TurnInv
    <2> HIDE DEF OwnCells
    <2> QED
      BY <2>1, <2>2, <2>3 DEF ReplyInv
  <1>2. CASE CommandDone
    <2>1. /\ udp'.pc = "reply" /\ udp'.tag = udp.tag /\ udp.pc = "exec" /\ disturbed' = disturbed
          /\ exec'["udp"].pc = "idle"
      BY <1>0, <1>2 DEF CommandDone, UdpState, NoExec, Executor
    <2>2. CASE exec["udp"].status = 0
      <3> DEFINE line == Written("udp")
      <3>1. line \in Line /\ line.by = "udp" /\ line.tag = udp.tag
        BY <1>0, Writes DEF Executor
      <3>2. response' = strcpy(line) /\ udp'.wrote = 1
        BY <1>0, <1>2, <2>2 DEF CommandDone, UdpState
      <3>3. OwnCells' = Own(strcpy(line))
        BY <3>2 DEF OwnCells, Own
      <3> HIDE DEF line
      <3>4. (\A i \in OwnCells' : response'[i].tag = udp'.tag) /\ Cardinality(OwnCells') = 1
        BY <1>0, <2>1, <3>1, <3>2, <3>3, OwnReplaced
      <3> QED
        BY <2>1, <3>2, <3>4 DEF ReplyInv
    <2>3. CASE exec["udp"].status # 0
      <3>1. response' = response /\ udp'.wrote = udp.wrote /\ OwnCells' = OwnCells
        BY <1>0, <1>2, <2>3 DEF CommandDone, UdpState, OwnCells
      <3> QED
        BY <2>1, <3>1 DEF ReplyInv
    <2> QED
      BY <2>2, <2>3
  <1>5. CASE FindText
    <2>1. udp'.pc = "zero" /\ udp'.end = strlen(response) /\ udp.pc = "clear"
      BY <1>0, <1>5 DEF FindText, UdpState
    <2>2. UNCHANGED <<exec, response, disturbed>> /\ OwnCells' = OwnCells
      BY <1>5 DEF FindText, OwnCells
    <2>3. strlen(response) = 0 => OwnCells = {}
      BY DEF OwnCells
    <2>4. exec["udp"].pc # "append"
      BY <2>1 DEF TurnInv
    <2> HIDE DEF OwnCells
    <2> QED
      BY <2>1, <2>2, <2>3, <2>4 DEF ReplyInv
  <1>3. CASE Clear
    <2>1. udp'.pc = "receive" /\ udp'.wrote = 0 /\ exec' = exec /\ udp.pc = "zero"
      BY <1>0, <1>3 DEF Clear, UdpState
    <2>2. OwnCells' = {}
      <3>1. CASE udp.end = 0
        <4>1. response' = response
          BY <1>0, <1>3, <3>1 DEF Clear, Cells
        <4>2. OwnCells' = OwnCells
          BY <4>1 DEF OwnCells
        <4> QED
          BY <2>1, <3>1, <4>2 DEF ReplyInv
      <3>2. CASE udp.end # 0
        <4>1. Cells(response')
          BY TypeInvIs, UdpTyped
        <4>2. response'[1] = Zero
          BY <1>0, <1>3, <3>2, ProcessAssumption DEF Clear, UdpState
        <4>3. strlen(response') = 0
          BY <4>1, <4>2, EndIs, ProcessAssumption
        <4> QED
          BY <4>3 DEF OwnCells
      <3> QED
        BY <3>1, <3>2
    <2> QED
      BY <2>1, <2>2 DEF ReplyInv, TurnInv
  <1>4. CASE Receive
    <2>1. udp.pc = "receive" /\ udp'.pc = "exec" /\ udp'.wrote = udp.wrote /\ response' = response
      BY <1>0, <1>4 DEF Receive, UdpState
    <2>2. OwnCells' = OwnCells
      BY <2>1 DEF OwnCells
    <2>3. OwnCells = {} /\ udp.wrote = 0
      BY <2>1 DEF ReplyInv
    <2>4. exec'["udp"].pc # "append"
      BY <1>4, <2>1, UdpExec DEF TurnInv
    <2> QED
      BY <2>1, <2>2, <2>3, <2>4, FS_EmptySet DEF ReplyInv
  <1> QED
    BY <1>1, <1>2, <1>3, <1>4, <1>5 DEF UdpStep

LEMMA ReplyExecute ==
  ASSUME TypeInv, TurnInv, ReplyInv, NEW t \in Executor, Execute(t)
  PROVE  ReplyInv'
  <1>0. /\ exec \in [Executor -> Exec] /\ udp \in UdpState
        /\ Cells(response) /\ Width \in Nat \ {0}
    BY ProcessAssumption, TypeInvIs DEF ExecTyped
  <1>1. exec[t].pc # "idle" /\ \A u \in Executor \ {t} : exec'[u] = exec[u]
    BY ExecuteOne
  <1>2. Written(t) \in Line /\ Written(t).by = t /\ (t = "udp" => Written(t).tag = udp.tag)
    BY <1>0, Writes
  <1>3. CASE \/ LookupFound(t) \/ LookupMissed(t) \/ LookupDies(t) \/ RunDies(t) \/ ListOverrun(t)
             \/ RunSilent(t) \/ RunListing(t) \/ ListFindEnd(t)
    <2>1. UNCHANGED <<udp, response, disturbed>>
      BY <1>3 DEF LookupFound, LookupMissed, LookupDies, RunDies, ListOverrun, RunSilent, RunListing, ListFindEnd, commandVars
    <2>2. exec'["udp"].pc = "append" =>
            \/ exec["udp"].pc = "append" /\ exec'["udp"].end = exec["udp"].end
            \/ exec'["udp"].end = strlen(response)
      <3>1. CASE t # "udp"
        BY <1>1, <3>1 DEF Executor
      <3>2. CASE LookupFound(t) \/ LookupMissed(t) \/ RunSilent(t)
        <4>1. exec'[t].pc \in {"run", "done"}
          BY <3>2, GoneTo, IsDone DEF LookupFound, LookupMissed, RunSilent
        <4> QED
          BY <1>1, <4>1 DEF Executor
      <3>3. CASE LookupDies(t) \/ RunDies(t) \/ ListOverrun(t)
        BY <3>3 DEF LookupDies, RunDies, ListOverrun, commandVars
      <3>4. CASE RunListing(t)
        <4>1. PICK n \in Listing : exec' = [exec EXCEPT ![t].pc = "list", ![t].left = n]
          BY <3>4 DEF RunListing
        <4> QED
          BY <1>0, <3>1, <4>1 DEF Exec
      <3>5. CASE ListFindEnd(t) /\ t = "udp"
        <4>1. CASE exec["udp"].left = 0
          <5>1. Done(t, 1)
            BY <3>5, <4>1 DEF ListFindEnd
          <5>2. exec'[t].pc = "done"
            BY <5>1, IsDone
          <5> QED
            BY <3>5, <5>2
        <4>2. CASE exec["udp"].left # 0
          <5>1. exec' = [exec EXCEPT !["udp"].pc = "append", !["udp"].end = strlen(response)]
            BY <3>5, <4>2 DEF ListFindEnd
          <5> QED
            BY <1>0, <3>5, <5>1 DEF Exec
        <4> QED
          BY <4>1, <4>2
      <3> QED
        BY <1>3, <3>1, <3>2, <3>3, <3>4, <3>5
    <2> QED
      BY <2>1, <2>2, ReplyStays
  <1>4. CASE RunReplace(t)
    <2>1. response' = strcpy(Written(t)) /\ OwnCells' = Own(strcpy(Written(t)))
      BY <1>4 DEF RunReplace, OwnCells, Own
    <2>2. CASE t = "udp"
      <3>1. /\ udp'.pc = udp.pc /\ udp'.tag = udp.tag /\ udp'.wrote = 1 /\ disturbed' = disturbed
            /\ exec'["udp"].pc = "done"
        <4>1. exec'[t].pc = "done"
          BY <1>4, GoneTo, IsDone DEF RunReplace
        <4> QED
          BY <1>0, <1>4, <2>2, <4>1, MeddlesUdp DEF RunReplace, Wrote, UdpState
      <3>2. udp.pc = "exec"
        BY <1>1, <2>2 DEF TurnInv
      <3>3. (\A i \in OwnCells' : response'[i].tag = udp'.tag) /\ Cardinality(OwnCells') = 1
        BY <1>0, <1>2, <2>1, <2>2, <3>1, OwnReplaced
      <3> QED
        BY <3>1, <3>2, <3>3 DEF ReplyInv
    <2>3. CASE t = "config"
      <3>1. /\ udp' = udp /\ disturbed' = (disturbed \/ udp.pc \in {"exec", "reply"})
            /\ exec'["udp"] = exec["udp"]
        BY <1>1, <1>4, <2>3 DEF RunReplace, Wrote, Meddles, Executor
      <3>2. OwnCells' = {}
        BY <1>0, <1>2, <2>1, <2>3, OwnReplaced
      <3> QED
        BY <3>1, <3>2, ReplyMeddled
    <2> QED
      BY <2>2, <2>3 DEF Executor
  <1>5. CASE ListAppend(t)
    <2> DEFINE pos == exec[t].end
    <2>1. pos \in Nat /\ pos + Width < Room /\ exec[t].pc = "append"
      BY <1>0, <1>5 DEF ListAppend, At, Exec
    <2>2. response' = strcat(pos, Written(t)) /\ OwnCells' = Own(strcat(pos, Written(t)))
      BY <1>5 DEF ListAppend, OwnCells, Own
    <2> HIDE DEF pos
    <2>3. /\ \A i \in OwnCells' : response'[i] = Written(t) \/ (i \in OwnCells /\ response'[i] = response[i])
          /\ Written(t).by = "udp" /\ pos = strlen(response) =>
               Cardinality(OwnCells') = Cardinality(OwnCells) + Width
      <3>1. OwnCells = Own(response)
        BY DEF OwnCells, Own
      <3> QED
        BY <1>0, <1>2, <2>1, <2>2, <3>1, OwnAppended
    <2>4. CASE t = "udp"
      <3>1. /\ udp'.pc = udp.pc /\ udp'.tag = udp.tag /\ udp'.wrote = udp.wrote + Width /\ disturbed' = disturbed
            /\ exec'["udp"].pc = "list"
        BY <1>0, <1>5, <2>4 DEF ListAppend, Wrote, Meddles, UdpState, Exec
      <3>2. udp.pc = "exec"
        BY <1>1, <2>4 DEF TurnInv
      <3>3. \A i \in OwnCells' : response'[i].tag = udp'.tag
        BY <1>2, <2>3, <2>4, <3>1, <3>2 DEF ReplyInv
      <3>4. ~ disturbed => Cardinality(OwnCells') = udp'.wrote
        BY <1>2, <2>1, <2>3, <2>4, <3>1, <3>2 DEF ReplyInv, pos
      <3> QED
        BY <3>1, <3>2, <3>3, <3>4 DEF ReplyInv
    <2>5. CASE t = "config"
      <3>1. /\ udp' = udp /\ disturbed' = (disturbed \/ udp.pc \in {"exec", "reply"})
            /\ exec'["udp"] = exec["udp"]
        BY <1>1, <1>5, <2>5 DEF ListAppend, Wrote, Meddles, Executor
      <3>2. \A i \in OwnCells' : response'[i].by = "udp"
        BY DEF OwnCells
      <3>3. \A i \in OwnCells' : i \in OwnCells /\ response'[i] = response[i]
        BY <1>2, <2>3, <2>5, <3>2
      <3> QED
        BY <3>1, <3>3, ReplyMeddled
    <2> QED
      BY <2>4, <2>5 DEF Executor
  <1>6. CASE SetIp(t) \/ SetMask(t)
    <2>1. UNCHANGED <<udp, response, disturbed>>
      BY <1>6 DEF SetIp, SetMask
    <2>2. exec'[t].pc \in {"mask", "done"}
      BY <1>6, GoneTo, IsDone DEF SetIp, SetMask
    <2>3. exec'["udp"].pc = "append" => exec'["udp"] = exec["udp"]
      BY <1>1, <2>2 DEF Executor
    <2> QED
      BY <2>1, <2>3, ReplyStays
  <1> QED
    BY <1>3, <1>4, <1>5, <1>6 DEF Execute

LEMMA ReplyStep == TypeInv /\ TurnInv /\ ReplyInv /\ [Next]_vars => ReplyInv'
  <1> SUFFICES ASSUME TypeInv, TurnInv, ReplyInv, [Next]_vars PROVE ReplyInv'
    OBVIOUS
  <1>1. CASE BootStep \/ CallFails \/ ListenerMakesCache \/ MainStep \/ signal_handler \/ UNCHANGED vars
    <2>1. UNCHANGED <<udp, exec, response, disturbed>>
      BY <1>1 DEF BootStep, ParseOptions, CallSucceeds, CallFails, ListenerMakesCache, signal_handler,
                  MainStep, RenderCheck, RenderPrint, RenderSleep, MainOnly, commandVars, vars
    <2> QED
      BY <2>1, ReplyStays
  <1>2. CASE ConsoleStep \/ EnterConfigMode \/ TypeLine \/ Quit
    <2>1. UNCHANGED <<udp, response, disturbed>>
      BY <1>2 DEF ConsoleStep, create_cmd, LineDone, EnterConfigMode, TypeLine, Quit, ConsoleOnly
    <2> QED
      BY <1>2, <2>1, ConsoleExec, ReplyStays
  <1>3. CASE UdpStep \/ UdpFails \/ Receive
    BY <1>3, ReplyUdp
  <1>4. CASE \E t \in Executor : Execute(t)
    BY <1>4, ReplyExecute
  <1> QED
    BY <1>1, <1>2, <1>3, <1>4 DEF Next

(***************************************************************************)
(* As long as the console has never written into response, nothing lies    *)
(* behind the text, so strclr leaves zeros only, and all the cells are of  *)
(* the datagram that is answered.                                          *)
(***************************************************************************)
Unwritten ==
  /\ ~ disturbed
  /\ \A i \in 1 .. Room : i > strlen(response) => response[i] = Zero
  /\ \A i \in 1 .. Room : response[i] \in {Zero, Written("udp")}
  /\ udp.pc \in {"socket", "bind", "receive"} => strlen(response) = 0
  /\ udp.pc = "zero" => udp.end = strlen(response)
  /\ exec["udp"].pc \in {"lookup", "run"} => strlen(response) = 0
  /\ exec["udp"].pc = "done" /\ exec["udp"].status = 0 => strlen(response) <= 1

CleanInv == ~ typed => Unwritten

LEMMA CleanInit == Init => CleanInv
  <1> SUFFICES ASSUME Init PROVE Unwritten
    BY DEF CleanInv
  <1>1. Cells(response)
    BY TypeInit, TypeInvIs
  <1>2. \A i \in 1 .. Room : response[i] = Zero
    BY DEF Init
  <1>3. strlen(response) = 0
    BY <1>1, <1>2, EndIs, ProcessAssumption
  <1> QED
    BY <1>2, <1>3 DEF Init, Unwritten, NoExec, Executor

\* A step that leaves the UDP thread and response alone, and takes its
\* command no further than response allows.
LEMMA CleanStays ==
  ASSUME CleanInv, UNCHANGED <<udp, response, typed, disturbed>>,
         ~ typed =>
           /\ exec'["udp"].pc \in {"lookup", "run"} => strlen(response) = 0
           /\ exec'["udp"].pc = "done" /\ exec'["udp"].status = 0 => strlen(response) <= 1
  PROVE  CleanInv'
  <1> SUFFICES ASSUME ~ typed', Unwritten PROVE Unwritten'
    BY DEF CleanInv
  <1>1. Written("udp")' = Written("udp") /\ strlen(response)' = strlen(response)
    BY DEF Written
  <1> QED
    BY <1>1 DEF Unwritten

\* What the text is once a line lies over it, or none.
LEMMA CleanCells ==
  ASSUME CleanInv, TypeInv, TypeInv', ~ typed', ~ typed, ~ disturbed', udp'.tag = udp.tag,
         NEW n \in Nat, NEW len \in Nat, n <= strlen(response), strlen(response) <= n + len, n + len < Room,
         \A i \in 1 .. Room : response'[i] = IF i \in n + 1 .. n + len THEN Written("udp")
                                            ELSE IF i = n + len + 1 THEN Zero ELSE response[i]
  PROVE  /\ strlen(response') = n + len
         /\ \A i \in 1 .. Room : i > strlen(response') => response'[i] = Zero
         /\ \A i \in 1 .. Room : response'[i] \in {Zero, Written("udp")'}
  <1>0. Room \in Nat \ {0, 1} /\ Cells(response) /\ Cells(response') /\ udp \in UdpState
    BY ProcessAssumption, TypeInvIs
  <1>1. /\ \A i \in 1 .. Room : i > strlen(response) => response[i] = Zero
        /\ \A i \in 1 .. Room : response[i] \in {Zero, Written("udp")}
    BY DEF CleanInv, Unwritten
  <1>2. Written("udp")' = Written("udp") /\ Written("udp") # Zero
    <2>1. Written("udp") # Zero
      BY <1>0, Writes, Blank DEF Executor
    <2> QED
      BY <2>1 DEF Written
  <1> DEFINE w == Written("udp")
             e == strlen(response)
  <1>3. e \in 0 .. Room - 1 /\ \A i \in 1 .. e : response[i] # Zero
    BY <1>0, TextEnds
  <1> HIDE DEF w, e
  <1>4. \A i \in 1 .. n + len : response'[i] # Zero
    <2> SUFFICES ASSUME NEW i \in 1 .. n + len PROVE response'[i] # Zero
      OBVIOUS
    <2>1. CASE i > n
      BY <1>0, <1>2, <2>1
    <2>2. CASE i <= n
      <3>1. i \in 1 .. e /\ i \in 1 .. Room
        BY <1>0, <1>3, <2>2 DEF e
      <3> QED
        BY <1>3, <2>2, <3>1
    <2> QED
      BY <2>1, <2>2
  <1>5. response'[n + len + 1] = Zero
    BY <1>0
  <1>6. strlen(response') = n + len
    BY <1>0, <1>4, <1>5, EndIs
  <1>7. ASSUME NEW i \in 1 .. Room, i > n + len PROVE response'[i] = Zero
    <2>1. i > e
      BY <1>0, <1>3, <1>7 DEF e
    <2> QED
      BY <1>1, <1>7, <2>1 DEF e
  <1> QED
    BY <1>1, <1>2, <1>6, <1>7

LEMMA CleanUdp ==
  ASSUME TypeInv, TurnInv, CleanInv, UdpStep \/ UdpFails \/ Receive
  PROVE  CleanInv'
  <1> SUFFICES ASSUME ~ typed' PROVE Unwritten'
    BY DEF CleanInv
  <1> USE DEF UdpAt, UdpGo
  <1>0. udp \in UdpState /\ Cells(response) /\ Room \in Nat \ {0, 1}
    BY TypeInvIs, ProcessAssumption
  <1>9. TypeInv'
    BY UdpTyped
  <1>8. ~ typed /\ Unwritten
    <2>1. typed' = typed
      BY DEF UdpStep, UdpOpens, CommandDone, Reply, FindText, Clear, UdpFails, Receive, UdpOnly
    <2> QED
      BY <2>1 DEF CleanInv
  <1>1. CASE UdpOpens \/ UdpFails \/ Reply \/ FindText
    <2>1. /\ udp'.tag = udp.tag
          /\ \/ udp.pc \in {"socket", "bind"} /\ udp'.pc \in {"bind", "receive"}
             \/ udp'.pc \in {"ended", "clear"}
             \/ udp'.pc = "zero" /\ udp'.end = strlen(response)
          /\ udp.pc # "exec"
      BY <1>0, <1>1 DEF UdpOpens, UdpFails, Reply, FindText, UdpState
    <2>2. UNCHANGED <<exec, response, disturbed>>
      BY <1>1 DEF UdpOpens, UdpFails, Reply, FindText
    <2>3. Written("udp")' = Written("udp") /\ strlen(response)' = strlen(response)
      BY <2>1, <2>2 DEF Written
    <2> QED
      BY <1>8, <2>1, <2>2, <2>3 DEF Unwritten
  <1>2. CASE CommandDone
    <2>1. /\ udp'.pc = "reply" /\ udp'.tag = udp.tag /\ disturbed' = disturbed
          /\ exec["udp"].pc = "done" /\ exec'["udp"].pc = "idle"
      BY <1>0, <1>2, TypeInvIs DEF CommandDone, UdpState, NoExec, Executor, ExecTyped
    <2>2. CASE exec["udp"].status = 0
      <3>1. response' = strcpy(Written("udp")) /\ strlen(response) <= 1
        BY <1>2, <1>8, <2>1, <2>2 DEF CommandDone, Unwritten
      <3>2. Written("udp") \in Line /\ strlen(response) \in Nat
        BY <1>0, Writes, TextEnds DEF Executor
      <3>3. \A i \in 1 .. Room : response'[i] = IF i \in 0 + 1 .. 0 + 1 THEN Written("udp")
                                               ELSE IF i = 0 + 1 + 1 THEN Zero ELSE response[i]
        BY <1>0, <3>1, <3>2, Replaces
      <3>4. 0 \in Nat /\ 1 \in Nat /\ 0 <= strlen(response) /\ strlen(response) <= 0 + 1 /\ 0 + 1 < Room
        BY <1>0, <3>1, <3>2
      <3>5. ~ disturbed'
        BY <1>8, <2>1 DEF Unwritten
      <3>6. /\ \A i \in 1 .. Room : i > strlen(response') => response'[i] = Zero
            /\ \A i \in 1 .. Room : response'[i] \in {Zero, Written("udp")'}
        BY <1>8, <1>9, <2>1, <3>3, <3>4, <3>5, CleanCells
      <3> QED
        BY <2>1, <3>5, <3>6 DEF Unwritten
    <2>3. CASE exec["udp"].status # 0
      <3>1. response' = response
        BY <1>2, <2>3 DEF CommandDone
      <3>2. Written("udp")' = Written("udp") /\ strlen(response)' = strlen(response)
        BY <2>1, <3>1 DEF Written
      <3> QED
        BY <1>8, <2>1, <3>1, <3>2 DEF Unwritten
    <2> QED
      BY <2>2, <2>3
  <1>3. CASE Clear
    <2>1. udp'.pc = "receive" /\ UNCHANGED <<exec, disturbed>> /\ exec["udp"].pc = "idle"
      BY <1>0, <1>3, TypeInvIs DEF Clear, UdpState, TurnInv
    <2>2. \A i \in 1 .. Room : response'[i] = Zero
      BY <1>0, <1>3, <1>8 DEF Clear, Unwritten, UdpState
    <2>3. strlen(response') = 0
      <3>1. Cells(response')
        BY <1>9, TypeInvIs
      <3> QED
        BY <1>0, <2>2, <3>1, EndIs
    <2> QED
      BY <1>8, <2>1, <2>2, <2>3 DEF Unwritten
  <1>4. CASE Receive
    <2>1. udp.pc = "receive" /\ udp'.pc = "exec" /\ response' = response /\ disturbed' = FALSE
      BY <1>0, <1>4 DEF Receive, UdpState
    <2>2. strlen(response) = 0 /\ strlen(response') = 0
      BY <1>8, <2>1 DEF Unwritten
    <2>3. \A i \in 1 .. Room : response'[i] = Zero
      BY <1>0, <1>8, <2>1, <2>2 DEF Unwritten
    <2> QED
      BY <2>1, <2>2, <2>3 DEF Unwritten
  <1> QED
    BY <1>1, <1>2, <1>3, <1>4 DEF UdpStep

\* How far a command can be when the thread has taken it a step further.
LEMMA TakenFurther ==
  ASSUME TypeInv, NEW t \in Executor, Execute(t), ~ RunReplace(t), ~ ListAppend(t)
  PROVE  /\ UNCHANGED <<udp, response, typed, disturbed>>
         /\ exec'[t].pc \in {"lookup", "run"} =>
              exec[t].pc \in {"lookup", "run"} \/ exec'[t] = exec[t]
         /\ exec'[t].pc = "done" /\ exec'[t].status = 0 =>
              exec[t].pc = "lookup" \/ exec'[t] = exec[t]
  <1>0. exec \in [Executor -> Exec] /\ exec[t] \in Exec
    BY DEF TypeInv, TypeOK
  <1>1. UNCHANGED <<udp, response, typed, disturbed>>
    BY DEF Execute, LookupFound, LookupMissed, LookupDies, RunSilent, RunDies, RunListing,
           ListFindEnd, ListOverrun, SetIp, SetMask, commandVars
  <1>2. CASE LookupFound(t) \/ LookupMissed(t)
    BY <1>0, <1>1, <1>2, GoneTo, IsDone DEF LookupFound, LookupMissed, At
  <1>3. CASE LookupDies(t) \/ RunDies(t) \/ ListOverrun(t)
    BY <1>1, <1>3 DEF LookupDies, RunDies, ListOverrun, commandVars
  <1>4. CASE RunListing(t)
    <2>1. PICK n \in Listing : exec' = [exec EXCEPT ![t].pc = "list", ![t].left = n]
      BY <1>4 DEF RunListing
    <2>2. exec'[t].pc = "list"
      BY <1>0, <2>1 DEF Exec
    <2> QED
      BY <1>1, <2>2
  <1>5. CASE RunSilent(t) \/ SetMask(t) \/ (ListFindEnd(t) /\ exec[t].left = 0)
    <2>1. Done(t, 1)
      BY <1>5 DEF RunSilent, SetMask, ListFindEnd
    <2>2. exec'[t].pc = "done" /\ exec'[t].status = 1
      BY <1>0, <2>1 DEF Done, NoExec
    <2> QED
      BY <1>1, <2>2
  <1>6. CASE ListFindEnd(t) /\ exec[t].left # 0
    <2>1. exec' = [exec EXCEPT ![t].pc = "append", ![t].end = strlen(response)]
      BY <1>6 DEF ListFindEnd
    <2>2. exec'[t].pc = "append"
      BY <1>0, <2>1 DEF Exec
    <2> QED
      BY <1>1, <2>2
  <1>7. CASE SetIp(t)
    <2>1. exec'[t].pc = "mask"
      BY <1>7, GoneTo DEF SetIp
    <2> QED
      BY <1>1, <2>1
  <1> QED
    BY <1>2, <1>3, <1>4, <1>5, <1>6, <1>7 DEF Execute

LEMMA CleanExecute ==
  ASSUME TypeInv, TurnInv, ReplyInv, CleanInv, NEW t \in Executor, Execute(t)
  PROVE  CleanInv'
  <1> SUFFICES ASSUME ~ typed' PROVE Unwritten'
    BY DEF CleanInv
  <1>0. /\ exec \in [Executor -> Exec] /\ udp \in UdpState /\ Cells(response)
        /\ Room \in Nat \ {0, 1} /\ Width \in Nat \ {0} /\ TypeInv'
    BY TypeInvIs, ExecuteTyped, ProcessAssumption DEF ExecTyped
  <1>1. \A u \in Executor \ {t} : exec'[u] = exec[u]
    BY ExecuteOne
  <1>2. CASE ~ RunReplace(t) /\ ~ ListAppend(t)
    <2>1. UNCHANGED <<udp, response, typed, disturbed>>
      BY <1>2, TakenFurther
    <2>2. ~ typed /\ Unwritten
      BY <2>1 DEF CleanInv
    <2>3. /\ exec'["udp"].pc \in {"lookup", "run"} => strlen(response) = 0
          /\ exec'["udp"].pc = "done" /\ exec'["udp"].status = 0 => strlen(response) <= 1
      <3>1. /\ exec'["udp"].pc \in {"lookup", "run"} =>
                 exec["udp"].pc \in {"lookup", "run"} \/ exec'["udp"] = exec["udp"]
            /\ exec'["udp"].pc = "done" /\ exec'["udp"].status = 0 =>
                 exec["udp"].pc = "lookup" \/ exec'["udp"] = exec["udp"]
        BY <1>1, <1>2, TakenFurther DEF Executor
      <3>2. strlen(response) = 0 => strlen(response) <= 1
        OBVIOUS
      <3> QED
        BY <2>2, <3>1, <3>2 DEF Unwritten
    <2> QED
      BY <2>1, <2>3, CleanStays DEF CleanInv
  <1>3. CASE t = "config" /\ (RunReplace(t) \/ ListAppend(t))
    BY <1>3 DEF RunReplace, ListAppend, Meddles
  <1>4. ASSUME t = "udp", RunReplace(t) \/ ListAppend(t)
        PROVE  typed' = typed /\ disturbed' = disturbed /\ ~ typed /\ Unwritten /\ exec["udp"].pc # "idle"
    <2>1. typed' = typed /\ disturbed' = disturbed
      BY <1>4, MeddlesUdp DEF RunReplace, ListAppend
    <2> QED
      BY <1>4, <2>1, ExecuteOne DEF CleanInv
  <1>5. CASE t = "udp" /\ RunReplace(t)
    <2>1. /\ exec["udp"].pc = "run" /\ response' = strcpy(Written("udp"))
          /\ udp'.tag = udp.tag /\ udp'.pc = udp.pc
      BY <1>0, <1>5 DEF RunReplace, Running, At, Wrote, UdpState
    <2>2. udp.pc = "exec" /\ strlen(response) = 0
      BY <1>4, <1>5, <2>1 DEF TurnInv, Unwritten
    <2>3. exec'["udp"].pc = "done"
      BY <1>5, IsDone DEF RunReplace
    <2>4. Written("udp") \in Line
      BY <1>0, Writes DEF Executor
    <2>5. \A i \in 1 .. Room : response'[i] = IF i \in 0 + 1 .. 0 + 1 THEN Written("udp")
                                             ELSE IF i = 0 + 1 + 1 THEN Zero ELSE response[i]
      BY <1>0, <2>1, <2>4, Replaces
    <2>6. /\ 0 \in Nat /\ 1 \in Nat /\ 0 <= strlen(response) /\ strlen(response) <= 0 + 1 /\ 0 + 1 < Room
          /\ ~ disturbed'
      BY <1>0, <1>4, <1>5, <2>2 DEF Unwritten
    <2>7. /\ strlen(response') = 0 + 1
          /\ \A i \in 1 .. Room : i > strlen(response') => response'[i] = Zero
          /\ \A i \in 1 .. Room : response'[i] \in {Zero, Written("udp")'}
      BY <1>0, <1>4, <1>5, <2>1, <2>5, <2>6, CleanCells
    <2> QED
      BY <2>1, <2>2, <2>3, <2>6, <2>7 DEF Unwritten
  <1>6. CASE t = "udp" /\ ListAppend(t)
    <2> DEFINE pos == exec["udp"].end
    <2>1. /\ exec["udp"].pc = "append" /\ response' = Copied(pos, Width, Written("udp"))
          /\ pos + Width < Room /\ pos \in Nat
          /\ udp'.tag = udp.tag /\ udp'.pc = udp.pc
      BY <1>0, <1>6 DEF ListAppend, strcat, At, Wrote, UdpState, Exec, Executor
    <2>2. exec'["udp"].pc = "list"
      BY <1>0, <1>6 DEF ListAppend, Exec
    <2>3. udp.pc = "exec" /\ pos = strlen(response) /\ ~ disturbed'
      BY <1>4, <1>6, <2>1 DEF TurnInv, Unwritten, ReplyInv
    <2> HIDE DEF pos
    <2>4. \A i \in 1 .. Room : response'[i] = IF i \in pos + 1 .. pos + Width THEN Written("udp")
                                             ELSE IF i = pos + Width + 1 THEN Zero ELSE response[i]
      BY <2>1 DEF Copied
    <2>5. pos <= strlen(response) /\ strlen(response) <= pos + Width /\ Width \in Nat
      BY <1>0, <2>1, <2>3
    <2>6. /\ \A i \in 1 .. Room : i > strlen(response') => response'[i] = Zero
          /\ \A i \in 1 .. Room : response'[i] \in {Zero, Written("udp")'}
      BY <1>0, <1>4, <1>6, <2>1, <2>3, <2>4, <2>5, CleanCells
    <2> QED
      BY <2>1, <2>2, <2>3, <2>6 DEF Unwritten
  <1> QED
    BY <1>2, <1>3, <1>5, <1>6 DEF Executor

LEMMA CleanStep == TypeInv /\ TurnInv /\ ReplyInv /\ CleanInv /\ [Next]_vars => CleanInv'
  <1> SUFFICES ASSUME TypeInv, TurnInv, ReplyInv, CleanInv, [Next]_vars PROVE CleanInv'
    OBVIOUS
  <1>1. CASE BootStep \/ CallFails \/ ListenerMakesCache \/ MainStep \/ signal_handler \/ UNCHANGED vars
    <2>1. UNCHANGED <<udp, exec, response, typed, disturbed>>
      BY <1>1 DEF BootStep, ParseOptions, CallSucceeds, CallFails, ListenerMakesCache, signal_handler,
                  MainStep, RenderCheck, RenderPrint, RenderSleep, MainOnly, commandVars, vars
    <2> QED
      BY <2>1, CleanStays DEF CleanInv, Unwritten
  <1>2. CASE ConsoleStep \/ EnterConfigMode \/ TypeLine \/ Quit
    <2>1. UNCHANGED <<udp, response, typed, disturbed>>
      BY <1>2 DEF ConsoleStep, create_cmd, LineDone, EnterConfigMode, TypeLine, Quit, ConsoleOnly
    <2>2. exec'["udp"] = exec["udp"]
      BY <1>2, ConsoleExec
    <2> QED
      BY <2>1, <2>2, CleanStays DEF CleanInv, Unwritten
  <1>3. CASE UdpStep \/ UdpFails \/ Receive
    BY <1>3, CleanUdp
  <1>4. CASE \E t \in Executor : Execute(t)
    BY <1>4, CleanExecute
  <1> QED
    BY <1>1, <1>2, <1>3, <1>4 DEF Next

\* When a client is replied to, every cell of the text that the UDP thread
\* wrote is of the command it answers, and all that command wrote is there
\* unless the console wrote meanwhile; the console's own text may be there, of
\* whatever time.  All the cells that are sent are the command's as long as
\* the console has never written, whatever the tables hold.
THEOREM RepliesOwn == Spec => []ReplyOwn
  <1>1. ReplyInv /\ CleanInv => ReplyOwn
    BY DEF ReplyInv, CleanInv, Unwritten, ReplyOwn
  <1> QED
    BY <1>1, ReplyInit, ReplyStep, CleanInit, CleanStep, TypeInvariant, Turns, PTL DEF Spec
=============================================================================
