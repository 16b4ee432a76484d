---------------------------- MODULE ProcessProps ----------------------------
(***************************************************************************)
(* What the process promises to the one who starts it, types a command or  *)
(* sends one: properties of Process.                                       *)
(***************************************************************************)
EXTENDS Process

(***************************************************************************)
(* main starts a listener only when both interfaces can be read            *)
(* (main.c:159-207), and nobody walks the ARP cache before there is one:   *)
(* get_arp_cache (config.h:140) does not look whether arp_cache_ll is the  *)
(* null pointer, and it depends on the order of main's calls that the      *)
(* threads that execute it come after the list.                            *)
(***************************************************************************)
BootOrder ==
  /\ started \cap {"p1", "p2"} # {} => opened = {"p1", "p2"}
  /\ \A t \in Executor :
       exec[t].pc = "run" /\ exec[t].cmd.name = "get_arp_cache" => arp_cache_ll

(***************************************************************************)
(* When a client is replied to (communicator.h:63), the text in response   *)
(* holds no cell of the answer to another datagram, and every cell of its  *)
(* own answer if no command of the console wrote into it meanwhile.  Lines *)
(* of the console may be there, from before as well.  Behind the text,     *)
(* which is sent too, is nothing of another answer as long as no command   *)
(* of the console has ever written into response.                          *)
(***************************************************************************)
OwnCells == { i \in 1 .. strlen(response) : response[i].by = "udp" }

ReplyOwn ==
  udp.pc = "reply" =>
    /\ \A i \in OwnCells : response[i].tag = udp.tag
    /\ ~ disturbed => Cardinality(OwnCells) = udp.wrote
    /\ ~ typed => \A i \in 1 .. Room : response[i] \in {Zero, Written("udp")}

(***************************************************************************)
(* The address and the mask of an interface come from the same command     *)
(* (config.h:182-183), whoever gives it, once no ip_address is half done;  *)
(* unless two of them overlapped, which nothing prevents.                  *)
(***************************************************************************)
AddressWhole ==
  ~ clash /\ (\A t \in Executor : exec[t].pc # "mask") => address.ip = address.mask

(***************************************************************************)
(* In config mode the tables do not scroll the typed line away: at most    *)
(* the screen for which main had already looked at pause_rendering is      *)
(* still printed (main.c:218).                                             *)
(***************************************************************************)
ScreenOnce == console \in {"line", "exec"} => screens <= 1

(***************************************************************************)
(* After q the tables are printed again (config.h:274), until config mode  *)
(* is entered anew or the process ends.                                    *)
(***************************************************************************)
RenderingResumes ==
  main.pc = "check" /\ console = "char"
    ~> main.pc = "print" \/ console # "char" \/ ~ Up

(***************************************************************************)
(* A datagram is answered (communicator.h:60-63), also one whose command   *)
(* is unknown or fails, if the process survives its execution.             *)
(***************************************************************************)
Answered == udp.pc = "exec" ~> udp.pc = "reply" \/ ~ Up
=============================================================================
