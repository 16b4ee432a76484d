----------------------------- MODULE MCProcess ------------------------------
(***************************************************************************)
(* Process for TLC: one command of each kind from either side.             *)
(***************************************************************************)
EXTENDS ProcessProps

MCOptions == { <<"1", "2">>, <<"l">>, <<"1", "2", "h">> }

Cmd(name)  == [name |-> name, blank |-> TRUE, full |-> TRUE]
Bare(name) == [name |-> name, blank |-> FALSE, full |-> FALSE]

MCLines == { Cmd("get_arp_cache"), Cmd("ip_address"), Bare("?") }

\* An example with and without the blank behind it, and network without the
\* last of its arguments.
MCDatagrams ==
  { Cmd("get_arp_cache"), Cmd("rip"), Cmd("ip_address"), Bare("get_arp_cache"),
    [Cmd("network") EXCEPT !.full = FALSE] }
=============================================================================
