----------------------------- MODULE MCFunctions ----------------------------
(***************************************************************************)
(* The functions of functions.h, rules.h, stats.h and icmp.h for TLC, each *)
(* over its own inputs.  A behaviour is about one subject, chosen at the   *)
(* start; a step makes the input a little longer, or another one, or is a  *)
(* step of the threads that use a linked list.                             *)
(***************************************************************************)
EXTENDS MCSubnet, Checksums, Filter, LinkedList

VARIABLES
  subject,      \* what this behaviour is about
  bytes,        \* a buffer
  text,         \* an address as text, or a command line
  line          \* the buffer of get_line

functionVars == <<subject, bytes, text, line>>

allVars == <<inputs, functionVars, filterVars, listVars>>

Subjects == {"address", "bytes", "ip text", "command", "line",
            "rules", "stats", "list"}

MCBytes    == {0, 1, 171, 255}
MCMaxBytes == 6
MCIpChars  == {"6", ".", "x"}
MCMaxIp    == 9
MCCmdChars == {"r", "1", Space}
MCMaxCmd   == 6
MCMaxLine  == 700     \* characters: past the third realloc
LineChar   == {"char", "newline", "EOF"}

FunctionsInit ==
  /\ subject \in Subjects
  /\ Init
  /\ bytes = << >> /\ text = << >>
  /\ line \in {LineBegun, NoLine} /\ (subject # "line" => line = LineBegun)
  /\ InitFilter
  /\ InitList /\ (subject # "list" => head = Null)

Longer(max, chars) ==
  /\ Len(text) < max
  /\ \E c \in chars : text' = Append(text, c)
  /\ UNCHANGED <<subject, bytes, line, inputs, filterVars, listVars>>

OtherAddress ==
  /\ subject = "address" /\ Next
  /\ UNCHANGED <<functionVars, filterVars, listVars>>

LongerBuffer ==
  /\ subject = "bytes" /\ Len(bytes) < MCMaxBytes
  /\ \E b \in MCBytes : bytes' = Append(bytes, b)
  /\ UNCHANGED <<subject, text, line, inputs, filterVars, listVars>>

LongerIp      == subject = "ip text" /\ Longer(MCMaxIp, MCIpChars)
LongerCommand == subject = "command" /\ Longer(MCMaxCmd, MCCmdChars)

LongerLine ==
  /\ subject = "line" /\ line.over = "no" /\ line.stored < MCMaxLine
  /\ \E c \in LineChar, more \in BOOLEAN : line' = get_line(line, c, more)
  /\ UNCHANGED <<subject, bytes, text, inputs, filterVars, listVars>>

Filtering ==
  /\ \/ subject = "rules" /\ (create_rule \/ mock_rule)
     \/ subject = "stats" /\ update_stats
  /\ UNCHANGED <<functionVars, inputs, listVars>>

Linking ==
  /\ subject = "list" /\ ListNext
  /\ UNCHANGED <<functionVars, inputs, filterVars>>

FunctionsNext ==
  \/ OtherAddress \/ LongerBuffer \/ LongerIp \/ LongerCommand \/ LongerLine
  \/ Filtering \/ Linking

FunctionsSpec == FunctionsInit /\ [][FunctionsNext]_allVars

(***************************************************************************)
(* Who receives a buffer with its checksum behind it computes 0 over both, *)
(* with csum and with icmp_checksum; ip_checksum gives the same for the    *)
(* headers it is made for (functions.h:366-411, icmp.h:1-16).              *)
(***************************************************************************)
ChecksumVerifies ==
  LET With(sum) == bytes \o (IF Len(bytes) % 2 = 1 THEN <<0>> ELSE << >>)
                         \o <<sum % 256, sum \div 256>>
  IN  /\ csum(With(csum(bytes))) = 0
      /\ icmp_checksum(bytes) = csum(bytes)
      /\ Len(bytes) % 2 = 0 => ip_checksum(bytes) = csum(bytes)

(***************************************************************************)
(* The text get_hex makes of a hardware address is one is_valid_mac takes, *)
(* of six bytes and of no other number, and hexStringToBytes reads the     *)
(* bytes back from it once the separators are gone (functions.h:5-26); the *)
(* digits dec_to_bin makes of the same bytes, taken as one number, are     *)
(* those bytes again (functions.h:47-65).                                  *)
(***************************************************************************)
Number(digits, base) == FoldLeft(LAMBDA n, d : base * n + d, 0, digits)

Without(s, sign) == FoldLeft(LAMBDA t, c : IF c = sign THEN t ELSE Append(t, c), << >>, s)

HexTravels ==
  LET hex == get_hex(bytes, ":")
  IN  /\ hexStringToBytes(Without(hex, ":")) = bytes
      /\ is_valid_mac(hex) <=> Len(bytes) = 6
      /\ Len(bytes) < 4 =>
           LET digits == dec_to_bin(Number(bytes, 256))
           IN  \A k \in DOMAIN bytes :
                 LET first == 33 - 8 * (Len(bytes) + 1 - k)
                 IN  Number([i \in 1 .. 8 |-> IF digits[first + i - 1] = "1" THEN 1 ELSE 0], 2)
                       = bytes[k]

(***************************************************************************)
(* What is_valid_ip lets through, string_to_ip reads number by number:     *)
(* none runs into the next octet, and ip_to_string writes an address that  *)
(* is valid and is the same again (functions.h:106-141, 187-219).          *)
(***************************************************************************)
ValidIpRead ==
  is_valid_ip(text) =>
    LET read == string_to_ip(text)
    IN  /\ \A k \in 1 .. 4 : Octet(read, k) = atoi(Tokens(text, ".")[k])
        /\ is_valid_ip(ip_to_string(read))
        /\ string_to_ip(ip_to_string(read)) = read

(***************************************************************************)
(* A command line is the name and what follows it, nothing lost between    *)
(* them; and str_trim takes the blanks from both ends of the arguments and *)
(* nothing else (functions.h:284-294, 342-360).                            *)
(***************************************************************************)
TakenApart(s) ==
  LET cmd  == split_cmd(s)
      args == str_trim(cmd.arguments)
      Blank(t) == \A i \in DOMAIN t : isspace(t[i])
  IN  IF cmd.name = NoName THEN Space \notin ToSet(s)
      ELSE /\ cmd.name \o cmd.arguments = s
           /\ Space \notin ToSet(cmd.name)
           /\ \E i, j \in 0 .. Len(cmd.arguments) :
                /\ Blank(SubSeq(cmd.arguments, 1, i))
                /\ args = SubSeq(cmd.arguments, i + 1, j)
                /\ Blank(SubSeq(cmd.arguments, j + 1, Len(cmd.arguments)))
           /\ args # << >> => ~ isspace(Head(args)) /\ ~ isspace(Last(args))

CommandRead == subject = "command" => TakenApart(text)

(***************************************************************************)
(* get_line has stored no more characters than it has memory for           *)
(* (functions.h:309-319): len, set after each realloc to the length before *)
(* it, reaches 0 in time for the next one.  The terminator is written into *)
(* that memory too (functions.h:324), but for the one case in which the    *)
(* code writes before it: an EOF before the first character.               *)
(***************************************************************************)
Fitting(l) ==
  /\ l.stored <= l.capacity
  /\ \A z \in l.zero : z \in 0 .. l.capacity - 1 \/ (l.over = "EOF" /\ l.stored = 0)

LineFits == Fitting(line)

MCRuleText ==
  LET addr == <<"1", ".", "2", ".", "3", ".", "4">>
  IN  [ port : {"1", "3"}, action : {"allow", "deny"}, direction : {"in", "out"},
        src : {AnyText, get_hex(<<10, 1, 1, 1, 1, 1>>, ":"), addr, <<"1", ".">>},
        dst : {AnyText}, proto : {AnyText, <<"8", "0">>} ]

MCPassing ==
  { [eth_type |-> t, protocol |-> p, src_mac |-> m, dst_mac |-> <<10, 2, 2, 2, 2, 2>>,
     src_ip |-> <<"1", ".", "2", ".", "3", ".", "4">>,
     dst_ip |-> <<"5", ".", "6", ".", "7", ".", "8">>] :
      t \in {IP4_TYPE, ARP_TYPE, 1, 15360}, p \in {ICMP_TYPE, 99},
      m \in { <<10, 1, 1, 1, 1, 1>>, <<10, 1, 1, 1, 1, 2>>, <<192, 238, 251, 74, 196, 29>> } }
=============================================================================
