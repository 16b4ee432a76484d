------------------------------- MODULE Filter -------------------------------
(***************************************************************************)
(* The filter rules (rules.h) and the counters (stats.h) of an interface,  *)
(* over the layers the parser finds in a frame (parser.h).  The calls of   *)
(* apply_rules, update_stats and mock_rule are commented out in the        *)
(* program as it is; get_src_ip and get_dst_ip, which apply_rules calls,   *)
(* are defined nowhere and are taken to give the text of the address.      *)
(***************************************************************************)
EXTENDS Text

CONSTANTS
  Port, p1,       \* the interfaces, and the first of them
  RuleText,       \* what create_rule may be called with
  Passing,        \* frames that pass an interface
  MaxRules,       \* bounds
  MaxFrames

ETH2_TYPE == 2
IP4_TYPE  == 8        \* 0x0800 and 0x0806 as a u_short of the packet
ARP_TYPE  == 1544
ICMP_TYPE == 1
TCP_TYPE  == 6
UDP_TYPE  == 17

R_ANY == -1
DEFAULT_ACTION == "allow"

VARIABLES
  rules_ll,       \* the rules, from the head of the list
  accepted,       \* the rules as they were asked for, in order (a history)
  stats,          \* the counters of an interface, for in and out
  passed          \* frames counted so far

filterVars == <<rules_ll, accepted, stats, passed>>

Direction == {"in", "out"}

Stats == [l2_total |-> 0, l3_ip |-> 0, l3_icmp |-> 0, l3_arp |-> 0,
          l5_http |-> 0, l5_telnet |-> 0, l5_other |-> 0]

InitFilter ==
  /\ rules_ll = << >> /\ accepted = << >>
  /\ stats = [d \in Direction |-> Stats]
  /\ passed = 0

(***************************************************************************)
(* parse_l2 to parse_l4, from the frame's type and protocol.  The type is  *)
(* compared as it stands in the packet: most lengths of an 802.3 frame     *)
(* pass for a type.  Nothing sets l5.                                      *)
(***************************************************************************)
eth_max == 6            \* 0x0600 as a u_short of the packet

parse(f) ==
  LET l2 == IF f.eth_type >= eth_max THEN ETH2_TYPE ELSE 0
      l3 == IF l2 = ETH2_TYPE /\ f.eth_type \in {IP4_TYPE, ARP_TYPE} THEN f.eth_type ELSE 0
      l4 == IF l3 = IP4_TYPE /\ f.protocol \in {ICMP_TYPE, TCP_TYPE, UDP_TYPE}
            THEN f.protocol ELSE 0
  IN  [l2 |-> l2, l3 |-> l3, l4 |-> l4, l5 |-> 0]

(***************************************************************************)
(* update_stats.                                                           *)
(***************************************************************************)
Count(s, c) == [s EXCEPT ![c] = @ + 1]

\* Mutant: the return after the count of ARP frames is missing.
updated_stats_on(f, s) ==
  IF f.l2 # ETH2_TYPE THEN s
  ELSE LET t == Count(s, "l2_total")
           u == IF f.l3 = IP4_TYPE THEN Count(t, "l3_ip")
                ELSE IF f.l3 = ARP_TYPE THEN Count(t, "l3_arp") ELSE t
       IN  IF f.l4 = ICMP_TYPE THEN Count(u, "l3_icmp") ELSE Count(u, "l5_other")

updated_stats(f, s) ==
  IF f.l2 # ETH2_TYPE THEN s
  ELSE LET t == Count(s, "l2_total")
           u == IF f.l3 = IP4_TYPE THEN Count(t, "l3_ip") ELSE t
       IN  IF f.l3 = ARP_TYPE THEN Count(t, "l3_arp")
           ELSE IF f.l4 = ICMP_TYPE THEN Count(u, "l3_icmp")
           ELSE Count(u, CASE f.l5 = 80 -> "l5_http" [] f.l5 = 23 -> "l5_telnet"
                           [] OTHER -> "l5_other")

update_stats ==
  /\ passed < MaxFrames
  /\ \E f \in Passing, d \in Direction :
       stats' = [stats EXCEPT ![d] = updated_stats(parse(f), @)]
  /\ passed' = passed + 1
  /\ UNCHANGED <<rules_ll, accepted>>

(***************************************************************************)
(* create_rule.  is_valid_ip leaves only the first number of an address    *)
(* behind in the text it has looked at, and that is what is copied.        *)
(***************************************************************************)
AnyText == <<"a", "n", "y">>

Lower(s) == [i \in DOMAIN s |-> IF s[i] \in ToSet(UpperHex)
                                THEN LowerHex[SelectInSeq(UpperHex, LAMBDA c : c = s[i])]
                                ELSE s[i]]

strcasecmp(s, t) == IF Lower(s) = Lower(t) THEN 0 ELSE 1

ValidAddress(s) == strcasecmp(s, AnyText) = 0 \/ is_valid_mac(s) \/ is_valid_ip(s)

AddressKept(s) ==
  IF strcasecmp(s, AnyText) = 0 \/ is_valid_mac(s) THEN s ELSE LeftByStrtok(s, ".")

Valid(t) ==
  /\ t.port \in Port
  /\ t.action \in {"allow", "deny"} /\ t.direction \in Direction
  /\ ValidAddress(t.src) /\ ValidAddress(t.dst)

\* Addresses are kept as text, the protocol as a number.
Rule(port, action, direction, src, dst, proto) ==
  [ port |-> port, action |-> action, direction |-> direction,
    src |-> src, dst |-> dst, proto |-> proto ]

RuleOf(t) ==
  Rule(t.port, t.action, t.direction, AddressKept(t.src), AddressKept(t.dst),
       IF strcasecmp(t.proto, AnyText) = 0 THEN R_ANY ELSE atoi(t.proto))

\* Mutant: the rule is added at the end, as LL_add does it.
LL_add_to_end(r) == rules_ll' = Append(rules_ll, r)

LL_add_to_front(r) == rules_ll' = <<r>> \o rules_ll

create_rule ==
  /\ Len(rules_ll) < MaxRules
  /\ \E t \in RuleText :
       IF Valid(t) THEN LL_add_to_front(RuleOf(t)) /\ accepted' = Append(accepted, t)
       ELSE UNCHANGED <<rules_ll, accepted>>
  /\ UNCHANGED <<stats, passed>>

\* mock_rule: a rule that is made as it stands, with the address in capitals.
MockRule ==
  Rule(p1, "allow", "in",
       <<"C", "0", ":", "E", "E", ":", "F", "B", ":", "4", "A", ":", "C", "4", ":", "1", "D">>,
       AnyText, R_ANY)

mock_rule ==
  /\ Len(rules_ll) < MaxRules
  /\ LL_add_to_front(MockRule)
  /\ accepted' = Append(accepted, [MockRule EXCEPT !.proto = AnyText])
  /\ UNCHANGED <<stats, passed>>

\* The hardware addresses of a frame, as text.
get_src_mac(f) == get_hex(f.src_mac, ":")
get_dst_mac(f) == get_hex(f.dst_mac, ":")

\* Whether the address of a rule is any, or one of the frame's.
AddressFits(s, mac, ip) == \E t \in {AnyText, mac, ip} : strcasecmp(s, t) = 0

(***************************************************************************)
(* What the rules need of the texts they are made from: what is kept of an *)
(* address, the first number only if it is an IP address, is no other      *)
(* address of a frame; a protocol is no negative number, and any is 0.     *)
(***************************************************************************)
ASSUME TextAssumption ==
  \A t \in RuleText :
    /\ \A f \in Passing :
         /\ AddressFits(AddressKept(t.src), get_src_mac(f), f.src_ip)
              => AddressFits(t.src, get_src_mac(f), f.src_ip)
         /\ AddressFits(AddressKept(t.dst), get_dst_mac(f), f.dst_ip)
              => AddressFits(t.dst, get_dst_mac(f), f.dst_ip)
    /\ atoi(t.proto) # R_ANY
    /\ strcasecmp(t.proto, AnyText) = 0 => atoi(t.proto) = 0

Fits(r, f, p, direction) ==
  /\ r.port = p /\ r.direction = direction
  /\ AddressFits(r.src, get_src_mac(f), f.src_ip)
  /\ AddressFits(r.dst, get_dst_mac(f), f.dst_ip)
  /\ r.proto \in {R_ANY, parse(f).l5}

\* The first rule of the list that fits decides.
apply_rules(f, p, direction) ==
  LET i == SelectInSeq(rules_ll, LAMBDA r : Fits(r, f, p, direction))
  IN  (IF i = 0 THEN DEFAULT_ACTION ELSE rules_ll[i].action) = "allow"

(***************************************************************************)
(* Every frame counted in l2_total is in one of the other counters, and in *)
(* only one (l3_ip counts some of them a second time): the early returns   *)
(* of update_stats (stats.h:46, 50) see to it.                             *)
(***************************************************************************)
CountedOnce ==
  \A d \in Direction :
    LET s == stats[d]
    IN  /\ s.l2_total = s.l3_arp + s.l3_icmp + s.l5_http + s.l5_telnet + s.l5_other
        /\ s.l3_icmp <= s.l3_ip /\ s.l3_ip + s.l3_arp <= s.l2_total

\* Whether a rule, as it was typed, is about a frame; and whether it names
\* an IP address.
AboutFrame(t, f, p, d) ==
  /\ t.port = p /\ t.direction = d
  /\ AddressFits(t.src, get_src_mac(f), f.src_ip)
  /\ AddressFits(t.dst, get_dst_mac(f), f.dst_ip)
  /\ t.proto = AnyText \/ atoi(t.proto) = 0

ByIp(t) == is_valid_ip(t.src) \/ is_valid_ip(t.dst)

\* The accepted rules that are about a frame, by the order they came in.
About(f, p, d) == { i \in DOMAIN accepted : AboutFrame(accepted[i], f, p, d) }

Newest(i, I) == i \in I /\ \A j \in I : j <= i

(***************************************************************************)
(* A frame no accepted rule is about passes; and if the newest of those    *)
(* that are about it names no IP address, that one decides.  rules.h adds  *)
(* to the front and stops at the first rule that fits (rules.h:147-192),   *)
(* and rules made of other texts never come before it.  Of a rule that     *)
(* names an IP address nothing is claimed: create_rule keeps what          *)
(* is_valid_ip has left of the text (rules.h:78-79, 92-93).                *)
(***************************************************************************)
NewestDecides ==
  \A f \in Passing, p \in Port, d \in Direction :
    LET I == About(f, p, d)
    IN  /\ I = {} => apply_rules(f, p, d)
        /\ \A i \in I : Newest(i, I) /\ ~ ByIp(accepted[i]) =>
             (apply_rules(f, p, d) <=> accepted[i].action = "allow")
=============================================================================
