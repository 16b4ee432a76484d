--------------------------- MODULE FunctionsProofs ---------------------------
(***************************************************************************)
(* What holds of functions.h, rules.h and stats.h at every size: of        *)
(* addresses of any number of octets, of lines of any length, of counters  *)
(* after any number of frames.                                             *)
(***************************************************************************)
EXTENDS MCFunctions, SubnetProofs, LinkedListProofs

(***************************************************************************)
(* The address arithmetic.                                                 *)
(***************************************************************************)
InputsOK == ip \in Addr /\ net \in Addr /\ prefix \in 1 .. W

LEMMA InputsTyped ==
  ASSUME InputsOK, [FunctionsNext]_allVars
  PROVE  InputsOK'
  <1>1. CASE UNCHANGED inputs
    BY <1>1 DEF InputsOK, inputs
  <1>2. CASE FlipIp \/ FlipNet \/ TakePrefix
    BY <1>2 DEF InputsOK, FlipIp, FlipNet, TakePrefix, Flip, Addr
  <1>3. (FlipIp \/ FlipNet \/ TakePrefix) \/ UNCHANGED inputs
    BY DEF FunctionsNext, allVars, OtherAddress, Next, LongerBuffer, LongerIp, LongerCommand,
           Longer, LongerLine, Filtering, Linking
  <1> QED
    BY <1>1, <1>2, <1>3

LEMMA InputsAlways == FunctionsSpec => []InputsOK
  <1>1. FunctionsInit => InputsOK
    BY WidthIsPositive DEF FunctionsInit, Init, InputsOK, Addr
  <1>2. InputsOK /\ [FunctionsNext]_allVars => InputsOK'
    BY InputsTyped
  <1> QED
    BY <1>1, <1>2, PTL DEF FunctionsSpec

\* The bits one writes first are the low octets of the u_int, each from its
\* high bit down; writing is its own inverse, and Mirror reverses it.
LEMMA WrittenBits ==
  ASSUME NEW n \in Bit
  PROVE  /\ Written(n) \in Bit /\ Written(Written(n)) = n
         /\ Mirror(Written(n)) = W - 1 - n
  <1> DEFINE q == n \div OctetBits
             r == n % OctetBits
             s == OctetBits - 1 - r
             k == Octets - 1 - q
  <1>1. OctetBits \in Nat \ {0} /\ Octets \in Nat \ {0}
    BY SubnetAssumption
  <1>2. n = OctetBits * q + r /\ q \in 0 .. Octets - 1 /\ r \in 0 .. OctetBits - 1
    BY OctetOfBit
  <1>3. Written(n) = OctetBits * q + s
    BY DEF Written
  <1> HIDE DEF q, r
  <1>4. q \in Nat /\ s \in 0 .. OctetBits - 1 /\ OctetBits - 1 - s = r
    BY <1>1, <1>2
  <1>5. OctetBits * k + s = W - 1 - (OctetBits * q + r)
    <2>1. OctetBits * k = OctetBits * Octets - OctetBits - OctetBits * q
      BY <1>1, <1>4, SMT
    <2>2. W = OctetBits * Octets /\ OctetBits * q \in Nat /\ OctetBits * Octets \in Nat
      BY <1>1, <1>4, SMT DEF W
    <2> QED
      BY <1>1, <1>2, <1>4, <2>1, <2>2, SMT
  <1> HIDE DEF s
  <1>6. OctetBits * q + s \in Bit
    BY <1>1, <1>2, <1>4, DigitsInRange DEF Bit, W
  <1>7. (OctetBits * q + s) \div OctetBits = q /\ (OctetBits * q + s) % OctetBits = s
    BY <1>1, <1>4, OctetUnique
  <1>8. Written(OctetBits * q + s) = OctetBits * q + r
    BY <1>4, <1>7 DEF Written
  <1>9. Mirror(OctetBits * q + s) = OctetBits * k + s
    BY <1>7 DEF Mirror
  <1> QED
    BY <1>2, <1>3, <1>5, <1>6, <1>8, <1>9

LEMMA WrittenAligned ==
  ASSUME NEW k \in 1 .. Octets, NEW n \in Bit
  PROVE  Written(n) < OctetBits * k <=> n < OctetBits * k
  <1>1. Written(n) \in Bit /\ Mirror(Written(n)) = W - 1 - n
    BY WrittenBits
  <1>2. Mirror(Written(n)) >= W - OctetBits * k <=> Written(n) < OctetBits * k
    BY <1>1, AlignedPositions
  <1>3. OctetBits * k \in Nat
    BY SubnetAssumption
  <1>4. W \in Nat /\ n \in Nat
    BY WidthIsPositive DEF Bit
  <1> HIDE DEF W
  <1>5. W - 1 - n >= W - OctetBits * k <=> n < OctetBits * k
    BY <1>3, <1>4
  <1> QED
    BY <1>1, <1>2, <1>5

LEMMA WholeOctets ==
  ASSUME NEW p \in 1 .. W, p % OctetBits = 0
  PROVE  \E k \in 1 .. Octets : p = OctetBits * k
  <1>1. OctetBits \in Nat \ {0} /\ Octets \in Nat \ {0}
    BY SubnetAssumption
  <1>2. PICK k : k = p \div OctetBits
    OBVIOUS
  <1>3. W \in Nat /\ p \in Nat /\ p > 0 /\ p <= W
    BY WidthIsPositive
  <1>4. p = OctetBits * k /\ k \in Int
    BY <1>1, <1>2, <1>3, SMT
  <1>5. OctetBits * 0 < OctetBits * k <=> 0 < k
    BY <1>1, <1>4, SMT
  <1>6. OctetBits * Octets < OctetBits * k <=> Octets < k
    BY <1>1, <1>4, SMT
  <1>7. W = OctetBits * Octets
    BY <1>1, SMT DEF W
  <1> QED
    BY <1>1, <1>3, <1>4, <1>5, <1>6, <1>7

(***************************************************************************)
(* belongs_to_subnet tells the addresses of a network of whole octets from *)
(* the others (functions.h), for addresses of any width.                   *)
(***************************************************************************)
THEOREM MembersTold == FunctionsSpec => []AlignedMembers
  <1>1. InputsOK => AlignedMembers
    <2> SUFFICES ASSUME InputsOK, prefix % OctetBits = 0
                 PROVE  belongs_to_subnet(ip, ip_mask_to_network(net, prefix), prefix)
                          <=> SameNetwork(ip, net, prefix)
      BY DEF AlignedMembers
    <2>1. PICK k \in 1 .. Octets : prefix = OctetBits * k
      BY WholeOctets DEF InputsOK
    <2>2. prefix \in 1 .. W /\ W \in Nat
      BY WidthIsPositive DEF InputsOK
    <2>3. belongs_to_subnet(ip, ip_mask_to_network(net, prefix), prefix)
            <=> \A i \in Bit : i < prefix => (i \in ip <=> i \in net)
      BY <2>1, AlignedMembership DEF InputsOK
    <2>4. \A n \in Bit : /\ Written(n) \in Bit /\ Written(Written(n)) = n
                         /\ Written(n) < prefix <=> n < prefix
      BY <2>1, WrittenBits, WrittenAligned
    <2>5. \A n : n \in 0 .. prefix - 1 <=> n \in Bit /\ n < prefix
      BY <2>2 DEF Bit
    <2>6. (\A i \in Bit : i < prefix => (i \in ip <=> i \in net))
            <=> \A n \in Bit : n < prefix => (Written(n) \in ip <=> Written(n) \in net)
      BY <2>4, Zenon
    <2> QED
      BY <2>3, <2>5, <2>6 DEF SameNetwork
  <1> QED
    BY <1>1, InputsAlways, PTL

\* A mask has the leading bits of an address, read in the order of the u_int
\* or in the host's; a network has the address's bits under the mask.
LEMMA MaskBits ==
  ASSUME NEW p \in 1 .. W
  PROVE  /\ prefix_to_mask(p) = { i \in Bit : i >= W - p }
         /\ Swap(prefix_to_mask(p)) = { i \in Bit : Mirror(i) >= W - p }
         /\ Swap(Swap(prefix_to_mask(p))) = { i \in Bit : i >= W - p }
  <1>1. (W - p) % W = W - p
    BY WidthIsPositive, ShiftCount
  <1>2. W \in Nat \ {0} /\ W - p \in 0 .. W - 1
    BY WidthIsPositive
  <1>3. prefix_to_mask(p) = { i \in Bit : i - (W - p) \in Bit }
    BY <1>1 DEF prefix_to_mask, Shl
  <1>4. \A i \in Bit : i - (W - p) \in Bit <=> i >= W - p
    BY <1>2 DEF Bit
  <1>5. prefix_to_mask(p) = { i \in Bit : i >= W - p }
    BY <1>3, <1>4
  <1> DEFINE High(i) == i >= W - p
  <1>6. prefix_to_mask(p) = { i \in Bit : High(i) }
    BY <1>5
  <1> HIDE DEF High
  <1>7. \A i \in Bit : Mirror(i) \in Bit /\ Mirror(Mirror(i)) = i
    BY MirrorTwice
  <1>8. Swap(prefix_to_mask(p)) = { i \in Bit : High(Mirror(i)) }
    BY <1>6, <1>7 DEF Swap
  <1>9. Swap({ i \in Bit : High(Mirror(i)) }) = { i \in Bit : High(i) }
    BY <1>7 DEF Swap
  <1> QED
    BY <1>6, <1>8, <1>9 DEF High

LEMMA NetworkMasked ==
  ASSUME NEW a \in Addr, NEW p \in 1 .. W
  PROVE  ip_mask_to_network(a, p) = { i \in a : Mirror(i) >= W - p }
  <1> DEFINE n == W - p
             x == Swap(a)
  <1>1. n % W = n /\ n \in Nat
    BY WidthIsPositive, ShiftCount
  <1>2. ip_mask_to_network(a, p) = Swap(Shl(Shr(x, n), n))
    BY DEF ip_mask_to_network
  <1> HIDE DEF n
  <1>3. \A j \in Bit : Mirror(j) \in Bit /\ Mirror(Mirror(j)) = j
    BY MirrorTwice
  <1>4. \A j \in Bit : j \in x <=> Mirror(j) \in a
    BY DEF Swap
  <1> HIDE DEF x
  <1>5. \A j \in Bit : j \in Shl(Shr(x, n), n) <=> j >= n /\ j \in x
    <2> SUFFICES ASSUME NEW j \in Bit
                 PROVE  j \in Shl(Shr(x, n), n) <=> j >= n /\ j \in x
      OBVIOUS
    <2>1. W \in Nat /\ j \in Nat /\ j < W
      BY WidthIsPositive DEF Bit
    <2>2. j \in Shl(Shr(x, n), n) <=> j - n \in Bit /\ (j - n) + n \in x
      BY <1>1 DEF Shl, Shr
    <2>3. (j - n) + n = j /\ (j - n \in Bit <=> j >= n)
      BY <1>1, <2>1 DEF Bit
    <2> QED
      BY <2>2, <2>3
  <1>6. \A i \in Bit : i \in ip_mask_to_network(a, p) <=> Mirror(i) >= n /\ i \in a
    <2> SUFFICES ASSUME NEW i \in Bit
                 PROVE  i \in ip_mask_to_network(a, p) <=> Mirror(i) >= n /\ i \in a
      OBVIOUS
    <2>1. Mirror(i) \in Bit /\ Mirror(Mirror(i)) = i
      BY <1>3
    <2>2. i \in ip_mask_to_network(a, p) <=> Mirror(i) \in Shl(Shr(x, n), n)
      BY <1>2 DEF Swap
    <2> QED
      BY <1>4, <1>5, <2>1, <2>2
  <1>7. ip_mask_to_network(a, p) \subseteq Bit /\ a \subseteq Bit
    BY <1>2 DEF Swap, Addr
  <1> QED
    BY <1>6, <1>7 DEF n

LEMMA MaskRead ==
  ASSUME NEW p \in 1 .. W
  PROVE  mask_to_prefix(Swap(prefix_to_mask(p))) = p
  <1> DEFINE host       == Swap(Swap(prefix_to_mask(p)))
             ShiftedOut == { n \in 0 .. W : \A i \in host : i + n >= W }
  <1>1. W \in Nat \ {0}
    BY WidthIsPositive
  <1>2. host = { i \in Bit : i >= W - p }
    BY MaskBits
  <1>3. mask_to_prefix(Swap(prefix_to_mask(p)))
          = CHOOSE n \in ShiftedOut : \A m \in ShiftedOut : n <= m
    BY DEF mask_to_prefix
  <1> HIDE DEF host
  <1>4. W - p \in host
    BY <1>1, <1>2 DEF Bit
  <1>5. \A n \in 0 .. W : n \in ShiftedOut <=> n >= p
    BY <1>1, <1>2, <1>4 DEF Bit
  <1>6. \A n \in ShiftedOut : n \in 0 .. W
    OBVIOUS
  <1> HIDE DEF ShiftedOut
  <1>7. p \in ShiftedOut /\ \A m \in ShiftedOut : p <= m
    BY <1>1, <1>5, <1>6
  <1>8. \A n \in ShiftedOut : (\A m \in ShiftedOut : n <= m) => n = p
    BY <1>1, <1>6, <1>7
  <1> QED
    BY <1>3, <1>7, <1>8

(***************************************************************************)
(* Every prefix but 0 survives the trip to a neighbour as the mask of an   *)
(* entry, and the network number is the address under that mask, for       *)
(* addresses of any width.                                                 *)
(***************************************************************************)
THEOREM PrefixesTravel == FunctionsSpec => []MaskTravels
  <1>1. InputsOK => MaskTravels
    <2> SUFFICES ASSUME InputsOK PROVE MaskTravels
      OBVIOUS
    <2> DEFINE mask    == Swap(prefix_to_mask(prefix))
               network == ip_mask_to_network(ip, prefix)
    <2>1. ip \in Addr /\ prefix \in 1 .. W /\ W \in Nat
      BY WidthIsPositive DEF InputsOK
    <2>2. mask_to_prefix(mask) = prefix
      BY <2>1, MaskRead
    <2>3. network = { i \in ip : Mirror(i) >= W - prefix }
      BY <2>1, NetworkMasked
    <2>4. mask = { i \in Bit : Mirror(i) >= W - prefix }
      BY <2>1, MaskBits
    <2>5. ip \subseteq Bit
      BY <2>1 DEF Addr
    <2>6. \A n \in 0 .. prefix - 1 : Mirror(Written(n)) >= W - prefix
      <3> SUFFICES ASSUME NEW n \in 0 .. prefix - 1
                   PROVE  Mirror(Written(n)) >= W - prefix
        OBVIOUS
      <3>1. n \in Bit
        BY <2>1 DEF Bit
      <3>2. Mirror(Written(n)) = W - 1 - n
        BY <3>1, WrittenBits
      <3> QED
        BY <2>1, <3>2
    <2> HIDE DEF mask, network
    <2>7. network = ip \cap mask
      BY <2>3, <2>4, <2>5
    <2>8. SameNetwork(ip, network, prefix)
      BY <2>3, <2>6 DEF SameNetwork
    <2> QED
      BY <2>2, <2>7, <2>8 DEF MaskTravels, mask, network
  <1> QED
    BY <1>1, InputsAlways, PTL

\* What is stored and what is left of the memory are the memory, and
\* something is always left; the terminator is written once, at the end.
LineOK(l) ==
  \/ l = NoLine
  \/ /\ l.capacity \in Nat /\ l.len \in Nat \ {0} /\ l.stored \in Nat
     /\ l.lenmax = l.capacity
     /\ l.stored + l.len = l.capacity
     /\ \/ l.over = "no" /\ l.zero = {}
        \/ l.over = "newline" /\ l.stored # 0 /\ l.zero = {l.stored - 1}
        \/ l.over = "EOF" /\ l.zero = {l.stored - 1}

LEMMA LineStep ==
  ASSUME NEW l, LineOK(l), l.over = "no", NEW c \in LineChar, NEW more \in BOOLEAN
  PROVE  LineOK(get_line(l, c, more))
  <1> DEFINE m == get_line(l, c, more)
             full == l.len - 1 = 0
  <1>1. l # NoLine
    BY DEF NoLine, LineBegun
  <1>2. /\ l.capacity \in Nat /\ l.len \in Nat \ {0} /\ l.stored \in Nat
        /\ l.lenmax = l.capacity
        /\ l.stored + l.len = l.capacity
    BY <1>1 DEF LineOK
  <1>3. CASE c = "EOF"
    <2>1. m = [l EXCEPT !.over = "EOF", !.zero = {l.stored - 1}]
      BY <1>3 DEF get_line
    <2> DEFINE e == [l EXCEPT !.over = "EOF", !.zero = {l.stored - 1}]
    <2> HIDE DEF m
    <2>2. \/ l.over = "EOF"
          \/ /\ e.capacity = l.capacity /\ e.len = l.len /\ e.stored = l.stored
             /\ e.lenmax = l.lenmax
      OBVIOUS
    <2> QED
      BY <1>2, <2>1, <2>2 DEF LineOK, m
  <1>4. CASE c # "EOF" /\ full /\ ~ more
    BY <1>4 DEF get_line, LineOK
  <1>5. CASE c # "EOF" /\ ~ (full /\ ~ more)
    <2>1. m = [ capacity |-> IF full THEN 2 * l.lenmax ELSE l.capacity,
                lenmax   |-> IF full THEN 2 * l.lenmax ELSE l.lenmax,
                len      |-> IF full THEN l.lenmax ELSE l.len - 1,
                stored   |-> l.stored + 1,
                over     |-> IF c = "newline" THEN "newline" ELSE "no",
                zero     |-> IF c = "newline" THEN {l.stored} ELSE {} ]
      BY <1>5 DEF get_line
    <2> HIDE DEF m
    <2>2. /\ m.capacity \in Nat /\ m.len \in Nat \ {0} /\ m.stored \in Nat /\ m.stored # 0
          /\ m.lenmax = m.capacity
          /\ m.stored + m.len = m.capacity
      <3>1. CASE full
        BY <1>2, <2>1, <3>1
      <3>2. CASE ~ full
        BY <1>2, <2>1, <3>2
      <3> QED
        BY <3>1, <3>2
    <2>3. \/ m.over = "no" /\ m.zero = {}
          \/ m.over = "newline" /\ m.zero = {m.stored - 1}
      <3>1. m.stored - 1 = l.stored
        BY <1>2, <2>1
      <3> QED
        BY <2>1, <3>1
    <2> QED
      BY <2>2, <2>3 DEF LineOK, m
  <1> QED
    BY <1>3, <1>4, <1>5

LEMMA LineOKFits ==
  ASSUME NEW l, LineOK(l)
  PROVE  Fitting(l)
  <1>1. CASE l = NoLine
    BY <1>1 DEF NoLine, LineBegun, Fitting
  <1>2. CASE l # NoLine
    BY <1>2 DEF LineOK, Fitting
  <1> QED
    BY <1>1, <1>2

LEMMA LinesBegun == LineOK(LineBegun) /\ LineOK(NoLine)
  BY DEF LineOK, LineBegun

(***************************************************************************)
(* However long the line, whatever fgetc gives and wherever malloc and     *)
(* realloc fail, get_line never stores more than it has memory for         *)
(* (functions.h:309), and writes the terminator into that memory unless    *)
(* the file ends before the first character (functions.h:324).             *)
(***************************************************************************)
THEOREM EveryLineFits ==
  ASSUME NEW n \in Nat, NEW c \in [1 .. n -> LineChar], NEW more \in [1 .. n -> BOOLEAN],
         NEW l,
         l[0] \in {LineBegun, NoLine},
         \A k \in 1 .. n : l[k] = IF l[k - 1].over = "no"
                                  THEN get_line(l[k - 1], c[k], more[k]) ELSE l[k - 1]
  PROVE  \A k \in 0 .. n : Fitting(l[k])
  <1> DEFINE S == { k \in 0 .. n : ~ LineOK(l[k]) }
  <1>1. S = {}
    <2> SUFFICES ASSUME S # {} PROVE FALSE
      OBVIOUS
    <2>1. S \in SUBSET Nat
      OBVIOUS
    <2> HIDE DEF S
    <2>2. PICK k \in S : \A j \in S : k <= j
      BY <2>1, LeastNatural
    <2>3. k \in 0 .. n /\ ~ LineOK(l[k])
      BY <2>2 DEF S
    <2>4. k # 0
      BY <2>3, LinesBegun
    <2>5. k \in 1 .. n /\ k - 1 \in 0 .. n /\ ~ (k <= k - 1)
      BY <2>3, <2>4
    <2>6. LineOK(l[k - 1])
      BY <2>2, <2>5 DEF S
    <2>7. CASE l[k - 1].over = "no"
      <3>1. l[k] = get_line(l[k - 1], c[k], more[k])
        BY <2>5, <2>7
      <3>2. c[k] \in LineChar /\ more[k] \in BOOLEAN
        BY <2>5
      <3> QED
        BY <2>3, <2>6, <2>7, <3>1, <3>2, LineStep
    <2>8. CASE l[k - 1].over # "no"
      BY <2>3, <2>5, <2>6, <2>8
    <2> QED
      BY <2>7, <2>8
  <1> QED
    BY <1>1, LineOKFits

(***************************************************************************)
(* In every state of the composed model get_line has stored no more than   *)
(* it has memory for (functions.h:309).                                    *)
(***************************************************************************)
THEOREM LinesFit == FunctionsSpec => []LineFits
  <1>1. FunctionsInit => LineOK(line)
    BY LinesBegun DEF FunctionsInit
  <1>2. LineOK(line) /\ [FunctionsNext]_allVars => LineOK(line)'
    <2> SUFFICES ASSUME LineOK(line), [FunctionsNext]_allVars PROVE LineOK(line')
      OBVIOUS
    <2>1. \/ line' = line
          \/ /\ line.over = "no"
             /\ \E c \in LineChar, more \in BOOLEAN : line' = get_line(line, c, more)
      BY DEF FunctionsNext, OtherAddress, LongerBuffer, LongerIp, LongerCommand, Longer,
             LongerLine, Filtering, Linking, allVars, functionVars
    <2>2. CASE line' = line
      BY <2>2
    <2>3. CASE /\ line.over = "no"
               /\ \E c \in LineChar, more \in BOOLEAN : line' = get_line(line, c, more)
      BY <2>3, LineStep
    <2> QED
      BY <2>1, <2>2, <2>3
  <1>3. LineOK(line) => LineFits
    BY LineOKFits DEF LineFits
  <1> QED
    BY <1>1, <1>2, <1>3, PTL DEF FunctionsSpec

(***************************************************************************)
(* The list of the composed model takes only the list's own steps, so what *)
(* is proved of ListSpec holds of it.                                      *)
(***************************************************************************)
THEOREM ListWithin == FunctionsSpec => ListSpec
  <1>1. FunctionsInit => InitList
    BY DEF FunctionsInit
  <1>2. [FunctionsNext]_allVars => [ListNext]_listVars
    BY DEF FunctionsNext, OtherAddress, LongerBuffer, LongerIp, LongerCommand, Longer,
           LongerLine, Filtering, Linking, allVars
  <1> QED
    BY <1>1, <1>2, PTL DEF FunctionsSpec, ListSpec

(***************************************************************************)
(* The counters.                                                           *)
(***************************************************************************)
Counter ==
  {"l2_total", "l3_ip", "l3_icmp", "l3_arp", "l5_http", "l5_telnet", "l5_other"}

Balanced(s) ==
  /\ s.l2_total = s.l3_arp + s.l3_icmp + s.l5_http + s.l5_telnet + s.l5_other
  /\ s.l3_icmp <= s.l3_ip /\ s.l3_ip + s.l3_arp <= s.l2_total

LEMMA CountOne ==
  ASSUME NEW s \in [Counter -> Nat], NEW c \in Counter
  PROVE  /\ Count(s, c) \in [Counter -> Nat]
         /\ Count(s, c)[c] = s[c] + 1
         /\ \A e \in Counter \ {c} : Count(s, c)[e] = s[e]
  BY DEF Count

\* What parse leaves to count: an ICMP frame is an IP frame, and no frame has
\* an l5.
LEMMA Parsed ==
  ASSUME NEW f
  PROVE  /\ parse(f).l5 = 0
         /\ parse(f).l4 = ICMP_TYPE => parse(f).l3 = IP4_TYPE
  BY DEF parse, ICMP_TYPE, IP4_TYPE, ARP_TYPE, TCP_TYPE, UDP_TYPE, ETH2_TYPE

LEMMA CountedFrame ==
  ASSUME NEW s \in [Counter -> Nat], Balanced(s), NEW f
  PROVE  /\ updated_stats(parse(f), s) \in [Counter -> Nat]
         /\ Balanced(updated_stats(parse(f), s))
  <1> DEFINE g == parse(f)
             t == Count(s, "l2_total")
             u == IF g.l3 = IP4_TYPE THEN Count(t, "l3_ip") ELSE t
             v == updated_stats(g, s)
  <1>1. g.l5 = 0 /\ (g.l4 = ICMP_TYPE => g.l3 = IP4_TYPE)
    BY Parsed
  <1>2. IP4_TYPE # ARP_TYPE /\ 0 # 80 /\ 0 # 23
    BY DEF IP4_TYPE, ARP_TYPE
  <1> HIDE DEF g
  <1>3. CASE g.l2 # ETH2_TYPE
    BY <1>3 DEF updated_stats, g
  <1>4. CASE g.l2 = ETH2_TYPE /\ g.l3 = ARP_TYPE
    <2>1. v = Count(t, "l3_arp")
      BY <1>4 DEF updated_stats
    <2>2. t \in [Counter -> Nat] /\ t.l2_total = s.l2_total + 1
          /\ \A e \in Counter \ {"l2_total"} : t[e] = s[e]
      BY CountOne DEF Counter
    <2> HIDE DEF t, v
    <2>3. v \in [Counter -> Nat] /\ v.l3_arp = t.l3_arp + 1
          /\ \A e \in Counter \ {"l3_arp"} : v[e] = t[e]
      BY <2>1, <2>2, CountOne, ZenonT(40) DEF Counter
    <2>4. Balanced(v)
      BY <2>2, <2>3 DEF Balanced, Counter
    <2> QED
      BY <2>3, <2>4 DEF v, g
  <1>5. CASE g.l2 = ETH2_TYPE /\ g.l3 # ARP_TYPE
    <2>1. v = IF g.l4 = ICMP_TYPE THEN Count(u, "l3_icmp") ELSE Count(u, "l5_other")
      BY <1>1, <1>2, <1>5 DEF updated_stats
    <2>2. t \in [Counter -> Nat] /\ t.l2_total = s.l2_total + 1
          /\ \A e \in Counter \ {"l2_total"} : t[e] = s[e]
      BY CountOne DEF Counter
    <2> HIDE DEF t, v
    <2>3. /\ u \in [Counter -> Nat]
          /\ u.l3_ip = t.l3_ip + (IF g.l3 = IP4_TYPE THEN 1 ELSE 0)
          /\ \A e \in Counter \ {"l3_ip"} : u[e] = t[e]
      <3>1. CASE g.l3 = IP4_TYPE
        BY <2>2, <3>1, CountOne, ZenonT(40) DEF Counter
      <3>2. CASE g.l3 # IP4_TYPE
        BY <2>2, <3>2 DEF Counter
      <3> QED
        BY <3>1, <3>2
    <2> HIDE DEF u
    <2>4. CASE g.l4 = ICMP_TYPE
      <3>1. v \in [Counter -> Nat] /\ v.l3_icmp = u.l3_icmp + 1
            /\ \A e \in Counter \ {"l3_icmp"} : v[e] = u[e]
        BY <2>1, <2>3, <2>4, CountOne, ZenonT(40) DEF Counter
      <3>2. u.l3_ip = t.l3_ip + 1
        BY <1>1, <2>3, <2>4
      <3>3. Balanced(v)
        BY <2>2, <2>3, <3>1, <3>2 DEF Balanced, Counter
      <3> QED
        BY <3>1, <3>3 DEF v, g
    <2>5. CASE g.l4 # ICMP_TYPE
      <3>1. v \in [Counter -> Nat] /\ v.l5_other = u.l5_other + 1
            /\ \A e \in Counter \ {"l5_other"} : v[e] = u[e]
        BY <2>1, <2>3, <2>5, CountOne, ZenonT(40) DEF Counter
      <3>2. u.l3_ip = t.l3_ip \/ u.l3_ip = t.l3_ip + 1
        BY <2>2, <2>3 DEF Counter
      <3>3. Balanced(v)
        BY <2>2, <2>3, <3>1, <3>2 DEF Balanced, Counter
      <3> QED
        BY <3>1, <3>3 DEF v, g
    <2> QED
      BY <2>4, <2>5
  <1> QED
    BY <1>3, <1>4, <1>5 DEF g

StatsOK ==
  /\ stats \in [Direction -> [Counter -> Nat]]
  /\ \A d \in Direction : Balanced(stats[d])

(***************************************************************************)
(* After any number of frames, in any order, each frame of l2_total is in  *)
(* exactly one of the counters that add up to it (stats.h).                *)
(***************************************************************************)
THEOREM EachFrameOnce == FunctionsSpec => []CountedOnce
  <1>1. FunctionsInit => StatsOK
    <2>1. Stats \in [Counter -> Nat] /\ Balanced(Stats)
      BY DEF Stats, Counter, Balanced
    <2> QED
      BY <2>1 DEF FunctionsInit, InitFilter, StatsOK
  <1>2. StatsOK /\ [FunctionsNext]_allVars => StatsOK'
    <2> SUFFICES ASSUME StatsOK, [FunctionsNext]_allVars PROVE StatsOK'
      OBVIOUS
    <2>1. CASE update_stats
      <3>1. PICK f \in Passing, d \in Direction :
              stats' = [stats EXCEPT ![d] = updated_stats(parse(f), @)]
        BY <2>1 DEF update_stats
      <3>2. stats[d] \in [Counter -> Nat] /\ Balanced(stats[d])
        BY DEF StatsOK
      <3> DEFINE v == updated_stats(parse(f), stats[d])
      <3>3. v \in [Counter -> Nat] /\ Balanced(v)
        BY <3>2, CountedFrame
      <3>4. stats' = [stats EXCEPT ![d] = v]
        BY <3>1
      <3> HIDE DEF v
      <3> QED
        BY <3>3, <3>4 DEF StatsOK
    <2>2. CASE stats' = stats
      BY <2>2 DEF StatsOK
    <2>3. update_stats \/ stats' = stats
      BY DEF FunctionsNext, OtherAddress, LongerBuffer, LongerIp, LongerCommand, Longer,
             LongerLine, Filtering, Linking, create_rule, mock_rule,
             allVars, filterVars
    <2> QED
      BY <2>1, <2>2, <2>3
  <1>3. StatsOK => CountedOnce
    BY DEF StatsOK, CountedOnce, Balanced
  <1> QED
    BY <1>1, <1>2, <1>3, PTL DEF FunctionsSpec

(***************************************************************************)
(* The rules.  As long as rules are only added, the list is what was       *)
(* accepted, newest first, each text made into its rule.                   *)
(***************************************************************************)
MockText == [MockRule EXCEPT !.proto = AnyText]

Texts == RuleText \cup {MockText}
Rules == { RuleOf(t) : t \in RuleText } \cup {MockRule}

Made(r, t) ==
  \/ t \in RuleText /\ Valid(t) /\ r = RuleOf(t)
  \/ t = MockText /\ r = MockRule

RulesOK ==
  /\ rules_ll \in Seq(Rules) /\ accepted \in Seq(Texts)
  /\ Len(rules_ll) = Len(accepted)
  /\ \A i \in 1 .. Len(accepted) : Made(rules_ll[i], accepted[Len(accepted) + 1 - i])

LEMMA RuleAdded ==
  ASSUME RulesOK, NEW r \in Rules, NEW t \in Texts, Made(r, t),
         LL_add_to_front(r), accepted' = Append(accepted, t)
  PROVE  RulesOK'
  <1> DEFINE n == Len(accepted)
  <1>1. n \in Nat /\ Len(rules_ll) = n
    BY DEF RulesOK
  <1>2. rules_ll' = <<r>> \o rules_ll /\ <<r>> \in Seq(Rules) /\ Len(<<r>>) = 1 /\ <<r>>[1] = r
    BY DEF LL_add_to_front
  <1>3. /\ rules_ll' \in Seq(Rules) /\ Len(rules_ll') = 1 + n
        /\ \A i \in 1 .. 1 + n : rules_ll'[i] = IF i <= 1 THEN r ELSE rules_ll[i - 1]
    <2>1. rules_ll \in Seq(Rules)
      BY DEF RulesOK
    <2> DEFINE one == <<r>>
               all == one \o rules_ll
    <2>2. /\ all \in Seq(Rules) /\ Len(all) = 1 + n
          /\ \A i \in 1 .. 1 + n : all[i] = IF i <= 1 THEN one[i] ELSE rules_ll[i - 1]
      <3>1. one \in Seq(Rules) /\ Len(one) = 1
        BY <1>2
      <3> HIDE DEF one
      <3>2. /\ all \in Seq(Rules) /\ Len(all) = Len(one) + Len(rules_ll)
            /\ \A i \in 1 .. Len(one) + Len(rules_ll) :
                 all[i] = IF i <= Len(one) THEN one[i] ELSE rules_ll[i - Len(one)]
        BY <2>1, <3>1, ConcatProperties, Zenon
      <3> QED
        BY <1>1, <3>1, <3>2
    <2>3. ASSUME NEW i \in 1 .. 1 + n
          PROVE  rules_ll'[i] = IF i <= 1 THEN r ELSE rules_ll[i - 1]
      <3>1. CASE i = 1
        BY <1>1, <1>2, <2>2, <3>1
      <3>2. CASE i # 1
        BY <1>1, <1>2, <2>2, <3>2
      <3> QED
        BY <3>1, <3>2
    <2> QED
      BY <1>2, <2>2, <2>3
  <1>4. /\ accepted' \in Seq(Texts) /\ Len(accepted') = n + 1
        /\ \A i \in 1 .. n : accepted'[i] = accepted[i]
        /\ accepted'[n + 1] = t
    BY AppendProperties DEF RulesOK
  <1>5. \A i \in 1 .. n : Made(rules_ll[i], accepted[n + 1 - i])
    BY DEF RulesOK
  <1> HIDE DEF n
  <1>6. ASSUME NEW i \in 1 .. n + 1
        PROVE  Made(rules_ll'[i], accepted'[n + 2 - i])
    <2>1. CASE i = 1
      BY <1>1, <1>3, <1>4, <2>1
    <2>2. CASE i # 1
      <3>1. i - 1 \in 1 .. n /\ n + 1 - (i - 1) = n + 2 - i /\ n + 2 - i \in 1 .. n
        BY <1>1, <2>2
      <3>2. Made(rules_ll[i - 1], accepted[n + 1 - (i - 1)])
        BY <1>5, <3>1
      <3>3. rules_ll'[i] = rules_ll[i - 1] /\ accepted'[n + 2 - i] = accepted[n + 2 - i]
        BY <1>1, <1>3, <1>4, <2>2, <3>1
      <3> QED
        BY <3>1, <3>2, <3>3
    <2> QED
      BY <2>1, <2>2
  <1>7. ASSUME NEW i \in 1 .. n + 1
        PROVE  Made(rules_ll'[i], accepted'[Len(accepted') + 1 - i])
    <2>1. Len(accepted') + 1 - i = n + 2 - i
      BY <1>1, <1>4
    <2> QED
      BY <1>6, <2>1
  <1>8. \A i \in 1 .. Len(accepted') : Made(rules_ll'[i], accepted'[Len(accepted') + 1 - i])
    BY <1>4, <1>7
  <1>9. Len(rules_ll') = Len(accepted')
    BY <1>1, <1>3, <1>4
  <1> QED
    BY <1>3, <1>4, <1>8, <1>9 DEF RulesOK

\* The rule made of a text fits no frame the text is not about, and every
\* frame it is about if the text names no IP address.
LEMMA MadeToFit ==
  ASSUME NEW r, NEW t, Made(r, t), NEW f \in Passing, NEW p, NEW d
  PROVE  /\ Fits(r, f, p, d) => AboutFrame(t, f, p, d)
         /\ AboutFrame(t, f, p, d) /\ ~ ByIp(t) => Fits(r, f, p, d)
         /\ r.action = t.action
  <1>1. parse(f).l5 = 0
    BY Parsed
  <1>2. strcasecmp(AnyText, AnyText) = 0
    BY DEF strcasecmp
  <1>3. CASE t \in RuleText /\ Valid(t) /\ r = RuleOf(t)
    <2>1. /\ r.port = t.port /\ r.action = t.action /\ r.direction = t.direction
          /\ r.src = AddressKept(t.src) /\ r.dst = AddressKept(t.dst)
          /\ r.proto = IF strcasecmp(t.proto, AnyText) = 0 THEN R_ANY ELSE atoi(t.proto)
      BY <1>3 DEF RuleOf, Rule
    <2>2. ValidAddress(t.src) /\ ValidAddress(t.dst)
      BY <1>3 DEF Valid
    <2>3. /\ AddressFits(r.src, get_src_mac(f), f.src_ip)
               => AddressFits(t.src, get_src_mac(f), f.src_ip)
          /\ AddressFits(r.dst, get_dst_mac(f), f.dst_ip)
               => AddressFits(t.dst, get_dst_mac(f), f.dst_ip)
      BY <1>3, <2>1, TextAssumption
    <2>4. ~ ByIp(t) => r.src = t.src /\ r.dst = t.dst
      BY <2>1, <2>2 DEF ValidAddress, AddressKept, ByIp
    <2>5. r.proto \in {R_ANY, parse(f).l5} <=> t.proto = AnyText \/ atoi(t.proto) = 0
      BY <1>1, <1>2, <1>3, <2>1, TextAssumption
    <2> QED
      BY <2>1, <2>3, <2>4, <2>5 DEF Fits, AboutFrame
  <1>4. CASE t = MockText /\ r = MockRule
    <2>1. /\ r.port = t.port /\ r.action = t.action /\ r.direction = t.direction
          /\ r.src = t.src /\ r.dst = t.dst /\ r.proto = R_ANY /\ t.proto = AnyText
      BY <1>4 DEF MockText, MockRule, Rule
    <2> QED
      BY <2>1 DEF Fits, AboutFrame
  <1> QED
    BY <1>3, <1>4 DEF Made

\* apply_rules stops at the first rule that fits, if there is one.
LEMMA FirstFit ==
  ASSUME RulesOK, NEW f \in Passing, NEW p, NEW d
  PROVE  \/ /\ \A i \in 1 .. Len(rules_ll) : ~ Fits(rules_ll[i], f, p, d)
            /\ apply_rules(f, p, d)
         \/ \E m \in 1 .. Len(rules_ll) :
              /\ Fits(rules_ll[m], f, p, d)
              /\ \A i \in 1 .. Len(rules_ll) : Fits(rules_ll[i], f, p, d) => m <= i
              /\ apply_rules(f, p, d) <=> rules_ll[m].action = "allow"
  <1> DEFINE I == { i \in 1 .. Len(rules_ll) : Fits(rules_ll[i], f, p, d) }
             x == IF I # {} THEN Min(I) ELSE 0
  <1>1. Len(rules_ll) \in Nat
    BY DEF RulesOK
  <1>2. apply_rules(f, p, d)
          <=> (IF x = 0 THEN DEFAULT_ACTION ELSE rules_ll[x].action) = "allow"
    BY DEF apply_rules, SelectInSeq
  <1> HIDE DEF x
  <1>3. CASE I = {}
    <2>1. x = 0
      BY <1>3 DEF x
    <2> QED
      BY <1>2, <1>3, <2>1 DEF DEFAULT_ACTION
  <1>4. CASE I # {}
    <2>0. \E m \in I : \A i \in I : m <= i
      <3>1. I \in SUBSET Nat
        BY <1>1
      <3> HIDE DEF I
      <3> QED
        BY <1>4, <3>1, LeastNatural
    <2>1. PICK m \in I : \A i \in I : m <= i
      BY <2>0
    <2>2. \A i \in I : i \in Int
      BY <1>1
    <2>3. x = CHOOSE i \in I : \A j \in I : i =< j
      BY <1>4 DEF x, Min
    <2> HIDE DEF I
    <2>4. x = m
      BY <2>1, <2>2, <2>3
    <2>5. m # 0
      BY <2>1, <1>1 DEF I
    <2>6. apply_rules(f, p, d) <=> rules_ll[m].action = "allow"
      BY <1>2, <2>4, <2>5
    <2>7. m \in 1 .. Len(rules_ll) /\ Fits(rules_ll[m], f, p, d)
      BY <2>1 DEF I
    <2>8. \A i \in 1 .. Len(rules_ll) : Fits(rules_ll[i], f, p, d) => m <= i
      BY <2>1 DEF I
    <2> QED
      BY <2>6, <2>7, <2>8
  <1> QED
    BY <1>3, <1>4

LEMMA RulesDecide ==
  ASSUME RulesOK
  PROVE  NewestDecides
  <1> SUFFICES ASSUME NEW f \in Passing, NEW p \in Port, NEW d \in Direction
               PROVE  LET I == About(f, p, d)
                      IN  /\ I = {} => apply_rules(f, p, d)
                          /\ \A i \in I : Newest(i, I) /\ ~ ByIp(accepted[i]) =>
                               (apply_rules(f, p, d) <=> accepted[i].action = "allow")
    BY DEF NewestDecides
  <1> DEFINE n == Len(accepted)
             I == About(f, p, d)
  <1>1. n \in Nat /\ Len(rules_ll) = n /\ DOMAIN accepted = 1 .. n
    BY DEF RulesOK
  <1>2. \A i \in 1 .. n : Made(rules_ll[i], accepted[n + 1 - i])
    BY DEF RulesOK
  <1> HIDE DEF n
  <1>3. ASSUME NEW i \in 1 .. n
        PROVE  /\ n + 1 - i \in 1 .. n
               /\ Fits(rules_ll[i], f, p, d) => n + 1 - i \in I
               /\ n + 1 - i \in I /\ ~ ByIp(accepted[n + 1 - i]) => Fits(rules_ll[i], f, p, d)
               /\ rules_ll[i].action = accepted[n + 1 - i].action
    <2>1. n + 1 - i \in 1 .. n
      BY <1>1
    <2>2. Made(rules_ll[i], accepted[n + 1 - i])
      BY <1>2
    <2>3. n + 1 - i \in I <=> AboutFrame(accepted[n + 1 - i], f, p, d)
      BY <1>1, <2>1 DEF About
    <2> QED
      BY <2>1, <2>2, <2>3, MadeToFit
  <1>4. I \subseteq 1 .. n
    BY <1>1 DEF About
  <1> HIDE DEF I
  <1>5. \A j \in 1 .. n : n + 1 - j \in 1 .. n /\ n + 1 - (n + 1 - j) = j
    BY <1>1
  <1>6. \A j \in I : ~ ByIp(accepted[j]) =>
          n + 1 - j \in 1 .. n /\ Fits(rules_ll[n + 1 - j], f, p, d)
    BY <1>3, <1>4, <1>5
  <1>7. CASE /\ \A i \in 1 .. n : ~ Fits(rules_ll[i], f, p, d)
             /\ apply_rules(f, p, d)
    BY <1>6, <1>7 DEF I
  <1>8. ASSUME NEW m \in 1 .. n,
               Fits(rules_ll[m], f, p, d),
               \A i \in 1 .. n : Fits(rules_ll[i], f, p, d) => m <= i,
               apply_rules(f, p, d) <=> rules_ll[m].action = "allow"
        PROVE  /\ I = {} => apply_rules(f, p, d)
               /\ \A i \in I : Newest(i, I) /\ ~ ByIp(accepted[i]) =>
                    (apply_rules(f, p, d) <=> accepted[i].action = "allow")
    <2> DEFINE k == n + 1 - m
    <2>1. k \in I /\ rules_ll[m].action = accepted[k].action
      BY <1>3, <1>8
    <2>2. ASSUME NEW i \in I, Newest(i, I), ~ ByIp(accepted[i])
          PROVE  i = k
      <3>1. m <= n + 1 - i
        BY <1>6, <1>8, <2>2
      <3>2. k <= i
        BY <2>1, <2>2 DEF Newest
      <3>3. i \in 1 .. n /\ m \in 1 .. n
        BY <1>4
      <3> QED
        BY <1>1, <3>1, <3>2, <3>3
    <2> HIDE DEF k
    <2> QED
      BY <1>8, <2>1, <2>2
  <1> QED
    BY <1>1, <1>7, <1>8, FirstFit DEF I

(***************************************************************************)
(* Whatever rules are added, in whatever order, a frame none is about      *)
(* passes, and the newest of those that are about it, as they were typed,  *)
(* decides over it unless it names an IP address (rules.h).                *)
(***************************************************************************)
THEOREM NewestRule == FunctionsSpec => []NewestDecides
  <1>1. FunctionsInit => RulesOK
    BY DEF FunctionsInit, InitFilter, RulesOK
  <1>2. RulesOK /\ [FunctionsNext]_allVars => RulesOK'
    <2> SUFFICES ASSUME RulesOK, [FunctionsNext]_allVars PROVE RulesOK'
      OBVIOUS
    <2>1. CASE create_rule
      <3>1. PICK t \in RuleText :
              IF Valid(t) THEN LL_add_to_front(RuleOf(t)) /\ accepted' = Append(accepted, t)
              ELSE UNCHANGED <<rules_ll, accepted>>
        BY <2>1 DEF create_rule
      <3>2. CASE Valid(t)
        <4>1. LL_add_to_front(RuleOf(t)) /\ accepted' = Append(accepted, t)
          BY <3>1, <3>2
        <4>2. Made(RuleOf(t), t) /\ RuleOf(t) \in Rules /\ t \in Texts
          BY <3>2 DEF Made, Rules, Texts
        <4> QED
          BY <4>1, <4>2, RuleAdded
      <3>3. CASE ~ Valid(t)
        <4>1. rules_ll' = rules_ll /\ accepted' = accepted
          BY <3>1, <3>3
        <4> QED
          BY <4>1 DEF RulesOK
      <3> QED
        BY <3>2, <3>3
    <2>2. CASE mock_rule
      <3>1. LL_add_to_front(MockRule) /\ accepted' = Append(accepted, MockText)
        BY <2>2 DEF mock_rule, MockText
      <3>2. Made(MockRule, MockText) /\ MockRule \in Rules /\ MockText \in Texts
        BY DEF Made, Rules, Texts
      <3> QED
        BY <3>1, <3>2, RuleAdded
    <2>3. CASE rules_ll' = rules_ll /\ accepted' = accepted
      BY <2>3 DEF RulesOK
    <2>4. create_rule \/ mock_rule \/ (rules_ll' = rules_ll /\ accepted' = accepted)
      BY DEF FunctionsNext, OtherAddress, LongerBuffer, LongerIp, LongerCommand, Longer,
             LongerLine, Filtering, Linking, update_stats, allVars, filterVars
    <2> QED
      BY <2>1, <2>2, <2>3, <2>4
  <1>3. RulesOK => NewestDecides
    BY RulesDecide
  <1> QED
    BY <1>1, <1>2, <1>3, PTL DEF FunctionsSpec

(***************************************************************************)
(* Command lines.                                                          *)
(***************************************************************************)
LEMMA PartOf ==
  ASSUME NEW C, NEW s \in Seq(C), NEW m \in 1 .. Len(s) + 1, NEW n \in 0 .. Len(s)
  PROVE  /\ SubSeq(s, m, n) \in Seq(C)
         /\ Len(SubSeq(s, m, n)) = IF m <= n THEN n - m + 1 ELSE 0
         /\ DOMAIN SubSeq(s, m, n) = 1 .. (IF m <= n THEN n - m + 1 ELSE 0)
         /\ \A i \in 1 .. n - m + 1 : SubSeq(s, m, n)[i] = s[m + i - 1]
  <1>1. m \in Int /\ n \in Int /\ Len(s) \in Nat /\ \A i \in m .. n : s[i] \in C
    OBVIOUS
  <1>2. /\ SubSeq(s, m, n) \in Seq(C)
        /\ Len(SubSeq(s, m, n)) = IF m <= n THEN n - m + 1 ELSE 0
        /\ \A i \in 1 .. n - m + 1 : SubSeq(s, m, n)[i] = s[m + i - 1]
    BY <1>1, SubSeqProperties, SMT
  <1>3. DOMAIN SubSeq(s, m, n) = 1 .. Len(SubSeq(s, m, n))
    BY <1>2
  <1> QED
    BY <1>2, <1>3

Blank(s) == \A i \in DOMAIN s : isspace(s[i])

LEMMA BlankPart ==
  ASSUME NEW C, NEW s \in Seq(C), NEW m \in 1 .. Len(s) + 1, NEW n \in 0 .. Len(s),
         \A i \in m .. n : isspace(s[i])
  PROVE  Blank(SubSeq(s, m, n))
  <1> SUFFICES ASSUME NEW i \in DOMAIN SubSeq(s, m, n)
               PROVE  isspace(SubSeq(s, m, n)[i])
    BY DEF Blank
  <1>1. Len(s) \in Nat
    OBVIOUS
  <1>2. i \in 1 .. n - m + 1 /\ m + i - 1 \in m .. n
    BY <1>1, PartOf
  <1>3. SubSeq(s, m, n)[i] = s[m + i - 1]
    BY <1>2, PartOf
  <1> QED
    BY <1>2, <1>3

LEMMA GreatestNatural ==
  ASSUME NEW N \in Nat, NEW S \in SUBSET (1 .. N), S # {}
  PROVE  \E n \in S : \A m \in S : m <= n
  <1> DEFINE T == { N - n : n \in S }
  <1>1. \A m \in S : N - m \in T
    OBVIOUS
  <1>2. T \in SUBSET Nat /\ T # {}
    <2>1. T \in SUBSET Nat
      OBVIOUS
    <2> QED
      BY <1>1, <2>1
  <1>3. \A t \in T : \E n \in S : t = N - n
    OBVIOUS
  <1> HIDE DEF T
  <1>4. PICK t \in T : \A u \in T : t <= u
    BY <1>2, LeastNatural
  <1>5. PICK n \in S : t = N - n
    BY <1>3
  <1>6. \A m \in S : N - n <= N - m
    BY <1>1, <1>4, <1>5
  <1> QED
    BY <1>6

\* str_trim takes the blanks from both ends of a text, and nothing else.
LEMMA Trimmed ==
  ASSUME NEW C, NEW s \in Seq(C)
  PROVE  /\ \E i, j \in 0 .. Len(s) :
              /\ Blank(SubSeq(s, 1, i))
              /\ str_trim(s) = SubSeq(s, i + 1, j)
              /\ Blank(SubSeq(s, j + 1, Len(s)))
         /\ str_trim(s) # << >> => ~ isspace(Head(str_trim(s))) /\ ~ isspace(Last(str_trim(s)))
  <1>1. Len(s) \in Nat /\ DOMAIN s = 1 .. Len(s)
    OBVIOUS
  <1> DEFINE Solid == { i \in DOMAIN s : ~ isspace(s[i]) }
             a == CHOOSE i \in Solid : \A j \in Solid : i <= j
             b == CHOOSE i \in Solid : \A j \in Solid : j <= i
  <1>2. Solid \in SUBSET Nat /\ Solid \in SUBSET (1 .. Len(s))
    BY <1>1
  <1>3. \A i \in 1 .. Len(s) : i \notin Solid => isspace(s[i])
    BY <1>1
  <1>4. \A i \in Solid : ~ isspace(s[i])
    OBVIOUS
  <1>5. str_trim(s) = IF Solid = {} THEN << >> ELSE SubSeq(s, a, b)
    BY DEF str_trim
  <1> HIDE DEF Solid
  <1>6. CASE Solid = {}
    <2>1. str_trim(s) = << >> /\ SubSeq(s, 0 + 1, 0) = << >>
      BY <1>5, <1>6, SubSeqEmpty
    <2>2. Blank(SubSeq(s, 1, 0)) /\ Blank(SubSeq(s, 0 + 1, Len(s)))
      BY <1>1, <1>3, <1>6, BlankPart
    <2>3. 0 \in 0 .. Len(s)
      BY <1>1
    <2> QED
      BY <2>1, <2>2, <2>3
  <1>7. CASE Solid # {}
    <2>1. \E i \in Solid : \A j \in Solid : i <= j
      BY <1>2, <1>7, LeastNatural
    <2>2. \E i \in Solid : \A j \in Solid : j <= i
      BY <1>1, <1>2, <1>7, GreatestNatural
    <2>3. /\ a \in Solid /\ \A j \in Solid : a <= j
          /\ b \in Solid /\ \A j \in Solid : j <= b
      BY <2>1, <2>2
    <2>4. str_trim(s) = SubSeq(s, a, b)
      BY <1>5, <1>7
    <2> HIDE DEF a, b
    <2>5. a \in 1 .. Len(s) /\ b \in 1 .. Len(s) /\ a <= b
      BY <1>2, <2>3
    <2>6. \A i \in 1 .. Len(s) : i < a \/ b < i => isspace(s[i])
      BY <1>3, <2>3, <2>5
    <2>7. Blank(SubSeq(s, 1, a - 1))
      <3>1. a - 1 \in 0 .. Len(s) /\ 1 \in 1 .. Len(s) + 1
        BY <1>1, <2>5
      <3>2. \A i \in 1 .. a - 1 : isspace(s[i])
        BY <1>1, <2>5, <2>6
      <3> QED
        BY <3>1, <3>2, BlankPart
    <2>8. Blank(SubSeq(s, b + 1, Len(s)))
      <3>1. b + 1 \in 1 .. Len(s) + 1 /\ Len(s) \in 0 .. Len(s)
        BY <1>1, <2>5
      <3>2. \A i \in b + 1 .. Len(s) : isspace(s[i])
        BY <1>1, <2>5, <2>6
      <3> QED
        BY <3>1, <3>2, BlankPart
    <2>9. a - 1 \in 0 .. Len(s) /\ b \in 0 .. Len(s) /\ (a - 1) + 1 = a
      BY <1>1, <2>5
    <2>10. Head(str_trim(s)) = s[a] /\ Last(str_trim(s)) = s[b]
      <3>1. a \in 1 .. Len(s) + 1 /\ b \in 0 .. Len(s)
        BY <1>1, <2>5
      <3>2. /\ Len(SubSeq(s, a, b)) = b - a + 1
            /\ \A i \in 1 .. b - a + 1 : SubSeq(s, a, b)[i] = s[a + i - 1]
        BY <2>5, <3>1, PartOf
      <3>3. 1 \in 1 .. b - a + 1 /\ b - a + 1 \in 1 .. b - a + 1
            /\ a + 1 - 1 = a /\ a + (b - a + 1) - 1 = b
        BY <2>5
      <3>4. SubSeq(s, a, b)[1] = s[a] /\ SubSeq(s, a, b)[b - a + 1] = s[b]
        BY <3>2, <3>3
      <3>5. Head(SubSeq(s, a, b)) = s[a]
        BY <2>5, HeadTailOfSubSeq
      <3>6. Last(SubSeq(s, a, b)) = s[b]
        BY <3>2, <3>4 DEF Last
      <3> QED
        BY <2>4, <3>5, <3>6
    <2> QED
      BY <1>4, <2>3, <2>4, <2>7, <2>8, <2>9, <2>10
  <1> QED
    BY <1>6, <1>7

\* split_cmd cuts a text in two before its first space.
LEMMA SplitInTwo ==
  ASSUME NEW C, NEW s \in Seq(C), "none" \notin C
  PROVE  /\ split_cmd(s).name = NoName => Space \notin ToSet(s)
         /\ split_cmd(s).name # NoName =>
              /\ split_cmd(s).name \in Seq(C) /\ split_cmd(s).arguments \in Seq(C)
              /\ split_cmd(s).name \o split_cmd(s).arguments = s
              /\ Space \notin ToSet(split_cmd(s).name)
  <1>1. Len(s) \in Nat /\ DOMAIN s = 1 .. Len(s)
    OBVIOUS
  <1> DEFINE I == { i \in 1 .. Len(s) : s[i] = Space }
             pos == IF I # {} THEN Min(I) ELSE 0
             name == SubSeq(s, 1, pos - 1)
             arguments == SubSeq(s, pos, Len(s))
  <1>2. split_cmd(s) = IF pos = 0 THEN [name |-> NoName, arguments |-> << >>]
                       ELSE [name |-> name, arguments |-> arguments]
    BY DEF split_cmd, SelectInSeq
  <1>3. CASE I = {}
    <2>1. pos = 0
      BY <1>3
    <2>2. split_cmd(s).name = NoName
      BY <1>2, <2>1
    <2>3. Space \notin ToSet(s)
      BY <1>1, <1>3 DEF ToSet
    <2> QED
      BY <2>2, <2>3
  <1>4. CASE I # {}
    <2>1. \E i \in I : \A j \in I : i =< j
      <3>1. I \in SUBSET Nat
        BY <1>1
      <3> HIDE DEF I
      <3> QED
        BY <1>4, <3>1, LeastNatural
    <2>2. pos \in I /\ \A j \in I : pos <= j
      BY <1>4, <2>1 DEF Min
    <2> HIDE DEF pos
    <2>3. pos \in 1 .. Len(s) /\ \A j \in 1 .. Len(s) : j < pos => s[j] # Space
      BY <1>1, <2>2
    <2>4. split_cmd(s).name = name /\ split_cmd(s).arguments = arguments
      BY <1>2, <2>3
    <2>5. /\ 1 \in 1 .. Len(s) + 1 /\ pos - 1 \in 0 .. Len(s)
          /\ pos \in 1 .. Len(s) + 1 /\ Len(s) \in 0 .. Len(s)
      BY <1>1, <2>3
    <2>6. /\ name \in Seq(C) /\ Len(name) = pos - 1
          /\ DOMAIN name = 1 .. pos - 1
          /\ \A i \in 1 .. pos - 1 : name[i] = s[i]
      <3>1. /\ name \in Seq(C)
            /\ Len(name) = IF 1 <= pos - 1 THEN pos - 1 - 1 + 1 ELSE 0
            /\ \A i \in 1 .. pos - 1 - 1 + 1 : name[i] = s[1 + i - 1]
        BY <2>5, PartOf
      <3> HIDE DEF name
      <3>2. Len(name) = pos - 1 /\ \A i \in 1 .. pos - 1 : name[i] = s[i]
        BY <2>3, <3>1
      <3> QED
        BY <3>1, <3>2
    <2>7. /\ arguments \in Seq(C) /\ Len(arguments) = Len(s) - pos + 1
          /\ \A i \in 1 .. Len(s) - pos + 1 : arguments[i] = s[pos + i - 1]
      BY <2>3, <2>5, PartOf
    <2> HIDE DEF name, arguments
    <2>8. Space \notin ToSet(name)
      BY <1>1, <2>3, <2>6 DEF ToSet
    <2>9. name \o arguments = s
      <3>1. /\ name \o arguments \in Seq(C)
            /\ Len(name \o arguments) = Len(name) + Len(arguments)
            /\ \A i \in 1 .. Len(name) + Len(arguments) : (name \o arguments)[i] =
                 IF i <= Len(name) THEN name[i] ELSE arguments[i - Len(name)]
        BY <2>6, <2>7, ConcatProperties, Zenon
      <3> DEFINE all == name \o arguments
      <3>2. all \in Seq(C) /\ Len(all) = Len(s)
        BY <1>1, <2>3, <2>6, <2>7, <3>1
      <3>3. ASSUME NEW i \in 1 .. Len(s) PROVE all[i] = s[i]
        <4>1. all[i] = IF i <= Len(name) THEN name[i] ELSE arguments[i - Len(name)]
          BY <1>1, <2>3, <2>6, <2>7, <3>1
        <4>2. CASE i <= pos - 1
          BY <1>1, <2>3, <2>6, <4>1, <4>2
        <4>3. CASE ~ (i <= pos - 1)
          <5>1. i - (pos - 1) \in 1 .. Len(s) - pos + 1 /\ pos + (i - (pos - 1)) - 1 = i
            BY <1>1, <2>3, <4>3
          <5>2. arguments[i - (pos - 1)] = s[pos + (i - (pos - 1)) - 1]
            BY <2>7, <5>1
          <5> QED
            BY <2>6, <4>1, <4>3, <5>1, <5>2
        <4> QED
          BY <4>2, <4>3
      <3> HIDE DEF all
      <3>4. all = s
        BY <3>2, <3>3, SeqEqual
      <3> QED
        BY <3>4 DEF all
    <2>10. name # NoName
      <3>1. Len(NoName) = 1 /\ NoName[1] = "none"
        BY DEF NoName
      <3>2. name = NoName => name[1] \in C
        BY <2>6, <3>1
      <3> QED
        BY <3>1, <3>2
    <2> QED
      BY <2>4, <2>6, <2>7, <2>8, <2>9, <2>10
  <1> QED
    BY <1>3, <1>4

TextOK == text \in Seq(MCCmdChars \cup MCIpChars)

LEMMA TextBegun == FunctionsInit => TextOK
  BY DEF FunctionsInit, TextOK

LEMMA TextKept == TextOK /\ [FunctionsNext]_allVars => TextOK'
  <1> SUFFICES ASSUME TextOK, [FunctionsNext]_allVars PROVE TextOK'
    OBVIOUS
  <1>1. \/ text' = text
        \/ \E c \in MCCmdChars \cup MCIpChars : text' = Append(text, c)
    BY DEF FunctionsNext, OtherAddress, LongerBuffer, LongerIp, LongerCommand, Longer,
           LongerLine, Filtering, Linking, allVars, functionVars
  <1> QED
    BY <1>1 DEF TextOK

(***************************************************************************)
(* A command line of any length, of any characters, is the name and what   *)
(* follows it, and the arguments are that without the blanks at both ends  *)
(* (functions.h:284-294, 342-360).                                         *)
(***************************************************************************)
THEOREM AnyCommandRead ==
  ASSUME NEW C, "none" \notin C, NEW s \in Seq(C)
  PROVE  TakenApart(s)
  <1> DEFINE cmd == split_cmd(s)
             args == str_trim(cmd.arguments)
  <1>1. /\ cmd.name = NoName => Space \notin ToSet(s)
        /\ cmd.name # NoName =>
             /\ cmd.name \in Seq(C) /\ cmd.arguments \in Seq(C)
             /\ cmd.name \o cmd.arguments = s
             /\ Space \notin ToSet(cmd.name)
    BY SplitInTwo
  <1> HIDE DEF cmd
  <1>2. cmd.arguments \in Seq(C) =>
          /\ \E i, j \in 0 .. Len(cmd.arguments) :
               /\ Blank(SubSeq(cmd.arguments, 1, i))
               /\ args = SubSeq(cmd.arguments, i + 1, j)
               /\ Blank(SubSeq(cmd.arguments, j + 1, Len(cmd.arguments)))
          /\ args # << >> => ~ isspace(Head(args)) /\ ~ isspace(Last(args))
    BY Trimmed
  <1> QED
    BY <1>1, <1>2 DEF TakenApart, Blank, cmd

(***************************************************************************)
(* The command lines of the composed model are taken apart like that       *)
(* (functions.h:284).                                                      *)
(***************************************************************************)
THEOREM CommandsRead == FunctionsSpec => []CommandRead
  <1>1. FunctionsInit => TextOK
    BY TextBegun
  <1>2. TextOK /\ [FunctionsNext]_allVars => TextOK'
    BY TextKept
  <1>3. TextOK => CommandRead
    <2>1. "none" # Space
      BY Zenon DEF Space
    <2>2. "none" \notin MCCmdChars \cup MCIpChars
      BY <2>1 DEF MCCmdChars, MCIpChars
    <2> QED
      BY <2>2, AnyCommandRead DEF TextOK, CommandRead
  <1> QED
    BY <1>1, <1>2, <1>3, PTL DEF FunctionsSpec

(***************************************************************************)
(* FoldLeft is made of a recursive function over the sets of positions.    *)
(* Of such a function only what it says of the first k positions matters:  *)
(* f walks s from base by step, a function from A and B to A.              *)
(***************************************************************************)
Walks(f, A, B, step, base, s) ==
  /\ base \in A /\ step \in [A \X B -> A] /\ s \in Seq(B)
  /\ f[{}] = base
  /\ \A k \in 1 .. Len(s) : f[1 .. k - 1] \in A => f[1 .. k] = step[f[1 .. k - 1], s[k]]

\* The equation over all sets of positions, of which there is always an answer.
Solves(f, step, base, s) ==
  f = [p \in SUBSET DOMAIN s |-> IF p = {} THEN base
                                 ELSE step[f[p \ {Max(p)}], s[Max(p)]]]

LEMMA GreatestOf ==
  ASSUME NEW n \in Nat, NEW p \in SUBSET (1 .. n), p # {}
  PROVE  /\ Max(p) \in p /\ \A i \in p : i <= Max(p)
  <1> DEFINE Tops == { m \in Nat : \A i \in p : i <= m }
  <1>1. n \in Tops
    OBVIOUS
  <1>2. Tops \in SUBSET Nat /\ Tops # {}
    BY <1>1
  <1>3. PICK m \in Tops : \A j \in Tops : m <= j
    BY <1>2, LeastNatural
  <1>4. m \in p
    <2> SUFFICES ASSUME m \notin p PROVE FALSE
      OBVIOUS
    <2>1. PICK i \in p : i \in 1 .. n
      OBVIOUS
    <2>2. m \in Nat /\ \A j \in p : j <= m /\ j # m /\ j \in Nat
      OBVIOUS
    <2>3. m - 1 \in Nat /\ \A j \in p : j <= m - 1
      <3>1. i <= m /\ i # m /\ i \in Nat /\ i >= 1
        BY <2>1, <2>2
      <3> QED
        BY <2>2, <3>1
    <2>4. m - 1 \in Tops
      BY <2>3
    <2> HIDE DEF Tops
    <2> QED
      BY <1>3, <2>2, <2>4
  <1> QED
    BY <1>4 DEF Max

LEMMA FirstOnes ==
  ASSUME NEW k \in Nat, k # 0
  PROVE  1 .. k # {} /\ Max(1 .. k) = k /\ (1 .. k) \ {k} = 1 .. k - 1
  <1>1. k \in 1 .. k
    OBVIOUS
  <1>2. Max(1 .. k) \in 1 .. k /\ \A i \in 1 .. k : i <= Max(1 .. k)
    BY <1>1, GreatestOf
  <1> QED
    BY <1>1, <1>2

LEMMA Solvable ==
  ASSUME NEW A, NEW B, NEW base \in A, NEW step \in [A \X B -> A], NEW s \in Seq(B)
  PROVE  \E f \in [SUBSET DOMAIN s -> A] : Solves(f, step, base, s)
  <1> DEFINE Eq(f, n) == /\ f \in [SUBSET (1 .. n) -> A]
                         /\ \A p \in SUBSET (1 .. n) :
                              f[p] = IF p = {} THEN base
                                     ELSE step[<<f[p \ {Max(p)}], s[Max(p)]>>]
             N == Len(s)
             S == { n \in Nat : n <= N /\ ~ \E f : Eq(f, n) }
  <1>1. N \in Nat /\ DOMAIN s = 1 .. N /\ \A i \in 1 .. N : s[i] \in B
    OBVIOUS
  <1> HIDE DEF N
  <1>2. S = {}
    <2> SUFFICES ASSUME S # {} PROVE FALSE
      OBVIOUS
    <2>1. S \in SUBSET Nat
      OBVIOUS
    <2> HIDE DEF S
    <2>2. PICK n \in S : \A j \in S : n <= j
      BY <2>1, LeastNatural
    <2>3. n \in Nat /\ n <= N /\ ~ \E f : Eq(f, n)
      BY <2>2 DEF S
    <2>4. n # 0
      <3> SUFFICES ASSUME n = 0 PROVE FALSE
        OBVIOUS
      <3> DEFINE g == [p \in SUBSET (1 .. n) |-> base]
      <3>1. \A p \in SUBSET (1 .. n) : p = {}
        OBVIOUS
      <3>2. Eq(g, n)
        BY <3>1
      <3> QED
        BY <2>3, <3>2
    <2>5. PICK f : Eq(f, n - 1)
      <3>1. n - 1 \in Nat /\ n - 1 <= N /\ n - 1 \notin S
        BY <1>1, <2>2, <2>3, <2>4
      <3> QED
        BY <3>1 DEF S
    <2> DEFINE g == [p \in SUBSET (1 .. n) |->
                       IF n \in p THEN step[<<f[p \ {n}], s[n]>>] ELSE f[p]]
    <2>6. \A p \in SUBSET (1 .. n) : p \ {n} \in SUBSET (1 .. n - 1)
      BY <2>3
    <2>7. s[n] \in B
      BY <1>1, <2>3, <2>4
    <2>8. g \in [SUBSET (1 .. n) -> A]
      <3> SUFFICES ASSUME NEW p \in SUBSET (1 .. n)
                   PROVE  (IF n \in p THEN step[<<f[p \ {n}], s[n]>>] ELSE f[p]) \in A
        OBVIOUS
      <3>1. f[p \ {n}] \in A
        BY <2>5, <2>6
      <3>2. n \notin p => p \ {n} = p
        OBVIOUS
      <3> QED
        BY <2>7, <3>1, <3>2
    <2>9. ASSUME NEW p \in SUBSET (1 .. n), p # {}
          PROVE  g[p] = step[<<g[p \ {Max(p)}], s[Max(p)]>>]
      <3>1. Max(p) \in p /\ \A i \in p : i <= Max(p)
        BY <2>3, <2>9, GreatestOf
      <3>2. CASE n \in p
        <4>1. Max(p) = n
          <5>1. Max(p) \in 1 .. n /\ n <= Max(p)
            BY <3>1, <3>2
          <5> QED
            BY <2>3, <5>1
        <4>2. g[p \ {n}] = f[p \ {n}] /\ g[p] = step[<<f[p \ {n}], s[n]>>]
          BY <3>2
        <4> HIDE DEF g
        <4> QED
          BY <4>1, <4>2
      <3>3. CASE n \notin p
        <4>1. p \in SUBSET (1 .. n - 1)
          BY <2>6, <3>3
        <4>2. f[p] = step[<<f[p \ {Max(p)}], s[Max(p)]>>]
          BY <2>5, <2>9, <4>1
        <4>3. g[p] = f[p] /\ g[p \ {Max(p)}] = f[p \ {Max(p)}]
          BY <3>3
        <4> QED
          BY <4>2, <4>3
      <3> QED
        BY <3>2, <3>3
    <2>10. g[{}] = base
      <3>1. f[{}] = base
        BY <2>5
      <3> QED
        BY <3>1
    <2> HIDE DEF g
    <2>11. Eq(g, n)
      BY <2>8, <2>9, <2>10
    <2> QED
      BY <2>3, <2>11
  <1>3. \E f : Eq(f, N)
    <2>1. N \in Nat /\ N <= N /\ N \notin S
      <3> HIDE DEF S
      <3> QED
        BY <1>1, <1>2
    <2> HIDE DEF Eq
    <2> QED
      BY <2>1
  <1>8. PICK f : Eq(f, N)
    BY <1>3
  <1>4. f \in [SUBSET DOMAIN s -> A]
    BY <1>1, <1>8
  <1>5. f = [p \in SUBSET DOMAIN s |-> f[p]]
    BY <1>4
  <1>6. \A p \in SUBSET DOMAIN s :
          f[p] = IF p = {} THEN base ELSE step[f[p \ {Max(p)}], s[Max(p)]]
    BY <1>1, <1>8
  <1>7. Solves(f, step, base, s)
    BY <1>5, <1>6 DEF Solves
  <1> QED
    BY <1>4, <1>7

LEMMA WalksTogether ==
  ASSUME NEW A, NEW B, NEW base, NEW step, NEW s, NEW t, NEW f, NEW g, NEW m \in Nat,
         m <= Len(s), m <= Len(t), \A k \in 1 .. m : s[k] = t[k],
         Walks(f, A, B, step, base, s), Walks(g, A, B, step, base, t)
  PROVE  f[1 .. m] = g[1 .. m] /\ f[1 .. m] \in A
  <1> DEFINE S == { n \in Nat : n <= m /\ ~ (f[1 .. n] = g[1 .. n] /\ f[1 .. n] \in A) }
  <1> SUFFICES ASSUME S # {} PROVE FALSE
    OBVIOUS
  <1>0. /\ base \in A /\ step \in [A \X B -> A] /\ s \in Seq(B) /\ t \in Seq(B)
        /\ f[{}] = base /\ g[{}] = base
    BY DEF Walks
  <1>1. S \in SUBSET Nat
    OBVIOUS
  <1>2. PICK n \in S : \A j \in S : n <= j
    BY <1>1, LeastNatural
  <1>3. n \in Nat /\ n <= m /\ ~ (f[1 .. n] = g[1 .. n] /\ f[1 .. n] \in A)
    OBVIOUS
  <1>4. n # 0
    <2>1. 1 .. 0 = {}
      OBVIOUS
    <2> QED
      BY <1>0, <1>3, <2>1
  <1>5. f[1 .. n - 1] = g[1 .. n - 1] /\ f[1 .. n - 1] \in A
    <2>1. n - 1 \in Nat /\ n - 1 <= m /\ ~ (n <= n - 1)
      BY <1>3, <1>4
    <2>2. n - 1 \notin S
      <3> HIDE DEF S
      <3> QED
        BY <1>2, <2>1
    <2> QED
      BY <2>1, <2>2
  <1>6. n \in 1 .. Len(s) /\ n \in 1 .. Len(t) /\ s[n] = t[n] /\ s[n] \in B
    BY <1>0, <1>3, <1>4
  <1>7. f[1 .. n] = step[f[1 .. n - 1], s[n]] /\ g[1 .. n] = step[g[1 .. n - 1], t[n]]
    <2>1. f[1 .. n - 1] \in A /\ g[1 .. n - 1] \in A
      BY <1>5
    <2> QED
      BY <1>6, <2>1 DEF Walks
  <1>8. step[f[1 .. n - 1], s[n]] \in A
    BY <1>0, <1>5, <1>6
  <1> QED
    BY <1>3, <1>5, <1>6, <1>7, <1>8

StepMore(f, g, A, step, s, v) ==
  f[1 .. Len(s)] \in A /\ g[1 .. Len(s) + 1] = step[f[1 .. Len(s)], v]

\* One element more is one step more.
LEMMA WalkOneMore ==
  ASSUME NEW A, NEW B, NEW base, NEW step, NEW s, NEW v, NEW f, NEW g,
         Walks(f, A, B, step, base, s), Walks(g, A, B, step, base, Append(s, v))
  PROVE  StepMore(f, g, A, step, s, v)
  <1> DEFINE t == Append(s, v)
  <1>0. s \in Seq(B) /\ t \in Seq(B)
    BY DEF Walks
  <1>1. /\ Len(t) = Len(s) + 1 /\ t[Len(s) + 1] = v
        /\ \A k \in 1 .. Len(s) : s[k] = t[k]
        /\ Len(s) \in Nat /\ Len(s) <= Len(s) /\ Len(s) <= Len(t)
    BY <1>0
  <1>2. Walks(g, A, B, step, base, t)
    OBVIOUS
  <1> HIDE DEF t
  <1>3. f[1 .. Len(s)] = g[1 .. Len(s)] /\ f[1 .. Len(s)] \in A
    BY <1>1, <1>2, WalksTogether
  <1>4. ASSUME NEW k \in 1 .. Len(t), g[1 .. k - 1] \in A
        PROVE  g[1 .. k] = step[g[1 .. k - 1], t[k]]
    BY <1>2, <1>4 DEF Walks
  <1>5. PICK k : k = Len(s) + 1
    OBVIOUS
  <1>6. k \in 1 .. Len(t) /\ k - 1 = Len(s) /\ g[1 .. k - 1] \in A
    BY <1>1, <1>3, <1>5
  <1>7. g[1 .. k] = step[g[1 .. k - 1], t[k]]
    BY <1>4, <1>6
  <1> QED
    BY <1>1, <1>3, <1>5, <1>6, <1>7 DEF StepMore

Adds == [p \in Nat \X Nat |-> p[1] + p[2]]

LEMMA TotalWalks ==
  ASSUME NEW w \in Seq(Nat)
  PROVE  \E f : Walks(f, Nat, Nat, Adds, 0, w) /\ Total(w) = f[1 .. Len(w)]
  <1> DEFINE Sums(f) == f = [p \in SUBSET DOMAIN w |->
                               IF p = {} THEN 0 ELSE f[p \ {Max(p)}] + w[Max(p)]]
  <1>1. \E f : Sums(f)
    <2>1. PICK f \in [SUBSET DOMAIN w -> Nat] : Solves(f, Adds, 0, w)
      <3>1. Adds \in [Nat \X Nat -> Nat]
        BY DEF Adds
      <3> QED
        BY <3>1, Solvable
    <2>2. ASSUME NEW p \in SUBSET DOMAIN w, p # {}
          PROVE  f[p] = f[p \ {Max(p)}] + w[Max(p)]
      <3>1. Max(p) \in DOMAIN w
        <4>1. DOMAIN w = 1 .. Len(w) /\ Len(w) \in Nat
          OBVIOUS
        <4> QED
          BY <2>2, <4>1, GreatestOf
      <3>2. f[p] = Adds[f[p \ {Max(p)}], w[Max(p)]]
        BY <2>1, <2>2 DEF Solves
      <3>3. f[p \ {Max(p)}] \in Nat /\ w[Max(p)] \in Nat
        BY <3>1
      <3> QED
        BY <3>2, <3>3 DEF Adds
    <2>3. f[{}] = 0
      BY <2>1 DEF Solves
    <2> QED
      BY <2>1, <2>2, <2>3
  <1>2. PICK f : Sums(f) /\ Total(w) = f[DOMAIN w]
    BY <1>1 DEF Total, FoldLeft, MapThenFoldSet
  <1>3. Walks(f, Nat, Nat, Adds, 0, w)
    <2>1. f[{}] = 0
      BY <1>2
    <2>2. ASSUME NEW k \in 1 .. Len(w), f[1 .. k - 1] \in Nat
          PROVE  f[1 .. k] = Adds[f[1 .. k - 1], w[k]]
      <3>1. 1 .. k \in SUBSET DOMAIN w /\ w[k] \in Nat
        OBVIOUS
      <3>2. 1 .. k # {} /\ Max(1 .. k) = k /\ (1 .. k) \ {k} = 1 .. k - 1
        <4>1. k \in Nat /\ k # 0
          OBVIOUS
        <4> QED
          BY <4>1, FirstOnes
      <3>3. f[1 .. k] = f[1 .. k - 1] + w[k]
        BY <1>2, <3>1, <3>2
      <3> QED
        BY <2>2, <3>1, <3>3 DEF Adds
    <2>3. 0 \in Nat /\ Adds \in [Nat \X Nat -> Nat]
      BY DEF Adds
    <2> QED
      BY <2>1, <2>2, <2>3 DEF Walks
  <1>4. DOMAIN w = 1 .. Len(w)
    OBVIOUS
  <1> QED
    BY <1>2, <1>3, <1>4

LEMMA TotalOfMore ==
  ASSUME NEW w \in Seq(Nat), NEW v \in Nat
  PROVE  Total(w) \in Nat /\ Total(Append(w, v)) = Total(w) + v
  <1>2. PICK f : Walks(f, Nat, Nat, Adds, 0, w) /\ Total(w) = f[1 .. Len(w)]
    BY TotalWalks
  <1>3. Append(w, v) \in Seq(Nat) /\ Len(Append(w, v)) = Len(w) + 1
    OBVIOUS
  <1>4. PICK g : /\ Walks(g, Nat, Nat, Adds, 0, Append(w, v))
                 /\ Total(Append(w, v)) = g[1 .. Len(w) + 1]
    BY <1>3, TotalWalks
  <1>5. StepMore(f, g, Nat, Adds, w, v)
    BY <1>2, <1>4, WalkOneMore
  <1> QED
    BY <1>2, <1>4, <1>5 DEF Adds, StepMore

LEMMA TotalOfNone == Total(<< >>) = 0
  <1>1. PICK f : Walks(f, Nat, Nat, Adds, 0, << >>) /\ Total(<< >>) = f[1 .. Len(<< >>)]
    <2>1. << >> \in Seq(Nat)
      OBVIOUS
    <2> QED
      BY <2>1, TotalWalks
  <1>2. 1 .. Len(<< >>) = {}
    OBVIOUS
  <1> QED
    BY <1>1, <1>2 DEF Walks

\* What 16 bits hold.
Shorts == { n \in Nat : n <= 65535 }

LEMMA TotalBounded ==
  ASSUME NEW w \in Seq(Shorts)
  PROVE  w \in Seq(Nat) /\ Total(w) \in Nat /\ Total(w) <= 65535 * Len(w)
  <1> DEFINE Words16 == Seq(Shorts)
             S == { n \in Nat : \E x \in Words16 : Len(x) = n /\ ~ (Total(x) <= 65535 * n) }
  <1>1. \A x \in Words16 : x \in Seq(Nat) /\ Len(x) \in Nat
    BY SMT DEF Shorts
  <1>2. \A x \in Seq(Nat) : Total(x) \in Nat
    BY TotalOfMore, SMT
  <1>3. S = {}
    <2> SUFFICES ASSUME S # {} PROVE FALSE
      BY SMT
    <2>1. S \in SUBSET Nat
      BY SMT
    <2>2. PICK n \in S : \A j \in S : n <= j
      <3> HIDE DEF S
      <3> QED
        BY <2>1, LeastNatural, SMT
    <2>3. PICK x \in Words16 : Len(x) = n /\ ~ (Total(x) <= 65535 * n)
      BY SMT
    <2>4. n # 0
      <3> SUFFICES ASSUME n = 0 PROVE FALSE
        BY SMT
      <3>1. x = << >>
        BY <2>3, SMT
      <3> QED
        BY <2>3, <3>1, TotalOfNone, SMT
    <2> DEFINE y == SubSeq(x, 1, n - 1)
    <2>5. y \in Words16 /\ Len(y) = n - 1 /\ x = Append(y, x[n]) /\ x[n] \in Nat /\ x[n] <= 65535
      <3>1. n \in Nat /\ x \in Words16 /\ Len(x) = n /\ n # 0
        BY <2>3, <2>4, SMT
      <3> QED
        BY <3>1, SMT DEF Shorts
    <2> HIDE DEF y
    <2>6. Total(y) <= 65535 * (n - 1)
      <3>1. n - 1 \in Nat /\ ~ (n <= n - 1)
        BY <2>4, SMT
      <3>2. n - 1 \notin S
        <4> HIDE DEF S
        <4> QED
          BY <2>2, <3>1, SMT
      <3> HIDE DEF Words16
      <3> QED
        BY <2>5, <3>1, <3>2, SMT
    <2>7. Total(x) = Total(y) + x[n] /\ Total(y) \in Nat
      <3>1. PICK v : v = x[n]
        OBVIOUS
      <3>2. y \in Seq(Nat) /\ v \in Nat /\ x = Append(y, v)
        BY <1>1, <2>5, <3>1, SMT
      <3>3. Total(Append(y, v)) = Total(y) + v /\ Total(y) \in Nat
        BY <3>2, TotalOfMore, SMT
      <3> HIDE DEF S, Words16
      <3>4. Total(x) = Total(y) + v
        BY <3>2, <3>3, Zenon
      <3> QED
        BY <3>1, <3>3, <3>4, SMT
    <2>8. n \in Nat
      BY <2>2, SMT
    <2> HIDE DEF S
    <2> QED
      BY <2>3, <2>4, <2>5, <2>6, <2>7, <2>8, SMT
  <1>4. ASSUME ~ (Total(w) <= 65535 * Len(w)) PROVE FALSE
    <2>1. Len(w) \in S
      BY <1>4, SMT
    <2> HIDE DEF S
    <2> QED
      BY <1>3, <2>1, SMT
  <1> QED
    BY <1>1, <1>2, <1>4, SMT

\* What twice folded is left of a sum: its remainder by 65535, but 65535 for a
\* multiple of it that is not 0.
Carried(s) == (s + (s \div 2 ^ 16)) % 2 ^ 16
FoldedTwice(sum) == Carried(Fold(sum))

Longs == { n \in Nat : n < 65536 * 65536 }

LEMMA FoldedOnce ==
  ASSUME NEW sum \in Longs
  PROVE  /\ sum \div 65536 \in Nat /\ sum \div 65536 <= 65535
         /\ Fold(sum) \in Nat /\ Fold(sum) <= 131070
         /\ sum = 65535 * (sum \div 65536) + Fold(sum) /\ sum \div 65536 <= Fold(sum)
  <1> DEFINE q == sum \div 65536
             r == sum % 65536
  <1>1. q \in Nat /\ q <= 65535 /\ r \in Nat /\ r <= 65535 /\ sum = 65536 * q + r
    BY SMT DEF Longs
  <1>2. Fold(sum) = r + q
    BY SMT DEF Fold, Longs
  <1> HIDE DEF q, r
  <1>3. Fold(sum) \in Nat /\ Fold(sum) <= 131070 /\ sum = 65535 * q + Fold(sum)
        /\ q <= Fold(sum)
    BY <1>1, <1>2, SMT
  <1> QED
    BY <1>1, <1>3, SMT DEF q

LEMMA FoldedSmall ==
  ASSUME NEW s \in Nat, s <= 131070
  PROVE  /\ Carried(s) \in Nat
         /\ Carried(s) <= 65535
         /\ s < 65536 => Carried(s) = s
         /\ s >= 65536 => Carried(s) = s - 65535
  BY SMT DEF Carried

LEMMA TwiceIsEnough ==
  ASSUME NEW sum \in Longs
  PROVE  /\ FoldedTwice(sum) \in Shorts
         /\ \E m \in Nat : m <= 65536 /\ sum = 65535 * m + FoldedTwice(sum)
         /\ FoldedTwice(sum) = 0 <=> sum = 0
  <1> DEFINE q == sum \div 65536
             s == Fold(sum)
             r == FoldedTwice(sum)
  <1>1. /\ q \in Nat /\ q <= 65535 /\ s \in Nat /\ s <= 131070
        /\ sum = 65535 * q + s /\ q <= s
    BY FoldedOnce, SMT
  <1>2. /\ r \in Nat /\ r <= 65535
        /\ s < 65536 => r = s
        /\ s >= 65536 => r = s - 65535
    BY <1>1, FoldedSmall, SMT DEF FoldedTwice
  <1> HIDE DEF q, s, r
  <1>3. \E m \in Nat : m <= 65536 /\ sum = 65535 * m + r
    <2>1. CASE s < 65536
      BY <1>1, <1>2, <2>1, SMT
    <2>2. CASE s >= 65536
      <3>1. sum = 65535 * (q + 1) + r /\ q + 1 \in Nat /\ q + 1 <= 65536
        BY <1>1, <1>2, <2>2, SMT
      <3> QED
        BY <3>1, SMT
    <2> QED
      BY <1>1, <2>1, <2>2, SMT
  <1>4. r = 0 <=> sum = 0
    <2>1. CASE s < 65536
      BY <1>1, <1>2, <2>1, SMT
    <2>2. CASE s >= 65536
      BY <1>1, <1>2, <2>2, SMT
    <2> QED
      BY <1>1, <2>1, <2>2, SMT
  <1>5. r \in Shorts
    BY <1>2, SMT DEF Shorts
  <1> QED
    BY <1>3, <1>4, <1>5, SMT DEF r

LEMMA WordsAre ==
  ASSUME NEW b \in Seq(Byte)
  PROVE  /\ Words(b) \in Seq(Shorts) /\ Words(b) \in Seq(Nat)
         /\ Len(Words(b)) = Len(b) \div 2
         /\ \A i \in 1 .. Len(b) \div 2 : Words(b)[i] = Word(b[2 * i - 1], b[2 * i])
  <1>1. Len(b) \in Nat /\ Len(b) \div 2 \in Nat
    OBVIOUS
  <1>2. ASSUME NEW i \in 1 .. Len(b) \div 2
        PROVE  Word(b[2 * i - 1], b[2 * i]) \in Shorts /\ Word(b[2 * i - 1], b[2 * i]) \in Nat
    <2>1. 2 * i - 1 \in 1 .. Len(b) /\ 2 * i \in 1 .. Len(b)
      BY <1>1, SMT
    <2>2. b[2 * i - 1] \in Byte /\ b[2 * i] \in Byte
      BY <2>1
    <2>3. \A x, y \in Byte : Word(x, y) \in Shorts /\ Word(x, y) \in Nat
      BY SMT DEF Byte, Word, Shorts
    <2> QED
      BY <2>2, <2>3
  <1> QED
    BY <1>1, <1>2, SMT DEF Words

\* c has one word more than the n of b.
OneWordMore(b, c, n, low, high) ==
  /\ b \in Seq(Byte) /\ c \in Seq(Byte)
  /\ n = Len(b) \div 2 /\ n + 1 = Len(c) \div 2
  /\ \A i \in 1 .. 2 * n : c[i] = b[i]
  /\ c[2 * n + 1] = low /\ c[2 * n + 2] = high

LEMMA WordsAppended ==
  ASSUME NEW b, NEW c, NEW n, NEW low, NEW high, OneWordMore(b, c, n, low, high)
  PROVE  Words(c) = Append(Words(b), Word(low, high)) /\ n \in Nat
  <1> DEFINE v == Word(low, high)
             x == Words(b)
             y == Words(c)
  <1>1. /\ n \in Nat /\ b \in Seq(Byte) /\ c \in Seq(Byte)
        /\ n = Len(b) \div 2 /\ n + 1 = Len(c) \div 2
    BY DEF OneWordMore
  <1>8. /\ \A i \in 1 .. 2 * n : c[i] = b[i]
        /\ c[2 * n + 1] = low /\ c[2 * n + 2] = high
    BY DEF OneWordMore
  <1>2. /\ x \in Seq(Nat) /\ Len(x) = n /\ \A i \in 1 .. n : x[i] = Word(b[2 * i - 1], b[2 * i])
    BY <1>1, WordsAre
  <1>3. /\ y \in Seq(Nat) /\ Len(y) = n + 1
        /\ \A i \in 1 .. n + 1 : y[i] = Word(c[2 * i - 1], c[2 * i])
    BY <1>1, WordsAre
  <1>4. y[n + 1] = v
    <2>1. n + 1 \in 1 .. n + 1 /\ 2 * (n + 1) - 1 = 2 * n + 1 /\ 2 * (n + 1) = 2 * n + 2
      BY <1>1
    <2> QED
      BY <1>3, <1>8, <2>1
  <1>5. ASSUME NEW i \in 1 .. n PROVE y[i] = x[i]
    <2>1. /\ i \in 1 .. n + 1 /\ 2 * i - 1 \in 1 .. 2 * n /\ 2 * i \in 1 .. 2 * n
      BY <1>1
    <2>2. c[2 * i - 1] = b[2 * i - 1] /\ c[2 * i] = b[2 * i]
      BY <1>8, <2>1
    <2> QED
      BY <1>2, <1>3, <2>1, <2>2
  <1>6. v \in Nat
    BY <1>1, <1>3, <1>4
  <1> HIDE DEF v, x, y
  <1>7. y = Append(x, v)
    BY <1>1, <1>2, <1>3, <1>4, <1>5, <1>6
  <1> QED
    BY <1>1, <1>7 DEF x, y, v

\* What the program adds up of a buffer, and the buffer made even.
SumOf(b)  == Total(Words(b)) + OddByte(b)
Padded(b) == b \o (IF Len(b) % 2 = 1 THEN <<0>> ELSE << >>)

LEMMA PaddedEven ==
  ASSUME NEW b \in Seq(Byte)
  PROVE  /\ Padded(b) \in Seq(Byte) /\ Len(Padded(b)) % 2 = 0
         /\ Len(Padded(b)) <= Len(b) + 1
         /\ SumOf(Padded(b)) = SumOf(b)
  <1>1. Len(b) \in Nat /\ 0 \in Byte
    BY DEF Byte
  <1>2. CASE Len(b) % 2 # 1
    <2>1. Padded(b) = b
      BY <1>2 DEF Padded
    <2>2. Len(b) % 2 = 0
      BY <1>1, <1>2
    <2> QED
      BY <1>1, <2>1, <2>2
  <1>3. CASE Len(b) % 2 = 1
    <2> DEFINE c == Append(b, 0)
               n == Len(b) \div 2
    <2>1. Padded(b) = c
      BY <1>3 DEF Padded
    <2>2. /\ c \in Seq(Byte) /\ Len(c) = Len(b) + 1
          /\ \A i \in 1 .. Len(b) : c[i] = b[i] /\ c[Len(b) + 1] = 0
      BY <1>1
    <2> HIDE DEF c
    <2>3. n \in Nat /\ Len(b) = 2 * n + 1
      BY <1>1, <1>3
    <2>4. Len(c) \div 2 = n + 1 /\ Len(c) % 2 = 0
      BY <2>2, <2>3
    <2>5. \A i \in 1 .. 2 * n : c[i] = b[i]
      BY <2>2, <2>3
    <2>6. c[2 * n + 1] = b[2 * n + 1] /\ c[2 * n + 2] = 0 /\ b[2 * n + 1] \in Byte
      <3>1. 2 * n + 1 \in 1 .. Len(b) /\ Len(b) + 1 = 2 * n + 2
        BY <2>3
      <3> QED
        BY <2>2, <3>1
    <2>7. Words(c) = Append(Words(b), Word(b[2 * n + 1], 0))
      <3>1. OneWordMore(b, c, n, b[2 * n + 1], 0)
        BY <2>2, <2>4, <2>5, <2>6 DEF OneWordMore
      <3> QED
        BY <3>1, WordsAppended
    <2>8. Word(b[2 * n + 1], 0) = b[2 * n + 1] /\ b[2 * n + 1] \in Nat
      <3>1. \A x \in Byte : Word(x, 0) = x /\ x \in Nat
        BY DEF Word, Byte
      <3> QED
        BY <2>6, <3>1, Zenon
    <2>9. Words(b) \in Seq(Nat)
      BY WordsAre
    <2>10. OddByte(b) = b[2 * n + 1]
      BY <1>3, <2>3 DEF OddByte, Last
    <2>11. OddByte(c) = 0
      BY <2>4 DEF OddByte
    <2> DEFINE v == b[2 * n + 1]
    <2>12. Words(c) = Append(Words(b), v) /\ v \in Nat /\ OddByte(b) = v
      BY <2>7, <2>8, <2>10, Zenon
    <2> HIDE DEF v, n
    <2>13. Total(Append(Words(b), v)) = Total(Words(b)) + v /\ Total(Words(b)) \in Nat
      BY <2>9, <2>12, TotalOfMore
    <2>14. Total(Words(c)) = Total(Words(b)) + v
      BY <2>12, <2>13, Zenon
    <2>15. SumOf(c) = SumOf(b)
      BY <2>11, <2>12, <2>13, <2>14 DEF SumOf
    <2> QED
      BY <1>1, <2>1, <2>2, <2>4, <2>15
  <1> QED
    BY <1>2, <1>3

LEMMA WithWord ==
  ASSUME NEW b \in Seq(Byte), Len(b) % 2 = 0, NEW low \in Byte, NEW high \in Byte
  PROVE  /\ b \o <<low, high>> \in Seq(Byte)
         /\ SumOf(b \o <<low, high>>) = SumOf(b) + Word(low, high)
  <1> DEFINE n == Len(b) \div 2
             c == b \o <<low, high>>
             v == Word(low, high)
  <1>1. n \in Nat /\ Len(b) = 2 * n
    OBVIOUS
  <1>2. /\ c \in Seq(Byte) /\ Len(c) = 2 * n + 2
        /\ \A i \in 1 .. 2 * n : c[i] = b[i]
        /\ c[2 * n + 1] = low /\ c[2 * n + 2] = high
    BY <1>1, SMTT(40)
  <1> HIDE DEF c
  <1>3. Len(c) \div 2 = n + 1 /\ Len(c) % 2 = 0
    BY <1>1, <1>2
  <1>4. Words(c) = Append(Words(b), v)
    <2>1. OneWordMore(b, c, n, low, high)
      BY <1>2, <1>3 DEF OneWordMore
    <2> QED
      BY <2>1, WordsAppended
  <1>5. v \in Nat /\ Words(b) \in Seq(Nat)
    <2>1. v \in Nat
      BY DEF Word, Byte
    <2> QED
      BY <2>1, WordsAre
  <1>6. OddByte(b) = 0 /\ OddByte(c) = 0
    BY <1>3 DEF OddByte
  <1> HIDE DEF v
  <1>7. Total(Append(Words(b), v)) = Total(Words(b)) + v /\ Total(Words(b)) \in Nat
    BY <1>5, TotalOfMore
  <1>8. Total(Words(c)) = Total(Words(b)) + v
    BY <1>4, <1>7, Zenon
  <1>9. SumOf(c) = SumOf(b) + v
    BY <1>5, <1>6, <1>7, <1>8 DEF SumOf
  <1> QED
    BY <1>2, <1>9 DEF c, v

LEMMA SumFits ==
  ASSUME NEW b \in Seq(Byte), Len(b) <= 131070
  PROVE  SumOf(b) \in Nat /\ SumOf(b) <= 65535 * 65535 + 255
  <1> DEFINE w == Words(b)
  <1>1. w \in Seq(Shorts) /\ Len(w) = Len(b) \div 2
    BY WordsAre, SMT
  <1> HIDE DEF w
  <1>2. Total(w) \in Nat /\ Total(w) <= 65535 * Len(w)
    BY <1>1, TotalBounded, SMT
  <1>3. OddByte(b) \in Nat /\ OddByte(b) <= 255
    <2>1. CASE Len(b) % 2 = 1
      <3>1. Len(b) \in 1 .. Len(b)
        BY <2>1, SMT
      <3>2. b[Len(b)] \in Byte
        BY <3>1, SMT
      <3>3. OddByte(b) = b[Len(b)]
        BY <2>1, SMT DEF OddByte, Last
      <3> QED
        <4>1. \A x \in Byte : x \in Nat /\ x <= 255
          BY DEF Byte
        <4> QED
          BY <3>2, <3>3, <4>1
    <2>2. CASE Len(b) % 2 # 1
      BY <2>2, SMT DEF OddByte
    <2> QED
      BY <2>1, <2>2
  <1>4. Len(w) \in Nat /\ Len(w) <= 65535
    BY <1>1, SMT
  <1>5. Total(w) <= 65535 * 65535
    BY <1>2, <1>4, SMT
  <1> QED
    BY <1>2, <1>3, <1>5, SMT DEF SumOf, w

LEMMA CsumIs ==
  ASSUME NEW b \in Seq(Byte)
  PROVE  csum(b) = 65535 - FoldedTwice(SumOf(b)) /\ icmp_checksum(b) = csum(b)
  BY SMT DEF csum, icmp_checksum, Complement, FoldedTwice, Carried, SumOf

\* ip_checksum folds until nothing is left to fold: there is such a function.
FoldsDown(f) == f = [sum \in Nat |-> IF sum \div 2 ^ 16 = 0 THEN sum ELSE f[Fold(sum)]]

LEMMA SameRemainder ==
  ASSUME NEW q \in Nat, NEW t \in Nat
  PROVE  (65535 * q + t) % 65535 = t % 65535
  BY SMT

LEMMA FoldsExist == \E f : FoldsDown(f)
  <1> DEFINE f == [sum \in Nat |-> IF sum = 0 THEN 0 ELSE 1 + ((sum - 1) % 65535)]
  <1>6. \A n \in Nat : n # 0 => f[n] = 1 + ((n - 1) % 65535)
    BY SMT
  <1>1. ASSUME NEW sum \in Nat, sum \div 65536 = 0 PROVE f[sum] = sum
    <2>1. sum < 65536
      BY <1>1, SMT
    <2>2. sum # 0 => (sum - 1) % 65535 = sum - 1
      BY <2>1, SMT
    <2> QED
      BY <2>2, SMT
  <1>2. ASSUME NEW sum \in Nat, sum \div 65536 # 0
        PROVE  Fold(sum) \in Nat /\ f[sum] = f[Fold(sum)]
    <2> DEFINE q == sum \div 65536
               r == sum % 65536
               s == Fold(sum)
    <2>1. q \in Nat /\ q # 0 /\ r \in Nat /\ sum = 65536 * q + r
      BY <1>2, SMT
    <2>2. s = r + q
      BY SMT DEF Fold
    <2> HIDE DEF q, r, s, f
    <2>3. s \in Nat /\ s # 0 /\ sum # 0 /\ s - 1 \in Nat /\ sum - 1 = 65535 * q + (s - 1)
      BY <2>1, <2>2, SMT
    <2>4. (sum - 1) % 65535 = (s - 1) % 65535
      BY <2>1, <2>3, SameRemainder, SMT
    <2>5. f[sum] = 1 + ((sum - 1) % 65535) /\ f[s] = 1 + ((s - 1) % 65535)
      BY <1>6, <2>3, SMT
    <2> QED
      BY <2>3, <2>4, <2>5, SMT DEF s
  <1>3. 2 ^ 16 = 65536
    BY SMT
  <1>4. \A sum \in Nat : f[sum] = IF sum \div 2 ^ 16 = 0 THEN sum ELSE f[Fold(sum)]
    <2> HIDE DEF f
    <2> QED
      BY <1>1, <1>2, <1>3, SMT
  <1>5. FoldsDown(f)
    <2>1. f = [sum \in Nat |-> f[sum]]
      BY SMT
    <2> HIDE DEF f
    <2>2. [sum \in Nat |-> f[sum]] =
            [sum \in Nat |-> IF sum \div 2 ^ 16 = 0 THEN sum ELSE f[Fold(sum)]]
      BY <1>4, SMT
    <2> QED
      BY <2>1, <2>2, Zenon DEF FoldsDown
  <1> HIDE DEF f
  <1> QED
    BY <1>5

LEMMA FoldsTwice ==
  ASSUME NEW f, FoldsDown(f), NEW sum \in Longs
  PROVE  f[sum] = FoldedTwice(sum)
  <1>1. \A n \in Nat : f[n] = IF n \div 65536 = 0 THEN n ELSE f[Fold(n)]
    <2>1. 2 ^ 16 = 65536
      BY SMT
    <2> QED
      BY <2>1, SMT DEF FoldsDown
  <1> DEFINE s == Fold(sum)
  <1>2. s \in Nat /\ s <= 131070 /\ sum \in Nat /\ sum < 65536 * 65536
    BY FoldedOnce, SMT DEF Longs
  <1>3. \A n \in Nat : n < 65536 => f[n] = n /\ n \div 65536 = 0
    BY <1>1, SMT
  <1>4. s < 65536 => Carried(s) = s
    BY <1>2, FoldedSmall, SMT
  <1>5. s >= 65536 => Carried(s) = s - 65535 /\ f[s] = s - 65535
    <2> SUFFICES ASSUME s >= 65536 PROVE Carried(s) = s - 65535 /\ f[s] = s - 65535
      OBVIOUS
    <2>1. Carried(s) = s - 65535
      BY <1>2, FoldedSmall, SMT
    <2>2. s \div 65536 = 1 /\ s % 65536 = s - 65536
      BY <1>2, SMT
    <2>3. Fold(s) = s - 65535
      <3>1. \A n \in Nat : Fold(n) = (n % 65536) + (n \div 65536)
        BY SMT DEF Fold
      <3> QED
        BY <1>2, <2>2, <3>1, SMT
    <2>4. f[s] = f[s - 65535]
      BY <1>1, <1>2, <2>2, <2>3, SMT
    <2>5. f[s - 65535] = s - 65535
      BY <1>2, <1>3, SMT
    <2> QED
      BY <2>1, <2>4, <2>5, SMT
  <1>6. f[s] = Carried(s)
    BY <1>2, <1>3, <1>4, <1>5, SMT
  <1>7. CASE sum < 65536
    <2>1. s = sum
      BY <1>2, <1>7, SMT DEF Fold
    <2> QED
      BY <1>6, <2>1, SMT DEF FoldedTwice
  <1>8. CASE ~ (sum < 65536)
    <2>1. f[sum] = f[s]
      BY <1>1, <1>2, <1>8, SMT
    <2> QED
      BY <1>6, <2>1, SMT DEF FoldedTwice
  <1> QED
    BY <1>7, <1>8, SMT

LEMMA IpFolds ==
  ASSUME NEW b
  PROVE  \E f : FoldsDown(f) /\ ip_checksum(b) = Complement(f[Total(Words(b))])
  BY FoldsExist DEF ip_checksum, FoldsDown

LEMMA IpChecksumIs ==
  ASSUME NEW b \in Seq(Byte), Len(b) % 2 = 0, Len(b) <= 131070
  PROVE  ip_checksum(b) = csum(b)
  <1>1. PICK f : FoldsDown(f) /\ ip_checksum(b) = Complement(f[Total(Words(b))])
    BY IpFolds, SMT
  <1>2. OddByte(b) = 0
    BY SMT DEF OddByte
  <1>3. SumOf(b) \in Nat /\ SumOf(b) <= 65535 * 65535 + 255
    BY SumFits, SMT
  <1>4. SumOf(b) \in Longs
    BY <1>3, SMT DEF Longs
  <1>5. Total(Words(b)) = SumOf(b)
    <2>1. Total(Words(b)) \in Nat
      BY WordsAre, TotalOfMore
    <2> QED
      BY <1>2, <2>1, SMT DEF SumOf
  <1>6. f[SumOf(b)] = FoldedTwice(SumOf(b)) /\ FoldedTwice(SumOf(b)) \in Shorts
    BY <1>1, <1>4, FoldsTwice, TwiceIsEnough, SMT
  <1> DEFINE r == FoldedTwice(SumOf(b))
  <1>7. ip_checksum(b) = Complement(r) /\ r \in Shorts
    BY <1>1, <1>5, <1>6
  <1>8. csum(b) = 65535 - r
    BY CsumIs, SMT
  <1> HIDE DEF r
  <1>9. Complement(r) = 65535 - r
    BY <1>7, SMT DEF Complement, Shorts
  <1> QED
    BY <1>7, <1>8, <1>9

LEMMA CsumVerifies ==
  ASSUME NEW b \in Seq(Byte), Len(b) <= 131069
  PROVE  csum(Padded(b) \o <<csum(b) % 256, csum(b) \div 256>>) = 0
  <1> DEFINE e == Padded(b)
             sum == csum(b)
             T == SumOf(b)
             c == e \o <<sum % 256, sum \div 256>>
             Whole == SumOf(c)
  <1>1. e \in Seq(Byte) /\ Len(e) % 2 = 0 /\ SumOf(e) = T
    BY PaddedEven
  <1>2. T \in Nat /\ T <= 65535 * 65535 + 255
    BY SumFits, SMT
  <1>3. T \in Longs
    BY <1>2, SMT DEF Longs
  <1>4. /\ FoldedTwice(T) \in Shorts
        /\ \E m \in Nat : m <= 65536 /\ T = 65535 * m + FoldedTwice(T)
        /\ FoldedTwice(T) = 0 <=> T = 0
    BY <1>3, TwiceIsEnough, SMT
  <1>5. sum = 65535 - FoldedTwice(T)
    BY CsumIs, SMT
  <1> DEFINE r == FoldedTwice(T)
  <1> HIDE DEF sum, T, e, c, Whole, r
  <1>6. sum \in Nat /\ sum <= 65535 /\ sum = 65535 - r /\ r \in Nat
    BY <1>4, <1>5, SMT DEF Shorts, r
  <1>7. sum % 256 \in Byte /\ sum \div 256 \in Byte /\ Word(sum % 256, sum \div 256) = sum
    BY <1>6, SMT DEF Byte, Word
  <1>8. c \in Seq(Byte) /\ Whole = T + sum
    BY <1>1, <1>7, WithWord DEF c, Whole
  <1>9. PICK m \in Nat : T = 65535 * m + r
    BY <1>4, SMT DEF r
  <1>10. Whole = 65535 * (m + 1) /\ Whole \in Nat /\ Whole # 0
    BY <1>2, <1>6, <1>8, <1>9, SMT
  <1>11. Whole \in Longs
    BY <1>2, <1>6, <1>8, <1>10, SMT DEF Longs
  <1> DEFINE t == FoldedTwice(Whole)
  <1>12. /\ t \in Shorts
         /\ \E k \in Nat : k <= 65536 /\ Whole = 65535 * k + t
         /\ t = 0 <=> Whole = 0
    BY <1>11, TwiceIsEnough, SMT
  <1> HIDE DEF t
  <1>13. t \in Nat /\ t <= 65535 /\ t # 0
    BY <1>10, <1>12, SMT DEF Shorts
  <1>14. PICK k \in Nat : Whole = 65535 * k + t
    BY <1>12, SMT
  <1>15. t = 65535 * (m + 1 - k)
    BY <1>10, <1>13, <1>14, SMT
  <1>16. t = 65535
    BY <1>13, <1>15, SMT
  <1>17. csum(c) = 65535 - t
    BY <1>8, CsumIs, SMT DEF t, Whole
  <1>18. csum(c) = 0
    BY <1>16, <1>17, SMT
  <1> QED
    BY <1>18 DEF c, e, sum

(***************************************************************************)
(* Over any buffer that a frame can hold csum computes a sum that          *)
(* verifies, icmp_checksum the same, and ip_checksum the same over an even *)
(* number of bytes: two folds are enough for less than 2^32                *)
(* (functions.h:366-411, icmp.h:1-16).                                     *)
(***************************************************************************)
THEOREM SumsVerify ==
  ASSUME NEW b \in Seq(Byte), Len(b) <= 131069
  PROVE  /\ csum(Padded(b) \o <<csum(b) % 256, csum(b) \div 256>>) = 0
         /\ icmp_checksum(b) = csum(b)
         /\ Len(b) % 2 = 0 => ip_checksum(b) = csum(b)
  <1>1. icmp_checksum(b) = csum(b)
    BY CsumIs, SMT
  <1>2. Len(b) <= 131070
    BY SMT
  <1>3. Len(b) % 2 = 0 => ip_checksum(b) = csum(b)
    BY <1>2, IpChecksumIs, SMT
  <1> QED
    BY <1>1, <1>3, CsumVerifies, SMT

BytesOK == bytes \in Seq(MCBytes) /\ Len(bytes) <= MCMaxBytes

LEMMA BytesBegun == FunctionsInit => BytesOK
  BY DEF FunctionsInit, BytesOK, MCMaxBytes

LEMMA BytesKept == BytesOK /\ [FunctionsNext]_allVars => BytesOK'
  <1> SUFFICES ASSUME BytesOK, [FunctionsNext]_allVars PROVE BytesOK'
    OBVIOUS
  <1>1. \/ bytes' = bytes
        \/ Len(bytes) < MCMaxBytes /\ \E b \in MCBytes : bytes' = Append(bytes, b)
    BY DEF FunctionsNext, OtherAddress, LongerBuffer, LongerIp, LongerCommand, Longer,
           LongerLine, Filtering, Linking, allVars, functionVars
  <1> QED
    BY <1>1 DEF BytesOK, MCMaxBytes

(***************************************************************************)
(* The checksums of the buffers of the composed model verify, and agree    *)
(* (functions.h:366-411, icmp.h:1-16).                                     *)
(***************************************************************************)
THEOREM ChecksumsVerify == FunctionsSpec => []ChecksumVerifies
  <1>1. FunctionsInit => BytesOK
    BY BytesBegun
  <1>2. BytesOK /\ [FunctionsNext]_allVars => BytesOK'
    BY BytesKept
  <1>3. BytesOK => ChecksumVerifies
    <2> SUFFICES ASSUME BytesOK PROVE ChecksumVerifies
      OBVIOUS
    <2>1. bytes \in Seq(Byte) /\ Len(bytes) <= 131069
      BY SMT DEF BytesOK, MCBytes, MCMaxBytes, Byte
    <2>2. /\ csum(Padded(bytes) \o <<csum(bytes) % 256, csum(bytes) \div 256>>) = 0
          /\ icmp_checksum(bytes) = csum(bytes)
          /\ Len(bytes) % 2 = 0 => ip_checksum(bytes) = csum(bytes)
      BY <2>1, SumsVerify, SMT
    <2> QED
      BY <2>2, Zenon DEF ChecksumVerifies, Padded
  <1> QED
    BY <1>1, <1>2, <1>3, PTL DEF FunctionsSpec

(***************************************************************************)
(* Hexadecimal text.  PlaceOf by place get_hex writes two digits and a colon *)
(* (IsHex); Without leaves the digits (IsDigits), hexStringToBytes takes   *)
(* them two by two, and is_valid_mac counts them and the colons (IsRead).  *)
(* Each is a fold over the text, followed sign by sign (StaysIn).          *)
(***************************************************************************)
Signs == {"0", "1", "2", "3", "4", "5", "6", "7", "8", "9", "a", "b", "c", "d", "e", "f",
          "A", "B", "C", "D", "E", "F", ":"}

Abcdef == <<"a", "b", "c", "d", "e", "f">>
CapitalAbcdef == <<"A", "B", "C", "D", "E", "F">>

LEMMA DigitsAre ==
  /\ Digits \in Seq(Signs) /\ Len(Digits) = 10
  /\ Digits[1] = "0" /\ Digits[2] = "1" /\ Digits[3] = "2" /\ Digits[4] = "3"
  /\ Digits[5] = "4" /\ Digits[6] = "5" /\ Digits[7] = "6" /\ Digits[8] = "7"
  /\ Digits[9] = "8" /\ Digits[10] = "9"
  BY SMT DEF Digits, Signs

LEMMA AbcdefAre ==
  /\ Abcdef \in Seq(Signs) /\ Len(Abcdef) = 6
  /\ Abcdef[1] = "a" /\ Abcdef[2] = "b" /\ Abcdef[3] = "c" /\ Abcdef[4] = "d"
  /\ Abcdef[5] = "e" /\ Abcdef[6] = "f"
  BY SMT DEF Abcdef, Signs

LEMMA CapitalsAre ==
  /\ CapitalAbcdef \in Seq(Signs) /\ Len(CapitalAbcdef) = 6
  /\ CapitalAbcdef[1] = "A" /\ CapitalAbcdef[2] = "B" /\ CapitalAbcdef[3] = "C" /\ CapitalAbcdef[4] = "D"
  /\ CapitalAbcdef[5] = "E" /\ CapitalAbcdef[6] = "F"
  BY SMT DEF CapitalAbcdef, Signs

LEMMA UpperAt ==
  /\ UpperHex \in Seq(Signs) /\ Len(UpperHex) = 16 /\ DOMAIN UpperHex = 1 .. 16
  /\ UpperHex[1] = "0" /\ UpperHex[2] = "1" /\ UpperHex[3] = "2" /\ UpperHex[4] = "3"
  /\ UpperHex[5] = "4" /\ UpperHex[6] = "5" /\ UpperHex[7] = "6" /\ UpperHex[8] = "7"
  /\ UpperHex[9] = "8" /\ UpperHex[10] = "9" /\ UpperHex[11] = "A" /\ UpperHex[12] = "B"
  /\ UpperHex[13] = "C" /\ UpperHex[14] = "D" /\ UpperHex[15] = "E" /\ UpperHex[16] = "F"
  <1>1. UpperHex = Digits \o CapitalAbcdef
    BY Zenon DEF UpperHex, CapitalAbcdef
  <1>2. /\ UpperHex \in Seq(Signs) /\ Len(UpperHex) = 16
        /\ \A i \in 1 .. 10 : UpperHex[i] = Digits[i]
        /\ \A i \in 11 .. 16 : UpperHex[i] = CapitalAbcdef[i - 10]
    <2>1. /\ Digits \o CapitalAbcdef \in Seq(Signs)
          /\ Len(Digits \o CapitalAbcdef) = Len(Digits) + Len(CapitalAbcdef)
          /\ \A i \in 1 .. Len(Digits) + Len(CapitalAbcdef) : (Digits \o CapitalAbcdef)[i] =
               IF i <= Len(Digits) THEN Digits[i] ELSE CapitalAbcdef[i - Len(Digits)]
      BY DigitsAre, CapitalsAre, ConcatProperties, Zenon
    <2>2. /\ UpperHex \in Seq(Signs) /\ Len(UpperHex) = Len(Digits) + Len(CapitalAbcdef)
          /\ \A i \in 1 .. Len(Digits) + Len(CapitalAbcdef) : UpperHex[i] =
               IF i <= Len(Digits) THEN Digits[i] ELSE CapitalAbcdef[i - Len(Digits)]
      BY <1>1, <2>1, Zenon
    <2> QED
      BY <2>2, DigitsAre, CapitalsAre, SMT
  <1> QED
    BY <1>2, DigitsAre, CapitalsAre, SMT

LEMMA LowerAt ==
  /\ LowerHex \in Seq(Signs) /\ Len(LowerHex) = 16 /\ DOMAIN LowerHex = 1 .. 16
  /\ LowerHex[1] = "0" /\ LowerHex[2] = "1" /\ LowerHex[3] = "2" /\ LowerHex[4] = "3"
  /\ LowerHex[5] = "4" /\ LowerHex[6] = "5" /\ LowerHex[7] = "6" /\ LowerHex[8] = "7"
  /\ LowerHex[9] = "8" /\ LowerHex[10] = "9" /\ LowerHex[11] = "a" /\ LowerHex[12] = "b"
  /\ LowerHex[13] = "c" /\ LowerHex[14] = "d" /\ LowerHex[15] = "e" /\ LowerHex[16] = "f"
  <1>1. LowerHex = Digits \o Abcdef
    BY Zenon DEF LowerHex, Abcdef
  <1>2. /\ LowerHex \in Seq(Signs) /\ Len(LowerHex) = 16
        /\ \A i \in 1 .. 10 : LowerHex[i] = Digits[i]
        /\ \A i \in 11 .. 16 : LowerHex[i] = Abcdef[i - 10]
    <2>1. /\ Digits \o Abcdef \in Seq(Signs)
          /\ Len(Digits \o Abcdef) = Len(Digits) + Len(Abcdef)
          /\ \A i \in 1 .. Len(Digits) + Len(Abcdef) : (Digits \o Abcdef)[i] =
               IF i <= Len(Digits) THEN Digits[i] ELSE Abcdef[i - Len(Digits)]
      BY DigitsAre, AbcdefAre, ConcatProperties, Zenon
    <2>2. /\ LowerHex \in Seq(Signs) /\ Len(LowerHex) = Len(Digits) + Len(Abcdef)
          /\ \A i \in 1 .. Len(Digits) + Len(Abcdef) : LowerHex[i] =
               IF i <= Len(Digits) THEN Digits[i] ELSE Abcdef[i - Len(Digits)]
      BY <1>1, <2>1, Zenon
    <2> QED
      BY <2>2, DigitsAre, AbcdefAre, SMT
  <1> QED
    BY <1>2, DigitsAre, AbcdefAre, SMT

LEMMA OneOfSixteen ==
  ASSUME NEW i \in 1 .. 16
  PROVE  \/ i = 1 \/ i = 2 \/ i = 3 \/ i = 4 \/ i = 5 \/ i = 6 \/ i = 7 \/ i = 8
         \/ i = 9 \/ i = 10 \/ i = 11 \/ i = 12 \/ i = 13 \/ i = 14 \/ i = 15 \/ i = 16
  BY SMT

LEMMA HexApart ==
  /\ \A i, j \in 1 .. 16 : UpperHex[i] = UpperHex[j] => i = j
  /\ \A i, j \in 1 .. 16 : LowerHex[i] = LowerHex[j] => i = j
  /\ \A i \in 1 .. 16 : UpperHex[i] # ":" /\ UpperHex[i] \in Signs
  /\ \A i \in 1 .. 10 : UpperHex[i] = LowerHex[i]
  /\ \A i \in 11 .. 16 : \A j \in 1 .. 16 : UpperHex[i] # LowerHex[j]
  /\ \A i \in 1 .. 16 : LowerHex[i] # ":" /\ LowerHex[i] \in Signs
  <1>1. \A i, j \in 1 .. 16 : UpperHex[i] = UpperHex[j] => i = j
    BY OneOfSixteen, UpperAt, SMTT(60)
  <1>2. \A i, j \in 1 .. 16 : LowerHex[i] = LowerHex[j] => i = j
    BY OneOfSixteen, LowerAt, SMTT(60)
  <1>3. \A i \in 1 .. 16 : UpperHex[i] # ":" /\ UpperHex[i] \in Signs
    BY OneOfSixteen, UpperAt, SMTT(60) DEF Signs
  <1>4. \A i \in 1 .. 10 : UpperHex[i] = LowerHex[i]
    BY OneOfSixteen, UpperAt, LowerAt, SMTT(60)
  <1>5. \A i \in 11 .. 16 : \A j \in 1 .. 16 : UpperHex[i] # LowerHex[j]
    BY OneOfSixteen, UpperAt, LowerAt, SMTT(60)
  <1>6. \A i \in 1 .. 16 : LowerHex[i] # ":" /\ LowerHex[i] \in Signs
    BY OneOfSixteen, LowerAt, SMTT(60) DEF Signs
  <1> QED
    BY <1>1, <1>2, <1>3, <1>4, <1>5, <1>6

PlaceOf(s, c) == SelectInSeq(s, LAMBDA e : e = c)

LEMMA PlaceFound ==
  ASSUME NEW s, NEW n \in Nat, Len(s) = n, NEW k \in 1 .. n,
         \A i \in 1 .. n : s[i] = s[k] => i = k
  PROVE  PlaceOf(s, s[k]) = k
  <1> DEFINE I == { i \in 1 .. Len(s) : s[i] = s[k] }
  <1>1. I = {k}
    OBVIOUS
  <1>2. PlaceOf(s, s[k]) = Min({k})
    BY <1>1 DEF PlaceOf, SelectInSeq
  <1>3. Min({k}) = k
    BY DEF Min
  <1> QED
    BY <1>2, <1>3

LEMMA NibbleBack ==
  ASSUME NEW v \in 0 .. 15
  PROVE  /\ nibbleFromChar(UpperHex[v + 1]) = v
         /\ isxdigit(UpperHex[v + 1]) /\ UpperHex[v + 1] \in Signs /\ UpperHex[v + 1] # ":"
  <1> DEFINE k == v + 1
             c == UpperHex[k]
  <1>1. k \in 1 .. 16 /\ k - 1 = v
    BY SMT
  <1>2. c \in ToSet(UpperHex)
    BY <1>1, UpperAt DEF ToSet
  <1>3. \A d : d \in ToSet(LowerHex) <=> \E i \in 1 .. 16 : d = LowerHex[i]
    BY LowerAt DEF ToSet
  <1>4. c # ":" /\ c \in Signs
    BY <1>1, HexApart
  <1>5. CASE k \in 1 .. 10
    <2>1. c = LowerHex[k]
      <3>1. \A i \in 1 .. 10 : UpperHex[i] = LowerHex[i]
        BY HexApart, Zenon
      <3>2. UpperHex[k] = LowerHex[k]
        BY <1>5, <3>1, Zenon
      <3> QED
        BY <3>2, Zenon
    <2>2. PlaceOf(LowerHex, LowerHex[k]) = k
      <3>1. /\ Len(LowerHex) = 16 /\ 16 \in Nat
            /\ \A i \in 1 .. 16 : LowerHex[i] = LowerHex[k] => i = k
        BY <1>1, LowerAt, HexApart
      <3> HIDE DEF k
      <3> QED
        BY <1>1, <3>1, PlaceFound
    <2> HIDE DEF k
    <2>3. nibbleFromChar(LowerHex[k]) = PlaceOf(LowerHex, LowerHex[k]) - 1
      BY <1>1, <1>3 DEF nibbleFromChar, PlaceOf
    <2> HIDE DEF c
    <2>4. nibbleFromChar(c) = v
      BY <1>1, <2>1, <2>2, <2>3
    <2> QED
      BY <1>2, <1>4, <2>4 DEF isxdigit, c, k
  <1>6. CASE k \in 11 .. 16
    <2>1. c \notin ToSet(LowerHex)
      BY <1>3, <1>6, HexApart
    <2>2. PlaceOf(UpperHex, c) = k
      <3>1. /\ Len(UpperHex) = 16 /\ 16 \in Nat
            /\ \A i \in 1 .. 16 : UpperHex[i] = UpperHex[k] => i = k
        BY <1>1, UpperAt, HexApart
      <3> HIDE DEF k
      <3> QED
        BY <1>1, <3>1, PlaceFound
    <2> HIDE DEF k, c
    <2>3. nibbleFromChar(c) = PlaceOf(UpperHex, c) - 1
      BY <1>2, <2>1 DEF nibbleFromChar, PlaceOf
    <2> QED
      BY <1>1, <1>2, <1>4, <2>2, <2>3 DEF isxdigit, c, k
  <1> QED
    BY <1>1, <1>5, <1>6

LEMMA ColonIsNone == ~ isxdigit(":")
  BY UpperAt, LowerAt, HexApart DEF isxdigit, ToSet

High(x) == UpperHex[(x \div 16) + 1]
Low(x)  == UpperHex[(x % 16) + 1]

LEMMA TwoDigits ==
  ASSUME NEW x \in Byte
  PROVE  /\ High(x) \in Signs /\ High(x) # ":" /\ isxdigit(High(x))
         /\ Low(x) \in Signs /\ Low(x) # ":" /\ isxdigit(Low(x))
         /\ nibbleFromChar(High(x)) = x \div 16 /\ nibbleFromChar(Low(x)) = x % 16
  <1>1. x \div 16 \in 0 .. 15 /\ x % 16 \in 0 .. 15
    BY SMT DEF Byte
  <1> QED
    BY <1>1, NibbleBack, Zenon DEF High, Low

\* One byte more in hexadecimal.
HexMore(s, x) == s \o (IF s = << >> THEN << >> ELSE <<":">>) \o <<High(x), Low(x)>>

HexStep == [p \in Seq(Signs) \X Byte |-> HexMore(p[1], p[2])]

LEMMA HexStepTyped ==
  /\ HexStep \in [Seq(Signs) \X Byte -> Seq(Signs)]
  /\ \A s \in Seq(Signs), x \in Byte : HexMore(s, x) \in Seq(Signs) /\ HexStep[s, x] = HexMore(s, x)
  <1>1. ASSUME NEW s \in Seq(Signs), NEW x \in Byte PROVE HexMore(s, x) \in Seq(Signs)
    <2>1. /\ <<High(x), Low(x)>> \in Seq(Signs) /\ ":" \in Signs
          /\ << >> \in Seq(Signs) /\ <<":">> \in Seq(Signs)
      BY TwoDigits DEF Signs
    <2> DEFINE d == <<High(x), Low(x)>>
               m == IF s = << >> THEN << >> ELSE <<":">>
    <2>2. m \in Seq(Signs)
      BY <2>1
    <2>3. d \in Seq(Signs)
      BY <2>1
    <2> HIDE DEF d, m
    <2>4. s \o m \o d \in Seq(Signs)
      BY <2>2, <2>3
    <2> QED
      BY <2>4 DEF HexMore, d, m
  <1> QED
    BY <1>1, Zenon DEF HexStep

LEMMA HexWalks ==
  ASSUME NEW b \in Seq(Byte)
  PROVE  \E f : /\ Walks(f, Seq(Signs), Byte, HexStep, << >>, b)
                /\ get_hex(b, ":") = f[1 .. Len(b)]
  <1> DEFINE Hexes(f) == f = [p \in SUBSET DOMAIN b |->
                                IF p = {} THEN << >> ELSE HexMore(f[p \ {Max(p)}], b[Max(p)])]
  <1>1. \E f : Hexes(f)
    <2>1. PICK f \in [SUBSET DOMAIN b -> Seq(Signs)] : Solves(f, HexStep, << >>, b)
      <3>1. << >> \in Seq(Signs)
        OBVIOUS
      <3> QED
        BY <3>1, HexStepTyped, Solvable
    <2>2. ASSUME NEW p \in SUBSET DOMAIN b, p # {}
          PROVE  f[p] = HexMore(f[p \ {Max(p)}], b[Max(p)])
      <3>1. Max(p) \in DOMAIN b
        <4>1. DOMAIN b = 1 .. Len(b) /\ Len(b) \in Nat
          OBVIOUS
        <4> QED
          BY <2>2, <4>1, GreatestOf
      <3>2. f[p] = HexStep[f[p \ {Max(p)}], b[Max(p)]]
        BY <2>1, <2>2 DEF Solves
      <3>3. f[p \ {Max(p)}] \in Seq(Signs) /\ b[Max(p)] \in Byte
        BY <3>1
      <3> QED
        BY <3>2, <3>3, HexStepTyped, Zenon
    <2>3. f[{}] = << >>
      BY <2>1 DEF Solves
    <2>4. f = [p \in SUBSET DOMAIN b |-> f[p]]
      BY <2>1
    <2>5. [p \in SUBSET DOMAIN b |-> f[p]] =
            [p \in SUBSET DOMAIN b |->
                IF p = {} THEN << >> ELSE HexMore(f[p \ {Max(p)}], b[Max(p)])]
      BY <2>2, <2>3, Zenon
    <2> QED
      BY <2>4, <2>5, Zenon
  <1>2. PICK f : Hexes(f) /\ get_hex(b, ":") = f[DOMAIN b]
    BY <1>1, Zenon DEF get_hex, FoldLeft, MapThenFoldSet, HexMore, High, Low
  <1>3. Walks(f, Seq(Signs), Byte, HexStep, << >>, b)
    <2>1. f[{}] = << >>
      BY <1>2
    <2>2. ASSUME NEW k \in 1 .. Len(b), f[1 .. k - 1] \in Seq(Signs)
          PROVE  f[1 .. k] = HexStep[f[1 .. k - 1], b[k]]
      <3>1. 1 .. k \in SUBSET DOMAIN b /\ b[k] \in Byte
        OBVIOUS
      <3>2. 1 .. k # {} /\ Max(1 .. k) = k /\ (1 .. k) \ {k} = 1 .. k - 1
        <4>1. k \in Nat /\ k # 0
          OBVIOUS
        <4> QED
          BY <4>1, FirstOnes
      <3>3. f[1 .. k] = HexMore(f[1 .. k - 1], b[k])
        <4>1. f[1 .. k] = HexMore(f[(1 .. k) \ {Max(1 .. k)}], b[Max(1 .. k)])
          BY <1>2, <3>1, <3>2, Zenon
        <4> QED
          BY <3>2, <4>1, Zenon
      <3> QED
        BY <2>2, <3>1, <3>3, HexStepTyped, Zenon
    <2>3. << >> \in Seq(Signs)
      OBVIOUS
    <2>4. HexStep \in [Seq(Signs) \X Byte -> Seq(Signs)]
      BY HexStepTyped, Zenon
    <2> QED
      BY <2>1, <2>2, <2>3, <2>4, Zenon DEF Walks
  <1>4. DOMAIN b = 1 .. Len(b)
    OBVIOUS
  <1> QED
    BY <1>2, <1>3, <1>4, Zenon

\* h is the first k bytes of b in hexadecimal.
IsHex(h, b, k) ==
  /\ h \in Seq(Signs) /\ Len(h) = IF k = 0 THEN 0 ELSE 3 * k - 1
  /\ \A i \in 1 .. k : h[3 * i - 2] = High(b[i]) /\ h[3 * i - 1] = Low(b[i])
  /\ \A i \in 1 .. k - 1 : h[3 * i] = ":"

LEMMA HexOneMore ==
  ASSUME NEW b \in Seq(Byte), NEW k \in 1 .. Len(b), NEW h, IsHex(h, b, k - 1)
  PROVE  IsHex(HexMore(h, b[k]), b, k)
  <1> DEFINE x == High(b[k])
             y == Low(b[k])
             g == HexMore(h, b[k])
  <1>1. x \in Signs /\ y \in Signs /\ ":" \in Signs /\ k \in Nat
    BY TwoDigits DEF Signs
  <1>2. h \in Seq(Signs)
    BY DEF IsHex
  <1> HIDE DEF x, y
  <1>3. CASE k = 1
    <2>1. h = << >>
      BY <1>2, <1>3 DEF IsHex
    <2>2. g = <<x, y>>
      BY <2>1 DEF HexMore, x, y
    <2> HIDE DEF g
    <2> QED
      BY <1>1, <1>3, <2>2 DEF IsHex, x, y, g
  <1>4. CASE k # 1
    <2>1. /\ Len(h) = 3 * (k - 1) - 1 /\ h # << >>
          /\ \A i \in 1 .. k - 1 : h[3 * i - 2] = High(b[i]) /\ h[3 * i - 1] = Low(b[i])
          /\ \A i \in 1 .. k - 2 : h[3 * i] = ":"
      BY <1>1, <1>2, <1>4 DEF IsHex
    <2> DEFINE m == Len(h)
    <2>2. m \in Nat /\ m = 3 * k - 4
      BY <1>1, <1>2, <2>1
    <2>3. g = h \o <<":">> \o <<x, y>>
      BY <2>1 DEF HexMore, x, y
    <2>4. /\ g \in Seq(Signs) /\ Len(g) = m + 3
          /\ \A j \in 1 .. m : g[j] = h[j]
          /\ g[m + 1] = ":" /\ g[m + 2] = x /\ g[m + 3] = y
      <3> DEFINE c == h \o <<":">>
      <3>1. /\ c \in Seq(Signs) /\ Len(c) = m + 1
            /\ c[m + 1] = ":"
            /\ \A j \in 1 .. m : c[j] = h[j]
        BY <1>1, <1>2, <2>2
      <3> DEFINE d == <<x, y>>
      <3>2. g = c \o d
        BY <2>3
      <3>3. d \in Seq(Signs) /\ Len(d) = 2 /\ d[1] = x /\ d[2] = y
        BY <1>1
      <3> HIDE DEF c, d, g
      <3>4. /\ c \o d \in Seq(Signs) /\ Len(c \o d) = Len(c) + Len(d)
            /\ \A j \in 1 .. Len(c) + Len(d) : (c \o d)[j] =
                 IF j <= Len(c) THEN c[j] ELSE d[j - Len(c)]
        BY <3>1, <3>3, ConcatProperties, Zenon
      <3>5. /\ g \in Seq(Signs) /\ Len(g) = Len(c) + Len(d)
            /\ \A j \in 1 .. Len(c) + Len(d) : g[j] =
                 IF j <= Len(c) THEN c[j] ELSE d[j - Len(c)]
        BY <3>2, <3>4, Zenon
      <3> HIDE DEF m
      <3>6. Len(c) = m + 1 /\ Len(d) = 2 /\ m \in Nat
        BY <2>2, <3>1, <3>3
      <3>7. Len(g) = m + 3
        BY <3>5, <3>6
      <3>8. \A j \in 1 .. m + 1 : g[j] = c[j]
        BY <3>5, <3>6
      <3>9. g[m + 2] = d[1] /\ g[m + 3] = d[2]
        <4>1. ASSUME NEW j \in 1 .. m + 3, j = m + 2 PROVE g[j] = d[1]
          <5>1. j - Len(c) = 1 /\ ~ (j <= Len(c)) /\ j \in 1 .. Len(c) + Len(d)
            BY <3>6, <4>1
          <5> QED
            BY <3>5, <5>1
        <4>2. ASSUME NEW j \in 1 .. m + 3, j = m + 3 PROVE g[j] = d[2]
          <5>1. j - Len(c) = 2 /\ ~ (j <= Len(c)) /\ j \in 1 .. Len(c) + Len(d)
            BY <3>6, <4>2
          <5> QED
            BY <3>5, <5>1
        <4>3. m + 2 \in 1 .. m + 3 /\ m + 3 \in 1 .. m + 3
          BY <3>6
        <4> QED
          BY <4>1, <4>2, <4>3
      <3>10. \A j \in 1 .. m : g[j] = h[j]
        BY <3>1, <3>6, <3>8
      <3>11. g[m + 1] = ":"
        <4>1. m + 1 \in 1 .. m + 1
          BY <3>6
        <4> QED
          BY <3>1, <3>8, <4>1
      <3>12. g \in Seq(Signs)
        BY <3>5
      <3>13. g[m + 2] = x /\ g[m + 3] = y
        BY <3>3, <3>9
      <3> QED
        BY <3>7, <3>10, <3>11, <3>12, <3>13
    <2> HIDE DEF g, m
    <2>5. Len(g) = 3 * k - 1
      BY <2>2, <2>4
    <2>6. ASSUME NEW i \in 1 .. k PROVE g[3 * i - 2] = High(b[i]) /\ g[3 * i - 1] = Low(b[i])
      <3>1. CASE i = k
        <4>1. 3 * i - 2 = m + 2 /\ 3 * i - 1 = m + 3
          BY <1>1, <2>2, <3>1
        <4> QED
          BY <2>4, <3>1, <4>1 DEF x, y
      <3>2. CASE i # k
        <4>1. i \in 1 .. k - 1 /\ 3 * i - 2 \in 1 .. m /\ 3 * i - 1 \in 1 .. m
          BY <1>1, <2>2, <3>2
        <4> QED
          BY <2>1, <2>4, <4>1
      <3> QED
        BY <3>1, <3>2
    <2>7. ASSUME NEW i \in 1 .. k - 1 PROVE g[3 * i] = ":"
      <3>1. CASE i = k - 1
        <4>1. 3 * i = m + 1
          BY <1>1, <2>2, <3>1
        <4> QED
          BY <2>4, <4>1
      <3>2. CASE i # k - 1
        <4>1. i \in 1 .. k - 2 /\ 3 * i \in 1 .. m
          BY <1>1, <2>2, <3>2
        <4> QED
          BY <2>1, <2>4, <4>1
      <3> QED
        BY <3>1, <3>2
    <2>8. g \in Seq(Signs)
      BY <2>4
    <2> QED
      BY <1>1, <2>5, <2>6, <2>7, <2>8, SMTT(40) DEF IsHex, g
  <1> QED
    BY <1>3, <1>4

LEMMA HexIs ==
  ASSUME NEW b \in Seq(Byte)
  PROVE  IsHex(get_hex(b, ":"), b, Len(b))
  <1>1. PICK f : /\ Walks(f, Seq(Signs), Byte, HexStep, << >>, b)
                 /\ get_hex(b, ":") = f[1 .. Len(b)]
    BY HexWalks
  <1> DEFINE S == { k \in Nat : k <= Len(b) /\ ~ IsHex(f[1 .. k], b, k) }
  <1>2. S = {}
    <2> SUFFICES ASSUME S # {} PROVE FALSE
      OBVIOUS
    <2>1. S \in SUBSET Nat
      OBVIOUS
    <2> HIDE DEF S
    <2>2. PICK k \in S : \A j \in S : k <= j
      BY <2>1, LeastNatural
    <2>3. k \in Nat /\ k <= Len(b) /\ ~ IsHex(f[1 .. k], b, k)
      BY <2>2 DEF S
    <2>4. k # 0
      <3> SUFFICES ASSUME k = 0 PROVE FALSE
        OBVIOUS
      <3>1. 1 .. k = {}
        OBVIOUS
      <3>2. f[1 .. k] = << >>
        BY <1>1, <3>1, Zenon DEF Walks
      <3>3. IsHex(<< >>, b, 0)
        BY DEF IsHex
      <3> QED
        BY <2>3, <3>2, <3>3, Zenon
    <2>5. k - 1 \in Nat /\ k - 1 <= Len(b) /\ ~ (k <= k - 1) /\ k \in 1 .. Len(b)
      BY <2>3, <2>4
    <2>6. IsHex(f[1 .. k - 1], b, k - 1)
      BY <2>2, <2>5 DEF S
    <2>7. f[1 .. k - 1] \in Seq(Signs)
      BY <2>6, Zenon DEF IsHex
    <2>8. f[1 .. k] = HexStep[f[1 .. k - 1], b[k]]
      BY <1>1, <2>5, <2>7, Zenon DEF Walks
    <2>9. f[1 .. k] = HexMore(f[1 .. k - 1], b[k])
      <3>1. b[k] \in Byte
        BY <2>5
      <3> QED
        BY <2>7, <2>8, <3>1, HexStepTyped, Zenon
    <2>10. IsHex(HexMore(f[1 .. k - 1], b[k]), b, k)
      BY <2>5, <2>6, HexOneMore, Zenon
    <2> QED
      BY <2>3, <2>9, <2>10, Zenon
  <1>3. Len(b) \in Nat /\ Len(b) <= Len(b) /\ Len(b) \notin S
    BY <1>2
  <1> QED
    BY <1>1, <1>3

\* One sign more, unless it is the colon.
Left(t, c) == IF c = ":" THEN t ELSE Append(t, c)

LeftStep == [p \in Seq(Signs) \X Signs |-> Left(p[1], p[2])]

LEMMA LeftStepTyped ==
  /\ LeftStep \in [Seq(Signs) \X Signs -> Seq(Signs)]
  /\ \A t \in Seq(Signs), c \in Signs : Left(t, c) \in Seq(Signs) /\ LeftStep[t, c] = Left(t, c)
  <1>1. ASSUME NEW t \in Seq(Signs), NEW c \in Signs PROVE Left(t, c) \in Seq(Signs)
    BY DEF Left
  <1> QED
    BY <1>1, Zenon DEF LeftStep

LEMMA WithoutWalks ==
  ASSUME NEW s \in Seq(Signs)
  PROVE  \E f : /\ Walks(f, Seq(Signs), Signs, LeftStep, << >>, s)
                /\ Without(s, ":") = f[1 .. Len(s)]
  <1> DEFINE Keeps(f) == f = [p \in SUBSET DOMAIN s |->
                                IF p = {} THEN << >> ELSE Left(f[p \ {Max(p)}], s[Max(p)])]
  <1>1. \E f : Keeps(f)
    <2>1. PICK f \in [SUBSET DOMAIN s -> Seq(Signs)] : Solves(f, LeftStep, << >>, s)
      <3>1. << >> \in Seq(Signs)
        OBVIOUS
      <3> QED
        BY <3>1, LeftStepTyped, Solvable
    <2>2. ASSUME NEW p \in SUBSET DOMAIN s, p # {}
          PROVE  f[p] = Left(f[p \ {Max(p)}], s[Max(p)])
      <3>1. Max(p) \in DOMAIN s
        <4>1. DOMAIN s = 1 .. Len(s) /\ Len(s) \in Nat
          OBVIOUS
        <4> QED
          BY <2>2, <4>1, GreatestOf
      <3>2. f[p] = LeftStep[f[p \ {Max(p)}], s[Max(p)]]
        BY <2>1, <2>2 DEF Solves
      <3>3. f[p \ {Max(p)}] \in Seq(Signs) /\ s[Max(p)] \in Signs
        BY <3>1
      <3> QED
        BY <3>2, <3>3, LeftStepTyped, Zenon
    <2>3. f[{}] = << >>
      BY <2>1 DEF Solves
    <2>4. f = [p \in SUBSET DOMAIN s |-> f[p]]
      BY <2>1
    <2>5. [p \in SUBSET DOMAIN s |-> f[p]] =
            [p \in SUBSET DOMAIN s |->
                IF p = {} THEN << >> ELSE Left(f[p \ {Max(p)}], s[Max(p)])]
      BY <2>2, <2>3, Zenon
    <2> QED
      BY <2>4, <2>5, Zenon
  <1>2. PICK f : Keeps(f) /\ Without(s, ":") = f[DOMAIN s]
    BY <1>1, Zenon DEF Without, FoldLeft, MapThenFoldSet, Left
  <1>3. Walks(f, Seq(Signs), Signs, LeftStep, << >>, s)
    <2>1. f[{}] = << >>
      BY <1>2
    <2>2. ASSUME NEW k \in 1 .. Len(s), f[1 .. k - 1] \in Seq(Signs)
          PROVE  f[1 .. k] = LeftStep[f[1 .. k - 1], s[k]]
      <3>1. 1 .. k \in SUBSET DOMAIN s /\ s[k] \in Signs
        OBVIOUS
      <3>2. 1 .. k # {} /\ Max(1 .. k) = k /\ (1 .. k) \ {k} = 1 .. k - 1
        <4>1. k \in Nat /\ k # 0
          OBVIOUS
        <4> QED
          BY <4>1, FirstOnes
      <3>3. f[1 .. k] = Left(f[1 .. k - 1], s[k])
        <4>1. f[1 .. k] = Left(f[(1 .. k) \ {Max(1 .. k)}], s[Max(1 .. k)])
          BY <1>2, <3>1, <3>2, Zenon
        <4> QED
          BY <3>2, <4>1, Zenon
      <3> QED
        BY <2>2, <3>1, <3>3, LeftStepTyped, Zenon
    <2>3. << >> \in Seq(Signs)
      OBVIOUS
    <2>4. LeftStep \in [Seq(Signs) \X Signs -> Seq(Signs)]
      BY LeftStepTyped, Zenon
    <2> QED
      BY <2>1, <2>2, <2>3, <2>4, Zenon DEF Walks
  <1>4. DOMAIN s = 1 .. Len(s)
    OBVIOUS
  <1> QED
    BY <1>2, <1>3, <1>4, Zenon

\* t is what the first j signs of the hexadecimal of b hold of digits.
IsDigits(t, b, j) ==
  /\ t \in Seq(Signs) /\ Len(t) = 2 * (j \div 3) + (j % 3)
  /\ \A i \in 1 .. Len(b) : /\ 2 * i - 1 <= Len(t) => t[2 * i - 1] = High(b[i])
                            /\ 2 * i <= Len(t) => t[2 * i] = Low(b[i])

LEMMA DigitsOneMore ==
  ASSUME NEW b \in Seq(Byte), NEW h, IsHex(h, b, Len(b)), NEW j \in 1 .. Len(h),
         NEW t, IsDigits(t, b, j - 1)
  PROVE  h[j] \in Signs /\ IsDigits(Left(t, h[j]), b, j)
  <1> DEFINE n == Len(b)
  <1>1. /\ n \in Nat /\ n # 0 /\ j \in 1 .. 3 * n - 1
        /\ \A i \in 1 .. n : h[3 * i - 2] = High(b[i]) /\ h[3 * i - 1] = Low(b[i])
        /\ \A i \in 1 .. n - 1 : h[3 * i] = ":"
    BY DEF IsHex
  <1>2. /\ t \in Seq(Signs) /\ Len(t) = 2 * ((j - 1) \div 3) + ((j - 1) % 3)
        /\ \A i \in 1 .. n : /\ 2 * i - 1 <= Len(t) => t[2 * i - 1] = High(b[i])
                             /\ 2 * i <= Len(t) => t[2 * i] = Low(b[i])
    BY DEF IsDigits
  <1>3. \A i \in 1 .. n : /\ High(b[i]) \in Signs /\ High(b[i]) # ":"
                          /\ Low(b[i]) \in Signs /\ Low(b[i]) # ":"
    BY TwoDigits
  <1> HIDE DEF n
  <1>4. PICK i \in 1 .. n : \/ j = 3 * i - 2 \/ j = 3 * i - 1 \/ (j = 3 * i /\ i \in 1 .. n - 1)
    <2>1. CASE j % 3 = 1
      <3>1. (j \div 3) + 1 \in 1 .. n /\ j = 3 * ((j \div 3) + 1) - 2
        BY <1>1, <2>1
      <3> QED
        BY <3>1
    <2>2. CASE j % 3 = 2
      <3>1. (j \div 3) + 1 \in 1 .. n /\ j = 3 * ((j \div 3) + 1) - 1
        BY <1>1, <2>2
      <3> QED
        BY <3>1
    <2>3. CASE j % 3 = 0
      <3>1. (j \div 3) \in 1 .. n - 1 /\ (j \div 3) \in 1 .. n /\ j = 3 * (j \div 3)
        BY <1>1, <2>3
      <3> QED
        BY <3>1
    <2> QED
      BY <1>1, <2>1, <2>2, <2>3
  <1> DEFINE g == Left(t, h[j])
  <1>5. CASE j = 3 * i - 2
    <2>1. h[j] = High(b[i]) /\ h[j] \in Signs /\ h[j] # ":"
      BY <1>1, <1>3, <1>5
    <2>2. Len(t) = 2 * i - 2
      BY <1>1, <1>2, <1>5
    <2>3. g = Append(t, h[j])
      BY <2>1 DEF Left
    <2>4. /\ g \in Seq(Signs) /\ Len(g) = 2 * i - 1 /\ g[2 * i - 1] = High(b[i])
          /\ \A m \in 1 .. 2 * i - 2 : g[m] = t[m]
      BY <1>2, <2>1, <2>2, <2>3
    <2> HIDE DEF g
    <2>5. Len(g) = 2 * (j \div 3) + (j % 3)
      BY <1>1, <1>5, <2>4
    <2>6. ASSUME NEW m \in 1 .. n
          PROVE  /\ 2 * m - 1 <= Len(g) => g[2 * m - 1] = High(b[m])
                 /\ 2 * m <= Len(g) => g[2 * m] = Low(b[m])
      <3>1. CASE m < i
        <4>1. 2 * m - 1 \in 1 .. 2 * i - 2 /\ 2 * m \in 1 .. 2 * i - 2
          BY <1>1, <3>1
        <4>2. t[2 * m - 1] = High(b[m]) /\ t[2 * m] = Low(b[m])
          BY <1>1, <1>2, <2>2, <3>1
        <4> QED
          BY <2>4, <4>1, <4>2
      <3>2. CASE m = i
        BY <1>1, <2>4, <3>2
      <3>3. CASE m > i
        BY <1>1, <2>4, <3>3
      <3> QED
        BY <1>1, <3>1, <3>2, <3>3
    <2> QED
      BY <2>1, <2>4, <2>5, <2>6 DEF IsDigits, g, n
  <1>6. CASE j = 3 * i - 1
    <2>1. h[j] = Low(b[i]) /\ h[j] \in Signs /\ h[j] # ":"
      BY <1>1, <1>3, <1>6
    <2>2. Len(t) = 2 * i - 1
      BY <1>1, <1>2, <1>6
    <2>3. g = Append(t, h[j])
      BY <2>1 DEF Left
    <2>4. /\ g \in Seq(Signs) /\ Len(g) = 2 * i /\ g[2 * i] = Low(b[i])
          /\ \A m \in 1 .. 2 * i - 1 : g[m] = t[m]
      BY <1>2, <2>1, <2>2, <2>3
    <2> HIDE DEF g
    <2>5. Len(g) = 2 * (j \div 3) + (j % 3)
      BY <1>1, <1>6, <2>4
    <2>6. ASSUME NEW m \in 1 .. n
          PROVE  /\ 2 * m - 1 <= Len(g) => g[2 * m - 1] = High(b[m])
                 /\ 2 * m <= Len(g) => g[2 * m] = Low(b[m])
      <3>1. CASE m < i
        <4>1. 2 * m - 1 \in 1 .. 2 * i - 1 /\ 2 * m \in 1 .. 2 * i - 1
          BY <1>1, <3>1
        <4>2. t[2 * m - 1] = High(b[m]) /\ t[2 * m] = Low(b[m])
          BY <1>1, <1>2, <2>2, <3>1
        <4> QED
          BY <2>4, <4>1, <4>2
      <3>2. CASE m = i
        <4>1. 2 * m - 1 \in 1 .. 2 * i - 1
          BY <1>1, <3>2
        <4>2. t[2 * m - 1] = High(b[m])
          BY <1>1, <1>2, <2>2, <3>2
        <4> QED
          BY <2>4, <3>2, <4>1, <4>2
      <3>3. CASE m > i
        BY <1>1, <2>4, <3>3
      <3> QED
        BY <1>1, <3>1, <3>2, <3>3
    <2> QED
      BY <2>1, <2>4, <2>5, <2>6 DEF IsDigits, g, n
  <1>7. CASE j = 3 * i /\ i \in 1 .. n - 1
    <2>1. h[j] = ":" /\ h[j] \in Signs
      BY <1>1, <1>7 DEF Signs
    <2>2. g = t
      BY <2>1 DEF Left
    <2>3. Len(t) = 2 * (j \div 3) + (j % 3)
      BY <1>1, <1>2, <1>7
    <2> HIDE DEF g
    <2>4. IsDigits(t, b, j)
      BY <1>2, <2>3 DEF IsDigits, n
    <2> QED
      BY <2>1, <2>2, <2>4, Zenon DEF g
  <1> QED
    BY <1>4, <1>5, <1>6, <1>7

\* Inv[k] is a set of values that the first k steps do not leave.
StaysIn(Inv, A, step, base, s) ==
  /\ base \in Inv[0]
  /\ \A k \in 0 .. Len(s) : Inv[k] \subseteq A
  /\ \A k \in 1 .. Len(s) : \A x \in Inv[k - 1] : step[x, s[k]] \in Inv[k]

LEMMA WalksInside ==
  ASSUME NEW A, NEW B, NEW base, NEW step, NEW s, NEW f, NEW Inv,
         Walks(f, A, B, step, base, s), StaysIn(Inv, A, step, base, s)
  PROVE  \A k \in Nat : k <= Len(s) => f[1 .. k] \in Inv[k]
  <1> DEFINE S == { k \in Nat : k <= Len(s) /\ f[1 .. k] \notin Inv[k] }
  <1>1. s \in Seq(B)
    BY DEF Walks
  <1>a. Len(s) \in Nat
    BY <1>1
  <1>2. S = {}
    <2> SUFFICES ASSUME S # {} PROVE FALSE
      OBVIOUS
    <2>1. S \in SUBSET Nat
      OBVIOUS
    <2> HIDE DEF S
    <2>2. PICK k \in S : \A j \in S : k <= j
      BY <2>1, LeastNatural
    <2>3. k \in Nat /\ k <= Len(s) /\ f[1 .. k] \notin Inv[k]
      BY <2>2 DEF S
    <2>4. k # 0
      <3> SUFFICES ASSUME k = 0 PROVE FALSE
        OBVIOUS
      <3>1. 1 .. 0 = {}
        BY SMT
      <3>2. f[1 .. k] \in Inv[k]
        BY <3>1, Zenon DEF Walks, StaysIn
      <3> QED
        BY <2>3, <3>2, Zenon
    <2> DEFINE j == k - 1
               l == Len(s)
    <2>5. j \in Nat /\ j <= l /\ ~ (k <= j) /\ k \in 1 .. l /\ j \in 0 .. l
      <3> HIDE DEF l
      <3>1. l \in Nat /\ k \in Nat /\ k <= l
        BY <1>a, <2>3, Zenon DEF l
      <3> QED
        BY <2>4, <3>1, SMT
    <2>6. f[1 .. j] \in Inv[j]
      <3> HIDE DEF j
      <3> QED
        BY <2>2, <2>5, Zenon DEF S
    <2>7. f[1 .. j] \in A
      BY <2>5, <2>6, Zenon DEF StaysIn
    <2>8. f[1 .. k] = step[f[1 .. j], s[k]]
      BY <2>5, <2>7, Zenon DEF Walks
    <2>9. step[f[1 .. j], s[k]] \in Inv[k]
      BY <2>5, <2>6, Zenon DEF StaysIn
    <2> QED
      BY <2>3, <2>8, <2>9, Zenon
  <1> QED
    BY <1>2, Zenon

\* What holds at the beginning and is kept by every step holds at the end.
LEMMA WalksWithin ==
  ASSUME NEW A, NEW B, NEW base, NEW step, NEW s, NEW f, NEW Inv,
         Walks(f, A, B, step, base, s), StaysIn(Inv, A, step, base, s)
  PROVE  f[1 .. Len(s)] \in Inv[Len(s)]
  <1> DEFINE l == Len(s)
  <1>1. s \in Seq(B)
    BY DEF Walks
  <1>2. l \in Nat
    BY <1>1
  <1> HIDE DEF l
  <1>3. l <= l
    BY <1>2, SMT
  <1> QED
    BY <1>2, <1>3, WalksInside, Zenon DEF l

LEMMA DigitsAreLeft ==
  ASSUME NEW b \in Seq(Byte)
  PROVE  IsDigits(Without(get_hex(b, ":"), ":"), b, Len(get_hex(b, ":")))
  <1> DEFINE h == get_hex(b, ":")
             Inv == [j \in 0 .. Len(h) |-> { t \in Seq(Signs) : IsDigits(t, b, j) }]
  <1>1. IsHex(h, b, Len(b))
    BY HexIs
  <1> HIDE DEF h
  <1>2. h \in Seq(Signs) /\ Len(h) \in Nat
    BY <1>1 DEF IsHex
  <1>3. PICK f : Walks(f, Seq(Signs), Signs, LeftStep, << >>, h) /\ Without(h, ":") = f[1 .. Len(h)]
    BY <1>2, WithoutWalks
  <1>4. << >> \in Inv[0]
    <2>1. IsDigits(<< >>, b, 0)
      BY DEF IsDigits
    <2>2. 0 \in 0 .. Len(h)
      BY <1>2
    <2> QED
      BY <2>1, <2>2, Zenon DEF IsDigits
  <1>5. \A j \in 0 .. Len(h) : Inv[j] \subseteq Seq(Signs)
    OBVIOUS
  <1>6. ASSUME NEW j \in 1 .. Len(h), NEW t \in Inv[j - 1] PROVE LeftStep[t, h[j]] \in Inv[j]
    <2>1. j - 1 \in 0 .. Len(h) /\ j \in 0 .. Len(h)
      BY <1>2
    <2>2. t \in Seq(Signs) /\ IsDigits(t, b, j - 1)
      BY <2>1
    <2> HIDE DEF Inv
    <2>3. h[j] \in Signs /\ IsDigits(Left(t, h[j]), b, j)
      BY <1>1, <2>2, DigitsOneMore
    <2>4. LeftStep[t, h[j]] = Left(t, h[j]) /\ Left(t, h[j]) \in Seq(Signs)
      BY <2>2, <2>3, LeftStepTyped, Zenon
    <2> QED
      BY <2>1, <2>3, <2>4, Zenon DEF Inv
  <1> HIDE DEF Inv
  <1>7. f[1 .. Len(h)] \in Inv[Len(h)]
    <2>1. StaysIn(Inv, Seq(Signs), LeftStep, << >>, h)
      BY <1>4, <1>5, <1>6, Zenon DEF StaysIn
    <2> QED
      BY <1>3, <2>1, WalksWithin
  <1>8. Len(h) \in 0 .. Len(h)
    BY <1>2
  <1>9. IsDigits(f[1 .. Len(h)], b, Len(h))
    BY <1>7, <1>8, Zenon DEF Inv
  <1> QED
    BY <1>3, <1>9, Zenon DEF h

LEMMA HexReadBack ==
  ASSUME NEW b \in Seq(Byte)
  PROVE  hexStringToBytes(Without(get_hex(b, ":"), ":")) = b
  <1> DEFINE h == get_hex(b, ":")
             t == Without(h, ":")
             n == Len(b)
  <1>1. n \in Nat /\ DOMAIN b = 1 .. n
    OBVIOUS
  <1>2. Len(h) = IF n = 0 THEN 0 ELSE 3 * n - 1
    BY HexIs DEF IsHex
  <1>3. IsDigits(t, b, Len(h))
    BY DigitsAreLeft
  <1> HIDE DEF h
  <1>4. /\ t \in Seq(Signs) /\ Len(t) = 2 * n
        /\ \A i \in 1 .. n : t[2 * i - 1] = High(b[i]) /\ t[2 * i] = Low(b[i])
    <2>1. /\ t \in Seq(Signs) /\ Len(t) = 2 * (Len(h) \div 3) + (Len(h) % 3)
          /\ \A i \in 1 .. n : /\ 2 * i - 1 <= Len(t) => t[2 * i - 1] = High(b[i])
                               /\ 2 * i <= Len(t) => t[2 * i] = Low(b[i])
      BY <1>3 DEF IsDigits
    <2> HIDE DEF n, t
    <2>2. Len(t) = 2 * n
      <3>1. CASE n = 0
        BY <1>2, <2>1, <3>1
      <3>2. CASE n # 0
        <4>1. Len(h) = 3 * n - 1
          BY <1>2, <3>2
        <4>2. Len(h) \div 3 = n - 1 /\ Len(h) % 3 = 2
          BY <1>1, <3>2, <4>1
        <4>3. Len(t) = 2 * (n - 1) + 2
          BY <2>1, <4>2, Zenon
        <4> QED
          BY <1>1, <4>3
      <3> QED
        BY <3>1, <3>2
    <2>3. ASSUME NEW i \in 1 .. n PROVE t[2 * i - 1] = High(b[i]) /\ t[2 * i] = Low(b[i])
      <3>1. 2 * i - 1 <= Len(t) /\ 2 * i <= Len(t)
        BY <1>1, <2>2
      <3> QED
        BY <2>1, <3>1, Zenon
    <2> QED
      BY <2>1, <2>2, <2>3
  <1> HIDE DEF t
  <1>5. ASSUME NEW i \in 1 .. n
        PROVE  (IF nibbleFromChar(t[2 * i]) = 255 THEN 255
                ELSE ((16 * nibbleFromChar(t[2 * i - 1])) % 256) + nibbleFromChar(t[2 * i])) = b[i]
    <2> DEFINE x == b[i]
    <2>1. x \in Byte
      BY <1>1
    <2>2. nibbleFromChar(t[2 * i - 1]) = x \div 16 /\ nibbleFromChar(t[2 * i]) = x % 16
      <3>1. t[2 * i - 1] = High(b[i]) /\ t[2 * i] = Low(b[i])
        BY <1>4, Zenon
      <3>2. nibbleFromChar(High(x)) = x \div 16 /\ nibbleFromChar(Low(x)) = x % 16
        BY <2>1, TwoDigits, Zenon
      <3> QED
        BY <3>1, <3>2, Zenon
    <2> HIDE DEF x
    <2>3. x % 16 # 255 /\ ((16 * (x \div 16)) % 256) + (x % 16) = x
      BY <2>1, SMT DEF Byte
    <2>4. (IF nibbleFromChar(t[2 * i]) = 255 THEN 255
           ELSE ((16 * nibbleFromChar(t[2 * i - 1])) % 256) + nibbleFromChar(t[2 * i])) = x
      BY <2>2, <2>3
    <2> QED
      BY <2>4 DEF x
  <1>6. Len(t) \div 2 = n
    <2> HIDE DEF n
    <2> QED
      BY <1>1, <1>4, SMT
  <1>7. hexStringToBytes(t) = [i \in 1 .. n |-> b[i]]
    <2> HIDE DEF n
    <2> DEFINE value(i) == IF nibbleFromChar(t[2 * i]) = 255 THEN 255
                ELSE ((16 * nibbleFromChar(t[2 * i - 1])) % 256) + nibbleFromChar(t[2 * i])
    <2>1. hexStringToBytes(t) = [i \in 1 .. n |-> value(i)]
      BY <1>6, Zenon DEF hexStringToBytes
    <2>2. \A i \in 1 .. n : value(i) = b[i]
      BY <1>5, Zenon
    <2> HIDE DEF value
    <2> QED
      BY <2>1, <2>2, Zenon
  <1>8. [i \in 1 .. n |-> b[i]] = b
    BY <1>1
  <1> QED
    BY <1>7, <1>8, Zenon DEF t, h

\* One sign more of a hardware address.
MacMore(n, c) ==
  IF n.over THEN n
  ELSE IF isxdigit(c) THEN [n EXCEPT !.i = @ + 1]
  ELSE IF c \in {":", "-"}
  THEN IF n.i = 0 \/ n.i \div 2 - 1 # n.s THEN [n EXCEPT !.over = TRUE]
       ELSE [n EXCEPT !.s = @ + 1]
  ELSE [n EXCEPT !.s = -1]

MacStates == [i : Nat, s : Int, over : BOOLEAN]
MacBegun  == [i |-> 0, s |-> 0, over |-> FALSE]

MacStep == [p \in MacStates \X Signs |-> MacMore(p[1], p[2])]

LEMMA MacStepTyped ==
  /\ MacStep \in [MacStates \X Signs -> MacStates] /\ MacBegun \in MacStates
  /\ \A n \in MacStates, c \in Signs : MacMore(n, c) \in MacStates /\ MacStep[n, c] = MacMore(n, c)
  <1>1. ASSUME NEW n \in MacStates, NEW c \in Signs PROVE MacMore(n, c) \in MacStates
    <2>0. n.i + 1 \in Nat /\ n.s + 1 \in Int /\ -1 \in Int /\ TRUE \in BOOLEAN
      BY DEF MacStates
    <2>1. [n EXCEPT !.i = n.i + 1] \in MacStates
      BY <2>0, Zenon DEF MacStates
    <2>2. [n EXCEPT !.s = n.s + 1] \in MacStates
      BY <2>0, Zenon DEF MacStates
    <2>3. [n EXCEPT !.s = -1] \in MacStates
      BY <2>0, Zenon DEF MacStates
    <2>4. [n EXCEPT !.over = TRUE] \in MacStates
      BY <2>0, Zenon DEF MacStates
    <2> QED
      BY <2>1, <2>2, <2>3, <2>4, Zenon DEF MacMore
  <1>2. MacBegun \in MacStates
    BY DEF MacBegun, MacStates
  <1> QED
    BY <1>1, <1>2, Zenon DEF MacStep

LEMMA MacWalks ==
  ASSUME NEW s \in Seq(Signs)
  PROVE  \E f : /\ Walks(f, MacStates, Signs, MacStep, MacBegun, s)
                /\ is_valid_mac(s) <=> f[1 .. Len(s)].i = 12 /\ f[1 .. Len(s)].s \in {0, 5}
  <1> DEFINE Reads(f) == f = [p \in SUBSET DOMAIN s |->
                                IF p = {} THEN MacBegun ELSE MacMore(f[p \ {Max(p)}], s[Max(p)])]
  <1>1. \E f : Reads(f)
    <2>1. PICK f \in [SUBSET DOMAIN s -> MacStates] : Solves(f, MacStep, MacBegun, s)
      BY MacStepTyped, Solvable
    <2>2. ASSUME NEW p \in SUBSET DOMAIN s, p # {}
          PROVE  f[p] = MacMore(f[p \ {Max(p)}], s[Max(p)])
      <3>1. Max(p) \in DOMAIN s
        <4>1. DOMAIN s = 1 .. Len(s) /\ Len(s) \in Nat
          OBVIOUS
        <4> QED
          BY <2>2, <4>1, GreatestOf
      <3>2. f[p] = MacStep[f[p \ {Max(p)}], s[Max(p)]]
        BY <2>1, <2>2 DEF Solves
      <3>3. f[p \ {Max(p)}] \in MacStates /\ s[Max(p)] \in Signs
        BY <3>1
      <3> QED
        BY <3>2, <3>3, MacStepTyped, Zenon
    <2>3. f[{}] = MacBegun
      BY <2>1 DEF Solves
    <2>4. f = [p \in SUBSET DOMAIN s |-> f[p]]
      BY <2>1
    <2>5. [p \in SUBSET DOMAIN s |-> f[p]] =
            [p \in SUBSET DOMAIN s |->
                IF p = {} THEN MacBegun ELSE MacMore(f[p \ {Max(p)}], s[Max(p)])]
      BY <2>2, <2>3, Zenon
    <2> QED
      BY <2>4, <2>5, Zenon
  <1>2. PICK f : Reads(f) /\ (is_valid_mac(s) <=> f[DOMAIN s].i = 12 /\ f[DOMAIN s].s \in {0, 5})
    BY <1>1, Zenon DEF is_valid_mac, FoldLeft, MapThenFoldSet, MacMore, MacBegun
  <1>3. Walks(f, MacStates, Signs, MacStep, MacBegun, s)
    <2>1. f[{}] = MacBegun
      BY <1>2
    <2>2. ASSUME NEW k \in 1 .. Len(s), f[1 .. k - 1] \in MacStates
          PROVE  f[1 .. k] = MacStep[f[1 .. k - 1], s[k]]
      <3>1. 1 .. k \in SUBSET DOMAIN s /\ s[k] \in Signs
        OBVIOUS
      <3>2. 1 .. k # {} /\ Max(1 .. k) = k /\ (1 .. k) \ {k} = 1 .. k - 1
        <4>1. k \in Nat /\ k # 0
          OBVIOUS
        <4> QED
          BY <4>1, FirstOnes
      <3>3. f[1 .. k] = MacMore(f[1 .. k - 1], s[k])
        <4>1. f[1 .. k] = MacMore(f[(1 .. k) \ {Max(1 .. k)}], s[Max(1 .. k)])
          BY <1>2, <3>1, <3>2, Zenon
        <4> QED
          BY <3>2, <4>1, Zenon
      <3> QED
        BY <2>2, <3>1, <3>3, MacStepTyped, Zenon
    <2>3. MacStep \in [MacStates \X Signs -> MacStates] /\ MacBegun \in MacStates
      BY MacStepTyped, Zenon
    <2> QED
      BY <2>1, <2>2, <2>3, Zenon DEF Walks
  <1>4. DOMAIN s = 1 .. Len(s)
    OBVIOUS
  <1> QED
    BY <1>2, <1>3, <1>4, Zenon

\* Where is_valid_mac is after the first j signs of a hexadecimal.
IsRead(r, j) ==
  /\ r \in MacStates /\ ~ r.over
  /\ r.i = 2 * (j \div 3) + (j % 3) /\ r.s = j \div 3

LEMMA ReadOneMore ==
  ASSUME NEW b \in Seq(Byte), NEW h, IsHex(h, b, Len(b)), NEW j \in 1 .. Len(h),
         NEW r, IsRead(r, j - 1)
  PROVE  h[j] \in Signs /\ IsRead(MacMore(r, h[j]), j)
  <1> DEFINE n == Len(b)
  <1>1. /\ n \in Nat /\ n # 0 /\ j \in 1 .. 3 * n - 1
        /\ \A i \in 1 .. n : h[3 * i - 2] = High(b[i]) /\ h[3 * i - 1] = Low(b[i])
        /\ \A i \in 1 .. n - 1 : h[3 * i] = ":"
    BY DEF IsHex
  <1>2. r \in MacStates /\ r.i \in Nat /\ r.s \in Int
    BY DEF IsRead, MacStates
  <1>3. /\ r.over = FALSE
        /\ r.i = 2 * ((j - 1) \div 3) + ((j - 1) % 3) /\ r.s = (j - 1) \div 3
    BY DEF IsRead, MacStates
  <1>4. \A i \in 1 .. n : /\ High(b[i]) \in Signs /\ isxdigit(High(b[i]))
                          /\ Low(b[i]) \in Signs /\ isxdigit(Low(b[i]))
    BY TwoDigits
  <1> HIDE DEF n
  <1>5. PICK i \in 1 .. n : \/ j = 3 * i - 2 \/ j = 3 * i - 1 \/ (j = 3 * i /\ i \in 1 .. n - 1)
    <2>1. CASE j % 3 = 1
      <3>1. (j \div 3) + 1 \in 1 .. n /\ j = 3 * ((j \div 3) + 1) - 2
        BY <1>1, <2>1
      <3> QED
        BY <3>1
    <2>2. CASE j % 3 = 2
      <3>1. (j \div 3) + 1 \in 1 .. n /\ j = 3 * ((j \div 3) + 1) - 1
        BY <1>1, <2>2
      <3> QED
        BY <3>1
    <2>3. CASE j % 3 = 0
      <3>1. (j \div 3) \in 1 .. n - 1 /\ (j \div 3) \in 1 .. n /\ j = 3 * (j \div 3)
        BY <1>1, <2>3
      <3> QED
        BY <3>1
    <2> QED
      BY <1>1, <2>1, <2>2, <2>3
  <1>6. CASE j = 3 * i - 2 \/ j = 3 * i - 1
    <2>1. h[j] \in Signs /\ isxdigit(h[j])
      BY <1>1, <1>4, <1>6
    <2>2. MacMore(r, h[j]) = [r EXCEPT !.i = @ + 1]
      BY <1>3, <2>1 DEF MacMore
    <2> DEFINE q == [r EXCEPT !.i = @ + 1]
    <2>3. q \in MacStates /\ q.i = r.i + 1 /\ q.s = r.s /\ q.over = FALSE
      <3>1. r.i + 1 \in Nat
        BY <1>2
      <3>2. q \in MacStates
        BY <1>2, <3>1, Zenon DEF MacStates
      <3>3. DOMAIN r = {"i", "s", "over"}
        BY <1>2, Zenon DEF MacStates
      <3> QED
        BY <1>3, <3>2, <3>3
    <2> HIDE DEF q
    <2>4. r.i + 1 = 2 * (j \div 3) + (j % 3) /\ r.s = j \div 3
      <3>1. /\ j \div 3 = i - 1 /\ (j - 1) \div 3 = i - 1
            /\ ((j - 1) % 3) + 1 = j % 3 /\ (j - 1) % 3 \in Nat
        <4>1. i \in Nat /\ j \in Nat /\ j # 0
          BY <1>1
        <4>2. CASE j = 3 * i - 2
          BY <4>1, <4>2
        <4>3. CASE j = 3 * i - 1
          BY <4>1, <4>3
        <4> QED
          BY <1>6, <4>2, <4>3
      <3> QED
        BY <1>1, <1>3, <3>1
    <2>5. IsRead(q, j)
      BY <2>3, <2>4 DEF IsRead
    <2> QED
      BY <2>1, <2>2, <2>5, Zenon DEF q
  <1>7. CASE j = 3 * i /\ i \in 1 .. n - 1
    <2>1. h[j] = ":" /\ h[j] \in Signs
      BY <1>1, <1>7 DEF Signs
    <2>2. r.i # 0 /\ r.i \div 2 - 1 = r.s
      <3>1. (j - 1) \div 3 = i - 1 /\ (j - 1) % 3 = 2
        BY <1>1, <1>7
      <3>2. r.i = 2 * i /\ r.s = i - 1
        BY <1>1, <1>3, <3>1
      <3> HIDE DEF n
      <3> QED
        BY <1>7, <3>2, SMT
    <2>3. MacMore(r, h[j]) = [r EXCEPT !.s = @ + 1]
      <3>1. ~ r.over /\ ~ isxdigit(h[j]) /\ h[j] \in {":", "-"}
        BY <1>3, <2>1, ColonIsNone, Zenon
      <3> QED
        BY <2>2, <3>1, Zenon DEF MacMore
    <2> DEFINE q == [r EXCEPT !.s = @ + 1]
    <2>4. q \in MacStates /\ q.i = r.i /\ q.s = r.s + 1 /\ q.over = FALSE
      <3>1. r.s + 1 \in Int
        BY <1>2
      <3>2. q \in MacStates
        BY <1>2, <3>1, Zenon DEF MacStates
      <3>3. DOMAIN r = {"i", "s", "over"}
        BY <1>2, Zenon DEF MacStates
      <3> QED
        BY <1>3, <3>2, <3>3
    <2> HIDE DEF q
    <2>5. r.i = 2 * (j \div 3) + (j % 3) /\ r.s + 1 = j \div 3
      BY <1>1, <1>3, <1>7
    <2>6. IsRead(q, j)
      BY <2>4, <2>5 DEF IsRead
    <2> QED
      BY <2>1, <2>3, <2>6, Zenon DEF q
  <1> QED
    BY <1>5, <1>6, <1>7

LEMMA SixAreValid ==
  ASSUME NEW b \in Seq(Byte)
  PROVE  is_valid_mac(get_hex(b, ":")) <=> Len(b) = 6
  <1> DEFINE h == get_hex(b, ":")
             l == Len(h)
             Inv == [j \in 0 .. l |-> { r \in MacStates : IsRead(r, j) }]
  <1>1. IsHex(h, b, Len(b))
    BY HexIs
  <1> HIDE DEF h
  <1>2. h \in Seq(Signs) /\ l \in Nat
    BY <1>1 DEF IsHex
  <1>3. PICK f : /\ Walks(f, MacStates, Signs, MacStep, MacBegun, h)
                 /\ is_valid_mac(h) <=> f[1 .. l].i = 12 /\ f[1 .. l].s \in {0, 5}
    BY <1>2, MacWalks
  <1>4. MacBegun \in Inv[0]
    <2>1. IsRead(MacBegun, 0)
      BY DEF IsRead, MacBegun, MacStates
    <2>2. 0 \in 0 .. l
      BY <1>2
    <2> QED
      BY <2>1, <2>2, Zenon DEF IsRead
  <1>5. \A j \in 0 .. l : Inv[j] \subseteq MacStates
    OBVIOUS
  <1>6. ASSUME NEW j \in 1 .. l, NEW r \in Inv[j - 1] PROVE MacStep[r, h[j]] \in Inv[j]
    <2>1. j - 1 \in 0 .. l /\ j \in 0 .. l
      BY <1>2
    <2>2. r \in MacStates /\ IsRead(r, j - 1)
      BY <2>1
    <2> HIDE DEF Inv
    <2>3. h[j] \in Signs /\ IsRead(MacMore(r, h[j]), j)
      BY <1>1, <2>2, ReadOneMore
    <2>4. MacStep[r, h[j]] = MacMore(r, h[j]) /\ MacMore(r, h[j]) \in MacStates
      BY <2>2, <2>3, MacStepTyped, Zenon
    <2> QED
      BY <2>1, <2>3, <2>4, Zenon DEF Inv
  <1> HIDE DEF Inv
  <1>7. f[1 .. l] \in Inv[l]
    <2>1. StaysIn(Inv, MacStates, MacStep, MacBegun, h)
      BY <1>4, <1>5, <1>6, Zenon DEF StaysIn
    <2> QED
      BY <1>3, <2>1, WalksWithin
  <1>8. l \in 0 .. l
    BY <1>2
  <1> DEFINE r == f[1 .. l]
  <1>9. IsRead(r, l)
    BY <1>7, <1>8, Zenon DEF Inv
  <1> HIDE DEF r
  <1>10. r.i = 2 * (l \div 3) + (l % 3) /\ r.s = l \div 3
    BY <1>9 DEF IsRead
  <1> DEFINE n == Len(b)
  <1>11. n \in Nat /\ l = IF n = 0 THEN 0 ELSE 3 * n - 1
    BY <1>1 DEF IsHex
  <1>12. r.i = 12 /\ r.s \in {0, 5} <=> n = 6
    <2> HIDE DEF l, n
    <2>1. CASE n = 0
      BY <1>10, <1>11, <2>1
    <2>2. CASE n # 0
      <3>1. l = 3 * n - 1
        BY <1>11, <2>2
      <3>2. l \div 3 = n - 1 /\ l % 3 = 2
        BY <1>11, <2>2, <3>1
      <3>3. r.i = 2 * (n - 1) + 2 /\ r.s = n - 1
        BY <1>10, <3>2, Zenon
      <3> QED
        BY <1>11, <3>3
    <2> QED
      BY <2>1, <2>2
  <1> QED
    BY <1>3, <1>12, Zenon DEF r, h, l

(***************************************************************************)
(* Numbers from digits, and dec_to_bin, which writes the remainders of 32  *)
(* halvings from the last place to the first.                              *)
(***************************************************************************)
\* One digit more of a number.
NumMore(base, n, d) == base * n + d

NumStep(base) == [p \in Nat \X Nat |-> NumMore(base, p[1], p[2])]

LEMMA NumStepTyped ==
  ASSUME NEW base \in Nat
  PROVE  /\ NumStep(base) \in [Nat \X Nat -> Nat]
         /\ \A n, d \in Nat : NumMore(base, n, d) \in Nat /\ NumStep(base)[n, d] = NumMore(base, n, d)
  <1>1. ASSUME NEW n \in Nat, NEW d \in Nat PROVE NumMore(base, n, d) \in Nat
    BY DEF NumMore
  <1> QED
    BY <1>1, Zenon DEF NumStep

LEMMA NumberWalks ==
  ASSUME NEW base \in Nat, NEW s \in Seq(Nat)
  PROVE  \E f : /\ Walks(f, Nat, Nat, NumStep(base), 0, s)
                /\ Number(s, base) = f[1 .. Len(s)]
  <1> DEFINE AddsUp(f) == f = [p \in SUBSET DOMAIN s |->
                               IF p = {} THEN 0 ELSE NumMore(base, f[p \ {Max(p)}], s[Max(p)])]
  <1>1. \E f : AddsUp(f)
    <2>1. PICK f \in [SUBSET DOMAIN s -> Nat] : Solves(f, NumStep(base), 0, s)
      <3> DEFINE st == NumStep(base)
      <3>1. 0 \in Nat /\ st \in [Nat \X Nat -> Nat]
        BY NumStepTyped
      <3> HIDE DEF st
      <3>2. \E f \in [SUBSET DOMAIN s -> Nat] : Solves(f, st, 0, s)
        BY <3>1, Solvable
      <3> QED
        BY <3>2, Zenon DEF st
    <2>2. ASSUME NEW p \in SUBSET DOMAIN s, p # {}
          PROVE  f[p] = NumMore(base, f[p \ {Max(p)}], s[Max(p)])
      <3>1. Max(p) \in DOMAIN s
        <4>1. DOMAIN s = 1 .. Len(s) /\ Len(s) \in Nat
          OBVIOUS
        <4> QED
          BY <2>2, <4>1, GreatestOf
      <3>2. f[p] = NumStep(base)[f[p \ {Max(p)}], s[Max(p)]]
        BY <2>1, <2>2, Zenon DEF Solves
      <3>3. f[p \ {Max(p)}] \in Nat /\ s[Max(p)] \in Nat
        BY <3>1
      <3> QED
        BY <3>2, <3>3, NumStepTyped, Zenon
    <2>3. f[{}] = 0
      BY <2>1, Zenon DEF Solves
    <2>4. f = [p \in SUBSET DOMAIN s |-> f[p]]
      BY <2>1
    <2>5. [p \in SUBSET DOMAIN s |-> f[p]] =
            [p \in SUBSET DOMAIN s |->
                IF p = {} THEN 0 ELSE NumMore(base, f[p \ {Max(p)}], s[Max(p)])]
      BY <2>2, <2>3, Zenon
    <2> QED
      BY <2>4, <2>5, Zenon
  <1>2. PICK f : AddsUp(f) /\ Number(s, base) = f[DOMAIN s]
    BY <1>1, Zenon DEF Number, FoldLeft, MapThenFoldSet, NumMore
  <1>3. Walks(f, Nat, Nat, NumStep(base), 0, s)
    <2>1. f[{}] = 0
      BY <1>2
    <2>2. ASSUME NEW k \in 1 .. Len(s), f[1 .. k - 1] \in Nat
          PROVE  f[1 .. k] = NumStep(base)[f[1 .. k - 1], s[k]]
      <3>1. 1 .. k \in SUBSET DOMAIN s /\ s[k] \in Nat
        OBVIOUS
      <3>2. 1 .. k # {} /\ Max(1 .. k) = k /\ (1 .. k) \ {k} = 1 .. k - 1
        <4>1. k \in Nat /\ k # 0
          OBVIOUS
        <4> QED
          BY <4>1, FirstOnes
      <3>3. f[1 .. k] = NumMore(base, f[1 .. k - 1], s[k])
        <4>1. f[1 .. k] = NumMore(base, f[(1 .. k) \ {Max(1 .. k)}], s[Max(1 .. k)])
          BY <1>2, <3>1, <3>2, Zenon
        <4> QED
          BY <3>2, <4>1, Zenon
      <3> QED
        BY <2>2, <3>1, <3>3, NumStepTyped, Zenon
    <2>3. NumStep(base) \in [Nat \X Nat -> Nat] /\ 0 \in Nat
      BY NumStepTyped
    <2> QED
      BY <2>1, <2>2, <2>3, Zenon DEF Walks
  <1>4. DOMAIN s = 1 .. Len(s)
    OBVIOUS
  <1> QED
    BY <1>2, <1>3, <1>4, Zenon

\* The number of the first k digits, and of one digit more.
IsNumber(f, s, base) ==
  /\ f[1 .. 0] = 0
  /\ \A k \in 1 .. Len(s) : f[1 .. k - 1] \in Nat =>
       f[1 .. k] \in Nat /\ f[1 .. k] = base * f[1 .. k - 1] + s[k]

LEMMA NumberIs ==
  ASSUME NEW base \in Nat, NEW s \in Seq(Nat)
  PROVE  \E f : IsNumber(f, s, base) /\ Number(s, base) = f[1 .. Len(s)]
  <1>1. PICK f : Walks(f, Nat, Nat, NumStep(base), 0, s) /\ Number(s, base) = f[1 .. Len(s)]
    BY NumberWalks, Zenon
  <1>2. 1 .. 0 = {}
    BY SMT
  <1>3. f[1 .. 0] = 0
    BY <1>1, <1>2, Zenon DEF Walks
  <1>4. ASSUME NEW k \in 1 .. Len(s), f[1 .. k - 1] \in Nat
        PROVE  f[1 .. k] \in Nat /\ f[1 .. k] = base * f[1 .. k - 1] + s[k]
    <2>1. f[1 .. k] = NumStep(base)[f[1 .. k - 1], s[k]]
      BY <1>1, <1>4, Zenon DEF Walks
    <2>2. s[k] \in Nat
      OBVIOUS
    <2>3. /\ NumMore(base, f[1 .. k - 1], s[k]) \in Nat
          /\ NumStep(base)[f[1 .. k - 1], s[k]] = NumMore(base, f[1 .. k - 1], s[k])
      BY <1>4, <2>2, NumStepTyped, Zenon
    <2> QED
      BY <2>1, <2>3, Zenon DEF NumMore
  <1> QED
    BY <1>1, <1>3, <1>4, Zenon DEF IsNumber

LEMMA EightSteps ==
  ASSUME NEW s, NEW g, \A k \in 1 .. 8 : s[k] \in Nat, g[0] = 0,
         \A k \in 1 .. 8 : g[k - 1] \in Nat => g[k] \in Nat /\ g[k] = 2 * g[k - 1] + s[k]
  PROVE  g[8] = 128 * s[1] + 64 * s[2] + 32 * s[3] + 16 * s[4] + 8 * s[5] + 4 * s[6] + 2 * s[7] + s[8]
  <1>1. g[1] = s[1] /\ g[1] \in Nat
    BY SMT
  <1>2. g[2] = 2 * s[1] + s[2] /\ g[2] \in Nat
    BY <1>1, SMT
  <1>3. g[3] = 4 * s[1] + 2 * s[2] + s[3] /\ g[3] \in Nat
    BY <1>2, SMT
  <1>4. g[4] = 8 * s[1] + 4 * s[2] + 2 * s[3] + s[4] /\ g[4] \in Nat
    BY <1>3, SMT
  <1>5. g[5] = 2 * g[4] + s[5] /\ g[5] \in Nat
    BY <1>4, SMT
  <1>6. g[6] = 4 * g[4] + 2 * s[5] + s[6] /\ g[6] \in Nat
    BY <1>4, <1>5, SMT
  <1>7. g[7] = 8 * g[4] + 4 * s[5] + 2 * s[6] + s[7] /\ g[7] \in Nat
    BY <1>4, <1>6, SMT
  <1>8. g[8] = 16 * g[4] + 8 * s[5] + 4 * s[6] + 2 * s[7] + s[8]
    BY <1>4, <1>7, SMT
  <1> QED
    BY <1>4, <1>8, SMT

LEMMA EightDigits ==
  ASSUME NEW s \in Seq(Nat), Len(s) = 8
  PROVE  Number(s, 2) = 128 * s[1] + 64 * s[2] + 32 * s[3] + 16 * s[4] + 8 * s[5] + 4 * s[6]
                        + 2 * s[7] + s[8]
  <1>1. PICK f : IsNumber(f, s, 2) /\ Number(s, 2) = f[1 .. Len(s)]
    BY NumberIs
  <1> DEFINE g == [k \in 0 .. 8 |-> f[1 .. k]]
  <1>2. \A k \in 1 .. 8 : s[k] \in Nat
    BY ElementOfSeq
  <1>3. /\ 0 \in 0 .. 8 /\ 8 \in 0 .. 8 /\ \A k \in 1 .. 8 : k \in 0 .. 8 /\ k - 1 \in 0 .. 8
    BY SMT
  <1>4. g[0] = 0 /\ Number(s, 2) = g[8]
    BY <1>1, <1>3, Zenon DEF IsNumber
  <1>5. \A k \in 1 .. 8 : g[k - 1] \in Nat => g[k] \in Nat /\ g[k] = 2 * g[k - 1] + s[k]
    BY <1>1, <1>3, Zenon DEF IsNumber
  <1> HIDE DEF g
  <1> QED
    BY <1>2, <1>4, <1>5, EightSteps, Zenon

LEMMA FewBytes ==
  ASSUME NEW s \in Seq(Byte), Len(s) < 4
  PROVE  /\ Number(s, 256) \in Nat
         /\ Len(s) = 0 => Number(s, 256) = 0
         /\ Len(s) = 1 => Number(s, 256) = s[1]
         /\ Len(s) = 2 => Number(s, 256) = 256 * s[1] + s[2]
         /\ Len(s) = 3 => Number(s, 256) = 256 * (256 * s[1] + s[2]) + s[3]
  <1>1. s \in Seq(Nat) /\ \A k \in 1 .. Len(s) : s[k] \in Nat
    <2>1. \A x \in Byte : x \in Nat
      BY SMT DEF Byte
    <2>2. \A k \in 1 .. Len(s) : s[k] \in Byte
      OBVIOUS
    <2>3. \A k \in 1 .. Len(s) : s[k] \in Nat
      BY <2>1, <2>2, Zenon
    <2>4. Len(s) \in Nat /\ DOMAIN s = 1 .. Len(s) /\ s = [k \in 1 .. Len(s) |-> s[k]]
      OBVIOUS
    <2>5. s \in [1 .. Len(s) -> Nat]
      BY <2>3, <2>4, Zenon
    <2>6. s \in Seq(Nat)
      BY <2>4, <2>5
    <2> QED
      BY <2>3, <2>6
  <1>2. PICK f : IsNumber(f, s, 256) /\ Number(s, 256) = f[1 .. Len(s)]
    BY <1>1, NumberIs
  <1> DEFINE g(k) == f[1 .. k]
             l == Len(s)
  <1>3. g(0) = 0 /\ Number(s, 256) = g(l) /\ l \in 0 .. 3
    <2>1. l \in Nat /\ l < 4
      BY <1>1
    <2> HIDE DEF l
    <2>2. l \in 0 .. 3
      BY <2>1, SMT
    <2> QED
      BY <1>2, <2>2, Zenon DEF IsNumber, l
  <1>4. \A k \in 1 .. l : g(k - 1) \in Nat => g(k) \in Nat /\ g(k) = 256 * g(k - 1) + s[k]
    BY <1>2 DEF IsNumber
  <1>5. \A k \in 1 .. l : s[k] \in Nat
    BY <1>1
  <1> HIDE DEF g, l
  <1>6. l >= 1 => g(1) = s[1] /\ g(1) \in Nat
    BY <1>3, <1>4, <1>5
  <1>7. l >= 2 => g(2) = 256 * s[1] + s[2] /\ g(2) \in Nat
    BY <1>3, <1>4, <1>5, <1>6
  <1>8. l >= 3 => g(3) = 256 * (256 * s[1] + s[2]) + s[3] /\ g(3) \in Nat
    BY <1>3, <1>4, <1>5, <1>7
  <1> QED
    BY <1>3, <1>6, <1>7, <1>8 DEF l

\* R halves a number again and again, three bytes long.
Halving(R) == \A k \in 1 .. 24 : R[k - 1] \in Nat => R[k] = R[k - 1] \div 2 /\ R[k] \in Nat

\* Eight halvings leave the next byte.
LEMMA EightHalvings ==
  ASSUME NEW R, NEW o \in {0, 8, 16}, R[o] \in Nat, Halving(R)
  PROVE  /\ R[o + 8] = R[o] \div 256 /\ R[o + 8] \in Nat
         /\ \A k \in 0 .. 7 : R[o + k] \in Nat
         /\ 128 * (R[o + 7] % 2) + 64 * (R[o + 6] % 2) + 32 * (R[o + 5] % 2) + 16 * (R[o + 4] % 2)
            + 8 * (R[o + 3] % 2) + 4 * (R[o + 2] % 2) + 2 * (R[o + 1] % 2) + (R[o] % 2) = R[o] % 256
  <1> DEFINE h(k) == R[o + k]
  <1>1. ASSUME NEW k \in 0 .. 7, h(k) \in Nat
        PROVE  h(k + 1) = h(k) \div 2 /\ h(k + 1) \in Nat /\ h(k) = 2 * h(k + 1) + (h(k) % 2)
    <2>1. o + k + 1 \in 1 .. 24 /\ (o + k + 1) - 1 = o + k /\ o + k + 1 = o + (k + 1)
      OBVIOUS
    <2>2. h(k + 1) = h(k) \div 2 /\ h(k + 1) \in Nat
      BY <1>1, <2>1, Zenon DEF Halving
    <2> HIDE DEF h
    <2> QED
      BY <1>1, <2>2
  <1>2. h(0) \in Nat /\ h(0) = R[o]
    OBVIOUS
  <1> HIDE DEF h
  <1>3. h(1) \in Nat /\ h(0) = 2 * h(1) + (h(0) % 2)
    BY <1>1, <1>2
  <1>4. h(2) \in Nat /\ h(1) = 2 * h(2) + (h(1) % 2)
    BY <1>1, <1>3
  <1>5. h(3) \in Nat /\ h(2) = 2 * h(3) + (h(2) % 2)
    BY <1>1, <1>4
  <1>6. h(4) \in Nat /\ h(3) = 2 * h(4) + (h(3) % 2)
    BY <1>1, <1>5
  <1>7. h(5) \in Nat /\ h(4) = 2 * h(5) + (h(4) % 2)
    BY <1>1, <1>6
  <1>8. h(6) \in Nat /\ h(5) = 2 * h(6) + (h(5) % 2)
    BY <1>1, <1>7
  <1>9. h(7) \in Nat /\ h(6) = 2 * h(7) + (h(6) % 2)
    BY <1>1, <1>8
  <1>10. h(8) \in Nat /\ h(7) = 2 * h(8) + (h(7) % 2)
    BY <1>1, <1>9
  <1> DEFINE bits == 128 * (h(7) % 2) + 64 * (h(6) % 2) + 32 * (h(5) % 2) + 16 * (h(4) % 2)
            + 8 * (h(3) % 2) + 4 * (h(2) % 2) + 2 * (h(1) % 2) + (h(0) % 2)
  <1>11. h(0) = 256 * h(8) + bits
    <2> DEFINE low  == 8 * (h(3) % 2) + 4 * (h(2) % 2) + 2 * (h(1) % 2) + (h(0) % 2)
               high == 8 * (h(7) % 2) + 4 * (h(6) % 2) + 2 * (h(5) % 2) + (h(4) % 2)
    <2>1. h(0) = 16 * h(4) + low
      BY <1>2, <1>3, <1>4, <1>5, <1>6, SMT
    <2>2. h(4) = 16 * h(8) + high
      BY <1>6, <1>7, <1>8, <1>9, <1>10, SMT
    <2>3. \A x \in Nat : x % 2 \in Nat
      OBVIOUS
    <2>4. /\ h(0) % 2 \in Nat /\ h(1) % 2 \in Nat /\ h(2) % 2 \in Nat /\ h(3) % 2 \in Nat
          /\ h(4) % 2 \in Nat /\ h(5) % 2 \in Nat /\ h(6) % 2 \in Nat /\ h(7) % 2 \in Nat
      BY <2>3, <1>2, <1>3, <1>4, <1>5, <1>6, <1>7, <1>8, <1>9, Zenon
    <2>5. bits = 16 * high + low /\ low \in Nat /\ high \in Nat
      BY <2>4, SMT
    <2> HIDE DEF low, high, bits
    <2> QED
      BY <1>2, <1>6, <1>10, <2>1, <2>2, <2>5, SMT
  <1>12. bits \in 0 .. 255
    <2>1. \A x \in Nat : x % 2 \in 0 .. 1
      OBVIOUS
    <2>2. /\ h(0) % 2 \in 0 .. 1 /\ h(1) % 2 \in 0 .. 1 /\ h(2) % 2 \in 0 .. 1
          /\ h(3) % 2 \in 0 .. 1 /\ h(4) % 2 \in 0 .. 1 /\ h(5) % 2 \in 0 .. 1
          /\ h(6) % 2 \in 0 .. 1 /\ h(7) % 2 \in 0 .. 1
      BY <2>1, <1>2, <1>3, <1>4, <1>5, <1>6, <1>7, <1>8, <1>9, <1>10, Zenon
    <2> QED
      BY <2>2
  <1>13. h(8) = h(0) \div 256 /\ bits = h(0) % 256
    <2> HIDE DEF bits
    <2> QED
      BY <1>2, <1>10, <1>11, <1>12
  <1>14. \A k \in 0 .. 7 : h(k) \in Nat
    <2>1. \A k \in 0 .. 7 : k = 0 \/ k = 1 \/ k = 2 \/ k = 3 \/ k = 4 \/ k = 5 \/ k = 6 \/ k = 7
      OBVIOUS
    <2> QED
      BY <2>1, <1>2, <1>3, <1>4, <1>5, <1>6, <1>7, <1>8, <1>9
  <1> QED
    BY <1>2, <1>10, <1>13, <1>14 DEF h

Zeroes == {"0", "1"}

LEMMA BinaryIs ==
  ASSUME NEW x \in 0 .. 1
  PROVE  Binary[1 + x] \in Zeroes /\ (IF Binary[1 + x] = "1" THEN 1 ELSE 0) = x
  <1>1. x = 0 \/ x = 1
    BY SMT
  <1>2. Binary[1] = "0" /\ Binary[2] = "1"
    BY DEF Binary
  <1>3. CASE x = 0
    BY <1>2, <1>3 DEF Zeroes
  <1>4. CASE x = 1
    BY <1>2, <1>4 DEF Zeroes
  <1> QED
    BY <1>1, <1>3, <1>4

\* One halving more.
BinMore(r) == [rest |-> r.rest \div 2, text |-> <<Binary[1 + (r.rest % 2)]>> \o r.text]

Halvings     == [k \in 1 .. 32 |-> k]
BinStates == [rest : Nat, text : Seq(Zeroes)]
BinBegun(n) == [rest |-> n, text |-> << >>]

BinStep == [p \in BinStates \X Nat |-> BinMore(p[1])]

LEMMA HalvingsAre ==
  /\ Halvings \in Seq(Nat) /\ Len(Halvings) = 32 /\ DOMAIN Halvings = 1 .. 32
  /\ \A k \in 1 .. 32 : Halvings[k] \in Nat
  BY DEF Halvings

LEMMA BinMoreIs ==
  ASSUME NEW r \in BinStates
  PROVE  /\ BinMore(r) \in BinStates /\ BinMore(r).rest = r.rest \div 2
         /\ Len(BinMore(r).text) = Len(r.text) + 1
         /\ BinMore(r).text[1] = Binary[1 + (r.rest % 2)]
         /\ \A i \in 1 .. Len(r.text) : BinMore(r).text[i + 1] = r.text[i]
  <1> DEFINE x == r.rest % 2
             t == r.text
             d == <<Binary[1 + x]>>
  <1>1. r.rest \in Nat /\ t \in Seq(Zeroes)
    BY DEF BinStates
  <1>2. x \in 0 .. 1 /\ r.rest \div 2 \in Nat
    BY <1>1
  <1>3. Binary[1 + x] \in Zeroes
    BY <1>2, BinaryIs
  <1>4. d \in Seq(Zeroes) /\ Len(d) = 1 /\ d[1] = Binary[1 + x]
    BY <1>3
  <1> HIDE DEF d, t
  <1>5. /\ d \o t \in Seq(Zeroes) /\ Len(d \o t) = Len(d) + Len(t)
        /\ \A i \in 1 .. Len(d) + Len(t) : (d \o t)[i] = IF i <= Len(d) THEN d[i] ELSE t[i - Len(d)]
    BY <1>1, <1>4, ConcatProperties, Zenon
  <1>6. Len(t) \in Nat
    BY <1>1
  <1>7. /\ BinMore(r) = [rest |-> r.rest \div 2, text |-> d \o t]
    BY Zenon DEF BinMore, d, t
  <1> DEFINE c == d \o t
  <1>8. c \in Seq(Zeroes) /\ Len(c) = Len(t) + 1 /\ c[1] = d[1]
    BY <1>4, <1>5, <1>6
  <1>9. ASSUME NEW i \in 1 .. Len(t) PROVE c[i + 1] = t[i]
    <2>1. /\ i + 1 \in 1 .. Len(d) + Len(t) /\ ~ (i + 1 <= Len(d)) /\ (i + 1) - Len(d) = i
      BY <1>4, <1>6
    <2>2. c[i + 1] = t[(i + 1) - Len(d)]
      BY <1>5, <2>1, Zenon
    <2> QED
      BY <2>1, <2>2, Zenon
  <1> HIDE DEF c
  <1>10. BinMore(r) = [rest |-> r.rest \div 2, text |-> c]
    BY <1>7, Zenon DEF c
  <1>11. BinMore(r).rest = r.rest \div 2 /\ BinMore(r).text = c
    BY <1>10
  <1>12. BinMore(r) \in BinStates
    <2> DEFINE m == r.rest \div 2
    <2>1. m \in Nat
      BY <1>2
    <2> HIDE DEF m
    <2>2. [rest |-> m, text |-> c] \in BinStates
      BY <1>8, <2>1 DEF BinStates
    <2> QED
      BY <1>10, <2>2, Zenon DEF m
  <1> QED
    BY <1>4, <1>8, <1>9, <1>11, <1>12, Zenon DEF t

LEMMA BinStepTyped ==
  /\ BinStep \in [BinStates \X Nat -> BinStates]
  /\ \A r \in BinStates, k \in Nat : BinStep[r, k] = BinMore(r)
  BY BinMoreIs, Zenon DEF BinStep

LEMMA BinWalks ==
  ASSUME NEW n \in Nat
  PROVE  \E f : /\ Walks(f, BinStates, Nat, BinStep, BinBegun(n), Halvings)
                /\ dec_to_bin(n) = f[1 .. 32].text
  <1> DEFINE s == Halvings
             Halves(f) == f = [p \in SUBSET DOMAIN s |->
                                 IF p = {} THEN BinBegun(n) ELSE BinMore(f[p \ {Max(p)}])]
  <1>a. BinBegun(n) \in BinStates
    <2>1. << >> \in Seq(Zeroes)
      OBVIOUS
    <2> QED
      BY <2>1, Zenon DEF BinBegun, BinStates
  <1>b. /\ s \in Seq(Nat) /\ DOMAIN s = 1 .. 32 /\ Len(s) = 32
        /\ \A k \in 1 .. 32 : s[k] \in Nat
    BY HalvingsAre
  <1>1. \E f : Halves(f)
    <2>1. PICK f \in [SUBSET DOMAIN s -> BinStates] : Solves(f, BinStep, BinBegun(n), s)
      BY <1>a, <1>b, BinStepTyped, Solvable
    <2>2. ASSUME NEW p \in SUBSET DOMAIN s, p # {}
          PROVE  f[p] = BinMore(f[p \ {Max(p)}])
      <3>1. Max(p) \in DOMAIN s
        <4>1. DOMAIN s = 1 .. Len(s) /\ Len(s) \in Nat
          BY <1>b
        <4> QED
          BY <2>2, <4>1, GreatestOf
      <3>2. f[p] = BinStep[f[p \ {Max(p)}], s[Max(p)]]
        BY <2>1, <2>2, Zenon DEF Solves
      <3> HIDE DEF s
      <3>3. f[p \ {Max(p)}] \in BinStates /\ s[Max(p)] \in Nat
        BY <1>b, <3>1, Zenon
      <3> QED
        BY <3>2, <3>3, BinStepTyped, Zenon
    <2>3. f[{}] = BinBegun(n)
      BY <2>1, Zenon DEF Solves
    <2>4. f = [p \in SUBSET DOMAIN s |-> f[p]]
      BY <2>1
    <2>5. [p \in SUBSET DOMAIN s |-> f[p]] =
            [p \in SUBSET DOMAIN s |->
                IF p = {} THEN BinBegun(n) ELSE BinMore(f[p \ {Max(p)}])]
      BY <2>2, <2>3, Zenon
    <2> QED
      BY <2>4, <2>5, Zenon
  <1>2. PICK f : Halves(f) /\ dec_to_bin(n) = f[DOMAIN s].text
    BY <1>1, Zenon DEF dec_to_bin, FoldLeft, MapThenFoldSet, BinMore, BinBegun, Halvings
  <1>3. Walks(f, BinStates, Nat, BinStep, BinBegun(n), s)
    <2> HIDE DEF s
    <2>1. f[{}] = BinBegun(n)
      BY <1>2
    <2>2. ASSUME NEW k \in 1 .. Len(s), f[1 .. k - 1] \in BinStates
          PROVE  f[1 .. k] = BinStep[f[1 .. k - 1], s[k]]
      <3>0. k \in 1 .. 32
        BY <1>b, Zenon
      <3>1. 1 .. k \in SUBSET DOMAIN s /\ s[k] \in Nat
        <4>1. 1 .. k \in SUBSET (1 .. 32)
          BY <3>0, SMT
        <4> QED
          BY <1>b, <3>0, <4>1, Zenon
      <3>2. 1 .. k # {} /\ Max(1 .. k) = k /\ (1 .. k) \ {k} = 1 .. k - 1
        <4>1. k \in Nat /\ k # 0
          BY <3>0, SMT
        <4> QED
          BY <4>1, FirstOnes
      <3>3. f[1 .. k] = BinMore(f[1 .. k - 1])
        <4>1. f[1 .. k] = BinMore(f[(1 .. k) \ {Max(1 .. k)}])
          BY <1>2, <3>1, <3>2, Zenon
        <4> QED
          BY <3>2, <4>1, Zenon
      <3> QED
        BY <2>2, <3>1, <3>3, BinStepTyped, Zenon
    <2>3. BinStep \in [BinStates \X Nat -> BinStates]
      BY BinStepTyped, Zenon
    <2> QED
      BY <1>a, <1>b, <2>1, <2>2, <2>3, Zenon DEF Walks
  <1> QED
    BY <1>b, <1>2, <1>3, Zenon

\* What is left after k halvings, and the digits, the last one first.
IsHalved(R, n, digits) ==
  /\ R[0] = n /\ \A k \in 0 .. 32 : R[k] \in Nat
  /\ \A k \in 1 .. 32 : R[k] = R[k - 1] \div 2
  /\ \A k \in 1 .. 32 : digits[33 - k] = Binary[1 + (R[k - 1] % 2)]

LEMMA HalvedIs ==
  ASSUME NEW n \in Nat
  PROVE  \E R : IsHalved(R, n, dec_to_bin(n))
  <1>1. PICK f : /\ Walks(f, BinStates, Nat, BinStep, BinBegun(n), Halvings)
                 /\ dec_to_bin(n) = f[1 .. 32].text
    BY BinWalks
  <1> DEFINE R == [k \in 0 .. 32 |-> f[1 .. k].rest]
             IsText(r, k) == /\ Len(r.text) = k
                             /\ \A i \in 1 .. k : r.text[k + 1 - i] = Binary[1 + (R[i - 1] % 2)]
             Inv == [k \in 0 .. 32 |-> { r \in BinStates : r = f[1 .. k] /\ IsText(r, k) }]
  <1>2. f[1 .. 0] = BinBegun(n) /\ BinBegun(n) \in BinStates
    <2>1. 1 .. 0 = {}
      BY SMT
    <2> QED
      BY <1>1, <2>1, Zenon DEF Walks
  <1>3. \A k \in 1 .. 32 : f[1 .. k - 1] \in BinStates => f[1 .. k] = BinMore(f[1 .. k - 1])
    <2> SUFFICES ASSUME NEW k \in 1 .. 32, f[1 .. k - 1] \in BinStates
                 PROVE  f[1 .. k] = BinMore(f[1 .. k - 1])
      OBVIOUS
    <2>1. f[1 .. k] = BinStep[f[1 .. k - 1], Halvings[k]]
      BY <1>1, HalvingsAre, Zenon DEF Walks
    <2>2. Halvings[k] \in Nat
      BY HalvingsAre, Zenon
    <2> QED
      BY <2>1, <2>2, BinStepTyped, Zenon
  <1>4. /\ 0 \in 0 .. 32 /\ 32 \in 0 .. 32
        /\ \A k \in 1 .. 32 : k \in 0 .. 32 /\ k - 1 \in 0 .. 32 /\ k \in Nat /\ k - 1 \in Nat
    BY SMT
  <1>5. BinBegun(n) \in Inv[0]
    <2>1. BinBegun(n).text = << >> /\ Len(<< >>) = 0 /\ 1 .. 0 = {}
      BY DEF BinBegun
    <2>2. IsText(BinBegun(n), 0)
      BY <2>1, Zenon
    <2> HIDE DEF IsText
    <2> QED
      BY <1>2, <1>4, <2>2, Zenon
  <1>6. ASSUME NEW k \in 1 .. 32, NEW r \in Inv[k - 1] PROVE BinStep[r, Halvings[k]] \in Inv[k]
    <2>1. k \in Nat /\ k - 1 \in Nat
      BY <1>4, Zenon
    <2>2. r \in BinStates /\ r = f[1 .. k - 1] /\ IsText(r, k - 1)
      <3> DEFINE j == k - 1
      <3>1. j \in 0 .. 32 /\ r \in Inv[j]
        BY <1>4, Zenon
      <3> HIDE DEF j, IsText
      <3>2. r \in BinStates /\ r = f[1 .. j] /\ IsText(r, j)
        BY <3>1
      <3> QED
        BY <3>2, Zenon DEF j
    <2>3. r.rest = R[k - 1]
      BY <1>4, <2>2, Zenon
    <2> DEFINE q == BinMore(r)
    <2>4. BinStep[r, Halvings[k]] = q
      <3>1. Halvings[k] \in Nat
        BY HalvingsAre, Zenon
      <3> QED
        BY <2>2, <3>1, BinStepTyped, Zenon
    <2>5. q = f[1 .. k]
      BY <1>3, <2>2, Zenon
    <2>6. /\ q \in BinStates /\ Len(q.text) = Len(r.text) + 1
          /\ q.text[1] = Binary[1 + (r.rest % 2)]
          /\ \A i \in 1 .. Len(r.text) : q.text[i + 1] = r.text[i]
      BY <2>2, BinMoreIs
    <2>7. /\ Len(r.text) = k - 1
          /\ \A i \in 1 .. k - 1 : r.text[(k - 1) + 1 - i] = Binary[1 + (R[i - 1] % 2)]
      BY <2>2, Zenon
    <2> HIDE DEF q, R
    <2>8. IsText(q, k)
      <3>1. Len(q.text) = k
        BY <2>1, <2>6, <2>7
      <3>2. ASSUME NEW i \in 1 .. k PROVE q.text[k + 1 - i] = Binary[1 + (R[i - 1] % 2)]
        <4>1. CASE i = k
          <5>1. k + 1 - i = 1
            BY <2>1, <4>1
          <5> QED
            BY <2>3, <2>6, <4>1, <5>1, Zenon
        <4>2. CASE i # k
          <5>1. /\ k - i \in 1 .. k - 1 /\ (k - i) + 1 = k + 1 - i /\ (k - 1) + 1 - i = k - i
                /\ i \in 1 .. k - 1
            BY <2>1, <4>2
          <5>2. q.text[k + 1 - i] = r.text[k - i]
            BY <2>6, <2>7, <5>1, Zenon
          <5> QED
            BY <2>7, <5>1, <5>2, Zenon
        <4> QED
          BY <4>1, <4>2
      <3> QED
        BY <3>1, <3>2, Zenon
    <2> HIDE DEF IsText
    <2> QED
      BY <1>4, <2>4, <2>5, <2>6, <2>8, Zenon
  <1>7. \A k \in 0 .. 32 : Inv[k] \subseteq BinStates
    OBVIOUS
  <1>8. \A k \in 0 .. 32 : f[1 .. k] \in Inv[k]
    <2> HIDE DEF Inv
    <2>1. Len(Halvings) = 32
      BY HalvingsAre
    <2>2. StaysIn(Inv, BinStates, BinStep, BinBegun(n), Halvings)
      BY <1>5, <1>6, <1>7, <2>1, Zenon DEF StaysIn
    <2>3. \A k \in Nat : k <= 32 => f[1 .. k] \in Inv[k]
      <3>1. \A k \in Nat : k <= Len(Halvings) => f[1 .. k] \in Inv[k]
        BY <1>1, <2>2, WalksInside
      <3> QED
        BY <2>1, <3>1, Zenon
    <2>4. \A k \in 0 .. 32 : k \in Nat /\ k <= 32
      BY SMT
    <2> QED
      BY <2>3, <2>4, Zenon
  <1>9. /\ \A k \in 0 .. 32 : f[1 .. k] \in BinStates
        /\ IsText(f[1 .. 32], 32)
    <2> HIDE DEF IsText
    <2> QED
      BY <1>4, <1>8, Zenon
  <1>10. R[0] = n
    <2>1. BinBegun(n).rest = n
      BY DEF BinBegun
    <2> QED
      BY <1>2, <1>4, <2>1, Zenon
  <1>11. ASSUME NEW k \in 1 .. 32 PROVE R[k] = R[k - 1] \div 2
    <2>1. f[1 .. k - 1] \in BinStates /\ f[1 .. k] = BinMore(f[1 .. k - 1])
      BY <1>3, <1>4, <1>9, Zenon
    <2>2. R[k] = f[1 .. k].rest /\ R[k - 1] = f[1 .. k - 1].rest
      BY <1>4, Zenon
    <2>3. BinMore(f[1 .. k - 1]).rest = f[1 .. k - 1].rest \div 2
      BY <2>1, BinMoreIs, Zenon
    <2> QED
      BY <2>1, <2>2, <2>3, Zenon
  <1>12. ASSUME NEW k \in 0 .. 32 PROVE R[k] \in Nat
    <2>1. \A r \in BinStates : r.rest \in Nat
      BY DEF BinStates
    <2>2. R[k] = f[1 .. k].rest
      BY Zenon
    <2> QED
      BY <1>9, <2>1, <2>2, Zenon
  <1>13. ASSUME NEW k \in 1 .. 32 PROVE dec_to_bin(n)[33 - k] = Binary[1 + (R[k - 1] % 2)]
    <2>1. f[1 .. 32].text[32 + 1 - k] = Binary[1 + (R[k - 1] % 2)]
      BY <1>9, Zenon
    <2>2. 32 + 1 - k = 33 - k
      BY SMT
    <2> QED
      BY <1>1, <2>1, <2>2, Zenon
  <1> HIDE DEF R
  <1> QED
    BY <1>10, <1>11, <1>12, <1>13, Zenon DEF IsHalved

\* The number of the eight digits of d that start eight before the last o.
EightFrom(d, o) ==
  Number([i \in 1 .. 8 |-> IF d[(25 - o) + i - 1] = "1" THEN 1 ELSE 0], 2)

LEMMA BytesAreDigits ==
  ASSUME NEW n \in Nat, NEW o \in {0, 8, 16}, NEW R, IsHalved(R, n, dec_to_bin(n))
  PROVE  /\ R[o] \in Nat /\ R[o + 8] = R[o] \div 256
         /\ EightFrom(dec_to_bin(n), o) = R[o] % 256
  <1> DEFINE d == dec_to_bin(n)
             s == [i \in 1 .. 8 |-> IF d[(25 - o) + i - 1] = "1" THEN 1 ELSE 0]
  <1>1. o \in Nat /\ o <= 16 /\ o \in 0 .. 32
    BY SMT
  <1>2. R[o] \in Nat
    BY <1>1, Zenon DEF IsHalved
  <1>3. Halving(R)
    <2>1. \A k \in 1 .. 24 : k \in 1 .. 32 /\ k \in 0 .. 32
      BY SMT
    <2> QED
      BY <2>1, Zenon DEF IsHalved, Halving
  <1>4. /\ R[o + 8] = R[o] \div 256 /\ \A k \in 0 .. 7 : R[o + k] \in Nat
        /\ 128 * (R[o + 7] % 2) + 64 * (R[o + 6] % 2) + 32 * (R[o + 5] % 2) + 16 * (R[o + 4] % 2)
           + 8 * (R[o + 3] % 2) + 4 * (R[o + 2] % 2) + 2 * (R[o + 1] % 2) + (R[o] % 2) = R[o] % 256
    BY <1>2, <1>3, EightHalvings
  <1>5. ASSUME NEW i \in 1 .. 8 PROVE s[i] = R[o + (8 - i)] % 2 /\ s[i] \in Nat
    <2> DEFINE k == o + (8 - i) + 1
    <2>1. /\ k \in 1 .. 32 /\ 33 - k = (25 - o) + i - 1 /\ k - 1 = o + (8 - i) /\ 8 - i \in 0 .. 7
      BY <1>1, SMT
    <2> HIDE DEF k
    <2>2. d[33 - k] = Binary[1 + (R[k - 1] % 2)]
      BY <2>1, Zenon DEF IsHalved
    <2> DEFINE x == R[o + (8 - i)]
    <2>3. x \in Nat
      BY <1>4, <2>1, Zenon
    <2>4. d[(25 - o) + i - 1] = Binary[1 + (x % 2)]
      BY <2>1, <2>2, Zenon
    <2>5. s[i] = IF d[(25 - o) + i - 1] = "1" THEN 1 ELSE 0
      BY Zenon
    <2> HIDE DEF x, s, d
    <2>6. x % 2 \in 0 .. 1
      BY <2>3, SMT
    <2>7. s[i] = x % 2
      BY <2>4, <2>5, <2>6, BinaryIs, Zenon
    <2>8. s[i] \in Nat
      BY <2>6, <2>7, SMT
    <2> QED
      BY <2>7, <2>8, Zenon DEF x
  <1>6. s \in Seq(Nat) /\ Len(s) = 8
    <2>1. s = [i \in 1 .. 8 |-> s[i]]
      BY Zenon
    <2> HIDE DEF s
    <2> QED
      BY <1>5, <2>1
  <1> HIDE DEF s
  <1>7. /\ s[1] = R[o + 7] % 2 /\ s[2] = R[o + 6] % 2 /\ s[3] = R[o + 5] % 2 /\ s[4] = R[o + 4] % 2
        /\ s[5] = R[o + 3] % 2 /\ s[6] = R[o + 2] % 2 /\ s[7] = R[o + 1] % 2 /\ s[8] = R[o] % 2
    <2>1. /\ 8 - 1 = 7 /\ 8 - 2 = 6 /\ 8 - 3 = 5 /\ 8 - 4 = 4 /\ 8 - 5 = 3 /\ 8 - 6 = 2 /\ 8 - 7 = 1
          /\ o + (8 - 8) = o
          /\ 1 \in 1 .. 8 /\ 2 \in 1 .. 8 /\ 3 \in 1 .. 8 /\ 4 \in 1 .. 8
          /\ 5 \in 1 .. 8 /\ 6 \in 1 .. 8 /\ 7 \in 1 .. 8 /\ 8 \in 1 .. 8
      BY <1>1, SMT
    <2> QED
      BY <1>5, <2>1, Zenon
  <1>8. Number(s, 2) = 128 * s[1] + 64 * s[2] + 32 * s[3] + 16 * s[4] + 8 * s[5] + 4 * s[6]
                       + 2 * s[7] + s[8]
    BY <1>6, EightDigits, Zenon
  <1>9. Number(s, 2) = R[o] % 256
    BY <1>4, <1>7, <1>8, Zenon
  <1> QED
    BY <1>2, <1>4, <1>9, Zenon DEF s, d, EightFrom

\* x is m and one byte more, c.
Joined(x, m, c) == m \in Nat /\ c \in Nat /\ c <= 255 /\ x = 256 * m + c

LEMMA LastByte ==
  ASSUME NEW x, NEW m, NEW c, Joined(x, m, c)
  PROVE  x \div 256 = m /\ x % 256 = c
  BY SMT DEF Joined

LEMMA DigitsOfBytes ==
  ASSUME NEW b \in Seq(Byte), Len(b) < 4, NEW k \in 1 .. Len(b)
  PROVE  Number([i \in 1 .. 8 |->
                   IF dec_to_bin(Number(b, 256))[(33 - 8 * (Len(b) + 1 - k)) + i - 1] = "1"
                   THEN 1 ELSE 0], 2) = b[k]
  <1> DEFINE n == Number(b, 256)
             l == Len(b)
             o == 8 * (l - k)
             sum == EightFrom(dec_to_bin(n), o)
  <1>1. /\ n \in Nat
        /\ l = 1 => n = b[1]
        /\ l = 2 => n = 256 * b[1] + b[2]
        /\ l = 3 => n = 256 * (256 * b[1] + b[2]) + b[3]
    BY FewBytes
  <1>2. \A i \in 1 .. l : b[i] \in Byte
    BY ElementOfSeq
  <1>3. l \in Nat /\ l < 4 /\ k \in 1 .. l
    OBVIOUS
  <1> HIDE DEF l, n
  <1>4. PICK R : IsHalved(R, n, dec_to_bin(n))
    BY <1>1, HalvedIs, Zenon
  <1>5. R[0] = n
    BY <1>4, Zenon DEF IsHalved
  <1>6. o \in {0, 8, 16} /\ 33 - 8 * (l + 1 - k) = 25 - o /\ k \in 1 .. l /\ l \in 1 .. 3
    BY <1>3, SMT
  <1>7. sum = R[o] % 256
    <2> HIDE DEF o
    <2> QED
      BY <1>1, <1>4, <1>6, BytesAreDigits, SMTT(40)
  <1>8. R[8] = n \div 256 /\ R[16] = (n \div 256) \div 256
    <2>1. 0 + 8 = 8 /\ 8 + 8 = 16 /\ 0 \in {0, 8, 16} /\ 8 \in {0, 8, 16}
      BY SMT
    <2> QED
      BY <1>1, <1>4, <1>5, <2>1, BytesAreDigits
  <1> HIDE DEF sum
  <1>9. sum = b[k]
    <2>a. \A x \in Byte : x \in Nat /\ x <= 255
      BY SMT DEF Byte
    <2>1. CASE l = 1
      <3>1. o = 0 /\ k = 1 /\ b[1] \in Nat /\ b[1] <= 255
        BY <1>2, <1>6, <2>1, <2>a
      <3>2. sum = n % 256 /\ n = b[1]
        BY <1>1, <1>5, <1>7, <2>1, <3>1
      <3>3. b[1] % 256 = b[1]
        BY <3>1, SMT
      <3> QED
        BY <3>1, <3>2, <3>3
    <2>2. CASE l = 2
      <3>1. b[1] \in Nat /\ b[1] <= 255 /\ b[2] \in Nat /\ b[2] <= 255
        BY <1>2, <2>2, <2>a
      <3>2. n = 256 * b[1] + b[2]
        BY <1>1, <2>2
      <3>3. n % 256 = b[2] /\ (n \div 256) % 256 = b[1]
        <4>1. n \div 256 = b[1] /\ n % 256 = b[2]
          <5>1. Joined(n, b[1], b[2])
            BY <3>1, <3>2, SMT DEF Joined
          <5> QED
            BY <5>1, LastByte, SMT
        <4>2. b[1] % 256 = b[1]
          BY <3>1, SMT
        <4> QED
          BY <4>1, <4>2, Zenon
      <3>4. (k = 1 /\ o = 8) \/ (k = 2 /\ o = 0)
        BY <1>6, <2>2
      <3> QED
        BY <1>5, <1>7, <1>8, <3>3, <3>4
    <2>3. CASE l = 3
      <3>1. /\ b[1] \in Nat /\ b[1] <= 255 /\ b[2] \in Nat /\ b[2] <= 255
            /\ b[3] \in Nat /\ b[3] <= 255
        BY <1>2, <2>3, <2>a
      <3>2. n = 256 * (256 * b[1] + b[2]) + b[3]
        BY <1>1, <2>3
      <3>3. n % 256 = b[3] /\ (n \div 256) % 256 = b[2] /\ ((n \div 256) \div 256) % 256 = b[1]
        <4>1. n \div 256 = 256 * b[1] + b[2] /\ n % 256 = b[3]
          <5> DEFINE m == 256 * b[1] + b[2]
          <5>1. m \in Nat
            BY <3>1
          <5> HIDE DEF m
          <5>2. n = 256 * m + b[3]
            BY <3>2 DEF m
          <5>3. n \div 256 = m /\ n % 256 = b[3]
            <6>1. Joined(n, m, b[3])
              BY <3>1, <5>1, <5>2, SMT DEF Joined
            <6> QED
              BY <6>1, LastByte, SMT
          <5> QED
            BY <5>3 DEF m
        <4>2. (n \div 256) \div 256 = b[1] /\ (n \div 256) % 256 = b[2]
          <5>1. Joined(n \div 256, b[1], b[2])
            BY <3>1, <4>1, SMT DEF Joined
          <5> QED
            BY <5>1, LastByte, SMT
        <4>3. b[1] % 256 = b[1]
          BY <3>1, SMT
        <4> QED
          BY <4>1, <4>2, <4>3, Zenon
      <3>4. (k = 1 /\ o = 16) \/ (k = 2 /\ o = 8) \/ (k = 3 /\ o = 0)
        BY <1>6, <2>3
      <3> QED
        BY <1>5, <1>7, <1>8, <3>3, <3>4
    <2> QED
      BY <1>6, <2>1, <2>2, <2>3
  <1> QED
    BY <1>6, <1>9, Zenon DEF sum, n, l, EightFrom

(***************************************************************************)
(* Of any buffer, however long: the text get_hex makes of it is read back  *)
(* by hexStringToBytes once the colons are gone, and is_valid_mac takes it *)
(* if and only if it is of six bytes (functions.h:5-26).                   *)
(***************************************************************************)
THEOREM HexReturns ==
  ASSUME NEW b \in Seq(Byte)
  PROVE  /\ hexStringToBytes(Without(get_hex(b, ":"), ":")) = b
         /\ is_valid_mac(get_hex(b, ":")) <=> Len(b) = 6
  BY HexReadBack, SixAreValid

(***************************************************************************)
(* The buffers of the composed model travel as text and come back, and the *)
(* binary digits of up to three bytes are theirs (functions.h:5-65).       *)
(***************************************************************************)
THEOREM HexAlwaysTravels == FunctionsSpec => []HexTravels
  <1>1. FunctionsInit => BytesOK
    BY BytesBegun
  <1>2. BytesOK /\ [FunctionsNext]_allVars => BytesOK'
    BY BytesKept
  <1>3. BytesOK => HexTravels
    <2> SUFFICES ASSUME BytesOK PROVE HexTravels
      OBVIOUS
    <2> DEFINE b == bytes
    <2>1. b \in Seq(Byte)
      BY SMT DEF BytesOK, MCBytes, MCMaxBytes, Byte
    <2> HIDE DEF b
    <2>2. /\ hexStringToBytes(Without(get_hex(b, ":"), ":")) = b
          /\ is_valid_mac(get_hex(b, ":")) <=> Len(b) = 6
      BY <2>1, HexReturns
    <2>3. ASSUME Len(b) < 4, NEW k \in DOMAIN b
          PROVE  Number([i \in 1 .. 8 |->
                   IF dec_to_bin(Number(b, 256))[(33 - 8 * (Len(b) + 1 - k)) + i - 1] = "1"
                   THEN 1 ELSE 0], 2) = b[k]
      <3>1. k \in 1 .. Len(b)
        BY <2>1
      <3> QED
        BY <2>1, <2>3, <3>1, DigitsOfBytes
    <2> QED
      BY <2>2, <2>3, Zenon DEF HexTravels, b
  <1> QED
    BY <1>1, <1>2, <1>3, PTL DEF FunctionsSpec

(***************************************************************************)
(* Addresses as text.  The bits of an octet add up to its number again.    *)
(***************************************************************************)
LEMMA Powers ==
  /\ 2 ^ 0 = 1 /\ 2 ^ 1 = 2 /\ 2 ^ 2 = 4 /\ 2 ^ 3 = 8 /\ 2 ^ 4 = 16 /\ 2 ^ 5 = 32
  /\ 2 ^ 6 = 64 /\ 2 ^ 7 = 128 /\ 2 ^ 8 = 256 /\ 2 ^ 9 = 512 /\ 2 ^ 10 = 1024
  /\ 2 ^ 11 = 2048 /\ 2 ^ 12 = 4096 /\ 2 ^ 13 = 8192 /\ 2 ^ 14 = 16384 /\ 2 ^ 15 = 32768
  BY SMT

LEMMA OneOfPlaces ==
  ASSUME NEW i \in 0 .. 15
  PROVE  \/ i = 0 \/ i = 1 \/ i = 2 \/ i = 3 \/ i = 4 \/ i = 5 \/ i = 6 \/ i = 7 \/ i = 8
         \/ i = 9 \/ i = 10 \/ i = 11 \/ i = 12 \/ i = 13 \/ i = 14 \/ i = 15
  BY SMT

LEMMA PowersAreNat ==
  ASSUME NEW i \in 0 .. 15
  PROVE  2 ^ i \in Nat /\ (i >= 8 => 2 ^ i >= 256)
  <1>1. CASE i = 0
    BY <1>1, SMT
  <1>2. CASE i = 1
    BY <1>2, SMT
  <1>3. CASE i = 2
    BY <1>3, SMT
  <1>4. CASE i = 3
    BY <1>4, SMT
  <1>5. CASE i = 4
    BY <1>5, SMT
  <1>6. CASE i = 5
    BY <1>6, SMT
  <1>7. CASE i = 6
    BY <1>7, SMT
  <1>8. CASE i = 7
    BY <1>8, SMT
  <1>9. CASE i = 8
    BY <1>9, SMT
  <1>10. CASE i = 9
    BY <1>10, SMT
  <1>11. CASE i = 10
    BY <1>11, SMT
  <1>12. CASE i = 11
    BY <1>12, SMT
  <1>13. CASE i = 12
    BY <1>13, SMT
  <1>14. CASE i = 13
    BY <1>14, SMT
  <1>15. CASE i = 14
    BY <1>15, SMT
  <1>16. CASE i = 15
    BY <1>16, SMT
  <1> QED
    BY <1>1, <1>2, <1>3, <1>4, <1>5, <1>6, <1>7, <1>8,
       <1>9, <1>10, <1>11, <1>12, <1>13, <1>14, <1>15, <1>16, OneOfPlaces, Zenon

LEMMA BitsOfByte ==
  ASSUME NEW n \in 0 .. 255
  PROVE  /\ Bits(n, 16) \subseteq 0 .. 7 /\ Short(n) = Bits(n, 16)
         /\ 0 \in Bits(n, 16) <=> n % 2 = 1
         /\ 1 \in Bits(n, 16) <=> (n \div 2) % 2 = 1
         /\ 2 \in Bits(n, 16) <=> (n \div 4) % 2 = 1
         /\ 3 \in Bits(n, 16) <=> (n \div 8) % 2 = 1
         /\ 4 \in Bits(n, 16) <=> (n \div 16) % 2 = 1
         /\ 5 \in Bits(n, 16) <=> (n \div 32) % 2 = 1
         /\ 6 \in Bits(n, 16) <=> (n \div 64) % 2 = 1
         /\ 7 \in Bits(n, 16) <=> (n \div 128) % 2 = 1
  <1>1. ASSUME NEW i \in 0 .. 15, i >= 8 PROVE n \div 2 ^ i = 0
    <2> DEFINE m == 2 ^ i
    <2>1. m \in Nat /\ m >= 256
      BY <1>1, PowersAreNat
    <2> HIDE DEF m
    <2>2. n \div m = 0
      BY <2>1, SMT
    <2> QED
      BY <2>2 DEF m
  <1>2. \A i \in Bits(n, 16) : i \in 0 .. 15 /\ i \in 0 .. 7
    <2> SUFFICES ASSUME NEW i \in Bits(n, 16) PROVE i \in 0 .. 15 /\ i \in 0 .. 7
      BY Zenon
    <2>1. i \in 0 .. 15 /\ (n \div 2 ^ i) % 2 = 1
      BY SMT DEF Bits
    <2>2. ~ (i >= 8)
      <3> DEFINE half == n \div 2 ^ i
      <3>1. i >= 8 => half = 0
        BY <1>1, <2>1, Zenon
      <3>2. half % 2 = 1
        BY <2>1
      <3> HIDE DEF half
      <3> QED
        BY <3>1, <3>2, SMT
    <2> QED
      BY <2>1, <2>2, SMT
  <1>3. 15 \notin Bits(n, 16)
    BY <1>2, SMT
  <1>4. Short(n) = Bits(n, 16)
    BY <1>3, Zenon DEF Short
  <1>5. \A i \in 0 .. 15 : i \in Bits(n, 16) <=> (n \div 2 ^ i) % 2 = 1
    BY SMT DEF Bits
  <1>6. /\ 0 \in Bits(n, 16) <=> (n \div 1) % 2 = 1
        /\ 1 \in Bits(n, 16) <=> (n \div 2) % 2 = 1
        /\ 2 \in Bits(n, 16) <=> (n \div 4) % 2 = 1
        /\ 3 \in Bits(n, 16) <=> (n \div 8) % 2 = 1
    BY <1>5, Powers, SMT
  <1>7. /\ 4 \in Bits(n, 16) <=> (n \div 16) % 2 = 1
        /\ 5 \in Bits(n, 16) <=> (n \div 32) % 2 = 1
        /\ 6 \in Bits(n, 16) <=> (n \div 64) % 2 = 1
        /\ 7 \in Bits(n, 16) <=> (n \div 128) % 2 = 1
    BY <1>5, Powers, SMT
  <1>8. n \div 1 = n
    BY SMT
  <1> QED
    BY <1>2, <1>4, <1>6, <1>7, <1>8

\* One bit more of a number.
Places == 1 .. 16

ValMore(a, n, i) == n + (IF i - 1 \in a THEN 2 ^ (i - 1) ELSE 0)

SumTo(a, s) == FoldLeft(LAMBDA n, i : n + (IF i - 1 \in a THEN 2 ^ (i - 1) ELSE 0), 0, s)

ValStep(a) == [p \in Nat \X Places |-> ValMore(a, p[1], p[2])]

LEMMA ValStepTyped ==
  ASSUME NEW a
  PROVE  /\ ValStep(a) \in [Nat \X Places -> Nat] /\ 0 \in Nat
         /\ \A n \in Nat, i \in Places :
              ValMore(a, n, i) \in Nat /\ ValStep(a)[n, i] = ValMore(a, n, i)
  <1>1. ASSUME NEW n \in Nat, NEW i \in Places PROVE ValMore(a, n, i) \in Nat
    <2>1. i - 1 \in 0 .. 15
      BY SMT DEF Places
    <2>2. 2 ^ (i - 1) \in Nat
      BY <2>1, PowersAreNat
    <2> QED
      BY <2>2 DEF ValMore
  <1>2. ValStep(a) \in [Nat \X Places -> Nat] /\ 0 \in Nat
    <2>1. \A n \in Nat, i \in Places : ValMore(a, n, i) \in Nat
      BY <1>1
    <2> QED
      BY <2>1 DEF ValStep
  <1> QED
    BY <1>1, <1>2, Zenon DEF ValStep

LEMMA ValueWalks ==
  ASSUME NEW a, NEW s \in Seq(Places)
  PROVE  \E f : /\ Walks(f, Nat, Places, ValStep(a), 0, s)
                /\ SumTo(a, s) = f[1 .. Len(s)]
  <1> DEFINE Sums(f) == f = [p \in SUBSET DOMAIN s |->
                               IF p = {} THEN 0 ELSE ValMore(a, f[p \ {Max(p)}], s[Max(p)])]
  <1>1. \E f : Sums(f)
    <2>1. PICK f \in [SUBSET DOMAIN s -> Nat] : Solves(f, ValStep(a), 0, s)
      BY ValStepTyped, Solvable
    <2>2. ASSUME NEW p \in SUBSET DOMAIN s, p # {}
          PROVE  f[p] = ValMore(a, f[p \ {Max(p)}], s[Max(p)])
      <3>1. Max(p) \in DOMAIN s
        <4>1. DOMAIN s = 1 .. Len(s) /\ Len(s) \in Nat
          OBVIOUS
        <4> QED
          BY <2>2, <4>1, GreatestOf
      <3>2. f[p] = ValStep(a)[f[p \ {Max(p)}], s[Max(p)]]
        BY <2>1, <2>2, Zenon DEF Solves
      <3>3. f[p \ {Max(p)}] \in Nat /\ s[Max(p)] \in Places
        BY <3>1
      <3> QED
        BY <3>2, <3>3, ValStepTyped, Zenon
    <2>3. f[{}] = 0
      BY <2>1, Zenon DEF Solves
    <2>4. f = [p \in SUBSET DOMAIN s |-> f[p]]
      BY <2>1
    <2>5. [p \in SUBSET DOMAIN s |-> f[p]] =
            [p \in SUBSET DOMAIN s |->
                IF p = {} THEN 0 ELSE ValMore(a, f[p \ {Max(p)}], s[Max(p)])]
      BY <2>2, <2>3, Zenon
    <2> QED
      BY <2>4, <2>5, Zenon
  <1>2. PICK f : Sums(f) /\ (SumTo(a, s) = f[DOMAIN s])
    BY <1>1, Zenon DEF SumTo, FoldLeft, MapThenFoldSet, ValMore
  <1>3. Walks(f, Nat, Places, ValStep(a), 0, s)
    <2>1. f[{}] = 0
      BY <1>2
    <2>2. ASSUME NEW k \in 1 .. Len(s), f[1 .. k - 1] \in Nat
          PROVE  f[1 .. k] = ValStep(a)[f[1 .. k - 1], s[k]]
      <3>1. 1 .. k \in SUBSET DOMAIN s /\ s[k] \in Places
        OBVIOUS
      <3>2. 1 .. k # {} /\ Max(1 .. k) = k /\ (1 .. k) \ {k} = 1 .. k - 1
        <4>1. k \in Nat /\ k # 0
          OBVIOUS
        <4> QED
          BY <4>1, FirstOnes
      <3>3. f[1 .. k] = ValMore(a, f[1 .. k - 1], s[k])
        <4>1. f[1 .. k] = ValMore(a, f[(1 .. k) \ {Max(1 .. k)}], s[Max(1 .. k)])
          BY <1>2, <3>1, <3>2, Zenon
        <4> QED
          BY <3>2, <4>1, Zenon
      <3> QED
        BY <2>2, <3>1, <3>3, ValStepTyped, Zenon
    <2>3. ValStep(a) \in [Nat \X Places -> Nat] /\ 0 \in Nat
      BY ValStepTyped
    <2> QED
      BY <2>1, <2>2, <2>3, Zenon DEF Walks
  <1>4. DOMAIN s = 1 .. Len(s)
    OBVIOUS
  <1> QED
    BY <1>2, <1>3, <1>4, Zenon

LEMMA ValueIs ==
  ASSUME NEW a, a \subseteq 0 .. 7
  PROVE  Value(a) = (IF 0 \in a THEN 1 ELSE 0) + (IF 1 \in a THEN 2 ELSE 0)
                  + (IF 2 \in a THEN 4 ELSE 0) + (IF 3 \in a THEN 8 ELSE 0)
                  + (IF 4 \in a THEN 16 ELSE 0) + (IF 5 \in a THEN 32 ELSE 0)
                  + (IF 6 \in a THEN 64 ELSE 0) + (IF 7 \in a THEN 128 ELSE 0)
  <1> DEFINE s == [i \in 1 .. 16 |-> i]
  <1>1. s \in Seq(Places) /\ Len(s) = 16 /\ \A i \in 1 .. 16 : s[i] = i
    BY SMT DEF Places
  <1>2. PICK f : Walks(f, Nat, Places, ValStep(a), 0, s) /\ Value(a) = f[1 .. Len(s)]
    <2>1. Value(a) = SumTo(a, s)
      BY Zenon DEF Value, SumTo
    <2> HIDE DEF s
    <2>2. s \in Seq(Places)
      BY <1>1
    <2>3. PICK f : Walks(f, Nat, Places, ValStep(a), 0, s) /\ SumTo(a, s) = f[1 .. Len(s)]
      BY <2>2, ValueWalks
    <2> QED
      BY <2>1, <2>3, Zenon
  <1> DEFINE g == [k \in 0 .. 16 |-> f[1 .. k]]
  <1>3. g[0] = 0 /\ Value(a) = g[16]
    <2>1. 1 .. 0 = {} /\ 0 \in 0 .. 16 /\ 16 \in 0 .. 16
      BY SMT
    <2> QED
      BY <1>1, <1>2, <2>1, Zenon DEF Walks
  <1>4. ASSUME NEW k \in 0 .. 15, g[k] \in Nat
        PROVE  g[k + 1] \in Nat /\ g[k + 1] = g[k] + (IF k \in a THEN 2 ^ k ELSE 0)
    <2> DEFINE n == k + 1
    <2>1. /\ n \in 1 .. Len(s) /\ n - 1 = k /\ n \in 0 .. 16 /\ k \in 0 .. 16 /\ s[n] = n
          /\ n \in Places
      BY <1>1 DEF Places
    <2> HIDE DEF n, s
    <2>2. g[n] = f[1 .. n] /\ g[k] = f[1 .. n - 1]
      BY <2>1, Zenon
    <2>3. f[1 .. n] = ValStep(a)[f[1 .. n - 1], s[n]]
      BY <1>2, <1>4, <2>1, <2>2, Zenon DEF Walks
    <2>4. f[1 .. n] = ValMore(a, g[k], n) /\ ValMore(a, g[k], n) \in Nat
      <3> HIDE DEF g
      <3>1. ValStep(a)[g[k], n] = ValMore(a, g[k], n) /\ ValMore(a, g[k], n) \in Nat
        BY <1>4, <2>1, ValStepTyped, Zenon
      <3>2. f[1 .. n] = ValStep(a)[g[k], n]
        BY <2>1, <2>2, <2>3, Zenon
      <3> QED
        BY <3>1, <3>2, Zenon
    <2>5. g[n] = g[k] + (IF k \in a THEN 2 ^ k ELSE 0) /\ g[n] \in Nat
      BY <2>1, <2>2, <2>4, Zenon DEF ValMore
    <2> QED
      BY <2>5 DEF n
  <1> HIDE DEF g
  <1> DEFINE b(k, v) == IF k \in a THEN v ELSE 0
  <1>5. \A k \in 8 .. 15 : k \notin a
    BY SMT
  <1>6. \A k : \A v \in Nat : b(k, v) \in Nat
    BY Zenon
  <1>7. g[0] \in Nat
    BY <1>3
  <1>8. g[1] \in Nat /\ g[1] = b(0, 1)
    BY <1>3, <1>4, <1>7, Powers, SMT
  <1>9. g[2] \in Nat /\ g[2] = g[1] + b(1, 2)
    BY <1>4, <1>8, Powers, SMT
  <1>10. g[3] \in Nat /\ g[3] = g[2] + b(2, 4)
    BY <1>4, <1>9, Powers, SMT
  <1>11. g[4] \in Nat /\ g[4] = g[3] + b(3, 8)
    BY <1>4, <1>10, Powers, SMT
  <1>12. g[5] \in Nat /\ g[5] = g[4] + b(4, 16)
    BY <1>4, <1>11, Powers, SMT
  <1>13. g[6] \in Nat /\ g[6] = g[5] + b(5, 32)
    BY <1>4, <1>12, Powers, SMT
  <1>14. g[7] \in Nat /\ g[7] = g[6] + b(6, 64)
    BY <1>4, <1>13, Powers, SMT
  <1>15. g[8] \in Nat /\ g[8] = g[7] + b(7, 128)
    BY <1>4, <1>14, Powers, SMT
  <1>16. ASSUME NEW k \in 8 .. 15, g[k] \in Nat PROVE g[k + 1] = g[k]
    <2>1. k \in 0 .. 15 /\ k \notin a
      BY <1>5, SMT
    <2> QED
      BY <1>4, <1>16, <2>1, SMT
  <1>17. g[9] = g[8] /\ g[10] = g[8] /\ g[11] = g[8] /\ g[12] = g[8]
    BY <1>15, <1>16, SMT
  <1>18. g[13] = g[8] /\ g[14] = g[8] /\ g[15] = g[8] /\ g[16] = g[8]
    BY <1>15, <1>16, <1>17, SMT
  <1>19. Value(a) = b(0, 1) + b(1, 2) + b(2, 4) + b(3, 8) + b(4, 16) + b(5, 32) + b(6, 64) + b(7, 128)
    <2> HIDE DEF b
    <2> QED
      BY <1>3, <1>8, <1>9, <1>10, <1>11, <1>12, <1>13, <1>14, <1>15, <1>18, SMT
  <1> QED
    BY <1>19

LEMMA HalvesOfByte ==
  ASSUME NEW n \in 0 .. 255
  PROVE  n = (n % 2) + 2 * ((n \div 2) % 2) + 4 * ((n \div 4) % 2) + 8 * ((n \div 8) % 2)
           + 16 * ((n \div 16) % 2) + 32 * ((n \div 32) % 2) + 64 * ((n \div 64) % 2)
           + 128 * ((n \div 128) % 2)
  BY SMTT(60)

LEMMA ValueOfBits ==
  ASSUME NEW n \in 0 .. 255
  PROVE  Value(Bits(n, 16)) = n
  <1> DEFINE a == Bits(n, 16)
             b(k, v) == IF k \in a THEN v ELSE 0
  <1>1. Value(a) = b(0, 1) + b(1, 2) + b(2, 4) + b(3, 8) + b(4, 16) + b(5, 32) + b(6, 64) + b(7, 128)
    BY BitsOfByte, ValueIs, Zenon
  <1>2. \A x \in 0 .. 255 : x % 2 = 0 \/ x % 2 = 1
    BY SMT
  <1>3. /\ n \in 0 .. 255 /\ n \div 2 \in 0 .. 255 /\ n \div 4 \in 0 .. 255 /\ n \div 8 \in 0 .. 255
        /\ n \div 16 \in 0 .. 255 /\ n \div 32 \in 0 .. 255 /\ n \div 64 \in 0 .. 255
        /\ n \div 128 \in 0 .. 255
    BY SMT
  <1>4. b(0, 1) = n % 2 /\ b(1, 2) = 2 * ((n \div 2) % 2)
    BY <1>2, <1>3, BitsOfByte, SMT
  <1>5. b(2, 4) = 4 * ((n \div 4) % 2) /\ b(3, 8) = 8 * ((n \div 8) % 2)
    BY <1>2, <1>3, BitsOfByte, SMT
  <1>6. b(4, 16) = 16 * ((n \div 16) % 2) /\ b(5, 32) = 32 * ((n \div 32) % 2)
    BY <1>2, <1>3, BitsOfByte, SMT
  <1>7. b(6, 64) = 64 * ((n \div 64) % 2) /\ b(7, 128) = 128 * ((n \div 128) % 2)
    BY <1>2, <1>3, BitsOfByte, SMT
  <1>8. Value(a) = (n % 2) + 2 * ((n \div 2) % 2) + 4 * ((n \div 4) % 2) + 8 * ((n \div 8) % 2)
           + 16 * ((n \div 16) % 2) + 32 * ((n \div 32) % 2) + 64 * ((n \div 64) % 2)
           + 128 * ((n \div 128) % 2)
    <2> HIDE DEF a, b
    <2> QED
      BY <1>1, <1>4, <1>5, <1>6, <1>7, Zenon
  <1> QED
    BY <1>8, HalvesOfByte, Zenon

(***************************************************************************)
(* string_to_ip puts four numbers of one octet side by side: none runs     *)
(* into the next.                                                          *)
(***************************************************************************)
AddressOf(N) == UNION { U!Shl(Short(N[k]), 8 * (k - 1)) : k \in 1 .. 4 }

LEMMA OctetsApart ==
  ASSUME NEW N \in [1 .. 4 -> 0 .. 255], NEW k \in 1 .. 4
  PROVE  Octet(AddressOf(N), k) = N[k]
  <1> DEFINE n(m)   == 8 * (m - 1)
             read   == AddressOf(N)
             octet  == U!Shr(read, n(k)) \cap (0 .. 7)
  <1>1. U!W = 32 /\ U!Bit = 0 .. 31
    BY SMT DEF U!W, U!Bit
  <1>2. \A m \in 1 .. 4 : n(m) \in 0 .. 24 /\ n(m) % 32 = n(m)
    BY SMT
  <1>3. \A m \in 1 .. 4 : N[m] \in 0 .. 255 /\ Short(N[m]) = Bits(N[m], 16)
                          /\ Bits(N[m], 16) \subseteq 0 .. 7
    BY BitsOfByte, Zenon
  <1>4. \A i : i \in read <=> \E m \in 1 .. 4 : i \in 0 .. 31 /\ i - n(m) \in Bits(N[m], 16)
    <2>1. \A m \in 1 .. 4 : U!Shl(Short(N[m]), n(m)) = { i \in 0 .. 31 : i - n(m) \in Bits(N[m], 16) }
      BY <1>1, <1>2, <1>3, Zenon DEF U!Shl
    <2>2. read = UNION { U!Shl(Short(N[m]), n(m)) : m \in 1 .. 4 }
      BY Zenon DEF AddressOf
    <2> HIDE DEF read, n
    <2>3. \A i : i \in read <=> \E m \in 1 .. 4 : i \in U!Shl(Short(N[m]), n(m))
      BY <2>2, Zenon
    <2>4. ASSUME NEW i, NEW m \in 1 .. 4
          PROVE  i \in U!Shl(Short(N[m]), n(m)) <=> i \in 0 .. 31 /\ i - n(m) \in Bits(N[m], 16)
      BY <2>1, Zenon
    <2> QED
      BY <2>3, <2>4, Zenon
  <1>5. octet = { i \in 0 .. 7 : i + n(k) \in read }
    <2>1. U!Shr(read, n(k)) = { i \in 0 .. 31 : i + n(k) \in read }
      BY <1>1, <1>2, Zenon DEF U!Shr
    <2>2. 0 .. 7 \subseteq 0 .. 31
      BY SMT
    <2> HIDE DEF read, n
    <2> QED
      BY <2>1, <2>2, Zenon
  <1>6. ASSUME NEW i \in 0 .. 7
        PROVE  i + n(k) \in read <=> i \in Bits(N[k], 16)
    <2>1. i + n(k) \in 0 .. 31 /\ (i + n(k)) - n(k) = i
      BY <1>2, SMT
    <2>2. ASSUME NEW m \in 1 .. 4, (i + n(k)) - n(m) \in 0 .. 7 PROVE m = k
      BY <2>2, SMT
    <2> DEFINE x == i + n(k)
    <2>3. x \in read <=> \E m \in 1 .. 4 : x \in 0 .. 31 /\ x - n(m) \in Bits(N[m], 16)
      BY <1>4, Zenon
    <2>4. x \in 0 .. 31 /\ x - n(k) = i
      BY <2>1
    <2>5. ASSUME NEW m \in 1 .. 4, x - n(m) \in Bits(N[m], 16) PROVE m = k
      <3>1. x - n(m) \in 0 .. 7
        BY <1>3, <2>5
      <3> QED
        BY <2>2, <3>1
    <2> HIDE DEF read, n, x
    <2>6. x \in read => i \in Bits(N[k], 16)
      <3>1. ASSUME x \in read PROVE i \in Bits(N[k], 16)
        <4>1. PICK m \in 1 .. 4 : x - n(m) \in Bits(N[m], 16)
          BY <2>3, <3>1, Zenon
        <4> QED
          BY <2>4, <2>5, <4>1, Zenon
      <3> QED
        BY <3>1
    <2>7. i \in Bits(N[k], 16) => x \in read
      BY <2>3, <2>4, Zenon
    <2> QED
      BY <2>6, <2>7 DEF x
  <1>7. octet = Bits(N[k], 16)
    <2>1. Bits(N[k], 16) \subseteq 0 .. 7
      BY <1>3, Zenon
    <2> HIDE DEF octet
    <2> QED
      BY <1>5, <1>6, <2>1, Zenon
  <1>8. Octet(read, k) = Value(octet)
    BY Zenon DEF Octet
  <1> QED
    BY <1>3, <1>7, <1>8, ValueOfBits, Zenon

(***************************************************************************)
(* The decimal digits of an octet.                                         *)
(***************************************************************************)
Ten     == {"0", "1", "2", "3", "4", "5", "6", "7", "8", "9"}
IpSigns == Ten \cup {"."}

LEMMA TenDigits ==
  ASSUME NEW v \in 0 .. 9
  PROVE  /\ Digits[v + 1] \in Ten /\ Digits[v + 1] \in IpSigns /\ Digits[v + 1] # "."
         /\ isdigit(Digits[v + 1]) /\ ~ isspace(Digits[v + 1])
         /\ PlaceOf(Digits, Digits[v + 1]) = v + 1
  <1> DEFINE k == v + 1
             c == Digits[k]
  <1>1. k \in 1 .. 10 /\ k - 1 = v
    BY SMT
  <1>2. \/ k = 1 \/ k = 2 \/ k = 3 \/ k = 4 \/ k = 5 \/ k = 6 \/ k = 7 \/ k = 8 \/ k = 9 \/ k = 10
    BY <1>1, SMT
  <1>3. c \in Ten
    BY <1>2, DigitsAre, SMT DEF Ten
  <1>4. \A d \in Ten : d # "." /\ ~ isspace(d)
    <2>1. \A d \in Ten : d # "."
      BY SMT DEF Ten
    <2>2. \A d \in Ten : d # " " /\ d # "\t" /\ d # "\n"
      BY Zenon DEF Ten
    <2>3. \A d : isspace(d) => d = " " \/ d = "\t" \/ d = "\n"
      BY Zenon DEF isspace, Space
    <2> QED
      BY <2>1, <2>2, <2>3, Zenon
  <1>5. DOMAIN Digits = 1 .. 10 /\ Len(Digits) = 10
    BY DigitsAre
  <1>6. isdigit(c)
    BY <1>1, <1>5, Zenon DEF isdigit, ToSet
  <1>7. \A i \in 1 .. 10 : Digits[i] = Digits[k] => i = k
    <2>1. \A i \in 1 .. 10 : Digits[i] = UpperHex[i] /\ i \in 1 .. 16
      <3>1. \A i \in 1 .. 10 :
              \/ i = 1 \/ i = 2 \/ i = 3 \/ i = 4 \/ i = 5 \/ i = 6 \/ i = 7 \/ i = 8 \/ i = 9 \/ i = 10
        BY SMT
      <3> QED
        BY <3>1, DigitsAre, UpperAt, SMT
    <2>2. \A i, j \in 1 .. 16 : UpperHex[i] = UpperHex[j] => i = j
      BY HexApart, Zenon
    <2> HIDE DEF k
    <2> QED
      BY <1>1, <2>1, <2>2, Zenon
  <1>8. PlaceOf(Digits, Digits[k]) = k
    <2>1. 10 \in Nat
      BY SMT
    <2> HIDE DEF k
    <2> QED
      BY <1>1, <1>5, <1>7, <2>1, PlaceFound, Zenon
  <1> QED
    BY <1>1, <1>3, <1>4, <1>6, <1>8 DEF IpSigns

LEMMA DigitsOnly ==
  ASSUME NEW c, isdigit(c)
  PROVE  \E v \in 0 .. 9 : c = Digits[v + 1]
  <1>1. PICK i \in 1 .. 10 : c = Digits[i]
    BY DigitsAre DEF isdigit, ToSet
  <1>2. i - 1 \in 0 .. 9 /\ (i - 1) + 1 = i
    BY SMT
  <1> QED
    BY <1>1, <1>2, Zenon

\* s is the number n in decimal digits.
IsDecimal(s, n) ==
  /\ s \in Seq(Ten)
  /\ \E a, b, c \in 0 .. 9 :
       \/ s = <<Digits[a + 1]>> /\ n = a
       \/ s = <<Digits[a + 1], Digits[b + 1]>> /\ n = 10 * a + b
       \/ s = <<Digits[a + 1], Digits[b + 1], Digits[c + 1]>> /\ n = 10 * (10 * a + b) + c

LEMMA DecimalIs ==
  ASSUME NEW n \in 0 .. 255
  PROVE  IsDecimal(decimal(n), n)
  <1> DEFINE a == n \div 100
             b == (n \div 10) % 10
             c == n % 10
             d == n \div 10
  <1>1. a \in 0 .. 9 /\ b \in 0 .. 9 /\ c \in 0 .. 9 /\ n = 10 * (10 * a + b) + c
    BY SMT
  <1>2. n < 100 => d \in 0 .. 9 /\ n = 10 * d + c
    BY SMT
  <1>3. n < 10 => n \in 0 .. 9
    BY SMT
  <1> HIDE DEF a, b, c, d
  <1>4. CASE n < 10
    <2>1. decimal(n) = <<Digits[n + 1]>>
      BY <1>4, Zenon DEF decimal
    <2>2. Digits[n + 1] \in Ten
      BY <1>3, <1>4, TenDigits, Zenon
    <2>3. decimal(n) \in Seq(Ten)
      BY <2>1, <2>2
    <2> QED
      BY <1>1, <1>3, <1>4, <2>1, <2>3, Zenon DEF IsDecimal
  <1>5. CASE ~ (n < 10) /\ n < 100
    <2>1. decimal(n) = <<Digits[d + 1], Digits[c + 1]>>
      BY <1>5, Zenon DEF decimal, c, d
    <2>2. Digits[d + 1] \in Ten /\ Digits[c + 1] \in Ten
      BY <1>1, <1>2, <1>5, TenDigits, Zenon
    <2>3. decimal(n) \in Seq(Ten)
      BY <2>1, <2>2
    <2> QED
      BY <1>1, <1>2, <1>5, <2>1, <2>3, Zenon DEF IsDecimal
  <1>6. CASE ~ (n < 10) /\ ~ (n < 100)
    <2>1. decimal(n) = <<Digits[a + 1], Digits[b + 1], Digits[c + 1]>>
      BY <1>6, Zenon DEF decimal, a, b, c
    <2>2. Digits[a + 1] \in Ten /\ Digits[b + 1] \in Ten /\ Digits[c + 1] \in Ten
      BY <1>1, TenDigits, Zenon
    <2>3. decimal(n) \in Seq(Ten)
      BY <2>1, <2>2
    <2> QED
      BY <1>1, <2>1, <2>3, Zenon DEF IsDecimal
  <1> QED
    BY <1>4, <1>5, <1>6, Zenon

\* One sign more of a number in decimal.
AtoiMore(n, c) ==
  IF n.over \/ (isspace(c) /\ ~ n.begun) THEN n
  ELSE IF ~ isdigit(c) THEN [n EXCEPT !.over = TRUE]
  ELSE [n EXCEPT !.begun = TRUE,
                 !.value = 10 * @ + SelectInSeq(Digits, LAMBDA e : e = c) - 1]

AtoiStates == [value : Int, begun : BOOLEAN, over : BOOLEAN]
AtoiBegun  == [value |-> 0, begun |-> FALSE, over |-> FALSE]

AtoiStep == [p \in AtoiStates \X IpSigns |-> AtoiMore(p[1], p[2])]

LEMMA AtoiTakes ==
  ASSUME NEW n \in AtoiStates, ~ n.over, NEW v \in 0 .. 9, NEW m, m = AtoiMore(n, Digits[v + 1])
  PROVE  m \in AtoiStates /\ ~ m.over /\ m.value = 10 * n.value + v
  <1> DEFINE c == Digits[v + 1]
             x == PlaceOf(Digits, c)
             y == n.value
             z == 10 * y + x - 1
             q == [n EXCEPT !.begun = TRUE]
  <1>1. isdigit(c) /\ ~ isspace(c) /\ x = v + 1
    BY TenDigits, Zenon
  <1>2. y \in Int
    BY DEF AtoiStates
  <1>3. m = [q EXCEPT !.value = z]
    <2>1. m = [n EXCEPT !.begun = TRUE, !.value = 10 * n.value + PlaceOf(Digits, c) - 1]
      BY <1>1, Zenon DEF AtoiMore, PlaceOf
    <2> QED
      BY <2>1
  <1>4. z = 10 * y + v /\ z \in Int
    <2> HIDE DEF x, y
    <2> QED
      BY <1>1, <1>2, SMT
  <1> HIDE DEF z
  <1>5. q \in AtoiStates /\ q.over = n.over
    <2>1. q \in AtoiStates
      <3>1. TRUE \in BOOLEAN
        OBVIOUS
      <3> QED
        BY <3>1, Zenon DEF AtoiStates
    <2>2. q.over = n.over
      BY DEF AtoiStates
    <2> QED
      BY <2>1, <2>2
  <1> HIDE DEF q
  <1>6. m \in AtoiStates
    BY <1>3, <1>4, <1>5, Zenon DEF AtoiStates
  <1>7. m.value = z /\ m.over = q.over
    BY <1>3, <1>5 DEF AtoiStates
  <1> QED
    BY <1>4, <1>5, <1>6, <1>7 DEF y

LEMMA AtoiStepTyped ==
  /\ AtoiStep \in [AtoiStates \X IpSigns -> AtoiStates] /\ AtoiBegun \in AtoiStates
  /\ \A n \in AtoiStates, c \in IpSigns :
       AtoiMore(n, c) \in AtoiStates /\ AtoiStep[n, c] = AtoiMore(n, c)
  <1>1. ASSUME NEW n \in AtoiStates, NEW c \in IpSigns PROVE AtoiMore(n, c) \in AtoiStates
    <2>1. CASE n.over \/ (isspace(c) /\ ~ n.begun)
      BY <2>1, Zenon DEF AtoiMore
    <2>2. CASE ~ (n.over \/ (isspace(c) /\ ~ n.begun)) /\ ~ isdigit(c)
      <3>1. [n EXCEPT !.over = TRUE] \in AtoiStates
        BY Zenon DEF AtoiStates
      <3> QED
        BY <2>2, <3>1, Zenon DEF AtoiMore
    <2>3. CASE ~ n.over /\ isdigit(c)
      <3>1. PICK v \in 0 .. 9 : c = Digits[v + 1]
        BY <2>3, DigitsOnly
      <3> QED
        BY <2>3, <3>1, AtoiTakes, Zenon
    <2> QED
      BY <2>1, <2>2, <2>3, Zenon
  <1>2. AtoiBegun \in AtoiStates
    BY DEF AtoiBegun, AtoiStates
  <1> QED
    BY <1>1, <1>2, Zenon DEF AtoiStep

LEMMA AtoiWalks ==
  ASSUME NEW s \in Seq(IpSigns)
  PROVE  \E f : /\ Walks(f, AtoiStates, IpSigns, AtoiStep, AtoiBegun, s)
                /\ atoi(s) = f[1 .. Len(s)].value
  <1> DEFINE Reads(f) == f = [p \in SUBSET DOMAIN s |->
                               IF p = {} THEN AtoiBegun ELSE AtoiMore(f[p \ {Max(p)}], s[Max(p)])]
  <1>1. \E f : Reads(f)
    <2>1. PICK f \in [SUBSET DOMAIN s -> AtoiStates] : Solves(f, AtoiStep, AtoiBegun, s)
      BY AtoiStepTyped, Solvable
    <2>2. ASSUME NEW p \in SUBSET DOMAIN s, p # {}
          PROVE  f[p] = AtoiMore(f[p \ {Max(p)}], s[Max(p)])
      <3>1. Max(p) \in DOMAIN s
        <4>1. DOMAIN s = 1 .. Len(s) /\ Len(s) \in Nat
          OBVIOUS
        <4> QED
          BY <2>2, <4>1, GreatestOf
      <3>2. f[p] = AtoiStep[f[p \ {Max(p)}], s[Max(p)]]
        BY <2>1, <2>2, Zenon DEF Solves
      <3>3. f[p \ {Max(p)}] \in AtoiStates /\ s[Max(p)] \in IpSigns
        BY <3>1
      <3> QED
        BY <3>2, <3>3, AtoiStepTyped, Zenon
    <2>3. f[{}] = AtoiBegun
      BY <2>1, Zenon DEF Solves
    <2>4. f = [p \in SUBSET DOMAIN s |-> f[p]]
      BY <2>1
    <2>5. [p \in SUBSET DOMAIN s |-> f[p]] =
            [p \in SUBSET DOMAIN s |->
                IF p = {} THEN AtoiBegun ELSE AtoiMore(f[p \ {Max(p)}], s[Max(p)])]
      BY <2>2, <2>3, Zenon
    <2> QED
      BY <2>4, <2>5, Zenon
  <1>2. PICK f : Reads(f) /\ (atoi(s) = f[DOMAIN s].value)
    BY <1>1, Zenon DEF atoi, FoldLeft, MapThenFoldSet, AtoiMore, AtoiBegun
  <1>3. Walks(f, AtoiStates, IpSigns, AtoiStep, AtoiBegun, s)
    <2>1. f[{}] = AtoiBegun
      BY <1>2
    <2>2. ASSUME NEW k \in 1 .. Len(s), f[1 .. k - 1] \in AtoiStates
          PROVE  f[1 .. k] = AtoiStep[f[1 .. k - 1], s[k]]
      <3>1. 1 .. k \in SUBSET DOMAIN s /\ s[k] \in IpSigns
        OBVIOUS
      <3>2. 1 .. k # {} /\ Max(1 .. k) = k /\ (1 .. k) \ {k} = 1 .. k - 1
        <4>1. k \in Nat /\ k # 0
          OBVIOUS
        <4> QED
          BY <4>1, FirstOnes
      <3>3. f[1 .. k] = AtoiMore(f[1 .. k - 1], s[k])
        <4>1. f[1 .. k] = AtoiMore(f[(1 .. k) \ {Max(1 .. k)}], s[Max(1 .. k)])
          BY <1>2, <3>1, <3>2, Zenon
        <4> QED
          BY <3>2, <4>1, Zenon
      <3> QED
        BY <2>2, <3>1, <3>3, AtoiStepTyped, Zenon
    <2>3. AtoiStep \in [AtoiStates \X IpSigns -> AtoiStates] /\ AtoiBegun \in AtoiStates
      BY AtoiStepTyped
    <2> QED
      BY <2>1, <2>2, <2>3, Zenon DEF Walks
  <1>4. DOMAIN s = 1 .. Len(s)
    OBVIOUS
  <1> QED
    BY <1>2, <1>3, <1>4, Zenon

\* What is written in decimal, atoi reads.
LEMMA AtoiReads ==
  ASSUME NEW s, NEW n, IsDecimal(s, n)
  PROVE  atoi(s) = n
  <1>1. s \in Seq(IpSigns)
    <2>1. s \in Seq(Ten) /\ Ten \subseteq IpSigns
      BY DEF IsDecimal, IpSigns
    <2> QED
      BY <2>1
  <1>2. PICK f : Walks(f, AtoiStates, IpSigns, AtoiStep, AtoiBegun, s) /\ atoi(s) = f[1 .. Len(s)].value
    BY <1>1, AtoiWalks, Zenon
  <1> DEFINE g(k) == f[1 .. k]
  <1>3. g(0) = AtoiBegun /\ AtoiBegun \in AtoiStates /\ ~ AtoiBegun.over /\ AtoiBegun.value = 0
    <2>1. 1 .. 0 = {}
      BY SMT
    <2>2. ~ AtoiBegun.over /\ AtoiBegun.value = 0
      BY DEF AtoiBegun
    <2> QED
      BY <1>2, <2>1, <2>2, AtoiStepTyped, Zenon DEF Walks
  <1>4. ASSUME NEW k \in Nat, k + 1 <= Len(s), g(k) \in AtoiStates, ~ g(k).over,
               NEW v \in 0 .. 9, s[k + 1] = Digits[v + 1]
        PROVE  /\ g(k + 1) \in AtoiStates /\ ~ g(k + 1).over
               /\ g(k + 1).value = 10 * g(k).value + v
    <2> DEFINE m == k + 1
               r == g(k)
    <2>1. m \in 1 .. Len(s) /\ m - 1 = k
      BY <1>4, SMT
    <2>2. r \in AtoiStates /\ ~ r.over /\ s[m] = Digits[v + 1] /\ s[m] \in IpSigns
      BY <1>1, <1>4, <2>1
    <2>3. g(m) = AtoiStep[r, s[m]]
      <3> HIDE DEF m
      <3> QED
        BY <1>2, <2>1, <2>2, Zenon DEF Walks
    <2> HIDE DEF r, m, g
    <2>4. g(m) = AtoiMore(r, s[m]) /\ g(m) \in AtoiStates
      BY <2>2, <2>3, AtoiStepTyped, Zenon
    <2>6. g(m).value = 10 * r.value + v /\ ~ g(m).over
      BY <2>2, <2>4, AtoiTakes, Zenon
    <2> QED
      BY <2>4, <2>6 DEF m, r
  <1>5. PICK a, b, c \in 0 .. 9 :
          \/ s = <<Digits[a + 1]>> /\ n = a
          \/ s = <<Digits[a + 1], Digits[b + 1]>> /\ n = 10 * a + b
          \/ s = <<Digits[a + 1], Digits[b + 1], Digits[c + 1]>> /\ n = 10 * (10 * a + b) + c
    BY DEF IsDecimal
  <1>6. atoi(s) = g(Len(s)).value
    BY <1>2, Zenon
  <1> HIDE DEF g
  <1>7. Len(s) >= 1 /\ s[1] = Digits[a + 1] /\ Len(s) \in Nat
    <2>1. CASE s = <<Digits[a + 1]>>
      BY <2>1
    <2>2. CASE s = <<Digits[a + 1], Digits[b + 1]>>
      BY <2>2
    <2>3. CASE s = <<Digits[a + 1], Digits[b + 1], Digits[c + 1]>>
      BY <2>3
    <2> QED
      BY <1>5, <2>1, <2>2, <2>3, Zenon
  <1>8. g(1) \in AtoiStates /\ ~ g(1).over /\ g(1).value = a
    <2>1. 0 \in Nat /\ 0 + 1 <= Len(s) /\ 0 + 1 = 1 /\ 10 * 0 + a = a
      BY <1>7
    <2> QED
      BY <1>3, <1>4, <1>7, <2>1, Zenon
  <1>9. CASE s = <<Digits[a + 1]>> /\ n = a
    <2>1. Len(s) = 1
      BY <1>9
    <2> QED
      BY <1>6, <1>8, <1>9, <2>1, Zenon
  <1>10. ASSUME Len(s) >= 2, s[2] = Digits[b + 1]
         PROVE  g(2) \in AtoiStates /\ ~ g(2).over /\ g(2).value = 10 * a + b
    <2>1. 1 \in Nat /\ 1 + 1 <= Len(s) /\ 1 + 1 = 2
      BY <1>10
    <2> QED
      BY <1>4, <1>8, <1>10, <2>1, Zenon
  <1>11. CASE s = <<Digits[a + 1], Digits[b + 1]>> /\ n = 10 * a + b
    <2>1. Len(s) = 2 /\ Len(s) >= 2 /\ s[2] = Digits[b + 1]
      BY <1>11
    <2> QED
      BY <1>6, <1>10, <1>11, <2>1, Zenon
  <1>12. CASE s = <<Digits[a + 1], Digits[b + 1], Digits[c + 1]>> /\ n = 10 * (10 * a + b) + c
    <2>1. Len(s) = 3 /\ Len(s) >= 2 /\ s[2] = Digits[b + 1] /\ s[3] = Digits[c + 1]
      BY <1>12
    <2>2. 2 \in Nat /\ 2 + 1 <= Len(s) /\ 2 + 1 = 3
      BY <2>1
    <2>3. g(3).value = 10 * (10 * a + b) + c
      BY <1>4, <1>10, <2>1, <2>2, Zenon
    <2> QED
      BY <1>6, <1>12, <2>1, <2>3, Zenon
  <1> QED
    BY <1>5, <1>9, <1>11, <1>12, Zenon

(***************************************************************************)
(* strtok, sign by sign: the tokens that have ended and the one that is    *)
(* being read.                                                             *)
(***************************************************************************)
Ended(t) == IF t.token = << >> THEN t.done ELSE Append(t.done, t.token)

TokMore(t, c) ==
  IF c = "." THEN [done |-> Ended(t), token |-> << >>] ELSE [t EXCEPT !.token = Append(@, c)]

TokStates(C) == [done : Seq(Seq(C)), token : Seq(C)]
TokBegun     == [done |-> << >>, token |-> << >>]

TokRead(s) == FoldLeft(LAMBDA t, c : TokMore(t, c), TokBegun, s)

TokStep(C) == [p \in TokStates(C) \X C |-> TokMore(p[1], p[2])]

LEMMA AppendedToOne ==
  ASSUME NEW S, NEW x \in S, NEW y \in S
  PROVE  Append(<<x>>, y) = <<x, y>>
  <1> DEFINE s == Append(<<x>>, y)
             t == <<x, y>>
  <1>1. s \in Seq(S) /\ Len(s) = 2 /\ s[1] = x /\ s[2] = y
    OBVIOUS
  <1>2. t \in Seq(S) /\ Len(t) = 2 /\ t[1] = x /\ t[2] = y
    OBVIOUS
  <1> HIDE DEF s, t
  <1>3. \A i \in 1 .. Len(s) : s[i] = t[i]
    BY <1>1, <1>2, SMT
  <1>4. s = t
    BY <1>1, <1>2, <1>3, SeqEqual
  <1> QED
    BY <1>4 DEF s, t

LEMMA AppendedToTwo ==
  ASSUME NEW S, NEW x \in S, NEW y \in S, NEW z \in S
  PROVE  Append(<<x, y>>, z) = <<x, y, z>>
  <1> DEFINE s == Append(<<x, y>>, z)
             t == <<x, y, z>>
  <1>1. s \in Seq(S) /\ Len(s) = 3 /\ s[1] = x /\ s[2] = y /\ s[3] = z
    OBVIOUS
  <1>2. t \in Seq(S) /\ Len(t) = 3 /\ t[1] = x /\ t[2] = y /\ t[3] = z
    OBVIOUS
  <1> HIDE DEF s, t
  <1>3. \A i \in 1 .. Len(s) : s[i] = t[i]
    BY <1>1, <1>2, SMT
  <1>4. s = t
    BY <1>1, <1>2, <1>3, SeqEqual
  <1> QED
    BY <1>4 DEF s, t

LEMMA AppendedToThree ==
  ASSUME NEW S, NEW x \in S, NEW y \in S, NEW z \in S, NEW v \in S
  PROVE  Append(<<x, y, z>>, v) = <<x, y, z, v>>
  <1> DEFINE s == Append(<<x, y, z>>, v)
             t == <<x, y, z, v>>
  <1>1. s \in Seq(S) /\ Len(s) = 4 /\ s[1] = x /\ s[2] = y /\ s[3] = z /\ s[4] = v
    OBVIOUS
  <1>2. t \in Seq(S) /\ Len(t) = 4 /\ t[1] = x /\ t[2] = y /\ t[3] = z /\ t[4] = v
    OBVIOUS
  <1> HIDE DEF s, t
  <1>3. \A i \in 1 .. Len(s) : s[i] = t[i]
    BY <1>1, <1>2, SMT
  <1>4. s = t
    BY <1>1, <1>2, <1>3, SeqEqual
  <1> QED
    BY <1>4 DEF s, t

LEMMA TokMoreIs ==
  ASSUME NEW C, NEW t \in TokStates(C), NEW c \in C, NEW u, u = TokMore(t, c)
  PROVE  /\ u \in TokStates(C)
         /\ c = "." => u.done = Ended(t) /\ u.token = << >>
         /\ c # "." => u.done = t.done /\ u.token = Append(t.token, c)
         /\ Ended(t) \in Seq(Seq(C))
  <1> DEFINE S == Seq(C)
  <1>1. t.done \in Seq(S) /\ t.token \in S /\ << >> \in S
    BY DEF TokStates
  <1>2. Append(t.token, c) \in S
    BY <1>1
  <1>3. Ended(t) \in Seq(S)
    <2> HIDE DEF S
    <2> QED
      BY <1>1 DEF Ended
  <1>4. CASE c = "."
    <2>1. u = [done |-> Ended(t), token |-> << >>]
      BY <1>4, Zenon DEF TokMore
    <2>2. u \in TokStates(C)
      <3> HIDE DEF S
      <3>1. [done |-> Ended(t), token |-> << >>] \in [done : Seq(S), token : S]
        BY <1>1, <1>3
      <3> QED
        BY <2>1, <3>1, Zenon DEF TokStates, S
    <2>3. u.done = Ended(t) /\ u.token = << >>
      BY <2>1
    <2> QED
      BY <1>3, <1>4, <2>2, <2>3, Zenon
  <1>5. CASE c # "."
    <2>1. u = [t EXCEPT !.token = Append(t.token, c)]
      BY <1>5, Zenon DEF TokMore
    <2>2. u \in TokStates(C)
      BY <1>2, <2>1, Zenon DEF TokStates
    <2>3. u.done = t.done /\ u.token = Append(t.token, c)
      BY <2>1 DEF TokStates
    <2> QED
      BY <1>3, <1>5, <2>2, <2>3, Zenon
  <1> QED
    BY <1>4, <1>5, Zenon

LEMMA TokStepTyped ==
  ASSUME NEW C
  PROVE  /\ TokStep(C) \in [TokStates(C) \X C -> TokStates(C)] /\ TokBegun \in TokStates(C)
         /\ \A t \in TokStates(C), c \in C :
              TokMore(t, c) \in TokStates(C) /\ TokStep(C)[t, c] = TokMore(t, c)
  <1>1. ASSUME NEW t \in TokStates(C), NEW c \in C PROVE TokMore(t, c) \in TokStates(C)
    BY TokMoreIs, Zenon
  <1>2. TokBegun \in TokStates(C)
    <2> DEFINE S == Seq(C)
    <2>1. << >> \in S /\ << >> \in Seq(S)
      OBVIOUS
    <2> QED
      BY <2>1, Zenon DEF TokBegun, TokStates
  <1> QED
    BY <1>1, <1>2, Zenon DEF TokStep

LEMMA TokWalks ==
  ASSUME NEW C, NEW s \in Seq(C)
  PROVE  \E f : /\ Walks(f, TokStates(C), C, TokStep(C), TokBegun, s)
                /\ TokRead(s) = f[1 .. Len(s)]
  <1> DEFINE Splits(f) == f = [p \in SUBSET DOMAIN s |->
                               IF p = {} THEN TokBegun ELSE TokMore(f[p \ {Max(p)}], s[Max(p)])]
  <1>0. \A t \in TokStates(C), c \in C : TokStep(C)[t, c] = TokMore(t, c)
    BY TokStepTyped, Zenon
  <1>1. \E f : Splits(f)
    <2>1. PICK f \in [SUBSET DOMAIN s -> TokStates(C)] : Solves(f, TokStep(C), TokBegun, s)
      BY TokStepTyped, Solvable
    <2>2. ASSUME NEW p \in SUBSET DOMAIN s, p # {}
          PROVE  f[p] = TokMore(f[p \ {Max(p)}], s[Max(p)])
      <3>1. Max(p) \in DOMAIN s
        <4>1. DOMAIN s = 1 .. Len(s) /\ Len(s) \in Nat
          OBVIOUS
        <4> QED
          BY <2>2, <4>1, GreatestOf
      <3>2. f[p] = TokStep(C)[f[p \ {Max(p)}], s[Max(p)]]
        BY <2>1, <2>2, Zenon DEF Solves
      <3>3. f[p \ {Max(p)}] \in TokStates(C) /\ s[Max(p)] \in C
        BY <3>1
      <3> QED
        BY <1>0, <3>2, <3>3, Zenon
    <2>3. f[{}] = TokBegun
      BY <2>1, Zenon DEF Solves
    <2>4. f = [p \in SUBSET DOMAIN s |-> f[p]]
      BY <2>1
    <2>5. [p \in SUBSET DOMAIN s |-> f[p]] =
            [p \in SUBSET DOMAIN s |->
                IF p = {} THEN TokBegun ELSE TokMore(f[p \ {Max(p)}], s[Max(p)])]
      BY <2>2, <2>3, Zenon
    <2> QED
      BY <2>4, <2>5, Zenon
  <1>2. PICK f : Splits(f) /\ (TokRead(s) = f[DOMAIN s])
    BY <1>1, Zenon DEF TokRead, FoldLeft, MapThenFoldSet
  <1>3. Walks(f, TokStates(C), C, TokStep(C), TokBegun, s)
    <2>1. f[{}] = TokBegun
      BY <1>2
    <2>2. ASSUME NEW k \in 1 .. Len(s), f[1 .. k - 1] \in TokStates(C)
          PROVE  f[1 .. k] = TokStep(C)[f[1 .. k - 1], s[k]]
      <3>1. 1 .. k \in SUBSET DOMAIN s /\ s[k] \in C
        OBVIOUS
      <3>2. 1 .. k # {} /\ Max(1 .. k) = k /\ (1 .. k) \ {k} = 1 .. k - 1
        <4>1. k \in Nat /\ k # 0
          OBVIOUS
        <4> QED
          BY <4>1, FirstOnes
      <3>3. f[1 .. k] = TokMore(f[1 .. k - 1], s[k])
        <4>1. f[1 .. k] = TokMore(f[(1 .. k) \ {Max(1 .. k)}], s[Max(1 .. k)])
          BY <1>2, <3>1, <3>2, Zenon
        <4> QED
          BY <3>2, <4>1, Zenon
      <3> QED
        BY <1>0, <2>2, <3>1, <3>3, Zenon
    <2>3. TokStep(C) \in [TokStates(C) \X C -> TokStates(C)] /\ TokBegun \in TokStates(C)
      BY TokStepTyped
    <2> QED
      BY <2>1, <2>2, <2>3, Zenon DEF Walks
  <1>4. DOMAIN s = 1 .. Len(s)
    OBVIOUS
  <1> QED
    BY <1>2, <1>3, <1>4, Zenon

LEMMA TokReadNone ==
  /\ TokRead(<< >>) = TokBegun
  /\ TokBegun.done = << >> /\ TokBegun.token = << >>
  <1>1. << >> \in Seq(IpSigns) /\ 1 .. Len(<< >>) = {}
    OBVIOUS
  <1>2. PICK f : /\ Walks(f, TokStates(IpSigns), IpSigns, TokStep(IpSigns), TokBegun, << >>)
                 /\ TokRead(<< >>) = f[1 .. Len(<< >>)]
    BY <1>1, TokWalks, Zenon
  <1>3. TokRead(<< >>) = TokBegun
    BY <1>1, <1>2, Zenon DEF Walks
  <1> QED
    BY <1>3 DEF TokBegun

LEMMA TokReadMore ==
  ASSUME NEW C, NEW s \in Seq(C), NEW c \in C
  PROVE  TokRead(s) \in TokStates(C) /\ TokRead(Append(s, c)) = TokMore(TokRead(s), c)
  <1> DEFINE A  == TokStates(C)
             st == TokStep(C)
             t  == Append(s, c)
  <1>1. t \in Seq(C) /\ Len(t) = Len(s) + 1
    OBVIOUS
  <1>2. PICK f : Walks(f, A, C, st, TokBegun, s) /\ TokRead(s) = f[1 .. Len(s)]
    BY TokWalks, Zenon
  <1>3. PICK g : Walks(g, A, C, st, TokBegun, t) /\ TokRead(t) = g[1 .. Len(t)]
    <2> HIDE DEF t
    <2> QED
      BY <1>1, TokWalks, Zenon
  <1>4. StepMore(f, g, A, st, s, c)
    <2> HIDE DEF A, st
    <2> QED
      BY <1>2, <1>3, WalkOneMore
  <1>5. TokRead(s) \in A /\ TokRead(t) = st[TokRead(s), c]
    <2> HIDE DEF A, st, t
    <2> QED
      BY <1>1, <1>2, <1>3, <1>4, Zenon DEF StepMore
  <1>6. st[TokRead(s), c] = TokMore(TokRead(s), c)
    BY <1>5, TokStepTyped, Zenon
  <1> QED
    BY <1>5, <1>6, Zenon

LEMMA TokensAre ==
  ASSUME NEW C, NEW s \in Seq(C)
  PROVE  Tokens(s, ".") = Ended(TokRead(s)) /\ Tokens(s, ".") \in Seq(Seq(C))
  <1>1. Tokens(s, ".") = Ended(TokRead(s))
    BY Zenon DEF Tokens, Ended, TokRead, TokMore, TokBegun
  <1>2. PICK f : /\ Walks(f, TokStates(C), C, TokStep(C), TokBegun, s)
                 /\ TokRead(s) = f[1 .. Len(s)]
    BY TokWalks, Zenon
  <1>3. TokRead(s) \in TokStates(C)
    <2> DEFINE A  == TokStates(C)
               st == TokStep(C)
    <2>1. /\ Walks(f, A, C, st, TokBegun, s) /\ Len(s) \in Nat /\ Len(s) <= Len(s)
          /\ \A k \in 1 .. Len(s) : s[k] = s[k]
      BY <1>2
    <2> HIDE DEF A, st
    <2>2. f[1 .. Len(s)] \in A
      BY <2>1, WalksTogether
    <2> QED
      BY <1>2, <2>2, Zenon DEF A
  <1>4. Ended(TokRead(s)) \in Seq(Seq(C))
    <2> DEFINE S == Seq(C)
               t == TokRead(s)
    <2>1. t.done \in Seq(S) /\ t.token \in S
      BY <1>3 DEF TokStates
    <2> HIDE DEF S, t
    <2>2. Ended(t) \in Seq(S)
      BY <2>1 DEF Ended
    <2> QED
      BY <2>2 DEF S, t
  <1> QED
    BY <1>1, <1>4, Zenon

\* A text that is a number.
Numeral(w) == \E n : IsDecimal(w, n)

\* Another sign of a token, and the end of it.
LEMMA SignTaken ==
  ASSUME NEW s \in Seq(IpSigns), NEW c \in Ten
  PROVE  /\ Append(s, c) \in Seq(IpSigns)
         /\ TokRead(Append(s, c)).done = TokRead(s).done
         /\ TokRead(Append(s, c)).token = Append(TokRead(s).token, c)
  <1>1. c \in IpSigns /\ c # "."
    BY SMT DEF IpSigns, Ten
  <1>2. TokRead(s) \in TokStates(IpSigns) /\ TokRead(Append(s, c)) = TokMore(TokRead(s), c)
    BY <1>1, TokReadMore, Zenon
  <1>3. Append(s, c) \in Seq(IpSigns)
    BY <1>1
  <1> DEFINE t == TokRead(s)
             u == TokRead(Append(s, c))
  <1> HIDE DEF t, u
  <1>4. u = TokMore(t, c) /\ t \in TokStates(IpSigns)
    BY <1>2 DEF t, u
  <1>5. u.done = t.done /\ u.token = Append(t.token, c)
    BY <1>1, <1>4, TokMoreIs
  <1> QED
    BY <1>3, <1>5 DEF t, u

LEMMA TokenEnds ==
  ASSUME NEW s \in Seq(IpSigns), NEW t, t = s \o <<".">>, TokRead(s).token # << >>
  PROVE  /\ t \in Seq(IpSigns)
         /\ TokRead(t).done = Append(TokRead(s).done, TokRead(s).token)
         /\ TokRead(t).token = << >>
  <1>1. "." \in IpSigns
    BY Zenon DEF IpSigns
  <1>2. t = Append(s, ".") /\ t \in Seq(IpSigns)
    BY <1>1
  <1>3. TokRead(s) \in TokStates(IpSigns) /\ TokRead(t) = TokMore(TokRead(s), ".")
    BY <1>1, <1>2, TokReadMore, Zenon
  <1>4. TokRead(t).done = Ended(TokRead(s)) /\ TokRead(t).token = << >>
    <2> DEFINE r == TokRead(s)
               u == TokRead(t)
               c == "."
    <2>1. u = TokMore(r, c) /\ r \in TokStates(IpSigns) /\ c \in IpSigns
      BY <1>1, <1>3
    <2> HIDE DEF r, u
    <2>2. u.done = Ended(r) /\ u.token = << >>
      BY <2>1, TokMoreIs
    <2> QED
      BY <2>2 DEF r, u
  <1> QED
    BY <1>2, <1>4, Zenon DEF Ended

\* A number is read into one token.
LEMMA NumberTaken ==
  ASSUME NEW s \in Seq(IpSigns), TokRead(s).token = << >>, NEW w, Numeral(w),
         NEW t, t = s \o w
  PROVE  /\ t \in Seq(IpSigns) /\ w # << >> /\ w \in Seq(Ten)
         /\ TokRead(t).done = TokRead(s).done /\ TokRead(t).token = w
  <1>0. PICK n : IsDecimal(w, n) /\ w \in Seq(Ten)
    BY DEF Numeral, IsDecimal
  <1>1. PICK a, b, c \in 0 .. 9 :
          \/ w = <<Digits[a + 1]>>
          \/ w = <<Digits[a + 1], Digits[b + 1]>>
          \/ w = <<Digits[a + 1], Digits[b + 1], Digits[c + 1]>>
    BY <1>0, Zenon DEF IsDecimal
  <1> DEFINE x == Digits[a + 1]
             y == Digits[b + 1]
             z == Digits[c + 1]
             s1 == Append(s, x)
             s2 == Append(s1, y)
             s3 == Append(s2, z)
  <1>2. x \in Ten /\ y \in Ten /\ z \in Ten
    BY TenDigits, Zenon
  <1> HIDE DEF x, y, z
  <1>3. /\ s1 \in Seq(IpSigns) /\ TokRead(s1).done = TokRead(s).done
        /\ TokRead(s1).token = <<x>>
    <2>1. Append(<< >>, x) = <<x>>
      OBVIOUS
    <2> QED
      BY <1>2, <2>1, SignTaken, Zenon
  <1>4. /\ s2 \in Seq(IpSigns) /\ TokRead(s2).done = TokRead(s).done
        /\ TokRead(s2).token = <<x, y>>
    <2>1. Append(<<x>>, y) = <<x, y>>
      BY <1>2, AppendedToOne, Zenon
    <2> HIDE DEF s1
    <2> QED
      BY <1>2, <1>3, <2>1, SignTaken, Zenon
  <1>5. /\ s3 \in Seq(IpSigns) /\ TokRead(s3).done = TokRead(s).done
        /\ TokRead(s3).token = <<x, y, z>>
    <2>1. Append(<<x, y>>, z) = <<x, y, z>>
      BY <1>2, AppendedToTwo, Zenon
    <2> HIDE DEF s2
    <2> QED
      BY <1>2, <1>4, <2>1, SignTaken, Zenon
  <1>6. CASE w = <<x>>
    <2>1. t = s1 /\ w # << >>
      BY <1>6
    <2> HIDE DEF s1
    <2> QED
      BY <1>0, <1>3, <1>6, <2>1, Zenon
  <1>7. CASE w = <<x, y>>
    <2>1. s \in Seq(IpSigns) /\ x \in IpSigns /\ y \in IpSigns
      BY <1>2, Zenon DEF IpSigns
    <2>2. t = s2 /\ w # << >>
      BY <1>7, <2>1
    <2> HIDE DEF s2
    <2> QED
      BY <1>0, <1>4, <1>7, <2>2, Zenon
  <1>8. CASE w = <<x, y, z>>
    <2>1. s \in Seq(IpSigns) /\ x \in IpSigns /\ y \in IpSigns /\ z \in IpSigns
      BY <1>2, Zenon DEF IpSigns
    <2>2. t = s3 /\ w # << >>
      BY <1>8, <2>1
    <2> HIDE DEF s3
    <2> QED
      BY <1>0, <1>5, <1>8, <2>2, Zenon
  <1> QED
    BY <1>0, <1>1, <1>6, <1>7, <1>8, Zenon DEF x, y, z

\* Four numbers with dots between them are four tokens.
LEMMA FourTokens ==
  ASSUME NEW w1, NEW w2, NEW w3, NEW w4, Numeral(w1), Numeral(w2), Numeral(w3), Numeral(w4)
  PROVE  Tokens(w1 \o <<".">> \o w2 \o <<".">> \o w3 \o <<".">> \o w4, ".") = <<w1, w2, w3, w4>>
  <1> DEFINE e  == << >>
             t1 == e \o w1
             d1 == t1 \o <<".">>
             t2 == d1 \o w2
             d2 == t2 \o <<".">>
             t3 == d2 \o w3
             d3 == t3 \o <<".">>
             t4 == d3 \o w4
  <1>10. w1 \in Seq(Ten) /\ w2 \in Seq(Ten) /\ w3 \in Seq(Ten) /\ w4 \in Seq(Ten)
    BY Zenon DEF Numeral, IsDecimal
  <1>0. e \in Seq(IpSigns) /\ TokRead(e).done = << >> /\ TokRead(e).token = << >>
    <2>1. e \in Seq(IpSigns)
      OBVIOUS
    <2> QED
      BY <2>1, TokReadNone, Zenon
  <1>1. t1 \in Seq(IpSigns) /\ TokRead(t1).done = << >> /\ TokRead(t1).token = w1 /\ w1 # << >>
    <2>1. t1 = e \o w1
      OBVIOUS
    <2> HIDE DEF e, t1
    <2> QED
      BY <1>0, <2>1, NumberTaken, Zenon
  <1>2. d1 \in Seq(IpSigns) /\ TokRead(d1).done = <<w1>> /\ TokRead(d1).token = << >>
    <2>1. Append(<< >>, w1) = <<w1>>
      OBVIOUS
    <2> HIDE DEF t1
    <2> QED
      BY <1>1, <2>1, TokenEnds, Zenon
  <1>3. t2 \in Seq(IpSigns) /\ TokRead(t2).done = <<w1>> /\ TokRead(t2).token = w2 /\ w2 # << >>
    <2>1. t2 = d1 \o w2
      OBVIOUS
    <2> HIDE DEF d1, t2
    <2> QED
      BY <1>2, <2>1, NumberTaken, Zenon
  <1>4. d2 \in Seq(IpSigns) /\ TokRead(d2).done = <<w1, w2>> /\ TokRead(d2).token = << >>
    <2>1. Append(<<w1>>, w2) = <<w1, w2>>
      BY <1>10, AppendedToOne, Zenon
    <2> HIDE DEF t2
    <2> QED
      BY <1>3, <2>1, TokenEnds, Zenon
  <1>5. t3 \in Seq(IpSigns) /\ TokRead(t3).done = <<w1, w2>> /\ TokRead(t3).token = w3 /\ w3 # << >>
    <2>1. t3 = d2 \o w3
      OBVIOUS
    <2> HIDE DEF d2, t3
    <2> QED
      BY <1>4, <2>1, NumberTaken, Zenon
  <1>6. d3 \in Seq(IpSigns) /\ TokRead(d3).done = <<w1, w2, w3>> /\ TokRead(d3).token = << >>
    <2>1. Append(<<w1, w2>>, w3) = <<w1, w2, w3>>
      BY <1>10, AppendedToTwo, Zenon
    <2> HIDE DEF t3
    <2> QED
      BY <1>5, <2>1, TokenEnds, Zenon
  <1>7. t4 \in Seq(IpSigns) /\ TokRead(t4).done = <<w1, w2, w3>> /\ TokRead(t4).token = w4 /\ w4 # << >>
    <2>1. t4 = d3 \o w4
      OBVIOUS
    <2> HIDE DEF d3, t4
    <2> QED
      BY <1>6, <2>1, NumberTaken, Zenon
  <1>8. Tokens(t4, ".") = <<w1, w2, w3, w4>>
    <2>1. Append(<<w1, w2, w3>>, w4) = <<w1, w2, w3, w4>>
      BY <1>10, AppendedToThree, Zenon
    <2>2. Tokens(t4, ".") = Ended(TokRead(t4))
      <3> HIDE DEF t4
      <3> QED
        BY <1>7, TokensAre, Zenon
    <2> HIDE DEF t4
    <2> QED
      BY <1>7, <2>1, <2>2, Zenon DEF Ended
  <1>9. t1 = w1
    BY <1>10
  <1> QED
    BY <1>8, <1>9, Zenon

LEMMA ReadAsNumbers ==
  ASSUME NEW s, NEW T, T = Tokens(s, "."), DOMAIN T = 1 .. 4,
         NEW N, \A k \in 1 .. 4 : atoi(T[k]) = N[k]
  PROVE  string_to_ip(s) = AddressOf(N)
  <1> DEFINE at(k) == 8 * (k - 1)
  <1>1. string_to_ip(s) = UNION { U!Shl(Short(atoi(T[k])), at(k)) : k \in 1 .. 4 }
    BY Zenon DEF string_to_ip
  <1>2. AddressOf(N) = UNION { U!Shl(Short(N[k]), at(k)) : k \in 1 .. 4 }
    BY Zenon DEF AddressOf
  <1> HIDE DEF at
  <1>3. \A k \in 1 .. 4 : U!Shl(Short(atoi(T[k])), at(k)) = U!Shl(Short(N[k]), at(k))
    BY Zenon
  <1>4. { U!Shl(Short(atoi(T[k])), at(k)) : k \in 1 .. 4 } = { U!Shl(Short(N[k]), at(k)) : k \in 1 .. 4 }
    BY <1>3, Zenon
  <1> QED
    BY <1>1, <1>2, <1>4, Zenon

LEMMA NumbersOfValid ==
  ASSUME NEW C, NEW s \in Seq(C), is_valid_ip(s), NEW T, T = Tokens(s, ".")
  PROVE  DOMAIN T = 1 .. 4 /\ \A k \in 1 .. 4 : atoi(T[k]) \in 0 .. 255
  <1>1. Len(T) = 4 /\ \A k \in DOMAIN T : atoi(T[k]) \in 0 .. 255
    BY Zenon DEF is_valid_ip
  <1>2. T \in Seq(Seq(C))
    BY TokensAre, Zenon
  <1>3. DOMAIN T = 1 .. 4
    <2> DEFINE S == Seq(C)
    <2> HIDE DEF S
    <2>1. T \in Seq(S)
      BY <1>2 DEF S
    <2> QED
      BY <1>1, <2>1
  <1> QED
    BY <1>1, <1>3, Zenon

\* An address as text is its four numbers, and valid.
LEMMA WrittenAddress ==
  ASSUME NEW N \in [1 .. 4 -> 0 .. 255], NEW s, s = ip_to_string(AddressOf(N))
  PROVE  is_valid_ip(s) /\ string_to_ip(s) = AddressOf(N)
  <1> DEFINE w(k) == decimal(N[k])
             T    == <<w(1), w(2), w(3), w(4)>>
  <1>1. 1 \in 1 .. 4 /\ 2 \in 1 .. 4 /\ 3 \in 1 .. 4 /\ 4 \in 1 .. 4
    BY SMT
  <1>2. \A k \in 1 .. 4 : Octet(AddressOf(N), k) = N[k] /\ N[k] \in 0 .. 255
    BY OctetsApart, Zenon
  <1>3. s = w(1) \o <<".">> \o w(2) \o <<".">> \o w(3) \o <<".">> \o w(4)
    BY <1>1, <1>2, Zenon DEF ip_to_string
  <1>4. \A k \in 1 .. 4 : IsDecimal(w(k), N[k])
    BY <1>2, DecimalIs, Zenon
  <1>5. \A k \in 1 .. 4 : Numeral(w(k)) /\ atoi(w(k)) = N[k] /\ valid_digit(w(k))
    <2> TAKE k \in 1 .. 4
    <2>1. IsDecimal(w(k), N[k])
      BY <1>4, Zenon
    <2> HIDE DEF w
    <2>2. Numeral(w(k)) /\ atoi(w(k)) = N[k]
      BY <2>1, AtoiReads, Zenon DEF Numeral
    <2>3. valid_digit(w(k))
      <3>1. \A d \in Ten : isdigit(d)
        <4>1. \A v \in 0 .. 9 : isdigit(Digits[v + 1])
          BY TenDigits, Zenon
        <4>2. \A i \in 1 .. 10 : isdigit(Digits[i])
          <5> SUFFICES ASSUME NEW i \in 1 .. 10 PROVE isdigit(Digits[i])
            BY Zenon
          <5>1. i - 1 \in 0 .. 9 /\ (i - 1) + 1 = i
            BY SMT
          <5> QED
            BY <4>1, <5>1, Zenon
        <4>3. \A d \in Ten : \E i \in 1 .. 10 : d = Digits[i]
          BY DigitsAre, SMT DEF Ten
        <4> QED
          BY <4>2, <4>3, Zenon
      <3>2. w(k) \in Seq(Ten)
        BY <2>1, Zenon DEF IsDecimal
      <3>3. \A i \in DOMAIN w(k) : w(k)[i] \in Ten
        BY <3>2
      <3> QED
        BY <3>1, <3>3, Zenon DEF valid_digit
    <2> QED
      BY <2>2, <2>3
  <1> HIDE DEF w
  <1>6. Tokens(s, ".") = T
    BY <1>1, <1>3, <1>5, FourTokens, Zenon
  <1>7. Len(T) = 4 /\ DOMAIN T = 1 .. 4 /\ \A k \in 1 .. 4 : T[k] = w(k)
    <2>1. Len(T) = 4 /\ DOMAIN T = 1 .. 4 /\ T[1] = w(1) /\ T[2] = w(2) /\ T[3] = w(3) /\ T[4] = w(4)
      OBVIOUS
    <2>2. \A k \in 1 .. 4 : k = 1 \/ k = 2 \/ k = 3 \/ k = 4
      BY SMT
    <2> HIDE DEF T
    <2> QED
      BY <2>1, <2>2, Zenon
  <1> HIDE DEF T
  <1>8. is_valid_ip(s)
    <2>1. \A k \in DOMAIN T : valid_digit(T[k]) /\ atoi(T[k]) \in 0 .. 255
      <3>1. ASSUME NEW k \in 1 .. 4 PROVE valid_digit(T[k]) /\ atoi(T[k]) \in 0 .. 255
        <4>1. T[k] = w(k) /\ valid_digit(w(k)) /\ atoi(w(k)) = N[k] /\ N[k] \in 0 .. 255
          BY <1>2, <1>5, <1>7, Zenon
        <4> QED
          BY <4>1, Zenon
      <3> QED
        BY <1>7, <3>1, Zenon
    <2> QED
      BY <1>6, <1>7, <2>1, Zenon DEF is_valid_ip
  <1>9. string_to_ip(s) = AddressOf(N)
    <2>1. T = Tokens(s, ".") /\ \A k \in 1 .. 4 : atoi(T[k]) = N[k]
      BY <1>5, <1>6, <1>7, Zenon
    <2>2. DOMAIN T = 1 .. 4
      BY <1>7, Zenon
    <2> QED
      BY <2>1, <2>2, ReadAsNumbers, Zenon
  <1> QED
    BY <1>8, <1>9

(***************************************************************************)
(* Of every text that is_valid_ip lets through, string_to_ip reads the     *)
(* four numbers side by side, and what ip_to_string writes of them is      *)
(* valid and the same address (functions.h:106-141, 187-219).              *)
(***************************************************************************)
THEOREM AddressesReturn ==
  ASSUME NEW C, NEW s \in Seq(C), is_valid_ip(s), NEW read, read = string_to_ip(s)
  PROVE  /\ \A k \in 1 .. 4 : Octet(read, k) = atoi(Tokens(s, ".")[k])
         /\ is_valid_ip(ip_to_string(read)) /\ string_to_ip(ip_to_string(read)) = read
  <1> DEFINE T == Tokens(s, ".")
             N == [k \in 1 .. 4 |-> atoi(T[k])]
  <1>1. DOMAIN T = 1 .. 4 /\ \A k \in 1 .. 4 : atoi(T[k]) \in 0 .. 255
    BY NumbersOfValid, Zenon
  <1> HIDE DEF T
  <1>2. N \in [1 .. 4 -> 0 .. 255] /\ \A k \in 1 .. 4 : atoi(T[k]) = N[k]
    BY <1>1, Zenon
  <1> HIDE DEF N
  <1>3. read = AddressOf(N)
    <2>1. T = Tokens(s, ".")
      BY DEF T
    <2> QED
      BY <1>1, <1>2, <2>1, ReadAsNumbers, Zenon
  <1>4. \A k \in 1 .. 4 : Octet(read, k) = atoi(T[k])
    BY <1>2, <1>3, OctetsApart, Zenon
  <1>5. is_valid_ip(ip_to_string(read)) /\ string_to_ip(ip_to_string(read)) = read
    BY <1>2, <1>3, WrittenAddress, Zenon
  <1> QED
    BY <1>4, <1>5 DEF T

(***************************************************************************)
(* The same of the texts of the composed model (functions.h:106-141,       *)
(* 187-219).                                                               *)
(***************************************************************************)
THEOREM ValidIpsRead == FunctionsSpec => []ValidIpRead
  <1>1. FunctionsInit => TextOK
    BY TextBegun
  <1>2. TextOK /\ [FunctionsNext]_allVars => TextOK'
    BY TextKept
  <1>3. TextOK => ValidIpRead
    <2> SUFFICES ASSUME TextOK, is_valid_ip(text) PROVE ValidIpRead
      BY Zenon DEF ValidIpRead
    <2> DEFINE C    == MCCmdChars \cup MCIpChars
               read == string_to_ip(text)
    <2>1. text \in Seq(C)
      BY DEF TextOK
    <2> HIDE DEF C
    <2>2. /\ \A k \in 1 .. 4 : Octet(read, k) = atoi(Tokens(text, ".")[k])
          /\ is_valid_ip(ip_to_string(read)) /\ string_to_ip(ip_to_string(read)) = read
      BY <2>1, AddressesReturn, Zenon
    <2> QED
      BY <2>2, Zenon DEF ValidIpRead
  <1> QED
    BY <1>1, <1>2, <1>3, PTL DEF FunctionsSpec
=============================================================================
