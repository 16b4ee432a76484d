---------------------------- MODULE SubnetProofs ----------------------------
(***************************************************************************)
(* What the address arithmetic of functions.h computes, for every width.   *)
(***************************************************************************)
EXTENDS Subnet, TLAPS

LEMMA WidthIsPositive == W \in Nat \ {0}
  <1>1. \A m, n \in Nat \ {0} : m * n \in Nat \ {0}
    BY SMT
  <1> QED
    BY <1>1, SubnetAssumption DEF W

LEMMA ShiftCount ==
  ASSUME NEW p \in 0 .. W
  PROVE  (W - p) % W = IF p = 0 THEN 0 ELSE W - p
  BY WidthIsPositive, SMT

(***************************************************************************)
(* The positions get_subnet keeps.  A prefix of 0 keeps them all: the      *)
(* shift by the full width that it asks for shifts by nothing.             *)
(***************************************************************************)
Kept(p) == IF p = 0 THEN W ELSE p

(***************************************************************************)
(* get_subnet keeps the LOW positions of the u_int, the leading bits of an *)
(* address only when the prefix is a whole number of octets.               *)
(***************************************************************************)
LEMMA LowBits ==
  ASSUME NEW a \in Addr, NEW p \in 0 .. W
  PROVE  get_subnet(a, p) = { i \in a : i < Kept(p) }
  <1> DEFINE n == IF p = 0 THEN 0 ELSE W - p
  <1>1. W \in Nat \ {0} /\ n \in Nat /\ Kept(p) \in Nat /\ Kept(p) + n = W
    BY WidthIsPositive DEF Kept
  <1>2. Shl(a, W - p) = { i \in Bit : i - n \in a }
    BY ShiftCount DEF Shl
  <1>3. get_subnet(a, p) = { i \in Bit : i + n \in Shl(a, W - p) }
    BY ShiftCount DEF get_subnet, Shr
  <1> HIDE DEF n
  <1>4. \A i \in Bit : i \in Nat /\ i < W /\ (i + n) - n = i
    BY <1>1 DEF Bit
  <1>5. \A i \in Bit : i + n \in Bit <=> i < Kept(p)
    BY <1>1, <1>4 DEF Bit
  <1>6. \A i \in Bit : i \in get_subnet(a, p) <=> i + n \in Bit /\ (i + n) - n \in a
    BY <1>2, <1>3
  <1>7. \A i \in Bit : i \in get_subnet(a, p) <=> i < Kept(p) /\ i \in a
    BY <1>4, <1>5, <1>6
  <1>8. get_subnet(a, p) \subseteq Bit /\ a \subseteq Bit
    BY <1>3 DEF Addr
  <1> QED
    BY <1>7, <1>8

(***************************************************************************)
(* The order in which two prefixes are applied does not matter.            *)
(***************************************************************************)
LEMMA SubnetsCommute ==
  ASSUME NEW a \in Addr, NEW p \in 0 .. W, NEW q \in 0 .. W
  PROVE  get_subnet(get_subnet(a, p), q) = get_subnet(get_subnet(a, q), p)
  <1>1. get_subnet(a, p) \in Addr /\ get_subnet(a, q) \in Addr
    BY LowBits DEF Addr
  <1> QED
    BY <1>1, LowBits

(***************************************************************************)
(* Octet reversal maps positions to positions, and is its own inverse.     *)
(***************************************************************************)
LEMMA OctetOfBit ==
  ASSUME NEW i \in Bit
  PROVE  /\ i = OctetBits * (i \div OctetBits) + (i % OctetBits)
         /\ i \div OctetBits \in 0 .. Octets - 1
         /\ i % OctetBits \in 0 .. OctetBits - 1
  <1>1. /\ OctetBits \in Nat \ {0} /\ Octets \in Nat \ {0}
        /\ i \in Nat /\ i < Octets * OctetBits
    BY SubnetAssumption DEF Bit, W
  <1>2. \A b \in Nat \ {0}, n \in Nat : /\ n = b * (n \div b) + (n % b)
                                       /\ n \div b \in Nat
                                       /\ n % b \in 0 .. b - 1
    BY SMT
  <1>3. \A b \in Nat \ {0}, q \in Nat, o \in Nat, r \in Nat :
          b * q + r < o * b => q < o
    <2> SUFFICES ASSUME NEW b \in Nat \ {0}, NEW q \in Nat, NEW o \in Nat, NEW r \in Nat,
                        q >= o
                 PROVE  b * q + r >= o * b
      BY SMT
    <2>1. q - o \in Nat /\ b * (q - o) \in Nat
      BY SMT
    <2>2. b * q = b * (q - o) + o * b
      BY SMT
    <2> QED
      BY <2>1, <2>2, SMT
  <1> DEFINE q == i \div OctetBits
             r == i % OctetBits
  <1>4. i = OctetBits * q + r /\ q \in Nat /\ r \in 0 .. OctetBits - 1
    BY <1>1, <1>2
  <1> HIDE DEF q, r
  <1>5. q < Octets
    <2>1. OctetBits * q + r < Octets * OctetBits /\ r \in Nat
      BY <1>1, <1>4
    <2> QED
      BY <1>1, <1>3, <1>4, <2>1
  <1>6. q \in 0 .. Octets - 1
    BY <1>1, <1>4, <1>5
  <1> QED
    BY <1>4, <1>6 DEF q, r

LEMMA OctetUnique ==
  ASSUME NEW b \in Nat \ {0}, NEW q \in Nat, NEW r \in 0 .. b - 1
  PROVE  (b * q + r) \div b = q /\ (b * q + r) % b = r
  BY SMT

LEMMA DigitsInRange ==
  ASSUME NEW b \in Nat \ {0}, NEW o \in Nat \ {0},
         NEW q \in 0 .. o - 1, NEW r \in 0 .. b - 1
  PROVE  b * q + r \in 0 .. o * b - 1
  <1>1. b * q \in Nat /\ b * (o - 1 - q) \in Nat /\ o * b \in Nat
    BY SMT
  <1>2. o * b = b * q + b * (o - 1 - q) + b
    BY SMT
  <1> QED
    BY <1>1, <1>2, SMT

LEMMA MirrorTwice ==
  ASSUME NEW i \in Bit
  PROVE  Mirror(i) \in Bit /\ Mirror(Mirror(i)) = i
  <1> DEFINE q == i \div OctetBits
             r == i % OctetBits
             k == Octets - 1 - q
  <1>1. OctetBits \in Nat \ {0} /\ Octets \in Nat \ {0}
    BY SubnetAssumption
  <1>2. i = OctetBits * q + r /\ q \in 0 .. Octets - 1 /\ r \in 0 .. OctetBits - 1
    BY OctetOfBit
  <1> HIDE DEF q, r
  <1>3. k \in 0 .. Octets - 1 /\ k \in Nat /\ Octets - 1 - k = q
    BY <1>1, <1>2
  <1>4. Mirror(i) = OctetBits * k + r
    BY DEF Mirror, q, r
  <1>5. OctetBits * k + r \in Bit
    BY <1>1, <1>2, <1>3, DigitsInRange DEF Bit, W
  <1>6. (OctetBits * k + r) \div OctetBits = k /\ (OctetBits * k + r) % OctetBits = r
    BY <1>1, <1>2, <1>3, OctetUnique
  <1>7. Mirror(OctetBits * k + r) = OctetBits * q + r
    BY <1>3, <1>6 DEF Mirror
  <1> QED
    BY <1>2, <1>4, <1>5, <1>7

(***************************************************************************)
(* For a prefix of k whole octets, position i is among the leading bits of *)
(* an address exactly if it is among the low positions of the u_int.       *)
(***************************************************************************)
LEMMA DigitsCompare ==
  ASSUME NEW b \in Nat \ {0}, NEW q \in Int, NEW k \in Int, NEW r \in 0 .. b - 1
  PROVE  b * q + r < b * k <=> q < k
  <1>1. CASE q < k
    <2>1. b * (k - q - 1) \in Nat /\ b * k = b * q + b + b * (k - q - 1)
      BY <1>1, SMT
    <2>2. b * q \in Int /\ b * k \in Int
      BY SMT
    <2> QED
      BY <1>1, <2>1, <2>2, SMT
  <1>2. CASE ~ (q < k)
    <2>1. b * (q - k) \in Nat /\ b * q = b * k + b * (q - k)
      BY <1>2, SMT
    <2>2. b * q \in Int /\ b * k \in Int
      BY SMT
    <2> QED
      BY <1>2, <2>1, <2>2, SMT
  <1> QED
    BY <1>1, <1>2

LEMMA AlignedPositions ==
  ASSUME NEW k \in 1 .. Octets, NEW i \in Bit
  PROVE  Mirror(i) >= W - OctetBits * k <=> i < OctetBits * k
  <1> DEFINE q == i \div OctetBits
             r == i % OctetBits
  <1>1. OctetBits \in Nat \ {0} /\ Octets \in Nat \ {0} /\ k \in Nat
    BY SubnetAssumption
  <1>2. i = OctetBits * q + r /\ q \in 0 .. Octets - 1 /\ r \in 0 .. OctetBits - 1
    BY OctetOfBit
  <1>3. Mirror(i) = OctetBits * (Octets - 1 - q) + r
    BY DEF Mirror
  <1> HIDE DEF q, r
  <1>4. i < OctetBits * k <=> q < k
    BY <1>1, <1>2, DigitsCompare
  <1>5. OctetBits * (Octets - 1 - q) + r < OctetBits * (Octets - k)
          <=> Octets - 1 - q < Octets - k
    BY <1>1, <1>2, DigitsCompare
  <1>6. OctetBits * (Octets - k) = W - OctetBits * k
    BY <1>1, SMT DEF W
  <1>7. W \in Nat /\ OctetBits * k \in Nat /\ Mirror(i) \in Nat
    <2>1. Mirror(i) \in Bit /\ W \in Nat
      BY MirrorTwice, WidthIsPositive
    <2>2. OctetBits * k \in Nat
      BY <1>1, SMT
    <2> QED
      BY <2>1, <2>2 DEF Bit
  <1>8. Mirror(i) < W - OctetBits * k <=> Octets - 1 - q < Octets - k
    BY <1>3, <1>5, <1>6
  <1>9. q \in Int /\ Octets \in Int /\ k \in Int
    BY <1>1, <1>2
  <1>10. Octets - 1 - q < Octets - k <=> ~ (q < k)
    BY <1>9
  <1> QED
    BY <1>4, <1>7, <1>8, <1>10

(***************************************************************************)
(* ip_mask_to_network, which works in host byte order, then clears what it *)
(* should: everything behind the first k octets.                           *)
(***************************************************************************)
LEMMA AlignedNetwork ==
  ASSUME NEW a \in Addr, NEW k \in 1 .. Octets
  PROVE  ip_mask_to_network(a, OctetBits * k) = { i \in a : i < OctetBits * k }
  <1> DEFINE p == OctetBits * k
             n == W - p
             x == Swap(a)
  <1>1. p \in 1 .. W
    <2>1. OctetBits \in Nat \ {0} /\ Octets \in Nat \ {0} /\ k \in Nat \ {0}
      BY SubnetAssumption
    <2>2. OctetBits * k \in Nat \ {0} /\ OctetBits * (Octets - k) \in Nat
      BY <2>1, SMT
    <2>3. W = OctetBits * k + OctetBits * (Octets - k)
      BY <2>1, SMT DEF W
    <2> QED
      BY <2>2, <2>3
  <1>2. ip_mask_to_network(a, p) = Swap(Shl(Shr(x, W - p), W - p))
    BY DEF ip_mask_to_network
  <1>3. \A i \in Bit : Mirror(i) >= W - p <=> i < p
    BY AlignedPositions
  <1> HIDE DEF p
  <1>4. n \in Nat /\ n % W = n
    BY <1>1, WidthIsPositive, ShiftCount
  <1>5. ip_mask_to_network(a, p) = Swap(Shl(Shr(x, n), n))
    BY <1>2
  <1>6. \A i \in Bit : Mirror(i) >= n <=> i < p
    BY <1>3
  <1>7. a \subseteq Bit
    BY DEF Addr
  <1> HIDE DEF n
  <1>8. \A j \in Bit : j \in x <=> Mirror(j) \in a
    BY DEF Swap
  <1> HIDE DEF x
  <1>9. \A j \in Bit : j \in Shl(Shr(x, n), n) <=> j >= n /\ j \in x
    <2> SUFFICES ASSUME NEW j \in Bit
                 PROVE  j \in Shl(Shr(x, n), n) <=> j >= n /\ j \in x
      OBVIOUS
    <2>1. W \in Nat /\ j \in Nat /\ j < W
      BY WidthIsPositive DEF Bit
    <2>2. j \in Shl(Shr(x, n), n) <=> j - n \in Bit /\ (j - n) + n \in x
      BY <1>4 DEF Shl, Shr
    <2>3. (j - n) + n = j /\ (j - n \in Bit <=> j >= n)
      BY <1>4, <2>1 DEF Bit
    <2> QED
      BY <2>2, <2>3
  <1>10. \A i \in Bit : i \in ip_mask_to_network(a, p) <=> i < p /\ i \in a
    <2> SUFFICES ASSUME NEW i \in Bit
                 PROVE  i \in ip_mask_to_network(a, p) <=> i < p /\ i \in a
      OBVIOUS
    <2>1. Mirror(i) \in Bit /\ Mirror(Mirror(i)) = i
      BY MirrorTwice
    <2>2. i \in ip_mask_to_network(a, p) <=> Mirror(i) \in Shl(Shr(x, n), n)
      BY <1>5 DEF Swap
    <2> QED
      BY <1>6, <1>8, <1>9, <2>1, <2>2
  <1>11. ip_mask_to_network(a, p) \subseteq Bit
    BY <1>5 DEF Swap
  <1> QED
    BY <1>7, <1>10, <1>11 DEF p

(***************************************************************************)
(* For a prefix of whole octets the membership test of every routing       *)
(* decision is right: an address belongs to the network of another one     *)
(* exactly if their leading octets agree.                                  *)
(***************************************************************************)
THEOREM AlignedMembership ==
  ASSUME NEW a \in Addr, NEW b \in Addr, NEW k \in 1 .. Octets
  PROVE  belongs_to_subnet(a, ip_mask_to_network(b, OctetBits * k), OctetBits * k)
           <=> \A i \in Bit : i < OctetBits * k => (i \in a <=> i \in b)
  <1> DEFINE p == OctetBits * k
  <1>1. p \in 1 .. W
    <2>1. OctetBits \in Nat \ {0} /\ Octets \in Nat \ {0} /\ k \in Nat \ {0}
      BY SubnetAssumption
    <2>2. OctetBits * k \in Nat \ {0} /\ OctetBits * (Octets - k) \in Nat
      BY <2>1, SMT
    <2>3. W = OctetBits * k + OctetBits * (Octets - k)
      BY <2>1, SMT DEF W
    <2> QED
      BY <2>2, <2>3
  <1>2. ip_mask_to_network(b, p) = { i \in b : i < p }
    BY AlignedNetwork
  <1> HIDE DEF p
  <1>3. p \in 0 .. W /\ Kept(p) = p
    BY <1>1, WidthIsPositive DEF Kept
  <1>4. get_subnet(a, p) = { i \in a : i < p }
    BY <1>3, LowBits
  <1>5. a \subseteq Bit /\ b \subseteq Bit
    BY DEF Addr
  <1>6. belongs_to_subnet(a, ip_mask_to_network(b, p), p)
          <=> { i \in a : i < p } = { i \in b : i < p }
    BY <1>2, <1>4 DEF belongs_to_subnet
  <1>7. belongs_to_subnet(a, ip_mask_to_network(b, p), p)
          <=> \A i \in Bit : i < p => (i \in a <=> i \in b)
    BY <1>5, <1>6
  <1> QED
    BY <1>7 DEF p
=============================================================================
