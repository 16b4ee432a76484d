------------------------------- MODULE Subnet -------------------------------
(***************************************************************************)
(* The IPv4 address arithmetic of functions.h: prefixes, masks, networks   *)
(* and the membership test every routing decision rests on.                *)
(*                                                                         *)
(* The program keeps an address as the u_int it finds in a packet, that is *)
(* in network byte order, and runs on a little-endian machine: the first   *)
(* octet of 10.0.0.1 is the LEAST significant byte of the u_int.  Here an  *)
(* address is the set of the bit positions of that u_int that are 1, so    *)
(* position OctetBits * k + j is bit j of octet k + 1 as one writes it.    *)
(* The code has Octets = 4 and OctetBits = 8.                              *)
(***************************************************************************)
EXTENDS Integers

CONSTANTS Octets,      \* octets of an address (4)
          OctetBits    \* bits of an octet (8)

ASSUME SubnetAssumption ==
  /\ Octets \in Nat \ {0}
  /\ OctetBits \in Nat \ {0}

W    == Octets * OctetBits      \* the width of a u_int
Bit  == 0 .. W - 1
Addr == SUBSET Bit

(***************************************************************************)
(* a << k and a >> k on a u_int.  A shift by the full width, which the     *)
(* code asks for when a prefix is 0, is undefined in C; the Makefile's     *)
(* build (clang -O0, x86) emits shl/shr, which take the count modulo the   *)
(* width, for a count that is negative or too large as well.               *)
(***************************************************************************)
Shl(a, k) == LET n == k % W IN { i \in Bit : i - n \in a }
Shr(a, k) == LET n == k % W IN { i \in Bit : i + n \in a }

\* htonl, ntohl and _s32: the same bits with the octets in reverse order.
Mirror(i) == OctetBits * (Octets - 1 - (i \div OctetBits)) + (i % OctetBits)
Swap(a)   == { i \in Bit : Mirror(i) \in a }

(***************************************************************************)
(* The functions of functions.h, under their own names.                    *)
(***************************************************************************)
\* Mutant: the shifts in the other order, which keeps the high positions.
get_subnet_swapped(ip, mask) == Shl(Shr(ip, W - mask), W - mask)

get_subnet(ip, mask) == Shr(Shl(ip, W - mask), W - mask)

belongs_to_subnet(addr, subnet, prefix) == get_subnet(addr, prefix) = subnet

\* Defined for a prefix in 0..W; the code leaves the process on another one.
ip_mask_to_network(ip, prefix) ==
  Swap(Shl(Shr(Swap(ip), W - prefix), W - prefix))

prefix_to_mask(prefix) == Shl(Bit, W - prefix)

\* Mutant: the octets are not swapped first.
mask_to_prefix_unswapped(mask) ==
  LET ShiftedOut == { n \in 0 .. W : \A i \in mask : i + n >= W }
  IN  CHOOSE n \in ShiftedOut : \A m \in ShiftedOut : n <= m

\* The mask is shifted left until nothing is left of it; the shifts are counted.
mask_to_prefix(mask) ==
  LET host       == Swap(mask)
      ShiftedOut == { n \in 0 .. W : \A i \in host : i + n >= W }
  IN  CHOOSE n \in ShiftedOut : \A m \in ShiftedOut : n <= m
=============================================================================
