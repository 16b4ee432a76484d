----------------------------- MODULE Checksums ------------------------------
(***************************************************************************)
(* The Internet checksum as the program computes it three times over: csum *)
(* for the updates of RIP, ip_checksum and icmp_checksum.  A buffer is a   *)
(* sequence of bytes; its 16-bit words are little-endian.                  *)
(***************************************************************************)
EXTENDS Naturals, Sequences, SequencesExt

Byte == 0 .. 255

Word(low, high) == low + 256 * high

Words(b) == [i \in 1 .. Len(b) \div 2 |-> Word(b[2 * i - 1], b[2 * i])]

Total(words) == FoldLeft(LAMBDA n, w : n + w, 0, words)

OddByte(b) == IF Len(b) % 2 = 1 THEN Last(b) ELSE 0

Fold(sum) == (sum % 2 ^ 16) + (sum \div 2 ^ 16)

\* The complement, cut to 16 bits.
Complement(sum) == 2 ^ 16 - 1 - (sum % 2 ^ 16)

\* Mutant: the carry of the first fold is not added.
csum_once(b) == Complement(Fold(Total(Words(b)) + OddByte(b)))

csum(b) ==
  LET sum == Fold(Total(Words(b)) + OddByte(b))
  IN  Complement(sum + (sum \div 2 ^ 16))

icmp_checksum(b) ==
  LET sum == Fold(Total(Words(b)) + OddByte(b))
  IN  Complement(sum + (sum \div 2 ^ 16))

\* It folds until nothing is left to fold, and takes no account of an odd byte.
\* The fold of a sum beyond 2^31 inside the loop needs more words than a
\* header has.
ip_checksum(b) ==
  LET Folded[sum \in Nat] == IF sum \div 2 ^ 16 = 0 THEN sum ELSE Folded[Fold(sum)]
  IN  Complement(Folded[Total(Words(b))])
=============================================================================
