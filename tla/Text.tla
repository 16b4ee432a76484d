-------------------------------- MODULE Text --------------------------------
(***************************************************************************)
(* The text half of functions.h: addresses read and written, addresses     *)
(* tested, command lines taken apart, bytes in hexadecimal.  A text is the *)
(* sequence of its characters.  Memory is left out, but for the size of    *)
(* the buffer of get_line.                                                 *)
(***************************************************************************)
EXTENDS Integers, Sequences, SequencesExt

\* Addresses as the program has them, 4 octets of 8 bits; see Subnet.
U == INSTANCE Subnet WITH Octets <- 4, OctetBits <- 8

Digits    == <<"0", "1", "2", "3", "4", "5", "6", "7", "8", "9">>
LowerHex  == Digits \o <<"a", "b", "c", "d", "e", "f">>
UpperHex  == Digits \o <<"A", "B", "C", "D", "E", "F">>

isdigit(c)  == c \in ToSet(Digits)
isxdigit(c) == c \in ToSet(LowerHex) \cup ToSet(UpperHex)
Space       == " "
isspace(c)  == c \in {Space, "\t", "\n"}

(***************************************************************************)
(* strtok: what lies between the delimiters and is not empty.  It writes   *)
(* the terminator over the delimiter behind the first token, where the     *)
(* text ends for whoever looks at it afterwards.                           *)
(***************************************************************************)
Tokens(s, d) ==
  LET Ended(t)   == IF t.token = << >> THEN t.done ELSE Append(t.done, t.token)
      Take(t, c) == IF c = d THEN [done |-> Ended(t), token |-> << >>]
                    ELSE [t EXCEPT !.token = Append(@, c)]
  IN  Ended(FoldLeft(Take, [done |-> << >>, token |-> << >>], s))

LeftByStrtok(s, d) ==
  LET starts == { i \in DOMAIN s : s[i] # d }
      ends   == { i \in DOMAIN s : s[i] = d /\ \E j \in starts : j < i }
  IN  IF ends = {} THEN s
      ELSE SubSeq(s, 1, (CHOOSE i \in ends : \A j \in ends : i <= j) - 1)

\* Leading blanks, then digits, up to the first other character.  The value
\* is unbounded here and an int in C: numbers of ten digits and more differ.
atoi(s) ==
  LET Take(n, c) == IF n.over \/ (isspace(c) /\ ~ n.begun) THEN n
                    ELSE IF ~ isdigit(c) THEN [n EXCEPT !.over = TRUE]
                    ELSE [n EXCEPT !.begun = TRUE,
                                   !.value = 10 * @ + SelectInSeq(Digits, LAMBDA e : e = c) - 1]
  IN  FoldLeft(Take, [value |-> 0, begun |-> FALSE, over |-> FALSE], s).value

(***************************************************************************)
(* Numbers.                                                                *)
(***************************************************************************)
Binary == <<"0", "1">>

dec_to_bin(n) ==
  LET Take(r, k) == [rest |-> r.rest \div 2, text |-> <<Binary[1 + (r.rest % 2)]>> \o r.text]
  IN  FoldLeft(Take, [rest |-> n, text |-> << >>], [k \in 1 .. 32 |-> k]).text

(***************************************************************************)
(* Addresses.                                                              *)
(***************************************************************************)
Bits(n, w) == { i \in 0 .. w - 1 : (n \div 2 ^ i) % 2 = 1 }

Value(a) == FoldLeft(LAMBDA n, i : n + (IF i - 1 \in a THEN 2 ^ (i - 1) ELSE 0),
                     0, [i \in 1 .. 16 |-> i])

\* A number is kept in a short and shifted as an int: the sign goes with it.
Short(n) == Bits(n, 16) \cup (IF 15 \in Bits(n, 16) THEN 16 .. 31 ELSE {})

string_to_ip(s) ==
  LET T == Tokens(s, ".")
  IN  UNION { U!Shl(Short(atoi(T[k])), 8 * (k - 1)) : k \in DOMAIN T }

Octet(ip, k) == Value(U!Shr(ip, 8 * (k - 1)) \cap (0 .. 7))

decimal(n) ==
  LET Digit(d) == Digits[d + 1]
  IN  IF n < 10 THEN <<Digit(n)>>
      ELSE IF n < 100 THEN <<Digit(n \div 10), Digit(n % 10)>>
      ELSE <<Digit(n \div 100), Digit((n \div 10) % 10), Digit(n % 10)>>

ip_to_string(ip) ==
  decimal(Octet(ip, 1)) \o <<".">> \o decimal(Octet(ip, 2)) \o <<".">>
    \o decimal(Octet(ip, 3)) \o <<".">> \o decimal(Octet(ip, 4))

valid_digit(s) == \A i \in DOMAIN s : isdigit(s[i])

\* Mutant: any number is an octet.
is_valid_ip_any(s) ==
  LET T == Tokens(s, ".")
  IN  Len(T) = 4 /\ \A k \in DOMAIN T : valid_digit(T[k])

is_valid_ip(s) ==
  LET T == Tokens(s, ".")
  IN  Len(T) = 4 /\ \A k \in DOMAIN T : valid_digit(T[k]) /\ atoi(T[k]) \in 0 .. 255

\* i counts the digits and s the separators; a separator in the wrong place
\* ends the loop, another character spoils s.
is_valid_mac(mac) ==
  LET Take(n, c) ==
        IF n.over THEN n
        ELSE IF isxdigit(c) THEN [n EXCEPT !.i = @ + 1]
        ELSE IF c \in {":", "-"}
        THEN IF n.i = 0 \/ n.i \div 2 - 1 # n.s THEN [n EXCEPT !.over = TRUE]
             ELSE [n EXCEPT !.s = @ + 1]
        ELSE [n EXCEPT !.s = -1]
      end == FoldLeft(Take, [i |-> 0, s |-> 0, over |-> FALSE], mac)
  IN  end.i = 12 /\ end.s \in {0, 5}

(***************************************************************************)
(* Bytes in hexadecimal.                                                   *)
(***************************************************************************)
get_hex(data, delimiter) ==
  FoldLeft(LAMBDA s, b : s \o (IF s = << >> THEN << >> ELSE <<delimiter>>)
                           \o <<UpperHex[(b \div 16) + 1], UpperHex[(b % 16) + 1]>>,
           << >>, data)

\* Mutant: capital letters are forgotten.
nibbleFromCharLower(c) ==
  IF c \in ToSet(LowerHex) THEN SelectInSeq(LowerHex, LAMBDA e : e = c) - 1 ELSE 255

nibbleFromChar(c) ==
  IF c \in ToSet(LowerHex) THEN SelectInSeq(LowerHex, LAMBDA e : e = c) - 1
  ELSE IF c \in ToSet(UpperHex) THEN SelectInSeq(UpperHex, LAMBDA e : e = c) - 1
  ELSE 255

\* high << 4 | low, cut to a byte; 255 fills the half it stands for, or both.
hexStringToBytes(inhex) ==
  [i \in 1 .. Len(inhex) \div 2 |->
     LET high == nibbleFromChar(inhex[2 * i - 1])
         low  == nibbleFromChar(inhex[2 * i])
     IN  IF low = 255 THEN 255 ELSE ((16 * high) % 256) + low]

(***************************************************************************)
(* Command lines.                                                          *)
(***************************************************************************)
NoName == <<"none">>      \* the null pointer: not a character

\* The name, or NoName, and what is left in arguments, with its blank.
split_cmd(s) ==
  LET pos == SelectInSeq(s, LAMBDA c : c = Space)
  IN  IF pos = 0 THEN [name |-> NoName, arguments |-> << >>]
      ELSE [name |-> SubSeq(s, 1, pos - 1), arguments |-> SubSeq(s, pos, Len(s))]

\* Mutant: the terminator is written over the last character.
str_trim_short(s) ==
  LET Solid == { i \in DOMAIN s : ~ isspace(s[i]) }
  IN  IF Solid = {} THEN << >>
      ELSE SubSeq(s, CHOOSE i \in Solid : \A j \in Solid : i <= j,
                     (CHOOSE i \in Solid : \A j \in Solid : j <= i) - 1)

str_trim(s) ==
  LET Solid == { i \in DOMAIN s : ~ isspace(s[i]) }
  IN  IF Solid = {} THEN << >>
      ELSE SubSeq(s, CHOOSE i \in Solid : \A j \in Solid : i <= j,
                     CHOOSE i \in Solid : \A j \in Solid : j <= i)

(***************************************************************************)
(* get_line: the memory it has and the characters it has stored in it,     *)
(* after one more call of fgetc, which gives c; more is whether realloc    *)
(* finds memory.  len counts down to the next realloc.  zero holds the     *)
(* offset the terminator is written at, one before the last character,     *)
(* once the line is over; at an EOF with nothing stored that is -1.        *)
(***************************************************************************)
LineBegun == [capacity |-> 100, lenmax |-> 100, len |-> 100, stored |-> 0,
              over |-> "no", zero |-> {}]

\* No memory: get_line returns the null pointer and keeps nothing.
NoLine == [LineBegun EXCEPT !.capacity = 0, !.over = "null"]

\* Mutant: len is set after lenmax has been doubled.
get_line_doubled(l, c, more) ==
  LET full == l.len - 1 = 0
  IN  IF c = "EOF" THEN [l EXCEPT !.over = "EOF", !.zero = {l.stored - 1}]
      ELSE IF full /\ ~ more THEN NoLine
      ELSE [ capacity |-> IF full THEN 2 * l.lenmax ELSE l.capacity,
             lenmax   |-> IF full THEN 2 * l.lenmax ELSE l.lenmax,
             len      |-> IF full THEN 2 * l.lenmax ELSE l.len - 1,
             stored   |-> l.stored + 1,
             over     |-> IF c = "newline" THEN "newline" ELSE "no",
             zero     |-> IF c = "newline" THEN {l.stored} ELSE {} ]

get_line(l, c, more) ==
  LET full == l.len - 1 = 0
  IN  IF c = "EOF" THEN [l EXCEPT !.over = "EOF", !.zero = {l.stored - 1}]
      ELSE IF full /\ ~ more THEN NoLine
      ELSE [ capacity |-> IF full THEN 2 * l.lenmax ELSE l.capacity,
             lenmax   |-> IF full THEN 2 * l.lenmax ELSE l.lenmax,
             len      |-> IF full THEN l.lenmax ELSE l.len - 1,
             stored   |-> l.stored + 1,
             over     |-> IF c = "newline" THEN "newline" ELSE "no",
             zero     |-> IF c = "newline" THEN {l.stored} ELSE {} ]
=============================================================================
