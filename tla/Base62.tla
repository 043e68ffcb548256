------------------------------- MODULE Base62 -------------------------------
(***************************************************************************)
(* app/encoder.py: short codes are the auto-increment id written in base   *)
(* 62 over the alphabet 0-9 A-Z a-z.  A code is the sequence of the        *)
(* alphabet positions of its characters, so that a position carries what   *)
(* the database compares: which letter, and in which case.  The alphabet   *)
(* is a parameter (10 digits and 26 letters in the code) so that the       *)
(* interesting ids of a small instance are small.                          *)
(***************************************************************************)
EXTENDS Naturals, Sequences

CONSTANTS
  Digits,      \* digit characters in ALPHABET (10)
  Letters,     \* letters per case in ALPHABET (26): upper case before lower
  MIN_LENGTH   \* width to which shorter codes are padded (6)

ASSUME AlphabetAssumption ==
  /\ Digits \in Nat \ {0}
  /\ Letters \in Nat \ {0}
  /\ MIN_LENGTH \in Nat

BASE == Digits + 2 * Letters

\* The positional digits of a number, most significant first; none for 0.
digitsOf[num \in Nat] ==
  IF num = 0 THEN << >>
  ELSE Append(digitsOf[num \div BASE], num % BASE)

\* rjust(MIN_LENGTH, "0").
Padding(chars) ==
  [i \in 1..(IF Len(chars) < MIN_LENGTH THEN MIN_LENGTH - Len(chars) ELSE 0) |-> 0]

\* Mutant: the digits are not reversed.
Encode_LsbFirst(num) ==
  LET chars == digitsOf[num]
  IN  Padding(chars) \o [i \in 1..Len(chars) |-> chars[Len(chars) + 1 - i]]

\* encode(): the digits, left-padded with character 0.
Encode(num) == Padding(digitsOf[num]) \o digitsOf[num]

\* decode() of a code whose characters are all in the alphabet.
Decode(code) ==
  LET result[n \in 0..Len(code)] ==
        IF n = 0 THEN 0 ELSE result[n - 1] * BASE + code[n]
  IN  result[Len(code)]

\* The powers of BASE.
power[n \in Nat] == IF n = 0 THEN 1 ELSE BASE * power[n - 1]

(***************************************************************************)
(* How MySQL compares short codes.  The column has no COLLATE clause and   *)
(* the mysql:8.0 service sets none, so the server default                  *)
(* utf8mb4_0900_ai_ci applies: a letter equals itself in the other case.   *)
(***************************************************************************)
Collate(code) ==
  [i \in DOMAIN code |->
     IF code[i] >= Digits + Letters THEN code[i] - Letters ELSE code[i]]

-----------------------------------------------------------------------------
\* An id can be read back from its code ("the original integer", encoder.py,
\* decode()), and a code has MIN_LENGTH characters until ids need more
\* (encoder.py: "Capacity").
RoundTrips(id) ==
  LET code == Encode(id)
  IN  /\ Decode(code) = id
      /\ Len(code) >= MIN_LENGTH
      /\ Len(code) > MIN_LENGTH <=> id >= power[MIN_LENGTH]
=============================================================================
