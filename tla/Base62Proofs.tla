---------------------------- MODULE Base62Proofs ----------------------------
(***************************************************************************)
(* The encoder for every id, alphabet and width.  encode() and decode()    *)
(* are recursive functions of Base62; the provers unfold a recursive       *)
(* function only once it is shown that some function satisfies its         *)
(* equation, and take no induction over a property given as an operator.   *)
(* Both are had from the well-foundedness of < on Nat with sets and        *)
(* functions in place of operators (Induction, Recursion); what encode()   *)
(* writes and decode() reads then follows digit by digit.                  *)
(***************************************************************************)
EXTENDS MCShorten, ShortenProofs, Integers, SequenceTheorems,
        WellFoundedInduction, NaturalsInduction

\* Complete induction, for the set of the numbers that have a property: a
\* least number without it would have it.
LEMMA Induction ==
  ASSUME NEW T,
         \A n \in Nat : (\A k \in 0..(n - 1) : k \in T) => n \in T
  PROVE  \A n \in Nat : n \in T
  <1> DEFINE R == OpToRel(<, Nat)
             out == {n \in Nat : n \notin T}
  <1>1. IsWellFoundedOn(R, Nat)
    BY NatLessThanWellFounded
  <1>2. \A x, y \in Nat : <<x, y>> \in R <=> x < y
    BY DEF OpToRel
  <1> HIDE DEF R
  <1>3. ASSUME out # {} PROVE FALSE
    <2>1. PICK m \in out : \A k \in out : ~(<<k, m>> \in R)
      BY <1>1, <1>3, WFMin
    <2>2. m \in Nat /\ m \notin T
      BY <2>1
    <2>3. ASSUME NEW k \in 0..(m - 1) PROVE k \in T
      <3>1. k \in Nat /\ k < m
        BY <2>2
      <3>2. k \notin out
        BY <1>2, <2>1, <2>2, <3>1
      <3> QED BY <3>1, <3>2
    <2> QED BY <2>2, <2>3
  <1> QED BY <1>3

\* f is defined as far as n by its value at 0 and a step from an earlier value.
Defines(S, base, before, step, n, f) ==
  /\ f \in [0..n -> S]
  /\ f[0] = base
  /\ \A k \in 1..n : f[k] = step[k][f[before[k]]]

\* The step takes values in S to values in S, and goes back from n to an
\* earlier number.
Recursive(S, base, before, step) ==
  /\ base \in S
  /\ step \in [Nat -> [S -> S]]
  /\ before \in [Nat -> Nat]
  /\ \A n \in Nat : n > 0 => before[n] < n

\* A recursive definition defines a function as far as any number.
LEMMA DefinedAsFar ==
  ASSUME NEW S, NEW base, NEW before, NEW step, Recursive(S, base, before, step)
  PROVE  \A n \in Nat : \E f : Defines(S, base, before, step, n, f)
  <1> USE DEF Recursive
  <1> DEFINE T == {n \in Nat : \E f : Defines(S, base, before, step, n, f)}
  <1>1. ASSUME NEW n \in Nat, \A k \in 0..(n - 1) : k \in T
        PROVE  n \in T
    <2>1. CASE n = 0
      <3> DEFINE f == [k \in 0..n |-> base]
      <3>1. Defines(S, base, before, step, n, f)
        BY <2>1 DEF Defines
      <3> QED BY <3>1
    <2>2. CASE n > 0
      <3>1. n - 1 \in 0..(n - 1) /\ n - 1 \in Nat
        BY <2>2
      <3>2. PICK f : Defines(S, base, before, step, n - 1, f)
        BY <1>1, <3>1
      <3> DEFINE g == [k \in 0..n |-> IF k = n THEN step[n][f[before[n]]] ELSE f[k]]
      <3>3. \A k \in 1..n : before[k] \in 0..(n - 1) /\ before[k] # n
        BY <2>2
      <3>4. \A k \in 0..n : k # n => k \in 0..(n - 1)
        OBVIOUS
      <3>5. f \in [0..(n - 1) -> S] /\ f[0] = base
            /\ \A k \in 1..(n - 1) : f[k] = step[k][f[before[k]]]
        BY <3>2 DEF Defines
      <3>6. step[n][f[before[n]]] \in S
        <4>1. step[n] \in [S -> S]
          OBVIOUS
        <4>2. f[before[n]] \in S
          BY <2>2, <3>3, <3>5
        <4> QED BY <4>1, <4>2
      <3>7. g \in [0..n -> S] /\ \A k \in 0..n : g[k] = IF k = n THEN step[n][f[before[n]]] ELSE f[k]
        BY <3>4, <3>5, <3>6
      <3> HIDE DEF g
      <3>8. g[0] = base
        BY <2>2, <3>5, <3>7
      <3>9. ASSUME NEW k \in 1..n PROVE g[k] = step[k][g[before[k]]]
        <4>1. before[k] \in 0..n /\ g[before[k]] = f[before[k]]
          BY <3>3, <3>7
        <4>2. CASE k = n
          BY <3>7, <4>1, <4>2
        <4>3. CASE k # n
          <5>1. k \in 1..(n - 1) /\ g[k] = f[k]
            BY <3>7, <4>3
          <5>2. f[k] = step[k][f[before[k]]]
            BY <3>5, <5>1
          <5> QED BY <4>1, <5>1, <5>2
        <4> QED BY <4>2, <4>3
      <3>10. Defines(S, base, before, step, n, g)
        BY <3>7, <3>8, <3>9 DEF Defines
      <3> QED BY <3>10
    <2> QED BY <2>1, <2>2
  <1> HIDE DEF T
  <1>2. \A n \in Nat : n \in T
    BY <1>1, Induction
  <1> QED BY <1>2 DEF T

\* Two functions it defines agree as far as both go.
LEMMA DefinedOnce ==
  ASSUME NEW S, NEW base, NEW before, NEW step, Recursive(S, base, before, step),
         NEW m \in Nat, NEW f, Defines(S, base, before, step, m, f),
         NEW l \in Nat, NEW g, Defines(S, base, before, step, l, g)
  PROVE  \A n \in Nat : n <= m /\ n <= l => f[n] = g[n]
  <1> USE DEF Recursive
  <1> DEFINE T == {n \in Nat : n <= m /\ n <= l => f[n] = g[n]}
  <1>1. ASSUME NEW n \in Nat, \A k \in 0..(n - 1) : k \in T
        PROVE  n \in T
    <2>1. CASE n = 0
      BY <2>1 DEF Defines
    <2>2. CASE n > 0 /\ n <= m /\ n <= l
      <3>1. before[n] \in 0..(n - 1) /\ before[n] <= m /\ before[n] <= l
        BY <2>2
      <3>2. f[before[n]] = g[before[n]]
        BY <1>1, <3>1
      <3>3. n \in 1..m /\ n \in 1..l
        BY <2>2
      <3>4. f[n] = g[n]
        BY <3>2, <3>3 DEF Defines
      <3> QED BY <3>4
    <2> QED BY <2>1, <2>2
  <1> HIDE DEF T
  <1>2. \A n \in Nat : n \in T
    BY <1>1, Induction
  <1> QED BY <1>2 DEF T

\* So it defines a function on all numbers: what lets the recursive functions
\* of Base62 be unfolded.
LEMMA Recursion ==
  ASSUME NEW S, NEW base, NEW before, NEW step, Recursive(S, base, before, step)
  PROVE  \E f \in [Nat -> S] :
           f[0] = base /\ \A n \in Nat : n > 0 => f[n] = step[n][f[before[n]]]
  <1> DEFINE far(n) == CHOOSE f : Defines(S, base, before, step, n, f)
             f == [n \in Nat |-> far(n)[n]]
  <1>1. \A n \in Nat : Defines(S, base, before, step, n, far(n))
    BY DefinedAsFar
  <1>2. \A n \in Nat : f[n] = far(n)[n]
    OBVIOUS
  <1> HIDE DEF far
  <1>3. f \in [Nat -> S]
    BY <1>1 DEF Defines
  <1> HIDE DEF f
  <1>4. f[0] = base
    BY <1>1, <1>2 DEF Defines
  <1>5. ASSUME NEW n \in Nat, n > 0 PROVE f[n] = step[n][f[before[n]]]
    <2>1. before[n] \in Nat /\ before[n] <= n
      BY <1>5 DEF Recursive
    <2>2. far(before[n])[before[n]] = far(n)[before[n]]
      <3>1. PICK m \in Nat : m = before[n]
        BY <2>1
      <3>2. PICK g, h : g = far(m) /\ h = far(n)
        OBVIOUS
      <3>3. Defines(S, base, before, step, m, g) /\ Defines(S, base, before, step, n, h)
        BY <1>1, <3>2
      <3>4. \A k \in Nat : k <= m /\ k <= n => g[k] = h[k]
        BY <3>3, DefinedOnce
      <3> QED BY <2>1, <3>1, <3>2, <3>4
    <2>3. n \in 1..n
      BY <1>5
    <2>4. Defines(S, base, before, step, n, far(n))
      BY <1>1
    <2>5. far(n)[n] = step[n][far(n)[before[n]]]
      BY <2>3, <2>4 DEF Defines
    <2> QED BY <1>2, <2>1, <2>2, <2>5
  <1> QED BY <1>3, <1>4, <1>5

-----------------------------------------------------------------------------
\* encoder.py, ALPHABET: the base is at least 2.
LEMMA BaseFacts == BASE \in Nat /\ BASE > 1 /\ MIN_LENGTH \in Nat
  BY AlphabetAssumption DEF BASE

\* encode()'s divmod(num, BASE): quotient and remainder make up the number, the
\* loop goes down, and the quotient's size follows the number's.
LEMMA DivBase ==
  ASSUME NEW n \in Nat
  PROVE  /\ n \div BASE \in Nat /\ n % BASE \in Nat
         /\ n = (n \div BASE) * BASE + (n % BASE)
         /\ n > 0 => n \div BASE < n
         /\ \A q \in Nat : n >= BASE * q <=> n \div BASE >= q
  <1> DEFINE b == BASE
             q == n \div b
  <1>1. b \in Nat /\ b > 1
    BY BaseFacts
  <1> HIDE DEF b
  <1>2. q \in Nat
    BY <1>1
  <1>3. n % b = n - b * q /\ n % b \in Nat
    BY <1>1
  <1>4. b * q = q * b /\ b * q \in Nat
    BY <1>1, <1>2
  <1>5. n > 0 => q < n
    BY <1>1
  <1>6. ASSUME NEW m \in Nat PROVE n >= b * m <=> q >= m
    <2>1. n >= b * m => q >= m
      BY <1>1
    <2>2. n < b * m => q < m
      BY <1>1
    <2>3. b * m \in Nat
      BY <1>1
    <2> QED BY <1>2, <2>1, <2>2, <2>3
  <1>7. n = q * b + (n % b)
    <2> HIDE DEF q
    <2> QED BY <1>2, <1>3, <1>4
  <1> QED BY <1>2, <1>3, <1>5, <1>6, <1>7 DEF b

\* encode()'s loop, for every number: the digits of the quotient, then the
\* remainder.
LEMMA DigitsAre ==
  /\ digitsOf \in [Nat -> Seq(Nat)]
  /\ digitsOf[0] = << >>
  /\ \A n \in Nat : n > 0 => digitsOf[n] = Append(digitsOf[n \div BASE], n % BASE)
  <1> DEFINE before == [n \in Nat |-> n \div BASE]
             step == [n \in Nat |-> [v \in Seq(Nat) |-> Append(v, n % BASE)]]
  <1>1. before \in [Nat -> Nat] /\ \A n \in Nat : before[n] = n \div BASE
    BY DivBase
  <1>2. step \in [Nat -> [Seq(Nat) -> Seq(Nat)]]
    BY DivBase, AppendProperties
  <1>3. \A n \in Nat : \A v \in Seq(Nat) : step[n][v] = Append(v, n % BASE)
    OBVIOUS
  <1> HIDE DEF before, step
  <1>4. << >> \in Seq(Nat)
    OBVIOUS
  <1>5. Recursive(Seq(Nat), << >>, before, step)
    BY <1>1, <1>2, <1>4, DivBase DEF Recursive
  <1>6. PICK f \in [Nat -> Seq(Nat)] :
          f[0] = << >> /\ \A n \in Nat : n > 0 => f[n] = step[n][f[before[n]]]
    <2>1. PICK S, none : S = Seq(Nat) /\ none = << >>
      OBVIOUS
    <2>2. Recursive(S, none, before, step)
      BY <1>5, <2>1
    <2>3. \E f \in [Nat -> S] :
            f[0] = none /\ \A n \in Nat : n > 0 => f[n] = step[n][f[before[n]]]
      BY <2>2, Recursion
    <2> QED BY <2>1, <2>3
  <1>7. ASSUME NEW n \in Nat, n > 0
        PROVE  f[n] = Append(f[n \div BASE], n % BASE)
    <2>1. n \div BASE \in Nat /\ before[n] = n \div BASE
      BY <1>1, DivBase
    <2>2. f[n \div BASE] \in Seq(Nat)
      BY <2>1
    <2> QED BY <1>3, <1>6, <1>7, <2>1, <2>2
  <1>8. f = [num \in Nat |-> IF num = 0 THEN << >>
                             ELSE Append(f[num \div BASE], num % BASE)]
    BY <1>6, <1>7
  <1>9. digitsOf = [num \in Nat |-> IF num = 0 THEN << >>
                                   ELSE Append(digitsOf[num \div BASE], num % BASE)]
    BY <1>8 DEF digitsOf
  <1>10. /\ digitsOf[0] = << >>
         /\ \A n \in Nat : n > 0 => digitsOf[n] = Append(digitsOf[n \div BASE], n % BASE)
    <2>1. PICK d : d = digitsOf
      OBVIOUS
    <2>2. d = [num \in Nat |-> IF num = 0 THEN << >>
                              ELSE Append(d[num \div BASE], num % BASE)]
      BY <1>9, <2>1
    <2>3. d[0] = << >>
      BY <2>2
    <2>4. ASSUME NEW n \in Nat, n > 0
          PROVE  d[n] = Append(d[n \div BASE], n % BASE)
      <3>1. n # 0
        BY <2>4
      <3> QED BY <2>2, <3>1, Zenon
    <2> QED BY <2>1, <2>3, <2>4
  <1> DEFINE T == {n \in Nat : digitsOf[n] \in Seq(Nat)}
  <1>11. ASSUME NEW n \in Nat, \A k \in 0..(n - 1) : k \in T
         PROVE  n \in T
    <2>1. CASE n = 0
      BY <1>4, <1>10, <2>1
    <2>2. CASE n > 0
      <3>1. n \div BASE \in 0..(n - 1) /\ n % BASE \in Nat
        BY <2>2, DivBase
      <3>2. digitsOf[n \div BASE] \in Seq(Nat)
        BY <1>11, <3>1
      <3>3. digitsOf[n] \in Seq(Nat)
        <4>1. PICK v \in Seq(Nat), r \in Nat : v = digitsOf[n \div BASE] /\ r = n % BASE
          BY <3>1, <3>2
        <4>2. Append(v, r) \in Seq(Nat)
          BY AppendProperties
        <4> QED BY <1>10, <2>2, <4>1, <4>2
      <3> QED BY <3>3
    <2> QED BY <2>1, <2>2
  <1> HIDE DEF T
  <1>12. \A n \in Nat : n \in T
    BY <1>11, Induction
  <1>13. digitsOf \in [Nat -> Seq(Nat)]
    BY <1>9, <1>12 DEF T
  <1> QED BY <1>10, <1>13

\* The powers of BASE, for every exponent.
LEMMA PowersAre ==
  /\ power[0] = 1
  /\ \A n \in Nat : power[n] \in Nat /\ power[n + 1] = BASE * power[n]
  <1> DEFINE before == [n \in Nat |-> IF n = 0 THEN 0 ELSE n - 1]
             step == [n \in Nat |-> [v \in Nat |-> BASE * v]]
  <1>1. before \in [Nat -> Nat] /\ \A n \in Nat : n > 0 => before[n] = n - 1
    OBVIOUS
  <1>2. step \in [Nat -> [Nat -> Nat]]
    BY BaseFacts
  <1>3. \A n \in Nat : \A v \in Nat : step[n][v] = BASE * v
    OBVIOUS
  <1> HIDE DEF before, step
  <1>4. Recursive(Nat, 1, before, step)
    <2>1. \A n \in Nat : n > 0 => before[n] < n
      BY <1>1
    <2>2. 1 \in Nat
      OBVIOUS
    <2> QED BY <1>1, <1>2, <2>1, <2>2 DEF Recursive
  <1>5. PICK f \in [Nat -> Nat] :
          f[0] = 1 /\ \A n \in Nat : n > 0 => f[n] = step[n][f[before[n]]]
    BY <1>4, Recursion
  <1>6. ASSUME NEW n \in Nat, n > 0 PROVE f[n] = BASE * f[n - 1]
    <2>1. n - 1 \in Nat /\ before[n] = n - 1
      BY <1>1, <1>6
    <2>2. f[n - 1] \in Nat
      BY <2>1
    <2>3. f[n] = step[n][f[n - 1]]
      BY <1>5, <1>6, <2>1
    <2> QED BY <1>3, <2>2, <2>3
  <1>7. f = [n \in Nat |-> IF n = 0 THEN 1 ELSE BASE * f[n - 1]]
    BY <1>5, <1>6
  <1>8. power = [n \in Nat |-> IF n = 0 THEN 1 ELSE BASE * power[n - 1]]
    BY <1>7 DEF power
  <1>9. power[0] = 1 /\ \A n \in Nat : n > 0 => power[n] = BASE * power[n - 1]
    BY <1>8
  <1>10. \A n \in Nat : n + 1 \in Nat /\ n + 1 > 0 /\ n + 1 - 1 = n
    OBVIOUS
  <1>11. \A n \in Nat : power[n + 1] = BASE * power[n]
    BY <1>9, <1>10
  <1> DEFINE T == {n \in Nat : power[n] \in Nat}
  <1>12. ASSUME NEW n \in Nat, \A k \in 0..(n - 1) : k \in T
         PROVE  n \in T
    <2>1. CASE n = 0
      BY <1>9, <2>1
    <2>2. CASE n > 0
      <3>1. power[n - 1] \in Nat
        BY <1>12, <2>2
      <3> QED BY <1>9, <2>2, <3>1, BaseFacts
    <2> QED BY <2>1, <2>2
  <1> HIDE DEF T
  <1>13. \A n \in Nat : n \in T
    BY <1>12, Induction
  <1> QED BY <1>9, <1>11, <1>13 DEF T

-----------------------------------------------------------------------------
\* f[k] is the value of the first k characters of a code.
Values(code, f) ==
  /\ f[0] = 0
  /\ \A k \in 1..Len(code) : f[k] = f[k - 1] * BASE + code[k]

\* decode()'s loop, for every code: result = result * BASE + index.
LEMMA DecodeIs ==
  ASSUME NEW code \in Seq(Nat)
  PROVE  \E f : Values(code, f) /\ Decode(code) = f[Len(code)]
  <1> DEFINE l == Len(code)
             char == [n \in Nat |-> IF n \in 1..l THEN code[n] ELSE 0]
             before == [n \in Nat |-> IF n = 0 THEN 0 ELSE n - 1]
             step == [n \in Nat |-> [v \in Nat |-> v * BASE + char[n]]]
  <1>1. l \in Nat /\ \A n \in 1..l : code[n] \in Nat
    BY LenProperties, ElementOfSeq
  <1>2. char \in [Nat -> Nat] /\ \A n \in 1..l : char[n] = code[n]
    BY <1>1
  <1> HIDE DEF char
  <1>3. before \in [Nat -> Nat] /\ \A n \in Nat : n > 0 => before[n] = n - 1
    OBVIOUS
  <1>4. ASSUME NEW n \in Nat, NEW v \in Nat PROVE v * BASE + char[n] \in Nat
    <2>1. char[n] \in Nat
      BY <1>2
    <2>2. v * BASE \in Nat
      BY BaseFacts
    <2> QED BY <2>1, <2>2
  <1>5. step \in [Nat -> [Nat -> Nat]]
    BY <1>4
  <1>6. \A n \in Nat : \A v \in Nat : step[n][v] = v * BASE + char[n]
    OBVIOUS
  <1> HIDE DEF before, step
  <1>7. Recursive(Nat, 0, before, step)
    <2>1. \A n \in Nat : n > 0 => before[n] < n
      BY <1>3
    <2>2. 0 \in Nat
      OBVIOUS
    <2> QED BY <1>3, <1>5, <2>1, <2>2 DEF Recursive
  <1>8. PICK f \in [Nat -> Nat] :
          f[0] = 0 /\ \A n \in Nat : n > 0 => f[n] = step[n][f[before[n]]]
    <2>1. PICK S, none : S = Nat /\ none = 0
      OBVIOUS
    <2>2. Recursive(S, none, before, step)
      BY <1>7, <2>1
    <2>3. \E f \in [Nat -> S] :
            f[0] = none /\ \A n \in Nat : n > 0 => f[n] = step[n][f[before[n]]]
      BY <2>2, Recursion
    <2> QED BY <2>1, <2>3
  <1>9. ASSUME NEW n \in 1..l
        PROVE  f[n] = f[n - 1] * BASE + code[n]
    <2>1. n \in Nat /\ n > 0 /\ n - 1 \in Nat /\ before[n] = n - 1
      BY <1>1, <1>3
    <2>2. f[n - 1] \in Nat
      BY <2>1
    <2>3. f[n] = step[n][f[n - 1]]
      BY <1>8, <2>1
    <2>4. step[n][f[n - 1]] = f[n - 1] * BASE + char[n]
      BY <1>6, <2>1, <2>2
    <2> QED BY <1>2, <2>3, <2>4
  <1> DEFINE g == [n \in 0..l |-> f[n]]
  <1>10. g = [n \in 0..l |-> IF n = 0 THEN 0 ELSE g[n - 1] * BASE + code[n]]
    <2>1. ASSUME NEW n \in 0..l, n # 0
          PROVE  n \in 1..l /\ n - 1 \in 0..l
      BY <1>1, <2>1
    <2>2. ASSUME NEW n \in 0..l
          PROVE  g[n] = IF n = 0 THEN 0 ELSE g[n - 1] * BASE + code[n]
      <3>1. CASE n = 0
        BY <1>8, <3>1
      <3>2. CASE n # 0
        BY <1>9, <2>1, <3>2
      <3> QED BY <3>1, <3>2
    <2> QED BY <2>2
  <1> DEFINE result == CHOOSE result :
                         result = [n \in 0..l |-> IF n = 0 THEN 0
                                                 ELSE result[n - 1] * BASE + code[n]]
  <1>11. result = [n \in 0..l |-> IF n = 0 THEN 0 ELSE result[n - 1] * BASE + code[n]]
    <2> HIDE DEF g
    <2> QED BY <1>10
  <1>12. Decode(code) = result[l]
    BY DEF Decode
  <1> HIDE DEF result, g
  <1>13. Values(code, result)
    <2>1. PICK d : d = result
      OBVIOUS
    <2>2. d = [n \in 0..l |-> IF n = 0 THEN 0 ELSE d[n - 1] * BASE + code[n]]
      BY <1>11, <2>1
    <2>3. 0 \in 0..l /\ \A n \in 1..l : n \in 0..l /\ n # 0
      BY <1>1
    <2>4. d[0] = 0 /\ \A n \in 1..l : d[n] = d[n - 1] * BASE + code[n]
      BY <2>2, <2>3
    <2> QED BY <2>1, <2>4 DEF Values
  <1> QED BY <1>12, <1>13

\* The padding has the value 0.
LEMMA LeadingZeros ==
  ASSUME NEW code \in Seq(Nat), NEW f, Values(code, f),
         NEW p \in 0..Len(code), \A i \in 1..p : code[i] = 0
  PROVE  f[p] = 0
  <1> DEFINE T == {n \in Nat : n <= p => f[n] = 0}
  <1>0. Len(code) \in Nat
    BY LenProperties
  <1>1. ASSUME NEW n \in Nat, \A k \in 0..(n - 1) : k \in T
        PROVE  n \in T
    <2>1. CASE n = 0
      BY <2>1 DEF Values
    <2>2. CASE n > 0 /\ n <= p
      <3>1. n - 1 \in 0..(n - 1) /\ n - 1 <= p /\ n \in 1..Len(code) /\ n \in 1..p
        BY <1>0, <2>2
      <3>2. f[n - 1] = 0 /\ code[n] = 0
        BY <1>1, <3>1
      <3>3. f[n] = 0 * BASE + 0
        BY <3>1, <3>2 DEF Values
      <3> QED BY <3>3, BaseFacts
    <2> QED BY <2>1, <2>2
  <1> HIDE DEF T
  <1>2. \A n \in Nat : n \in T
    BY <1>1, Induction
  <1> QED BY <1>0, <1>2 DEF T

\* A code that has come to value 0 and goes on with the digits of n comes to n.
Reads(n) ==
  \A code \in Seq(Nat) : \A f : \A p \in Nat :
    LET d == digitsOf[n]
    IN  (/\ Values(code, f) /\ f[p] = 0
         /\ p + Len(d) <= Len(code)
         /\ \A i \in 1..Len(d) : code[p + i] = d[i])
        => f[p + Len(d)] = n

\* decode() reads the digits of every number, by induction on the number.
LEMMA DigitsRead == \A n \in Nat : Reads(n)
  <1> DEFINE T == {n \in Nat : Reads(n)}
  <1>1. ASSUME NEW n \in Nat, \A k \in 0..(n - 1) : k \in T
        PROVE  n \in T
    <2> SUFFICES Reads(n)
      OBVIOUS
    <2>1. CASE n = 0
      BY <2>1, DigitsAre DEF Reads
    <2>2. CASE n > 0
      <3> DEFINE q == n \div BASE
                 r == n % BASE
      <3>1. q \in Nat /\ q \in 0..(n - 1) /\ r \in Nat /\ n = q * BASE + r
        BY <2>2, DivBase
      <3>2. digitsOf[n] = Append(digitsOf[q], r)
        BY <2>2, DigitsAre
      <3> HIDE DEF q, r
      <3>3. Reads(q)
        BY <1>1, <3>1
      <3> DEFINE d == digitsOf[n]
                 c == digitsOf[q]
      <3>4. c \in Seq(Nat) /\ d = Append(c, r) /\ Len(c) \in Nat
        BY <3>1, <3>2, DigitsAre, LenProperties
      <3> HIDE DEF c, d
      <3>5. Len(d) = Len(c) + 1 /\ d[Len(c) + 1] = r /\ \A i \in 1..Len(c) : d[i] = c[i]
        BY <3>1, <3>4, AppendProperties
      <3>6. ASSUME NEW code \in Seq(Nat), NEW f, NEW p \in Nat,
                   Values(code, f), f[p] = 0, p + Len(d) <= Len(code),
                   \A i \in 1..Len(d) : code[p + i] = d[i]
            PROVE  f[p + Len(d)] = n
        <4>0. Len(code) \in Nat
          BY LenProperties
        <4>1. p + Len(c) <= Len(code) /\ \A i \in 1..Len(c) : i \in 1..Len(d)
          BY <3>4, <3>5, <3>6, <4>0
        <4>2. \A i \in 1..Len(c) : code[p + i] = c[i]
          BY <3>5, <3>6, <4>1
        <4>3. f[p + Len(c)] = q
          BY <3>3, <3>6, <4>1, <4>2 DEF Reads, c
        <4>4. /\ p + Len(d) \in 1..Len(code) /\ p + Len(d) - 1 = p + Len(c)
              /\ Len(d) \in 1..Len(d) /\ Len(d) = Len(c) + 1
          BY <3>4, <3>5, <3>6, <4>0
        <4>5. code[p + Len(d)] = r
          BY <3>5, <3>6, <4>4
        <4>6. f[p + Len(d)] = f[p + Len(d) - 1] * BASE + code[p + Len(d)]
          BY <3>6, <4>4 DEF Values
        <4> QED BY <3>1, <4>3, <4>4, <4>5, <4>6
      <3> QED BY <3>6 DEF Reads, d
    <2> QED BY <2>1, <2>2
  <1> HIDE DEF T
  <1>2. \A n \in Nat : n \in T
    BY <1>1, Induction
  <1> QED BY <1>2 DEF T

\* encode(): zeros up to MIN_LENGTH, then the digits.
LEMMA EncodeIs ==
  ASSUME NEW n \in Nat
  PROVE  LET d == digitsOf[n]
             p == IF Len(d) < MIN_LENGTH THEN MIN_LENGTH - Len(d) ELSE 0
         IN  /\ p \in Nat /\ Len(d) \in Nat
             /\ Encode(n) \in Seq(Nat)
             /\ Len(Encode(n)) = p + Len(d)
             /\ \A i \in 1..p : Encode(n)[i] = 0
             /\ \A i \in 1..Len(d) : Encode(n)[p + i] = d[i]
  <1> DEFINE d == digitsOf[n]
             p == IF Len(d) < MIN_LENGTH THEN MIN_LENGTH - Len(d) ELSE 0
             z == [i \in 1..p |-> 0]
  <1>1. d \in Seq(Nat) /\ Len(d) \in Nat
    BY DigitsAre, LenProperties
  <1>2. Encode(n) = z \o d
    BY DEF Encode, Padding
  <1> HIDE DEF d
  <1>3. p \in Nat
    BY <1>1, BaseFacts
  <1> HIDE DEF p
  <1>4. z \in Seq(Nat) /\ Len(z) = p /\ \A i \in 1..p : z[i] = 0
    <2>1. z \in [1..p -> Nat] /\ \A i \in 1..p : z[i] = 0
      OBVIOUS
    <2> HIDE DEF z
    <2>2. z \in Seq(Nat)
      BY <1>3, <2>1, SeqDef
    <2>3. Len(z) \in Nat /\ 1..Len(z) = 1..p
      BY <2>1, <2>2, LenProperties
    <2>4. Len(z) = p
      BY <1>3, <2>3
    <2> QED BY <2>1, <2>2, <2>4
  <1> HIDE DEF z
  <1>5. /\ z \o d \in Seq(Nat)
        /\ Len(z \o d) = p + Len(d)
        /\ \A i \in 1..(p + Len(d)) : (z \o d)[i] = IF i <= p THEN z[i] ELSE d[i - p]
    BY <1>1, <1>4, ConcatProperties
  <1>6. \A i \in 1..p : (z \o d)[i] = 0
    BY <1>1, <1>3, <1>4, <1>5
  <1>7. ASSUME NEW i \in 1..Len(d) PROVE (z \o d)[p + i] = d[i]
    <2>1. PICK k : k = p + i
      OBVIOUS
    <2>2. k \in 1..(p + Len(d)) /\ ~(k <= p) /\ k - p = i
      BY <1>1, <1>3, <2>1
    <2>3. (z \o d)[k] = d[k - p]
      BY <1>5, <2>2
    <2> QED BY <2>1, <2>2, <2>3
  <1> QED BY <1>1, <1>2, <1>3, <1>5, <1>6, <1>7 DEF d, p

\* A number has more than m digits exactly from BASE to the m on.
LEMMA DigitsCount ==
  \A m \in Nat : \A n \in Nat : Len(digitsOf[n]) > m <=> n >= power[m]
  <1> DEFINE T == {m \in Nat : \A n \in Nat : Len(digitsOf[n]) > m <=> n >= power[m]}
  <1>1. \A n \in Nat : digitsOf[n] \in Seq(Nat) /\ Len(digitsOf[n]) \in Nat
    BY DigitsAre, LenProperties
  <1>2. Len(digitsOf[0]) = 0
    BY DigitsAre
  <1>3. ASSUME NEW n \in Nat, n > 0
        PROVE  Len(digitsOf[n]) = Len(digitsOf[n \div BASE]) + 1
    <2>1. PICK v \in Seq(Nat), r \in Nat : v = digitsOf[n \div BASE] /\ r = n % BASE
      BY <1>1, DivBase
    <2>2. Len(Append(v, r)) = Len(v) + 1
      BY AppendProperties
    <2> QED BY <1>3, <2>1, <2>2, DigitsAre
  <1>4. ASSUME NEW m \in Nat, \A k \in 0..(m - 1) : k \in T
        PROVE  m \in T
    <2> SUFFICES ASSUME NEW n \in Nat
                 PROVE  Len(digitsOf[n]) > m <=> n >= power[m]
      OBVIOUS
    <2>1. CASE m = 0
      <3>1. CASE n = 0
        BY <1>2, <2>1, <3>1, PowersAre
      <3>2. CASE n > 0
        <4>1. n \div BASE \in Nat
          BY DivBase
        <4>2. Len(digitsOf[n \div BASE]) \in Nat
          BY <1>1, <4>1
        <4>3. Len(digitsOf[n]) = Len(digitsOf[n \div BASE]) + 1
          BY <1>3, <3>2
        <4>4. Len(digitsOf[n]) > m
          <5> HIDE DEF BASE
          <5> QED BY <2>1, <4>2, <4>3
        <4>5. n >= power[m]
          BY <2>1, <3>2, PowersAre
        <4> QED BY <4>4, <4>5
      <3> QED BY <3>1, <3>2
    <2>2. CASE m > 0
      <3> DEFINE l == m - 1
      <3>1. l \in Nat /\ l \in 0..(m - 1) /\ m = l + 1
        BY <2>2
      <3>2. l \in T
        BY <1>4, <3>1
      <3> HIDE DEF l
      <3>3. power[l] \in Nat /\ power[m] = BASE * power[l] /\ power[m] \in Nat
        BY <3>1, PowersAre
      <3>4. CASE n = 0
        <4>1. ~(Len(digitsOf[0]) > l)
          BY <1>2, <3>1
        <4>2. ~(0 >= power[l])
          BY <3>2, <4>1
        <4>3. power[m] > 0
          BY <3>3, <4>2, BaseFacts
        <4>4. ~(Len(digitsOf[n]) > m)
          BY <1>2, <2>2, <3>4
        <4>5. ~(n >= power[m])
          BY <3>3, <3>4, <4>3
        <4> QED BY <4>4, <4>5
      <3>5. CASE n > 0
        <4> DEFINE q == n \div BASE
        <4>1. q \in Nat /\ (n >= BASE * power[l] <=> q >= power[l])
          BY <3>3, DivBase
        <4> HIDE DEF q
        <4>2. Len(digitsOf[q]) > l <=> q >= power[l]
          BY <3>2, <4>1
        <4>3. Len(digitsOf[n]) = Len(digitsOf[q]) + 1
          BY <1>3, <3>5 DEF q
        <4>4. Len(digitsOf[n]) > m <=> Len(digitsOf[q]) > l
          BY <1>1, <3>1, <4>1, <4>3
        <4> QED BY <3>3, <4>1, <4>2, <4>4
      <3> QED BY <3>4, <3>5
    <2> QED BY <2>1, <2>2
  <1> HIDE DEF T
  <1>5. \A m \in Nat : m \in T
    BY <1>4, Induction
  <1> QED BY <1>5 DEF T

-----------------------------------------------------------------------------
\* Every id can be read back from its code, and its code has MIN_LENGTH
\* characters until ids need more (encoder.py, encode() and decode(); the
\* "Capacity" of its docstring), for every alphabet.
THEOREM EncoderExact == \A id \in Nat : RoundTrips(id)
  <1> SUFFICES ASSUME NEW id \in Nat PROVE RoundTrips(id)
    OBVIOUS
  <1> DEFINE d == digitsOf[id]
             p == IF Len(d) < MIN_LENGTH THEN MIN_LENGTH - Len(d) ELSE 0
             code == Encode(id)
  <1>1. /\ p \in Nat /\ Len(d) \in Nat
        /\ code \in Seq(Nat)
        /\ Len(code) = p + Len(d)
        /\ \A i \in 1..p : code[i] = 0
        /\ \A i \in 1..Len(d) : code[p + i] = d[i]
    BY EncodeIs
  <1>2. PICK f : Values(code, f) /\ Decode(code) = f[Len(code)]
    BY <1>1, DecodeIs
  <1>3. Len(d) > MIN_LENGTH <=> id >= power[MIN_LENGTH]
    BY BaseFacts, DigitsCount
  <1> HIDE DEF code
  <1>4. Len(code) >= MIN_LENGTH /\ (Len(code) > MIN_LENGTH <=> Len(d) > MIN_LENGTH)
    <2> HIDE DEF d
    <2> QED BY <1>1, BaseFacts
  <1>5. f[p] = 0
    <2> HIDE DEF p
    <2>1. p \in 0..Len(code)
      BY <1>1
    <2> QED BY <1>1, <1>2, <2>1, LeadingZeros
  <1>6. f[p + Len(d)] = id
    <2> HIDE DEF p
    <2>1. PICK e : e = d
      OBVIOUS
    <2>2. /\ code \in Seq(Nat) /\ p \in Nat /\ Values(code, f) /\ f[p] = 0
          /\ p + Len(e) <= Len(code) /\ \A i \in 1..Len(e) : code[p + i] = e[i]
      BY <1>1, <1>2, <1>5, <2>1
    <2>3. Reads(id)
      BY DigitsRead
    <2>4. \A c \in Seq(Nat) : \A g : \A k \in Nat :
            (/\ Values(c, g) /\ g[k] = 0 /\ k + Len(e) <= Len(c)
             /\ \A i \in 1..Len(e) : c[k + i] = e[i])
            => g[k + Len(e)] = id
      BY <2>1, <2>3 DEF Reads
    <2>5. f[p + Len(e)] = id
      <3> HIDE DEF d
      <3> QED BY <2>2, <2>4
    <2> QED BY <2>1, <2>5
  <1> QED BY <1>1, <1>2, <1>3, <1>4, <1>6 DEF RoundTrips, code

\* Different ids have different codes ("guaranteed uniqueness", encoder.py,
\* module docstring): no collision-resolution is needed as long as codes are
\* compared character by character.
THEOREM EncodeInjective ==
  \A i, j \in Nat : Encode(i) = Encode(j) => i = j
  <1> SUFFICES ASSUME NEW i \in Nat, NEW j \in Nat, Encode(i) = Encode(j)
               PROVE  i = j
    OBVIOUS
  <1>1. Decode(Encode(i)) = i /\ Decode(Encode(j)) = j
    BY EncoderExact DEF RoundTrips
  <1> QED BY <1>1

\* The code of a number of one digit: zeros up to the width, then that digit.
LEMMA OneDigit ==
  ASSUME NEW n \in 1..(BASE - 1)
  PROVE  LET p == IF 1 < MIN_LENGTH THEN MIN_LENGTH - 1 ELSE 0
         IN  /\ p \in Nat /\ Encode(n) \in Seq(Nat) /\ Len(Encode(n)) = p + 1
             /\ \A i \in 1..p : Encode(n)[i] = 0
             /\ Encode(n)[p + 1] = n
  <1>1. n \in Nat /\ n > 0 /\ n < BASE
    BY BaseFacts
  <1>2. n \div BASE = 0 /\ n % BASE = n
    <2>1. ~(n \div BASE >= 1)
      BY <1>1, DivBase, BaseFacts
    <2>2. n \div BASE = 0
      BY <1>1, <2>1, DivBase
    <2>3. n = 0 * BASE + (n % BASE) /\ n % BASE \in Nat
      BY <1>1, <2>2, DivBase
    <2> QED BY <2>2, <2>3, BaseFacts
  <1>3. digitsOf[n] = Append(<< >>, n)
    BY <1>1, <1>2, DigitsAre
  <1>4. PICK d : d = digitsOf[n]
    OBVIOUS
  <1>5. Len(d) = 1 /\ d[1] = n
    BY <1>1, <1>3, <1>4
  <1> DEFINE p == IF Len(d) < MIN_LENGTH THEN MIN_LENGTH - Len(d) ELSE 0
  <1>6. /\ p \in Nat /\ Encode(n) \in Seq(Nat) /\ Len(Encode(n)) = p + Len(d)
        /\ \A i \in 1..p : Encode(n)[i] = 0
        /\ \A i \in 1..Len(d) : Encode(n)[p + i] = d[i]
    BY <1>1, <1>4, EncodeIs
  <1> QED BY <1>5, <1>6

\* What makes CodeCollisionFree false is in every alphabet with letters: an id
\* that is one capital letter has another code than the id that is the small
\* one, but the same as the column's collation compares (10 and 36 in
\* encoder.py's alphabet; models.py, short_code).
THEOREM LettersCollide ==
  \A id \in Digits..(Digits + Letters - 1) :
    /\ Encode(id) # Encode(id + Letters)
    /\ SameCode(Encode(id), Encode(id + Letters))
  <1> SUFFICES ASSUME NEW a \in Digits..(Digits + Letters - 1)
               PROVE  /\ Encode(a) # Encode(a + Letters)
                      /\ SameCode(Encode(a), Encode(a + Letters))
    OBVIOUS
  <1>1. PICK b : b = a + Letters
    OBVIOUS
  <1>2. /\ a \in 1..(BASE - 1) /\ b \in 1..(BASE - 1) /\ a # b
        /\ ~(a >= Digits + Letters) /\ b >= Digits + Letters /\ b - Letters = a
        /\ ~(0 >= Digits + Letters)
    BY <1>1, AlphabetAssumption DEF BASE
  <1>3. PICK p \in Nat, c, d \in Seq(Nat) :
          /\ c = Encode(a) /\ Len(c) = p + 1 /\ c[p + 1] = a
          /\ d = Encode(b) /\ Len(d) = p + 1 /\ d[p + 1] = b
          /\ \A i \in 1..p : c[i] = 0 /\ d[i] = 0
    <2> DEFINE p == IF 1 < MIN_LENGTH THEN MIN_LENGTH - 1 ELSE 0
    <2>1. /\ p \in Nat /\ Encode(a) \in Seq(Nat) /\ Len(Encode(a)) = p + 1
          /\ \A i \in 1..p : Encode(a)[i] = 0
          /\ Encode(a)[p + 1] = a
      BY <1>2, OneDigit
    <2>2. /\ Encode(b) \in Seq(Nat) /\ Len(Encode(b)) = p + 1
          /\ \A i \in 1..p : Encode(b)[i] = 0
          /\ Encode(b)[p + 1] = b
      BY <1>2, OneDigit
    <2> HIDE DEF p
    <2> QED BY <2>1, <2>2
  <1>4. DOMAIN c = 1..(p + 1) /\ DOMAIN d = 1..(p + 1)
    BY <1>3, LenProperties
  <1>5. ASSUME NEW i \in 1..(p + 1)
        PROVE  (IF c[i] >= Digits + Letters THEN c[i] - Letters ELSE c[i])
               = (IF d[i] >= Digits + Letters THEN d[i] - Letters ELSE d[i])
    <2>1. CASE i = p + 1
      BY <1>2, <1>3, <2>1
    <2>2. CASE i # p + 1
      <3>1. i \in 1..p
        BY <2>2
      <3> QED BY <1>2, <1>3, <3>1
    <2> QED BY <2>1, <2>2
  <1>6. Collate(c) = Collate(d)
    BY <1>4, <1>5 DEF Collate
  <1>7. c # d
    BY <1>2, <1>3
  <1> QED BY <1>1, <1>3, <1>6, <1>7 DEF SameCode

\* POST /shorten: the ids the table is about to hand out round-trip, in every
\* state (crud.py, create_url() encodes the id it was given).
THEOREM ShortenRoundTrip == ShortenSpec => []EncoderRoundTrip
  <1>1. ShortenTypeOK => EncoderRoundTrip
    <2> SUFFICES ASSUME ShortenTypeOK, NEW id \in NextIds PROVE RoundTrips(id)
      BY DEF EncoderRoundTrip
    <2>1. next_id \in Nat
      BY StoreAssumption DEF ShortenTypeOK
    <2>2. id \in Nat
      BY <2>1 DEF NextIds
    <2> QED BY <2>2, EncoderExact
  <1> QED BY <1>1, ShortenTypeCorrect, PTL
=============================================================================
