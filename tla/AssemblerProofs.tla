-------------------------- MODULE AssemblerProofs --------------------------
(***************************************************************************)
(* The assembler, for every text, every set of labels and every base: the  *)
(* words it leaves spell its instructions, and labels and li resolve.      *)
(* First the two's complement arithmetic the encodings rest on: the bits   *)
(* of an integer, the number a sequence of bits is, fields of a word and   *)
(* the immediates both decoders read.  Then what each builder of isa.py    *)
(* spells, and last the two passes, with their inductive invariant         *)
(* Assembling.                                                             *)
(***************************************************************************)
EXTENDS AssemblerProperties, SequenceTheorems, WellFoundedInduction, TLAPS

-----------------------------------------------------------------------------
(* Induction and recursion, over sets of numbers and functions *)

\* A set of naturals with 0 and the successor of each of its members is Nat.
LEMMA Induction ==
    ASSUME NEW S, 0 \in S, \A n \in Nat : n \in S => n + 1 \in S
    PROVE  Nat \subseteq S
<1> SUFFICES ASSUME NEW n \in Nat \ S PROVE FALSE
  OBVIOUS
<1> DEFINE R == {ss \in Nat \X Nat : ss[1] < ss[2]}
<1>1. IsWellFoundedOn(R, Nat)
  BY NatLessThanWellFounded DEF OpToRel
<1>2. Nat \ S \subseteq Nat /\ Nat \ S # {}
  OBVIOUS
<1>3. \E x \in Nat \ S : \A y \in Nat \ S : <<y, x>> \notin R
  <2> HIDE DEF R
  <2> QED BY <1>1, <1>2, WFMin
<1>4. PICK x \in Nat \ S : \A y \in Nat \ S : <<y, x>> \notin R
  BY <1>3
<1>5. x - 1 \in Nat
  BY <1>4
<1>6. x - 1 \in S
  <2> SUFFICES ASSUME x - 1 \notin S PROVE FALSE
    OBVIOUS
  <2>1. <<x - 1, x>> \in R
    BY <1>4, <1>5
  <2> QED BY <1>4, <1>5, <2>1
<1> QED BY <1>4, <1>5, <1>6

\* A recursion of m steps over the integers defines a function.
LEMMA Recursion ==
    ASSUME NEW m \in Nat, NEW base \in Int, NEW step \in [(1 .. m) \X Int -> Int]
    PROVE  \E g \in [0 .. m -> Int] :
              g[0] = base /\ \A n \in 1 .. m : g[n] = step[<<n, g[n - 1]>>]
<1> DEFINE Upto(k, g) == g[0] = base /\ \A n \in 1 .. k : g[n] = step[<<n, g[n - 1]>>]
           S == {k \in Nat : k <= m => \E g \in [0 .. k -> Int] : Upto(k, g)}
<1>1. 0 \in S
  <2>1. [n \in 0 .. 0 |-> base] \in [0 .. 0 -> Int] /\ Upto(0, [n \in 0 .. 0 |-> base])
    OBVIOUS
  <2> QED BY <2>1
<1>2. ASSUME NEW k \in Nat, k \in S PROVE k + 1 \in S
  <2> SUFFICES ASSUME k + 1 <= m
               PROVE  \E g \in [0 .. k + 1 -> Int] : Upto(k + 1, g)
    OBVIOUS
  <2>1. PICK g \in [0 .. k -> Int] : Upto(k, g)
    BY <1>2
  <2>2. step[<<k + 1, g[k]>>] \in Int
    BY <2>1
  <2> DEFINE h == [n \in 0 .. k + 1 |-> IF n = k + 1 THEN step[<<k + 1, g[k]>>] ELSE g[n]]
  <2>3. h \in [0 .. k + 1 -> Int]
    BY <2>1, <2>2
  <2>4. \A n \in 0 .. k : h[n] = g[n]
    OBVIOUS
  <2>5. h[k] = g[k] /\ h[k + 1] = step[<<k + 1, g[k]>>] /\ (k + 1) - 1 = k
    BY <2>4
  <2>6. \A n \in 1 .. k : h[n] = step[<<n, h[n - 1]>>]
    BY <2>1, <2>4
  <2>7. h[0] = base
    BY <2>1, <2>4
  <2>8. \A n \in 1 .. k + 1 : n \in 1 .. k \/ n = k + 1
    OBVIOUS
  <2> HIDE DEF h
  <2>9. \A n \in 1 .. k + 1 : h[n] = step[<<n, h[n - 1]>>]
    <3> SUFFICES ASSUME NEW n \in 1 .. k + 1 PROVE h[n] = step[<<n, h[n - 1]>>]
      OBVIOUS
    <3>1. CASE n \in 1 .. k
      BY <3>1, <2>6
    <3>2. CASE n = k + 1
      BY <3>2, <2>5
    <3> QED BY <3>1, <3>2, <2>8
  <2> QED BY <2>3, <2>7, <2>9
<1>3. m \in S
  <2> HIDE DEF S
  <2> QED BY <1>1, <1>2, Induction
<1> QED BY <1>3

-----------------------------------------------------------------------------
(* Powers of two *)

\* 2^i by its exponent: the provers know powers of literals only.
Pow == [i \in 0 .. 31 |-> 2^i]

LEMMA PowStep ==
    /\ Pow[0] = 1
    /\ \A i \in 0 .. 30 : Pow[i] \in Nat \ {0} /\ Pow[i + 1] = 2 * Pow[i]
<1>0. Pow[0] = 1
  BY DEF Pow
<1> SUFFICES ASSUME NEW i \in 0 .. 30
             PROVE  Pow[i] \in Nat \ {0} /\ Pow[i + 1] = 2 * Pow[i]
  BY <1>0
<1>1. CASE i = 0 BY <1>1 DEF Pow
<1>2. CASE i = 1 BY <1>2 DEF Pow
<1>3. CASE i = 2 BY <1>3 DEF Pow
<1>4. CASE i = 3 BY <1>4 DEF Pow
<1>5. CASE i = 4 BY <1>5 DEF Pow
<1>6. CASE i = 5 BY <1>6 DEF Pow
<1>7. CASE i = 6 BY <1>7 DEF Pow
<1>8. CASE i = 7 BY <1>8 DEF Pow
<1>9. CASE i = 8 BY <1>9 DEF Pow
<1>10. CASE i = 9 BY <1>10 DEF Pow
<1>11. CASE i = 10 BY <1>11 DEF Pow
<1>12. CASE i = 11 BY <1>12 DEF Pow
<1>13. CASE i = 12 BY <1>13 DEF Pow
<1>14. CASE i = 13 BY <1>14 DEF Pow
<1>15. CASE i = 14 BY <1>15 DEF Pow
<1>16. CASE i = 15 BY <1>16 DEF Pow
<1>17. CASE i = 16 BY <1>17 DEF Pow
<1>18. CASE i = 17 BY <1>18 DEF Pow
<1>19. CASE i = 18 BY <1>19 DEF Pow
<1>20. CASE i = 19 BY <1>20 DEF Pow
<1>21. CASE i = 20 BY <1>21 DEF Pow
<1>22. CASE i = 21 BY <1>22 DEF Pow
<1>23. CASE i = 22 BY <1>23 DEF Pow
<1>24. CASE i = 23 BY <1>24 DEF Pow
<1>25. CASE i = 24 BY <1>25 DEF Pow
<1>26. CASE i = 25 BY <1>26 DEF Pow
<1>27. CASE i = 26 BY <1>27 DEF Pow
<1>28. CASE i = 27 BY <1>28 DEF Pow
<1>29. CASE i = 28 BY <1>29 DEF Pow
<1>30. CASE i = 29 BY <1>30 DEF Pow
<1>31. CASE i = 30 BY <1>31 DEF Pow
<1> QED BY <1>1, <1>2, <1>3, <1>4, <1>5, <1>6, <1>7, <1>8, <1>9, <1>10, <1>11, <1>12, <1>13, <1>14, <1>15, <1>16, <1>17, <1>18, <1>19, <1>20, <1>21, <1>22, <1>23, <1>24, <1>25, <1>26, <1>27, <1>28, <1>29, <1>30, <1>31

LEMMA PowType == Pow \in [0 .. 31 -> Nat \ {0}]
<1>1. \A i \in 0 .. 31 : i \in 0 .. 30 \/ (i - 1 \in 0 .. 30 /\ i = (i - 1) + 1)
  OBVIOUS
<1>2. \A i \in 0 .. 31 : Pow[i] \in Nat \ {0}
  BY <1>1, PowStep
<1> QED BY <1>2 DEF Pow

LEMMA PowSum ==
    \A a, b \in 0 .. 31 : a + b <= 31 => Pow[a + b] = Pow[a] * Pow[b]
<1> SUFFICES ASSUME NEW a \in 0 .. 31
             PROVE  \A b \in 0 .. 31 : a + b <= 31 => Pow[a + b] = Pow[a] * Pow[b]
  OBVIOUS
<1> DEFINE S == {b \in Nat : a + b <= 31 => Pow[a + b] = Pow[a] * Pow[b]}
<1>1. 0 \in S
  BY PowStep, PowType
<1>2. ASSUME NEW b \in Nat, b \in S PROVE b + 1 \in S
  <2> SUFFICES ASSUME a + (b + 1) <= 31 PROVE Pow[a + (b + 1)] = Pow[a] * Pow[b + 1]
    OBVIOUS
  <2>1. a + b \in 0 .. 30 /\ b \in 0 .. 30 /\ a + (b + 1) = (a + b) + 1
    OBVIOUS
  <2>2. Pow[a + (b + 1)] = 2 * Pow[a + b] /\ Pow[b + 1] = 2 * Pow[b]
    BY <2>1, PowStep
  <2>3. Pow[a + b] = Pow[a] * Pow[b]
    BY <1>2, <2>1
  <2>4. Pow[a] \in Nat /\ Pow[b] \in Nat
    BY <2>1, PowType
  <2>5. \A x, y \in Nat : 2 * (x * y) = x * (2 * y)
    OBVIOUS
  <2> QED BY <2>2, <2>3, <2>4, <2>5
<1>3. Nat \subseteq S
  <2> HIDE DEF S
  <2> QED BY <1>1, <1>2, Induction
<1> QED BY <1>3

-----------------------------------------------------------------------------
(* Halving: the bits of an integer, one after the other *)

\* A quotient and a remainder are the only ones.
LEMMA Quotient ==
    ASSUME NEW m \in Nat \ {0}, NEW q \in Int, NEW r \in 0 .. m - 1, NEW x, x = m * q + r
    PROVE  x \in Int /\ x \div m = q /\ x % m = r
<1> DEFINE c == x \div m
           z == x % m
<1>1. x \in Int /\ c \in Int /\ z \in 0 .. m - 1 /\ x = m * c + z
  OBVIOUS
<1> HIDE DEF c, z
<1>2. m * (c - q) = m * c - m * q /\ m * c \in Int /\ m * q \in Int
  BY <1>1
<1>3. m * (c - q) \in (1 - m) .. (m - 1)
  BY <1>1, <1>2
<1>4. ~(c - q >= 1)
  <2> SUFFICES ASSUME c - q >= 1 PROVE FALSE
    OBVIOUS
  <2>1. m * (c - q) >= m * 1
    BY <1>1
  <2> QED BY <1>3, <2>1
<1>5. ~(c - q <= -1)
  <2> SUFFICES ASSUME c - q <= -1 PROVE FALSE
    OBVIOUS
  <2>1. m * (c - q) <= m * (-1)
    BY <1>1
  <2> QED BY <1>3, <2>1
<1>6. c = q
  BY <1>1, <1>4, <1>5
<1> QED BY <1>1, <1>2, <1>6 DEF c, z

\* The part of an integer above its i low bits.
Above(n, i) == n \div Pow[i]

LEMMA Divide ==
    ASSUME NEW n \in Int, NEW p \in Nat \ {0}
    PROVE  n \div p \in Int /\ n % p \in 0 .. p - 1 /\ n = p * (n \div p) + (n % p)
  OBVIOUS

LEMMA Halve ==
    ASSUME NEW n \in Int
    PROVE  /\ Above(n, 0) = n
           /\ \A i \in 0 .. 31 : Above(n, i) \in Int
           /\ \A i \in 0 .. 30 : Above(n, i + 1) = Above(n, i) \div 2
<1>1. Above(n, 0) = n
  BY PowStep DEF Above
<1>2. \A i \in 0 .. 31 : Above(n, i) \in Int
  BY PowType DEF Above
<1>3. ASSUME NEW i \in 0 .. 30 PROVE Above(n, i + 1) = Above(n, i) \div 2
  <2> PICK p \in Nat \ {0} : p = Pow[i] /\ Pow[i + 1] = 2 * p
    BY PowStep
  <2> DEFINE c == n \div p
             r == n % p
  <2>1. c \in Int /\ r \in 0 .. p - 1 /\ n = p * c + r
    BY Divide
  <2> HIDE DEF c, r
  <2> DEFINE d == c \div 2
             b == c % 2
  <2>2. d \in Int /\ b \in {0, 1} /\ c = 2 * d + b
    BY <2>1
  <2> HIDE DEF d, b
  <2>3. p * c = (2 * p) * d + p * b
    <3>1. \A x, y, z \in Int : x * (2 * y + z) = (2 * x) * y + x * z
      OBVIOUS
    <3>0. p \in Int /\ d \in Int /\ b \in Int
      BY <2>2
    <3>2. p * (2 * d + b) = (2 * p) * d + p * b
      BY ONLY <3>0, <3>1
    <3> QED BY <2>2, <3>2
  <2>4. p * b + r \in 0 .. 2 * p - 1
    BY <2>1, <2>2
  <2>5. n = (2 * p) * d + (p * b + r)
    BY <2>1, <2>2, <2>3
  <2>6. 2 * p \in Nat \ {0}
    OBVIOUS
  <2> DEFINE r2 == p * b + r
             p2 == 2 * p
  <2>7. r2 \in 0 .. p2 - 1 /\ n = p2 * d + r2 /\ p2 \in Nat \ {0}
    BY <2>4, <2>5, <2>6
  <2> HIDE DEF r2, p2
  <2>8. n \div p2 = d
    <3>1. d \in Int
      BY <2>2
    <3> QED BY ONLY <2>7, <3>1, Quotient
  <2> QED BY <2>8 DEF Above, d, c, p2
<1> QED BY <1>1, <1>2, <1>3

LEMMA AboveType == \A n \in Int, i \in 0 .. 31 : Above(n, i) \in Int
  BY Halve

\* A step of an induction over the positions from 0 to m.
LEMMA Positions ==
    ASSUME NEW m \in Nat, NEW S, 0 \in S,
           \A i \in 0 .. m - 1 : i \in S => i + 1 \in S
    PROVE  0 .. m \subseteq S
<1> DEFINE T == {i \in Nat : i <= m => i \in S}
<1>1. 0 \in T
  OBVIOUS
<1>2. \A i \in Nat : i \in T => i + 1 \in T
  OBVIOUS
<1>3. Nat \subseteq T
  <2> HIDE DEF T
  <2> QED BY <1>1, <1>2, Induction
<1> QED BY <1>3

\* The parts of a number of m bits, or of the negative of one.
LEMMA AboveRange ==
    ASSUME NEW m \in 0 .. 30, NEW n \in -Pow[m] .. Pow[m] - 1
    PROVE  \A i \in m .. 31 : Above(n, i) = IF n < 0 THEN -1 ELSE 0
<1>0. Pow[m] \in Nat \ {0} /\ m - 0 = m
  BY PowType
<1>h. /\ n \in Int /\ Above(n, 0) = n
      /\ \A i \in 0 .. 31 : Above(n, i) \in Int
      /\ \A i \in 0 .. 30 : Above(n, i + 1) = Above(n, i) \div 2
  <2>1. n \in Int
    BY <1>0
  <2> QED BY <2>1, Halve
<1> DEFINE Ranged(i) == IF n < 0 THEN Above(n, i) \in -Pow[m - i] .. -1
                                ELSE Above(n, i) \in 0 .. Pow[m - i] - 1
           S == {i \in 0 .. m : Ranged(i)}
<1>1. 0 \in S
  BY <1>0, <1>h
<1>2. ASSUME NEW i \in 0 .. m - 1, i \in S PROVE i + 1 \in S
  <2>1. i \in 0 .. 30 /\ (m - (i + 1)) \in 0 .. 30 /\ (m - (i + 1)) + 1 = m - i
    OBVIOUS
  <2>2. Pow[m - i] = 2 * Pow[m - (i + 1)] /\ Pow[m - (i + 1)] \in Nat \ {0}
    BY <2>1, PowStep
  <2>3. Above(n, i) \in Int /\ Above(n, i + 1) = Above(n, i) \div 2
    BY <1>h, <2>1
  <2>4. Ranged(i)
    BY <1>2
  <2>5. Ranged(i + 1)
    BY <2>2, <2>3, <2>4
  <2> QED BY <2>5
<1>3. m \in S
  <2> HIDE DEF S
  <2> QED BY <1>1, <1>2, Positions
<1>4. Above(n, m) = IF n < 0 THEN -1 ELSE 0
  BY <1>0, <1>3, PowStep
<1> DEFINE U == {k \in 0 .. 31 - m : Above(n, m + k) = IF n < 0 THEN -1 ELSE 0}
<1>5. 0 \in U
  BY <1>4
<1>6. ASSUME NEW k \in 0 .. (31 - m) - 1, k \in U PROVE k + 1 \in U
  <2>1. m + k \in 0 .. 30 /\ m + (k + 1) = (m + k) + 1
    OBVIOUS
  <2>2. Above(n, m + (k + 1)) = Above(n, m + k) \div 2
    BY <1>h, <2>1
  <2> QED BY <1>6, <2>2
<1>7. 0 .. 31 - m \subseteq U
  <2> HIDE DEF U
  <2> QED BY <1>5, <1>6, Positions
<1> QED
  <2> SUFFICES ASSUME NEW i \in m .. 31 PROVE Above(n, i) = IF n < 0 THEN -1 ELSE 0
    OBVIOUS
  <2>1. i - m \in U /\ m + (i - m) = i
    BY <1>7
  <2> QED BY <2>1

\* Dropping a bits and then b more.
LEMMA AboveAbove ==
    ASSUME NEW n \in Int, NEW a \in 0 .. 31
    PROVE  \A b \in 0 .. 31 - a : Above(Above(n, a), b) = Above(n, a + b)
<1> DEFINE S == {b \in 0 .. 31 - a : Above(Above(n, a), b) = Above(n, a + b)}
<1>0. Above(n, a) \in Int
  BY Halve
<1>1. 0 \in S
  BY <1>0, Halve
<1>2. ASSUME NEW b \in 0 .. (31 - a) - 1, b \in S PROVE b + 1 \in S
  <2>1. b \in 0 .. 30 /\ a + b \in 0 .. 30 /\ a + (b + 1) = (a + b) + 1
    OBVIOUS
  <2>2. Above(n, a + (b + 1)) = Above(n, a + b) \div 2
    BY <2>1, Halve
  <2>3. Above(Above(n, a), b + 1) = Above(Above(n, a), b) \div 2
    BY <1>0, <2>1, Halve
  <2> QED BY <1>2, <2>1, <2>2, <2>3
<1>3. 0 .. 31 - a \subseteq S
  <2> HIDE DEF S
  <2> QED BY <1>1, <1>2, Positions
<1> QED BY <1>3

\* The bits below position m are those of the remainder.
LEMMA AboveRemainder ==
    ASSUME NEW n \in Int, NEW m \in 0 .. 30
    PROVE  \A i \in 0 .. m - 1 : Above(n % Pow[m], i) % 2 = Above(n, i) % 2
<1> PICK q \in Int, r \in Int : r = n % Pow[m] /\ n = Pow[m] * q + r
  <2>1. PICK p \in Nat \ {0} : p = Pow[m]
    BY PowType
  <2>2. n \div p \in Int /\ n % p \in Int /\ n = p * (n \div p) + (n % p)
    BY Divide
  <2> QED BY <2>1, <2>2
<1> DEFINE S == {i \in 0 .. m : Above(n, i) = Pow[m - i] * q + Above(r, i)}
<1>1. 0 \in S
  <2>1. m - 0 = m
    OBVIOUS
  <2> QED BY <2>1, Halve
<1>2. ASSUME NEW i \in 0 .. m - 1
      PROVE  \E x \in Int : /\ Pow[m - i] * q = 2 * x
                             /\ Pow[m - (i + 1)] * q = x
  <2>1. (m - (i + 1)) \in 0 .. 30 /\ (m - (i + 1)) + 1 = m - i
    OBVIOUS
  <2>2. PICK p \in Nat : p = Pow[m - (i + 1)] /\ Pow[m - i] = 2 * p
    BY <2>1, PowStep
  <2>3. p * q \in Int /\ (2 * p) * q = 2 * (p * q)
    OBVIOUS
  <2> QED BY <2>2, <2>3
<1>3. ASSUME NEW i \in 0 .. m - 1, i \in S PROVE i + 1 \in S
  <2>1. PICK x \in Int : Pow[m - i] * q = 2 * x /\ Pow[m - (i + 1)] * q = x
    BY <1>2
  <2>2. i \in 0 .. 30 /\ i \in 0 .. 31
    OBVIOUS
  <2>3. Above(n, i + 1) = Above(n, i) \div 2 /\ Above(r, i + 1) = Above(r, i) \div 2
        /\ Above(r, i) \in Int
    BY <2>2, Halve
  <2>4. Above(n, i) = 2 * x + Above(r, i)
    BY <1>3, <2>1
  <2>5. Above(n, i + 1) = x + Above(r, i + 1)
    BY <2>3, <2>4
  <2> QED BY <2>1, <2>5
<1>4. 0 .. m \subseteq S
  <2> HIDE DEF S
  <2> QED BY <1>1, <1>3, Positions
<1> QED
  <2> SUFFICES ASSUME NEW i \in 0 .. m - 1 PROVE Above(r, i) % 2 = Above(n, i) % 2
    OBVIOUS
  <2>1. PICK x \in Int : Pow[m - i] * q = 2 * x
    BY <1>2
  <2>2. i \in 0 .. 31 /\ i \in 0 .. m
    OBVIOUS
  <2>3. Above(r, i) \in Int
    BY <2>2, AboveType
  <2>4. Above(n, i) = 2 * x + Above(r, i)
    BY <1>4, <2>1, <2>2
  <2> QED BY <2>3, <2>4

-----------------------------------------------------------------------------
(* Words and their bits *)

LEMMA BitOf == \A n \in Int, i \in 0 .. 30 : ToBits(n)[i] = Above(n, i) % 2
<1> SUFFICES ASSUME NEW n \in Int, NEW i \in 0 .. 30
             PROVE  ToBits(n)[i] = Above(n, i) % 2
  OBVIOUS
<1>1. Pow[i] = 2^i
  BY DEF Pow
<1>2. i \in Bits /\ i # 31
  BY DEF Bits
<1>3. ToBits(n)[i] = (n \div 2^i) % 2
  BY <1>2, Zenon DEF ToBits
<1> QED BY <1>1, <1>3, Zenon DEF Above

LEMMA WordOf == \A n \in Int : ToBits(n) \in InstWord
<1> SUFFICES ASSUME NEW n \in Int, NEW i \in Bits PROVE ToBits(n)[i] \in {0, 1}
  BY DEF ToBits, InstWord
<1>1. CASE i = 31
  BY <1>1 DEF ToBits
<1>2. CASE i \in 0 .. 30
  <2>0. i \in 0 .. 31
    BY <1>2
  <2>1. Above(n, i) \in Int
    BY <2>0, AboveType
  <2> QED BY <1>2, <2>1, BitOf
<1> QED BY <1>1, <1>2 DEF Bits

\* A number of m bits, or the negative of one, repeats its sign above them.
LEMMA BitsSmall ==
    ASSUME NEW m \in 0 .. 30, NEW n \in -Pow[m] .. Pow[m] - 1
    PROVE  \A i \in m .. 31 : ToBits(n)[i] = IF n < 0 THEN 1 ELSE 0
<1> SUFFICES ASSUME NEW i \in m .. 31 PROVE ToBits(n)[i] = IF n < 0 THEN 1 ELSE 0
  OBVIOUS
<1>0. n \in Int
  BY PowType
<1>1. CASE i = 31
  BY <1>1 DEF ToBits, Bits
<1>2. CASE i \in 0 .. 30
  <2>1. Above(n, i) = IF n < 0 THEN -1 ELSE 0
    BY AboveRange
  <2> QED BY <1>0, <1>2, <2>1, BitOf
<1> QED BY <1>1, <1>2

\* The remainder by a power of two keeps the low bits and clears the others.
LEMMA BitsLow ==
    ASSUME NEW n \in Int, NEW m \in 0 .. 30
    PROVE  /\ n % Pow[m] \in 0 .. Pow[m] - 1
           /\ \A i \in Bits : ToBits(n % Pow[m])[i] = IF i < m THEN ToBits(n)[i] ELSE 0
<1>1. PICK r \in 0 .. Pow[m] - 1 : r = n % Pow[m]
  <2>1. PICK p \in Nat \ {0} : p = Pow[m]
    BY PowType
  <2> QED BY <2>1, Divide
<1>2. r \in Int /\ r \in -Pow[m] .. Pow[m] - 1 /\ ~(r < 0)
  BY PowType
<1>3. ASSUME NEW i \in Bits, i < m PROVE ToBits(r)[i] = ToBits(n)[i]
  <2>1. i \in 0 .. 30 /\ i \in 0 .. m - 1
    BY <1>3 DEF Bits
  <2>2. Above(r, i) % 2 = Above(n, i) % 2
    BY <1>1, <2>1, AboveRemainder
  <2> QED BY <1>2, <2>1, <2>2, BitOf
<1>4. ASSUME NEW i \in Bits, ~(i < m) PROVE ToBits(r)[i] = 0
  <2>1. i \in m .. 31
    BY <1>4 DEF Bits
  <2> QED BY <1>2, <2>1, BitsSmall
<1> QED BY <1>1, <1>3, <1>4

\* A quotient by a power of two drops the low bits.
LEMMA BitsShifted ==
    ASSUME NEW n \in Int, NEW a \in 0 .. 30
    PROVE  \A b \in 0 .. 30 - a : ToBits(n \div Pow[a])[b] = ToBits(n)[a + b]
<1> SUFFICES ASSUME NEW b \in 0 .. 30 - a
             PROVE  ToBits(Above(n, a))[b] = ToBits(n)[a + b]
  BY DEF Above
<1>1. a \in 0 .. 31 /\ b \in 0 .. 31 - a /\ b \in 0 .. 30 /\ a + b \in 0 .. 30
  OBVIOUS
<1>2. Above(n, a) \in Int
  BY <1>1, Halve
<1>3. Above(Above(n, a), b) = Above(n, a + b)
  BY ONLY n \in Int, <1>1, AboveAbove
<1>4. ToBits(Above(n, a))[b] = Above(Above(n, a), b) % 2
  BY ONLY <1>1, <1>2, BitOf
<1>5. ToBits(n)[a + b] = Above(n, a + b) % 2
  BY ONLY n \in Int, <1>1, BitOf
<1> QED BY <1>3, <1>4, <1>5

-----------------------------------------------------------------------------
(* The number a sequence of bits is *)

\* g[k] is the number that the first k of the m bits of s are.
Reading(m, s, g) ==
    /\ g[0] = 0
    /\ \A k \in 1 .. m : g[k] = 2 * g[k - 1] + s[k]
    /\ Number(s) = g[m]

LEMMA NumberSteps ==
    ASSUME NEW m \in Nat, NEW s \in [1 .. m -> Int]
    PROVE  \E g \in [0 .. m -> Int] : Reading(m, s, g)
<1> DEFINE step == [p \in (1 .. m) \X Int |-> 2 * p[2] + s[p[1]]]
           Steps(g) == g = [n \in 0 .. m |-> IF n = 0 THEN 0 ELSE 2 * g[n - 1] + s[n]]
<1>1. \A n \in 1 .. m : s[n] \in Int
  OBVIOUS
<1>2. step \in [(1 .. m) \X Int -> Int]
  BY <1>1
<1>3. PICK g \in [0 .. m -> Int] :
          g[0] = 0 /\ \A n \in 1 .. m : g[n] = step[<<n, g[n - 1]>>]
  <2> HIDE DEF step
  <2>1. 0 \in Int
    OBVIOUS
  <2> QED BY ONLY m \in Nat, <1>2, <2>1, Recursion
<1>4. ASSUME NEW n \in 1 .. m PROVE g[n - 1] \in Int /\ g[n] = 2 * g[n - 1] + s[n]
  <2>1. n - 1 \in 0 .. m
    OBVIOUS
  <2>2. g[n - 1] \in Int
    BY <2>1
  <2>3. g[n] = step[<<n, g[n - 1]>>]
    BY <1>3
  <2> QED BY <2>2, <2>3
<1>5. Steps(g)
  BY <1>1, <1>3, <1>4
<1>6. PICK h : h = (CHOOSE x : Steps(x))
  OBVIOUS
<1>7. Steps(h)
  BY <1>5, <1>6
<1>8. Number(s) = h[m]
  <2>1. Len(s) = m
    OBVIOUS
  <2> QED BY <1>6, <2>1 DEF Number
<1>9. h[0] = 0 /\ \A n \in 1 .. m : h[n] = 2 * h[n - 1] + s[n]
  BY <1>1, <1>7
<1> DEFINE S == {n \in 0 .. m : h[n] = g[n]}
<1>10. 0 \in S
  BY <1>1, <1>3, <1>9
<1>11. ASSUME NEW n \in 0 .. m - 1, n \in S PROVE n + 1 \in S
  <2>1. n + 1 \in 1 .. m /\ (n + 1) - 1 = n
    BY <1>1
  <2> QED BY <1>1, <1>4, <1>9, <1>11, <2>1
<1>12. m \in S
  <2> HIDE DEF S
  <2>1. m \in Nat /\ m \in 0 .. m
    BY <1>1
  <2>2. 0 .. m \subseteq S
    BY ONLY <2>1, <1>10, <1>11, Positions
  <2> QED BY <2>1, <2>2
<1>13. Reading(m, s, g)
  BY <1>1, <1>3, <1>4, <1>8, <1>12 DEF Reading
<1> QED BY <1>13

\* A bit more at the low end.
LEMMA Push ==
    /\ \A p \in Nat : \A x \in 0 .. p - 1, b \in {0, 1} : 2 * x + b \in 0 .. (2 * p) - 1
    /\ \A x \in Int, b \in {0, 1} : (2 * x + b) \div 2 = x /\ (2 * x + b) % 2 = b
    /\ \A x \in Int : x \div 2 \in Int /\ x % 2 \in {0, 1} /\ x = 2 * (x \div 2) + (x % 2)
  OBVIOUS

\* Reading the m low bits of a number of m bits gives the number.
LEMMA NumberOfBits ==
    ASSUME NEW m \in Nat, m <= 30, NEW n \in 0 .. Pow[m] - 1,
           NEW s \in [1 .. m -> Int], \A k \in 1 .. m : s[k] = ToBits(n)[m - k]
    PROVE  Number(s) = n
<1>p. m \in 0 .. 31 /\ m \in 0 .. 30
  OBVIOUS
<1>0. n \in Int /\ n \in -Pow[m] .. Pow[m] - 1 /\ ~(n < 0)
  <2>1. PICK p \in Nat \ {0} : p = Pow[m]
    BY <1>p, PowType
  <2> QED BY <2>1
<1> PICK g \in [0 .. m -> Int] : Reading(m, s, g)
  BY NumberSteps
<1>g. g[0] = 0 /\ (\A k \in 1 .. m : g[k] = 2 * g[k - 1] + s[k]) /\ Number(s) = g[m]
  BY DEF Reading
<1> DEFINE S == {k \in 0 .. m : g[k] = Above(n, m - k)}
<1>1. 0 \in S
  <2>1. m - 0 = m /\ m \in m .. 31
    OBVIOUS
  <2>2. Above(n, m) = 0
    BY <1>p, <1>0, <2>1, AboveRange
  <2> QED BY <1>g, <2>1, <2>2
<1>2. ASSUME NEW k \in 0 .. m - 1, k \in S PROVE k + 1 \in S
  <2> DEFINE i == m - (k + 1)
  <2>1. i \in 0 .. 30 /\ i \in 0 .. 31 /\ i + 1 = m - k /\ k + 1 \in 1 .. m /\ (k + 1) - 1 = k
    OBVIOUS
  <2>2. s[k + 1] = Above(n, i) % 2
    BY <1>0, <2>1, BitOf
  <2>3. Above(n, m - k) = Above(n, i) \div 2
    BY <1>0, <2>1, Halve
  <2>4. Above(n, i) \in Int
    BY <1>0, <2>1, AboveType
  <2>5. g[k + 1] = 2 * g[k] + s[k + 1]
    BY <1>g, <2>1
  <2>6. g[k] = Above(n, m - k)
    BY <1>2
  <2> HIDE DEF i
  <2>7. g[k + 1] = Above(n, i)
    BY ONLY <2>2, <2>3, <2>4, <2>5, <2>6, Push
  <2> QED BY <2>1, <2>7 DEF i
<1>3. m \in S
  <2>1. m \in Nat /\ m \in 0 .. m
    OBVIOUS
  <2> HIDE DEF S
  <2>2. 0 .. m \subseteq S
    BY ONLY <2>1, <1>1, <1>2, Positions
  <2> QED BY <2>1, <2>2
<1>4. m - m = 0
  OBVIOUS
<1> QED BY <1>0, <1>g, <1>3, <1>4, Halve

\* The bits of a number are those it was read from.
LEMMA BitsOfNumber ==
    ASSUME NEW m \in Nat, m <= 30, NEW s \in [1 .. m -> Int],
           \A k \in 1 .. m : s[k] \in {0, 1}
    PROVE  /\ Number(s) \in 0 .. Pow[m] - 1
           /\ \A i \in Bits : ToBits(Number(s))[i] = IF i < m THEN s[m - i] ELSE 0
<1> PICK g \in [0 .. m -> Int] : Reading(m, s, g)
  BY NumberSteps
<1>g. g[0] = 0 /\ (\A k \in 1 .. m : g[k] = 2 * g[k - 1] + s[k]) /\ Number(s) = g[m]
  BY DEF Reading
<1>m. m \in Nat /\ m \in 0 .. m
  OBVIOUS
<1> DEFINE S == {k \in 0 .. m : g[k] \in 0 .. Pow[k] - 1}
<1>1. 0 \in S
  <2>1. 0 \in 0 .. 1 - 1 /\ 0 \in 0 .. m
    OBVIOUS
  <2> QED BY <1>g, <2>1, PowStep
<1>2. ASSUME NEW k \in 0 .. m - 1, k \in S PROVE k + 1 \in S
  <2>1. k \in 0 .. 30 /\ k + 1 \in 1 .. m /\ (k + 1) - 1 = k
    OBVIOUS
  <2>2. g[k + 1] = 2 * g[k] + s[k + 1] /\ s[k + 1] \in {0, 1}
    BY <1>g, <2>1
  <2>3. Pow[k] \in Nat \ {0} /\ Pow[k + 1] = 2 * Pow[k]
    BY <2>1, PowStep
  <2>4. g[k] \in 0 .. Pow[k] - 1
    BY <1>2
  <2>5. g[k + 1] \in 0 .. Pow[k + 1] - 1
    <3>1. PICK p \in Nat, x \in Int, b \in {0, 1} :
              p = Pow[k] /\ x = g[k] /\ x \in 0 .. p - 1 /\ b = s[k + 1]
      <4>1. Pow[k] \in Nat /\ g[k] \in Int /\ g[k] \in 0 .. Pow[k] - 1 /\ s[k + 1] \in {0, 1}
        BY <2>2, <2>3, <2>4
      <4> QED BY ONLY <4>1
    <3>2. g[k + 1] = 2 * x + b /\ Pow[k + 1] = 2 * p
      BY <2>2, <2>3, <3>1
    <3>0. x \in 0 .. p - 1
      BY <3>1
    <3>3. 2 * x + b \in 0 .. (2 * p) - 1
      BY ONLY <3>0, p \in Nat, b \in {0, 1}, Push
    <3> QED BY <3>2, <3>3, Zenon
  <2> QED BY <2>1, <2>5
<1>3. 0 .. m \subseteq S
  <2> HIDE DEF S
  <2> QED BY ONLY <1>m, <1>1, <1>2, Positions
<1>4. g[m] \in 0 .. Pow[m] - 1
  BY <1>m, <1>3
<1> PICK n \in Int : n = g[m]
  BY <1>m
<1> DEFINE T == {i \in 0 .. m : Above(n, i) = g[m - i]}
<1>5. 0 \in T
  <2>1. m - 0 = m
    OBVIOUS
  <2> QED BY <2>1, Halve
<1>6. ASSUME NEW i \in 0 .. m - 1
      PROVE  g[m - i] = 2 * g[m - (i + 1)] + s[m - i] /\ s[m - i] \in {0, 1}
             /\ g[m - (i + 1)] \in Int
  <2>1. m - i \in 1 .. m /\ (m - i) - 1 = m - (i + 1) /\ m - (i + 1) \in 0 .. m
    OBVIOUS
  <2> QED BY <1>g, <2>1
<1>7. ASSUME NEW i \in 0 .. m - 1, i \in T PROVE i + 1 \in T
  <2>1. i \in 0 .. 30 /\ i + 1 \in 0 .. m
    OBVIOUS
  <2>2. Above(n, i + 1) = Above(n, i) \div 2
    BY <2>1, Halve
  <2>3. Above(n, i) = g[m - i]
    BY <1>7
  <2>4. g[m - i] \div 2 = g[m - (i + 1)]
    <3>1. PICK x \in Int, b \in {0, 1} :
              x = g[m - (i + 1)] /\ b = s[m - i] /\ g[m - i] = 2 * x + b
      BY ONLY <1>6, i \in 0 .. m - 1
    <3>2. (2 * x + b) \div 2 = x
      BY ONLY x \in Int, b \in {0, 1}, Push
    <3> QED BY <3>1, <3>2
  <2> QED BY <2>1, <2>2, <2>3, <2>4
<1>8. 0 .. m \subseteq T
  <2> HIDE DEF T
  <2> QED BY ONLY <1>m, <1>5, <1>7, Positions
<1>9. ASSUME NEW i \in Bits, i < m PROVE ToBits(n)[i] = s[m - i]
  <2>1. i \in 0 .. 30 /\ i \in 0 .. m - 1 /\ i \in 0 .. m
    BY ONLY <1>9, m \in Nat, m <= 30, i \in Bits DEF Bits
  <2>2. ToBits(n)[i] = g[m - i] % 2
    BY <1>8, <2>1, BitOf
  <2>3. (g[m - i]) % 2 = s[m - i]
    <3>1. PICK x \in Int, b \in {0, 1} : x = g[m - (i + 1)] /\ b = s[m - i]
      BY <1>6, <2>1
    <3>2. g[m - i] = 2 * x + b
      BY <1>6, <2>1, <3>1
    <3>3. (2 * x + b) % 2 = b
      OBVIOUS
    <3> QED BY <3>1, <3>2, <3>3, Zenon
  <2> QED BY <2>2, <2>3
<1>10. ASSUME NEW i \in Bits, ~(i < m) PROVE ToBits(n)[i] = 0
  <2>1. i \in m .. 31 
    BY ONLY <1>10, m \in Nat, m <= 30, i \in Bits DEF Bits
  <2>0. m \in 0 .. 31 /\ m \in 0 .. 30
    OBVIOUS
  <2>2. PICK p \in Nat \ {0} : p = Pow[m]
    BY <2>0, PowType
  <2>3. n \in -Pow[m] .. Pow[m] - 1 /\ ~(n < 0)
    BY <1>4, <2>2
  <2> QED BY <2>0, <2>1, <2>3, BitsSmall
<1> QED BY <1>g, <1>4, <1>9, <1>10

\* The number a concatenation is.
LEMMA NumberJoin ==
    ASSUME NEW m \in Nat, NEW l \in Nat, l <= 31,
           NEW s \in [1 .. m -> Int], NEW t \in [1 .. l -> Int]
    PROVE  /\ s \o t \in [1 .. m + l -> Int]
           /\ Number(s \o t) = Pow[l] * Number(s) + Number(t)
<1>0. s \in Seq(Int) /\ t \in Seq(Int) /\ Len(s) = m /\ Len(t) = l /\ m + l \in Nat
  OBVIOUS
<1>01. s \o t \in [1 .. m + l -> Int]
  <2>1. s \o t \in Seq(Int) /\ Len(s \o t) = m + l
    BY <1>0
  <2> QED BY <2>1, LenProperties
<1>02. \A k \in 1 .. m : (s \o t)[k] = s[k]
  BY <1>0
<1>03. ASSUME NEW k \in 1 .. l PROVE (s \o t)[m + k] = t[k]
  <2>1. m + k \in 1 .. m + l /\ ~(m + k <= m) /\ (m + k) - m = k
    OBVIOUS
  <2> QED BY <1>0, <2>1
<1> PICK u \in [1 .. m + l -> Int] : u = s \o t
  BY <1>01
<1>u. /\ m + l \in Nat
      /\ \A k \in 1 .. m : u[k] = s[k]
      /\ \A k \in 1 .. l : u[m + k] = t[k]
  BY <1>0, <1>02, <1>03
<1> PICK g \in [0 .. m -> Int] : Reading(m, s, g)
  BY NumberSteps
<1>g. g[0] = 0 /\ (\A k \in 1 .. m : g[k] = 2 * g[k - 1] + s[k]) /\ Number(s) = g[m]
  BY DEF Reading
<1> PICK h \in [0 .. l -> Int] : Reading(l, t, h)
  BY NumberSteps
<1>h. h[0] = 0 /\ (\A k \in 1 .. l : h[k] = 2 * h[k - 1] + t[k]) /\ Number(t) = h[l]
  BY DEF Reading
<1> PICK j \in [0 .. m + l -> Int] : Reading(m + l, u, j)
  BY <1>u, NumberSteps
<1>j. /\ j[0] = 0
      /\ \A k \in 1 .. m + l : j[k] = 2 * j[k - 1] + u[k]
      /\ Number(u) = j[m + l]
  BY DEF Reading
<1>m. m \in Nat /\ m \in 0 .. m /\ l \in Nat /\ l \in 0 .. l
  OBVIOUS
<1> DEFINE S == {k \in 0 .. m : j[k] = g[k]}
<1>1. 0 \in S
  BY <1>g, <1>j
<1>2. ASSUME NEW k \in 0 .. m - 1, k \in S PROVE k + 1 \in S
  <2>1. k + 1 \in 1 .. m /\ k + 1 \in 1 .. m + l /\ (k + 1) - 1 = k
    OBVIOUS
  <2>2. j[k + 1] = 2 * j[k] + s[k + 1]
    BY <1>u, <1>j, <2>1
  <2>3. g[k + 1] = 2 * g[k] + s[k + 1]
    BY <1>g, <2>1
  <2>4. j[k] = g[k]
    BY <1>2
  <2> QED BY <2>1, <2>2, <2>3, <2>4
<1>3. 0 .. m \subseteq S
  <2> HIDE DEF S
  <2> QED BY ONLY <1>m, <1>1, <1>2, Positions
<1>4. j[m] = g[m] /\ g[m] \in Int
  BY <1>m, <1>3
<1> PICK a \in Int : a = g[m]
  BY <1>4
<1> DEFINE T == {k \in 0 .. l : j[m + k] = Pow[k] * a + h[k]}
<1>5. 0 \in T
  <2>1. m + 0 = m
    OBVIOUS
  <2>2. Pow[0] * a + h[0] = a
    <3>1. 1 * a + 0 = a
      OBVIOUS
    <3> QED BY <1>h, <3>1, PowStep, Zenon
  <2>3. j[m + 0] = a
    BY <1>4, <2>1
  <2> QED BY <1>m, <2>2, <2>3
<1>6. ASSUME NEW k \in 0 .. l - 1, k \in T PROVE k + 1 \in T
  <2>1. k \in 0 .. 30 /\ k \in 0 .. l /\ k + 1 \in 0 .. l /\ k + 1 \in 1 .. l /\ m + (k + 1) \in 1 .. m + l
        /\ (k + 1) - 1 = k /\ (m + (k + 1)) - 1 = m + k
    BY ONLY m \in Nat, l \in Nat, l <= 31, k \in 0 .. l - 1
  <2>2. j[m + (k + 1)] = 2 * j[m + k] + t[k + 1] /\ t[k + 1] \in Int
    BY <1>u, <1>j, <2>1
  <2>0. h[k] \in Int
    BY <2>1
  <2>3. h[k + 1] = 2 * h[k] + t[k + 1] /\ h[k] \in Int
    BY <1>h, <2>0, <2>1
  <2>4. PICK p \in Nat : p = Pow[k] /\ Pow[k + 1] = 2 * p
    BY <2>1, PowStep
  <2>5. (2 * p) * a = 2 * (p * a) /\ p * a \in Int
    BY ONLY p \in Nat, a \in Int
  <2>6. PICK x \in Int : x = p * a
    BY <2>5
  <2>7. j[m + k] = x + h[k]
    BY <1>6, <2>4, <2>6
  <2>8. j[m + (k + 1)] = 2 * x + h[k + 1]
    <3>1. PICK b \in Int, c \in Int : b = t[k + 1] /\ c = h[k]
      BY <2>0, <2>2
    <3>2. 2 * (x + c) + b = 2 * x + (2 * c + b)
      OBVIOUS
    <3> QED BY ONLY <2>2, <2>3, <2>7, <3>1, <3>2
  <2>9. j[m + (k + 1)] = Pow[k + 1] * a + h[k + 1]
    BY <2>4, <2>5, <2>6, <2>8
  <2> QED BY <2>1, <2>9
<1>7. 0 .. l \subseteq T
  <2> HIDE DEF T
  <2> QED BY ONLY <1>m, <1>5, <1>6, Positions
<1> QED BY <1>01, <1>g, <1>h, <1>j, <1>m, <1>7

-----------------------------------------------------------------------------
(* Fields of a word *)

\* The m bits of w from position lo up are the low ones of n from position a.
Carries(w, lo, m, n, a) == \A j \in 0 .. m - 1 : w[lo + j] = ToBits(n)[a + j]

LEMMA PowValues ==
    /\ Pow[0] = 1 /\ Pow[1] = 2 /\ Pow[3] = 8 /\ Pow[4] = 16 /\ Pow[5] = 32 /\ Pow[6] = 64
    /\ Pow[7] = 128 /\ Pow[8] = 256 /\ Pow[10] = 1024 /\ Pow[11] = 2048 /\ Pow[12] = 4096
    /\ Pow[13] = 8192 /\ Pow[20] = 1048576 /\ Pow[21] = 2097152
<1>1. Pow[0] = 1 /\ Pow[1] = 2 /\ Pow[3] = 8 /\ Pow[4] = 16 /\ Pow[5] = 32 /\ Pow[6] = 64
  BY DEF Pow
<1>2. Pow[7] = 128 /\ Pow[8] = 256 /\ Pow[10] = 1024 /\ Pow[11] = 2048 /\ Pow[12] = 4096
  BY DEF Pow
<1>3. Pow[13] = 8192 /\ Pow[20] = 1048576 /\ Pow[21] = 2097152
  BY DEF Pow
<1> QED BY <1>1, <1>2, <1>3

LEMMA Literals ==
    /\ 2^1 = 2 /\ 2^4 = 16 /\ 2^5 = 32 /\ 2^6 = 64 /\ 2^8 = 256 /\ 2^10 = 1024
    /\ 2^11 = 2048 /\ 2^12 = 4096 /\ 2^13 = 8192 /\ 2^20 = 1048576 /\ 2^21 = 2097152
  OBVIOUS

LEMMA PartType ==
    ASSUME NEW w \in InstWord, NEW hi \in Bits, NEW lo \in 0 .. hi
    PROVE  /\ Part(w, hi, lo) \in [1 .. (hi - lo) + 1 -> Int]
           /\ \A k \in 1 .. (hi - lo) + 1 :
                 Part(w, hi, lo)[k] \in {0, 1} /\ Part(w, hi, lo)[k] = w[(hi + 1) - k]
<1>1. ASSUME NEW k \in 1 .. (hi - lo) + 1
      PROVE  w[(hi + 1) - k] \in {0, 1} /\ hi + 1 - k = (hi + 1) - k
  <2>1. (hi + 1) - k \in Bits
    BY DEF Bits
  <2> QED BY <2>1 DEF InstWord, Bits
<1> QED BY <1>1 DEF Part

LEMMA FieldOf ==
    ASSUME NEW w \in InstWord, NEW hi \in Bits, NEW lo \in 0 .. hi, NEW m \in 1 .. 30,
           m = (hi - lo) + 1, NEW n \in 0 .. Pow[m] - 1, Carries(w, lo, m, n, 0)
    PROVE  Number(Part(w, hi, lo)) = n
<1> PICK s \in [1 .. m -> Int] : s = Part(w, hi, lo) /\ \A k \in 1 .. m : s[k] = w[(hi + 1) - k]
  BY PartType
<1>1. ASSUME NEW k \in 1 .. m PROVE s[k] = ToBits(n)[m - k]
  <2>0. m \in Int /\ k \in Int /\ lo \in Int /\ hi \in Int /\ 1 <= k /\ k <= m
    BY DEF Bits
  <2>1. m - k \in 0 .. m - 1 /\ lo + (m - k) = (hi + 1) - k /\ 0 + (m - k) = m - k
    BY ONLY <2>0, m = (hi - lo) + 1
  <2>2. w[lo + (m - k)] = ToBits(n)[0 + (m - k)]
    BY <2>1 DEF Carries
  <2> QED BY <2>1, <2>2
<1>2. m \in Nat /\ m <= 30
  BY ONLY m \in 1 .. 30
<1> QED BY <1>1, <1>2, NumberOfBits

\* The word that holds the m bits of n from position a up, at position k.
Field(n, a, m, k) ==
    [i \in Bits |-> IF k <= i /\ i < k + m THEN ToBits(n)[a + (i - k)] ELSE 0]

\* The m bits of n from position a up, as a number.
Slice(n, a, m) == (n \div Pow[a]) % Pow[m]

\* A slice of a number, shifted to its place.
LEMMA Placed ==
    ASSUME NEW m \in 0 .. 30, NEW a \in 0 .. 30, a + m <= 31, NEW n \in Int,
           NEW k \in 0 .. 31, k + m <= 32, NEW v, v = Slice(n, a, m)
    PROVE  Shl(v, k) = Field(n, a, m, k) /\ Shl(v, k) \in InstWord
<1>0. a \in 0 .. 31
  OBVIOUS
<1> PICK c \in Int : c = n \div Pow[a]
  BY <1>0, AboveType DEF Above
<1>1. /\ v \in 0 .. Pow[m] - 1
      /\ \A i \in Bits : ToBits(v)[i] = IF i < m THEN ToBits(c)[i] ELSE 0
  BY BitsLow DEF Slice
<1>2. \A b \in 0 .. 30 - a : ToBits(c)[b] = ToBits(n)[a + b]
  BY BitsShifted
<1>3. \A i \in Bits : ToBits(n)[i] \in {0, 1}
  BY WordOf DEF InstWord
<1>4. ASSUME NEW i \in Bits
      PROVE  /\ Shl(v, k)[i] = IF k <= i /\ i < k + m THEN ToBits(n)[a + (i - k)] ELSE 0
             /\ Shl(v, k)[i] \in {0, 1}
  <2>0. i \in Int /\ k \in Int
    BY DEF Bits
  <2>1. CASE i < k
    <3>1. Shl(v, k)[i] = 0
      BY <2>1 DEF Shl
    <3> QED BY <2>0, <2>1, <3>1
  <2>2. CASE ~(i < k)
    <3>1. i - k \in Bits
      BY <2>2 DEF Bits
    <3>2. Shl(v, k)[i] = ToBits(v)[i - k]
      BY <2>2 DEF Shl
    <3>3. CASE i < k + m
      <4>1. i - k < m /\ i - k \in 0 .. 30 - a /\ a + (i - k) \in Bits /\ k <= i
        BY <2>2, <3>1, <3>3 DEF Bits
      <4> QED BY <1>1, <1>2, <1>3, <3>1, <3>2, <3>3, <4>1
    <3>4. CASE ~(i < k + m)
      <4>1. ~(i - k < m)
        BY <2>2, <3>1, <3>4 DEF Bits
      <4> QED BY <1>1, <3>1, <3>2, <3>4, <4>1
    <3> QED BY <3>3, <3>4
  <2> QED BY <2>1, <2>2
<1>5. Shl(v, k) = Field(n, a, m, k)
  BY <1>4 DEF Field, Shl
<1> QED BY <1>4, <1>5 DEF Shl, InstWord

\* A number that fits in its field.
LEMMA PlacedWhole ==
    ASSUME NEW m \in 0 .. 30, NEW n \in 0 .. Pow[m] - 1, NEW k \in 0 .. 31, k + m <= 32
    PROVE  n \in Int /\ Shl(n, k) = Field(n, 0, m, k) /\ Shl(n, k) \in InstWord
<1>1. PICK p \in Nat \ {0} : p = Pow[m]
  BY PowType
<1>2. n \in Int /\ n \div 1 = n /\ n % p = n
  BY <1>1
<1>3. PICK a \in 0 .. 30 : a = 0 /\ a + m <= 31 /\ n = Slice(n, a, m)
  BY <1>1, <1>2, PowStep DEF Slice
<1>4. Shl(n, k) = Field(n, a, m, k) /\ Shl(n, k) \in InstWord
  <2>1. n \in Int /\ a + m <= 31 /\ n = Slice(n, a, m)
    BY <1>2, <1>3
  <2> QED BY <2>1, Placed
<1> QED BY <1>2, <1>3, <1>4

LEMMA OpcodeField == \A n \in 0 .. 127 : ToBits(n) = Field(n, 0, 7, 0)
<1> SUFFICES ASSUME NEW n \in 0 .. 127 PROVE ToBits(n) = Field(n, 0, 7, 0)
  OBVIOUS
<1>1. Shl(n, 0) = Field(n, 0, 7, 0)
  <2>1. n \in 0 .. Pow[7] - 1 /\ 7 \in 0 .. 30 /\ 0 \in 0 .. 31 /\ 0 + 7 <= 32
    BY PowValues
  <2> QED BY <2>1, PlacedWhole
<1>2. ASSUME NEW i \in Bits PROVE ~(i < 0) /\ i - 0 = i
  BY DEF Bits
<1>3. ToBits(n) \in InstWord
  BY WordOf
<1>4. Shl(n, 0) = ToBits(n)
  BY <1>2, <1>3 DEF Shl, InstWord
<1> QED BY <1>1, <1>4

\* A field is zero outside its place.
LEMMA FieldOutside ==
    \A n, a, m, k : \A i \in Bits : ~(k <= i /\ i < k + m) => Field(n, a, m, k)[i] = 0
  BY DEF Field

\* The or of a set of words has the field of one of them where the others are zero.
LEMMA OrCarries ==
    ASSUME NEW W, NEW n \in Int, NEW a \in 0 .. 30, NEW m \in 0 .. 30, a + m <= 31,
           NEW k \in 0 .. 31, k + m <= 32, Field(n, a, m, k) \in W,
           \A x \in W : x = Field(n, a, m, k) \/ \A i \in k .. (k + m) - 1 : x[i] = 0
    PROVE  Carries(Or(W), k, m, n, a)
<1> SUFFICES ASSUME NEW j \in 0 .. m - 1 PROVE Or(W)[k + j] = ToBits(n)[a + j]
  BY DEF Carries
<1> PICK F : F = Field(n, a, m, k)
  OBVIOUS
<1>1. k + j \in Bits /\ a + j \in Bits /\ k + j \in k .. (k + m) - 1 /\ (k + j) - k = j
      /\ k <= k + j /\ k + j < k + m
  BY DEF Bits
<1>2. F[k + j] = ToBits(n)[a + j]
  BY <1>1 DEF Field
<1>3. ToBits(n)[a + j] \in {0, 1}
  BY <1>1, WordOf DEF InstWord
<1>4. Or(W)[k + j] = IF \E x \in W : x[k + j] = 1 THEN 1 ELSE 0
  BY <1>1 DEF Or
<1>5. F \in W /\ \A x \in W : x = F \/ x[k + j] = 0
  BY <1>1
<1> QED BY <1>2, <1>3, <1>4, <1>5

LEMMA OrWord == \A W : Or(W) \in InstWord
  BY DEF Or, InstWord

\* The slices of an immediate that the builders make.
LEMMA Slices ==
    ASSUME NEW imm \in Int
    PROVE  /\ Shl(imm % 2^12, 20) = Field(imm, 0, 12, 20)
           /\ Shl((imm % 2^12) \div 2^5, 25) = Field(imm, 5, 7, 25)
           /\ Shl(imm % 2^5, 7) = Field(imm, 0, 5, 7)
           /\ Shl((imm \div 2^12) % 2, 31) = Field(imm, 12, 1, 31)
           /\ Shl((imm \div 2^5) % 2^6, 25) = Field(imm, 5, 6, 25)
           /\ Shl((imm \div 2) % 2^4, 8) = Field(imm, 1, 4, 8)
           /\ Shl((imm \div 2^11) % 2, 7) = Field(imm, 11, 1, 7)
           /\ Shl(imm % 2^20, 12) = Field(imm, 0, 20, 12)
           /\ Shl((imm \div 2^20) % 2, 31) = Field(imm, 20, 1, 31)
           /\ Shl((imm \div 2) % 2^10, 21) = Field(imm, 1, 10, 21)
           /\ Shl((imm \div 2^11) % 2, 20) = Field(imm, 11, 1, 20)
           /\ Shl((imm \div 2^12) % 2^8, 12) = Field(imm, 12, 8, 12)
<1>1. Shl(imm % 2^12, 20) = Field(imm, 0, 12, 20)
  <2> PICK a \in 0 .. 30, m \in 0 .. 30, k \in 0 .. 31 : a = 0 /\ m = 12 /\ k = 20
    OBVIOUS
  <2> PICK v : v = imm % 2^12
    OBVIOUS
  <2>1. v = Slice(imm, a, m) /\ a + m <= 31 /\ k + m <= 32
    BY PowValues, Literals DEF Slice
  <2>2. Shl(v, k) = Field(imm, a, m, k)
    BY ONLY <2>1, imm \in Int, a \in 0 .. 30, m \in 0 .. 30, k \in 0 .. 31, Placed
  <2> QED BY <2>2
<1>2. Shl((imm % 2^12) \div 2^5, 25) = Field(imm, 5, 7, 25)
  <2> PICK a \in 0 .. 30, m \in 0 .. 30, k \in 0 .. 31 : a = 5 /\ m = 7 /\ k = 25
    OBVIOUS
  <2> PICK v : v = (imm % 2^12) \div 2^5
    OBVIOUS
  <2>1. v = Slice(imm, a, m) /\ a + m <= 31 /\ k + m <= 32
    BY PowValues, Literals DEF Slice
  <2>2. Shl(v, k) = Field(imm, a, m, k)
    BY ONLY <2>1, imm \in Int, a \in 0 .. 30, m \in 0 .. 30, k \in 0 .. 31, Placed
  <2> QED BY <2>2
<1>3. Shl(imm % 2^5, 7) = Field(imm, 0, 5, 7)
  <2> PICK a \in 0 .. 30, m \in 0 .. 30, k \in 0 .. 31 : a = 0 /\ m = 5 /\ k = 7
    OBVIOUS
  <2> PICK v : v = imm % 2^5
    OBVIOUS
  <2>1. v = Slice(imm, a, m) /\ a + m <= 31 /\ k + m <= 32
    BY PowValues, Literals DEF Slice
  <2>2. Shl(v, k) = Field(imm, a, m, k)
    BY ONLY <2>1, imm \in Int, a \in 0 .. 30, m \in 0 .. 30, k \in 0 .. 31, Placed
  <2> QED BY <2>2
<1>4. Shl((imm \div 2^12) % 2, 31) = Field(imm, 12, 1, 31)
  <2> PICK a \in 0 .. 30, m \in 0 .. 30, k \in 0 .. 31 : a = 12 /\ m = 1 /\ k = 31
    OBVIOUS
  <2> PICK v : v = (imm \div 2^12) % 2
    OBVIOUS
  <2>1. v = Slice(imm, a, m) /\ a + m <= 31 /\ k + m <= 32
    BY PowValues, Literals DEF Slice
  <2>2. Shl(v, k) = Field(imm, a, m, k)
    BY ONLY <2>1, imm \in Int, a \in 0 .. 30, m \in 0 .. 30, k \in 0 .. 31, Placed
  <2> QED BY <2>2
<1>5. Shl((imm \div 2^5) % 2^6, 25) = Field(imm, 5, 6, 25)
  <2> PICK a \in 0 .. 30, m \in 0 .. 30, k \in 0 .. 31 : a = 5 /\ m = 6 /\ k = 25
    OBVIOUS
  <2> PICK v : v = (imm \div 2^5) % 2^6
    OBVIOUS
  <2>1. v = Slice(imm, a, m) /\ a + m <= 31 /\ k + m <= 32
    BY PowValues, Literals DEF Slice
  <2>2. Shl(v, k) = Field(imm, a, m, k)
    BY ONLY <2>1, imm \in Int, a \in 0 .. 30, m \in 0 .. 30, k \in 0 .. 31, Placed
  <2> QED BY <2>2
<1>6. Shl((imm \div 2) % 2^4, 8) = Field(imm, 1, 4, 8)
  <2> PICK a \in 0 .. 30, m \in 0 .. 30, k \in 0 .. 31 : a = 1 /\ m = 4 /\ k = 8
    OBVIOUS
  <2> PICK v : v = (imm \div 2) % 2^4
    OBVIOUS
  <2>1. v = Slice(imm, a, m) /\ a + m <= 31 /\ k + m <= 32
    BY PowValues, Literals DEF Slice
  <2>2. Shl(v, k) = Field(imm, a, m, k)
    BY ONLY <2>1, imm \in Int, a \in 0 .. 30, m \in 0 .. 30, k \in 0 .. 31, Placed
  <2> QED BY <2>2
<1>7. Shl((imm \div 2^11) % 2, 7) = Field(imm, 11, 1, 7)
  <2> PICK a \in 0 .. 30, m \in 0 .. 30, k \in 0 .. 31 : a = 11 /\ m = 1 /\ k = 7
    OBVIOUS
  <2> PICK v : v = (imm \div 2^11) % 2
    OBVIOUS
  <2>1. v = Slice(imm, a, m) /\ a + m <= 31 /\ k + m <= 32
    BY PowValues, Literals DEF Slice
  <2>2. Shl(v, k) = Field(imm, a, m, k)
    BY ONLY <2>1, imm \in Int, a \in 0 .. 30, m \in 0 .. 30, k \in 0 .. 31, Placed
  <2> QED BY <2>2
<1>8. Shl(imm % 2^20, 12) = Field(imm, 0, 20, 12)
  <2> PICK a \in 0 .. 30, m \in 0 .. 30, k \in 0 .. 31 : a = 0 /\ m = 20 /\ k = 12
    OBVIOUS
  <2> PICK v : v = imm % 2^20
    OBVIOUS
  <2>1. v = Slice(imm, a, m) /\ a + m <= 31 /\ k + m <= 32
    BY PowValues, Literals DEF Slice
  <2>2. Shl(v, k) = Field(imm, a, m, k)
    BY ONLY <2>1, imm \in Int, a \in 0 .. 30, m \in 0 .. 30, k \in 0 .. 31, Placed
  <2> QED BY <2>2
<1>9. Shl((imm \div 2^20) % 2, 31) = Field(imm, 20, 1, 31)
  <2> PICK a \in 0 .. 30, m \in 0 .. 30, k \in 0 .. 31 : a = 20 /\ m = 1 /\ k = 31
    OBVIOUS
  <2> PICK v : v = (imm \div 2^20) % 2
    OBVIOUS
  <2>1. v = Slice(imm, a, m) /\ a + m <= 31 /\ k + m <= 32
    BY PowValues, Literals DEF Slice
  <2>2. Shl(v, k) = Field(imm, a, m, k)
    BY ONLY <2>1, imm \in Int, a \in 0 .. 30, m \in 0 .. 30, k \in 0 .. 31, Placed
  <2> QED BY <2>2
<1>10. Shl((imm \div 2) % 2^10, 21) = Field(imm, 1, 10, 21)
  <2> PICK a \in 0 .. 30, m \in 0 .. 30, k \in 0 .. 31 : a = 1 /\ m = 10 /\ k = 21
    OBVIOUS
  <2> PICK v : v = (imm \div 2) % 2^10
    OBVIOUS
  <2>1. v = Slice(imm, a, m) /\ a + m <= 31 /\ k + m <= 32
    BY PowValues, Literals DEF Slice
  <2>2. Shl(v, k) = Field(imm, a, m, k)
    BY ONLY <2>1, imm \in Int, a \in 0 .. 30, m \in 0 .. 30, k \in 0 .. 31, Placed
  <2> QED BY <2>2
<1>11. Shl((imm \div 2^11) % 2, 20) = Field(imm, 11, 1, 20)
  <2> PICK a \in 0 .. 30, m \in 0 .. 30, k \in 0 .. 31 : a = 11 /\ m = 1 /\ k = 20
    OBVIOUS
  <2> PICK v : v = (imm \div 2^11) % 2
    OBVIOUS
  <2>1. v = Slice(imm, a, m) /\ a + m <= 31 /\ k + m <= 32
    BY PowValues, Literals DEF Slice
  <2>2. Shl(v, k) = Field(imm, a, m, k)
    BY ONLY <2>1, imm \in Int, a \in 0 .. 30, m \in 0 .. 30, k \in 0 .. 31, Placed
  <2> QED BY <2>2
<1>12. Shl((imm \div 2^12) % 2^8, 12) = Field(imm, 12, 8, 12)
  <2> PICK a \in 0 .. 30, m \in 0 .. 30, k \in 0 .. 31 : a = 12 /\ m = 8 /\ k = 12
    OBVIOUS
  <2> PICK v : v = (imm \div 2^12) % 2^8
    OBVIOUS
  <2>1. v = Slice(imm, a, m) /\ a + m <= 31 /\ k + m <= 32
    BY PowValues, Literals DEF Slice
  <2>2. Shl(v, k) = Field(imm, a, m, k)
    BY ONLY <2>1, imm \in Int, a \in 0 .. 30, m \in 0 .. 30, k \in 0 .. 31, Placed
  <2> QED BY <2>2
<1> QED BY <1>1, <1>2, <1>3, <1>4, <1>5, <1>6, <1>7, <1>8, <1>9, <1>10, <1>11, <1>12

\* The fields that a builder shifts whole.
LEMMA Wholes ==
    /\ \A n \in 0 .. 31 : Shl(n, 20) = Field(n, 0, 5, 20)
    /\ \A n \in 0 .. 31 : Shl(n, 15) = Field(n, 0, 5, 15)
    /\ \A n \in 0 .. 31 : Shl(n, 7) = Field(n, 0, 5, 7)
    /\ \A n \in 0 .. 7 : Shl(n, 12) = Field(n, 0, 3, 12)
    /\ \A n \in 0 .. 127 : Shl(n, 25) = Field(n, 0, 7, 25)
<1>1. ASSUME NEW n \in 0 .. 31 PROVE Shl(n, 20) = Field(n, 0, 5, 20)
  <2> PICK m \in 0 .. 30, k \in 0 .. 31 : m = 5 /\ k = 20
    OBVIOUS
  <2>1. n \in 0 .. Pow[m] - 1 /\ k + m <= 32
    BY PowValues
  <2>2. Shl(n, k) = Field(n, 0, m, k)
    BY <2>1, PlacedWhole
  <2> QED BY <2>2
<1>2. ASSUME NEW n \in 0 .. 31 PROVE Shl(n, 15) = Field(n, 0, 5, 15)
  <2> PICK m \in 0 .. 30, k \in 0 .. 31 : m = 5 /\ k = 15
    OBVIOUS
  <2>1. n \in 0 .. Pow[m] - 1 /\ k + m <= 32
    BY PowValues
  <2>2. Shl(n, k) = Field(n, 0, m, k)
    BY <2>1, PlacedWhole
  <2> QED BY <2>2
<1>3. ASSUME NEW n \in 0 .. 31 PROVE Shl(n, 7) = Field(n, 0, 5, 7)
  <2> PICK m \in 0 .. 30, k \in 0 .. 31 : m = 5 /\ k = 7
    OBVIOUS
  <2>1. n \in 0 .. Pow[m] - 1 /\ k + m <= 32
    BY PowValues
  <2>2. Shl(n, k) = Field(n, 0, m, k)
    BY <2>1, PlacedWhole
  <2> QED BY <2>2
<1>4. ASSUME NEW n \in 0 .. 7 PROVE Shl(n, 12) = Field(n, 0, 3, 12)
  <2> PICK m \in 0 .. 30, k \in 0 .. 31 : m = 3 /\ k = 12
    OBVIOUS
  <2>1. n \in 0 .. Pow[m] - 1 /\ k + m <= 32
    BY PowValues
  <2>2. Shl(n, k) = Field(n, 0, m, k)
    BY <2>1, PlacedWhole
  <2> QED BY <2>2
<1>5. ASSUME NEW n \in 0 .. 127 PROVE Shl(n, 25) = Field(n, 0, 7, 25)
  <2> PICK m \in 0 .. 30, k \in 0 .. 31 : m = 7 /\ k = 25
    OBVIOUS
  <2>1. n \in 0 .. Pow[m] - 1 /\ k + m <= 32
    BY PowValues
  <2>2. Shl(n, k) = Field(n, 0, m, k)
    BY <2>1, PlacedWhole
  <2> QED BY <2>2
<1> QED BY <1>1, <1>2, <1>3, <1>4, <1>5

LEMMA RType ==
    ASSUME NEW funct7 \in 0 .. 127, NEW rs2 \in 0 .. 31, NEW rs1 \in 0 .. 31, NEW funct3 \in 0 .. 7, NEW rd \in 0 .. 31, NEW opcode \in 0 .. 127
    PROVE  LET w == r_type(funct7, rs2, rs1, funct3, rd, opcode)
           IN  /\ w \in InstWord
               /\ Carries(w, 25, 7, funct7, 0)
               /\ Carries(w, 20, 5, rs2, 0)
               /\ Carries(w, 15, 5, rs1, 0)
               /\ Carries(w, 12, 3, funct3, 0)
               /\ Carries(w, 7, 5, rd, 0)
               /\ Carries(w, 0, 7, opcode, 0)
<1>1. /\ Shl(funct7, 25) = Field(funct7, 0, 7, 25)
      /\ Shl(rs2, 20) = Field(rs2, 0, 5, 20)
      /\ Shl(rs1, 15) = Field(rs1, 0, 5, 15)
      /\ Shl(funct3, 12) = Field(funct3, 0, 3, 12)
      /\ Shl(rd, 7) = Field(rd, 0, 5, 7)
      /\ ToBits(opcode) = Field(opcode, 0, 7, 0)
  BY Wholes, OpcodeField
<1> DEFINE W == {Field(funct7, 0, 7, 25), Field(rs2, 0, 5, 20), Field(rs1, 0, 5, 15), Field(funct3, 0, 3, 12), Field(rd, 0, 5, 7), Field(opcode, 0, 7, 0)}
<1>2. r_type(funct7, rs2, rs1, funct3, rd, opcode) = Or(W)
  BY <1>1, Zenon DEF r_type
<1>3. Carries(Or(W), 25, 7, funct7, 0)
  <2> PICK a \in 0 .. 30, m \in 0 .. 30, k \in 0 .. 31 : a = 0 /\ m = 7 /\ k = 25
    OBVIOUS
  <2>1. \A x \in W : x = Field(funct7, a, m, k) \/ \A i \in k .. (k + m) - 1 : x[i] = 0
    BY FieldOutside DEF Bits
  <2>2. Field(funct7, a, m, k) \in W /\ funct7 \in Int /\ a + m <= 31 /\ k + m <= 32
    OBVIOUS
  <2> HIDE DEF W
  <2>3. Carries(Or(W), k, m, funct7, a)
    BY <2>1, <2>2, OrCarries
  <2> QED BY <2>3
<1>4. Carries(Or(W), 20, 5, rs2, 0)
  <2> PICK a \in 0 .. 30, m \in 0 .. 30, k \in 0 .. 31 : a = 0 /\ m = 5 /\ k = 20
    OBVIOUS
  <2>1. \A x \in W : x = Field(rs2, a, m, k) \/ \A i \in k .. (k + m) - 1 : x[i] = 0
    BY FieldOutside DEF Bits
  <2>2. Field(rs2, a, m, k) \in W /\ rs2 \in Int /\ a + m <= 31 /\ k + m <= 32
    OBVIOUS
  <2> HIDE DEF W
  <2>3. Carries(Or(W), k, m, rs2, a)
    BY <2>1, <2>2, OrCarries
  <2> QED BY <2>3
<1>5. Carries(Or(W), 15, 5, rs1, 0)
  <2> PICK a \in 0 .. 30, m \in 0 .. 30, k \in 0 .. 31 : a = 0 /\ m = 5 /\ k = 15
    OBVIOUS
  <2>1. \A x \in W : x = Field(rs1, a, m, k) \/ \A i \in k .. (k + m) - 1 : x[i] = 0
    BY FieldOutside DEF Bits
  <2>2. Field(rs1, a, m, k) \in W /\ rs1 \in Int /\ a + m <= 31 /\ k + m <= 32
    OBVIOUS
  <2> HIDE DEF W
  <2>3. Carries(Or(W), k, m, rs1, a)
    BY <2>1, <2>2, OrCarries
  <2> QED BY <2>3
<1>6. Carries(Or(W), 12, 3, funct3, 0)
  <2> PICK a \in 0 .. 30, m \in 0 .. 30, k \in 0 .. 31 : a = 0 /\ m = 3 /\ k = 12
    OBVIOUS
  <2>1. \A x \in W : x = Field(funct3, a, m, k) \/ \A i \in k .. (k + m) - 1 : x[i] = 0
    BY FieldOutside DEF Bits
  <2>2. Field(funct3, a, m, k) \in W /\ funct3 \in Int /\ a + m <= 31 /\ k + m <= 32
    OBVIOUS
  <2> HIDE DEF W
  <2>3. Carries(Or(W), k, m, funct3, a)
    BY <2>1, <2>2, OrCarries
  <2> QED BY <2>3
<1>7. Carries(Or(W), 7, 5, rd, 0)
  <2> PICK a \in 0 .. 30, m \in 0 .. 30, k \in 0 .. 31 : a = 0 /\ m = 5 /\ k = 7
    OBVIOUS
  <2>1. \A x \in W : x = Field(rd, a, m, k) \/ \A i \in k .. (k + m) - 1 : x[i] = 0
    BY FieldOutside DEF Bits
  <2>2. Field(rd, a, m, k) \in W /\ rd \in Int /\ a + m <= 31 /\ k + m <= 32
    OBVIOUS
  <2> HIDE DEF W
  <2>3. Carries(Or(W), k, m, rd, a)
    BY <2>1, <2>2, OrCarries
  <2> QED BY <2>3
<1>8. Carries(Or(W), 0, 7, opcode, 0)
  <2> PICK a \in 0 .. 30, m \in 0 .. 30, k \in 0 .. 31 : a = 0 /\ m = 7 /\ k = 0
    OBVIOUS
  <2>1. \A x \in W : x = Field(opcode, a, m, k) \/ \A i \in k .. (k + m) - 1 : x[i] = 0
    BY FieldOutside DEF Bits
  <2>2. Field(opcode, a, m, k) \in W /\ opcode \in Int /\ a + m <= 31 /\ k + m <= 32
    OBVIOUS
  <2> HIDE DEF W
  <2>3. Carries(Or(W), k, m, opcode, a)
    BY <2>1, <2>2, OrCarries
  <2> QED BY <2>3
<1> HIDE DEF W
<1> QED BY <1>2, <1>3, <1>4, <1>5, <1>6, <1>7, <1>8, OrWord

LEMMA IType ==
    ASSUME NEW imm \in Int, NEW rs1 \in 0 .. 31, NEW funct3 \in 0 .. 7, NEW rd \in 0 .. 31, NEW opcode \in 0 .. 127
    PROVE  LET w == i_type(imm, rs1, funct3, rd, opcode)
           IN  /\ w \in InstWord
               /\ Carries(w, 20, 12, imm, 0)
               /\ Carries(w, 15, 5, rs1, 0)
               /\ Carries(w, 12, 3, funct3, 0)
               /\ Carries(w, 7, 5, rd, 0)
               /\ Carries(w, 0, 7, opcode, 0)
<1>1. /\ Shl(imm % 2^12, 20) = Field(imm, 0, 12, 20)
      /\ Shl(rs1, 15) = Field(rs1, 0, 5, 15)
      /\ Shl(funct3, 12) = Field(funct3, 0, 3, 12)
      /\ Shl(rd, 7) = Field(rd, 0, 5, 7)
      /\ ToBits(opcode) = Field(opcode, 0, 7, 0)
  BY Slices, Wholes, OpcodeField
<1> DEFINE W == {Field(imm, 0, 12, 20), Field(rs1, 0, 5, 15), Field(funct3, 0, 3, 12), Field(rd, 0, 5, 7), Field(opcode, 0, 7, 0)}
<1>2. i_type(imm, rs1, funct3, rd, opcode) = Or(W)
  BY <1>1, Zenon DEF i_type
<1>3. Carries(Or(W), 20, 12, imm, 0)
  <2> PICK a \in 0 .. 30, m \in 0 .. 30, k \in 0 .. 31 : a = 0 /\ m = 12 /\ k = 20
    OBVIOUS
  <2>1. \A x \in W : x = Field(imm, a, m, k) \/ \A i \in k .. (k + m) - 1 : x[i] = 0
    BY FieldOutside DEF Bits
  <2>2. Field(imm, a, m, k) \in W /\ imm \in Int /\ a + m <= 31 /\ k + m <= 32
    OBVIOUS
  <2> HIDE DEF W
  <2>3. Carries(Or(W), k, m, imm, a)
    BY <2>1, <2>2, OrCarries
  <2> QED BY <2>3
<1>4. Carries(Or(W), 15, 5, rs1, 0)
  <2> PICK a \in 0 .. 30, m \in 0 .. 30, k \in 0 .. 31 : a = 0 /\ m = 5 /\ k = 15
    OBVIOUS
  <2>1. \A x \in W : x = Field(rs1, a, m, k) \/ \A i \in k .. (k + m) - 1 : x[i] = 0
    BY FieldOutside DEF Bits
  <2>2. Field(rs1, a, m, k) \in W /\ rs1 \in Int /\ a + m <= 31 /\ k + m <= 32
    OBVIOUS
  <2> HIDE DEF W
  <2>3. Carries(Or(W), k, m, rs1, a)
    BY <2>1, <2>2, OrCarries
  <2> QED BY <2>3
<1>5. Carries(Or(W), 12, 3, funct3, 0)
  <2> PICK a \in 0 .. 30, m \in 0 .. 30, k \in 0 .. 31 : a = 0 /\ m = 3 /\ k = 12
    OBVIOUS
  <2>1. \A x \in W : x = Field(funct3, a, m, k) \/ \A i \in k .. (k + m) - 1 : x[i] = 0
    BY FieldOutside DEF Bits
  <2>2. Field(funct3, a, m, k) \in W /\ funct3 \in Int /\ a + m <= 31 /\ k + m <= 32
    OBVIOUS
  <2> HIDE DEF W
  <2>3. Carries(Or(W), k, m, funct3, a)
    BY <2>1, <2>2, OrCarries
  <2> QED BY <2>3
<1>6. Carries(Or(W), 7, 5, rd, 0)
  <2> PICK a \in 0 .. 30, m \in 0 .. 30, k \in 0 .. 31 : a = 0 /\ m = 5 /\ k = 7
    OBVIOUS
  <2>1. \A x \in W : x = Field(rd, a, m, k) \/ \A i \in k .. (k + m) - 1 : x[i] = 0
    BY FieldOutside DEF Bits
  <2>2. Field(rd, a, m, k) \in W /\ rd \in Int /\ a + m <= 31 /\ k + m <= 32
    OBVIOUS
  <2> HIDE DEF W
  <2>3. Carries(Or(W), k, m, rd, a)
    BY <2>1, <2>2, OrCarries
  <2> QED BY <2>3
<1>7. Carries(Or(W), 0, 7, opcode, 0)
  <2> PICK a \in 0 .. 30, m \in 0 .. 30, k \in 0 .. 31 : a = 0 /\ m = 7 /\ k = 0
    OBVIOUS
  <2>1. \A x \in W : x = Field(opcode, a, m, k) \/ \A i \in k .. (k + m) - 1 : x[i] = 0
    BY FieldOutside DEF Bits
  <2>2. Field(opcode, a, m, k) \in W /\ opcode \in Int /\ a + m <= 31 /\ k + m <= 32
    OBVIOUS
  <2> HIDE DEF W
  <2>3. Carries(Or(W), k, m, opcode, a)
    BY <2>1, <2>2, OrCarries
  <2> QED BY <2>3
<1> HIDE DEF W
<1> QED BY <1>2, <1>3, <1>4, <1>5, <1>6, <1>7, OrWord

LEMMA SType ==
    ASSUME NEW imm \in Int, NEW rs2 \in 0 .. 31, NEW rs1 \in 0 .. 31, NEW funct3 \in 0 .. 7, NEW opcode \in 0 .. 127
    PROVE  LET w == s_type(imm, rs2, rs1, funct3, opcode)
           IN  /\ w \in InstWord
               /\ Carries(w, 25, 7, imm, 5)
               /\ Carries(w, 20, 5, rs2, 0)
               /\ Carries(w, 15, 5, rs1, 0)
               /\ Carries(w, 12, 3, funct3, 0)
               /\ Carries(w, 7, 5, imm, 0)
               /\ Carries(w, 0, 7, opcode, 0)
<1>1. /\ Shl((imm % 2^12) \div 2^5, 25) = Field(imm, 5, 7, 25)
      /\ Shl(rs2, 20) = Field(rs2, 0, 5, 20)
      /\ Shl(rs1, 15) = Field(rs1, 0, 5, 15)
      /\ Shl(funct3, 12) = Field(funct3, 0, 3, 12)
      /\ Shl(imm % 2^5, 7) = Field(imm, 0, 5, 7)
      /\ ToBits(opcode) = Field(opcode, 0, 7, 0)
  BY Slices, Wholes, OpcodeField
<1> DEFINE W == {Field(imm, 5, 7, 25), Field(rs2, 0, 5, 20), Field(rs1, 0, 5, 15), Field(funct3, 0, 3, 12), Field(imm, 0, 5, 7), Field(opcode, 0, 7, 0)}
<1>2. s_type(imm, rs2, rs1, funct3, opcode) = Or(W)
  BY <1>1, Zenon DEF s_type
<1>3. Carries(Or(W), 25, 7, imm, 5)
  <2> PICK a \in 0 .. 30, m \in 0 .. 30, k \in 0 .. 31 : a = 5 /\ m = 7 /\ k = 25
    OBVIOUS
  <2>1. \A x \in W : x = Field(imm, a, m, k) \/ \A i \in k .. (k + m) - 1 : x[i] = 0
    BY FieldOutside DEF Bits
  <2>2. Field(imm, a, m, k) \in W /\ imm \in Int /\ a + m <= 31 /\ k + m <= 32
    OBVIOUS
  <2> HIDE DEF W
  <2>3. Carries(Or(W), k, m, imm, a)
    BY <2>1, <2>2, OrCarries
  <2> QED BY <2>3
<1>4. Carries(Or(W), 20, 5, rs2, 0)
  <2> PICK a \in 0 .. 30, m \in 0 .. 30, k \in 0 .. 31 : a = 0 /\ m = 5 /\ k = 20
    OBVIOUS
  <2>1. \A x \in W : x = Field(rs2, a, m, k) \/ \A i \in k .. (k + m) - 1 : x[i] = 0
    BY FieldOutside DEF Bits
  <2>2. Field(rs2, a, m, k) \in W /\ rs2 \in Int /\ a + m <= 31 /\ k + m <= 32
    OBVIOUS
  <2> HIDE DEF W
  <2>3. Carries(Or(W), k, m, rs2, a)
    BY <2>1, <2>2, OrCarries
  <2> QED BY <2>3
<1>5. Carries(Or(W), 15, 5, rs1, 0)
  <2> PICK a \in 0 .. 30, m \in 0 .. 30, k \in 0 .. 31 : a = 0 /\ m = 5 /\ k = 15
    OBVIOUS
  <2>1. \A x \in W : x = Field(rs1, a, m, k) \/ \A i \in k .. (k + m) - 1 : x[i] = 0
    BY FieldOutside DEF Bits
  <2>2. Field(rs1, a, m, k) \in W /\ rs1 \in Int /\ a + m <= 31 /\ k + m <= 32
    OBVIOUS
  <2> HIDE DEF W
  <2>3. Carries(Or(W), k, m, rs1, a)
    BY <2>1, <2>2, OrCarries
  <2> QED BY <2>3
<1>6. Carries(Or(W), 12, 3, funct3, 0)
  <2> PICK a \in 0 .. 30, m \in 0 .. 30, k \in 0 .. 31 : a = 0 /\ m = 3 /\ k = 12
    OBVIOUS
  <2>1. \A x \in W : x = Field(funct3, a, m, k) \/ \A i \in k .. (k + m) - 1 : x[i] = 0
    BY FieldOutside DEF Bits
  <2>2. Field(funct3, a, m, k) \in W /\ funct3 \in Int /\ a + m <= 31 /\ k + m <= 32
    OBVIOUS
  <2> HIDE DEF W
  <2>3. Carries(Or(W), k, m, funct3, a)
    BY <2>1, <2>2, OrCarries
  <2> QED BY <2>3
<1>7. Carries(Or(W), 7, 5, imm, 0)
  <2> PICK a \in 0 .. 30, m \in 0 .. 30, k \in 0 .. 31 : a = 0 /\ m = 5 /\ k = 7
    OBVIOUS
  <2>1. \A x \in W : x = Field(imm, a, m, k) \/ \A i \in k .. (k + m) - 1 : x[i] = 0
    BY FieldOutside DEF Bits
  <2>2. Field(imm, a, m, k) \in W /\ imm \in Int /\ a + m <= 31 /\ k + m <= 32
    OBVIOUS
  <2> HIDE DEF W
  <2>3. Carries(Or(W), k, m, imm, a)
    BY <2>1, <2>2, OrCarries
  <2> QED BY <2>3
<1>8. Carries(Or(W), 0, 7, opcode, 0)
  <2> PICK a \in 0 .. 30, m \in 0 .. 30, k \in 0 .. 31 : a = 0 /\ m = 7 /\ k = 0
    OBVIOUS
  <2>1. \A x \in W : x = Field(opcode, a, m, k) \/ \A i \in k .. (k + m) - 1 : x[i] = 0
    BY FieldOutside DEF Bits
  <2>2. Field(opcode, a, m, k) \in W /\ opcode \in Int /\ a + m <= 31 /\ k + m <= 32
    OBVIOUS
  <2> HIDE DEF W
  <2>3. Carries(Or(W), k, m, opcode, a)
    BY <2>1, <2>2, OrCarries
  <2> QED BY <2>3
<1> HIDE DEF W
<1> QED BY <1>2, <1>3, <1>4, <1>5, <1>6, <1>7, <1>8, OrWord

LEMMA BType ==
    ASSUME NEW imm \in Int, NEW rs2 \in 0 .. 31, NEW rs1 \in 0 .. 31, NEW funct3 \in 0 .. 7, NEW opcode \in 0 .. 127
    PROVE  LET w == b_type(imm, rs2, rs1, funct3, opcode)
           IN  /\ w \in InstWord
               /\ Carries(w, 31, 1, imm, 12)
               /\ Carries(w, 25, 6, imm, 5)
               /\ Carries(w, 20, 5, rs2, 0)
               /\ Carries(w, 15, 5, rs1, 0)
               /\ Carries(w, 12, 3, funct3, 0)
               /\ Carries(w, 8, 4, imm, 1)
               /\ Carries(w, 7, 1, imm, 11)
               /\ Carries(w, 0, 7, opcode, 0)
<1>1. /\ Shl((imm \div 2^12) % 2, 31) = Field(imm, 12, 1, 31)
      /\ Shl((imm \div 2^5) % 2^6, 25) = Field(imm, 5, 6, 25)
      /\ Shl(rs2, 20) = Field(rs2, 0, 5, 20)
      /\ Shl(rs1, 15) = Field(rs1, 0, 5, 15)
      /\ Shl(funct3, 12) = Field(funct3, 0, 3, 12)
      /\ Shl((imm \div 2) % 2^4, 8) = Field(imm, 1, 4, 8)
      /\ Shl((imm \div 2^11) % 2, 7) = Field(imm, 11, 1, 7)
      /\ ToBits(opcode) = Field(opcode, 0, 7, 0)
  BY Slices, Wholes, OpcodeField
<1> DEFINE W == {Field(imm, 12, 1, 31), Field(imm, 5, 6, 25), Field(rs2, 0, 5, 20), Field(rs1, 0, 5, 15), Field(funct3, 0, 3, 12), Field(imm, 1, 4, 8), Field(imm, 11, 1, 7), Field(opcode, 0, 7, 0)}
<1>2. b_type(imm, rs2, rs1, funct3, opcode) = Or(W)
  BY <1>1, Zenon DEF b_type
<1>3. Carries(Or(W), 31, 1, imm, 12)
  <2> PICK a \in 0 .. 30, m \in 0 .. 30, k \in 0 .. 31 : a = 12 /\ m = 1 /\ k = 31
    OBVIOUS
  <2>1. \A x \in W : x = Field(imm, a, m, k) \/ \A i \in k .. (k + m) - 1 : x[i] = 0
    BY FieldOutside DEF Bits
  <2>2. Field(imm, a, m, k) \in W /\ imm \in Int /\ a + m <= 31 /\ k + m <= 32
    OBVIOUS
  <2> HIDE DEF W
  <2>3. Carries(Or(W), k, m, imm, a)
    BY <2>1, <2>2, OrCarries
  <2> QED BY <2>3
<1>4. Carries(Or(W), 25, 6, imm, 5)
  <2> PICK a \in 0 .. 30, m \in 0 .. 30, k \in 0 .. 31 : a = 5 /\ m = 6 /\ k = 25
    OBVIOUS
  <2>1. \A x \in W : x = Field(imm, a, m, k) \/ \A i \in k .. (k + m) - 1 : x[i] = 0
    BY FieldOutside DEF Bits
  <2>2. Field(imm, a, m, k) \in W /\ imm \in Int /\ a + m <= 31 /\ k + m <= 32
    OBVIOUS
  <2> HIDE DEF W
  <2>3. Carries(Or(W), k, m, imm, a)
    BY <2>1, <2>2, OrCarries
  <2> QED BY <2>3
<1>5. Carries(Or(W), 20, 5, rs2, 0)
  <2> PICK a \in 0 .. 30, m \in 0 .. 30, k \in 0 .. 31 : a = 0 /\ m = 5 /\ k = 20
    OBVIOUS
  <2>1. \A x \in W : x = Field(rs2, a, m, k) \/ \A i \in k .. (k + m) - 1 : x[i] = 0
    BY FieldOutside DEF Bits
  <2>2. Field(rs2, a, m, k) \in W /\ rs2 \in Int /\ a + m <= 31 /\ k + m <= 32
    OBVIOUS
  <2> HIDE DEF W
  <2>3. Carries(Or(W), k, m, rs2, a)
    BY <2>1, <2>2, OrCarries
  <2> QED BY <2>3
<1>6. Carries(Or(W), 15, 5, rs1, 0)
  <2> PICK a \in 0 .. 30, m \in 0 .. 30, k \in 0 .. 31 : a = 0 /\ m = 5 /\ k = 15
    OBVIOUS
  <2>1. \A x \in W : x = Field(rs1, a, m, k) \/ \A i \in k .. (k + m) - 1 : x[i] = 0
    BY FieldOutside DEF Bits
  <2>2. Field(rs1, a, m, k) \in W /\ rs1 \in Int /\ a + m <= 31 /\ k + m <= 32
    OBVIOUS
  <2> HIDE DEF W
  <2>3. Carries(Or(W), k, m, rs1, a)
    BY <2>1, <2>2, OrCarries
  <2> QED BY <2>3
<1>7. Carries(Or(W), 12, 3, funct3, 0)
  <2> PICK a \in 0 .. 30, m \in 0 .. 30, k \in 0 .. 31 : a = 0 /\ m = 3 /\ k = 12
    OBVIOUS
  <2>1. \A x \in W : x = Field(funct3, a, m, k) \/ \A i \in k .. (k + m) - 1 : x[i] = 0
    BY FieldOutside DEF Bits
  <2>2. Field(funct3, a, m, k) \in W /\ funct3 \in Int /\ a + m <= 31 /\ k + m <= 32
    OBVIOUS
  <2> HIDE DEF W
  <2>3. Carries(Or(W), k, m, funct3, a)
    BY <2>1, <2>2, OrCarries
  <2> QED BY <2>3
<1>8. Carries(Or(W), 8, 4, imm, 1)
  <2> PICK a \in 0 .. 30, m \in 0 .. 30, k \in 0 .. 31 : a = 1 /\ m = 4 /\ k = 8
    OBVIOUS
  <2>1. \A x \in W : x = Field(imm, a, m, k) \/ \A i \in k .. (k + m) - 1 : x[i] = 0
    BY FieldOutside DEF Bits
  <2>2. Field(imm, a, m, k) \in W /\ imm \in Int /\ a + m <= 31 /\ k + m <= 32
    OBVIOUS
  <2> HIDE DEF W
  <2>3. Carries(Or(W), k, m, imm, a)
    BY <2>1, <2>2, OrCarries
  <2> QED BY <2>3
<1>9. Carries(Or(W), 7, 1, imm, 11)
  <2> PICK a \in 0 .. 30, m \in 0 .. 30, k \in 0 .. 31 : a = 11 /\ m = 1 /\ k = 7
    OBVIOUS
  <2>1. \A x \in W : x = Field(imm, a, m, k) \/ \A i \in k .. (k + m) - 1 : x[i] = 0
    BY FieldOutside DEF Bits
  <2>2. Field(imm, a, m, k) \in W /\ imm \in Int /\ a + m <= 31 /\ k + m <= 32
    OBVIOUS
  <2> HIDE DEF W
  <2>3. Carries(Or(W), k, m, imm, a)
    BY <2>1, <2>2, OrCarries
  <2> QED BY <2>3
<1>10. Carries(Or(W), 0, 7, opcode, 0)
  <2> PICK a \in 0 .. 30, m \in 0 .. 30, k \in 0 .. 31 : a = 0 /\ m = 7 /\ k = 0
    OBVIOUS
  <2>1. \A x \in W : x = Field(opcode, a, m, k) \/ \A i \in k .. (k + m) - 1 : x[i] = 0
    BY FieldOutside DEF Bits
  <2>2. Field(opcode, a, m, k) \in W /\ opcode \in Int /\ a + m <= 31 /\ k + m <= 32
    OBVIOUS
  <2> HIDE DEF W
  <2>3. Carries(Or(W), k, m, opcode, a)
    BY <2>1, <2>2, OrCarries
  <2> QED BY <2>3
<1> HIDE DEF W
<1> QED BY <1>2, <1>3, <1>4, <1>5, <1>6, <1>7, <1>8, <1>9, <1>10, OrWord

LEMMA UType ==
    ASSUME NEW imm \in Int, NEW rd \in 0 .. 31, NEW opcode \in 0 .. 127
    PROVE  LET w == u_type(imm, rd, opcode)
           IN  /\ w \in InstWord
               /\ Carries(w, 12, 20, imm, 0)
               /\ Carries(w, 7, 5, rd, 0)
               /\ Carries(w, 0, 7, opcode, 0)
<1>1. /\ Shl(imm % 2^20, 12) = Field(imm, 0, 20, 12)
      /\ Shl(rd, 7) = Field(rd, 0, 5, 7)
      /\ ToBits(opcode) = Field(opcode, 0, 7, 0)
  BY Slices, Wholes, OpcodeField
<1> DEFINE W == {Field(imm, 0, 20, 12), Field(rd, 0, 5, 7), Field(opcode, 0, 7, 0)}
<1>2. u_type(imm, rd, opcode) = Or(W)
  BY <1>1, Zenon DEF u_type
<1>3. Carries(Or(W), 12, 20, imm, 0)
  <2> PICK a \in 0 .. 30, m \in 0 .. 30, k \in 0 .. 31 : a = 0 /\ m = 20 /\ k = 12
    OBVIOUS
  <2>1. \A x \in W : x = Field(imm, a, m, k) \/ \A i \in k .. (k + m) - 1 : x[i] = 0
    BY FieldOutside DEF Bits
  <2>2. Field(imm, a, m, k) \in W /\ imm \in Int /\ a + m <= 31 /\ k + m <= 32
    OBVIOUS
  <2> HIDE DEF W
  <2>3. Carries(Or(W), k, m, imm, a)
    BY <2>1, <2>2, OrCarries
  <2> QED BY <2>3
<1>4. Carries(Or(W), 7, 5, rd, 0)
  <2> PICK a \in 0 .. 30, m \in 0 .. 30, k \in 0 .. 31 : a = 0 /\ m = 5 /\ k = 7
    OBVIOUS
  <2>1. \A x \in W : x = Field(rd, a, m, k) \/ \A i \in k .. (k + m) - 1 : x[i] = 0
    BY FieldOutside DEF Bits
  <2>2. Field(rd, a, m, k) \in W /\ rd \in Int /\ a + m <= 31 /\ k + m <= 32
    OBVIOUS
  <2> HIDE DEF W
  <2>3. Carries(Or(W), k, m, rd, a)
    BY <2>1, <2>2, OrCarries
  <2> QED BY <2>3
<1>5. Carries(Or(W), 0, 7, opcode, 0)
  <2> PICK a \in 0 .. 30, m \in 0 .. 30, k \in 0 .. 31 : a = 0 /\ m = 7 /\ k = 0
    OBVIOUS
  <2>1. \A x \in W : x = Field(opcode, a, m, k) \/ \A i \in k .. (k + m) - 1 : x[i] = 0
    BY FieldOutside DEF Bits
  <2>2. Field(opcode, a, m, k) \in W /\ opcode \in Int /\ a + m <= 31 /\ k + m <= 32
    OBVIOUS
  <2> HIDE DEF W
  <2>3. Carries(Or(W), k, m, opcode, a)
    BY <2>1, <2>2, OrCarries
  <2> QED BY <2>3
<1> HIDE DEF W
<1> QED BY <1>2, <1>3, <1>4, <1>5, OrWord

LEMMA JType ==
    ASSUME NEW imm \in Int, NEW rd \in 0 .. 31, NEW opcode \in 0 .. 127
    PROVE  LET w == j_type(imm, rd, opcode)
           IN  /\ w \in InstWord
               /\ Carries(w, 31, 1, imm, 20)
               /\ Carries(w, 21, 10, imm, 1)
               /\ Carries(w, 20, 1, imm, 11)
               /\ Carries(w, 12, 8, imm, 12)
               /\ Carries(w, 7, 5, rd, 0)
               /\ Carries(w, 0, 7, opcode, 0)
<1>1. /\ Shl((imm \div 2^20) % 2, 31) = Field(imm, 20, 1, 31)
      /\ Shl((imm \div 2) % 2^10, 21) = Field(imm, 1, 10, 21)
      /\ Shl((imm \div 2^11) % 2, 20) = Field(imm, 11, 1, 20)
      /\ Shl((imm \div 2^12) % 2^8, 12) = Field(imm, 12, 8, 12)
      /\ Shl(rd, 7) = Field(rd, 0, 5, 7)
      /\ ToBits(opcode) = Field(opcode, 0, 7, 0)
  BY Slices, Wholes, OpcodeField
<1> DEFINE W == {Field(imm, 20, 1, 31), Field(imm, 1, 10, 21), Field(imm, 11, 1, 20), Field(imm, 12, 8, 12), Field(rd, 0, 5, 7), Field(opcode, 0, 7, 0)}
<1>2. j_type(imm, rd, opcode) = Or(W)
  BY <1>1, Zenon DEF j_type
<1>3. Carries(Or(W), 31, 1, imm, 20)
  <2> PICK a \in 0 .. 30, m \in 0 .. 30, k \in 0 .. 31 : a = 20 /\ m = 1 /\ k = 31
    OBVIOUS
  <2>1. \A x \in W : x = Field(imm, a, m, k) \/ \A i \in k .. (k + m) - 1 : x[i] = 0
    BY FieldOutside DEF Bits
  <2>2. Field(imm, a, m, k) \in W /\ imm \in Int /\ a + m <= 31 /\ k + m <= 32
    OBVIOUS
  <2> HIDE DEF W
  <2>3. Carries(Or(W), k, m, imm, a)
    BY <2>1, <2>2, OrCarries
  <2> QED BY <2>3
<1>4. Carries(Or(W), 21, 10, imm, 1)
  <2> PICK a \in 0 .. 30, m \in 0 .. 30, k \in 0 .. 31 : a = 1 /\ m = 10 /\ k = 21
    OBVIOUS
  <2>1. \A x \in W : x = Field(imm, a, m, k) \/ \A i \in k .. (k + m) - 1 : x[i] = 0
    BY FieldOutside DEF Bits
  <2>2. Field(imm, a, m, k) \in W /\ imm \in Int /\ a + m <= 31 /\ k + m <= 32
    OBVIOUS
  <2> HIDE DEF W
  <2>3. Carries(Or(W), k, m, imm, a)
    BY <2>1, <2>2, OrCarries
  <2> QED BY <2>3
<1>5. Carries(Or(W), 20, 1, imm, 11)
  <2> PICK a \in 0 .. 30, m \in 0 .. 30, k \in 0 .. 31 : a = 11 /\ m = 1 /\ k = 20
    OBVIOUS
  <2>1. \A x \in W : x = Field(imm, a, m, k) \/ \A i \in k .. (k + m) - 1 : x[i] = 0
    BY FieldOutside DEF Bits
  <2>2. Field(imm, a, m, k) \in W /\ imm \in Int /\ a + m <= 31 /\ k + m <= 32
    OBVIOUS
  <2> HIDE DEF W
  <2>3. Carries(Or(W), k, m, imm, a)
    BY <2>1, <2>2, OrCarries
  <2> QED BY <2>3
<1>6. Carries(Or(W), 12, 8, imm, 12)
  <2> PICK a \in 0 .. 30, m \in 0 .. 30, k \in 0 .. 31 : a = 12 /\ m = 8 /\ k = 12
    OBVIOUS
  <2>1. \A x \in W : x = Field(imm, a, m, k) \/ \A i \in k .. (k + m) - 1 : x[i] = 0
    BY FieldOutside DEF Bits
  <2>2. Field(imm, a, m, k) \in W /\ imm \in Int /\ a + m <= 31 /\ k + m <= 32
    OBVIOUS
  <2> HIDE DEF W
  <2>3. Carries(Or(W), k, m, imm, a)
    BY <2>1, <2>2, OrCarries
  <2> QED BY <2>3
<1>7. Carries(Or(W), 7, 5, rd, 0)
  <2> PICK a \in 0 .. 30, m \in 0 .. 30, k \in 0 .. 31 : a = 0 /\ m = 5 /\ k = 7
    OBVIOUS
  <2>1. \A x \in W : x = Field(rd, a, m, k) \/ \A i \in k .. (k + m) - 1 : x[i] = 0
    BY FieldOutside DEF Bits
  <2>2. Field(rd, a, m, k) \in W /\ rd \in Int /\ a + m <= 31 /\ k + m <= 32
    OBVIOUS
  <2> HIDE DEF W
  <2>3. Carries(Or(W), k, m, rd, a)
    BY <2>1, <2>2, OrCarries
  <2> QED BY <2>3
<1>8. Carries(Or(W), 0, 7, opcode, 0)
  <2> PICK a \in 0 .. 30, m \in 0 .. 30, k \in 0 .. 31 : a = 0 /\ m = 7 /\ k = 0
    OBVIOUS
  <2>1. \A x \in W : x = Field(opcode, a, m, k) \/ \A i \in k .. (k + m) - 1 : x[i] = 0
    BY FieldOutside DEF Bits
  <2>2. Field(opcode, a, m, k) \in W /\ opcode \in Int /\ a + m <= 31 /\ k + m <= 32
    OBVIOUS
  <2> HIDE DEF W
  <2>3. Carries(Or(W), k, m, opcode, a)
    BY <2>1, <2>2, OrCarries
  <2> QED BY <2>3
<1> HIDE DEF W
<1> QED BY <1>2, <1>3, <1>4, <1>5, <1>6, <1>7, <1>8, OrWord

-----------------------------------------------------------------------------
(* Immediates: the same word to both decoders *)

\* Bit i of a sequence of bits, counted from its low end.
Low(s, i) == s[Len(s) - i]

\* The bits of a concatenation u of s and t.
Joined(u, s, t) ==
    /\ u \in Seq(Int) /\ Len(u) = Len(s) + Len(t)
    /\ \A i \in Nat : i < Len(t) => Low(u, i) = Low(t, i)
    /\ \A i \in Nat : Len(t) <= i /\ i < Len(s) + Len(t) => Low(u, i) = Low(s, i - Len(t))

LEMMA Join == \A s, t \in Seq(Int) : Joined(s \o t, s, t)
<1> SUFFICES ASSUME NEW s \in Seq(Int), NEW t \in Seq(Int) PROVE Joined(s \o t, s, t)
  OBVIOUS
<1> PICK m \in Nat, l \in Nat : m = Len(s) /\ l = Len(t)
  OBVIOUS
<1>1. s \o t \in Seq(Int) /\ Len(s \o t) = m + l
  OBVIOUS
<1>2. \A i \in Nat : Low(s \o t, i) = (s \o t)[(m + l) - i]
  BY <1>1 DEF Low
<1>3. ASSUME NEW i \in Nat, l <= i, i < m + l PROVE Low(s \o t, i) = Low(s, i - l)
  <2>1. (m + l) - i \in 1 .. m /\ m - (i - l) = (m + l) - i
    BY <1>3
  <2>2. (s \o t)[(m + l) - i] = s[(m + l) - i]
    BY <2>1
  <2> QED BY <1>2, <2>1, <2>2 DEF Low
<1>4. ASSUME NEW i \in Nat, i < l PROVE Low(s \o t, i) = Low(t, i)
  <2>1. l - i \in 1 .. l /\ m + (l - i) = (m + l) - i /\ ~((m + l) - i <= m)
    BY <1>4
  <2>2. (s \o t)[(m + l) - i] = t[l - i]
    BY <2>1
  <2> QED BY <1>2, <2>2 DEF Low
<1> QED BY <1>1, <1>3, <1>4 DEF Joined

\* s is a sequence of n bits, and its low ones are those of w from position lo.
IsPart(s, w, lo, n) ==
    /\ s \in [1 .. n -> Int] /\ s \in Seq(Int) /\ Len(s) = n
    /\ \A k \in 1 .. n : s[k] \in {0, 1}
    /\ \A i \in Nat : i < n => Low(s, i) = w[lo + i]

LEMMA Part_31_20 == \A w \in InstWord : IsPart(Part(w, 31, 20), w, 20, 12)
<1> SUFFICES ASSUME NEW w \in InstWord PROVE IsPart(Part(w, 31, 20), w, 20, 12)
  OBVIOUS
<1> PICK s : s = Part(w, 31, 20)
  OBVIOUS
<1>1. /\ s \in [1 .. 12 -> Int] /\ s \in Seq(Int) /\ Len(s) = 12
      /\ \A k \in 1 .. 12 : s[k] = w[32 - k] /\ s[k] \in {0, 1}
  BY DEF Part, InstWord, Bits
<1>2. ASSUME NEW i \in Nat, i < 12 PROVE Low(s, i) = w[20 + i]
  <2>0. Low(s, i) = s[12 - i]
    BY <1>1 DEF Low
  <2>1. 12 - i \in 1 .. 12 /\ 32 - (12 - i) = 20 + i
    BY <1>2
  <2> QED BY <1>1, <2>0, <2>1
<1> QED BY <1>1, <1>2 DEF IsPart

LEMMA Part_31_25 == \A w \in InstWord : IsPart(Part(w, 31, 25), w, 25, 7)
<1> SUFFICES ASSUME NEW w \in InstWord PROVE IsPart(Part(w, 31, 25), w, 25, 7)
  OBVIOUS
<1> PICK s : s = Part(w, 31, 25)
  OBVIOUS
<1>1. /\ s \in [1 .. 7 -> Int] /\ s \in Seq(Int) /\ Len(s) = 7
      /\ \A k \in 1 .. 7 : s[k] = w[32 - k] /\ s[k] \in {0, 1}
  BY DEF Part, InstWord, Bits
<1>2. ASSUME NEW i \in Nat, i < 7 PROVE Low(s, i) = w[25 + i]
  <2>0. Low(s, i) = s[7 - i]
    BY <1>1 DEF Low
  <2>1. 7 - i \in 1 .. 7 /\ 32 - (7 - i) = 25 + i
    BY <1>2
  <2> QED BY <1>1, <2>0, <2>1
<1> QED BY <1>1, <1>2 DEF IsPart

LEMMA Part_11_7 == \A w \in InstWord : IsPart(Part(w, 11, 7), w, 7, 5)
<1> SUFFICES ASSUME NEW w \in InstWord PROVE IsPart(Part(w, 11, 7), w, 7, 5)
  OBVIOUS
<1> PICK s : s = Part(w, 11, 7)
  OBVIOUS
<1>1. /\ s \in [1 .. 5 -> Int] /\ s \in Seq(Int) /\ Len(s) = 5
      /\ \A k \in 1 .. 5 : s[k] = w[12 - k] /\ s[k] \in {0, 1}
  BY DEF Part, InstWord, Bits
<1>2. ASSUME NEW i \in Nat, i < 5 PROVE Low(s, i) = w[7 + i]
  <2>0. Low(s, i) = s[5 - i]
    BY <1>1 DEF Low
  <2>1. 5 - i \in 1 .. 5 /\ 12 - (5 - i) = 7 + i
    BY <1>2
  <2> QED BY <1>1, <2>0, <2>1
<1> QED BY <1>1, <1>2 DEF IsPart

LEMMA Part_30_25 == \A w \in InstWord : IsPart(Part(w, 30, 25), w, 25, 6)
<1> SUFFICES ASSUME NEW w \in InstWord PROVE IsPart(Part(w, 30, 25), w, 25, 6)
  OBVIOUS
<1> PICK s : s = Part(w, 30, 25)
  OBVIOUS
<1>1. /\ s \in [1 .. 6 -> Int] /\ s \in Seq(Int) /\ Len(s) = 6
      /\ \A k \in 1 .. 6 : s[k] = w[31 - k] /\ s[k] \in {0, 1}
  BY DEF Part, InstWord, Bits
<1>2. ASSUME NEW i \in Nat, i < 6 PROVE Low(s, i) = w[25 + i]
  <2>0. Low(s, i) = s[6 - i]
    BY <1>1 DEF Low
  <2>1. 6 - i \in 1 .. 6 /\ 31 - (6 - i) = 25 + i
    BY <1>2
  <2> QED BY <1>1, <2>0, <2>1
<1> QED BY <1>1, <1>2 DEF IsPart

LEMMA Part_11_8 == \A w \in InstWord : IsPart(Part(w, 11, 8), w, 8, 4)
<1> SUFFICES ASSUME NEW w \in InstWord PROVE IsPart(Part(w, 11, 8), w, 8, 4)
  OBVIOUS
<1> PICK s : s = Part(w, 11, 8)
  OBVIOUS
<1>1. /\ s \in [1 .. 4 -> Int] /\ s \in Seq(Int) /\ Len(s) = 4
      /\ \A k \in 1 .. 4 : s[k] = w[12 - k] /\ s[k] \in {0, 1}
  BY DEF Part, InstWord, Bits
<1>2. ASSUME NEW i \in Nat, i < 4 PROVE Low(s, i) = w[8 + i]
  <2>0. Low(s, i) = s[4 - i]
    BY <1>1 DEF Low
  <2>1. 4 - i \in 1 .. 4 /\ 12 - (4 - i) = 8 + i
    BY <1>2
  <2> QED BY <1>1, <2>0, <2>1
<1> QED BY <1>1, <1>2 DEF IsPart

LEMMA Part_31_12 == \A w \in InstWord : IsPart(Part(w, 31, 12), w, 12, 20)
<1> SUFFICES ASSUME NEW w \in InstWord PROVE IsPart(Part(w, 31, 12), w, 12, 20)
  OBVIOUS
<1> PICK s : s = Part(w, 31, 12)
  OBVIOUS
<1>1. /\ s \in [1 .. 20 -> Int] /\ s \in Seq(Int) /\ Len(s) = 20
      /\ \A k \in 1 .. 20 : s[k] = w[32 - k] /\ s[k] \in {0, 1}
  BY DEF Part, InstWord, Bits
<1>2. ASSUME NEW i \in Nat, i < 20 PROVE Low(s, i) = w[12 + i]
  <2>0. Low(s, i) = s[20 - i]
    BY <1>1 DEF Low
  <2>1. 20 - i \in 1 .. 20 /\ 32 - (20 - i) = 12 + i
    BY <1>2
  <2> QED BY <1>1, <2>0, <2>1
<1> QED BY <1>1, <1>2 DEF IsPart

LEMMA Part_19_12 == \A w \in InstWord : IsPart(Part(w, 19, 12), w, 12, 8)
<1> SUFFICES ASSUME NEW w \in InstWord PROVE IsPart(Part(w, 19, 12), w, 12, 8)
  OBVIOUS
<1> PICK s : s = Part(w, 19, 12)
  OBVIOUS
<1>1. /\ s \in [1 .. 8 -> Int] /\ s \in Seq(Int) /\ Len(s) = 8
      /\ \A k \in 1 .. 8 : s[k] = w[20 - k] /\ s[k] \in {0, 1}
  BY DEF Part, InstWord, Bits
<1>2. ASSUME NEW i \in Nat, i < 8 PROVE Low(s, i) = w[12 + i]
  <2>0. Low(s, i) = s[8 - i]
    BY <1>1 DEF Low
  <2>1. 8 - i \in 1 .. 8 /\ 20 - (8 - i) = 12 + i
    BY <1>2
  <2> QED BY <1>1, <2>0, <2>1
<1> QED BY <1>1, <1>2 DEF IsPart

LEMMA Part_30_21 == \A w \in InstWord : IsPart(Part(w, 30, 21), w, 21, 10)
<1> SUFFICES ASSUME NEW w \in InstWord PROVE IsPart(Part(w, 30, 21), w, 21, 10)
  OBVIOUS
<1> PICK s : s = Part(w, 30, 21)
  OBVIOUS
<1>1. /\ s \in [1 .. 10 -> Int] /\ s \in Seq(Int) /\ Len(s) = 10
      /\ \A k \in 1 .. 10 : s[k] = w[31 - k] /\ s[k] \in {0, 1}
  BY DEF Part, InstWord, Bits
<1>2. ASSUME NEW i \in Nat, i < 10 PROVE Low(s, i) = w[21 + i]
  <2>0. Low(s, i) = s[10 - i]
    BY <1>1 DEF Low
  <2>1. 10 - i \in 1 .. 10 /\ 31 - (10 - i) = 21 + i
    BY <1>2
  <2> QED BY <1>1, <2>0, <2>1
<1> QED BY <1>1, <1>2 DEF IsPart

LEMMA Part_31_31 == \A w \in InstWord : IsPart(Part(w, 31, 31), w, 31, 1)
<1> SUFFICES ASSUME NEW w \in InstWord PROVE IsPart(Part(w, 31, 31), w, 31, 1)
  OBVIOUS
<1> PICK s : s = Part(w, 31, 31)
  OBVIOUS
<1>1. /\ s \in [1 .. 1 -> Int] /\ s \in Seq(Int) /\ Len(s) = 1
      /\ \A k \in 1 .. 1 : s[k] = w[32 - k] /\ s[k] \in {0, 1}
  BY DEF Part, InstWord, Bits
<1>2. ASSUME NEW i \in Nat, i < 1 PROVE Low(s, i) = w[31 + i]
  <2>0. Low(s, i) = s[1 - i]
    BY <1>1 DEF Low
  <2>1. 1 - i \in 1 .. 1 /\ 32 - (1 - i) = 31 + i
    BY <1>2
  <2> QED BY <1>1, <2>0, <2>1
<1> QED BY <1>1, <1>2 DEF IsPart

LEMMA Part_7_7 == \A w \in InstWord : IsPart(Part(w, 7, 7), w, 7, 1)
<1> SUFFICES ASSUME NEW w \in InstWord PROVE IsPart(Part(w, 7, 7), w, 7, 1)
  OBVIOUS
<1> PICK s : s = Part(w, 7, 7)
  OBVIOUS
<1>1. /\ s \in [1 .. 1 -> Int] /\ s \in Seq(Int) /\ Len(s) = 1
      /\ \A k \in 1 .. 1 : s[k] = w[8 - k] /\ s[k] \in {0, 1}
  BY DEF Part, InstWord, Bits
<1>2. ASSUME NEW i \in Nat, i < 1 PROVE Low(s, i) = w[7 + i]
  <2>0. Low(s, i) = s[1 - i]
    BY <1>1 DEF Low
  <2>1. 1 - i \in 1 .. 1 /\ 8 - (1 - i) = 7 + i
    BY <1>2
  <2> QED BY <1>1, <2>0, <2>1
<1> QED BY <1>1, <1>2 DEF IsPart

LEMMA Part_20_20 == \A w \in InstWord : IsPart(Part(w, 20, 20), w, 20, 1)
<1> SUFFICES ASSUME NEW w \in InstWord PROVE IsPart(Part(w, 20, 20), w, 20, 1)
  OBVIOUS
<1> PICK s : s = Part(w, 20, 20)
  OBVIOUS
<1>1. /\ s \in [1 .. 1 -> Int] /\ s \in Seq(Int) /\ Len(s) = 1
      /\ \A k \in 1 .. 1 : s[k] = w[21 - k] /\ s[k] \in {0, 1}
  BY DEF Part, InstWord, Bits
<1>2. ASSUME NEW i \in Nat, i < 1 PROVE Low(s, i) = w[20 + i]
  <2>0. Low(s, i) = s[1 - i]
    BY <1>1 DEF Low
  <2>1. 1 - i \in 1 .. 1 /\ 21 - (1 - i) = 20 + i
    BY <1>2
  <2> QED BY <1>1, <2>0, <2>1
<1> QED BY <1>1, <1>2 DEF IsPart

LEMMA Repeats ==
    \A n \in Nat, b \in {0, 1} : /\ Repeat(n, b) \in Seq(Int) /\ Len(Repeat(n, b)) = n
                                 /\ \A i \in Nat : i < n => Low(Repeat(n, b), i) = b
  BY DEF Repeat, Low

LEMMA Single ==
    \A b \in {0, 1} : /\ <<b>> \in Seq(Int) /\ <<b>> \in [1 .. 1 -> Int] /\ Len(<<b>>) = 1
                      /\ Low(<<b>>, 0) = b
  BY DEF Low

LEMMA Concatenation ==
    ASSUME NEW s \in Seq(Int), Len(s) = 32
    PROVE  Concat(s) = [i \in Bits |-> Low(s, i)]
  BY DEF Concat, Low

\* The value of a sequence of bits, extended with its sign.
LEMMA SignExtend ==
    ASSUME NEW m \in 1 .. 30, NEW s \in [1 .. m -> Int], \A k \in 1 .. m : s[k] \in {0, 1}
    PROVE  \A i \in Bits : ToBits(to_signed(Number(s), m))[i] =
                              IF i < m THEN s[m - i] ELSE s[1]
<1>m. m \in Nat /\ m <= 30 /\ m \in 0 .. 31 /\ m \in 0 .. 30 /\ m - 1 \in 0 .. 30
      /\ m - 1 \in 0 .. 31 /\ (m - 1) + 1 = m /\ m - (m - 1) = 1
  BY ONLY m \in 1 .. 30
<1> PICK h \in Nat \ {0} : h = Pow[m - 1] /\ 2 * h = Pow[m]
  BY <1>m, PowStep
<1>1. 2^(m - 1) = h /\ 2^m = 2 * h
  BY <1>m DEF Pow
<1>2. /\ Number(s) \in 0 .. Pow[m] - 1
      /\ \A i \in Bits : ToBits(Number(s))[i] = IF i < m THEN s[m - i] ELSE 0
  BY <1>m, BitsOfNumber
<1> PICK v \in Int : v = Number(s) /\ v \in 0 .. (2 * h) - 1
  BY <1>2
<1>3. to_signed(v, m) = IF v >= h THEN v - 2 * h ELSE v
  BY <1>1 DEF to_signed
<1> PICK n \in Int : n = to_signed(v, m) /\ n = IF v >= h THEN v - 2 * h ELSE v
  BY <1>3
<1>v. v \in 0 .. (2 * h) - 1
  OBVIOUS
<1>n. n = IF v >= h THEN v - 2 * h ELSE v
  OBVIOUS
<1>4. n \in -h .. h - 1 /\ (n < 0 <=> v >= h)
  BY ONLY h \in Nat \ {0}, v \in Int, n \in Int, <1>v, <1>n
<1>5. n % (2 * h) = v
  <2>1. CASE v >= h
    <3>1. n = (2 * h) * (-1) + v /\ 2 * h \in Nat \ {0} /\ -1 \in Int
      BY ONLY h \in Nat \ {0}, v \in Int, n \in Int, <1>n, <2>1
    <3> PICK p \in Nat \ {0}, q \in Int, r \in Int : p = 2 * h /\ q = -1 /\ r = v
      OBVIOUS
    <3>2. n = p * q + r /\ r \in 0 .. p - 1
      BY <3>1
    <3>3. n % p = r
      BY ONLY <3>2, p \in Nat \ {0}, q \in Int, Quotient
    <3> QED BY <3>3
  <2>2. CASE ~(v >= h)
    <3> PICK p \in Nat \ {0}, q \in Int, r \in Int : p = 2 * h /\ q = 0 /\ r = v
      OBVIOUS
    <3>2. n = p * q + r /\ r \in 0 .. p - 1
      BY <2>2
    <3>3. n % p = r
      BY ONLY <3>2, p \in Nat \ {0}, q \in Int, Quotient
    <3> QED BY <3>3
  <2> QED BY <2>1, <2>2
<1>6. \A i \in Bits : i < m => ToBits(n)[i] = ToBits(v)[i]
  <2>1. n % Pow[m] = v
    BY <1>5
  <2> QED BY <1>m, <2>1, BitsLow
<1>7. \A i \in m - 1 .. 31 : ToBits(n)[i] = IF n < 0 THEN 1 ELSE 0
  <2>1. n \in -Pow[m - 1] .. Pow[m - 1] - 1
    BY <1>4
  <2> QED BY <1>m, <2>1, BitsSmall
<1>8. s[1] = IF n < 0 THEN 1 ELSE 0
  <2>1. m - 1 \in Bits /\ m - 1 < m /\ m - 1 \in m - 1 .. 31
    BY <1>m DEF Bits
  <2> QED BY <1>m, <1>2, <1>6, <1>7, <2>1
<1>9. ASSUME NEW i \in Bits PROVE ToBits(n)[i] = IF i < m THEN s[m - i] ELSE s[1]
  <2>1. CASE i < m
    BY <1>2, <1>6, <2>1
  <2>2. CASE ~(i < m)
    <3>1. i \in m - 1 .. 31
      BY <2>2, <1>m DEF Bits
    <3> QED BY <1>7, <1>8, <2>2, <3>1
  <2> QED BY <2>1, <2>2
<1> QED BY <1>9

\* The bits of each immediate.
Immediate(w, fmt, i) ==
    CASE fmt = "I" -> IF i <= 10 THEN w[i + 20] ELSE w[31]
      [] fmt = "S" -> IF i <= 4 THEN w[i + 7] ELSE IF i <= 10 THEN w[i + 20] ELSE w[31]
      [] fmt = "B" -> IF i = 0 THEN 0 ELSE IF i <= 4 THEN w[i + 7]
                      ELSE IF i <= 10 THEN w[i + 20] ELSE IF i = 11 THEN w[7] ELSE w[31]
      [] fmt = "U" -> IF i <= 11 THEN 0 ELSE w[i]
      [] fmt = "J" -> IF i = 0 THEN 0 ELSE IF i <= 10 THEN w[i + 20]
                      ELSE IF i = 11 THEN w[20] ELSE IF i <= 19 THEN w[i] ELSE w[31]

\* What the RTL concatenates.
LEMMA RtlImmediate ==
    ASSUME NEW w \in InstWord, NEW fmt \in Formats
    PROVE  imm_gen(w, fmt) = [i \in Bits |-> Immediate(w, fmt, i)]
<1>b. w[31] \in {0, 1} /\ w[7] \in {0, 1} /\ w[20] \in {0, 1}
  BY DEF InstWord, Bits
<1>i. \A i \in Bits : i \in Int /\ 0 <= i /\ i <= 31
  BY DEF Bits
<1>1. CASE fmt = "I"
  <2> PICK a : a = Repeat(20, w[31])
    OBVIOUS
  <2>1. a \in Seq(Int) /\ Len(a) = 20 /\ \A i \in Nat : i < 20 => Low(a, i) = w[31]
    BY <1>b, Repeats
  <2>2. \A i \in Nat : 0 <= i /\ i < 20 => Low(a, i) = w[31]
    BY ONLY <2>1
  <2> PICK b : b = Part(w, 31, 20)
    OBVIOUS
  <2>3. b \in Seq(Int) /\ Len(b) = 12 /\ \A i \in Nat : i < 12 => Low(b, i) = w[20 + i]
    BY Part_31_20 DEF IsPart
  <2>4. \A i \in Nat : 0 <= i /\ i < 12 => Low(b, i) = w[i + 20]
    BY ONLY <2>3
  <2> PICK sb : sb = a \o b
    OBVIOUS
  <2>5. Joined(sb, a, b)
    BY <2>1, <2>3, Join
  <2>6. sb \in Seq(Int) /\ Len(sb) = 32
    BY ONLY <2>1, <2>3, <2>5 DEF Joined
  <2>7. \A i \in Nat : 0 <= i /\ i < 12 => Low(sb, i) = w[i + 20]
    BY ONLY <2>3, <2>4, <2>5 DEF Joined
  <2>8. \A i \in Nat : 12 <= i /\ i < 32 => Low(sb, i) = w[31]
    <3>1. Len(a) = 20 /\ Len(b) = 12
      BY <2>1, <2>3
    <3>2. \A i \in Nat : 12 <= i /\ i < 32 => Low(sb, i) = Low(a, i - 12)
      BY ONLY <2>5, <3>1 DEF Joined
    <3>3. \A i \in Nat : 12 <= i /\ i < 32 => i - 12 \in Nat /\ 0 <= i - 12 /\ i - 12 < 20
      BY ONLY TRUE
    <3> QED BY ONLY <2>2, <3>2, <3>3
  <2>9. imm_gen(w, fmt) = Concat(sb)
    BY <1>1 DEF imm_gen
  <2>10. Concat(sb) = [i \in Bits |-> Low(sb, i)]
    BY ONLY <2>6, Concatenation
  <2>11. ASSUME NEW i \in Bits PROVE Low(sb, i) = Immediate(w, fmt, i)
    BY ONLY <1>1, <1>i, i \in Bits, <2>7, <2>8 DEF Immediate
  <2> QED BY ONLY <2>9, <2>10, <2>11
<1>2. CASE fmt = "S"
  <2> PICK a : a = Repeat(20, w[31])
    OBVIOUS
  <2>1. a \in Seq(Int) /\ Len(a) = 20 /\ \A i \in Nat : i < 20 => Low(a, i) = w[31]
    BY <1>b, Repeats
  <2>2. \A i \in Nat : 0 <= i /\ i < 20 => Low(a, i) = w[31]
    BY ONLY <2>1
  <2> PICK b : b = Part(w, 31, 25)
    OBVIOUS
  <2>3. b \in Seq(Int) /\ Len(b) = 7 /\ \A i \in Nat : i < 7 => Low(b, i) = w[25 + i]
    BY Part_31_25 DEF IsPart
  <2>4. \A i \in Nat : 0 <= i /\ i < 7 => Low(b, i) = w[i + 25]
    BY ONLY <2>3
  <2> PICK sb : sb = a \o b
    OBVIOUS
  <2>5. Joined(sb, a, b)
    BY <2>1, <2>3, Join
  <2>6. sb \in Seq(Int) /\ Len(sb) = 27
    BY ONLY <2>1, <2>3, <2>5 DEF Joined
  <2>7. \A i \in Nat : 0 <= i /\ i < 7 => Low(sb, i) = w[i + 25]
    BY ONLY <2>3, <2>4, <2>5 DEF Joined
  <2>8. \A i \in Nat : 7 <= i /\ i < 27 => Low(sb, i) = w[31]
    BY ONLY <2>1, <2>3, <2>2, <2>5 DEF Joined
  <2> PICK c : c = Part(w, 11, 7)
    OBVIOUS
  <2>9. c \in Seq(Int) /\ Len(c) = 5 /\ \A i \in Nat : i < 5 => Low(c, i) = w[7 + i]
    BY Part_11_7 DEF IsPart
  <2>10. \A i \in Nat : 0 <= i /\ i < 5 => Low(c, i) = w[i + 7]
    BY ONLY <2>9
  <2> PICK sc : sc = sb \o c
    OBVIOUS
  <2>11. Joined(sc, sb, c)
    BY <2>6, <2>9, Join
  <2>12. sc \in Seq(Int) /\ Len(sc) = 32
    BY ONLY <2>6, <2>9, <2>11 DEF Joined
  <2>13. \A i \in Nat : 0 <= i /\ i < 5 => Low(sc, i) = w[i + 7]
    BY ONLY <2>9, <2>10, <2>11 DEF Joined
  <2>14. \A i \in Nat : 5 <= i /\ i < 12 => Low(sc, i) = w[i + 20]
    <3> SUFFICES ASSUME NEW i \in Nat, 5 <= i, i < 12 PROVE Low(sc, i) = w[i + 20]
      OBVIOUS
    <3>1. i - 5 \in Nat /\ 0 <= i - 5 /\ i - 5 < 7 /\ (i - 5) + 25 = i + 20
      BY ONLY i \in Nat, 5 <= i, i < 12
    <3>2. Low(sc, i) = Low(sb, i - 5)
      BY ONLY <2>6, <2>9, <2>11, i \in Nat, 5 <= i, i < 12 DEF Joined
    <3> QED BY ONLY <2>7, <3>1, <3>2
  <2>15. \A i \in Nat : 12 <= i /\ i < 32 => Low(sc, i) = w[31]
    BY ONLY <2>6, <2>9, <2>8, <2>11 DEF Joined
  <2>16. imm_gen(w, fmt) = Concat(sc)
    BY <1>2 DEF imm_gen
  <2>17. Concat(sc) = [i \in Bits |-> Low(sc, i)]
    BY ONLY <2>12, Concatenation
  <2>18. ASSUME NEW i \in Bits PROVE Low(sc, i) = Immediate(w, fmt, i)
    BY ONLY <1>2, <1>i, i \in Bits, <2>13, <2>14, <2>15 DEF Immediate
  <2> QED BY ONLY <2>16, <2>17, <2>18
<1>3. CASE fmt = "B"
  <2> PICK a : a = Repeat(19, w[31])
    OBVIOUS
  <2>1. a \in Seq(Int) /\ Len(a) = 19 /\ \A i \in Nat : i < 19 => Low(a, i) = w[31]
    BY <1>b, Repeats
  <2>2. \A i \in Nat : 0 <= i /\ i < 19 => Low(a, i) = w[31]
    BY ONLY <2>1
  <2> PICK b : b = <<w[31], w[7]>>
    OBVIOUS
  <2>3. b \in Seq(Int) /\ Len(b) = 2 /\ Low(b, 0) = w[7] /\ Low(b, 1) = w[31]
    BY <1>b DEF Low
  <2>4. \A i \in Nat : 0 <= i /\ i < 1 => Low(b, i) = w[7]
    BY ONLY <2>3
  <2>5. \A i \in Nat : 1 <= i /\ i < 2 => Low(b, i) = w[31]
    BY ONLY <2>3
  <2> PICK sb : sb = a \o b
    OBVIOUS
  <2>6. Joined(sb, a, b)
    BY <2>1, <2>3, Join
  <2>7. sb \in Seq(Int) /\ Len(sb) = 21
    BY ONLY <2>1, <2>3, <2>6 DEF Joined
  <2>8. \A i \in Nat : 0 <= i /\ i < 1 => Low(sb, i) = w[7]
    BY ONLY <2>3, <2>4, <2>6 DEF Joined
  <2>9. \A i \in Nat : 1 <= i /\ i < 2 => Low(sb, i) = w[31]
    BY ONLY <2>3, <2>5, <2>6 DEF Joined
  <2>10. \A i \in Nat : 2 <= i /\ i < 21 => Low(sb, i) = w[31]
    BY ONLY <2>1, <2>3, <2>2, <2>6 DEF Joined
  <2> PICK c : c = Part(w, 30, 25)
    OBVIOUS
  <2>11. c \in Seq(Int) /\ Len(c) = 6 /\ \A i \in Nat : i < 6 => Low(c, i) = w[25 + i]
    BY Part_30_25 DEF IsPart
  <2>12. \A i \in Nat : 0 <= i /\ i < 6 => Low(c, i) = w[i + 25]
    BY ONLY <2>11
  <2> PICK sc : sc = sb \o c
    OBVIOUS
  <2>13. Joined(sc, sb, c)
    BY <2>7, <2>11, Join
  <2>14. sc \in Seq(Int) /\ Len(sc) = 27
    BY ONLY <2>7, <2>11, <2>13 DEF Joined
  <2>15. \A i \in Nat : 0 <= i /\ i < 6 => Low(sc, i) = w[i + 25]
    BY ONLY <2>11, <2>12, <2>13 DEF Joined
  <2>16. \A i \in Nat : 6 <= i /\ i < 7 => Low(sc, i) = w[7]
    BY ONLY <2>7, <2>11, <2>8, <2>13 DEF Joined
  <2>17. \A i \in Nat : 7 <= i /\ i < 8 => Low(sc, i) = w[31]
    BY ONLY <2>7, <2>11, <2>9, <2>13 DEF Joined
  <2>18. \A i \in Nat : 8 <= i /\ i < 27 => Low(sc, i) = w[31]
    BY ONLY <2>7, <2>11, <2>10, <2>13 DEF Joined
  <2> PICK d : d = Part(w, 11, 8)
    OBVIOUS
  <2>19. d \in Seq(Int) /\ Len(d) = 4 /\ \A i \in Nat : i < 4 => Low(d, i) = w[8 + i]
    BY Part_11_8 DEF IsPart
  <2>20. \A i \in Nat : 0 <= i /\ i < 4 => Low(d, i) = w[i + 8]
    BY ONLY <2>19
  <2> PICK sd : sd = sc \o d
    OBVIOUS
  <2>21. Joined(sd, sc, d)
    BY <2>14, <2>19, Join
  <2>22. sd \in Seq(Int) /\ Len(sd) = 31
    BY ONLY <2>14, <2>19, <2>21 DEF Joined
  <2>23. \A i \in Nat : 0 <= i /\ i < 4 => Low(sd, i) = w[i + 8]
    BY ONLY <2>19, <2>20, <2>21 DEF Joined
  <2>24. \A i \in Nat : 4 <= i /\ i < 10 => Low(sd, i) = w[i + 21]
    <3> SUFFICES ASSUME NEW i \in Nat, 4 <= i, i < 10 PROVE Low(sd, i) = w[i + 21]
      OBVIOUS
    <3>1. i - 4 \in Nat /\ 0 <= i - 4 /\ i - 4 < 6 /\ (i - 4) + 25 = i + 21
      BY ONLY i \in Nat, 4 <= i, i < 10
    <3>2. Low(sd, i) = Low(sc, i - 4)
      BY ONLY <2>14, <2>19, <2>21, i \in Nat, 4 <= i, i < 10 DEF Joined
    <3> QED BY ONLY <2>15, <3>1, <3>2
  <2>25. \A i \in Nat : 10 <= i /\ i < 11 => Low(sd, i) = w[7]
    BY ONLY <2>14, <2>19, <2>16, <2>21 DEF Joined
  <2>26. \A i \in Nat : 11 <= i /\ i < 12 => Low(sd, i) = w[31]
    BY ONLY <2>14, <2>19, <2>17, <2>21 DEF Joined
  <2>27. \A i \in Nat : 12 <= i /\ i < 31 => Low(sd, i) = w[31]
    BY ONLY <2>14, <2>19, <2>18, <2>21 DEF Joined
  <2> PICK e : e = <<0>>
    OBVIOUS
  <2>28. e \in Seq(Int) /\ Len(e) = 1 /\ Low(e, 0) = 0
    BY Single
  <2>29. \A i \in Nat : 0 <= i /\ i < 1 => Low(e, i) = 0
    BY ONLY <2>28
  <2> PICK se : se = sd \o e
    OBVIOUS
  <2>30. Joined(se, sd, e)
    BY <2>22, <2>28, Join
  <2>31. se \in Seq(Int) /\ Len(se) = 32
    BY ONLY <2>22, <2>28, <2>30 DEF Joined
  <2>32. \A i \in Nat : 0 <= i /\ i < 1 => Low(se, i) = 0
    BY ONLY <2>28, <2>29, <2>30 DEF Joined
  <2>33. \A i \in Nat : 1 <= i /\ i < 5 => Low(se, i) = w[i + 7]
    <3> SUFFICES ASSUME NEW i \in Nat, 1 <= i, i < 5 PROVE Low(se, i) = w[i + 7]
      OBVIOUS
    <3>1. i - 1 \in Nat /\ 0 <= i - 1 /\ i - 1 < 4 /\ (i - 1) + 8 = i + 7
      BY ONLY i \in Nat, 1 <= i, i < 5
    <3>2. Low(se, i) = Low(sd, i - 1)
      BY ONLY <2>22, <2>28, <2>30, i \in Nat, 1 <= i, i < 5 DEF Joined
    <3> QED BY ONLY <2>23, <3>1, <3>2
  <2>34. \A i \in Nat : 5 <= i /\ i < 11 => Low(se, i) = w[i + 20]
    <3> SUFFICES ASSUME NEW i \in Nat, 5 <= i, i < 11 PROVE Low(se, i) = w[i + 20]
      OBVIOUS
    <3>1. i - 1 \in Nat /\ 4 <= i - 1 /\ i - 1 < 10 /\ (i - 1) + 21 = i + 20
      BY ONLY i \in Nat, 5 <= i, i < 11
    <3>2. Low(se, i) = Low(sd, i - 1)
      BY ONLY <2>22, <2>28, <2>30, i \in Nat, 5 <= i, i < 11 DEF Joined
    <3> QED BY ONLY <2>24, <3>1, <3>2
  <2>35. \A i \in Nat : 11 <= i /\ i < 12 => Low(se, i) = w[7]
    BY ONLY <2>22, <2>28, <2>25, <2>30 DEF Joined
  <2>36. \A i \in Nat : 12 <= i /\ i < 13 => Low(se, i) = w[31]
    BY ONLY <2>22, <2>28, <2>26, <2>30 DEF Joined
  <2>37. \A i \in Nat : 13 <= i /\ i < 32 => Low(se, i) = w[31]
    BY ONLY <2>22, <2>28, <2>27, <2>30 DEF Joined
  <2>38. imm_gen(w, fmt) = Concat(se)
    BY <1>3 DEF imm_gen, imm_B
  <2>39. Concat(se) = [i \in Bits |-> Low(se, i)]
    BY ONLY <2>31, Concatenation
  <2>40. ASSUME NEW i \in Bits PROVE Low(se, i) = Immediate(w, fmt, i)
    BY ONLY <1>3, <1>i, i \in Bits, <2>32, <2>33, <2>34, <2>35, <2>36, <2>37 DEF Immediate
  <2> QED BY ONLY <2>38, <2>39, <2>40
<1>4. CASE fmt = "U"
  <2> PICK a : a = Part(w, 31, 12)
    OBVIOUS
  <2>1. a \in Seq(Int) /\ Len(a) = 20 /\ \A i \in Nat : i < 20 => Low(a, i) = w[12 + i]
    BY Part_31_12 DEF IsPart
  <2>2. \A i \in Nat : 0 <= i /\ i < 20 => Low(a, i) = w[i + 12]
    BY ONLY <2>1
  <2> PICK b : b = Repeat(12, 0)
    OBVIOUS
  <2>3. b \in Seq(Int) /\ Len(b) = 12 /\ \A i \in Nat : i < 12 => Low(b, i) = 0
    BY Repeats
  <2>4. \A i \in Nat : 0 <= i /\ i < 12 => Low(b, i) = 0
    BY ONLY <2>3
  <2> PICK sb : sb = a \o b
    OBVIOUS
  <2>5. Joined(sb, a, b)
    BY <2>1, <2>3, Join
  <2>6. sb \in Seq(Int) /\ Len(sb) = 32
    BY ONLY <2>1, <2>3, <2>5 DEF Joined
  <2>7. \A i \in Nat : 0 <= i /\ i < 12 => Low(sb, i) = 0
    BY ONLY <2>3, <2>4, <2>5 DEF Joined
  <2>8. \A i \in Nat : 12 <= i /\ i < 32 => Low(sb, i) = w[i]
    <3> SUFFICES ASSUME NEW i \in Nat, 12 <= i, i < 32 PROVE Low(sb, i) = w[i]
      OBVIOUS
    <3>1. i - 12 \in Nat /\ 0 <= i - 12 /\ i - 12 < 20 /\ (i - 12) + 12 = i
      BY ONLY i \in Nat, 12 <= i, i < 32
    <3>2. Low(sb, i) = Low(a, i - 12)
      BY ONLY <2>1, <2>3, <2>5, i \in Nat, 12 <= i, i < 32 DEF Joined
    <3> QED BY ONLY <2>2, <3>1, <3>2
  <2>9. imm_gen(w, fmt) = Concat(sb)
    BY <1>4 DEF imm_gen
  <2>10. Concat(sb) = [i \in Bits |-> Low(sb, i)]
    BY ONLY <2>6, Concatenation
  <2>11. ASSUME NEW i \in Bits PROVE Low(sb, i) = Immediate(w, fmt, i)
    BY ONLY <1>4, <1>i, i \in Bits, <2>7, <2>8 DEF Immediate
  <2> QED BY ONLY <2>9, <2>10, <2>11
<1>5. CASE fmt = "J"
  <2> PICK a : a = Repeat(11, w[31])
    OBVIOUS
  <2>1. a \in Seq(Int) /\ Len(a) = 11 /\ \A i \in Nat : i < 11 => Low(a, i) = w[31]
    BY <1>b, Repeats
  <2>2. \A i \in Nat : 0 <= i /\ i < 11 => Low(a, i) = w[31]
    BY ONLY <2>1
  <2> PICK b : b = <<w[31]>>
    OBVIOUS
  <2>3. b \in Seq(Int) /\ Len(b) = 1 /\ Low(b, 0) = w[31]
    BY <1>b, Single
  <2>4. \A i \in Nat : 0 <= i /\ i < 1 => Low(b, i) = w[31]
    BY ONLY <2>3
  <2> PICK sb : sb = a \o b
    OBVIOUS
  <2>5. Joined(sb, a, b)
    BY <2>1, <2>3, Join
  <2>6. sb \in Seq(Int) /\ Len(sb) = 12
    BY ONLY <2>1, <2>3, <2>5 DEF Joined
  <2>7. \A i \in Nat : 0 <= i /\ i < 1 => Low(sb, i) = w[31]
    BY ONLY <2>3, <2>4, <2>5 DEF Joined
  <2>8. \A i \in Nat : 1 <= i /\ i < 12 => Low(sb, i) = w[31]
    BY ONLY <2>1, <2>3, <2>2, <2>5 DEF Joined
  <2> PICK c : c = Part(w, 19, 12)
    OBVIOUS
  <2>9. c \in Seq(Int) /\ Len(c) = 8 /\ \A i \in Nat : i < 8 => Low(c, i) = w[12 + i]
    BY Part_19_12 DEF IsPart
  <2>10. \A i \in Nat : 0 <= i /\ i < 8 => Low(c, i) = w[i + 12]
    BY ONLY <2>9
  <2> PICK sc : sc = sb \o c
    OBVIOUS
  <2>11. Joined(sc, sb, c)
    BY <2>6, <2>9, Join
  <2>12. sc \in Seq(Int) /\ Len(sc) = 20
    BY ONLY <2>6, <2>9, <2>11 DEF Joined
  <2>13. \A i \in Nat : 0 <= i /\ i < 8 => Low(sc, i) = w[i + 12]
    BY ONLY <2>9, <2>10, <2>11 DEF Joined
  <2>14. \A i \in Nat : 8 <= i /\ i < 9 => Low(sc, i) = w[31]
    BY ONLY <2>6, <2>9, <2>7, <2>11 DEF Joined
  <2>15. \A i \in Nat : 9 <= i /\ i < 20 => Low(sc, i) = w[31]
    BY ONLY <2>6, <2>9, <2>8, <2>11 DEF Joined
  <2> PICK d : d = <<w[20]>>
    OBVIOUS
  <2>16. d \in Seq(Int) /\ Len(d) = 1 /\ Low(d, 0) = w[20]
    BY <1>b, Single
  <2>17. \A i \in Nat : 0 <= i /\ i < 1 => Low(d, i) = w[20]
    BY ONLY <2>16
  <2> PICK sd : sd = sc \o d
    OBVIOUS
  <2>18. Joined(sd, sc, d)
    BY <2>12, <2>16, Join
  <2>19. sd \in Seq(Int) /\ Len(sd) = 21
    BY ONLY <2>12, <2>16, <2>18 DEF Joined
  <2>20. \A i \in Nat : 0 <= i /\ i < 1 => Low(sd, i) = w[20]
    BY ONLY <2>16, <2>17, <2>18 DEF Joined
  <2>21. \A i \in Nat : 1 <= i /\ i < 9 => Low(sd, i) = w[i + 11]
    <3> SUFFICES ASSUME NEW i \in Nat, 1 <= i, i < 9 PROVE Low(sd, i) = w[i + 11]
      OBVIOUS
    <3>1. i - 1 \in Nat /\ 0 <= i - 1 /\ i - 1 < 8 /\ (i - 1) + 12 = i + 11
      BY ONLY i \in Nat, 1 <= i, i < 9
    <3>2. Low(sd, i) = Low(sc, i - 1)
      BY ONLY <2>12, <2>16, <2>18, i \in Nat, 1 <= i, i < 9 DEF Joined
    <3> QED BY ONLY <2>13, <3>1, <3>2
  <2>22. \A i \in Nat : 9 <= i /\ i < 10 => Low(sd, i) = w[31]
    BY ONLY <2>12, <2>16, <2>14, <2>18 DEF Joined
  <2>23. \A i \in Nat : 10 <= i /\ i < 21 => Low(sd, i) = w[31]
    BY ONLY <2>12, <2>16, <2>15, <2>18 DEF Joined
  <2> PICK e : e = Part(w, 30, 21)
    OBVIOUS
  <2>24. e \in Seq(Int) /\ Len(e) = 10 /\ \A i \in Nat : i < 10 => Low(e, i) = w[21 + i]
    BY Part_30_21 DEF IsPart
  <2>25. \A i \in Nat : 0 <= i /\ i < 10 => Low(e, i) = w[i + 21]
    BY ONLY <2>24
  <2> PICK se : se = sd \o e
    OBVIOUS
  <2>26. Joined(se, sd, e)
    BY <2>19, <2>24, Join
  <2>27. se \in Seq(Int) /\ Len(se) = 31
    BY ONLY <2>19, <2>24, <2>26 DEF Joined
  <2>28. \A i \in Nat : 0 <= i /\ i < 10 => Low(se, i) = w[i + 21]
    BY ONLY <2>24, <2>25, <2>26 DEF Joined
  <2>29. \A i \in Nat : 10 <= i /\ i < 11 => Low(se, i) = w[20]
    BY ONLY <2>19, <2>24, <2>20, <2>26 DEF Joined
  <2>30. \A i \in Nat : 11 <= i /\ i < 19 => Low(se, i) = w[i + 1]
    <3> SUFFICES ASSUME NEW i \in Nat, 11 <= i, i < 19 PROVE Low(se, i) = w[i + 1]
      OBVIOUS
    <3>1. i - 10 \in Nat /\ 1 <= i - 10 /\ i - 10 < 9 /\ (i - 10) + 11 = i + 1
      BY ONLY i \in Nat, 11 <= i, i < 19
    <3>2. Low(se, i) = Low(sd, i - 10)
      BY ONLY <2>19, <2>24, <2>26, i \in Nat, 11 <= i, i < 19 DEF Joined
    <3> QED BY ONLY <2>21, <3>1, <3>2
  <2>31. \A i \in Nat : 19 <= i /\ i < 20 => Low(se, i) = w[31]
    BY ONLY <2>19, <2>24, <2>22, <2>26 DEF Joined
  <2>32. \A i \in Nat : 20 <= i /\ i < 31 => Low(se, i) = w[31]
    BY ONLY <2>19, <2>24, <2>23, <2>26 DEF Joined
  <2> PICK g : g = <<0>>
    OBVIOUS
  <2>33. g \in Seq(Int) /\ Len(g) = 1 /\ Low(g, 0) = 0
    BY Single
  <2>34. \A i \in Nat : 0 <= i /\ i < 1 => Low(g, i) = 0
    BY ONLY <2>33
  <2> PICK sg : sg = se \o g
    OBVIOUS
  <2>35. Joined(sg, se, g)
    BY <2>27, <2>33, Join
  <2>36. sg \in Seq(Int) /\ Len(sg) = 32
    BY ONLY <2>27, <2>33, <2>35 DEF Joined
  <2>37. \A i \in Nat : 0 <= i /\ i < 1 => Low(sg, i) = 0
    BY ONLY <2>33, <2>34, <2>35 DEF Joined
  <2>38. \A i \in Nat : 1 <= i /\ i < 11 => Low(sg, i) = w[i + 20]
    <3> SUFFICES ASSUME NEW i \in Nat, 1 <= i, i < 11 PROVE Low(sg, i) = w[i + 20]
      OBVIOUS
    <3>1. i - 1 \in Nat /\ 0 <= i - 1 /\ i - 1 < 10 /\ (i - 1) + 21 = i + 20
      BY ONLY i \in Nat, 1 <= i, i < 11
    <3>2. Low(sg, i) = Low(se, i - 1)
      BY ONLY <2>27, <2>33, <2>35, i \in Nat, 1 <= i, i < 11 DEF Joined
    <3> QED BY ONLY <2>28, <3>1, <3>2
  <2>39. \A i \in Nat : 11 <= i /\ i < 12 => Low(sg, i) = w[20]
    BY ONLY <2>27, <2>33, <2>29, <2>35 DEF Joined
  <2>40. \A i \in Nat : 12 <= i /\ i < 20 => Low(sg, i) = w[i]
    <3> SUFFICES ASSUME NEW i \in Nat, 12 <= i, i < 20 PROVE Low(sg, i) = w[i]
      OBVIOUS
    <3>1. i - 1 \in Nat /\ 11 <= i - 1 /\ i - 1 < 19 /\ (i - 1) + 1 = i
      BY ONLY i \in Nat, 12 <= i, i < 20
    <3>2. Low(sg, i) = Low(se, i - 1)
      BY ONLY <2>27, <2>33, <2>35, i \in Nat, 12 <= i, i < 20 DEF Joined
    <3> QED BY ONLY <2>30, <3>1, <3>2
  <2>41. \A i \in Nat : 20 <= i /\ i < 21 => Low(sg, i) = w[31]
    BY ONLY <2>27, <2>33, <2>31, <2>35 DEF Joined
  <2>42. \A i \in Nat : 21 <= i /\ i < 32 => Low(sg, i) = w[31]
    BY ONLY <2>27, <2>33, <2>32, <2>35 DEF Joined
  <2>43. imm_gen(w, fmt) = Concat(sg)
    BY <1>5 DEF imm_gen, imm_J
  <2>44. Concat(sg) = [i \in Bits |-> Low(sg, i)]
    BY ONLY <2>36, Concatenation
  <2>45. ASSUME NEW i \in Bits PROVE Low(sg, i) = Immediate(w, fmt, i)
    BY ONLY <1>5, <1>i, i \in Bits, <2>37, <2>38, <2>39, <2>40, <2>41, <2>42 DEF Immediate
  <2> QED BY ONLY <2>43, <2>44, <2>45
<1> QED BY <1>1, <1>2, <1>3, <1>4, <1>5 DEF Formats

-----------------------------------------------------------------------------
(* What the golden model computes from shifted fields *)

LEMMA NumberType == \A s \in Seq(Int) : Number(s) \in Int
<1> SUFFICES ASSUME NEW s \in Seq(Int) PROVE Number(s) \in Int
  OBVIOUS
<1> PICK m \in Nat : m = Len(s) /\ s \in [1 .. m -> Int]
  OBVIOUS
<1> PICK g \in [0 .. m -> Int] : Reading(m, s, g)
  BY NumberSteps
<1>1. m \in 0 .. m
  OBVIOUS
<1> QED BY <1>1 DEF Reading

LEMMA NumberJoined ==
    \A s, t \in Seq(Int) : Len(t) <= 31 => Number(s \o t) = Pow[Len(t)] * Number(s) + Number(t)
<1> SUFFICES ASSUME NEW s \in Seq(Int), NEW t \in Seq(Int), Len(t) <= 31
             PROVE  Number(s \o t) = Pow[Len(t)] * Number(s) + Number(t)
  OBVIOUS
<1> PICK m \in Nat : m = Len(s) /\ s \in [1 .. m -> Int]
  OBVIOUS
<1> PICK l \in Nat : l = Len(t) /\ t \in [1 .. l -> Int]
  OBVIOUS
<1> QED BY NumberJoin

\* The number zero, from its only digit.
LEMMA NumberZero == Number(<<0>>) = 0
<1> PICK m \in Nat : m = 1
  OBVIOUS
<1> PICK s : s = <<0>>
  OBVIOUS
<1>1. s \in [1 .. m -> Int] /\ s[1] = 0
  OBVIOUS
<1>2. PICK g \in [0 .. m -> Int] : Reading(m, s, g)
  <2>1. s \in [1 .. m -> Int]
    BY <1>1
  <2> QED BY ONLY m \in Nat, <2>1, NumberSteps
<1> QED BY <1>1, <1>2 DEF Reading

\* SignExtend, of bits counted from the low end.
LEMMA Extended ==
    ASSUME NEW m \in 1 .. 30, NEW s \in Seq(Int), Len(s) = m,
           \A i \in Nat : i < m => Low(s, i) \in {0, 1}
    PROVE  /\ \A i \in Bits : i < m => ToBits(to_signed(Number(s), m))[i] = Low(s, i)
           /\ \A i \in Bits : m - 1 <= i =>
                 ToBits(to_signed(Number(s), m))[i] = Low(s, m - 1)
<1>1. s \in [1 .. m -> Int]
  OBVIOUS
<1>2. ASSUME NEW k \in 1 .. m PROVE s[k] \in {0, 1}
  <2>1. m - k \in Nat /\ m - k < m /\ m - (m - k) = k
    OBVIOUS
  <2>2. Low(s, m - k) = s[k]
    BY <2>1 DEF Low
  <2> QED BY <2>1, <2>2
<1>3. \A i \in Bits : ToBits(to_signed(Number(s), m))[i] = IF i < m THEN s[m - i] ELSE s[1]
  BY <1>1, <1>2, SignExtend
<1>4. \A i : Low(s, i) = s[m - i]
  BY DEF Low
<1>5. m - (m - 1) = 1
  OBVIOUS
<1>6. ASSUME NEW i \in Bits, m - 1 <= i
      PROVE  ToBits(to_signed(Number(s), m))[i] = Low(s, m - 1)
  <2>1. i < m => i = m - 1
    BY <1>6 DEF Bits
  <2> QED BY <1>3, <1>4, <1>5, <2>1
<1> QED BY <1>3, <1>4, <1>6

LEMMA ToBitsWord == \A n : ToBits(n) = [i \in Bits |-> ToBits(n)[i]]
  BY DEF ToBits

\* What the golden model computes.
LEMMA IssImmediate ==
    ASSUME NEW w \in InstWord, NEW fmt \in Formats
    PROVE  iss_imm(w, fmt) = [i \in Bits |-> Immediate(w, fmt, i)]
<1>i. \A i \in Bits : i \in Int /\ 0 <= i /\ i <= 31
  BY DEF Bits
<1>w. \A i \in Nat : i <= 31 => w[i] \in {0, 1}
  BY DEF InstWord, Bits
<1>1. CASE fmt = "I"
  <2> PICK a : a = Part(w, 31, 20)
    OBVIOUS
  <2>1. a \in Seq(Int) /\ Len(a) = 12 /\ \A i \in Nat : i < 12 => Low(a, i) = w[20 + i]
    BY Part_31_20 DEF IsPart
  <2>2. \A i \in Nat : 0 <= i /\ i < 12 => Low(a, i) = w[i + 20]
    BY ONLY <2>1
  <2> PICK na \in Int : na = Number(a)
    BY ONLY <2>1, NumberType
  <2>3. bits(w, 31, 20) = na
    BY DEF bits
  <2>4. \A i \in Nat : i < 12 => Low(a, i) \in {0, 1}
    BY ONLY <1>w, <2>2
  <2>5. iss_imm(w, fmt) = ToBits(to_signed(na, 12))
    <3>1. iss_imm(w, fmt) = ToBits(to_signed(bits(w, 31, 20), 12))
      BY ONLY <1>1 DEF iss_imm
    <3>2. bits(w, 31, 20) = na
      BY ONLY Literals, <2>3, na \in Int, SMT
    <3> QED BY ONLY <3>1, <3>2, Zenon
  <2>6. Low(a, 11) = w[31]
    BY ONLY <2>2
  <2> PICK m \in 1 .. 30 : m = 12
    OBVIOUS
  <2>7. /\ \A i \in Bits : i < m => ToBits(to_signed(na, m))[i] = Low(a, i)
        /\ \A i \in Bits : m - 1 <= i => ToBits(to_signed(na, m))[i] = Low(a, m - 1)
    <3>1. Len(a) = m /\ a \in Seq(Int) /\ \A i \in Nat : i < m => Low(a, i) \in {0, 1}
      BY ONLY <2>1, <2>4, m = 12
    <3>2. /\ \A i \in Bits : i < m => ToBits(to_signed(Number(a), m))[i] = Low(a, i)
          /\ \A i \in Bits : m - 1 <= i => ToBits(to_signed(Number(a), m))[i] = Low(a, m - 1)
      BY ONLY <3>1, m \in 1 .. 30, Extended
    <3> QED BY ONLY <3>2, na = Number(a)
  <2>8. ASSUME NEW i \in Bits PROVE ToBits(to_signed(na, m))[i] = Immediate(w, fmt, i)
    BY ONLY <1>1, <1>i, i \in Bits, m = 12, <2>6, <2>7, <2>2 DEF Immediate
  <2> QED BY ONLY <2>5, <2>8, m = 12, ToBitsWord
<1>2. CASE fmt = "S"
  <2> PICK a : a = Part(w, 31, 25)
    OBVIOUS
  <2>1. a \in Seq(Int) /\ Len(a) = 7 /\ \A i \in Nat : i < 7 => Low(a, i) = w[25 + i]
    BY Part_31_25 DEF IsPart
  <2>2. \A i \in Nat : 0 <= i /\ i < 7 => Low(a, i) = w[i + 25]
    BY ONLY <2>1
  <2> PICK na \in Int : na = Number(a)
    BY ONLY <2>1, NumberType
  <2>3. bits(w, 31, 25) = na
    BY DEF bits
  <2> PICK b : b = Part(w, 11, 7)
    OBVIOUS
  <2>4. b \in Seq(Int) /\ Len(b) = 5 /\ \A i \in Nat : i < 5 => Low(b, i) = w[7 + i]
    BY Part_11_7 DEF IsPart
  <2>5. \A i \in Nat : 0 <= i /\ i < 5 => Low(b, i) = w[i + 7]
    BY ONLY <2>4
  <2> PICK nb \in Int : nb = Number(b)
    BY ONLY <2>4, NumberType
  <2>6. bits(w, 11, 7) = nb
    BY DEF bits
  <2> PICK sb : sb = a \o b
    OBVIOUS
  <2>7. Joined(sb, a, b)
    BY <2>1, <2>4, Join
  <2>8. sb \in Seq(Int) /\ Len(sb) = 12
    BY ONLY <2>1, <2>4, <2>7 DEF Joined
  <2> PICK nsb \in Int : nsb = Number(sb)
    BY ONLY <2>8, NumberType
  <2>9. nsb = 32 * na + nb
    <3>1. a \in Seq(Int) /\ b \in Seq(Int) /\ Len(b) <= 31 /\ Len(b) = 5
      BY ONLY <2>1, <2>4
    <3>2. Number(a \o b) = Pow[Len(b)] * Number(a) + Number(b)
      BY ONLY <3>1, NumberJoined
    <3>3. Pow[5] = 32
      BY PowValues
    <3> QED BY ONLY <3>1, <3>2, <3>3, sb = a \o b, nsb = Number(sb), na = Number(a),
                nb = Number(b), nsb \in Int, na \in Int, nb \in Int, SMT
  <2>10. \A i \in Nat : 0 <= i /\ i < 5 => Low(sb, i) = w[i + 7]
    BY ONLY <2>4, <2>5, <2>7 DEF Joined
  <2>11. \A i \in Nat : 5 <= i /\ i < 12 => Low(sb, i) = w[i + 20]
    <3> SUFFICES ASSUME NEW i \in Nat, 5 <= i, i < 12 PROVE Low(sb, i) = w[i + 20]
      OBVIOUS
    <3>1. i - 5 \in Nat /\ 0 <= i - 5 /\ i - 5 < 7 /\ (i - 5) + 25 = i + 20
      BY ONLY i \in Nat, 5 <= i, i < 12
    <3>2. Low(sb, i) = Low(a, i - 5)
      BY ONLY <2>1, <2>4, <2>7, i \in Nat, 5 <= i, i < 12 DEF Joined
    <3> QED BY ONLY <2>2, <3>1, <3>2
  <2>12. \A i \in Nat : i < 12 => Low(sb, i) \in {0, 1}
    BY ONLY <1>w, <2>10, <2>11
  <2>13. iss_imm(w, fmt) = ToBits(to_signed(nsb, 12))
    <3>1. iss_imm(w, fmt) = ToBits(to_signed(bits(w, 31, 25) * 2^5 + bits(w, 11, 7), 12))
      BY ONLY <1>2 DEF iss_imm
    <3>2. bits(w, 31, 25) * 2^5 + bits(w, 11, 7) = nsb
      BY ONLY Literals, <2>3, <2>6, <2>9, na \in Int, nb \in Int, nsb \in Int, SMT
    <3> QED BY ONLY <3>1, <3>2, Zenon
  <2>14. Low(sb, 11) = w[31]
    BY ONLY <2>10, <2>11
  <2> PICK m \in 1 .. 30 : m = 12
    OBVIOUS
  <2>15. /\ \A i \in Bits : i < m => ToBits(to_signed(nsb, m))[i] = Low(sb, i)
         /\ \A i \in Bits : m - 1 <= i => ToBits(to_signed(nsb, m))[i] = Low(sb, m - 1)
    <3>1. Len(sb) = m /\ sb \in Seq(Int) /\ \A i \in Nat : i < m => Low(sb, i) \in {0, 1}
      BY ONLY <2>8, <2>12, m = 12
    <3>2. /\ \A i \in Bits : i < m => ToBits(to_signed(Number(sb), m))[i] = Low(sb, i)
          /\ \A i \in Bits : m - 1 <= i => ToBits(to_signed(Number(sb), m))[i] = Low(sb, m - 1)
      BY ONLY <3>1, m \in 1 .. 30, Extended
    <3> QED BY ONLY <3>2, nsb = Number(sb)
  <2>16. ASSUME NEW i \in Bits PROVE ToBits(to_signed(nsb, m))[i] = Immediate(w, fmt, i)
    BY ONLY <1>2, <1>i, i \in Bits, m = 12, <2>14, <2>15, <2>10, <2>11 DEF Immediate
  <2> QED BY ONLY <2>13, <2>16, m = 12, ToBitsWord
<1>3. CASE fmt = "B"
  <2> PICK a : a = Part(w, 31, 31)
    OBVIOUS
  <2>1. a \in Seq(Int) /\ Len(a) = 1 /\ \A i \in Nat : i < 1 => Low(a, i) = w[31 + i]
    BY Part_31_31 DEF IsPart
  <2>2. \A i \in Nat : 0 <= i /\ i < 1 => Low(a, i) = w[i + 31]
    BY ONLY <2>1
  <2> PICK na \in Int : na = Number(a)
    BY ONLY <2>1, NumberType
  <2>3. bits(w, 31, 31) = na
    BY DEF bits
  <2> PICK b : b = Part(w, 7, 7)
    OBVIOUS
  <2>4. b \in Seq(Int) /\ Len(b) = 1 /\ \A i \in Nat : i < 1 => Low(b, i) = w[7 + i]
    BY Part_7_7 DEF IsPart
  <2>5. \A i \in Nat : 0 <= i /\ i < 1 => Low(b, i) = w[i + 7]
    BY ONLY <2>4
  <2> PICK nb \in Int : nb = Number(b)
    BY ONLY <2>4, NumberType
  <2>6. bits(w, 7, 7) = nb
    BY DEF bits
  <2> PICK sb : sb = a \o b
    OBVIOUS
  <2>7. Joined(sb, a, b)
    BY <2>1, <2>4, Join
  <2>8. sb \in Seq(Int) /\ Len(sb) = 2
    BY ONLY <2>1, <2>4, <2>7 DEF Joined
  <2> PICK nsb \in Int : nsb = Number(sb)
    BY ONLY <2>8, NumberType
  <2>9. nsb = 2 * na + nb
    <3>1. a \in Seq(Int) /\ b \in Seq(Int) /\ Len(b) <= 31 /\ Len(b) = 1
      BY ONLY <2>1, <2>4
    <3>2. Number(a \o b) = Pow[Len(b)] * Number(a) + Number(b)
      BY ONLY <3>1, NumberJoined
    <3>3. Pow[1] = 2
      BY PowValues
    <3> QED BY ONLY <3>1, <3>2, <3>3, sb = a \o b, nsb = Number(sb), na = Number(a),
                nb = Number(b), nsb \in Int, na \in Int, nb \in Int, SMT
  <2>10. \A i \in Nat : 0 <= i /\ i < 1 => Low(sb, i) = w[i + 7]
    BY ONLY <2>4, <2>5, <2>7 DEF Joined
  <2>11. \A i \in Nat : 1 <= i /\ i < 2 => Low(sb, i) = w[i + 30]
    <3> SUFFICES ASSUME NEW i \in Nat, 1 <= i, i < 2 PROVE Low(sb, i) = w[i + 30]
      OBVIOUS
    <3>1. i - 1 \in Nat /\ 0 <= i - 1 /\ i - 1 < 1 /\ (i - 1) + 31 = i + 30
      BY ONLY i \in Nat, 1 <= i, i < 2
    <3>2. Low(sb, i) = Low(a, i - 1)
      BY ONLY <2>1, <2>4, <2>7, i \in Nat, 1 <= i, i < 2 DEF Joined
    <3> QED BY ONLY <2>2, <3>1, <3>2
  <2> PICK c : c = Part(w, 30, 25)
    OBVIOUS
  <2>12. c \in Seq(Int) /\ Len(c) = 6 /\ \A i \in Nat : i < 6 => Low(c, i) = w[25 + i]
    BY Part_30_25 DEF IsPart
  <2>13. \A i \in Nat : 0 <= i /\ i < 6 => Low(c, i) = w[i + 25]
    BY ONLY <2>12
  <2> PICK nc \in Int : nc = Number(c)
    BY ONLY <2>12, NumberType
  <2>14. bits(w, 30, 25) = nc
    BY DEF bits
  <2> PICK sc : sc = sb \o c
    OBVIOUS
  <2>15. Joined(sc, sb, c)
    BY <2>8, <2>12, Join
  <2>16. sc \in Seq(Int) /\ Len(sc) = 8
    BY ONLY <2>8, <2>12, <2>15 DEF Joined
  <2> PICK nsc \in Int : nsc = Number(sc)
    BY ONLY <2>16, NumberType
  <2>17. nsc = 64 * nsb + nc
    <3>1. sb \in Seq(Int) /\ c \in Seq(Int) /\ Len(c) <= 31 /\ Len(c) = 6
      BY ONLY <2>8, <2>12
    <3>2. Number(sb \o c) = Pow[Len(c)] * Number(sb) + Number(c)
      BY ONLY <3>1, NumberJoined
    <3>3. Pow[6] = 64
      BY PowValues
    <3> QED BY ONLY <3>1, <3>2, <3>3, sc = sb \o c, nsc = Number(sc), nsb = Number(sb),
                nc = Number(c), nsc \in Int, nsb \in Int, nc \in Int, SMT
  <2>18. \A i \in Nat : 0 <= i /\ i < 6 => Low(sc, i) = w[i + 25]
    BY ONLY <2>12, <2>13, <2>15 DEF Joined
  <2>19. \A i \in Nat : 6 <= i /\ i < 7 => Low(sc, i) = w[i + 1]
    <3> SUFFICES ASSUME NEW i \in Nat, 6 <= i, i < 7 PROVE Low(sc, i) = w[i + 1]
      OBVIOUS
    <3>1. i - 6 \in Nat /\ 0 <= i - 6 /\ i - 6 < 1 /\ (i - 6) + 7 = i + 1
      BY ONLY i \in Nat, 6 <= i, i < 7
    <3>2. Low(sc, i) = Low(sb, i - 6)
      BY ONLY <2>8, <2>12, <2>15, i \in Nat, 6 <= i, i < 7 DEF Joined
    <3> QED BY ONLY <2>10, <3>1, <3>2
  <2>20. \A i \in Nat : 7 <= i /\ i < 8 => Low(sc, i) = w[i + 24]
    <3> SUFFICES ASSUME NEW i \in Nat, 7 <= i, i < 8 PROVE Low(sc, i) = w[i + 24]
      OBVIOUS
    <3>1. i - 6 \in Nat /\ 1 <= i - 6 /\ i - 6 < 2 /\ (i - 6) + 30 = i + 24
      BY ONLY i \in Nat, 7 <= i, i < 8
    <3>2. Low(sc, i) = Low(sb, i - 6)
      BY ONLY <2>8, <2>12, <2>15, i \in Nat, 7 <= i, i < 8 DEF Joined
    <3> QED BY ONLY <2>11, <3>1, <3>2
  <2> PICK d : d = Part(w, 11, 8)
    OBVIOUS
  <2>21. d \in Seq(Int) /\ Len(d) = 4 /\ \A i \in Nat : i < 4 => Low(d, i) = w[8 + i]
    BY Part_11_8 DEF IsPart
  <2>22. \A i \in Nat : 0 <= i /\ i < 4 => Low(d, i) = w[i + 8]
    BY ONLY <2>21
  <2> PICK nd \in Int : nd = Number(d)
    BY ONLY <2>21, NumberType
  <2>23. bits(w, 11, 8) = nd
    BY DEF bits
  <2> PICK sd : sd = sc \o d
    OBVIOUS
  <2>24. Joined(sd, sc, d)
    BY <2>16, <2>21, Join
  <2>25. sd \in Seq(Int) /\ Len(sd) = 12
    BY ONLY <2>16, <2>21, <2>24 DEF Joined
  <2> PICK nsd \in Int : nsd = Number(sd)
    BY ONLY <2>25, NumberType
  <2>26. nsd = 16 * nsc + nd
    <3>1. sc \in Seq(Int) /\ d \in Seq(Int) /\ Len(d) <= 31 /\ Len(d) = 4
      BY ONLY <2>16, <2>21
    <3>2. Number(sc \o d) = Pow[Len(d)] * Number(sc) + Number(d)
      BY ONLY <3>1, NumberJoined
    <3>3. Pow[4] = 16
      BY PowValues
    <3> QED BY ONLY <3>1, <3>2, <3>3, sd = sc \o d, nsd = Number(sd), nsc = Number(sc),
                nd = Number(d), nsd \in Int, nsc \in Int, nd \in Int, SMT
  <2>27. \A i \in Nat : 0 <= i /\ i < 4 => Low(sd, i) = w[i + 8]
    BY ONLY <2>21, <2>22, <2>24 DEF Joined
  <2>28. \A i \in Nat : 4 <= i /\ i < 10 => Low(sd, i) = w[i + 21]
    <3> SUFFICES ASSUME NEW i \in Nat, 4 <= i, i < 10 PROVE Low(sd, i) = w[i + 21]
      OBVIOUS
    <3>1. i - 4 \in Nat /\ 0 <= i - 4 /\ i - 4 < 6 /\ (i - 4) + 25 = i + 21
      BY ONLY i \in Nat, 4 <= i, i < 10
    <3>2. Low(sd, i) = Low(sc, i - 4)
      BY ONLY <2>16, <2>21, <2>24, i \in Nat, 4 <= i, i < 10 DEF Joined
    <3> QED BY ONLY <2>18, <3>1, <3>2
  <2>29. \A i \in Nat : 10 <= i /\ i < 11 => Low(sd, i) = w[i + -3]
    <3> SUFFICES ASSUME NEW i \in Nat, 10 <= i, i < 11 PROVE Low(sd, i) = w[i + -3]
      OBVIOUS
    <3>1. i - 4 \in Nat /\ 6 <= i - 4 /\ i - 4 < 7 /\ (i - 4) + 1 = i + -3
      BY ONLY i \in Nat, 10 <= i, i < 11
    <3>2. Low(sd, i) = Low(sc, i - 4)
      BY ONLY <2>16, <2>21, <2>24, i \in Nat, 10 <= i, i < 11 DEF Joined
    <3> QED BY ONLY <2>19, <3>1, <3>2
  <2>30. \A i \in Nat : 11 <= i /\ i < 12 => Low(sd, i) = w[i + 20]
    <3> SUFFICES ASSUME NEW i \in Nat, 11 <= i, i < 12 PROVE Low(sd, i) = w[i + 20]
      OBVIOUS
    <3>1. i - 4 \in Nat /\ 7 <= i - 4 /\ i - 4 < 8 /\ (i - 4) + 24 = i + 20
      BY ONLY i \in Nat, 11 <= i, i < 12
    <3>2. Low(sd, i) = Low(sc, i - 4)
      BY ONLY <2>16, <2>21, <2>24, i \in Nat, 11 <= i, i < 12 DEF Joined
    <3> QED BY ONLY <2>20, <3>1, <3>2
  <2> PICK e : e = <<0>>
    OBVIOUS
  <2>31. e \in Seq(Int) /\ Len(e) = 1 /\ Low(e, 0) = 0
    BY Single
  <2>32. \A i \in Nat : 0 <= i /\ i < 1 => Low(e, i) = 0
    BY ONLY <2>31
  <2> PICK ne \in Int : ne = Number(e)
    BY ONLY <2>31, NumberType
  <2>33. ne = 0
    BY NumberZero
  <2> PICK se : se = sd \o e
    OBVIOUS
  <2>34. Joined(se, sd, e)
    BY <2>25, <2>31, Join
  <2>35. se \in Seq(Int) /\ Len(se) = 13
    BY ONLY <2>25, <2>31, <2>34 DEF Joined
  <2> PICK nse \in Int : nse = Number(se)
    BY ONLY <2>35, NumberType
  <2>36. nse = 2 * nsd + ne
    <3>1. sd \in Seq(Int) /\ e \in Seq(Int) /\ Len(e) <= 31 /\ Len(e) = 1
      BY ONLY <2>25, <2>31
    <3>2. Number(sd \o e) = Pow[Len(e)] * Number(sd) + Number(e)
      BY ONLY <3>1, NumberJoined
    <3>3. Pow[1] = 2
      BY PowValues
    <3> QED BY ONLY <3>1, <3>2, <3>3, se = sd \o e, nse = Number(se), nsd = Number(sd),
                ne = Number(e), nse \in Int, nsd \in Int, ne \in Int, SMT
  <2>37. \A i \in Nat : 0 <= i /\ i < 1 => Low(se, i) = 0
    BY ONLY <2>31, <2>32, <2>34 DEF Joined
  <2>38. \A i \in Nat : 1 <= i /\ i < 5 => Low(se, i) = w[i + 7]
    <3> SUFFICES ASSUME NEW i \in Nat, 1 <= i, i < 5 PROVE Low(se, i) = w[i + 7]
      OBVIOUS
    <3>1. i - 1 \in Nat /\ 0 <= i - 1 /\ i - 1 < 4 /\ (i - 1) + 8 = i + 7
      BY ONLY i \in Nat, 1 <= i, i < 5
    <3>2. Low(se, i) = Low(sd, i - 1)
      BY ONLY <2>25, <2>31, <2>34, i \in Nat, 1 <= i, i < 5 DEF Joined
    <3> QED BY ONLY <2>27, <3>1, <3>2
  <2>39. \A i \in Nat : 5 <= i /\ i < 11 => Low(se, i) = w[i + 20]
    <3> SUFFICES ASSUME NEW i \in Nat, 5 <= i, i < 11 PROVE Low(se, i) = w[i + 20]
      OBVIOUS
    <3>1. i - 1 \in Nat /\ 4 <= i - 1 /\ i - 1 < 10 /\ (i - 1) + 21 = i + 20
      BY ONLY i \in Nat, 5 <= i, i < 11
    <3>2. Low(se, i) = Low(sd, i - 1)
      BY ONLY <2>25, <2>31, <2>34, i \in Nat, 5 <= i, i < 11 DEF Joined
    <3> QED BY ONLY <2>28, <3>1, <3>2
  <2>40. \A i \in Nat : 11 <= i /\ i < 12 => Low(se, i) = w[i + -4]
    <3> SUFFICES ASSUME NEW i \in Nat, 11 <= i, i < 12 PROVE Low(se, i) = w[i + -4]
      OBVIOUS
    <3>1. i - 1 \in Nat /\ 10 <= i - 1 /\ i - 1 < 11 /\ (i - 1) + -3 = i + -4
      BY ONLY i \in Nat, 11 <= i, i < 12
    <3>2. Low(se, i) = Low(sd, i - 1)
      BY ONLY <2>25, <2>31, <2>34, i \in Nat, 11 <= i, i < 12 DEF Joined
    <3> QED BY ONLY <2>29, <3>1, <3>2
  <2>41. \A i \in Nat : 12 <= i /\ i < 13 => Low(se, i) = w[i + 19]
    <3> SUFFICES ASSUME NEW i \in Nat, 12 <= i, i < 13 PROVE Low(se, i) = w[i + 19]
      OBVIOUS
    <3>1. i - 1 \in Nat /\ 11 <= i - 1 /\ i - 1 < 12 /\ (i - 1) + 20 = i + 19
      BY ONLY i \in Nat, 12 <= i, i < 13
    <3>2. Low(se, i) = Low(sd, i - 1)
      BY ONLY <2>25, <2>31, <2>34, i \in Nat, 12 <= i, i < 13 DEF Joined
    <3> QED BY ONLY <2>30, <3>1, <3>2
  <2>42. \A i \in Nat : i < 13 => Low(se, i) \in {0, 1}
    BY ONLY <1>w, <2>37, <2>38, <2>39, <2>40, <2>41
  <2>43. iss_imm(w, fmt) = ToBits(to_signed(nse, 13))
    <3>1. iss_imm(w, fmt) = ToBits(to_signed(bits(w, 31, 31) * 2^12 + bits(w, 7, 7) * 2^11 + bits(w, 30, 25) * 2^5 + bits(w, 11, 8) * 2, 13))
      BY ONLY <1>3 DEF iss_imm
    <3>2. bits(w, 31, 31) * 2^12 + bits(w, 7, 7) * 2^11 + bits(w, 30, 25) * 2^5 + bits(w, 11, 8) * 2 = nse
      BY ONLY Literals, <2>3, <2>6, <2>9, <2>14, <2>17, <2>23, <2>26, <2>33, <2>36, na \in Int, nb \in Int, nc \in Int, nd \in Int, ne \in Int, nsb \in Int, nsc \in Int, nsd \in Int, nse \in Int, SMT
    <3> QED BY ONLY <3>1, <3>2, Zenon
  <2>44. Low(se, 12) = w[31]
    BY ONLY <2>37, <2>38, <2>39, <2>40, <2>41
  <2> PICK m \in 1 .. 30 : m = 13
    OBVIOUS
  <2>45. /\ \A i \in Bits : i < m => ToBits(to_signed(nse, m))[i] = Low(se, i)
         /\ \A i \in Bits : m - 1 <= i => ToBits(to_signed(nse, m))[i] = Low(se, m - 1)
    <3>1. Len(se) = m /\ se \in Seq(Int) /\ \A i \in Nat : i < m => Low(se, i) \in {0, 1}
      BY ONLY <2>35, <2>42, m = 13
    <3>2. /\ \A i \in Bits : i < m => ToBits(to_signed(Number(se), m))[i] = Low(se, i)
          /\ \A i \in Bits : m - 1 <= i => ToBits(to_signed(Number(se), m))[i] = Low(se, m - 1)
      BY ONLY <3>1, m \in 1 .. 30, Extended
    <3> QED BY ONLY <3>2, nse = Number(se)
  <2>46. ASSUME NEW i \in Bits PROVE ToBits(to_signed(nse, m))[i] = Immediate(w, fmt, i)
    BY ONLY <1>3, <1>i, i \in Bits, m = 13, <2>44, <2>45, <2>37, <2>38, <2>39, <2>40, <2>41 DEF Immediate
  <2> QED BY ONLY <2>43, <2>46, m = 13, ToBitsWord
<1>4. CASE fmt = "J"
  <2> PICK a : a = Part(w, 31, 31)
    OBVIOUS
  <2>1. a \in Seq(Int) /\ Len(a) = 1 /\ \A i \in Nat : i < 1 => Low(a, i) = w[31 + i]
    BY Part_31_31 DEF IsPart
  <2>2. \A i \in Nat : 0 <= i /\ i < 1 => Low(a, i) = w[i + 31]
    BY ONLY <2>1
  <2> PICK na \in Int : na = Number(a)
    BY ONLY <2>1, NumberType
  <2>3. bits(w, 31, 31) = na
    BY DEF bits
  <2> PICK b : b = Part(w, 19, 12)
    OBVIOUS
  <2>4. b \in Seq(Int) /\ Len(b) = 8 /\ \A i \in Nat : i < 8 => Low(b, i) = w[12 + i]
    BY Part_19_12 DEF IsPart
  <2>5. \A i \in Nat : 0 <= i /\ i < 8 => Low(b, i) = w[i + 12]
    BY ONLY <2>4
  <2> PICK nb \in Int : nb = Number(b)
    BY ONLY <2>4, NumberType
  <2>6. bits(w, 19, 12) = nb
    BY DEF bits
  <2> PICK sb : sb = a \o b
    OBVIOUS
  <2>7. Joined(sb, a, b)
    BY <2>1, <2>4, Join
  <2>8. sb \in Seq(Int) /\ Len(sb) = 9
    BY ONLY <2>1, <2>4, <2>7 DEF Joined
  <2> PICK nsb \in Int : nsb = Number(sb)
    BY ONLY <2>8, NumberType
  <2>9. nsb = 256 * na + nb
    <3>1. a \in Seq(Int) /\ b \in Seq(Int) /\ Len(b) <= 31 /\ Len(b) = 8
      BY ONLY <2>1, <2>4
    <3>2. Number(a \o b) = Pow[Len(b)] * Number(a) + Number(b)
      BY ONLY <3>1, NumberJoined
    <3>3. Pow[8] = 256
      BY PowValues
    <3> QED BY ONLY <3>1, <3>2, <3>3, sb = a \o b, nsb = Number(sb), na = Number(a),
                nb = Number(b), nsb \in Int, na \in Int, nb \in Int, SMT
  <2>10. \A i \in Nat : 0 <= i /\ i < 8 => Low(sb, i) = w[i + 12]
    BY ONLY <2>4, <2>5, <2>7 DEF Joined
  <2>11. \A i \in Nat : 8 <= i /\ i < 9 => Low(sb, i) = w[i + 23]
    <3> SUFFICES ASSUME NEW i \in Nat, 8 <= i, i < 9 PROVE Low(sb, i) = w[i + 23]
      OBVIOUS
    <3>1. i - 8 \in Nat /\ 0 <= i - 8 /\ i - 8 < 1 /\ (i - 8) + 31 = i + 23
      BY ONLY i \in Nat, 8 <= i, i < 9
    <3>2. Low(sb, i) = Low(a, i - 8)
      BY ONLY <2>1, <2>4, <2>7, i \in Nat, 8 <= i, i < 9 DEF Joined
    <3> QED BY ONLY <2>2, <3>1, <3>2
  <2> PICK c : c = Part(w, 20, 20)
    OBVIOUS
  <2>12. c \in Seq(Int) /\ Len(c) = 1 /\ \A i \in Nat : i < 1 => Low(c, i) = w[20 + i]
    BY Part_20_20 DEF IsPart
  <2>13. \A i \in Nat : 0 <= i /\ i < 1 => Low(c, i) = w[i + 20]
    BY ONLY <2>12
  <2> PICK nc \in Int : nc = Number(c)
    BY ONLY <2>12, NumberType
  <2>14. bits(w, 20, 20) = nc
    BY DEF bits
  <2> PICK sc : sc = sb \o c
    OBVIOUS
  <2>15. Joined(sc, sb, c)
    BY <2>8, <2>12, Join
  <2>16. sc \in Seq(Int) /\ Len(sc) = 10
    BY ONLY <2>8, <2>12, <2>15 DEF Joined
  <2> PICK nsc \in Int : nsc = Number(sc)
    BY ONLY <2>16, NumberType
  <2>17. nsc = 2 * nsb + nc
    <3>1. sb \in Seq(Int) /\ c \in Seq(Int) /\ Len(c) <= 31 /\ Len(c) = 1
      BY ONLY <2>8, <2>12
    <3>2. Number(sb \o c) = Pow[Len(c)] * Number(sb) + Number(c)
      BY ONLY <3>1, NumberJoined
    <3>3. Pow[1] = 2
      BY PowValues
    <3> QED BY ONLY <3>1, <3>2, <3>3, sc = sb \o c, nsc = Number(sc), nsb = Number(sb),
                nc = Number(c), nsc \in Int, nsb \in Int, nc \in Int, SMT
  <2>18. \A i \in Nat : 0 <= i /\ i < 1 => Low(sc, i) = w[i + 20]
    BY ONLY <2>12, <2>13, <2>15 DEF Joined
  <2>19. \A i \in Nat : 1 <= i /\ i < 9 => Low(sc, i) = w[i + 11]
    <3> SUFFICES ASSUME NEW i \in Nat, 1 <= i, i < 9 PROVE Low(sc, i) = w[i + 11]
      OBVIOUS
    <3>1. i - 1 \in Nat /\ 0 <= i - 1 /\ i - 1 < 8 /\ (i - 1) + 12 = i + 11
      BY ONLY i \in Nat, 1 <= i, i < 9
    <3>2. Low(sc, i) = Low(sb, i - 1)
      BY ONLY <2>8, <2>12, <2>15, i \in Nat, 1 <= i, i < 9 DEF Joined
    <3> QED BY ONLY <2>10, <3>1, <3>2
  <2>20. \A i \in Nat : 9 <= i /\ i < 10 => Low(sc, i) = w[i + 22]
    <3> SUFFICES ASSUME NEW i \in Nat, 9 <= i, i < 10 PROVE Low(sc, i) = w[i + 22]
      OBVIOUS
    <3>1. i - 1 \in Nat /\ 8 <= i - 1 /\ i - 1 < 9 /\ (i - 1) + 23 = i + 22
      BY ONLY i \in Nat, 9 <= i, i < 10
    <3>2. Low(sc, i) = Low(sb, i - 1)
      BY ONLY <2>8, <2>12, <2>15, i \in Nat, 9 <= i, i < 10 DEF Joined
    <3> QED BY ONLY <2>11, <3>1, <3>2
  <2> PICK d : d = Part(w, 30, 21)
    OBVIOUS
  <2>21. d \in Seq(Int) /\ Len(d) = 10 /\ \A i \in Nat : i < 10 => Low(d, i) = w[21 + i]
    BY Part_30_21 DEF IsPart
  <2>22. \A i \in Nat : 0 <= i /\ i < 10 => Low(d, i) = w[i + 21]
    BY ONLY <2>21
  <2> PICK nd \in Int : nd = Number(d)
    BY ONLY <2>21, NumberType
  <2>23. bits(w, 30, 21) = nd
    BY DEF bits
  <2> PICK sd : sd = sc \o d
    OBVIOUS
  <2>24. Joined(sd, sc, d)
    BY <2>16, <2>21, Join
  <2>25. sd \in Seq(Int) /\ Len(sd) = 20
    BY ONLY <2>16, <2>21, <2>24 DEF Joined
  <2> PICK nsd \in Int : nsd = Number(sd)
    BY ONLY <2>25, NumberType
  <2>26. nsd = 1024 * nsc + nd
    <3>1. sc \in Seq(Int) /\ d \in Seq(Int) /\ Len(d) <= 31 /\ Len(d) = 10
      BY ONLY <2>16, <2>21
    <3>2. Number(sc \o d) = Pow[Len(d)] * Number(sc) + Number(d)
      BY ONLY <3>1, NumberJoined
    <3>3. Pow[10] = 1024
      BY PowValues
    <3> QED BY ONLY <3>1, <3>2, <3>3, sd = sc \o d, nsd = Number(sd), nsc = Number(sc),
                nd = Number(d), nsd \in Int, nsc \in Int, nd \in Int, SMT
  <2>27. \A i \in Nat : 0 <= i /\ i < 10 => Low(sd, i) = w[i + 21]
    BY ONLY <2>21, <2>22, <2>24 DEF Joined
  <2>28. \A i \in Nat : 10 <= i /\ i < 11 => Low(sd, i) = w[i + 10]
    <3> SUFFICES ASSUME NEW i \in Nat, 10 <= i, i < 11 PROVE Low(sd, i) = w[i + 10]
      OBVIOUS
    <3>1. i - 10 \in Nat /\ 0 <= i - 10 /\ i - 10 < 1 /\ (i - 10) + 20 = i + 10
      BY ONLY i \in Nat, 10 <= i, i < 11
    <3>2. Low(sd, i) = Low(sc, i - 10)
      BY ONLY <2>16, <2>21, <2>24, i \in Nat, 10 <= i, i < 11 DEF Joined
    <3> QED BY ONLY <2>18, <3>1, <3>2
  <2>29. \A i \in Nat : 11 <= i /\ i < 19 => Low(sd, i) = w[i + 1]
    <3> SUFFICES ASSUME NEW i \in Nat, 11 <= i, i < 19 PROVE Low(sd, i) = w[i + 1]
      OBVIOUS
    <3>1. i - 10 \in Nat /\ 1 <= i - 10 /\ i - 10 < 9 /\ (i - 10) + 11 = i + 1
      BY ONLY i \in Nat, 11 <= i, i < 19
    <3>2. Low(sd, i) = Low(sc, i - 10)
      BY ONLY <2>16, <2>21, <2>24, i \in Nat, 11 <= i, i < 19 DEF Joined
    <3> QED BY ONLY <2>19, <3>1, <3>2
  <2>30. \A i \in Nat : 19 <= i /\ i < 20 => Low(sd, i) = w[i + 12]
    <3> SUFFICES ASSUME NEW i \in Nat, 19 <= i, i < 20 PROVE Low(sd, i) = w[i + 12]
      OBVIOUS
    <3>1. i - 10 \in Nat /\ 9 <= i - 10 /\ i - 10 < 10 /\ (i - 10) + 22 = i + 12
      BY ONLY i \in Nat, 19 <= i, i < 20
    <3>2. Low(sd, i) = Low(sc, i - 10)
      BY ONLY <2>16, <2>21, <2>24, i \in Nat, 19 <= i, i < 20 DEF Joined
    <3> QED BY ONLY <2>20, <3>1, <3>2
  <2> PICK e : e = <<0>>
    OBVIOUS
  <2>31. e \in Seq(Int) /\ Len(e) = 1 /\ Low(e, 0) = 0
    BY Single
  <2>32. \A i \in Nat : 0 <= i /\ i < 1 => Low(e, i) = 0
    BY ONLY <2>31
  <2> PICK ne \in Int : ne = Number(e)
    BY ONLY <2>31, NumberType
  <2>33. ne = 0
    BY NumberZero
  <2> PICK se : se = sd \o e
    OBVIOUS
  <2>34. Joined(se, sd, e)
    BY <2>25, <2>31, Join
  <2>35. se \in Seq(Int) /\ Len(se) = 21
    BY ONLY <2>25, <2>31, <2>34 DEF Joined
  <2> PICK nse \in Int : nse = Number(se)
    BY ONLY <2>35, NumberType
  <2>36. nse = 2 * nsd + ne
    <3>1. sd \in Seq(Int) /\ e \in Seq(Int) /\ Len(e) <= 31 /\ Len(e) = 1
      BY ONLY <2>25, <2>31
    <3>2. Number(sd \o e) = Pow[Len(e)] * Number(sd) + Number(e)
      BY ONLY <3>1, NumberJoined
    <3>3. Pow[1] = 2
      BY PowValues
    <3> QED BY ONLY <3>1, <3>2, <3>3, se = sd \o e, nse = Number(se), nsd = Number(sd),
                ne = Number(e), nse \in Int, nsd \in Int, ne \in Int, SMT
  <2>37. \A i \in Nat : 0 <= i /\ i < 1 => Low(se, i) = 0
    BY ONLY <2>31, <2>32, <2>34 DEF Joined
  <2>38. \A i \in Nat : 1 <= i /\ i < 11 => Low(se, i) = w[i + 20]
    <3> SUFFICES ASSUME NEW i \in Nat, 1 <= i, i < 11 PROVE Low(se, i) = w[i + 20]
      OBVIOUS
    <3>1. i - 1 \in Nat /\ 0 <= i - 1 /\ i - 1 < 10 /\ (i - 1) + 21 = i + 20
      BY ONLY i \in Nat, 1 <= i, i < 11
    <3>2. Low(se, i) = Low(sd, i - 1)
      BY ONLY <2>25, <2>31, <2>34, i \in Nat, 1 <= i, i < 11 DEF Joined
    <3> QED BY ONLY <2>27, <3>1, <3>2
  <2>39. \A i \in Nat : 11 <= i /\ i < 12 => Low(se, i) = w[i + 9]
    <3> SUFFICES ASSUME NEW i \in Nat, 11 <= i, i < 12 PROVE Low(se, i) = w[i + 9]
      OBVIOUS
    <3>1. i - 1 \in Nat /\ 10 <= i - 1 /\ i - 1 < 11 /\ (i - 1) + 10 = i + 9
      BY ONLY i \in Nat, 11 <= i, i < 12
    <3>2. Low(se, i) = Low(sd, i - 1)
      BY ONLY <2>25, <2>31, <2>34, i \in Nat, 11 <= i, i < 12 DEF Joined
    <3> QED BY ONLY <2>28, <3>1, <3>2
  <2>40. \A i \in Nat : 12 <= i /\ i < 20 => Low(se, i) = w[i]
    <3> SUFFICES ASSUME NEW i \in Nat, 12 <= i, i < 20 PROVE Low(se, i) = w[i]
      OBVIOUS
    <3>1. i - 1 \in Nat /\ 11 <= i - 1 /\ i - 1 < 19 /\ (i - 1) + 1 = i
      BY ONLY i \in Nat, 12 <= i, i < 20
    <3>2. Low(se, i) = Low(sd, i - 1)
      BY ONLY <2>25, <2>31, <2>34, i \in Nat, 12 <= i, i < 20 DEF Joined
    <3> QED BY ONLY <2>29, <3>1, <3>2
  <2>41. \A i \in Nat : 20 <= i /\ i < 21 => Low(se, i) = w[i + 11]
    <3> SUFFICES ASSUME NEW i \in Nat, 20 <= i, i < 21 PROVE Low(se, i) = w[i + 11]
      OBVIOUS
    <3>1. i - 1 \in Nat /\ 19 <= i - 1 /\ i - 1 < 20 /\ (i - 1) + 12 = i + 11
      BY ONLY i \in Nat, 20 <= i, i < 21
    <3>2. Low(se, i) = Low(sd, i - 1)
      BY ONLY <2>25, <2>31, <2>34, i \in Nat, 20 <= i, i < 21 DEF Joined
    <3> QED BY ONLY <2>30, <3>1, <3>2
  <2>42. \A i \in Nat : i < 21 => Low(se, i) \in {0, 1}
    BY ONLY <1>w, <2>37, <2>38, <2>39, <2>40, <2>41
  <2>43. iss_imm(w, fmt) = ToBits(to_signed(nse, 21))
    <3>1. iss_imm(w, fmt) = ToBits(to_signed(bits(w, 31, 31) * 2^20 + bits(w, 19, 12) * 2^12 + bits(w, 20, 20) * 2^11 + bits(w, 30, 21) * 2, 21))
      BY ONLY <1>4 DEF iss_imm
    <3>2. bits(w, 31, 31) * 2^20 + bits(w, 19, 12) * 2^12 + bits(w, 20, 20) * 2^11 + bits(w, 30, 21) * 2 = nse
      BY ONLY Literals, <2>3, <2>6, <2>9, <2>14, <2>17, <2>23, <2>26, <2>33, <2>36, na \in Int, nb \in Int, nc \in Int, nd \in Int, ne \in Int, nsb \in Int, nsc \in Int, nsd \in Int, nse \in Int, SMT
    <3> QED BY ONLY <3>1, <3>2, Zenon
  <2>44. Low(se, 20) = w[31]
    BY ONLY <2>37, <2>38, <2>39, <2>40, <2>41
  <2> PICK m \in 1 .. 30 : m = 21
    OBVIOUS
  <2>45. /\ \A i \in Bits : i < m => ToBits(to_signed(nse, m))[i] = Low(se, i)
         /\ \A i \in Bits : m - 1 <= i => ToBits(to_signed(nse, m))[i] = Low(se, m - 1)
    <3>1. Len(se) = m /\ se \in Seq(Int) /\ \A i \in Nat : i < m => Low(se, i) \in {0, 1}
      BY ONLY <2>35, <2>42, m = 21
    <3>2. /\ \A i \in Bits : i < m => ToBits(to_signed(Number(se), m))[i] = Low(se, i)
          /\ \A i \in Bits : m - 1 <= i => ToBits(to_signed(Number(se), m))[i] = Low(se, m - 1)
      BY ONLY <3>1, m \in 1 .. 30, Extended
    <3> QED BY ONLY <3>2, nse = Number(se)
  <2>46. ASSUME NEW i \in Bits PROVE ToBits(to_signed(nse, m))[i] = Immediate(w, fmt, i)
    BY ONLY <1>4, <1>i, i \in Bits, m = 21, <2>44, <2>45, <2>37, <2>38, <2>39, <2>40, <2>41 DEF Immediate
  <2> QED BY ONLY <2>43, <2>46, m = 21, ToBitsWord
<1>5. CASE fmt = "U"
  <2> PICK s : s = Part(w, 31, 12)
    OBVIOUS
  <2>1. IsPart(s, w, 12, 20)
    BY Part_31_12
  <2> PICK n : n = Number(s)
    OBVIOUS
  <2>2. iss_imm(w, fmt) = Shl(n, 12)
    BY <1>5 DEF iss_imm, bits
  <2>3. \A i \in Nat : i < 20 => ToBits(n)[i] = w[12 + i]
    <3> PICK m \in Nat : m = 20
      OBVIOUS
    <3>1. s \in [1 .. m -> Int] /\ (\A k \in 1 .. m : s[k] \in {0, 1}) /\ m <= 30 /\ Len(s) = m
          /\ \A i \in Nat : i < m => Low(s, i) = w[12 + i]
      BY <2>1 DEF IsPart
    <3>2. \A i \in Bits : ToBits(Number(s))[i] = IF i < m THEN s[m - i] ELSE 0
      BY ONLY <3>1, m \in Nat, BitsOfNumber
    <3>3. ASSUME NEW i \in Nat, i < m PROVE ToBits(Number(s))[i] = w[12 + i]
      <4>1. i \in Bits
        BY <3>1, <3>3 DEF Bits
      <4> QED BY ONLY <3>1, <3>2, <3>3, <4>1, i \in Nat DEF Low
    <3> QED BY <3>3
  <2>4. ASSUME NEW i \in Bits PROVE Shl(n, 12)[i] = Immediate(w, fmt, i)
    <3>1. CASE i < 12
      BY <1>5, <1>i, <3>1 DEF Shl, Immediate
    <3>2. CASE ~(i < 12)
      <4>1. i - 12 \in Nat /\ i - 12 < 20 /\ 12 + (i - 12) = i /\ ~(i <= 11)
        BY <1>i, <3>2
      <4>2. Shl(n, 12)[i] = ToBits(n)[i - 12]
        BY <3>2 DEF Shl
      <4>3. Immediate(w, fmt, i) = w[i]
        BY <1>5, <4>1 DEF Immediate
      <4> QED BY <2>3, <4>1, <4>2, <4>3
    <3> QED BY <3>1, <3>2
  <2>5. Shl(n, 12) = [i \in Bits |-> Shl(n, 12)[i]]
    BY DEF Shl
  <2> QED BY ONLY <2>2, <2>4, <2>5
<1> QED BY <1>1, <1>2, <1>3, <1>4, <1>5 DEF Formats

-----------------------------------------------------------------------------
(* A word that carries a number, read back *)

\* From bit m up, a number of m bits has copies of its sign.
Signs(n, m) == \A i \in m .. 31 : ToBits(n)[i] = IF n < 0 THEN 1 ELSE 0

LEMMA SignBits ==
    ASSUME NEW m \in 0 .. 30, NEW n \in -Pow[m] .. Pow[m] - 1
    PROVE  Signs(n, m)
<1>1. \A i \in m .. 31 : ToBits(n)[i] = IF n < 0 THEN 1 ELSE 0
  BY ONLY m \in 0 .. 30, n \in -Pow[m] .. Pow[m] - 1, BitsSmall
<1> QED BY ONLY <1>1 DEF Signs

\* The fields of a word, from the numbers it carries.
LEMMA FieldsCarried ==
    ASSUME NEW w \in InstWord
    PROVE  /\ \A n \in 0 .. 127 : Carries(w, 0, 7, n, 0) => fields(w).opcode = n
           /\ \A n \in 0 .. 31 : Carries(w, 7, 5, n, 0) => fields(w).rd = n
           /\ \A n \in 0 .. 7 : Carries(w, 12, 3, n, 0) => fields(w).funct3 = n
           /\ \A n \in 0 .. 31 : Carries(w, 15, 5, n, 0) => fields(w).rs1 = n
           /\ \A n \in 0 .. 31 : Carries(w, 20, 5, n, 0) => fields(w).rs2 = n
           /\ \A n \in 0 .. 127 : Carries(w, 25, 7, n, 0) => fields(w).funct7 = n
<1>1. ASSUME NEW n \in 0 .. 127, Carries(w, 0, 7, n, 0) PROVE fields(w).opcode = n
  <2> PICK hi \in Bits, lo \in Bits, m \in 1 .. 30 : hi = 6 /\ lo = 0 /\ m = 7 /\ lo \in 0 .. hi
    BY DEF Bits
  <2>1. n \in 0 .. Pow[m] - 1
    BY PowValues, SMT
  <2>2. m = (hi - lo) + 1 /\ Carries(w, lo, m, n, 0)
    BY <1>1
  <2>3. Number(Part(w, hi, lo)) = n
    BY ONLY <2>1, <2>2, w \in InstWord, hi \in Bits, lo \in 0 .. hi, m \in 1 .. 30, FieldOf
  <2> QED BY <2>3 DEF fields
<1>2. ASSUME NEW n \in 0 .. 31, Carries(w, 7, 5, n, 0) PROVE fields(w).rd = n
  <2> PICK hi \in Bits, lo \in Bits, m \in 1 .. 30 : hi = 11 /\ lo = 7 /\ m = 5 /\ lo \in 0 .. hi
    BY DEF Bits
  <2>1. n \in 0 .. Pow[m] - 1
    BY PowValues, SMT
  <2>2. m = (hi - lo) + 1 /\ Carries(w, lo, m, n, 0)
    BY <1>2
  <2>3. Number(Part(w, hi, lo)) = n
    BY ONLY <2>1, <2>2, w \in InstWord, hi \in Bits, lo \in 0 .. hi, m \in 1 .. 30, FieldOf
  <2> QED BY <2>3 DEF fields
<1>3. ASSUME NEW n \in 0 .. 7, Carries(w, 12, 3, n, 0) PROVE fields(w).funct3 = n
  <2> PICK hi \in Bits, lo \in Bits, m \in 1 .. 30 : hi = 14 /\ lo = 12 /\ m = 3 /\ lo \in 0 .. hi
    BY DEF Bits
  <2>1. n \in 0 .. Pow[m] - 1
    BY PowValues, SMT
  <2>2. m = (hi - lo) + 1 /\ Carries(w, lo, m, n, 0)
    BY <1>3
  <2>3. Number(Part(w, hi, lo)) = n
    BY ONLY <2>1, <2>2, w \in InstWord, hi \in Bits, lo \in 0 .. hi, m \in 1 .. 30, FieldOf
  <2> QED BY <2>3 DEF fields
<1>4. ASSUME NEW n \in 0 .. 31, Carries(w, 15, 5, n, 0) PROVE fields(w).rs1 = n
  <2> PICK hi \in Bits, lo \in Bits, m \in 1 .. 30 : hi = 19 /\ lo = 15 /\ m = 5 /\ lo \in 0 .. hi
    BY DEF Bits
  <2>1. n \in 0 .. Pow[m] - 1
    BY PowValues, SMT
  <2>2. m = (hi - lo) + 1 /\ Carries(w, lo, m, n, 0)
    BY <1>4
  <2>3. Number(Part(w, hi, lo)) = n
    BY ONLY <2>1, <2>2, w \in InstWord, hi \in Bits, lo \in 0 .. hi, m \in 1 .. 30, FieldOf
  <2> QED BY <2>3 DEF fields
<1>5. ASSUME NEW n \in 0 .. 31, Carries(w, 20, 5, n, 0) PROVE fields(w).rs2 = n
  <2> PICK hi \in Bits, lo \in Bits, m \in 1 .. 30 : hi = 24 /\ lo = 20 /\ m = 5 /\ lo \in 0 .. hi
    BY DEF Bits
  <2>1. n \in 0 .. Pow[m] - 1
    BY PowValues, SMT
  <2>2. m = (hi - lo) + 1 /\ Carries(w, lo, m, n, 0)
    BY <1>5
  <2>3. Number(Part(w, hi, lo)) = n
    BY ONLY <2>1, <2>2, w \in InstWord, hi \in Bits, lo \in 0 .. hi, m \in 1 .. 30, FieldOf
  <2> QED BY <2>3 DEF fields
<1>6. ASSUME NEW n \in 0 .. 127, Carries(w, 25, 7, n, 0) PROVE fields(w).funct7 = n
  <2> PICK hi \in Bits, lo \in Bits, m \in 1 .. 30 : hi = 31 /\ lo = 25 /\ m = 7 /\ lo \in 0 .. hi
    BY DEF Bits
  <2>1. n \in 0 .. Pow[m] - 1
    BY PowValues, SMT
  <2>2. m = (hi - lo) + 1 /\ Carries(w, lo, m, n, 0)
    BY <1>6
  <2>3. Number(Part(w, hi, lo)) = n
    BY ONLY <2>1, <2>2, w \in InstWord, hi \in Bits, lo \in 0 .. hi, m \in 1 .. 30, FieldOf
  <2> QED BY <2>3 DEF fields
<1> QED BY <1>1, <1>2, <1>3, <1>4, <1>5, <1>6

\* An immediate that fits is read back.
LEMMA ReadsI ==
    ASSUME NEW w \in InstWord, NEW n \in -Pow[11] .. Pow[11] - 1,
           Carries(w, 20, 12, n, 0)
    PROVE  imm_gen(w, "I") = ToBits(n)
<1>1. Signs(n, 11)
  <2> PICK m \in 0 .. 30 : m = 11
    OBVIOUS
  <2>1. n \in -Pow[m] .. Pow[m] - 1
    BY SMT
  <2>2. Signs(n, m)
    BY ONLY <2>1, m \in 0 .. 30, SignBits
  <2> QED BY <2>2
<1>2. n \in Int /\ \A i \in Bits : i \in Int /\ 0 <= i /\ i <= 31
  BY DEF Bits
<1>3. \A j \in 0 .. 11 : w[20 + j] = ToBits(n)[0 + j]
  BY DEF Carries
<1>4. w[31] = ToBits(n)[11]
  <2>1. 11 \in 0 .. 11 /\ 20 + 11 = 31 /\ 0 + 11 = 11
    OBVIOUS
  <2> QED BY <1>3, <2>1
<1>5. ASSUME NEW i \in Bits PROVE Immediate(w, "I", i) = ToBits(n)[i]
  <2>1. CASE i \in 0 .. 10
    <3>1. Immediate(w, "I", i) = w[i + 20]
      BY ONLY <2>1, <1>2 DEF Immediate
    <3>2. i - 0 \in 0 .. 11 /\ 20 + (i - 0) = i + 20 /\ 0 + (i - 0) = i
      BY ONLY <2>1
    <3> QED BY ONLY <3>1, <3>2, <1>3
  <2>2. CASE i \in 11 .. 31
    <3>1. Immediate(w, "I", i) = w[31]
      BY ONLY <2>2, <1>2 DEF Immediate
    <3> QED BY <3>1, <2>2, <1>1, <1>4 DEF Signs
  <2>3. i \in 0 .. 10 \/ i \in 11 .. 31
    BY <1>2, i \in Bits
  <2> QED BY <2>1, <2>2, <2>3
<1> QED
  <2>1. "I" \in Formats
    BY DEF Formats
  <2>2. imm_gen(w, "I") = [i \in Bits |-> Immediate(w, "I", i)]
    BY <2>1, RtlImmediate
  <2> QED BY ONLY <1>5, <2>2, ToBitsWord

\* An immediate that fits is read back.
LEMMA ReadsS ==
    ASSUME NEW w \in InstWord, NEW n \in -Pow[11] .. Pow[11] - 1,
           Carries(w, 25, 7, n, 5),
           Carries(w, 7, 5, n, 0)
    PROVE  imm_gen(w, "S") = ToBits(n)
<1>1. Signs(n, 11)
  <2> PICK m \in 0 .. 30 : m = 11
    OBVIOUS
  <2>1. n \in -Pow[m] .. Pow[m] - 1
    BY SMT
  <2>2. Signs(n, m)
    BY ONLY <2>1, m \in 0 .. 30, SignBits
  <2> QED BY <2>2
<1>2. n \in Int /\ \A i \in Bits : i \in Int /\ 0 <= i /\ i <= 31
  BY DEF Bits
<1>3. \A j \in 0 .. 6 : w[25 + j] = ToBits(n)[5 + j]
  BY DEF Carries
<1>4. \A j \in 0 .. 4 : w[7 + j] = ToBits(n)[0 + j]
  BY DEF Carries
<1>5. w[31] = ToBits(n)[11]
  <2>1. 6 \in 0 .. 6 /\ 25 + 6 = 31 /\ 5 + 6 = 11
    OBVIOUS
  <2> QED BY <1>3, <2>1
<1>6. ASSUME NEW i \in Bits PROVE Immediate(w, "S", i) = ToBits(n)[i]
  <2>1. CASE i \in 0 .. 4
    <3>1. Immediate(w, "S", i) = w[i + 7]
      BY ONLY <2>1, <1>2 DEF Immediate
    <3>2. i - 0 \in 0 .. 4 /\ 7 + (i - 0) = i + 7 /\ 0 + (i - 0) = i
      BY ONLY <2>1
    <3> QED BY ONLY <3>1, <3>2, <1>4
  <2>2. CASE i \in 5 .. 10
    <3>1. Immediate(w, "S", i) = w[i + 20]
      BY ONLY <2>2, <1>2 DEF Immediate
    <3>2. i - 5 \in 0 .. 6 /\ 25 + (i - 5) = i + 20 /\ 5 + (i - 5) = i
      BY ONLY <2>2
    <3> QED BY ONLY <3>1, <3>2, <1>3
  <2>3. CASE i \in 11 .. 31
    <3>1. Immediate(w, "S", i) = w[31]
      BY ONLY <2>3, <1>2 DEF Immediate
    <3> QED BY <3>1, <2>3, <1>1, <1>5 DEF Signs
  <2>4. i \in 0 .. 4 \/ i \in 5 .. 10 \/ i \in 11 .. 31
    BY <1>2, i \in Bits
  <2> QED BY <2>1, <2>2, <2>3, <2>4
<1> QED
  <2>1. "S" \in Formats
    BY DEF Formats
  <2>2. imm_gen(w, "S") = [i \in Bits |-> Immediate(w, "S", i)]
    BY <2>1, RtlImmediate
  <2> QED BY ONLY <1>6, <2>2, ToBitsWord

\* An immediate that fits is read back.
LEMMA ReadsB ==
    ASSUME NEW w \in InstWord, NEW n \in -Pow[12] .. Pow[12] - 1, n % 2 = 0,
           Carries(w, 31, 1, n, 12),
           Carries(w, 25, 6, n, 5),
           Carries(w, 8, 4, n, 1),
           Carries(w, 7, 1, n, 11)
    PROVE  imm_gen(w, "B") = ToBits(n)
<1>1. Signs(n, 12)
  <2> PICK m \in 0 .. 30 : m = 12
    OBVIOUS
  <2>1. n \in -Pow[m] .. Pow[m] - 1
    BY SMT
  <2>2. Signs(n, m)
    BY ONLY <2>1, m \in 0 .. 30, SignBits
  <2> QED BY <2>2
<1>2. n \in Int /\ \A i \in Bits : i \in Int /\ 0 <= i /\ i <= 31
  BY DEF Bits
<1>3. \A j \in 0 .. 0 : w[31 + j] = ToBits(n)[12 + j]
  BY DEF Carries
<1>4. \A j \in 0 .. 5 : w[25 + j] = ToBits(n)[5 + j]
  BY DEF Carries
<1>5. \A j \in 0 .. 3 : w[8 + j] = ToBits(n)[1 + j]
  BY DEF Carries
<1>6. \A j \in 0 .. 0 : w[7 + j] = ToBits(n)[11 + j]
  BY DEF Carries
<1>7. ToBits(n)[0] = 0
  <2>1. n \in Int
    BY <1>2
  <2>2. Above(n, 0) = n
    BY ONLY <2>1, Halve
  <2> PICK i \in 0 .. 30 : i = 0
    OBVIOUS
  <2>3. ToBits(n)[i] = Above(n, i) % 2
    BY ONLY <2>1, i \in 0 .. 30, BitOf
  <2> QED BY <2>2, <2>3
<1>8. w[31] = ToBits(n)[12]
  <2>1. 0 \in 0 .. 0 /\ 31 + 0 = 31 /\ 12 + 0 = 12
    OBVIOUS
  <2> QED BY <1>3, <2>1
<1>9. ASSUME NEW i \in Bits PROVE Immediate(w, "B", i) = ToBits(n)[i]
  <2>1. CASE i = 0
    BY <2>1, <1>7 DEF Immediate
  <2>2. CASE i \in 1 .. 4
    <3>1. Immediate(w, "B", i) = w[i + 7]
      BY ONLY <2>2, <1>2 DEF Immediate
    <3>2. i - 1 \in 0 .. 3 /\ 8 + (i - 1) = i + 7 /\ 1 + (i - 1) = i
      BY ONLY <2>2
    <3> QED BY ONLY <3>1, <3>2, <1>5
  <2>3. CASE i \in 5 .. 10
    <3>1. Immediate(w, "B", i) = w[i + 20]
      BY ONLY <2>3, <1>2 DEF Immediate
    <3>2. i - 5 \in 0 .. 5 /\ 25 + (i - 5) = i + 20 /\ 5 + (i - 5) = i
      BY ONLY <2>3
    <3> QED BY ONLY <3>1, <3>2, <1>4
  <2>4. CASE i \in 11 .. 11
    <3>1. Immediate(w, "B", i) = w[7]
      BY ONLY <2>4, <1>2 DEF Immediate
    <3>2. i - 11 \in 0 .. 0 /\ 7 + (i - 11) = 7 /\ 11 + (i - 11) = i
      BY ONLY <2>4
    <3> QED BY ONLY <3>1, <3>2, <1>6
  <2>5. CASE i \in 12 .. 31
    <3>1. Immediate(w, "B", i) = w[31]
      BY ONLY <2>5, <1>2 DEF Immediate
    <3> QED BY <3>1, <2>5, <1>1, <1>8 DEF Signs
  <2>6. i = 0 \/ i \in 1 .. 4 \/ i \in 5 .. 10 \/ i \in 11 .. 11 \/ i \in 12 .. 31
    BY <1>2, i \in Bits
  <2> QED BY <2>1, <2>2, <2>3, <2>4, <2>5, <2>6
<1> QED
  <2>1. "B" \in Formats
    BY DEF Formats
  <2>2. imm_gen(w, "B") = [i \in Bits |-> Immediate(w, "B", i)]
    BY <2>1, RtlImmediate
  <2> QED BY ONLY <1>9, <2>2, ToBitsWord

\* An immediate that fits is read back.
LEMMA ReadsJ ==
    ASSUME NEW w \in InstWord, NEW n \in -Pow[20] .. Pow[20] - 1, n % 2 = 0,
           Carries(w, 31, 1, n, 20),
           Carries(w, 21, 10, n, 1),
           Carries(w, 20, 1, n, 11),
           Carries(w, 12, 8, n, 12)
    PROVE  imm_gen(w, "J") = ToBits(n)
<1>1. Signs(n, 20)
  <2> PICK m \in 0 .. 30 : m = 20
    OBVIOUS
  <2>1. n \in -Pow[m] .. Pow[m] - 1
    BY SMT
  <2>2. Signs(n, m)
    BY ONLY <2>1, m \in 0 .. 30, SignBits
  <2> QED BY <2>2
<1>2. n \in Int /\ \A i \in Bits : i \in Int /\ 0 <= i /\ i <= 31
  BY DEF Bits
<1>3. \A j \in 0 .. 0 : w[31 + j] = ToBits(n)[20 + j]
  BY DEF Carries
<1>4. \A j \in 0 .. 9 : w[21 + j] = ToBits(n)[1 + j]
  BY DEF Carries
<1>5. \A j \in 0 .. 0 : w[20 + j] = ToBits(n)[11 + j]
  BY DEF Carries
<1>6. \A j \in 0 .. 7 : w[12 + j] = ToBits(n)[12 + j]
  BY DEF Carries
<1>7. ToBits(n)[0] = 0
  <2>1. n \in Int
    BY <1>2
  <2>2. Above(n, 0) = n
    BY ONLY <2>1, Halve
  <2> PICK i \in 0 .. 30 : i = 0
    OBVIOUS
  <2>3. ToBits(n)[i] = Above(n, i) % 2
    BY ONLY <2>1, i \in 0 .. 30, BitOf
  <2> QED BY <2>2, <2>3
<1>8. w[31] = ToBits(n)[20]
  <2>1. 0 \in 0 .. 0 /\ 31 + 0 = 31 /\ 20 + 0 = 20
    OBVIOUS
  <2> QED BY <1>3, <2>1
<1>9. ASSUME NEW i \in Bits PROVE Immediate(w, "J", i) = ToBits(n)[i]
  <2>1. CASE i = 0
    BY <2>1, <1>7 DEF Immediate
  <2>2. CASE i \in 1 .. 10
    <3>1. Immediate(w, "J", i) = w[i + 20]
      BY ONLY <2>2, <1>2 DEF Immediate
    <3>2. i - 1 \in 0 .. 9 /\ 21 + (i - 1) = i + 20 /\ 1 + (i - 1) = i
      BY ONLY <2>2
    <3> QED BY ONLY <3>1, <3>2, <1>4
  <2>3. CASE i \in 11 .. 11
    <3>1. Immediate(w, "J", i) = w[20]
      BY ONLY <2>3, <1>2 DEF Immediate
    <3>2. i - 11 \in 0 .. 0 /\ 20 + (i - 11) = 20 /\ 11 + (i - 11) = i
      BY ONLY <2>3
    <3> QED BY ONLY <3>1, <3>2, <1>5
  <2>4. CASE i \in 12 .. 19
    <3>1. Immediate(w, "J", i) = w[i]
      BY ONLY <2>4, <1>2 DEF Immediate
    <3>2. i - 12 \in 0 .. 7 /\ 12 + (i - 12) = i /\ 12 + (i - 12) = i
      BY ONLY <2>4
    <3> QED BY ONLY <3>1, <3>2, <1>6
  <2>5. CASE i \in 20 .. 31
    <3>1. Immediate(w, "J", i) = w[31]
      BY ONLY <2>5, <1>2 DEF Immediate
    <3> QED BY <3>1, <2>5, <1>1, <1>8 DEF Signs
  <2>6. i = 0 \/ i \in 1 .. 10 \/ i \in 11 .. 11 \/ i \in 12 .. 19 \/ i \in 20 .. 31
    BY <1>2, i \in Bits
  <2> QED BY <2>1, <2>2, <2>3, <2>4, <2>5, <2>6
<1> QED
  <2>1. "J" \in Formats
    BY DEF Formats
  <2>2. imm_gen(w, "J") = [i \in Bits |-> Immediate(w, "J", i)]
    BY <2>1, RtlImmediate
  <2> QED BY ONLY <1>9, <2>2, ToBitsWord

LEMMA ReadsU ==
    ASSUME NEW w \in InstWord, NEW n \in 0 .. Pow[20] - 1, Carries(w, 12, 20, n, 0)
    PROVE  imm_gen(w, "U") = Shl(n, 12) /\ Number(Part(w, 31, 12)) = n
<1>1. \A i \in Bits : i \in Int /\ 0 <= i /\ i <= 31
  BY DEF Bits
<1>2. \A j \in 0 .. 19 : w[12 + j] = ToBits(n)[0 + j]
  BY DEF Carries
<1>3. ASSUME NEW i \in Bits PROVE Immediate(w, "U", i) = Shl(n, 12)[i]
  <2>1. CASE i < 12
    <3>1. Immediate(w, "U", i) = 0
      BY ONLY <2>1, <1>1, i \in Bits DEF Immediate
    <3> QED BY <3>1, <2>1 DEF Shl
  <2>2. CASE ~(i < 12)
    <3>1. Immediate(w, "U", i) = w[i]
      BY ONLY <2>2, <1>1, i \in Bits DEF Immediate
    <3>2. i - 12 \in 0 .. 19 /\ 12 + (i - 12) = i /\ 0 + (i - 12) = i - 12
      BY ONLY <2>2, <1>1, i \in Bits
    <3>3. Shl(n, 12)[i] = ToBits(n)[i - 12]
      BY <2>2 DEF Shl
    <3> QED BY ONLY <3>1, <3>2, <3>3, <1>2
  <2> QED BY <2>1, <2>2
<1>4. imm_gen(w, "U") = Shl(n, 12)
  <2>1. "U" \in Formats
    BY DEF Formats
  <2>2. imm_gen(w, "U") = [i \in Bits |-> Immediate(w, "U", i)]
    BY <2>1, RtlImmediate
  <2>3. Shl(n, 12) = [i \in Bits |-> Shl(n, 12)[i]]
    BY DEF Shl
  <2> QED BY ONLY <1>3, <2>2, <2>3
<1>5. Number(Part(w, 31, 12)) = n
  <2> PICK hi \in Bits, lo \in Bits, m \in 1 .. 30 : hi = 31 /\ lo = 12 /\ m = 20 /\ lo \in 0 .. hi
    BY DEF Bits
  <2>1. n \in 0 .. Pow[m] - 1
    OBVIOUS
  <2>2. m = (hi - lo) + 1 /\ Carries(w, lo, m, n, 0)
    OBVIOUS
  <2>3. Number(Part(w, hi, lo)) = n
    BY ONLY <2>1, <2>2, w \in InstWord, hi \in Bits, lo \in 0 .. hi, m \in 1 .. 30, FieldOf
  <2> QED BY <2>3
<1> QED BY <1>4, <1>5

-----------------------------------------------------------------------------
(* What a word spells *)

\* The tables of the assembler, read out.
LEMMA Tables ==
    /\ DOMAIN R_TYPE = {"add", "sub", "sll", "slt", "sltu", "xor", "srl", "sra", "or", "and"}
    /\ DOMAIN I_TYPE = {"addi", "slti", "sltiu", "xori", "ori", "andi"}
    /\ DOMAIN SHIFT_I = {"slli", "srli", "srai"}
    /\ DOMAIN LOADS = {"lb", "lh", "lw", "lbu", "lhu"}
    /\ DOMAIN STORES = {"sb", "sh", "sw"}
    /\ DOMAIN BRANCHES = {"beq", "bne", "blt", "bge", "bltu", "bgeu"}
  BY DEF R_TYPE, I_TYPE, SHIFT_I, LOADS, STORES, BRANCHES

\* No two operations of a table have the same function code.
LEMMA Injective ==
    /\ \A a, b \in DOMAIN R_TYPE : R_TYPE[a] = R_TYPE[b] => a = b
    /\ \A a, b \in DOMAIN I_TYPE : I_TYPE[a] = I_TYPE[b] => a = b
    /\ \A a, b \in DOMAIN SHIFT_I : SHIFT_I[a] = SHIFT_I[b] => a = b
    /\ \A a, b \in DOMAIN LOADS : LOADS[a] = LOADS[b] => a = b
    /\ \A a, b \in DOMAIN STORES : STORES[a] = STORES[b] => a = b
    /\ \A a, b \in DOMAIN BRANCHES : BRANCHES[a] = BRANCHES[b] => a = b
<1>1. \A a, b \in DOMAIN R_TYPE : R_TYPE[a] = R_TYPE[b] => a = b
  <2>1. /\ R_TYPE["add"] = <<0, 0>> /\ R_TYPE["sub"] = <<32, 0>> /\ R_TYPE["sll"] = <<0, 1>>
        /\ R_TYPE["slt"] = <<0, 2>> /\ R_TYPE["sltu"] = <<0, 3>> /\ R_TYPE["xor"] = <<0, 4>>
        /\ R_TYPE["srl"] = <<0, 5>> /\ R_TYPE["sra"] = <<32, 5>> /\ R_TYPE["or"] = <<0, 6>>
        /\ R_TYPE["and"] = <<0, 7>>
    BY DEF R_TYPE
  <2> QED BY <2>1, Tables
<1>2. \A a, b \in DOMAIN I_TYPE : I_TYPE[a] = I_TYPE[b] => a = b
  <2>1. /\ I_TYPE["addi"] = 0 /\ I_TYPE["slti"] = 2 /\ I_TYPE["sltiu"] = 3
        /\ I_TYPE["xori"] = 4 /\ I_TYPE["ori"] = 6 /\ I_TYPE["andi"] = 7
    BY DEF I_TYPE
  <2> QED BY <2>1, Tables
<1>3. \A a, b \in DOMAIN SHIFT_I : SHIFT_I[a] = SHIFT_I[b] => a = b
  <2>1. SHIFT_I["slli"] = <<0, 1>> /\ SHIFT_I["srli"] = <<0, 5>> /\ SHIFT_I["srai"] = <<32, 5>>
    BY DEF SHIFT_I
  <2> QED BY <2>1, Tables
<1>4. \A a, b \in DOMAIN LOADS : LOADS[a] = LOADS[b] => a = b
  <2>1. /\ LOADS["lb"] = 0 /\ LOADS["lh"] = 1 /\ LOADS["lw"] = 2
        /\ LOADS["lbu"] = 4 /\ LOADS["lhu"] = 5
    BY DEF LOADS
  <2> QED BY <2>1, Tables
<1>5. \A a, b \in DOMAIN STORES : STORES[a] = STORES[b] => a = b
  <2>1. STORES["sb"] = 0 /\ STORES["sh"] = 1 /\ STORES["sw"] = 2
    BY DEF STORES
  <2> QED BY <2>1, Tables
<1>6. \A a, b \in DOMAIN BRANCHES : BRANCHES[a] = BRANCHES[b] => a = b
  <2>1. /\ BRANCHES["beq"] = 0 /\ BRANCHES["bne"] = 1 /\ BRANCHES["blt"] = 4
        /\ BRANCHES["bge"] = 5 /\ BRANCHES["bltu"] = 6 /\ BRANCHES["bgeu"] = 7
    BY DEF BRANCHES
  <2> QED BY <2>1, Tables
<1> QED BY <1>1, <1>2, <1>3, <1>4, <1>5, <1>6

\* The function codes fit their fields; those of the shifts, which share an
\* opcode with the immediate operations, are none of theirs.
LEMMA Codes ==
    /\ \A op \in DOMAIN R_TYPE : R_TYPE[op] = <<R_TYPE[op][1], R_TYPE[op][2]>> /\
          R_TYPE[op][1] \in 0 .. 127 /\ R_TYPE[op][2] \in 0 .. 7
    /\ \A op \in DOMAIN SHIFT_I : SHIFT_I[op] = <<SHIFT_I[op][1], SHIFT_I[op][2]>> /\
          SHIFT_I[op][1] \in {0, 32} /\ SHIFT_I[op][2] \in {1, 5}
    /\ \A op \in DOMAIN I_TYPE : I_TYPE[op] \in (0 .. 7) \ {1, 5}
    /\ \A op \in DOMAIN LOADS : LOADS[op] \in 0 .. 7
    /\ \A op \in DOMAIN STORES : STORES[op] \in 0 .. 7
    /\ \A op \in DOMAIN BRANCHES : BRANCHES[op] \in 0 .. 7
<1>1. \A op \in DOMAIN R_TYPE : R_TYPE[op] = <<R_TYPE[op][1], R_TYPE[op][2]>> /\
         R_TYPE[op][1] \in 0 .. 127 /\ R_TYPE[op][2] \in 0 .. 7
  BY DEF R_TYPE
<1>2. \A op \in DOMAIN SHIFT_I : SHIFT_I[op] = <<SHIFT_I[op][1], SHIFT_I[op][2]>> /\
         SHIFT_I[op][1] \in {0, 32} /\ SHIFT_I[op][2] \in {1, 5}
  BY DEF SHIFT_I
<1>3. \A op \in DOMAIN I_TYPE : I_TYPE[op] \in (0 .. 7) \ {1, 5}
  BY DEF I_TYPE
<1>4. \A op \in DOMAIN LOADS : LOADS[op] \in 0 .. 7
  BY DEF LOADS
<1>5. \A op \in DOMAIN STORES : STORES[op] \in 0 .. 7
  BY DEF STORES
<1>6. \A op \in DOMAIN BRANCHES : BRANCHES[op] \in 0 .. 7
  BY DEF BRANCHES
<1> QED BY <1>1, <1>2, <1>3, <1>4, <1>5, <1>6

LEMMA EcallOrEbreak == \A w \in InstWord : ~(is_ecall(w) /\ is_ebreak(w))
<1> SUFFICES ASSUME NEW w \in InstWord, is_ecall(w), is_ebreak(w) PROVE FALSE
  OBVIOUS
<1>1. Part(w, 31, 7)[12] = 0 /\ Part(w, 31, 20)[12] = 1
  BY DEF is_ecall, is_ebreak, Repeat
<1>2. Part(w, 31, 7)[12] = w[20] /\ Part(w, 31, 20)[12] = w[20]
  BY DEF Part
<1> QED BY <1>1, <1>2

\* A word spells one operation at most.
LEMMA Unambiguous ==
    ASSUME NEW w \in InstWord, NEW a \in Mnemonics, NEW b \in Mnemonics, Is(w, a), Is(w, b)
    PROVE  a = b
<1> PICK x, funct : x = fields(w) /\ funct = <<x.funct7, x.funct3>>
  OBVIOUS
<1> DEFINE SpelledBy(op) ==
        \/ op \in DOMAIN R_TYPE   /\ x.opcode = 51 /\ funct = R_TYPE[op]
        \/ op \in DOMAIN SHIFT_I  /\ x.opcode = 19 /\ funct = SHIFT_I[op]
        \/ op \in DOMAIN I_TYPE   /\ x.opcode = 19 /\ x.funct3 = I_TYPE[op]
        \/ op \in DOMAIN LOADS    /\ x.opcode = 3  /\ x.funct3 = LOADS[op]
        \/ op \in DOMAIN STORES   /\ x.opcode = 35 /\ x.funct3 = STORES[op]
        \/ op \in DOMAIN BRANCHES /\ x.opcode = 99 /\ x.funct3 = BRANCHES[op]
        \/ op = "lui"    /\ x.opcode = 55
        \/ op = "auipc"  /\ x.opcode = 23
        \/ op = "jal"    /\ x.opcode = 111
        \/ op = "jalr"   /\ x.opcode = 103 /\ x.funct3 = 0
        \/ op = "fence"  /\ x.opcode = 15 /\ x.funct3 = 0
        \/ op = "ecall"  /\ x.opcode = 115 /\ is_ecall(w)
        \/ op = "ebreak" /\ x.opcode = 115 /\ is_ebreak(w)
<1>1. \A op : Is(w, op) <=> SpelledBy(op)
  BY DEF Is, Opcode
<1>2. SpelledBy(a) /\ SpelledBy(b)
  BY <1>1
<1> HIDE DEF SpelledBy
<1>3. \A op1 \in DOMAIN SHIFT_I, op2 \in DOMAIN I_TYPE : funct = SHIFT_I[op1] => x.funct3 # I_TYPE[op2]
  <2> SUFFICES ASSUME NEW op1 \in DOMAIN SHIFT_I, NEW op2 \in DOMAIN I_TYPE,
                      funct = SHIFT_I[op1], x.funct3 = I_TYPE[op2]
               PROVE  FALSE
    OBVIOUS
  <2>1. x.funct3 = SHIFT_I[op1][2]
    OBVIOUS
  <2> QED BY <2>1, Codes
<1> QED BY <1>2, <1>3, Injective, EcallOrEbreak DEF SpelledBy

\* The word w says the operation op, these registers and the immediate n.
Spells(w, op, rd, rs1, rs2, n) ==
    /\ {o \in Mnemonics : Is(w, o)} = {op}
    /\ RegistersOf(w, op) = [rd |-> rd, rs1 |-> rs1, rs2 |-> rs2]
    /\ op \in DOMAIN SHIFT_I => fields(w).rs2 = n % 32
    /\ Format(op) # "R" /\ Fits(n, Format(op)) =>
         imm_gen(w, Format(op)) = IF Format(op) = "U" THEN Shl(n, 12) ELSE ToBits(n)

LEMMA Alone ==
    ASSUME NEW w \in InstWord, NEW op \in Mnemonics, Is(w, op)
    PROVE  {o \in Mnemonics : Is(w, o)} = {op}
  BY Unambiguous

LEMMA FormatOf ==
    /\ \A op \in DOMAIN R_TYPE \cup DOMAIN SHIFT_I \cup {"fence", "ecall", "ebreak"} :
          Format(op) = "R"
    /\ \A op \in DOMAIN I_TYPE \cup DOMAIN LOADS \cup {"jalr"} : Format(op) = "I"
    /\ \A op \in DOMAIN STORES : Format(op) = "S"
    /\ \A op \in DOMAIN BRANCHES : Format(op) = "B"
    /\ \A op \in {"lui", "auipc"} : Format(op) = "U"
    /\ Format("jal") = "J"
<1>1. \A op \in DOMAIN R_TYPE \cup DOMAIN SHIFT_I \cup {"fence", "ecall", "ebreak"} :
         Format(op) = "R"
  BY Tables DEF Format
<1>2. \A op \in DOMAIN I_TYPE \cup DOMAIN LOADS \cup {"jalr"} : Format(op) = "I"
  BY Tables DEF Format
<1>3. \A op \in DOMAIN STORES : Format(op) = "S"
  BY Tables DEF Format
<1>4. \A op \in DOMAIN BRANCHES : Format(op) = "B"
  BY Tables DEF Format
<1>5. \A op \in {"lui", "auipc"} : Format(op) = "U"
  BY Tables DEF Format
<1>6. Format("jal") = "J"
  BY Tables DEF Format
<1> QED BY <1>1, <1>2, <1>3, <1>4, <1>5, <1>6

\* A register operation is read back.
LEMMA SpellsR ==
    ASSUME NEW op \in DOMAIN R_TYPE, NEW rd \in Registers, NEW rs1 \in Registers, NEW rs2 \in Registers, NEW n \in Int
    PROVE  LET w == r_type(R_TYPE[op][1], rs2, rs1, R_TYPE[op][2], rd, Opcode.REG)
           IN  w \in InstWord /\ Spells(w, op, rd, rs1, rs2, n)
<1> PICK oc \in 0 .. 127, f3 \in 0 .. 7, f7 \in 0 .. 127 : oc = Opcode.REG /\ oc = 51 /\ f3 = R_TYPE[op][2] /\ f7 = R_TYPE[op][1]
  BY Codes DEF Opcode
<1> PICK w : w = r_type(f7, rs2, rs1, f3, rd, oc)
  OBVIOUS
<1>0. rd \in 0 .. 31 /\ rs1 \in 0 .. 31 /\ rs2 \in 0 .. 31 /\ n \in Int /\ oc \in 0 .. 127 /\ f3 \in 0 .. 7 /\ f7 \in 0 .. 127
  BY DEF Registers
<1>1. /\ w \in InstWord
      /\ Carries(w, 25, 7, f7, 0)
      /\ Carries(w, 12, 3, f3, 0)
      /\ Carries(w, 7, 5, rd, 0)
      /\ Carries(w, 15, 5, rs1, 0)
      /\ Carries(w, 20, 5, rs2, 0)
      /\ Carries(w, 0, 7, oc, 0)
  BY ONLY <1>0, w = r_type(f7, rs2, rs1, f3, rd, oc), RType
<1>2. /\ fields(w).funct7 = f7
      /\ fields(w).funct3 = f3
      /\ fields(w).rd = rd
      /\ fields(w).rs1 = rs1
      /\ fields(w).rs2 = rs2
      /\ fields(w).opcode = oc
  BY ONLY <1>0, <1>1, FieldsCarried
<1>3. op \in Mnemonics /\ Is(w, op)
  <2>1. op \in Mnemonics
    BY DEF Mnemonics
  <2>2. Is(w, op)
    BY <1>2, Codes DEF Is, Opcode
  <2> QED BY <2>1, <2>2
<1>4. {o \in Mnemonics : Is(w, o)} = {op}
  BY ONLY <1>1, <1>3, Alone
<1>5. RegistersOf(w, op) = [rd |-> rd, rs1 |-> rs1, rs2 |-> rs2]
  BY <1>2, Tables DEF RegistersOf
<1>6. op \notin DOMAIN SHIFT_I
  BY Tables
<1>7. Format(op) = "R"
  BY FormatOf
<1> QED BY <1>1, <1>4, <1>5, <1>6, <1>7 DEF Spells

\* An operation with an immediate is read back.
LEMMA SpellsImm ==
    ASSUME NEW op \in DOMAIN I_TYPE, NEW rd \in Registers, NEW rs1 \in Registers, NEW n \in Int
    PROVE  LET w == i_type(n, rs1, I_TYPE[op], rd, Opcode.IMM)
           IN  w \in InstWord /\ Spells(w, op, rd, rs1, 0, n)
<1> PICK oc \in 0 .. 127, f3 \in 0 .. 7 : oc = Opcode.IMM /\ oc = 19 /\ f3 = I_TYPE[op]
  BY Codes DEF Opcode
<1> PICK w : w = i_type(n, rs1, f3, rd, oc)
  OBVIOUS
<1>0. rd \in 0 .. 31 /\ rs1 \in 0 .. 31 /\ n \in Int /\ oc \in 0 .. 127 /\ f3 \in 0 .. 7
  BY DEF Registers
<1>1. /\ w \in InstWord
      /\ Carries(w, 12, 3, f3, 0)
      /\ Carries(w, 7, 5, rd, 0)
      /\ Carries(w, 15, 5, rs1, 0)
      /\ Carries(w, 0, 7, oc, 0)
      /\ Carries(w, 20, 12, n, 0)
  BY ONLY <1>0, w = i_type(n, rs1, f3, rd, oc), IType
<1>2. /\ fields(w).funct3 = f3
      /\ fields(w).rd = rd
      /\ fields(w).rs1 = rs1
      /\ fields(w).opcode = oc
  BY ONLY <1>0, <1>1, FieldsCarried
<1>3. op \in Mnemonics /\ Is(w, op)
  <2>1. op \in Mnemonics
    BY DEF Mnemonics
  <2>2. Is(w, op)
    BY <1>2, Codes DEF Is, Opcode
  <2> QED BY <2>1, <2>2
<1>4. {o \in Mnemonics : Is(w, o)} = {op}
  BY ONLY <1>1, <1>3, Alone
<1>5. RegistersOf(w, op) = [rd |-> rd, rs1 |-> rs1, rs2 |-> 0]
  BY <1>2, Tables DEF RegistersOf
<1>6. op \notin DOMAIN SHIFT_I
  BY Tables
<1>7. Format(op) = "I"
  BY FormatOf
<1>8. ASSUME Fits(n, "I") PROVE imm_gen(w, "I") = ToBits(n)
  <2>1. n \in -2048 .. 2047
    BY <1>8 DEF Fits, ImmRange
  <2>2. Pow[11] = 2048
    BY PowValues, SMT
  <2>3. n \in -Pow[11] .. Pow[11] - 1
    BY ONLY <2>1, <2>2, n \in Int
  <2> QED BY ONLY <1>1, <2>3, ReadsI
<1> QED BY <1>1, <1>4, <1>5, <1>6, <1>7, <1>8 DEF Spells

\* A load is read back.
LEMMA SpellsLoad ==
    ASSUME NEW op \in DOMAIN LOADS, NEW rd \in Registers, NEW rs1 \in Registers, NEW n \in Int
    PROVE  LET w == i_type(n, rs1, LOADS[op], rd, Opcode.LOAD)
           IN  w \in InstWord /\ Spells(w, op, rd, rs1, 0, n)
<1> PICK oc \in 0 .. 127, f3 \in 0 .. 7 : oc = Opcode.LOAD /\ oc = 3 /\ f3 = LOADS[op]
  BY Codes DEF Opcode
<1> PICK w : w = i_type(n, rs1, f3, rd, oc)
  OBVIOUS
<1>0. rd \in 0 .. 31 /\ rs1 \in 0 .. 31 /\ n \in Int /\ oc \in 0 .. 127 /\ f3 \in 0 .. 7
  BY DEF Registers
<1>1. /\ w \in InstWord
      /\ Carries(w, 12, 3, f3, 0)
      /\ Carries(w, 7, 5, rd, 0)
      /\ Carries(w, 15, 5, rs1, 0)
      /\ Carries(w, 0, 7, oc, 0)
      /\ Carries(w, 20, 12, n, 0)
  BY ONLY <1>0, w = i_type(n, rs1, f3, rd, oc), IType
<1>2. /\ fields(w).funct3 = f3
      /\ fields(w).rd = rd
      /\ fields(w).rs1 = rs1
      /\ fields(w).opcode = oc
  BY ONLY <1>0, <1>1, FieldsCarried
<1>3. op \in Mnemonics /\ Is(w, op)
  <2>1. op \in Mnemonics
    BY DEF Mnemonics
  <2>2. Is(w, op)
    BY <1>2, Codes DEF Is, Opcode
  <2> QED BY <2>1, <2>2
<1>4. {o \in Mnemonics : Is(w, o)} = {op}
  BY ONLY <1>1, <1>3, Alone
<1>5. RegistersOf(w, op) = [rd |-> rd, rs1 |-> rs1, rs2 |-> 0]
  BY <1>2, Tables DEF RegistersOf
<1>6. op \notin DOMAIN SHIFT_I
  BY Tables
<1>7. Format(op) = "I"
  BY FormatOf
<1>8. ASSUME Fits(n, "I") PROVE imm_gen(w, "I") = ToBits(n)
  <2>1. n \in -2048 .. 2047
    BY <1>8 DEF Fits, ImmRange
  <2>2. Pow[11] = 2048
    BY PowValues, SMT
  <2>3. n \in -Pow[11] .. Pow[11] - 1
    BY ONLY <2>1, <2>2, n \in Int
  <2> QED BY ONLY <1>1, <2>3, ReadsI
<1> QED BY <1>1, <1>4, <1>5, <1>6, <1>7, <1>8 DEF Spells

\* JALR is read back.
LEMMA SpellsJalr ==
    ASSUME NEW op \in {"jalr"}, NEW rd \in Registers, NEW rs1 \in Registers, NEW n \in Int
    PROVE  LET w == i_type(n, rs1, 0, rd, Opcode.JALR)
           IN  w \in InstWord /\ Spells(w, op, rd, rs1, 0, n)
<1> PICK oc \in 0 .. 127, f3 \in 0 .. 7 : oc = Opcode.JALR /\ oc = 103 /\ f3 = 0
  BY Codes DEF Opcode
<1> PICK w : w = i_type(n, rs1, f3, rd, oc)
  OBVIOUS
<1>0. rd \in 0 .. 31 /\ rs1 \in 0 .. 31 /\ n \in Int /\ oc \in 0 .. 127 /\ f3 \in 0 .. 7
  BY DEF Registers
<1>1. /\ w \in InstWord
      /\ Carries(w, 12, 3, f3, 0)
      /\ Carries(w, 7, 5, rd, 0)
      /\ Carries(w, 15, 5, rs1, 0)
      /\ Carries(w, 0, 7, oc, 0)
      /\ Carries(w, 20, 12, n, 0)
  BY ONLY <1>0, w = i_type(n, rs1, f3, rd, oc), IType
<1>2. /\ fields(w).funct3 = f3
      /\ fields(w).rd = rd
      /\ fields(w).rs1 = rs1
      /\ fields(w).opcode = oc
  BY ONLY <1>0, <1>1, FieldsCarried
<1>3. op \in Mnemonics /\ Is(w, op)
  <2>1. op \in Mnemonics
    BY DEF Mnemonics
  <2>2. Is(w, op)
    BY <1>2, Codes DEF Is, Opcode
  <2> QED BY <2>1, <2>2
<1>4. {o \in Mnemonics : Is(w, o)} = {op}
  BY ONLY <1>1, <1>3, Alone
<1>5. RegistersOf(w, op) = [rd |-> rd, rs1 |-> rs1, rs2 |-> 0]
  BY <1>2, Tables DEF RegistersOf
<1>6. op \notin DOMAIN SHIFT_I
  BY Tables
<1>7. Format(op) = "I"
  BY FormatOf
<1>8. ASSUME Fits(n, "I") PROVE imm_gen(w, "I") = ToBits(n)
  <2>1. n \in -2048 .. 2047
    BY <1>8 DEF Fits, ImmRange
  <2>2. Pow[11] = 2048
    BY PowValues, SMT
  <2>3. n \in -Pow[11] .. Pow[11] - 1
    BY ONLY <2>1, <2>2, n \in Int
  <2> QED BY ONLY <1>1, <2>3, ReadsI
<1> QED BY <1>1, <1>4, <1>5, <1>6, <1>7, <1>8 DEF Spells

\* A store is read back.
LEMMA SpellsStore ==
    ASSUME NEW op \in DOMAIN STORES, NEW rs1 \in Registers, NEW rs2 \in Registers, NEW n \in Int
    PROVE  LET w == s_type(n, rs2, rs1, STORES[op], Opcode.STORE)
           IN  w \in InstWord /\ Spells(w, op, 0, rs1, rs2, n)
<1> PICK oc \in 0 .. 127, f3 \in 0 .. 7 : oc = Opcode.STORE /\ oc = 35 /\ f3 = STORES[op]
  BY Codes DEF Opcode
<1> PICK w : w = s_type(n, rs2, rs1, f3, oc)
  OBVIOUS
<1>0. rs1 \in 0 .. 31 /\ rs2 \in 0 .. 31 /\ n \in Int /\ oc \in 0 .. 127 /\ f3 \in 0 .. 7
  BY DEF Registers
<1>1. /\ w \in InstWord
      /\ Carries(w, 12, 3, f3, 0)
      /\ Carries(w, 15, 5, rs1, 0)
      /\ Carries(w, 20, 5, rs2, 0)
      /\ Carries(w, 0, 7, oc, 0)
      /\ Carries(w, 25, 7, n, 5)
      /\ Carries(w, 7, 5, n, 0)
  BY ONLY <1>0, w = s_type(n, rs2, rs1, f3, oc), SType
<1>2. /\ fields(w).funct3 = f3
      /\ fields(w).rs1 = rs1
      /\ fields(w).rs2 = rs2
      /\ fields(w).opcode = oc
  BY ONLY <1>0, <1>1, FieldsCarried
<1>3. op \in Mnemonics /\ Is(w, op)
  <2>1. op \in Mnemonics
    BY DEF Mnemonics
  <2>2. Is(w, op)
    BY <1>2, Codes DEF Is, Opcode
  <2> QED BY <2>1, <2>2
<1>4. {o \in Mnemonics : Is(w, o)} = {op}
  BY ONLY <1>1, <1>3, Alone
<1>5. RegistersOf(w, op) = [rd |-> 0, rs1 |-> rs1, rs2 |-> rs2]
  BY <1>2, Tables DEF RegistersOf
<1>6. op \notin DOMAIN SHIFT_I
  BY Tables
<1>7. Format(op) = "S"
  BY FormatOf
<1>8. ASSUME Fits(n, "S") PROVE imm_gen(w, "S") = ToBits(n)
  <2>1. n \in -2048 .. 2047
    BY <1>8 DEF Fits, ImmRange
  <2>2. Pow[11] = 2048
    BY PowValues, SMT
  <2>3. n \in -Pow[11] .. Pow[11] - 1
    BY ONLY <2>1, <2>2, n \in Int
  <2> QED BY ONLY <1>1, <2>3, ReadsS
<1> QED BY <1>1, <1>4, <1>5, <1>6, <1>7, <1>8 DEF Spells

\* A branch is read back.
LEMMA SpellsBranch ==
    ASSUME NEW op \in DOMAIN BRANCHES, NEW rs1 \in Registers, NEW rs2 \in Registers, NEW n \in Int
    PROVE  LET w == b_type(n, rs2, rs1, BRANCHES[op], Opcode.BRANCH)
           IN  w \in InstWord /\ Spells(w, op, 0, rs1, rs2, n)
<1> PICK oc \in 0 .. 127, f3 \in 0 .. 7 : oc = Opcode.BRANCH /\ oc = 99 /\ f3 = BRANCHES[op]
  BY Codes DEF Opcode
<1> PICK w : w = b_type(n, rs2, rs1, f3, oc)
  OBVIOUS
<1>0. rs1 \in 0 .. 31 /\ rs2 \in 0 .. 31 /\ n \in Int /\ oc \in 0 .. 127 /\ f3 \in 0 .. 7
  BY DEF Registers
<1>1. /\ w \in InstWord
      /\ Carries(w, 12, 3, f3, 0)
      /\ Carries(w, 15, 5, rs1, 0)
      /\ Carries(w, 20, 5, rs2, 0)
      /\ Carries(w, 0, 7, oc, 0)
      /\ Carries(w, 31, 1, n, 12)
      /\ Carries(w, 25, 6, n, 5)
      /\ Carries(w, 8, 4, n, 1)
      /\ Carries(w, 7, 1, n, 11)
  BY ONLY <1>0, w = b_type(n, rs2, rs1, f3, oc), BType
<1>2. /\ fields(w).funct3 = f3
      /\ fields(w).rs1 = rs1
      /\ fields(w).rs2 = rs2
      /\ fields(w).opcode = oc
  BY ONLY <1>0, <1>1, FieldsCarried
<1>3. op \in Mnemonics /\ Is(w, op)
  <2>1. op \in Mnemonics
    BY DEF Mnemonics
  <2>2. Is(w, op)
    BY <1>2, Codes DEF Is, Opcode
  <2> QED BY <2>1, <2>2
<1>4. {o \in Mnemonics : Is(w, o)} = {op}
  BY ONLY <1>1, <1>3, Alone
<1>5. RegistersOf(w, op) = [rd |-> 0, rs1 |-> rs1, rs2 |-> rs2]
  BY <1>2, Tables DEF RegistersOf
<1>6. op \notin DOMAIN SHIFT_I
  BY Tables
<1>7. Format(op) = "B"
  BY FormatOf
<1>8. ASSUME Fits(n, "B") PROVE imm_gen(w, "B") = ToBits(n)
  <2>1. n \in -4096 .. 4095 /\ n % 2 = 0
    BY <1>8 DEF Fits, ImmRange
  <2>2. Pow[12] = 4096
    BY PowValues, SMT
  <2>3. n \in -Pow[12] .. Pow[12] - 1 /\ n % 2 = 0
    BY ONLY <2>1, <2>2, n \in Int
  <2> QED BY ONLY <1>1, <2>3, ReadsB
<1> QED BY <1>1, <1>4, <1>5, <1>6, <1>7, <1>8 DEF Spells

\* LUI is read back.
LEMMA SpellsLui ==
    ASSUME NEW op \in {"lui"}, NEW rd \in Registers, NEW n \in Int
    PROVE  LET w == u_type(n, rd, Opcode.LUI)
           IN  w \in InstWord /\ Spells(w, op, rd, 0, 0, n)
<1> PICK oc \in 0 .. 127 : oc = Opcode.LUI /\ oc = 55
  BY Codes DEF Opcode
<1> PICK w : w = u_type(n, rd, oc)
  OBVIOUS
<1>0. rd \in 0 .. 31 /\ n \in Int /\ oc \in 0 .. 127
  BY DEF Registers
<1>1. /\ w \in InstWord
      /\ Carries(w, 7, 5, rd, 0)
      /\ Carries(w, 0, 7, oc, 0)
      /\ Carries(w, 12, 20, n, 0)
  BY ONLY <1>0, w = u_type(n, rd, oc), UType
<1>2. /\ fields(w).rd = rd
      /\ fields(w).opcode = oc
  BY ONLY <1>0, <1>1, FieldsCarried
<1>3. op \in Mnemonics /\ Is(w, op)
  <2>1. op \in Mnemonics
    BY DEF Mnemonics
  <2>2. Is(w, op)
    BY <1>2, Codes DEF Is, Opcode
  <2> QED BY <2>1, <2>2
<1>4. {o \in Mnemonics : Is(w, o)} = {op}
  BY ONLY <1>1, <1>3, Alone
<1>5. RegistersOf(w, op) = [rd |-> rd, rs1 |-> 0, rs2 |-> 0]
  BY <1>2, Tables DEF RegistersOf
<1>6. op \notin DOMAIN SHIFT_I
  BY Tables
<1>7. Format(op) = "U"
  BY FormatOf
<1>8. ASSUME Fits(n, "U") PROVE imm_gen(w, "U") = Shl(n, 12)
  <2>1. n \in 0 .. 2^20 - 1
    BY <1>8 DEF Fits, ImmRange
  <2>2. Pow[20] = 2^20
    BY DEF Pow
  <2>3. n \in 0 .. Pow[20] - 1
    BY ONLY <2>1, <2>2, n \in Int
  <2> QED BY ONLY <1>1, <2>3, ReadsU
<1> QED BY <1>1, <1>4, <1>5, <1>6, <1>7, <1>8 DEF Spells

\* AUIPC is read back.
LEMMA SpellsAuipc ==
    ASSUME NEW op \in {"auipc"}, NEW rd \in Registers, NEW n \in Int
    PROVE  LET w == u_type(n, rd, Opcode.AUIPC)
           IN  w \in InstWord /\ Spells(w, op, rd, 0, 0, n)
<1> PICK oc \in 0 .. 127 : oc = Opcode.AUIPC /\ oc = 23
  BY Codes DEF Opcode
<1> PICK w : w = u_type(n, rd, oc)
  OBVIOUS
<1>0. rd \in 0 .. 31 /\ n \in Int /\ oc \in 0 .. 127
  BY DEF Registers
<1>1. /\ w \in InstWord
      /\ Carries(w, 7, 5, rd, 0)
      /\ Carries(w, 0, 7, oc, 0)
      /\ Carries(w, 12, 20, n, 0)
  BY ONLY <1>0, w = u_type(n, rd, oc), UType
<1>2. /\ fields(w).rd = rd
      /\ fields(w).opcode = oc
  BY ONLY <1>0, <1>1, FieldsCarried
<1>3. op \in Mnemonics /\ Is(w, op)
  <2>1. op \in Mnemonics
    BY DEF Mnemonics
  <2>2. Is(w, op)
    BY <1>2, Codes DEF Is, Opcode
  <2> QED BY <2>1, <2>2
<1>4. {o \in Mnemonics : Is(w, o)} = {op}
  BY ONLY <1>1, <1>3, Alone
<1>5. RegistersOf(w, op) = [rd |-> rd, rs1 |-> 0, rs2 |-> 0]
  BY <1>2, Tables DEF RegistersOf
<1>6. op \notin DOMAIN SHIFT_I
  BY Tables
<1>7. Format(op) = "U"
  BY FormatOf
<1>8. ASSUME Fits(n, "U") PROVE imm_gen(w, "U") = Shl(n, 12)
  <2>1. n \in 0 .. 2^20 - 1
    BY <1>8 DEF Fits, ImmRange
  <2>2. Pow[20] = 2^20
    BY DEF Pow
  <2>3. n \in 0 .. Pow[20] - 1
    BY ONLY <2>1, <2>2, n \in Int
  <2> QED BY ONLY <1>1, <2>3, ReadsU
<1> QED BY <1>1, <1>4, <1>5, <1>6, <1>7, <1>8 DEF Spells

\* JAL is read back.
LEMMA SpellsJal ==
    ASSUME NEW op \in {"jal"}, NEW rd \in Registers, NEW n \in Int
    PROVE  LET w == j_type(n, rd, Opcode.JAL)
           IN  w \in InstWord /\ Spells(w, op, rd, 0, 0, n)
<1> PICK oc \in 0 .. 127 : oc = Opcode.JAL /\ oc = 111
  BY Codes DEF Opcode
<1> PICK w : w = j_type(n, rd, oc)
  OBVIOUS
<1>0. rd \in 0 .. 31 /\ n \in Int /\ oc \in 0 .. 127
  BY DEF Registers
<1>1. /\ w \in InstWord
      /\ Carries(w, 7, 5, rd, 0)
      /\ Carries(w, 0, 7, oc, 0)
      /\ Carries(w, 31, 1, n, 20)
      /\ Carries(w, 21, 10, n, 1)
      /\ Carries(w, 20, 1, n, 11)
      /\ Carries(w, 12, 8, n, 12)
  BY ONLY <1>0, w = j_type(n, rd, oc), JType
<1>2. /\ fields(w).rd = rd
      /\ fields(w).opcode = oc
  BY ONLY <1>0, <1>1, FieldsCarried
<1>3. op \in Mnemonics /\ Is(w, op)
  <2>1. op \in Mnemonics
    BY DEF Mnemonics
  <2>2. Is(w, op)
    BY <1>2, Codes DEF Is, Opcode
  <2> QED BY <2>1, <2>2
<1>4. {o \in Mnemonics : Is(w, o)} = {op}
  BY ONLY <1>1, <1>3, Alone
<1>5. RegistersOf(w, op) = [rd |-> rd, rs1 |-> 0, rs2 |-> 0]
  BY <1>2, Tables DEF RegistersOf
<1>6. op \notin DOMAIN SHIFT_I
  BY Tables
<1>7. Format(op) = "J"
  BY FormatOf
<1>8. ASSUME Fits(n, "J") PROVE imm_gen(w, "J") = ToBits(n)
  <2>1. n \in -(2^20) .. 2^20 - 1 /\ n % 2 = 0
    BY <1>8 DEF Fits, ImmRange
  <2>2. Pow[20] = 2^20
    BY DEF Pow
  <2>3. n \in -Pow[20] .. Pow[20] - 1 /\ n % 2 = 0
    BY ONLY <2>1, <2>2, n \in Int
  <2> QED BY ONLY <1>1, <2>3, ReadsJ
<1> QED BY <1>1, <1>4, <1>5, <1>6, <1>7, <1>8 DEF Spells

\* A shift keeps its kind above its amount.
LEMMA ShiftAmount ==
    ASSUME NEW w \in InstWord, NEW f \in 0 .. 127, NEW n \in Int,
           Carries(w, 20, 12, f * 2^5 + (n % 32), 0)
    PROVE  Carries(w, 20, 5, n % 32, 0) /\ Carries(w, 25, 7, f, 0)
<1> PICK r \in 0 .. 31 : r = n % 32
  OBVIOUS
<1> PICK v \in Int : v = f * 32 + r
  OBVIOUS
<1>0. 2^5 = 32
  BY Literals
<1>1. Carries(w, 20, 12, v, 0)
  BY <1>0
<1>2. \A j \in 0 .. 11 : w[20 + j] = ToBits(v)[0 + j]
  BY ONLY <1>1 DEF Carries
<1>3. Pow[5] = 32
  BY PowValues, SMT
<1>4. v % 32 = r /\ v \div 32 = f
  BY ONLY v = f * 32 + r, f \in 0 .. 127, r \in 0 .. 31
<1>5. \A i \in Bits : i < 5 => ToBits(r)[i] = ToBits(v)[i]
  <2> PICK m \in 0 .. 30 : m = 5
    OBVIOUS
  <2>1. \A i \in Bits : ToBits(v % Pow[m])[i] = IF i < m THEN ToBits(v)[i] ELSE 0
    BY ONLY v \in Int, m \in 0 .. 30, BitsLow
  <2>2. v % Pow[m] = r
    BY <1>3, <1>4
  <2> QED BY <2>1, <2>2
<1>6. \A b \in 0 .. 25 : ToBits(f)[b] = ToBits(v)[5 + b]
  <2> PICK a \in 0 .. 30 : a = 5
    OBVIOUS
  <2>1. \A b \in 0 .. 30 - a : ToBits(v \div Pow[a])[b] = ToBits(v)[a + b]
    BY ONLY v \in Int, a \in 0 .. 30, BitsShifted
  <2>2. v \div Pow[a] = f
    BY <1>3, <1>4
  <2> QED BY <2>1, <2>2
<1>7. ASSUME NEW j \in 0 .. 4 PROVE w[20 + j] = ToBits(r)[0 + j]
  <2>1. j \in Bits /\ j < 5 /\ j \in 0 .. 11 /\ 0 + j = j
    BY DEF Bits
  <2> QED BY <2>1, <1>2, <1>5
<1>8. ASSUME NEW j \in 0 .. 6 PROVE w[25 + j] = ToBits(f)[0 + j]
  <2>1. j \in 0 .. 25 /\ 5 + j \in 0 .. 11 /\ 0 + j = j /\ 0 + (5 + j) = 5 + j /\ 20 + (5 + j) = 25 + j
    OBVIOUS
  <2> QED BY <2>1, <1>2, <1>6
<1> QED BY <1>7, <1>8 DEF Carries

\* A shift by a constant is read back.
LEMMA SpellsShift ==
    ASSUME NEW op \in DOMAIN SHIFT_I, NEW rd \in Registers, NEW rs1 \in Registers, NEW n \in Int
    PROVE  LET w == i_type(SHIFT_I[op][1] * 2^5 + (n % 32), rs1, SHIFT_I[op][2], rd, Opcode.IMM)
           IN  w \in InstWord /\ Spells(w, op, rd, rs1, 0, n)
<1> PICK oc \in 0 .. 127 : oc = Opcode.IMM /\ oc = 19
  BY DEF Opcode
<1> PICK f3 \in 0 .. 7, f7 \in 0 .. 127 : f3 = SHIFT_I[op][2] /\ f7 = SHIFT_I[op][1]
  <2>1. SHIFT_I[op][1] \in {0, 32} /\ SHIFT_I[op][2] \in {1, 5}
    BY Codes
  <2>2. SHIFT_I[op][1] \in 0 .. 127 /\ SHIFT_I[op][2] \in 0 .. 7
    BY <2>1
  <2> QED BY <2>2
<1> PICK v \in Int : v = f7 * 2^5 + (n % 32)
  OBVIOUS
<1> PICK w : w = i_type(v, rs1, f3, rd, oc)
  OBVIOUS
<1>0. rd \in 0 .. 31 /\ rs1 \in 0 .. 31 /\ n \in Int /\ oc \in 0 .. 127 /\ f3 \in 0 .. 7
      /\ v \in Int
  BY DEF Registers
<1>1. /\ w \in InstWord
      /\ Carries(w, 12, 3, f3, 0)
      /\ Carries(w, 7, 5, rd, 0)
      /\ Carries(w, 15, 5, rs1, 0)
      /\ Carries(w, 0, 7, oc, 0)
      /\ Carries(w, 20, 12, v, 0)
  BY ONLY <1>0, w = i_type(v, rs1, f3, rd, oc), IType
<1>2. Carries(w, 20, 5, n % 32, 0) /\ Carries(w, 25, 7, f7, 0)
  BY ONLY <1>1, v = f7 * 2^5 + (n % 32), n \in Int, f7 \in 0 .. 127, ShiftAmount
<1>3. /\ fields(w).funct7 = f7
      /\ fields(w).funct3 = f3
      /\ fields(w).rd = rd
      /\ fields(w).rs1 = rs1
      /\ fields(w).rs2 = n % 32
      /\ fields(w).opcode = oc
  BY ONLY <1>0, <1>1, <1>2, f7 \in 0 .. 127, n % 32 \in 0 .. 31, FieldsCarried
<1>4. op \in Mnemonics /\ Is(w, op)
  <2>1. op \in Mnemonics
    BY DEF Mnemonics
  <2>2. Is(w, op)
    BY <1>3, Codes DEF Is, Opcode
  <2> QED BY <2>1, <2>2
<1>5. {o \in Mnemonics : Is(w, o)} = {op}
  BY ONLY <1>1, <1>4, Alone
<1>6. RegistersOf(w, op) = [rd |-> rd, rs1 |-> rs1, rs2 |-> 0]
  BY <1>3, Tables DEF RegistersOf
<1>7. Format(op) = "R"
  BY FormatOf
<1> QED BY <1>1, <1>3, <1>5, <1>6, <1>7 DEF Spells

\* The bits of the three words without operands.
LEMMA SystemWords ==
    /\ \A i \in Bits : i >= 7 => ToBits(115)[i] = 0
    /\ \A i \in Bits : i >= 7 => ToBits(15)[i] = 0
    /\ \A i \in Bits : i < 20 => ToBits(1048691)[i] = ToBits(115)[i]
    /\ ToBits(1048691)[20] = 1
    /\ \A i \in Bits : i > 20 => ToBits(1048691)[i] = 0
<1>1. ASSUME NEW n \in 0 .. 127 PROVE \A i \in Bits : i >= 7 => ToBits(n)[i] = 0
  <2> PICK m \in 0 .. 30 : m = 7
    OBVIOUS
  <2>1. Pow[7] = 128
    BY PowValues, SMT
  <2>2. n \in -Pow[m] .. Pow[m] - 1
    BY <2>1
  <2>3. Signs(n, m)
    BY ONLY <2>2, m \in 0 .. 30, SignBits
  <2> QED BY <2>3 DEF Signs, Bits
<1>2. PICK N \in Int : N = 1048691
  OBVIOUS
<1>3. Pow[20] = 2^20 /\ 2^20 = 1048576
  BY Literals, SMT DEF Pow
<1>4. N % Pow[20] = 115 /\ N \div Pow[20] = 1 /\ ~(N < 0)
  BY <1>2, <1>3, SMT
<1> PICK a \in 0 .. 30 : a = 20
  OBVIOUS
<1>5. \A i \in Bits : ToBits(N % Pow[a])[i] = IF i < a THEN ToBits(N)[i] ELSE 0
  BY ONLY N \in Int, a \in 0 .. 30, BitsLow
<1>6. \A i \in Bits : i < 20 => ToBits(N)[i] = ToBits(115)[i]
  BY <1>4, <1>5
<1>7. \A b \in 0 .. 30 - a : ToBits(N \div Pow[a])[b] = ToBits(N)[a + b]
  BY ONLY N \in Int, a \in 0 .. 30, BitsShifted
<1>8. \A b \in 0 .. 10 : ToBits(1)[b] = ToBits(N)[20 + b]
  BY <1>4, <1>7
<1>9. ToBits(1)[0] = 1
  BY DEF ToBits, Bits
<1>10. \A i \in 1 .. 31 : ToBits(1)[i] = 0
  <2> PICK m \in 0 .. 30, n \in Int : m = 1 /\ n = 1
    OBVIOUS
  <2>1. n \in -Pow[m] .. Pow[m] - 1
    BY PowValues, SMT
  <2>2. Signs(n, m)
    BY ONLY <2>1, m \in 0 .. 30, SignBits
  <2> QED BY <2>2 DEF Signs
<1>11. ToBits(N)[31] = 0
  BY <1>4 DEF ToBits, Bits
<1>12. ToBits(N)[20] = 1
  <2>1. 0 \in 0 .. 10 /\ 20 + 0 = 20
    OBVIOUS
  <2> QED BY <2>1, <1>8, <1>9
<1>13. ASSUME NEW i \in Bits, i > 20 PROVE ToBits(N)[i] = 0
  <2>1. CASE i = 31
    BY <2>1, <1>11
  <2>2. CASE i \in 21 .. 30
    <3>1. i - 20 \in 0 .. 10 /\ 20 + (i - 20) = i /\ i - 20 \in 1 .. 31
      BY <2>2
    <3> QED BY <3>1, <1>8, <1>10
  <2>3. i = 31 \/ i \in 21 .. 30
    BY ONLY i \in Bits, i > 20 DEF Bits
  <2> QED BY <2>1, <2>2, <2>3
<1> QED
  <2>1. 115 \in 0 .. 127 /\ 15 \in 0 .. 127
    OBVIOUS
  <2> QED BY <1>1, <1>2, <1>6, <1>12, <1>13, <2>1

LEMMA ZeroWord == \A i \in Bits : ToBits(0)[i] = 0
<1> PICK m \in 0 .. 30, n \in Int : m = 0 /\ n = 0
  OBVIOUS
<1>1. n \in -Pow[m] .. Pow[m] - 1
  BY PowValues, SMT
<1>2. Signs(n, m)
  BY ONLY <1>1, m \in 0 .. 30, SignBits
<1> QED BY <1>2 DEF Signs, Bits

\* A word whose bits from 7 up are zero names no register and no function.
LEMMA Operandless ==
    ASSUME NEW w \in InstWord, \A i \in Bits : i >= 7 => w[i] = 0
    PROVE  /\ fields(w).rd = 0 /\ fields(w).rs1 = 0 /\ fields(w).funct3 = 0
           /\ is_ecall(w)
<1>1. \A i \in Bits : ToBits(0)[i] = 0
  BY ZeroWord
<1>2. Carries(w, 7, 5, 0, 0) /\ Carries(w, 15, 5, 0, 0) /\ Carries(w, 12, 3, 0, 0)
  BY <1>1 DEF Carries, Bits
<1>3. fields(w).rd = 0 /\ fields(w).rs1 = 0 /\ fields(w).funct3 = 0
  <2> PICK z \in 0 .. 7 : z = 0
    OBVIOUS
  <2>1. z \in 0 .. 31 /\ Carries(w, 7, 5, z, 0) /\ Carries(w, 15, 5, z, 0) /\ Carries(w, 12, 3, z, 0)
    BY <1>2
  <2>2. fields(w).rd = z /\ fields(w).rs1 = z /\ fields(w).funct3 = z
    BY ONLY <2>1, z \in 0 .. 7, w \in InstWord, FieldsCarried
  <2> QED BY <2>2
<1>4. is_ecall(w)
  <2>1. ASSUME NEW k \in 1 .. 25 PROVE w[32 - k] = 0
    <3>1. 32 - k \in Bits /\ 32 - k >= 7
      BY DEF Bits
    <3> QED BY <3>1
  <2> QED BY <2>1 DEF is_ecall, Part, Repeat
<1> QED BY <1>3, <1>4

\* ECALL and FENCE are read back.
LEMMA SpellsEcall ==
    ASSUME NEW n \in Int
    PROVE  LET w == ToBits(115) IN w \in InstWord /\ Spells(w, "ecall", 0, 0, 0, n)
<1> PICK oc \in 0 .. 127 : oc = 115
  OBVIOUS
<1> PICK w : w = ToBits(oc)
  OBVIOUS
<1>1. w \in InstWord
  BY ONLY w = ToBits(oc), oc \in 0 .. 127, oc \in Int, WordOf
<1>2. \A i \in Bits : i >= 7 => w[i] = 0
  BY SystemWords
<1>3. fields(w).rd = 0 /\ fields(w).rs1 = 0 /\ is_ecall(w)
  BY ONLY <1>1, <1>2, Operandless
<1>4. fields(w).opcode = oc
  <2>1. Carries(w, 0, 7, oc, 0)
    BY DEF Carries
  <2> QED BY ONLY <1>1, <2>1, oc \in 0 .. 127, FieldsCarried
<1>5. "ecall" \in Mnemonics /\ Is(w, "ecall")
  BY <1>3, <1>4 DEF Mnemonics, Is, Opcode
<1>6. {o \in Mnemonics : Is(w, o)} = {"ecall"}
  BY ONLY <1>1, <1>5, Alone
<1>7. RegistersOf(w, "ecall") = [rd |-> 0, rs1 |-> 0, rs2 |-> 0]
  BY <1>3, Tables DEF RegistersOf
<1>8. Format("ecall") = "R" /\ "ecall" \notin DOMAIN SHIFT_I
  BY FormatOf, Tables
<1> QED BY <1>1, <1>6, <1>7, <1>8 DEF Spells

LEMMA SpellsFence ==
    ASSUME NEW n \in Int
    PROVE  LET w == ToBits(15) IN w \in InstWord /\ Spells(w, "fence", 0, 0, 0, n)
<1> PICK oc \in 0 .. 127 : oc = 15
  OBVIOUS
<1> PICK w : w = ToBits(oc)
  OBVIOUS
<1>1. w \in InstWord
  BY ONLY w = ToBits(oc), oc \in 0 .. 127, oc \in Int, WordOf
<1>2. \A i \in Bits : i >= 7 => w[i] = 0
  BY SystemWords
<1>3. fields(w).rd = 0 /\ fields(w).rs1 = 0 /\ fields(w).funct3 = 0
  BY ONLY <1>1, <1>2, Operandless
<1>4. fields(w).opcode = oc
  <2>1. Carries(w, 0, 7, oc, 0)
    BY DEF Carries
  <2> QED BY ONLY <1>1, <2>1, oc \in 0 .. 127, FieldsCarried
<1>5. "fence" \in Mnemonics /\ Is(w, "fence")
  BY <1>3, <1>4 DEF Mnemonics, Is, Opcode
<1>6. {o \in Mnemonics : Is(w, o)} = {"fence"}
  BY ONLY <1>1, <1>5, Alone
<1>7. RegistersOf(w, "fence") = [rd |-> 0, rs1 |-> 0, rs2 |-> 0]
  BY <1>3, Tables DEF RegistersOf
<1>8. Format("fence") = "R" /\ "fence" \notin DOMAIN SHIFT_I
  BY FormatOf, Tables
<1> QED BY <1>1, <1>6, <1>7, <1>8 DEF Spells

\* EBREAK is ECALL with bit 20 set.
LEMMA EbreakWord ==
    ASSUME NEW w \in InstWord, NEW n \in Int,
           \A i \in Bits : i < 20 => w[i] = ToBits(115)[i],
           w[20] = 1,
           \A i \in Bits : i > 20 => w[i] = 0
    PROVE  Spells(w, "ebreak", 0, 0, 0, n)
<1> PICK oc \in 0 .. 127 : oc = 115
  OBVIOUS
<1>1. w \in InstWord
  OBVIOUS
<1>2. /\ \A i \in Bits : i >= 7 /\ i # 20 => w[i] = 0
      /\ \A i \in Bits : i < 7 => w[i] = ToBits(oc)[i]
      /\ w[20] = 1
  <2>1. \A i \in Bits : i >= 7 => ToBits(oc)[i] = 0
    BY SystemWords, SMT
  <2>2. /\ \A i \in Bits : i < 20 => w[i] = ToBits(oc)[i]
        /\ w[20] = 1
        /\ \A i \in Bits : i > 20 => w[i] = 0
    OBVIOUS
  <2> QED BY ONLY <2>1, <2>2 DEF Bits
<1>3. fields(w).rd = 0 /\ fields(w).rs1 = 0
  <2>1. \A i \in Bits : ToBits(0)[i] = 0
    BY ZeroWord
  <2> PICK z \in 0 .. 31 : z = 0
    OBVIOUS
  <2>2. Carries(w, 7, 5, z, 0) /\ Carries(w, 15, 5, z, 0)
    BY ONLY <2>1, <1>2, z = 0 DEF Carries, Bits
  <2>3. fields(w).rd = z /\ fields(w).rs1 = z
    BY ONLY <1>1, <2>2, z \in 0 .. 31, FieldsCarried
  <2> QED BY <2>3
<1>4. fields(w).opcode = oc
  <2>1. Carries(w, 0, 7, oc, 0)
    BY ONLY <1>2 DEF Carries, Bits
  <2> QED BY ONLY <1>1, <2>1, oc \in 0 .. 127, FieldsCarried
<1>5. is_ebreak(w)
  <2>1. ASSUME NEW k \in 1 .. 12 PROVE w[32 - k] = IF k = 12 THEN 1 ELSE 0
    <3>1. 32 - k \in Bits /\ 32 - k >= 7 /\ (k # 12 => 32 - k # 20) /\ (k = 12 => 32 - k = 20)
      BY DEF Bits
    <3> QED BY ONLY <3>1, <1>2
  <2>2. ASSUME NEW k \in 1 .. 13 PROVE w[20 - k] = 0
    <3>1. 20 - k \in Bits /\ 20 - k >= 7 /\ 20 - k # 20
      BY DEF Bits
    <3> QED BY ONLY <3>1, <1>2
  <2>3. Part(w, 31, 20) = Repeat(11, 0) \o <<1>>
    <3>1. Part(w, 31, 20) = [k \in 1 .. 12 |-> w[32 - k]]
      BY DEF Part
    <3>2. Repeat(11, 0) \o <<1>> = [k \in 1 .. 12 |-> IF k = 12 THEN 1 ELSE 0]
      BY DEF Repeat
    <3> QED BY ONLY <3>1, <3>2, <2>1
  <2>4. Part(w, 19, 7) = Repeat(13, 0)
    BY ONLY <2>2 DEF Part, Repeat
  <2> QED BY <2>3, <2>4 DEF is_ebreak
<1>6. "ebreak" \in Mnemonics /\ Is(w, "ebreak")
  BY <1>4, <1>5 DEF Mnemonics, Is, Opcode
<1>7. {o \in Mnemonics : Is(w, o)} = {"ebreak"}
  BY ONLY <1>1, <1>6, Alone
<1>8. RegistersOf(w, "ebreak") = [rd |-> 0, rs1 |-> 0, rs2 |-> 0]
  BY <1>3, Tables DEF RegistersOf
<1>9. Format("ebreak") = "R" /\ "ebreak" \notin DOMAIN SHIFT_I
  BY FormatOf, Tables
<1> QED BY <1>1, <1>7, <1>8, <1>9 DEF Spells

LEMMA SpellsEbreak ==
    ASSUME NEW n \in Int
    PROVE  LET w == ToBits(1048691) IN w \in InstWord /\ Spells(w, "ebreak", 0, 0, 0, n)
<1> PICK N \in Int : N = 1048691
  BY SMT
<1> PICK w : w = ToBits(N)
  OBVIOUS
<1>1. w \in InstWord
  BY ONLY w = ToBits(N), N \in Int, WordOf
<1>2. /\ \A i \in Bits : i < 20 => w[i] = ToBits(115)[i]
      /\ w[20] = 1
      /\ \A i \in Bits : i > 20 => w[i] = 0
  BY SystemWords, SMT
<1>3. Spells(w, "ebreak", 0, 0, 0, n)
  BY ONLY <1>1, <1>2, n \in Int, EbreakWord
<1> QED BY <1>1, <1>3, SMT

-----------------------------------------------------------------------------
(* encode *)

\* What encode makes of a register operation.
LEMMA EncodeR ==
    \A i, at : i.op \in DOMAIN R_TYPE =>
        encode(i, at) = r_type(R_TYPE[i.op][1], i.rs2, i.rs1, R_TYPE[i.op][2], i.rd, Opcode.REG)
  BY Tables, SMTT(30) DEF encode

\* What encode makes of an immediate operation.
LEMMA EncodeImm ==
    \A i, at : i.op \in DOMAIN I_TYPE =>
        encode(i, at) = i_type(Absolute(i.imm), i.rs1, I_TYPE[i.op], i.rd, Opcode.IMM)
  BY Tables, SMTT(30) DEF encode

\* What encode makes of a shift by a constant.
LEMMA EncodeShift ==
    \A i, at : i.op \in DOMAIN SHIFT_I =>
        encode(i, at) = i_type(SHIFT_I[i.op][1] * 2^5 + (Absolute(i.imm) % 32), i.rs1,
                               SHIFT_I[i.op][2], i.rd, Opcode.IMM)
  BY Tables, SMTT(30) DEF encode

\* What encode makes of a load.
LEMMA EncodeLoad ==
    \A i, at : i.op \in DOMAIN LOADS =>
        encode(i, at) = i_type(Absolute(i.imm), i.rs1, LOADS[i.op], i.rd, Opcode.LOAD)
  BY Tables, SMTT(30) DEF encode

\* What encode makes of a store.
LEMMA EncodeStore ==
    \A i, at : i.op \in DOMAIN STORES =>
        encode(i, at) = s_type(Absolute(i.imm), i.rs2, i.rs1, STORES[i.op], Opcode.STORE)
  BY Tables, SMTT(30) DEF encode

\* What encode makes of a branch.
LEMMA EncodeBranch ==
    \A i, at : i.op \in DOMAIN BRANCHES =>
        encode(i, at) = b_type(Relative(i.imm, at), i.rs2, i.rs1, BRANCHES[i.op], Opcode.BRANCH)
  BY Tables, SMTT(30) DEF encode

\* What encode makes of lui.
LEMMA EncodeLui ==
    \A i, at : i.op = "lui" =>
        encode(i, at) = u_type(Absolute(i.imm), i.rd, Opcode.LUI)
  BY Tables, SMTT(30) DEF encode

\* What encode makes of auipc.
LEMMA EncodeAuipc ==
    \A i, at : i.op = "auipc" =>
        encode(i, at) = u_type(Absolute(i.imm), i.rd, Opcode.AUIPC)
  BY Tables, SMTT(30) DEF encode

\* What encode makes of jal.
LEMMA EncodeJal ==
    \A i, at : i.op = "jal" =>
        encode(i, at) = j_type(Relative(i.imm, at), i.rd, Opcode.JAL)
  BY Tables, SMTT(30) DEF encode

\* What encode makes of jalr.
LEMMA EncodeJalr ==
    \A i, at : i.op = "jalr" =>
        encode(i, at) = i_type(Absolute(i.imm), i.rs1, 0, i.rd, Opcode.JALR)
  BY Tables, SMTT(30) DEF encode

\* What encode makes of ecall.
LEMMA EncodeEcall ==
    \A i, at : i.op = "ecall" =>
        encode(i, at) = ToBits(115)
  BY Tables, SMTT(30) DEF encode

\* What encode makes of ebreak.
LEMMA EncodeEbreak ==
    \A i, at : i.op = "ebreak" =>
        encode(i, at) = ToBits(1048691)
  BY Tables, SMTT(30) DEF encode

\* What encode makes of fence.
LEMMA EncodeFence ==
    \A i, at : i.op = "fence" =>
        encode(i, at) = ToBits(15)
  BY Tables, SMTT(30) DEF encode

\* What encode makes of a .word line.
LEMMA EncodeWord ==
    \A i, at : i.op = ".word" =>
        encode(i, at) = Or({Shl(i.hi, 12), ToBits(i.lo)})
  BY Tables, SMTT(30) DEF encode

\* The number of an instruction: a distance for a branch or jump.
NumberOf(i, at) == IF i.op \in LinkOps THEN Relative(i.imm, at) ELSE Absolute(i.imm)

LEMMA Encodes ==
    ASSUME NEW i \in RealLine, NEW at \in Int, NumberOf(i, at) \in Int
    PROVE  /\ encode(i, at) \in InstWord
           /\ Spells(encode(i, at), i.op, i.rd, i.rs1, i.rs2, NumberOf(i, at))
<1>1. CASE i \in Lines(DOMAIN R_TYPE, Registers, Registers, Registers, None)
  <2>1. i.op \in DOMAIN R_TYPE /\ i.rd \in Registers /\ i.rs1 \in Registers /\ i.rs2 \in Registers
    BY <1>1 DEF Lines
  <2> QED BY <2>1, EncodeR, SpellsR
<1>2. CASE i \in Lines(DOMAIN I_TYPE \cup DOMAIN SHIFT_I \cup DOMAIN LOADS \cup {"jalr"},
                       Registers, Registers, {0}, Numbers)
  <2>1. i.rd \in Registers /\ i.rs1 \in Registers /\ i.rs2 = 0
    BY <1>2 DEF Lines
  <2>2. i.op \in DOMAIN I_TYPE \cup DOMAIN SHIFT_I \cup DOMAIN LOADS \cup {"jalr"}
    BY <1>2 DEF Lines
  <2>3. NumberOf(i, at) = Absolute(i.imm) /\ Absolute(i.imm) \in Int
    BY <2>2, Tables DEF NumberOf, LinkOps
  <2>4. CASE i.op \in DOMAIN I_TYPE
    BY ONLY <2>1, <2>3, <2>4, EncodeImm, SpellsImm
  <2>5. CASE i.op \in DOMAIN SHIFT_I
    <3> PICK op \in DOMAIN SHIFT_I, rd \in Registers, rs1 \in Registers, n \in Int :
             op = i.op /\ rd = i.rd /\ rs1 = i.rs1 /\ n = NumberOf(i, at)
      BY <2>1, <2>3, <2>5
    <3> PICK w : w = i_type(SHIFT_I[op][1] * 2^5 + (n % 32), rs1, SHIFT_I[op][2], rd, Opcode.IMM)
      OBVIOUS
    <3>1. w \in InstWord /\ Spells(w, op, rd, rs1, 0, n)
      BY SpellsShift, Zenon
    <3>2. encode(i, at) = w
      BY ONLY <2>3, <2>5, EncodeShift,
               op = i.op, rd = i.rd, rs1 = i.rs1, n = NumberOf(i, at),
               w = i_type(SHIFT_I[op][1] * 2^5 + (n % 32), rs1, SHIFT_I[op][2], rd, Opcode.IMM)
    <3> QED BY <3>1, <3>2, <2>1
  <2>6. CASE i.op \in DOMAIN LOADS
    BY ONLY <2>1, <2>3, <2>6, EncodeLoad, SpellsLoad
  <2>7. CASE i.op \in {"jalr"}
    BY ONLY <2>1, <2>3, <2>7, EncodeJalr, SpellsJalr
  <2> QED BY <2>2, <2>4, <2>5, <2>6, <2>7
<1>3. CASE i \in Lines(DOMAIN STORES \cup DOMAIN BRANCHES, {0}, Registers, Registers, Numbers)
  <2>1. i.rd = 0 /\ i.rs1 \in Registers /\ i.rs2 \in Registers
    BY <1>3 DEF Lines
  <2>2. i.op \in DOMAIN STORES \/ i.op \in DOMAIN BRANCHES
    BY <1>3 DEF Lines
  <2>3. CASE i.op \in DOMAIN STORES
    <3>1. NumberOf(i, at) = Absolute(i.imm) /\ Absolute(i.imm) \in Int
      BY <2>3, Tables DEF NumberOf, LinkOps
    <3> QED BY ONLY <2>1, <2>3, <3>1, EncodeStore, SpellsStore
  <2>4. CASE i.op \in DOMAIN BRANCHES
    <3>1. NumberOf(i, at) = Relative(i.imm, at) /\ Relative(i.imm, at) \in Int
      BY <2>4, Tables DEF NumberOf, LinkOps
    <3> QED BY ONLY <2>1, <2>4, <3>1, EncodeBranch, SpellsBranch
  <2> QED BY <2>2, <2>3, <2>4
<1>4. CASE i \in Lines({"lui", "auipc", "jal"}, Registers, {0}, {0}, Numbers)
  <2>1. i.rd \in Registers /\ i.rs1 = 0 /\ i.rs2 = 0
    BY <1>4 DEF Lines
  <2>2. i.op = "lui" \/ i.op = "auipc" \/ i.op = "jal"
    BY <1>4 DEF Lines
  <2>3. i.op # "jal" => NumberOf(i, at) = Absolute(i.imm) /\ Absolute(i.imm) \in Int
    BY <2>2, Tables DEF NumberOf, LinkOps
  <2>4. i.op = "jal" => NumberOf(i, at) = Relative(i.imm, at) /\ Relative(i.imm, at) \in Int
    BY DEF NumberOf, LinkOps
  <2>5. CASE i.op = "lui"
    <3>1. i.op \in {"lui"} /\ i.op # "jal"
      BY <2>5
    <3> QED BY ONLY <2>1, <2>3, <2>5, <3>1, EncodeLui, SpellsLui
  <2>6. CASE i.op = "auipc"
    <3>1. i.op \in {"auipc"} /\ i.op # "jal"
      BY <2>6
    <3> QED BY ONLY <2>1, <2>3, <2>6, <3>1, EncodeAuipc, SpellsAuipc
  <2>7. CASE i.op = "jal"
    <3>1. i.op \in {"jal"}
      BY <2>7
    <3> QED BY ONLY <2>1, <2>4, <2>7, <3>1, EncodeJal, SpellsJal
  <2> QED BY <2>2, <2>5, <2>6, <2>7
<1>5. CASE i \in Lines({"ecall", "ebreak", "fence"}, {0}, {0}, {0}, None)
  <2>1. i.rd = 0 /\ i.rs1 = 0 /\ i.rs2 = 0
    BY <1>5 DEF Lines
  <2>2. i.op = "ecall" \/ i.op = "ebreak" \/ i.op = "fence"
    BY <1>5 DEF Lines
  <2>3. CASE i.op = "ecall"
    BY <2>1, <2>3, EncodeEcall, SpellsEcall
  <2>4. CASE i.op = "fence"
    BY <2>1, <2>4, EncodeFence, SpellsFence
  <2>5. CASE i.op = "ebreak"
    BY <2>1, <2>5, EncodeEbreak, SpellsEbreak, SMTT(60)
  <2> QED BY <2>2, <2>3, <2>4, <2>5
<1> QED BY <1>1, <1>2, <1>3, <1>4, <1>5 DEF RealLine

LEMMA EncodesWord == \A i, at : i.op = ".word" => encode(i, at) \in InstWord
  BY EncodeWord, OrWord

-----------------------------------------------------------------------------
(* The two passes *)

\* The lines read so far: a prefix of the source.
Count == Len(source) - Len(text)

Following ==
    /\ source \in Seq(Line) /\ text \in Seq(Line)
    /\ Count \in 0 .. Len(source)
    /\ \A n \in 1 .. Len(text) : text[n] = source[Count + n]

\* Pass 1 has put every real instruction of a line it read in the place the
\* sizes of the lines before give it, and nothing else in items.
Counted ==
    /\ items \in Seq([at : Int, ins : RealLine \cup WordLine])
    /\ pc = AddressOf(Count + 1)
    /\ pc = Base + 4 * Len(items)
    /\ \A k \in 1 .. Len(items) : items[k].at = Base + 4 * (k - 1)

Emitted ==
    \A n \in 1 .. Count : source[n].op # "label" =>
      \A k \in 1 .. Size(source[n]) :
        \E j \in 1 .. Len(items) :
           items[j] = [at |-> AddressOf(n) + 4 * (k - 1), ins |-> expand(source[n])[k]]

Required ==
    \A k \in 1 .. Len(items) : items[k].ins.imm.label # "" =>
      \E n \in 1 .. Count : items[k].ins.imm.label \in Uses(source[n])

\* A label has the address of the last line read that defines it.
Defines(n, l) == source[n].op = "label" /\ source[n].name = l
LabelsMet ==
    /\ labels = [l \in DOMAIN labels |-> labels[l]]
    /\ \A n \in 1 .. Count, l \in Labels : Defines(n, l) => l \in DOMAIN labels
    /\ \A l \in DOMAIN labels :
         /\ l \in Labels /\ labels[l] \in Base .. pc
         /\ \E n \in 1 .. Count :
               /\ Defines(n, l) /\ labels[l] = AddressOf(n)
               /\ \A m \in n + 1 .. Count : ~Defines(m, l)

\* Pass 2 begins when the text is read; a word is what encode makes of its item.
EncodedItem(k) == encode(items[k].ins, items[k].at)
Encoded ==
    /\ words \in Seq(InstWord) /\ Len(words) <= Len(items)
    /\ \A k \in 1 .. Len(words) :
         words[k] = EncodedItem(k) /\ Known(items[k].ins.imm)
    /\ words # <<>> => text = <<>>

Ended ==
    /\ outcome # "running" => text = <<>>
    /\ outcome = "done" => Len(words) = Len(items)
    /\ outcome = "error" => \E k \in 1 .. Len(items) : ~Known(items[k].ins.imm)

Assembling == Following /\ Counted /\ Emitted /\ Required /\ LabelsMet /\ Encoded /\ Ended

-----------------------------------------------------------------------------
(* Sizes and expansions *)

LEMMA SizeRange == \A line : Size(line) \in {0, 1, 2}
  BY DEF Size

\* AddressOf adds up the sizes, line by line.
LEMMA AddressSteps ==
    ASSUME source \in Seq(Line)
    PROVE  /\ AddressOf(1) = Base
           /\ \A n \in 1 .. Len(source) + 1 : AddressOf(n) \in Int
           /\ \A n \in 1 .. Len(source) : AddressOf(n + 1) = AddressOf(n) + 4 * Size(source[n])
<1> PICK m \in Nat : m = Len(source)
  OBVIOUS
<1> DEFINE step == [p \in (1 .. m) \X Int |-> p[2] + 4 * Size(source[p[1]])]
           Steps(g) == g = [k \in 0 .. m |-> IF k = 0 THEN Base
                                             ELSE g[k - 1] + 4 * Size(source[k])]
<1>1. \A n \in 1 .. m : Size(source[n]) \in Int
  BY SizeRange
<1>2. step \in [(1 .. m) \X Int -> Int]
  <2> SUFFICES ASSUME NEW p \in (1 .. m) \X Int PROVE p[2] + 4 * Size(source[p[1]]) \in Int
    OBVIOUS
  <2> QED BY <1>1
<1>3. PICK g \in [0 .. m -> Int] :
          g[0] = Base /\ \A n \in 1 .. m : g[n] = step[<<n, g[n - 1]>>]
  <2> HIDE DEF step
  <2>1. Base \in Int
    BY BaseAssumption
  <2> QED BY ONLY m \in Nat, <1>2, <2>1, Recursion
<1>4. ASSUME NEW n \in 1 .. m
      PROVE  g[n - 1] \in Int /\ g[n] = g[n - 1] + 4 * Size(source[n])
  <2>1. n - 1 \in 0 .. m
    OBVIOUS
  <2>2. g[n - 1] \in Int
    BY <2>1
  <2>3. g[n] = step[<<n, g[n - 1]>>]
    BY <1>3
  <2> QED BY <2>2, <2>3
<1>5. Steps(g)
  BY <1>1, <1>3, <1>4
<1>6. PICK h : h = (CHOOSE x : Steps(x))
  OBVIOUS
<1>7. Steps(h)
  BY <1>5, <1>6
<1>8. \A n : AddressOf(n) = h[n - 1]
  BY <1>6 DEF AddressOf
<1>9. h[0] = Base /\ \A n \in 1 .. m : h[n] = h[n - 1] + 4 * Size(source[n])
  <2>1. h[0] = Base
    BY <1>7
  <2>2. ASSUME NEW n \in 1 .. m PROVE h[n] = h[n - 1] + 4 * Size(source[n])
    <3>1. n \in 0 .. m /\ n # 0
      OBVIOUS
    <3> QED BY <3>1, <1>7
  <2> QED BY <2>1, <2>2
<1> DEFINE S == {n \in 0 .. m : h[n] = g[n]}
<1>10. 0 \in S
  BY <1>1, <1>3, <1>9
<1>11. ASSUME NEW n \in 0 .. m - 1, n \in S PROVE n + 1 \in S
  <2>1. n + 1 \in 1 .. m /\ (n + 1) - 1 = n
    BY <1>1
  <2> QED BY <1>1, <1>4, <1>9, <1>11, <2>1
<1>12. \A n \in 0 .. m : h[n] \in Int
  <2>1. 0 .. m \subseteq S
    <3> HIDE DEF S
    <3> QED BY ONLY m \in Nat, <1>10, <1>11, Positions
  <2> QED BY <2>1
<1>13. AddressOf(1) = Base
  BY <1>8, <1>9
<1>14. ASSUME NEW n \in 1 .. m + 1 PROVE AddressOf(n) \in Int
  <2>1. n - 1 \in 0 .. m
    OBVIOUS
  <2> QED BY <2>1, <1>8, <1>12
<1>15. ASSUME NEW n \in 1 .. m PROVE AddressOf(n + 1) = AddressOf(n) + 4 * Size(source[n])
  <2>1. (n + 1) - 1 = n
    OBVIOUS
  <2> QED BY <2>1, <1>8, <1>9
<1> QED BY <1>13, <1>14, <1>15

\* The instructions _expand makes are real.
LEMMA RealOnes ==
    /\ \A rd, rs1 \in Registers, m \in Numbers : Real("addi", rd, rs1, 0, m) \in RealLine
    /\ \A rd, rs1 \in Registers, m \in Numbers : Real("jalr", rd, rs1, 0, m) \in RealLine
    /\ \A rd \in Registers, m \in Numbers : Real("lui", rd, 0, 0, m) \in RealLine
    /\ \A rd \in Registers, m \in Numbers : Real("jal", rd, 0, 0, m) \in RealLine
    /\ \A rs1 \in Registers, m \in Numbers : Real("beq", 0, rs1, 0, m) \in RealLine
    /\ \A rs1 \in Registers, m \in Numbers : Real("bne", 0, rs1, 0, m) \in RealLine
<1>1. ASSUME NEW rd \in Registers, NEW rs1 \in Registers, NEW m \in Numbers
      PROVE  Real("addi", rd, rs1, 0, m) \in RealLine /\ Real("jalr", rd, rs1, 0, m) \in RealLine
  BY Tables DEF RealLine, Lines, Real
<1>2. ASSUME NEW rd \in Registers, NEW m \in Numbers
      PROVE  Real("lui", rd, 0, 0, m) \in RealLine /\ Real("jal", rd, 0, 0, m) \in RealLine
  BY DEF RealLine, Lines, Real
<1>3. 0 \in Registers
  BY DEF Registers
<1>4. ASSUME NEW rs1 \in Registers, NEW m \in Numbers
      PROVE  Real("beq", 0, rs1, 0, m) \in RealLine /\ Real("bne", 0, rs1, 0, m) \in RealLine
  BY Tables, <1>3 DEF RealLine, Lines, Real
<1> QED BY <1>1, <1>2, <1>4

LEMMA LiteralNumber == \A n \in Int : Literal(n) \in Numbers /\ Literal(n).label = ""
  BY DEF Literal, Numbers

LiLine == [op : {"li"}, rd : Registers, hi : 0 .. 2^20 - 1, lo : 0 .. 2^12 - 1]

LEMMA SignedLowValue ==
    ASSUME NEW lo \in Int, 0 <= lo, lo < 4096
    PROVE  /\ SignedLow(lo) \in Int /\ -2048 <= SignedLow(lo) /\ SignedLow(lo) < 2048
           /\ SignedLow(lo) = IF lo < 2048 THEN lo ELSE lo - 4096
           /\ (lo + 2048) \div 4096 = IF lo < 2048 THEN 0 ELSE 1
<1>1. CASE lo < 2048
  <2>1. (lo + 2048) % 4096 = lo + 2048 /\ (lo + 2048) \div 4096 = 0
    BY <1>1
  <2> QED BY <2>1, <1>1 DEF SignedLow
<1>2. CASE lo >= 2048
  <2>1. (lo + 2048) % 4096 = lo - 2048 /\ (lo + 2048) \div 4096 = 1
    BY <1>2
  <2> QED BY <2>1, <1>2 DEF SignedLow
<1> QED BY <1>1, <1>2

LEMMA LiType ==
    ASSUME NEW i \in LiLine
    PROVE  /\ i.op = "li" /\ i.rd \in Registers /\ i.lo \in Int /\ 0 <= i.lo /\ i.lo < 4096
           /\ i.hi \in Int /\ 0 <= i.hi /\ i.hi < 2^20
<1>1. i.op = "li" /\ i.rd \in Registers /\ i.lo \in 0 .. 2^12 - 1 /\ i.hi \in 0 .. 2^20 - 1
  BY DEF LiLine
<1>2. 2^12 = 4096 /\ 2^20 \in Int
  BY Literals, SMT
<1> QED BY <1>1, <1>2

\* li in one instruction or two.
LEMMA ExpandLi ==
    ASSUME NEW i \in LiLine
    PROVE  /\ Size(i) = 1 =>
                /\ (i.hi = 0 /\ i.lo < 2048) \/ (i.hi = 2^20 - 1 /\ i.lo >= 2048)
                /\ expand(i) = <<Real("addi", i.rd, 0, 0, Literal(SignedLow(i.lo)))>>
           /\ Size(i) # 1 =>
                /\ Size(i) = 2
                /\ expand(i) = <<Real("lui", i.rd, 0, 0,
                                      Literal((i.hi + (i.lo + 2048) \div 4096) % 2^20)),
                                 Real("addi", i.rd, i.rd, 0, Literal(SignedLow(i.lo)))>>
<1> PICK P \in Nat : P = 2^20 /\ P > 2
  BY Literals, SMT
<1>1. /\ i.op = "li" /\ i.rd \in Registers /\ i.lo \in Int /\ 0 <= i.lo /\ i.lo < 4096
      /\ i.hi \in Int /\ 0 <= i.hi /\ i.hi < P
  BY LiType
<1>2. expand(i) = expand_li(i.rd, i.hi, i.lo)
  BY <1>1 DEF expand
<1>3. Size(i) = IF (i.hi = 0 /\ i.lo < 2048) \/ (i.hi = P - 1 /\ i.lo >= 2048) THEN 1 ELSE 2
  BY <1>1 DEF Size
<1>4. SignedLow(i.lo) = IF i.lo < 2048 THEN i.lo ELSE i.lo - 4096
  BY <1>1, SignedLowValue
<1>5. CASE i.hi = 0 /\ i.lo < 2048
  BY <1>1, <1>2, <1>3, <1>4, <1>5 DEF expand_li
<1>6. CASE i.hi = P - 1 /\ i.lo >= 2048
  <2>1. ~(i.hi = 0) /\ ~(i.lo < 2048)
    BY <1>1, <1>6
  <2> QED BY <1>1, <1>2, <1>3, <1>4, <1>6, <2>1 DEF expand_li
<1>7. CASE ~(i.hi = 0 /\ i.lo < 2048) /\ ~(i.hi = P - 1 /\ i.lo >= 2048)
  <2>1. Size(i) = 2
    BY <1>3, <1>7
  <2>2. expand(i) = <<Real("lui", i.rd, 0, 0,
                           Literal((i.hi + (i.lo + 2048) \div 4096) % 2^20)),
                      Real("addi", i.rd, i.rd, 0, Literal(SignedLow(i.lo)))>>
    BY <1>2, <1>7 DEF expand_li
  <2> QED BY <2>1, <2>2
<1> QED BY <1>5, <1>6, <1>7

\* The instructions of a line, and the labels they use.
Expands(line) ==
    /\ expand(line) \in Seq(RealLine \cup WordLine)
    /\ Len(expand(line)) = Size(line) /\ Size(line) \in {1, 2}
    /\ \A k \in 1 .. Len(expand(line)) :
          LET l == expand(line)[k].imm.label IN l # "" => l \in Uses(line)
    /\ \A l \in Uses(line) : expand(line)[1].imm.label = l /\ l # "" /\ Size(line) = 1

LEMMA Tuples ==
    /\ \A a \in RealLine \cup WordLine :
          /\ <<a>> \in Seq(RealLine \cup WordLine) /\ Len(<<a>>) = 1
          /\ \A k \in 1 .. 1 : <<a>>[k] = a
    /\ \A a, b \in RealLine \cup WordLine :
          /\ <<a, b>> \in Seq(RealLine \cup WordLine) /\ Len(<<a, b>>) = 2
          /\ \A k \in 1 .. 2 : <<a, b>>[k] = a \/ <<a, b>>[k] = b
<1> PICK S : S = RealLine \cup WordLine
  OBVIOUS
<1>1. \A a \in S : <<a>> \in Seq(S) /\ Len(<<a>>) = 1 /\ \A k \in 1 .. 1 : <<a>>[k] = a
  BY ONLY TRUE
<1>2. \A a, b \in S : /\ <<a, b>> \in Seq(S) /\ Len(<<a, b>>) = 2
                      /\ \A k \in 1 .. 2 : <<a, b>>[k] = a \/ <<a, b>>[k] = b
  BY ONLY TRUE
<1> QED BY <1>1, <1>2

LEMMA ExpandsOne ==
    ASSUME NEW line, NEW i \in RealLine \cup WordLine,
           expand(line) = <<i>>, Size(line) = 1,
           i.imm.label # "" => Uses(line) = {i.imm.label},
           i.imm.label = "" => Uses(line) = {}
    PROVE  Expands(line)
<1>1. /\ expand(line) \in Seq(RealLine \cup WordLine) /\ Len(expand(line)) = 1
      /\ \A k \in 1 .. 1 : expand(line)[k] = i
  BY ONLY i \in RealLine \cup WordLine, expand(line) = <<i>>, Tuples
<1>2. expand(line)[1] = i
  BY ONLY expand(line) = <<i>>
<1>3. \A l \in Uses(line) : l = i.imm.label /\ l # ""
  OBVIOUS
<1> QED BY <1>1, <1>2, <1>3 DEF Expands

LEMMA ExpandsTwo ==
    ASSUME NEW line, NEW i \in RealLine, NEW j \in RealLine,
           expand(line) = <<i, j>>, Size(line) = 2,
           i.imm.label = "", j.imm.label = "", Uses(line) = {}
    PROVE  Expands(line)
<1>1. /\ expand(line) \in Seq(RealLine \cup WordLine) /\ Len(expand(line)) = 2
      /\ \A k \in 1 .. 2 : expand(line)[k] = i \/ expand(line)[k] = j
  <2>1. i \in RealLine \cup WordLine /\ j \in RealLine \cup WordLine
    OBVIOUS
  <2> QED BY ONLY <2>1, expand(line) = <<i, j>>, Tuples
<1> QED BY <1>1 DEF Expands

LEMMA Expansion ==
    ASSUME NEW line \in Line, line.op # "label"
    PROVE  Expands(line)
<1>0. 0 \in Registers /\ 1 \in Registers /\ Literal(0) \in Numbers /\ Literal(0).label = ""
  BY DEF Registers, Literal, Numbers
<1>1. CASE line \in RealLine \cup WordLine
  <2>1. line.op \in Mnemonics \cup {".word"}
    BY <1>1 DEF RealLine, WordLine, Lines, Mnemonics
  <2>2. expand(line) = <<line>>
    BY <2>1, Tables DEF expand, Mnemonics
  <2>3. Size(line) = 1
    BY <2>1, Tables DEF Size, Mnemonics
  <2>4. Uses(line) = IF line.imm.label = "" THEN {} ELSE {line.imm.label}
    BY <2>1, Tables DEF Uses, Mnemonics
  <2> QED BY <1>1, <2>2, <2>3, <2>4, ExpandsOne
<1>2. CASE line \in LiLine
  <2>1. /\ line.op = "li" /\ line.rd \in Registers /\ line.lo \in Int /\ 0 <= line.lo /\ line.lo < 4096
        /\ line.hi \in Int
    BY <1>2, LiType
  <2>2. SignedLow(line.lo) \in Int /\ Uses(line) = {}
    BY <2>1, SignedLowValue DEF Uses
  <2> PICK P \in Nat : P = 2^20 /\ P > 2
    BY Literals, SMT
  <2> PICK u \in Int : u = (line.hi + (line.lo + 2048) \div 4096) % 2^20
    <3>1. line.hi \in Int /\ (line.lo + 2048) \div 4096 \in Int
      BY <2>1
    <3>2. (line.hi + (line.lo + 2048) \div 4096) % P \in Int
      BY <3>1
    <3> QED BY <3>2
  <2> PICK low, upper : low = Literal(SignedLow(line.lo)) /\ upper = Literal(u)
    OBVIOUS
  <2>3. low \in Numbers /\ low.label = ""
    BY ONLY low = Literal(SignedLow(line.lo)), <2>2, LiteralNumber
  <2>4. upper \in Numbers /\ upper.label = ""
    BY ONLY upper = Literal(u), u \in Int, LiteralNumber
  <2>a. line.rd \in Registers /\ low \in Numbers /\ upper \in Numbers /\ 0 \in Registers
    <3>1. line.rd \in Registers
      BY ONLY <2>1
    <3>2. low \in Numbers
      BY ONLY <2>3
    <3>3. upper \in Numbers
      BY ONLY <2>4
    <3>4. 0 \in Registers
      BY ONLY <1>0
    <3> QED BY ONLY <3>1, <3>2, <3>3, <3>4
  <2>5. CASE Size(line) = 1
    <3>1. expand(line) = <<Real("addi", line.rd, 0, 0, low)>>
      BY <1>2, <2>5, ExpandLi
    <3>2. Real("addi", line.rd, 0, 0, low) \in RealLine
      BY ONLY <2>a, RealOnes
    <3>3. Real("addi", line.rd, 0, 0, low).imm.label = ""
      BY ONLY <2>3 DEF Real
    <3> QED BY ONLY <3>1, <3>2, <3>3, <2>2, <2>5, ExpandsOne
  <2>6. CASE Size(line) # 1
    <3>1. Size(line) = 2 /\ expand(line) = <<Real("lui", line.rd, 0, 0, upper),
                                             Real("addi", line.rd, line.rd, 0, low)>>
      BY <1>2, <2>6, ExpandLi
    <3>2. /\ Real("lui", line.rd, 0, 0, upper) \in RealLine
          /\ Real("addi", line.rd, line.rd, 0, low) \in RealLine
      BY ONLY <2>a, RealOnes
    <3>3. /\ Real("lui", line.rd, 0, 0, upper).imm.label = ""
          /\ Real("addi", line.rd, line.rd, 0, low).imm.label = ""
      BY ONLY <2>3, <2>4 DEF Real
    <3> QED BY ONLY <3>1, <3>2, <3>3, <2>2, ExpandsTwo
  <2> QED BY <2>5, <2>6
<1>3. CASE line \in PseudoLine \ LiLine
  <2>1. CASE line \in Lines({"nop", "ret"}, {0}, {0}, {0}, None)
    <3>1. line.imm.label = "" /\ Uses(line) = {} /\ line.op \in {"nop", "ret"}
      BY <2>1, <1>0 DEF Lines, None, Uses
    <3>2. Size(line) = 1
      BY <3>1 DEF Size
    <3>3. CASE line.op = "nop"
      <4>1. expand(line) = <<Real("addi", 0, 0, 0, Literal(0))>>
        BY <3>3 DEF expand
      <4>2. /\ Real("addi", 0, 0, 0, Literal(0)) \in RealLine
            /\ Real("addi", 0, 0, 0, Literal(0)).imm.label = ""
        BY <1>0, RealOnes DEF Real
      <4> QED BY <3>1, <3>2, <4>1, <4>2, ExpandsOne
    <3>4. CASE line.op = "ret"
      <4>1. expand(line) = <<Real("jalr", 0, 1, 0, Literal(0))>>
        BY <3>4 DEF expand
      <4>2. /\ Real("jalr", 0, 1, 0, Literal(0)) \in RealLine
            /\ Real("jalr", 0, 1, 0, Literal(0)).imm.label = ""
        BY <1>0, RealOnes DEF Real
      <4> QED BY <3>1, <3>2, <4>1, <4>2, ExpandsOne
    <3> QED BY <3>1, <3>3, <3>4
  <2>2. CASE line \in Lines({"mv"}, Registers, Registers, {0}, None)
    <3>1. /\ line.imm.label = "" /\ Uses(line) = {} /\ line.op = "mv"
          /\ line.rd \in Registers /\ line.rs1 \in Registers
      BY <2>2, <1>0 DEF Lines, None, Uses
    <3>2. Size(line) = 1 /\ expand(line) = <<Real("addi", line.rd, line.rs1, 0, Literal(0))>>
      BY <3>1 DEF Size, expand
    <3>3. /\ Real("addi", line.rd, line.rs1, 0, Literal(0)) \in RealLine
          /\ Real("addi", line.rd, line.rs1, 0, Literal(0)).imm.label = ""
      BY <1>0, <3>1, RealOnes DEF Real
    <3> QED BY <3>1, <3>2, <3>3, ExpandsOne
  <2>3. CASE line \in Lines({"jr"}, {0}, Registers, {0}, None)
    <3>1. /\ line.imm.label = "" /\ Uses(line) = {} /\ line.op = "jr"
          /\ line.rs1 \in Registers
      BY <2>3, <1>0 DEF Lines, None, Uses
    <3>2. Size(line) = 1 /\ expand(line) = <<Real("jalr", 0, line.rs1, 0, Literal(0))>>
      BY <3>1 DEF Size, expand
    <3>3. /\ Real("jalr", 0, line.rs1, 0, Literal(0)) \in RealLine
          /\ Real("jalr", 0, line.rs1, 0, Literal(0)).imm.label = ""
      BY <1>0, <3>1, RealOnes DEF Real
    <3> QED BY <3>1, <3>2, <3>3, ExpandsOne
  <2>4. CASE line \in Lines({"j"}, {0}, {0}, {0}, Numbers)
    <3>1. line.imm \in Numbers /\ line.op = "j"
      BY <2>4 DEF Lines
    <3>2. Size(line) = 1 /\ expand(line) = <<Real("jal", 0, 0, 0, line.imm)>>
      BY <3>1 DEF Size, expand
    <3>3. Uses(line) = IF line.imm.label = "" THEN {} ELSE {line.imm.label}
      BY <3>1 DEF Uses
    <3>4. /\ Real("jal", 0, 0, 0, line.imm) \in RealLine
          /\ Real("jal", 0, 0, 0, line.imm).imm = line.imm
      BY <1>0, <3>1, RealOnes DEF Real
    <3> QED BY <3>2, <3>3, <3>4, ExpandsOne
  <2>5. CASE line \in Lines({"beqz", "bnez"}, {0}, Registers, {0}, Numbers)
    <3>1. line.imm \in Numbers /\ line.rs1 \in Registers /\ line.op \in {"beqz", "bnez"}
      BY <2>5 DEF Lines
    <3>2. Size(line) = 1
      BY <3>1 DEF Size
    <3>3. Uses(line) = IF line.imm.label = "" THEN {} ELSE {line.imm.label}
      BY <3>1 DEF Uses
    <3>4. CASE line.op = "beqz"
      <4>1. expand(line) = <<Real("beq", 0, line.rs1, 0, line.imm)>>
        BY <3>4 DEF expand
      <4>2. /\ Real("beq", 0, line.rs1, 0, line.imm) \in RealLine
            /\ Real("beq", 0, line.rs1, 0, line.imm).imm = line.imm
        BY <1>0, <3>1, RealOnes DEF Real
      <4> QED BY <3>2, <3>3, <4>1, <4>2, ExpandsOne
    <3>5. CASE line.op = "bnez"
      <4>1. expand(line) = <<Real("bne", 0, line.rs1, 0, line.imm)>>
        BY <3>5 DEF expand
      <4>2. /\ Real("bne", 0, line.rs1, 0, line.imm) \in RealLine
            /\ Real("bne", 0, line.rs1, 0, line.imm).imm = line.imm
        BY <1>0, <3>1, RealOnes DEF Real
      <4> QED BY <3>2, <3>3, <4>1, <4>2, ExpandsOne
    <3> QED BY <3>1, <3>4, <3>5
  <2> QED BY <1>3, <2>1, <2>2, <2>3, <2>4, <2>5 DEF PseudoLine, LiLine
<1>4. line \notin LabelLine
  BY DEF LabelLine
<1> QED BY <1>1, <1>2, <1>3, <1>4 DEF Line

-----------------------------------------------------------------------------
(* The steps of the two passes *)

\* What stays the same while the source does.
LEMMA SourceStays ==
    ASSUME source' = source
    PROVE  /\ \A n : AddressOf(n)' = AddressOf(n)
           /\ \A n, l : Defines(n, l)' <=> Defines(n, l)
<1>1. \A n : AddressOf(n)' = AddressOf(n)
  BY DEF AddressOf
<1>2. \A n, l : Defines(n, l)' <=> Defines(n, l)
  BY DEF Defines
<1> QED BY <1>1, <1>2

LEMMA AssemblingInit == HInit => Assembling
<1> SUFFICES ASSUME HInit PROVE Assembling
  OBVIOUS
<1> USE DEF HInit, Init
<1>1. source \in Seq(Line) /\ text = source /\ Count = 0 /\ Len(source) \in Nat
  <2>1. text \in Seq(Line) /\ source = text
    BY TextsAssumption
  <2>2. Len(source) \in Nat
    BY <2>1
  <2> QED BY <2>1, <2>2 DEF Count
<1>2. Following
  <2>1. \A n \in 1 .. Len(text) : text[n] = source[Count + n]
    BY <1>1
  <2> QED BY <1>1, <2>1 DEF Following
<1>3. Counted
  <2>1. AddressOf(1) = Base
    BY <1>1, AddressSteps
  <2>2. items \in Seq([at : Int, ins : RealLine \cup WordLine]) /\ Len(items) = 0
    OBVIOUS
  <2>3. Base \in Int
    BY BaseAssumption
  <2> QED BY <1>1, <2>1, <2>2, <2>3 DEF Counted
<1>4. Emitted /\ Required
  BY <1>1 DEF Emitted, Required
<1>5. LabelsMet
  <2>1. labels = [l \in DOMAIN labels |-> labels[l]] /\ DOMAIN labels = {}
    OBVIOUS
  <2> QED BY <1>1, <2>1 DEF LabelsMet
<1>6. Encoded
  <2>1. words \in Seq(InstWord) /\ Len(words) = 0 /\ Len(items) = 0 /\ words = <<>>
    OBVIOUS
  <2> QED BY <2>1 DEF Encoded
<1>7. Ended
  BY DEF Ended
<1> QED BY <1>2, <1>3, <1>4, <1>5, <1>6, <1>7 DEF Assembling

\* A line is read.
LEMMA LineRead ==
    ASSUME Following, text # <<>>, text' = Tail(text), source' = source
    PROVE  /\ Following' /\ Count' = Count + 1
           /\ Count \in Nat /\ Count + 1 \in 1 .. Len(source)
           /\ Head(text) = source[Count + 1] /\ Head(text) \in Line
<1>1. /\ Len(text) \in Nat /\ Len(text) >= 1 /\ Tail(text) \in Seq(Line)
      /\ Len(Tail(text)) = Len(text) - 1 /\ Head(text) = text[1] /\ Head(text) \in Line
      /\ \A n \in 1 .. Len(Tail(text)) : Tail(text)[n] = text[n + 1]
  BY DEF Following
<1>2. Count \in 0 .. Len(source) /\ Count = Len(source) - Len(text) /\ Len(source) \in Nat
  BY DEF Following, Count
<1>3. Count' = Len(source) - Len(Tail(text))
  BY DEF Count
<1>4. Count' = Count + 1 /\ Count + 1 \in 1 .. Len(source) /\ Count \in Nat
  BY ONLY <1>1, <1>2, <1>3
<1>5. Head(text) = source[Count + 1]
  <2>1. 1 \in 1 .. Len(text)
    BY <1>1
  <2> QED BY <1>1, <2>1 DEF Following
<1>6. ASSUME NEW n \in 1 .. Len(Tail(text)) PROVE Tail(text)[n] = source[Count' + n]
  <2>1. Tail(text)[n] = text[n + 1] /\ n + 1 \in 1 .. Len(text) /\ Count' + n = Count + (n + 1)
    BY <1>1, <1>2, <1>4
  <2> QED BY <2>1 DEF Following
<1>7. Following'
  <2>1. Count' \in 0 .. Len(source)
    BY ONLY <1>4, <1>2
  <2> QED BY <1>1, <1>6, <2>1 DEF Following
<1> QED BY <1>1, <1>4, <1>5, <1>7

\* While lines are left nothing is encoded.
LEMMA NotEncoding ==
    ASSUME Encoded, Ended, text # <<>>
    PROVE  words = <<>> /\ Len(words) = 0 /\ outcome = "running"
  BY DEF Encoded, Ended

\* A line that is not a label has another operation.
LEMMA NotLabel == \A line \in Line : line.op = "label" => line \in LabelLine
<1>1. \A line \in RealLine : line.op # "label"
  BY Tables DEF RealLine, Lines
<1>2. \A line \in PseudoLine \cup WordLine : line.op # "label"
  BY DEF PseudoLine, WordLine, Lines
<1> QED BY <1>1, <1>2 DEF Line

LEMMA ReadLabelStep ==
    ASSUME Assembling, ReadLabel, source' = source
    PROVE  Assembling'
<1> USE DEF ReadLabel
<1>1. /\ Following' /\ Count' = Count + 1
      /\ Count \in Nat /\ Count + 1 \in 1 .. Len(source)
      /\ Head(text) = source[Count + 1] /\ Head(text) \in Line
  BY LineRead DEF Assembling
<1>2. /\ \A n : AddressOf(n)' = AddressOf(n)
      /\ \A n, l : Defines(n, l)' <=> Defines(n, l)
  BY SourceStays
<1>3. AddressOf((Count + 1) + 1) = pc /\ AddressOf(Count + 1) = pc /\ pc \in Int
  <2>1. Size(source[Count + 1]) = 0
    BY <1>1 DEF Size
  <2>2. source \in Seq(Line)
    BY DEF Assembling, Following
  <2>3. /\ AddressOf((Count + 1) + 1) = AddressOf(Count + 1) + 4 * Size(source[Count + 1])
        /\ AddressOf(Count + 1) \in Int
    <3>1. Len(source) \in Nat /\ Count + 1 \in 1 .. Len(source) + 1
      BY <1>1, <2>2
    <3> QED BY <1>1, <2>2, <3>1, AddressSteps
  <2> QED BY <2>1, <2>3 DEF Assembling, Counted
<1>4. Counted'
  BY <1>1, <1>2, <1>3 DEF Assembling, Counted
<1>5. Emitted'
  <2> SUFFICES ASSUME NEW n \in 1 .. Count + 1, source[n].op # "label",
                      NEW k \in 1 .. Size(source[n])
               PROVE  \E j \in 1 .. Len(items) :
                         items[j] = [at |-> AddressOf(n) + 4 * (k - 1), ins |-> expand(source[n])[k]]
    BY <1>1, <1>2 DEF Emitted
  <2>1. n # Count + 1
    BY <1>1
  <2>2. n \in 1 .. Count
    BY <1>1, <2>1
  <2> QED BY <2>2 DEF Assembling, Emitted
<1>6. Required'
  <2>1. 1 .. Count \subseteq 1 .. Count + 1
    BY <1>1
  <2> QED BY <1>1, <2>1 DEF Assembling, Required, Uses
<1>7. LabelsMet'
  <2> PICK name : name = Head(text).name
    OBVIOUS
  <2>1. name \in Labels /\ \A l : Defines(Count + 1, l) <=> l = name
    <3>1. Head(text) \in LabelLine
      BY <1>1, NotLabel
    <3> QED BY <1>1, <3>1 DEF LabelLine, Defines
  <2>2. /\ DOMAIN labels' = DOMAIN labels \cup {name}
        /\ labels' = [l \in DOMAIN labels' |-> labels'[l]]
        /\ labels'[name] = pc
        /\ \A l \in DOMAIN labels : l # name => labels'[l] = labels[l]
    OBVIOUS
  <2>3. ASSUME NEW n \in 1 .. Count + 1, NEW l \in Labels, Defines(n, l) PROVE l \in DOMAIN labels'
    <3>1. CASE n = Count + 1
      BY <2>1, <2>2, <2>3, <3>1
    <3>2. CASE n # Count + 1
      <4>1. n \in 1 .. Count
        BY <1>1, <3>2
      <4>2. l \in DOMAIN labels
        BY <2>3, <4>1 DEF Assembling, LabelsMet
      <4> QED BY <2>2, <4>2
    <3> QED BY <3>1, <3>2
  <2>4. ASSUME NEW l \in DOMAIN labels'
        PROVE  /\ l \in Labels /\ labels'[l] \in Base .. pc
               /\ \E n \in 1 .. Count + 1 :
                     /\ Defines(n, l) /\ labels'[l] = AddressOf(n)
                     /\ \A m \in n + 1 .. Count + 1 : ~Defines(m, l)
    <3>1. CASE l = name
      <4>1. Defines(Count + 1, l) /\ labels'[l] = AddressOf(Count + 1)
        BY <1>3, <2>1, <2>2, <3>1
      <4>2. Count + 1 \in 1 .. Count + 1 /\ (Count + 1) + 1 .. Count + 1 = {}
        BY <1>1
      <4>3. labels'[l] \in Base .. pc
        <5>1. Len(items) \in Nat /\ pc = Base + 4 * Len(items) /\ Base \in Int
          BY BaseAssumption DEF Assembling, Counted
        <5>2. pc \in Base .. pc
          BY ONLY <5>1
        <5> QED BY <2>2, <3>1, <5>2
      <4> QED BY <2>1, <3>1, <4>1, <4>2, <4>3
    <3>2. CASE l # name
      <4>1. l \in DOMAIN labels /\ labels'[l] = labels[l]
        BY <2>2, <3>2
      <4>2. l \in Labels /\ labels[l] \in Base .. pc
        BY <4>1 DEF Assembling, LabelsMet
      <4>3. PICK n \in 1 .. Count : /\ Defines(n, l) /\ labels[l] = AddressOf(n)
                                   /\ \A m \in n + 1 .. Count : ~Defines(m, l)
        BY <4>1 DEF Assembling, LabelsMet
      <4>4. ASSUME NEW m \in n + 1 .. Count + 1 PROVE ~Defines(m, l)
        <5>1. m = Count + 1 \/ m \in n + 1 .. Count
          BY <1>1
        <5> QED BY <2>1, <3>2, <4>3, <5>1
      <4>5. n \in 1 .. Count + 1
        BY <1>1
      <4> QED BY <4>1, <4>2, <4>3, <4>4, <4>5
    <3> QED BY <3>1, <3>2
  <2> QED BY <1>1, <1>2, <2>2, <2>3, <2>4 DEF LabelsMet
<1>8. Encoded'
  <2>1. words' = <<>> /\ Len(words') = 0 /\ words' \in Seq(InstWord) /\ Len(items') \in Nat
    BY NotEncoding DEF Assembling, Encoded, Counted
  <2> QED BY <2>1 DEF Encoded
<1>9. Ended'
  BY NotEncoding DEF Assembling, Ended
<1> QED BY <1>1, <1>4, <1>5, <1>6, <1>7, <1>8, <1>9 DEF Assembling

LEMMA Elements ==
    ASSUME NEW S, NEW s \in Seq(S)
    PROVE  Len(s) \in Nat /\ DOMAIN s = 1 .. Len(s) /\ \A k \in 1 .. Len(s) : s[k] \in S
  OBVIOUS

LEMMA Concatenated ==
    ASSUME NEW S, NEW s \in Seq(S), NEW t \in Seq(S)
    PROVE  /\ s \o t \in Seq(S)
           /\ Len(s \o t) = Len(s) + Len(t) /\ Len(s \o t) \in Nat
           /\ \A j \in 1 .. Len(s) : (s \o t)[j] = s[j]
           /\ \A k \in 1 .. Len(t) : (s \o t)[Len(s) + k] = t[k]
<1>1. s \o t \in Seq(S) /\ Len(s \o t) = Len(s) + Len(t) /\ Len(s \o t) \in Nat
  OBVIOUS
<1>2. \A j \in 1 .. Len(s) : (s \o t)[j] = s[j]
  OBVIOUS
<1>3. \A k \in 1 .. Len(t) : (s \o t)[Len(s) + k] = t[k]
  OBVIOUS
<1> QED BY <1>1, <1>2, <1>3

LEMMA ReadInstructionStep ==
    ASSUME Assembling, ReadInstruction, source' = source
    PROVE  Assembling'
<1>0. /\ text # <<>> /\ Head(text).op # "label" /\ text' = Tail(text)
      /\ labels' = labels /\ words' = words /\ outcome' = outcome
  BY DEF ReadInstruction
<1> PICK line \in Line : line = Head(text) /\ line.op # "label"
  BY <1>0, LineRead DEF Assembling
<1>1. /\ Following' /\ Count' = Count + 1
      /\ Count \in Nat /\ Count + 1 \in 1 .. Len(source)
      /\ line = source[Count + 1]
  BY <1>0, LineRead DEF Assembling
<1>2. /\ \A n : AddressOf(n)' = AddressOf(n)
      /\ \A n, l : Defines(n, l)' <=> Defines(n, l)
  BY SourceStays
<1> PICK real : real = expand(line)
  OBVIOUS
<1>3. /\ real \in Seq(RealLine \cup WordLine)
      /\ Len(real) = Size(line) /\ Size(line) \in {1, 2}
      /\ \A k \in 1 .. Len(real) : LET l == real[k].imm.label IN l # "" => l \in Uses(line)
  <2>1. Expands(line)
    BY Expansion
  <2> QED BY <2>1 DEF Expands
<1>4. /\ items \in Seq([at : Int, ins : RealLine \cup WordLine])
      /\ pc = AddressOf(Count + 1) /\ pc = Base + 4 * Len(items) /\ Len(items) \in Nat
      /\ \A k \in 1 .. Len(items) : items[k].at = Base + 4 * (k - 1)
      /\ Base \in Int /\ pc \in Int
  <2>1. Base \in Int
    BY BaseAssumption
  <2> QED BY <2>1 DEF Assembling, Counted
<1> PICK new : new = [k \in 1 .. Len(real) |-> [at |-> pc + 4 * (k - 1), ins |-> real[k]]]
  OBVIOUS
<1>a. Len(real) \in Nat /\ DOMAIN real = 1 .. Len(real) /\ \A k \in 1 .. Len(real) : real[k] \in RealLine \cup WordLine
  <2> PICK S : S = RealLine \cup WordLine
    OBVIOUS
  <2>1. real \in Seq(S)
    BY ONLY <1>3, S = RealLine \cup WordLine
  <2> QED BY ONLY <2>1, Elements, S = RealLine \cup WordLine
<1>5. items' = items \o new /\ pc' = pc + 4 * Len(real)
  BY <1>a DEF ReadInstruction
<1>6. /\ new \in Seq([at : Int, ins : RealLine \cup WordLine]) /\ Len(new) = Len(real)
      /\ \A k \in 1 .. Len(real) : new[k] = [at |-> pc + 4 * (k - 1), ins |-> real[k]]
  <2>1. ASSUME NEW k \in 1 .. Len(real)
        PROVE  [at |-> pc + 4 * (k - 1), ins |-> real[k]] \in [at : Int, ins : RealLine \cup WordLine]
    <3>1. pc + 4 * (k - 1) \in Int
      BY ONLY <1>4, k \in 1 .. Len(real), <1>a
    <3>2. real[k] \in RealLine \cup WordLine
      BY ONLY <1>a, k \in 1 .. Len(real)
    <3> QED BY ONLY <3>1, <3>2
  <2> QED BY ONLY <2>1, <1>a, new = [k \in 1 .. Len(real) |-> [at |-> pc + 4 * (k - 1), ins |-> real[k]]]
<1>7. /\ items' \in Seq([at : Int, ins : RealLine \cup WordLine])
      /\ Len(items') = Len(items) + Len(real) /\ Len(items') \in Nat /\ Len(real) \in Nat
      /\ \A j \in 1 .. Len(items) : items'[j] = items[j]
      /\ \A k \in 1 .. Len(real) : items'[Len(items) + k] = new[k]
  <2> PICK S : S = [at : Int, ins : RealLine \cup WordLine]
    OBVIOUS
  <2>1. items \in Seq(S) /\ new \in Seq(S) /\ items' = items \o new /\ Len(new) = Len(real)
    BY ONLY <1>4, <1>5, <1>6, S = [at : Int, ins : RealLine \cup WordLine]
  <2>2. /\ items' \in Seq(S)
        /\ Len(items') = Len(items) + Len(new) /\ Len(items') \in Nat
        /\ \A j \in 1 .. Len(items) : items'[j] = items[j]
        /\ \A k \in 1 .. Len(new) : items'[Len(items) + k] = new[k]
    <3>1. items \in Seq(S) /\ new \in Seq(S)
      BY ONLY <2>1
    <3>2. /\ items \o new \in Seq(S)
          /\ Len(items \o new) = Len(items) + Len(new) /\ Len(items \o new) \in Nat
          /\ \A j \in 1 .. Len(items) : (items \o new)[j] = items[j]
          /\ \A k \in 1 .. Len(new) : (items \o new)[Len(items) + k] = new[k]
      BY ONLY <3>1, Concatenated
    <3> QED BY ONLY <2>1, <3>2
  <2> QED BY ONLY <1>a, <2>1, <2>2, S = [at : Int, ins : RealLine \cup WordLine]
<1>8. \A j \in 1 .. Len(items') : j \in 1 .. Len(items) \/
         \E k \in 1 .. Len(real) : j = Len(items) + k
  <2> SUFFICES ASSUME NEW j \in 1 .. Len(items'), j \notin 1 .. Len(items)
               PROVE  \E k \in 1 .. Len(real) : j = Len(items) + k
    OBVIOUS
  <2>1. j - Len(items) \in 1 .. Len(real) /\ j = Len(items) + (j - Len(items))
    BY <1>4, <1>7
  <2> QED BY <2>1
<1>9. Counted'
  <2>1. AddressOf((Count + 1) + 1) = pc'
    <3>1. source \in Seq(Line)
      BY DEF Assembling, Following
    <3>2. AddressOf((Count + 1) + 1) = AddressOf(Count + 1) + 4 * Size(source[Count + 1])
      BY <1>1, <3>1, AddressSteps
    <3> QED BY <1>1, <1>3, <1>4, <1>5, <3>2
  <2>2. pc' = Base + 4 * Len(items')
    BY ONLY <1>4, <1>5, <1>7
  <2>3. ASSUME NEW j \in 1 .. Len(items') PROVE items'[j].at = Base + 4 * (j - 1)
    <3>1. CASE j \in 1 .. Len(items)
      BY <1>4, <1>7, <3>1
    <3>2. CASE \E k \in 1 .. Len(real) : j = Len(items) + k
      <4> PICK k \in 1 .. Len(real) : j = Len(items) + k
        BY <3>2
      <4>1. items'[j].at = pc + 4 * (k - 1)
        BY <1>6, <1>7
      <4>2. pc + 4 * (k - 1) = Base + 4 * (j - 1)
        BY <1>4
      <4> QED BY <4>1, <4>2
    <3> QED BY <1>8, <3>1, <3>2
  <2> QED BY <1>1, <1>2, <1>7, <2>1, <2>2, <2>3 DEF Counted
<1>10. Emitted'
  <2> SUFFICES ASSUME NEW n \in 1 .. Count + 1, source[n].op # "label",
                      NEW k \in 1 .. Size(source[n])
               PROVE  \E j \in 1 .. Len(items') :
                         items'[j] = [at |-> AddressOf(n) + 4 * (k - 1), ins |-> expand(source[n])[k]]
    BY <1>1, <1>2 DEF Emitted
  <2>1. CASE n = Count + 1
    <3>1. k \in 1 .. Len(real)
      <4>1. k \in 1 .. Size(source[Count + 1])
        BY <2>1
      <4> QED BY <1>1, <1>3, <4>1
    <3>2. Len(items) + k \in 1 .. Len(items')
      BY <1>4, <1>7, <3>1
    <3>3. items'[Len(items) + k] = [at |-> pc + 4 * (k - 1), ins |-> real[k]]
      BY <1>6, <1>7, <3>1
    <3> QED BY <1>1, <1>4, <2>1, <3>2, <3>3
  <2>2. CASE n # Count + 1
    <3>1. n \in 1 .. Count
      BY <1>1, <2>2
    <3>2. PICK j \in 1 .. Len(items) :
             items[j] = [at |-> AddressOf(n) + 4 * (k - 1), ins |-> expand(source[n])[k]]
      BY <3>1 DEF Assembling, Emitted
    <3>3. items'[j] = items[j]
      BY ONLY <1>7, j \in 1 .. Len(items)
    <3>4. j \in 1 .. Len(items')
      BY ONLY <1>4, <1>7, j \in 1 .. Len(items)
    <3> QED BY ONLY <3>2, <3>3, <3>4
  <2> QED BY <2>1, <2>2
<1>11. Required'
  <2> SUFFICES ASSUME NEW j \in 1 .. Len(items'), items'[j].ins.imm.label # ""
               PROVE  \E n \in 1 .. Count + 1 : items'[j].ins.imm.label \in Uses(source[n])
    BY <1>1 DEF Required, Uses
  <2>1. CASE j \in 1 .. Len(items)
    <3>1. items'[j] = items[j]
      BY <1>7, <2>1
    <3>2. PICK n \in 1 .. Count : items[j].ins.imm.label \in Uses(source[n])
      BY <2>1, <3>1 DEF Assembling, Required
    <3>3. n \in 1 .. Count + 1
      BY ONLY <1>1, n \in 1 .. Count
    <3> QED BY <3>1, <3>2, <3>3
  <2>2. CASE \E k \in 1 .. Len(real) : j = Len(items) + k
    <3> PICK k \in 1 .. Len(real) : j = Len(items) + k
      BY <2>2
    <3>1. items'[j].ins = real[k]
      <4>1. items'[j] = new[k] /\ new[k] = [at |-> pc + 4 * (k - 1), ins |-> real[k]]
        BY ONLY <1>6, <1>7, j = Len(items) + k, k \in 1 .. Len(real)
      <4> QED BY ONLY <4>1
    <3>2. items'[j].ins.imm.label \in Uses(source[Count + 1])
      BY <1>1, <1>3, <3>1
    <3>3. Count + 1 \in 1 .. Count + 1
      BY ONLY <1>1
    <3> QED BY <3>2, <3>3
  <2> QED BY <1>8, <2>1, <2>2
<1>12. LabelsMet'
  <2>1. labels' = labels /\ \A l : ~Defines(Count + 1, l)
    BY <1>0, <1>1 DEF Defines
  <2>2. \A l \in DOMAIN labels : labels[l] \in Base .. pc'
    <3>1. pc' \in Int /\ pc <= pc'
      BY ONLY <1>a, <1>4, <1>5
    <3>2. \A l \in DOMAIN labels : labels[l] \in Base .. pc
      BY DEF Assembling, LabelsMet
    <3> QED BY ONLY <1>4, <3>1, <3>2
  <2>3. ASSUME NEW n \in 1 .. Count + 1, NEW l \in Labels, Defines(n, l) PROVE l \in DOMAIN labels
    <3>1. n \in 1 .. Count
      BY <1>1, <2>1, <2>3
    <3> QED BY <2>3, <3>1 DEF Assembling, LabelsMet
  <2>4. ASSUME NEW l \in DOMAIN labels
        PROVE  /\ l \in Labels
               /\ \E n \in 1 .. Count + 1 :
                     /\ Defines(n, l) /\ labels[l] = AddressOf(n)
                     /\ \A m \in n + 1 .. Count + 1 : ~Defines(m, l)
    <3>1. PICK n \in 1 .. Count : /\ Defines(n, l) /\ labels[l] = AddressOf(n)
                                  /\ \A m \in n + 1 .. Count : ~Defines(m, l)
      BY DEF Assembling, LabelsMet
    <3>2. ASSUME NEW m \in n + 1 .. Count + 1 PROVE ~Defines(m, l)
      <4>1. m = Count + 1 \/ m \in n + 1 .. Count
        BY <1>1
      <4> QED BY <2>1, <3>1, <4>1
    <3>3. n \in 1 .. Count + 1 /\ l \in Labels
      BY <1>1 DEF Assembling, LabelsMet
    <3> QED BY <3>1, <3>2, <3>3
  <2>5. labels = [l \in DOMAIN labels |-> labels[l]]
    BY DEF Assembling, LabelsMet
  <2> QED BY <1>1, <1>2, <2>1, <2>2, <2>3, <2>4, <2>5 DEF LabelsMet
<1>13. Encoded'
  <2>1. words' = <<>> /\ Len(words') = 0 /\ words' \in Seq(InstWord)
    BY <1>0, NotEncoding DEF Assembling, Encoded
  <2> QED BY <1>7, <2>1 DEF Encoded
<1>14. Ended'
  BY <1>0, NotEncoding DEF Assembling, Ended
<1> QED BY <1>1, <1>9, <1>10, <1>11, <1>12, <1>13, <1>14 DEF Assembling

\* What pass 2 leaves alone.
LEMMA PassOneStays ==
    ASSUME Assembling, source' = source, text' = text, labels' = labels, items' = items, pc' = pc
    PROVE  /\ Following' /\ Counted' /\ Emitted' /\ Required' /\ LabelsMet'
           /\ \A k : EncodedItem(k)' = EncodedItem(k)
           /\ \A imm : Known(imm)' <=> Known(imm)
<1>1. /\ \A n : AddressOf(n)' = AddressOf(n)
      /\ \A n, l : Defines(n, l)' <=> Defines(n, l)
      /\ Count' = Count
  BY SourceStays DEF Count
<1>2. Following' /\ Counted'
  BY <1>1 DEF Assembling, Following, Counted
<1>3. Emitted'
  BY <1>1 DEF Assembling, Emitted
<1>4. Required'
  BY <1>1 DEF Assembling, Required
<1>5. LabelsMet'
  BY <1>1 DEF Assembling, LabelsMet
<1>6. \A k : EncodedItem(k)' = EncodedItem(k)
  BY DEF EncodedItem, encode, Absolute, Relative
<1>7. \A imm : Known(imm)' <=> Known(imm)
  BY DEF Known
<1> QED BY <1>2, <1>3, <1>4, <1>5, <1>6, <1>7

\* The number of an item whose label is known.
LEMMA ItemNumber ==
    ASSUME LabelsMet, Counted, NEW i \in RealLine \cup WordLine, Known(i.imm), NEW at \in Int
    PROVE  NumberOf(i, at) \in Int
<1>1. i.imm.label = "" => i.imm.num \in Int
  <2>1. i.imm \in Numbers \cup None
    BY DEF RealLine, WordLine, Lines
  <2> PICK x : x = i.imm
    OBVIOUS
  <2>2. x \in Numbers \/ x = Literal(0)
    BY <2>1 DEF None
  <2>3. Literal(0).num \in Int
    BY DEF Literal
  <2>4. \A y \in Numbers : y.num \in Int
    BY DEF Numbers
  <2>5. x.num \in Int
    BY ONLY <2>2, <2>3, <2>4
  <2> QED BY <2>5
<1>2. i.imm.label # "" => labels[i.imm.label] \in Int
  <2>1. Base \in Int /\ Len(items) \in Nat /\ pc = Base + 4 * Len(items)
    BY BaseAssumption DEF Counted
  <2>2. pc \in Int
    BY <2>1
  <2>3. ASSUME NEW l \in DOMAIN labels PROVE labels[l] \in Int
    <3>1. labels[l] \in Base .. pc
      BY DEF LabelsMet
    <3> QED BY <2>1, <2>2, <3>1
  <2> QED BY <2>3 DEF Known
<1>3. Absolute(i.imm) \in Int /\ Relative(i.imm, at) \in Int
  <2>1. CASE i.imm.label = ""
    BY <1>1, <2>1 DEF Absolute, Relative
  <2>2. CASE i.imm.label # ""
    <3> PICK v \in Int : v = labels[i.imm.label]
      BY <1>2, <2>2
    <3>1. Absolute(i.imm) = v /\ Relative(i.imm, at) = v - at
      BY <2>2 DEF Absolute, Relative
    <3>2. v - at \in Int
      OBVIOUS
    <3> QED BY ONLY <3>1, <3>2, v \in Int
  <2> QED BY <2>1, <2>2
<1> QED BY <1>3 DEF NumberOf

\* The word of an item.
LEMMA ItemWord ==
    ASSUME LabelsMet, Counted, NEW k \in 1 .. Len(items), Known(items[k].ins.imm)
    PROVE  /\ EncodedItem(k) \in InstWord
           /\ items[k].ins.op # ".word" =>
                 LET i == items[k].ins
                 IN  /\ i \in RealLine /\ NumberOf(i, items[k].at) \in Int
                     /\ Spells(EncodedItem(k), i.op, i.rd, i.rs1, i.rs2, NumberOf(i, items[k].at))
<1>1. items[k].ins \in RealLine \cup WordLine /\ items[k].at \in Int
  <2>1. items[k] \in [at : Int, ins : RealLine \cup WordLine]
    <3> PICK S : S = [at : Int, ins : RealLine \cup WordLine]
      OBVIOUS
    <3>1. items \in Seq(S)
      BY DEF Counted
    <3> QED BY <3>1, Elements
  <2> QED BY <2>1
<1> PICK i, at : i = items[k].ins /\ at = items[k].at
  OBVIOUS
<1>2. NumberOf(i, at) \in Int
  BY <1>1, ItemNumber
<1>3. CASE i \in RealLine
  BY <1>1, <1>2, <1>3, Encodes DEF EncodedItem
<1>4. CASE i \in WordLine
  <2>1. i.op = ".word"
    BY <1>4 DEF WordLine
  <2> QED BY <2>1, EncodesWord DEF EncodedItem
<1> QED BY <1>1, <1>3, <1>4

LEMMA EncodeItemStep ==
    ASSUME Assembling, EncodeItem, source' = source
    PROVE  Assembling'
<1>1. /\ text = <<>> /\ outcome = "running" /\ Len(words) < Len(items)
      /\ Known(items[Len(words) + 1].ins.imm)
      /\ words' = Append(words, encode(items[Len(words) + 1].ins, items[Len(words) + 1].at))
      /\ text' = text /\ labels' = labels /\ items' = items /\ pc' = pc /\ outcome' = outcome
  BY DEF EncodeItem, MoreItems, next
<1>2. /\ Following' /\ Counted' /\ Emitted' /\ Required' /\ LabelsMet'
      /\ \A k : EncodedItem(k)' = EncodedItem(k)
      /\ \A imm : Known(imm)' <=> Known(imm)
  BY <1>1, PassOneStays
<1>3. /\ words \in Seq(InstWord) /\ Len(words) \in Nat /\ Len(items) \in Nat
      /\ Len(words) + 1 \in 1 .. Len(items)
      /\ \A k \in 1 .. Len(words) : words[k] = EncodedItem(k) /\ Known(items[k].ins.imm)
  BY <1>1 DEF Assembling, Encoded, Counted
<1> PICK last : last = EncodedItem(Len(words) + 1)
  OBVIOUS
<1>4. last \in InstWord
  BY <1>1, <1>3, ItemWord DEF Assembling
<1>5. words' = Append(words, last)
  BY <1>1 DEF EncodedItem
<1>6. /\ words' \in Seq(InstWord) /\ Len(words') = Len(words) + 1
      /\ \A k \in 1 .. Len(words) : words'[k] = words[k]
      /\ words'[Len(words) + 1] = last
  BY ONLY <1>3, <1>4, <1>5
<1>7. Encoded'
  <2>1. ASSUME NEW k \in 1 .. Len(words')
        PROVE  words'[k] = EncodedItem(k)' /\ Known(items[k].ins.imm)'
    <3>1. k \in 1 .. Len(words) \/ k = Len(words) + 1
      BY <1>3, <1>6
    <3>2. CASE k \in 1 .. Len(words)
      BY <1>1, <1>2, <1>3, <1>6, <3>2
    <3>3. CASE k = Len(words) + 1
      BY <1>1, <1>2, <1>6, <3>3
    <3> QED BY <3>1, <3>2, <3>3
  <2>2. Len(words') <= Len(items')
    BY <1>1, <1>3, <1>6
  <2> QED BY <1>1, <1>6, <2>1, <2>2 DEF Encoded
<1>8. Ended'
  BY <1>1 DEF Ended
<1> QED BY <1>2, <1>7, <1>8 DEF Assembling

LEMMA EndStep ==
    ASSUME Assembling, UnknownLabel \/ Return, source' = source
    PROVE  Assembling'
<1>1. /\ text = <<>> /\ text' = text /\ labels' = labels /\ items' = items /\ pc' = pc
      /\ words' = words
      /\ \/ outcome' = "error" /\ Len(words) < Len(items) /\ ~Known(items[Len(words) + 1].ins.imm)
         \/ outcome' = "done" /\ Len(words) = Len(items)
  BY DEF UnknownLabel, Return, MoreItems, next
<1>2. /\ Following' /\ Counted' /\ Emitted' /\ Required' /\ LabelsMet'
      /\ \A k : EncodedItem(k)' = EncodedItem(k)
      /\ \A imm : Known(imm)' <=> Known(imm)
  BY <1>1, PassOneStays
<1>3. Encoded'
  BY <1>1, <1>2 DEF Assembling, Encoded
<1>4. Ended'
  <2>1. CASE outcome' = "error"
    <3>1. Len(words) + 1 \in 1 .. Len(items)
      BY <1>1, <2>1 DEF Assembling, Encoded, Counted
    <3>2. ~Known(items[Len(words) + 1].ins.imm)'
      BY <1>1, <1>2, <2>1
    <3> QED BY <1>1, <2>1, <3>1, <3>2 DEF Ended
  <2>2. CASE outcome' = "done"
    BY <1>1, <2>2 DEF Ended
  <2> QED BY <1>1, <2>1, <2>2
<1> QED BY <1>2, <1>3, <1>4 DEF Assembling

LEMMA AssemblingStep == Assembling /\ [HNext]_hvars => Assembling'
<1> SUFFICES ASSUME Assembling, [HNext]_hvars PROVE Assembling'
  OBVIOUS
<1>1. CASE HNext
  <2>1. source' = source /\ Next
    BY <1>1 DEF HNext
  <2>2. CASE ReadLabel
    BY <2>1, <2>2, ReadLabelStep
  <2>3. CASE ReadInstruction
    BY <2>1, <2>3, ReadInstructionStep
  <2>4. CASE EncodeItem
    BY <2>1, <2>4, EncodeItemStep
  <2>5. CASE UnknownLabel \/ Return
    BY <2>1, <2>5, EndStep
  <2> QED BY <2>1, <2>2, <2>3, <2>4, <2>5 DEF Next
<1>2. CASE UNCHANGED hvars
  <2>1. /\ source' = source /\ text' = text /\ labels' = labels /\ items' = items /\ pc' = pc
        /\ words' = words /\ outcome' = outcome
    BY <1>2 DEF hvars, vars
  <2>2. /\ Following' /\ Counted' /\ Emitted' /\ Required' /\ LabelsMet'
        /\ \A k : EncodedItem(k)' = EncodedItem(k)
        /\ \A imm : Known(imm)' <=> Known(imm)
    BY <2>1, PassOneStays
  <2>3. Encoded'
    BY <2>1, <2>2 DEF Assembling, Encoded
  <2>4. Ended'
    BY <2>1, <2>2 DEF Assembling, Ended
  <2> QED BY <2>2, <2>3, <2>4 DEF Assembling
<1> QED BY <1>1, <1>2

THEOREM AssemblingAlways == HSpec => []Assembling
<1> QED BY AssemblingInit, AssemblingStep, PTL DEF HSpec

-----------------------------------------------------------------------------
(* What the passes leave *)

\* Layout
LEMMA AssemblingLayout == Assembling => Layout
<1> SUFFICES ASSUME Assembling PROVE Layout
  OBVIOUS
<1>1. Counted /\ LabelsMet /\ Encoded
  BY DEF Assembling
<1>2. DOMAIN items = 1 .. Len(items)
  BY <1>1 DEF Counted
<1> QED BY <1>1, <1>2 DEF Layout, Counted, LabelsMet, Encoded

\* The word encoded last, and its item.
LEMMA LastWord ==
    ASSUME Assembling, words # <<>>
    PROVE  /\ Last(words) = EncodedItem(Len(words)) /\ Last(words) \in InstWord
           /\ Len(words) \in 1 .. Len(items) /\ Known(items[Len(words)].ins.imm)
<1>1. /\ words \in Seq(InstWord) /\ Len(words) <= Len(items) /\ Len(items) \in Nat
      /\ \A k \in 1 .. Len(words) : words[k] = EncodedItem(k) /\ Known(items[k].ins.imm)
  BY DEF Assembling, Encoded, Counted
<1>2. Len(words) \in 1 .. Len(words) /\ Len(words) \in 1 .. Len(items)
  BY <1>1
<1>3. words[Len(words)] \in InstWord
  BY <1>1, <1>2
<1> QED BY <1>1, <1>2, <1>3 DEF Last

LEMMA AssemblingImmediates == Assembling => ImmediatesAgree
<1> SUFFICES ASSUME Assembling, words # <<>>
             PROVE  /\ \A fmt \in Formats : imm_gen(Last(words), fmt) = iss_imm(Last(words), fmt)
                    /\ \A fmt \in {"B", "J"} : imm_gen(Last(words), fmt)[0] = 0
  BY DEF ImmediatesAgree
<1> PICK w \in InstWord : w = Last(words)
  BY LastWord
<1>1. ASSUME NEW fmt \in Formats PROVE imm_gen(w, fmt) = iss_imm(w, fmt)
  <2>1. imm_gen(w, fmt) = [i \in Bits |-> Immediate(w, fmt, i)]
    BY ONLY w \in InstWord, fmt \in Formats, RtlImmediate
  <2>2. iss_imm(w, fmt) = [i \in Bits |-> Immediate(w, fmt, i)]
    BY ONLY w \in InstWord, fmt \in Formats, IssImmediate
  <2> QED BY <2>1, <2>2
<1>2. ASSUME NEW fmt \in {"B", "J"} PROVE imm_gen(w, fmt)[0] = 0
  <2>1. fmt \in Formats /\ 0 \in Bits
    BY DEF Formats, Bits
  <2>2. imm_gen(w, fmt) = [i \in Bits |-> Immediate(w, fmt, i)]
    BY ONLY w \in InstWord, <2>1, RtlImmediate
  <2>3. Immediate(w, fmt, 0) = 0
    BY DEF Immediate
  <2> QED BY <2>1, <2>2, <2>3
<1> QED BY <1>1, <1>2

LEMMA AssemblingDisassembles == Assembling => Disassembles
<1> SUFFICES ASSUME Assembling, words # <<>>, items[Len(words)].ins.op # ".word"
             PROVE  LET i == items[Len(words)].ins
                        w == Last(words)
                        n == NumberOf(i, items[Len(words)].at)
                    IN /\ {op \in Mnemonics : Is(w, op)} = {i.op}
                       /\ RegistersOf(w, i.op) = [rd |-> i.rd, rs1 |-> i.rs1, rs2 |-> i.rs2]
                       /\ i.op \in DOMAIN SHIFT_I => fields(w).rs2 = n % 32
                       /\ Format(i.op) # "R" /\ Fits(n, Format(i.op)) =>
                            imm_gen(w, Format(i.op)) =
                                IF Format(i.op) = "U" THEN Shl(n, 12) ELSE ToBits(n)
  BY DEF Disassembles, NumberOf
<1> PICK i, at, w : i = items[Len(words)].ins /\ at = items[Len(words)].at /\ w = Last(words)
  OBVIOUS
<1>1. /\ w = EncodedItem(Len(words)) /\ Len(words) \in 1 .. Len(items)
      /\ Known(items[Len(words)].ins.imm)
  BY LastWord
<1>2. Spells(w, i.op, i.rd, i.rs1, i.rs2, NumberOf(i, at))
  BY <1>1, ItemWord DEF Assembling
<1> QED BY <1>2 DEF Spells

\* Where the last definition of a label is, once the text is read.
LEMMA DefinitionOf ==
    ASSUME Assembling, text = <<>>
    PROVE  /\ \A l : l \notin DOMAIN labels => Definition(l) = 0
           /\ \A l \in DOMAIN labels :
                 Definition(l) \in 1 .. Len(source) /\ labels[l] = AddressOf(Definition(l))
<1>1. Count = Len(source) /\ Len(source) \in Nat /\ DOMAIN source = 1 .. Len(source)
      /\ \A n \in 1 .. Len(source) : source[n] \in Line
  <2>1. source \in Seq(Line) /\ Len(text) = 0
    BY DEF Assembling, Following
  <2>2. Len(source) \in Nat /\ DOMAIN source = 1 .. Len(source)
        /\ \A n \in 1 .. Len(source) : source[n] \in Line
    BY ONLY <2>1, Elements
  <2> QED BY <2>1, <2>2 DEF Count
<1>2. \A l : Definition(l) = CHOOSE x \in {0} \cup {n \in 1 .. Len(source) : Defines(n, l)} :
                \A y \in {0} \cup {n \in 1 .. Len(source) : Defines(n, l)} : x >= y
  BY <1>1 DEF Definition, Max, Defines
<1>3. ASSUME NEW l, l \notin DOMAIN labels PROVE Definition(l) = 0
  <2>1. ASSUME NEW n \in 1 .. Len(source), Defines(n, l) PROVE FALSE
    <3>1. source[n] \in LabelLine
      BY <1>1, <2>1, NotLabel DEF Defines
    <3>2. l \in Labels
      BY <2>1, <3>1 DEF LabelLine, Defines
    <3> QED BY <1>1, <1>3, <2>1, <3>2 DEF Assembling, LabelsMet
  <2>2. {0} \cup {n \in 1 .. Len(source) : Defines(n, l)} = {0}
    BY <2>1
  <2> QED BY <1>2, <2>2
<1>4. ASSUME NEW l \in DOMAIN labels
      PROVE  Definition(l) \in 1 .. Len(source) /\ labels[l] = AddressOf(Definition(l))
  <2>1. PICK n \in 1 .. Len(source) : /\ Defines(n, l) /\ labels[l] = AddressOf(n)
                                      /\ \A m \in n + 1 .. Len(source) : ~Defines(m, l)
    BY <1>1 DEF Assembling, LabelsMet
  <2> PICK S : S = {0} \cup {m \in 1 .. Len(source) : Defines(m, l)}
    OBVIOUS
  <2>2. n \in S
    BY <2>1
  <2>3. \A y \in S : y \in Int /\ n >= y
    <3> SUFFICES ASSUME NEW y \in 1 .. Len(source), Defines(y, l) PROVE n >= y
      BY <1>1
    <3>1. y \notin n + 1 .. Len(source)
      BY <2>1
    <3> QED BY <1>1, <3>1
  <2>4. Definition(l) = CHOOSE x \in S : \A y \in S : x >= y
    BY <1>2
  <2>5. Definition(l) \in S /\ Definition(l) >= n
    <3>1. \E x \in S : \A y \in S : x >= y
      BY <2>2, <2>3
    <3> QED BY <2>2, <2>4, <3>1
  <2>6. Definition(l) = n
    BY ONLY <1>1, <2>3, <2>5, n \in 1 .. Len(source)
  <2> QED BY <2>1, <2>6
<1> QED BY <1>3, <1>4

\* The word of the k-th instruction of line n, once every item is encoded.
LEMMA WordOfLine ==
    ASSUME Assembling, outcome = "done", NEW n \in DOMAIN source, source[n].op # "label",
           NEW k \in 1 .. Size(source[n])
    PROVE  LET i  == expand(source[n])[k]
               at == AddressOf(n) + 4 * (k - 1)
           IN  /\ WordAt(at) \in InstWord /\ Known(i.imm) /\ at \in Int
               /\ i.op # ".word" =>
                    Spells(WordAt(at), i.op, i.rd, i.rs1, i.rs2, NumberOf(i, at))
<1> PICK i, at : i = expand(source[n])[k] /\ at = AddressOf(n) + 4 * (k - 1)
  OBVIOUS
<1>1. text = <<>> /\ Len(words) = Len(items) /\ Len(items) \in Nat /\ Base \in Int
  BY BaseAssumption DEF Assembling, Ended, Counted
<1>2. n \in 1 .. Count
  BY <1>1 DEF Assembling, Following, Count
<1>3. PICK j \in 1 .. Len(items) : items[j] = [at |-> at, ins |-> i]
  BY <1>2 DEF Assembling, Emitted
<1>4. items[j].at = at /\ items[j].ins = i
  BY <1>3
<1>5. at = Base + 4 * (j - 1)
  BY <1>4 DEF Assembling, Counted
<1>6. (at - Base) \div 4 + 1 = j
  <2>1. at - Base = 4 * (j - 1) /\ (4 * (j - 1)) \div 4 = j - 1
    BY ONLY <1>1, <1>5, j \in 1 .. Len(items)
  <2> QED BY ONLY <2>1, <1>1, j \in 1 .. Len(items)
<1>7. WordAt(at) = EncodedItem(j) /\ Known(items[j].ins.imm)
  BY <1>1, <1>6 DEF WordAt, Assembling, Encoded
<1>8. /\ EncodedItem(j) \in InstWord
      /\ i.op # ".word" => Spells(EncodedItem(j), i.op, i.rd, i.rs1, i.rs2, NumberOf(i, at))
  BY <1>4, <1>7, ItemWord DEF Assembling
<1>9. at \in Int
  BY ONLY <1>1, <1>5, j \in 1 .. Len(items)
<1> QED BY <1>4, <1>7, <1>8, <1>9

LEMMA AssemblingRefuses == Assembling => RefusesExactly
<1> SUFFICES ASSUME Assembling PROVE RefusesExactly
  OBVIOUS
<1>0. /\ source \in Seq(Line) /\ DOMAIN source = 1 .. Len(source)
      /\ \A n \in DOMAIN source : source[n] \in Line
  <2>1. source \in Seq(Line)
    BY DEF Assembling, Following
  <2> QED BY ONLY <2>1, Elements
<1>1. ASSUME outcome = "error"
      PROVE  \E n \in DOMAIN source : \E l \in Uses(source[n]) : Definition(l) = 0
  <2>1. text = <<>>
    BY <1>1 DEF Assembling, Ended
  <2>2. PICK k \in 1 .. Len(items) : ~Known(items[k].ins.imm)
    BY <1>1 DEF Assembling, Ended
  <2> PICK l : l = items[k].ins.imm.label
    OBVIOUS
  <2>3. l # "" /\ l \notin DOMAIN labels
    BY <2>2 DEF Known
  <2>4. PICK n \in 1 .. Count : l \in Uses(source[n])
    BY <2>3 DEF Assembling, Required
  <2>5. n \in DOMAIN source
    BY <1>0 DEF Assembling, Following
  <2>6. Definition(l) = 0
    BY <2>1, <2>3, DefinitionOf
  <2> QED BY <2>4, <2>5, <2>6
<1>2. ASSUME outcome = "done", NEW n \in DOMAIN source, NEW l \in Uses(source[n]), Definition(l) = 0
      PROVE  FALSE
  <2>1. text = <<>>
    BY <1>2 DEF Assembling, Ended
  <2>2. source[n].op # "label"
    BY DEF Uses
  <2>3. expand(source[n])[1].imm.label = l /\ l # "" /\ Size(source[n]) = 1
    BY <1>0, <2>2, Expansion DEF Expands
  <2>4. Known(expand(source[n])[1].imm)
    <3>1. 1 \in 1 .. Size(source[n])
      <4>1. Size(source[n]) = 1
        BY <2>3
      <4> QED BY ONLY <4>1
    <3> QED BY <1>2, <2>2, <3>1, WordOfLine
  <2>5. l \in DOMAIN labels
    BY <2>3, <2>4 DEF Known
  <2>6. Definition(l) \in 1 .. Len(source)
    BY <2>1, <2>5, DefinitionOf
  <2> QED BY <1>2, <2>6
<1> QED BY <1>1, <1>2 DEF RefusesExactly

\* A branch or jump becomes a real one.
LEMMA Links ==
    ASSUME NEW line, line.op \in Linking
    PROVE  expand(line)[1].op \in LinkOps
<1>1. CASE line.op \in LinkOps
  <2>1. expand(line) = <<line>>
    BY <1>1, Tables DEF expand, LinkOps
  <2> QED BY <1>1, <2>1
<1>2. CASE line.op = "j"
  <2>1. expand(line) = <<Real("jal", 0, 0, 0, line.imm)>>
    BY <1>2 DEF expand
  <2> QED BY <2>1 DEF Real, LinkOps
<1>3. CASE line.op = "beqz"
  <2>1. expand(line) = <<Real("beq", 0, line.rs1, 0, line.imm)>>
    BY <1>3 DEF expand
  <2> QED BY <2>1, Tables DEF Real, LinkOps
<1>4. CASE line.op = "bnez"
  <2>1. expand(line) = <<Real("bne", 0, line.rs1, 0, line.imm)>>
    BY <1>4 DEF expand
  <2> QED BY <2>1, Tables DEF Real, LinkOps
<1> QED BY <1>1, <1>2, <1>3, <1>4 DEF Linking

LEMMA AssemblingResolves == Assembling => LabelsResolve
<1> SUFFICES ASSUME Assembling, outcome = "done", NEW n \in DOMAIN source,
                    source[n].op \in Linking, NEW l \in Uses(source[n])
             PROVE  LET w        == WordAt(AddressOf(n))
                        distance == AddressOf(Definition(l)) - AddressOf(n)
                        fmt      == IF Is(w, "jal") THEN "J" ELSE "B"
                    IN Fits(distance, fmt) => imm_gen(w, fmt) = ToBits(distance)
  BY DEF LabelsResolve
<1> PICK i, w, distance : i = expand(source[n])[1] /\ w = WordAt(AddressOf(n))
                          /\ distance = AddressOf(Definition(l)) - AddressOf(n)
  OBVIOUS
<1>1. /\ source \in Seq(Line) /\ DOMAIN source = 1 .. Len(source)
      /\ \A k \in DOMAIN source : source[k] \in Line
  <2>1. source \in Seq(Line)
    BY DEF Assembling, Following
  <2> QED BY ONLY <2>1, Elements
<1>2. source[n].op # "label" /\ text = <<>>
  BY DEF Uses, Assembling, Ended
<1>3. i.imm.label = l /\ l # "" /\ Size(source[n]) = 1
  BY <1>1, <1>2, Expansion DEF Expands
<1>4. i.op \in LinkOps
  BY Links
<1>5. /\ w \in InstWord /\ Known(i.imm)
      /\ Spells(w, i.op, i.rd, i.rs1, i.rs2, NumberOf(i, AddressOf(n)))
  <2> PICK k : k = 1
    OBVIOUS
  <2>1. k \in 1 .. Size(source[n])
    <3>1. Size(source[n]) = 1
      BY <1>3
    <3> QED BY ONLY <3>1, k = 1
  <2>2. AddressOf(n) \in Int
    <3>1. n \in 1 .. Len(source) + 1
      BY ONLY <1>1, n \in DOMAIN source
    <3> QED BY <1>1, <3>1, AddressSteps
  <2>3. AddressOf(n) + 4 * (k - 1) = AddressOf(n)
    BY ONLY <2>2, k = 1
  <2>4. i.op # ".word"
    BY <1>4, Tables DEF LinkOps
  <2> QED BY <1>2, <2>1, <2>3, <2>4, WordOfLine
<1>6. NumberOf(i, AddressOf(n)) = distance
  <2>1. l \in DOMAIN labels
    BY <1>3, <1>5 DEF Known
  <2>2. labels[l] = AddressOf(Definition(l))
    BY <1>2, <2>1, DefinitionOf
  <2> QED BY <1>3, <1>4, <2>2 DEF NumberOf, Relative
<1>7. CASE i.op = "jal"
  <2>1. Is(w, "jal")
    BY <1>5, <1>7 DEF Spells
  <2>2. Format(i.op) = "J"
    BY <1>7, FormatOf
  <2> QED BY <1>5, <1>6, <2>1, <2>2 DEF Spells
<1>8. CASE i.op \in DOMAIN BRANCHES
  <2>1. ~Is(w, "jal")
    <3>1. "jal" \in Mnemonics /\ i.op # "jal"
      BY <1>8, Tables DEF Mnemonics
    <3>2. {o \in Mnemonics : Is(w, o)} = {i.op}
      BY <1>5 DEF Spells
    <3> QED BY ONLY <3>1, <3>2
  <2>2. Format(i.op) = "B"
    BY <1>8, FormatOf
  <2> QED BY <1>5, <1>6, <2>1, <2>2 DEF Spells
<1> QED BY <1>4, <1>7, <1>8 DEF LinkOps

\* The word of a literal instruction of a line.
LEMMA LiteralWord ==
    ASSUME Assembling, outcome = "done", NEW n \in DOMAIN source, source[n].op # "label",
           NEW k \in 1 .. Size(source[n]), NEW op \in {"addi", "lui"}, NEW rd, NEW rs1,
           NEW v \in Int, expand(source[n])[k] = Real(op, rd, rs1, 0, Literal(v))
    PROVE  LET w == WordAt(AddressOf(n) + 4 * (k - 1))
           IN  w \in InstWord /\ Spells(w, op, rd, rs1, 0, v)
<1> PICK i, at : i = expand(source[n])[k] /\ at = AddressOf(n) + 4 * (k - 1)
  OBVIOUS
<1>1. i.op = op /\ i.rd = rd /\ i.rs1 = rs1 /\ i.rs2 = 0 /\ i.imm = Literal(v)
  BY DEF Real
<1>2. NumberOf(i, at) = v
  <2>1. i.op \notin LinkOps
    BY <1>1, Tables DEF LinkOps
  <2>2. Absolute(i.imm) = v
    <3> PICK m : m = Literal(v)
      OBVIOUS
    <3>1. m.label = "" /\ m.num = v
      BY ONLY m = Literal(v), v \in Int DEF Literal
    <3>2. Absolute(m) = v
      BY ONLY <3>1 DEF Absolute
    <3> QED BY <1>1, <3>2
  <2> QED BY <2>1, <2>2 DEF NumberOf
<1>3. /\ WordAt(at) \in InstWord
      /\ i.op # ".word" => Spells(WordAt(at), i.op, i.rd, i.rs1, i.rs2, NumberOf(i, at))
  BY WordOfLine
<1> QED BY <1>1, <1>2, <1>3

\* An ADDI of the low half gives it back, and the borrow its sign is.
LEMMA LowHalf ==
    ASSUME NEW w \in InstWord, NEW lo \in Int, 0 <= lo, lo < 4096, NEW rd, NEW rs1,
           Spells(w, "addi", rd, rs1, 0, SignedLow(lo))
    PROVE  /\ Is(w, "addi") /\ fields(w).rd = rd /\ fields(w).rs1 = rs1
           /\ Number(Part(imm_gen(w, "I"), 11, 0)) = lo
           /\ imm_gen(w, "I")[31] = IF lo < 2048 THEN 0 ELSE 1
<1> PICK n : n = SignedLow(lo)
  OBVIOUS
<1>1. n \in Int /\ -2048 <= n /\ n < 2048 /\ n = IF lo < 2048 THEN lo ELSE lo - 4096
  BY SignedLowValue
<1>2. Is(w, "addi")
  BY DEF Spells
<1>3. fields(w).rd = rd /\ fields(w).rs1 = rs1
  <2>1. RegistersOf(w, "addi") = [rd |-> rd, rs1 |-> rs1, rs2 |-> 0]
    BY DEF Spells
  <2>2. RegistersOf(w, "addi").rd = fields(w).rd /\ RegistersOf(w, "addi").rs1 = fields(w).rs1
    BY Tables DEF RegistersOf
  <2> QED BY <2>1, <2>2
<1>4. imm_gen(w, "I") = ToBits(n)
  <2>1. Format("addi") = "I"
    BY Tables, FormatOf
  <2>2. Fits(n, "I")
    BY <1>1 DEF Fits, ImmRange
  <2> QED BY <2>1, <2>2 DEF Spells
<1> PICK low \in InstWord : low = ToBits(n)
  BY <1>1, WordOf
<1>5. \A j \in 0 .. 11 : low[0 + j] = ToBits(lo)[0 + j]
  <2> PICK m \in 0 .. 30 : m = 12
    OBVIOUS
  <2>1. n % Pow[m] = lo
    <3>1. Pow[m] = 4096
      BY PowValues
    <3>2. n % 4096 = lo
      BY ONLY <1>1, lo \in Int, 0 <= lo, lo < 4096
    <3> QED BY <3>1, <3>2
  <2>2. \A i \in Bits : ToBits(lo)[i] = IF i < m THEN low[i] ELSE 0
    <3>1. \A i \in Bits : ToBits(n % Pow[m])[i] = IF i < m THEN ToBits(n)[i] ELSE 0
      <4>1. n \in Int
        BY <1>1
      <4> QED BY ONLY <4>1, m \in 0 .. 30, BitsLow
    <3> QED BY ONLY <2>1, <3>1, low = ToBits(n)
  <2>3. \A j \in 0 .. 11 : j \in Bits /\ 0 + j = j /\ j < m
    BY DEF Bits
  <2> QED BY <2>2, <2>3
<1>6. Number(Part(low, 11, 0)) = lo
  <2> PICK hi \in Bits, z \in Bits, m \in 1 .. 30 : hi = 11 /\ z = 0 /\ m = 12 /\ z \in 0 .. hi
    BY DEF Bits
  <2>1. lo \in 0 .. Pow[m] - 1
    BY PowValues
  <2>2. m = (hi - z) + 1 /\ Carries(low, z, m, lo, 0)
    BY <1>5 DEF Carries
  <2>3. Number(Part(low, hi, z)) = lo
    BY ONLY <2>1, <2>2, low \in InstWord, hi \in Bits, z \in 0 .. hi, m \in 1 .. 30, FieldOf
  <2> QED BY <2>3
<1>7. low[31] = IF lo < 2048 THEN 0 ELSE 1
  <2>1. low[31] = IF n < 0 THEN 1 ELSE 0
    BY DEF ToBits, Bits
  <2> QED BY <1>1, <2>1
<1> QED BY <1>2, <1>3, <1>4, <1>6, <1>7

\* A LUI carries its upper half.
LEMMA UpperHalf ==
    ASSUME NEW w \in InstWord, NEW u \in Int, 0 <= u, u < 2^20, NEW rd,
           Spells(w, "lui", rd, 0, 0, u)
    PROVE  Is(w, "lui") /\ fields(w).rd = rd /\ Number(Part(w, 31, 12)) = u
<1>1. Is(w, "lui")
  BY DEF Spells
<1>2. fields(w).rd = rd
  <2>1. RegistersOf(w, "lui") = [rd |-> rd, rs1 |-> 0, rs2 |-> 0]
    BY DEF Spells
  <2>2. RegistersOf(w, "lui").rd = fields(w).rd
    BY Tables DEF RegistersOf
  <2> QED BY <2>1, <2>2
<1>3. imm_gen(w, "U") = Shl(u, 12)
  <2>1. Format("lui") = "U"
    BY FormatOf
  <2>2. Fits(u, "U")
    BY DEF Fits, ImmRange
  <2> QED BY <2>1, <2>2 DEF Spells
<1>4. imm_gen(w, "U") = [i \in Bits |-> Immediate(w, "U", i)]
  <2>1. "U" \in Formats
    BY DEF Formats
  <2> QED BY ONLY <2>1, w \in InstWord, RtlImmediate
<1>5. ASSUME NEW j \in 0 .. 19 PROVE w[12 + j] = ToBits(u)[0 + j]
  <2> PICK i \in Bits : i = 12 + j /\ 0 + j = i - 12 /\ i \in Int /\ ~(i < 12)
    BY DEF Bits
  <2>1. Immediate(w, "U", i) = Shl(u, 12)[i]
    BY <1>3, <1>4
  <2>2. Immediate(w, "U", i) = w[i]
    BY ~(i < 12) DEF Immediate
  <2>3. Shl(u, 12)[i] = ToBits(u)[i - 12]
    BY ~(i < 12) DEF Shl
  <2> QED BY <2>1, <2>2, <2>3
<1>6. u \in 0 .. Pow[20] - 1
  <2>1. Pow[20] = 2^20
    BY DEF Pow
  <2> PICK P \in Int : P = 2^20
    BY Literals, SMT
  <2> QED BY <2>1
<1> QED
  <2>1. Carries(w, 12, 20, u, 0)
    BY <1>5 DEF Carries
  <2> QED BY <1>1, <1>2, <1>6, <2>1, ReadsU

\* What LUI is raised by, the borrow takes back.
LEMMA Borrow ==
    ASSUME NEW P \in Nat, P > 2, NEW hi \in Int, 0 <= hi, hi < P, NEW c \in {0, 1}
    PROVE  /\ (hi + c) % P \in Int /\ 0 <= (hi + c) % P /\ (hi + c) % P < P
           /\ (((hi + c) % P) - c) % P = hi
           /\ (0 - 0) % P = 0 /\ (0 - 1) % P = P - 1
<1>1. \A x \in 0 .. P - 1 : x % P = x
  <2> SUFFICES ASSUME NEW x \in 0 .. P - 1 PROVE x % P = x
    OBVIOUS
  <2>1. x = P * 0 + x /\ P \in Nat \ {0} /\ 0 \in Int
    OBVIOUS
  <2> QED BY ONLY <2>1, x \in 0 .. P - 1, Quotient
<1>2. P % P = 0
  <2>1. P = P * 1 + 0 /\ P \in Nat \ {0} /\ 1 \in Int /\ 0 \in 0 .. P - 1
    OBVIOUS
  <2> QED BY ONLY <2>1, Quotient
<1>3. (0 - 1) % P = P - 1
  <2> PICK m \in Nat \ {0}, q \in Int, r \in 0 .. P - 1, x \in Int :
           m = P /\ q = -1 /\ r = P - 1 /\ x = 0 - 1
    OBVIOUS
  <2>1. r \in 0 .. m - 1 /\ x = m * q + r
    OBVIOUS
  <2>2. x % m = r
    BY ONLY m \in Nat \ {0}, q \in Int, <2>1, Quotient
  <2> QED BY <2>2
<1>4. (0 - 0) % P = 0
  <2>1. 0 - 0 = 0 /\ 0 \in 0 .. P - 1
    OBVIOUS
  <2> QED BY <1>1, <2>1
<1>5. CASE hi + c < P
  <2>1. hi + c \in 0 .. P - 1 /\ hi \in 0 .. P - 1 /\ (hi + c) - c = hi
    BY <1>5
  <2>2. (hi + c) % P = hi + c /\ hi % P = hi
    BY <1>1, <2>1
  <2> QED BY <1>3, <1>4, <2>1, <2>2
<1>6. CASE ~(hi + c < P)
  <2>1. hi + c = P /\ c = 1 /\ hi = P - 1
    BY <1>6
  <2> QED BY <1>2, <1>3, <1>4, <2>1
<1> QED BY <1>5, <1>6

\* The lines of li.
LEMMA LiLines == \A line \in Line : line.op = "li" => line \in LiLine
<1>1. \A line \in RealLine : line.op # "li"
  BY Tables DEF RealLine, Lines
<1>2. \A line \in PseudoLine : line.op = "li" => line \in LiLine
  BY DEF PseudoLine, Lines, LiLine
<1>3. \A line \in WordLine \cup LabelLine : line.op # "li"
  BY DEF WordLine, LabelLine
<1> QED BY <1>1, <1>2, <1>3 DEF Line

LEMMA AssemblingLoads == Assembling => LiLoads
<1> SUFFICES ASSUME Assembling, outcome = "done", NEW n \in DOMAIN source, source[n].op = "li"
             PROVE  LET line  == source[n]
                        first == WordAt(AddressOf(n))
                        last  == WordAt(AddressOf(n) + 4 * (Size(line) - 1))
                        upper == IF Size(line) = 1 THEN 0 ELSE Number(Part(first, 31, 12))
                        low   == imm_gen(last, "I")
                    IN /\ Size(line) = 2 => Is(first, "lui") /\ fields(first).rd = line.rd
                       /\ Is(last, "addi") /\ fields(last).rd = line.rd
                       /\ fields(last).rs1 = IF Size(line) = 1 THEN 0 ELSE line.rd
                       /\ Number(Part(low, 11, 0)) = line.lo
                       /\ (upper - low[31]) % 2^20 = line.hi
  BY DEF LiLoads
<1> PICK P \in Nat : P = 2^20 /\ P > 2
  BY Literals, SMT
<1> PICK line, first, last :
        /\ line = source[n]
        /\ first = WordAt(AddressOf(n))
        /\ last = WordAt(AddressOf(n) + 4 * (Size(line) - 1))
  OBVIOUS
<1>1. /\ source \in Seq(Line) /\ DOMAIN source = 1 .. Len(source)
      /\ \A k \in DOMAIN source : source[k] \in Line
  <2>1. source \in Seq(Line)
    BY DEF Assembling, Following
  <2> QED BY ONLY <2>1, Elements
<1>2. line \in LiLine
  BY <1>1, LiLines
<1>3. /\ line.op = "li" /\ line.rd \in Registers
      /\ line.lo \in Int /\ 0 <= line.lo /\ line.lo < 4096
      /\ line.hi \in Int /\ 0 <= line.hi /\ line.hi < P
  BY <1>2, LiType
<1>4. SignedLow(line.lo) \in Int
  BY <1>3, SignedLowValue
<1> PICK c \in {0, 1} : c = IF line.lo < 2048 THEN 0 ELSE 1
  BY <1>3
<1>5. (line.lo + 2048) \div 4096 = c
  BY <1>3, SignedLowValue
<1>6. CASE Size(line) = 1
  <2>1. /\ (line.hi = 0 /\ line.lo < 2048) \/ (line.hi = P - 1 /\ line.lo >= 2048)
        /\ expand(line)[1] = Real("addi", line.rd, 0, 0, Literal(SignedLow(line.lo)))
    BY <1>2, <1>6, ExpandLi
  <2>2. last \in InstWord /\ Spells(last, "addi", line.rd, 0, 0, SignedLow(line.lo))
    <3> PICK k : k = Size(line)
      OBVIOUS
    <3>1. k \in 1 .. Size(source[n]) /\ k = 1
      BY ONLY <1>6, k = Size(line), line = source[n]
    <3> PICK v \in Int, op \in {"addi", "lui"}, z \in Int :
             v = SignedLow(line.lo) /\ op = "addi" /\ z = 0
      BY <1>4
    <3>2. source[n].op # "label" /\ expand(source[n])[k] = Real(op, line.rd, z, 0, Literal(v))
      BY <1>3, <2>1, <3>1
    <3>3. LET w == WordAt(AddressOf(n) + 4 * (k - 1))
          IN  w \in InstWord /\ Spells(w, op, line.rd, z, 0, v)
      <4>1. k \in 1 .. Size(source[n])
        BY <3>1
      <4> QED BY ONLY Assembling, outcome = "done", n \in DOMAIN source, <3>2, <4>1,
                      op \in {"addi", "lui"}, v \in Int, LiteralWord
    <3> QED BY <3>1, <3>3
  <2>3. /\ Is(last, "addi") /\ fields(last).rd = line.rd /\ fields(last).rs1 = 0
        /\ Number(Part(imm_gen(last, "I"), 11, 0)) = line.lo
        /\ imm_gen(last, "I")[31] = c
    BY <1>3, <2>2, LowHalf
  <2>4. (0 - c) % P = line.hi
    <3>1. (0 - 0) % P = 0 /\ (0 - 1) % P = P - 1
      BY ONLY P \in Nat, P > 2, <1>3, Borrow
    <3> QED BY <1>3, <2>1, <3>1
  <2> QED BY <1>6, <2>3, <2>4
<1>7. CASE Size(line) # 1
  <2> PICK u : u = (line.hi + c) % P
    OBVIOUS
  <2>1. u \in Int /\ 0 <= u /\ u < P /\ (u - c) % P = line.hi
    <3> PICK hi : hi = line.hi
      OBVIOUS
    <3>1. hi \in Int /\ 0 <= hi /\ hi < P
      BY <1>3
    <3> QED BY ONLY P \in Nat, P > 2, c \in {0, 1}, <3>1, hi = line.hi, u = (line.hi + c) % P, Borrow
  <2>2. /\ Size(line) = 2
        /\ expand(line)[1] = Real("lui", line.rd, 0, 0, Literal(u))
        /\ expand(line)[2] = Real("addi", line.rd, line.rd, 0, Literal(SignedLow(line.lo)))
    BY <1>2, <1>5, <1>7, ExpandLi
  <2>3. first \in InstWord /\ Spells(first, "lui", line.rd, 0, 0, u)
    <3> PICK k : k = 1
      OBVIOUS
    <3>1. k \in 1 .. Size(source[n])
      <4>1. Size(source[n]) = 2
        BY <2>2
      <4> QED BY ONLY <4>1, k = 1
    <3>2. AddressOf(n) + 4 * (k - 1) = AddressOf(n)
      <4>1. n \in 1 .. Len(source) + 1
        BY ONLY <1>1, n \in DOMAIN source
      <4>2. AddressOf(n) \in Int
        BY <1>1, <4>1, AddressSteps
      <4> QED BY ONLY <4>2, k = 1
    <3> QED BY <1>3, <2>1, <2>2, <3>1, <3>2, LiteralWord
  <2>4. last \in InstWord /\ Spells(last, "addi", line.rd, line.rd, 0, SignedLow(line.lo))
    <3> PICK k : k = Size(line)
      OBVIOUS
    <3>0. Size(line) = 2
      BY <2>2
    <3>1. k \in 1 .. Size(source[n]) /\ k = 2
      BY ONLY <3>0, k = Size(line), line = source[n]
    <3> QED BY <1>3, <1>4, <2>2, <3>1, LiteralWord
  <2>5. Is(first, "lui") /\ fields(first).rd = line.rd /\ Number(Part(first, 31, 12)) = u
    BY <2>1, <2>3, UpperHalf
  <2>6. /\ Is(last, "addi") /\ fields(last).rd = line.rd /\ fields(last).rs1 = line.rd
        /\ Number(Part(imm_gen(last, "I"), 11, 0)) = line.lo
        /\ imm_gen(last, "I")[31] = c
    BY <1>3, <2>4, LowHalf
  <2> QED BY <1>7, <2>1, <2>5, <2>6
<1> QED BY <1>6, <1>7

-----------------------------------------------------------------------------
(* The properties of the assembler, as theorems *)

\* The next address and every item's address count the words before it, in
\* both passes, whatever expands to one instruction or two (asm.py:176).
THEOREM LayoutCorrect == HSpec => []Layout
BY AssemblingAlways, AssemblingLayout, PTL

\* Every word spells its own instruction and no other to the decoder, with its
\* registers and its immediate, for every operand (isa.py:44; decoder.sv:35).
THEOREM DisassemblesCorrect == HSpec => []Disassembles
BY AssemblingAlways, AssemblingDisassembles, PTL

\* imm_gen.sv and iss.py read the same five immediates from every word that is
\* assembled, data words included (imm_gen.sv:14, iss.py:153).
THEOREM ImmediatesCorrect == HSpec => []ImmediatesAgree
BY AssemblingAlways, AssemblingImmediates, PTL

\* A branch or jump to a label whose distance its field holds lands on what
\* follows the label's last definition (asm.py:56).
THEOREM LabelsCorrect == HSpec => []LabelsResolve
BY AssemblingAlways, AssemblingResolves, PTL

\* li loads each of the 2^32 values, in one instruction or two (asm.py:92).
THEOREM LiCorrect == HSpec => []LiLoads
BY AssemblingAlways, AssemblingLoads, PTL

\* Exactly the texts that use a label they never define are refused
\* (asm.py:60).
THEOREM RefusesCorrect == HSpec => []RefusesExactly
BY AssemblingAlways, AssemblingRefuses, PTL
=============================================================================
