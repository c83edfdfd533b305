----------------------------- MODULE WordProofs -----------------------------
(***************************************************************************)
(* Quotients and remainders; words and their lanes; what the datapath and  *)
(* the two paths of the memory compute, and that it is what the golden     *)
(* model computes.  For every word width and memory size that the          *)
(* assumptions of Isa allow.                                               *)
(***************************************************************************)
EXTENDS Datapath, Memory, TLAPS

\* The operators of the golden model that read nothing of its state.
Reference == INSTANCE Iss WITH mem <- <<>>, regs <- <<>>, pc <- 0, halted <- FALSE,
                               halt_cause <- 0, Programs <- {}

-----------------------------------------------------------------------------
(* Quotients and remainders, which the provers have no rules for when the  *)
(* divisor is not a literal *)

\* The quotient of a natural number is one, and not greater.
LEMMA DivisionFacts ==
    ASSUME NEW x \in Nat, NEW p \in Nat \ {0}
    PROVE  /\ x \div p \in Nat /\ x % p \in 0 .. p - 1
           /\ x = p * (x \div p) + (x % p)
           /\ x \div p <= x
<1> DEFINE c == x \div p
           r == x % p
<1>1. c \in Int /\ r \in 0 .. p - 1 /\ x = p * c + r
  OBVIOUS
<1>2. c >= 0
  <2> HIDE DEF c, r
  <2> SUFFICES ASSUME c <= -1 PROVE FALSE
    BY <1>1
  <2>1. p * c <= p * (-1)
    BY <1>1
  <2> QED BY <1>1, <2>1
<1> HIDE DEF c, r
<1>3. p * c = c + (p - 1) * c /\ (p - 1) * c \in Nat
  BY <1>1, <1>2
<1>4. c <= x
  BY <1>1, <1>2, <1>3
<1> QED BY <1>1, <1>2, <1>4 DEF c, r

\* Dividing by a divisor of y keeps x below y.
LEMMA DivisionMonotonic ==
    ASSUME NEW y \in Nat, NEW x \in 0 .. y - 1, NEW p \in Nat \ {0}, y % p = 0
    PROVE  x \div p < y \div p
<1> DEFINE c == x \div p
           d == y \div p
<1>1. c \in Nat /\ d \in Nat /\ p * c <= x /\ y = p * d
  BY DivisionFacts
<1> SUFFICES ASSUME c >= d PROVE FALSE
  BY <1>1
<1> HIDE DEF c, d
<1>2. c = d + (c - d) /\ c - d \in Nat
  BY <1>1
<1>3. p * c = p * d + p * (c - d) /\ p * (c - d) \in Nat
  BY <1>1, <1>2
<1> QED BY <1>1, <1>3

\* A number put together from a low digit and the rest comes apart again.
LEMMA JoinSplit ==
    ASSUME NEW p \in Nat \ {0}, NEW x \in 0 .. p - 1, NEW y \in Int
    PROVE  (x + p * y) % p = x /\ (x + p * y) \div p = y
<1> DEFINE z == x + p * y
           q == z \div p
           r == z % p
<1>1. p * y \in Int /\ z \in Int
  OBVIOUS
<1>2. q \in Int /\ r \in 0 .. p - 1 /\ z = p * q + r
  BY <1>1
<1>3. p * (y - q) = r - x
  <2>1. p * (y - q) = p * y - p * q
    BY <1>2
  <2> HIDE DEF q, r
  <2> QED BY <1>2, <2>1
<1> HIDE DEF q, r
<1>4. y = q
  <2> DEFINE d == y - q
  <2>1. d \in Int /\ p * d = r - x
    BY <1>2, <1>3
  <2> HIDE DEF d
  <2>2. p * d < p /\ p * d > -p
    BY <1>2, <2>1
  <2>3. ~(d >= 1)
    <3> SUFFICES ASSUME d >= 1 PROVE FALSE
      OBVIOUS
    <3>1. p * d = p + p * (d - 1) /\ p * (d - 1) \in Nat
      BY <2>1
    <3> QED BY <2>1, <2>2, <3>1
  <2>4. ~(d <= -1)
    <3> SUFFICES ASSUME d <= -1 PROVE FALSE
      OBVIOUS
    <3>1. p * d = (-p) - p * ((-1) - d) /\ p * ((-1) - d) \in Nat
      BY <2>1
    <3> QED BY <2>1, <2>2, <3>1
  <2>5. d = 0
    BY <2>1, <2>3, <2>4
  <2> QED BY <1>2, <2>5 DEF d
<1>5. r = x
  BY <1>2, <1>4
<1> QED BY <1>4, <1>5 DEF q, r, z

\* Dividing by a product is dividing twice.
LEMMA DivideTwice ==
    ASSUME NEW x \in Nat, NEW p \in Nat \ {0}, NEW q \in Nat \ {0}
    PROVE  x \div (p * q) = (x \div p) \div q
<1> DEFINE c == x \div p
           r == x % p
           d == c \div q
           s == c % q
<1>1. c \in Nat /\ r \in 0 .. p - 1 /\ x = p * c + r
  BY DivisionFacts
<1>2. d \in Nat /\ s \in 0 .. q - 1 /\ c = q * d + s
  BY <1>1, DivisionFacts
<1> HIDE DEF c, r, d, s
<1>3. r + p * s \in 0 .. p * q - 1
  <2>1. p * s \in Nat /\ p * s <= p * (q - 1) /\ p * (q - 1) = p * q - p /\ p * q \in Nat
    BY <1>2
  <2> QED BY <1>1, <2>1
<1>4. x = (r + p * s) + (p * q) * d
  <2>1. p * c = p * (q * d) + p * s
    BY <1>2
  <2>2. p * (q * d) = (p * q) * d
    BY <1>2
  <2> QED BY <1>1, <1>2, <2>1, <2>2
<1>5. p * q \in Nat \ {0}
  OBVIOUS
<1>6. x \div (p * q) = d
  BY <1>2, <1>3, <1>4, <1>5, JoinSplit
<1> QED BY <1>6 DEF d, c

\* Up or down from a number u + s * c that is u places into a circle of s.
LEMMA CircleUp ==
    ASSUME NEW s \in Nat \ {0}, NEW u \in Int, NEW c \in Int, NEW k \in Int,
           u + k \in 0 .. s - 1
    PROVE  ((u + s * c) + k) % s = u + k
<1> DEFINE d == s * c
           n == u + k
<1>1. d \in Int /\ (u + d) + k = n + d /\ n \in 0 .. s - 1
  OBVIOUS
<1>2. (n + s * c) % s = n
  BY <1>1, JoinSplit
<1> HIDE DEF n
<1> QED BY <1>1, <1>2 DEF n

LEMMA CircleDown ==
    ASSUME NEW s \in Nat \ {0}, NEW u \in Int, NEW c \in Int, NEW x \in Int,
           x - u \in 0 .. s - 1
    PROVE  (x - (u + s * c)) % s = x - u
<1> DEFINE d == s * c
           n == x - u
<1>1. d \in Int /\ -c \in Int /\ s * (-c) = -d
  OBVIOUS
<1>2. (x - (u + d)) = n + (-d) /\ n \in 0 .. s - 1
  BY <1>1
<1> HIDE DEF n
<1>3. (n + s * (-c)) % s = n
  BY <1>1, <1>2, JoinSplit
<1> HIDE DEF d
<1>4. (x - (u + d)) % s = n
  BY <1>1, <1>2, <1>3
<1> QED BY <1>4 DEF n, d

\* A number by its digits to the bases 4 and w.
LEMMA TwoDigits ==
    ASSUME NEW w \in Nat \ {0}, NEW x \in Nat
    PROVE  /\ (x \div 4) \div w \in Nat /\ (x \div 4) % w \in 0 .. w - 1
           /\ x = (4 * ((x \div 4) % w) + (x % 4)) + (4 * w) * ((x \div 4) \div w)
<1> DEFINE q == x \div 4
           c == q \div w
           i == q % w
           l == x % 4
<1>1. q \in Nat /\ l \in 0 .. 3 /\ x = 4 * q + l
  BY DivisionFacts
<1> HIDE DEF q, l
<1>2. c \in Nat /\ i \in 0 .. w - 1 /\ q = w * c + i
  BY <1>1, DivisionFacts
<1> HIDE DEF c, i
<1>3. w * c \in Int /\ (4 * w) * c = 4 * (w * c)
  BY <1>2
<1>4. 4 * q = 4 * (w * c) + 4 * i
  BY <1>2, <1>3
<1>5. x = (4 * i + l) + (4 * w) * c
  BY <1>1, <1>2, <1>3, <1>4
<1> QED BY <1>2, <1>5 DEF q, c, i, l

\* Floor division of x - M, where p divides M.
LEMMA DivisionBelow ==
    ASSUME NEW M \in Nat \ {0}, NEW p \in Nat \ {0}, M % p = 0, NEW x \in 0 .. M - 1
    PROVE  /\ x \div p \in 0 .. M - 1 /\ (x \div p) % M = x \div p
           /\ ((x - M) \div p) % M = (x \div p) + (M - (M \div p))
<1> DEFINE d == M \div p
           c == x \div p
           r == x % p
<1>1. d \in Nat /\ M = p * d /\ d <= M
  <2>1. d \in Nat /\ M = p * d + (M % p) /\ d <= M
    BY DivisionFacts
  <2> HIDE DEF d
  <2>2. p * d \in Nat
    BY <2>1
  <2> QED BY <2>1, <2>2
<1>2. c \in Nat /\ r \in 0 .. p - 1 /\ x = p * c + r /\ c <= x
  BY DivisionFacts, x \in Nat
<1>3. c < d
  BY DivisionMonotonic
<1> HIDE DEF c, d, r
<1>4. c \in 0 .. M - 1 /\ (c - d) + M \in 0 .. M - 1
  BY <1>1, <1>2, <1>3
<1>5. c % M = c
  BY <1>4
<1>6. (x - M) \div p = c - d
  <2>1. p * (c - d) = p * c - p * d /\ p * c \in Int /\ p * d \in Int
    BY <1>1, <1>2
  <2>2. x - M = r + p * (c - d)
    BY <1>1, <1>2, <2>1
  <2>3. c - d \in Int
    BY <1>1, <1>2
  <2>4. (r + p * (c - d)) \div p = c - d
    BY <1>2, <2>3, JoinSplit
  <2> QED BY <2>2, <2>4
<1>7. (c - d) % M = (c - d) + M
  <2> DEFINE e == (c - d) + M
  <2>1. e \in 0 .. M - 1 /\ c - d = e + M * (-1)
    BY <1>1, <1>2, <1>4
  <2> HIDE DEF e
  <2>2. (e + M * (-1)) % M = e
    BY <2>1, JoinSplit
  <2> QED BY <2>1, <2>2 DEF e
<1>8. (c - d) + M = c + (M - d)
  BY <1>1, <1>2
<1> QED BY <1>4, <1>5, <1>6, <1>7, <1>8 DEF c, d

-----------------------------------------------------------------------------
(* Words and lanes *)

LEMMA ModulusNat == Modulus \in Nat \ {0} /\ Modulus % 4 = 0
<1>1. ByteMod * ByteMod \in Nat \ {0}
  BY WidthAssumption
<1>2. Modulus \in Nat \ {0}
  <2>1. Modulus = (ByteMod * ByteMod) * (ByteMod * ByteMod)
    BY WidthAssumption DEF Modulus
  <2> DEFINE Square == ByteMod * ByteMod
  <2>2. Square \in Nat \ {0}
    BY <1>1
  <2> HIDE DEF Square
  <2>3. Square * Square \in Nat \ {0}
    BY <2>2
  <2> QED BY <2>1, <2>3 DEF Square
<1>3. Modulus % 4 = 0
  <2> DEFINE M == Modulus
  <2>1. M \in Nat /\ M % (4 * WORDS) = 0 /\ WORDS \in Nat \ {0}
    BY <1>2, SizeAssumption
  <2> HIDE DEF M
  <2>2. M = (4 * WORDS) * (M \div (4 * WORDS))
    BY <2>1
  <2>3. M \div (4 * WORDS) \in Nat
    BY <2>1
  <2>4. PICK q \in Nat : M = 4 * (WORDS * q)
    BY <2>1, <2>2, <2>3
  <2>5. WORDS * q \in Nat
    BY <2>1
  <2> QED BY <2>4, <2>5 DEF M
<1> QED BY <1>2, <1>3

LEMMA TruncateType == \A v \in Int : Truncate(v) \in Word
BY ModulusNat DEF Truncate, Word

LEMMA LanesType == \A w \in Word : ToLanes(w) \in MemWord
<1> SUFFICES ASSUME NEW w \in Word PROVE ToLanes(w) \in MemWord
  OBVIOUS
<1>1. \A v \in Nat : v % ByteMod \in Byte
  BY WidthAssumption DEF Byte
<1>2. w \in Nat
  BY DEF Word
<1>3. \A n \in Nat \ {0} : w \div n \in Nat
  BY <1>2
<1>4. /\ ByteMod \in Nat \ {0} /\ ByteMod * ByteMod \in Nat \ {0}
      /\ ByteMod * ByteMod * ByteMod \in Nat \ {0}
  BY WidthAssumption
<1>5. \A i \in Lane : ToLanes(w)[i] \in Byte
  BY <1>1, <1>2, <1>3, <1>4 DEF ToLanes, Lane
<1> QED BY <1>5 DEF ToLanes, MemWord

\* One more byte below y keeps it below the next power.
LEMMA JoinBound ==
    ASSUME NEW K \in Nat, NEW x \in Byte, NEW y \in 0 .. K - 1
    PROVE  x + ByteMod * y \in 0 .. ByteMod * K - 1
<1>1. ByteMod \in Nat \ {0} /\ x \in 0 .. ByteMod - 1
  BY WidthAssumption DEF Byte
<1>2. ByteMod * y \in Nat /\ ByteMod * y <= ByteMod * (K - 1)
  BY <1>1
<1>3. ByteMod * (K - 1) = ByteMod * K - ByteMod
  BY <1>1
<1> QED BY <1>1, <1>2, <1>3

LEMMA JoinType == \A l \in MemWord : FromLanes[l] \in Word
<1> SUFFICES ASSUME NEW l \in MemWord PROVE FromLanes[l] \in Word
  OBVIOUS
<1>1. /\ l[0] \in Byte /\ l[1] \in Byte /\ l[2] \in Byte /\ l[3] \in Byte
      /\ ByteMod \in Nat \ {0}
  BY WidthAssumption DEF MemWord, Lane
<1>2. l[3] \in 0 .. ByteMod - 1
  BY <1>1 DEF Byte
<1>3. l[2] + ByteMod * l[3] \in 0 .. ByteMod * ByteMod - 1
  BY <1>1, <1>2, JoinBound
<1>4. ByteMod * ByteMod \in Nat /\ ByteMod * (ByteMod * ByteMod) \in Nat
  BY <1>1
<1>5. l[1] + ByteMod * (l[2] + ByteMod * l[3])
         \in 0 .. ByteMod * (ByteMod * ByteMod) - 1
  BY <1>1, <1>3, <1>4, JoinBound
<1>6. l[0] + ByteMod * (l[1] + ByteMod * (l[2] + ByteMod * l[3]))
         \in 0 .. ByteMod * (ByteMod * (ByteMod * ByteMod)) - 1
  BY <1>1, <1>4, <1>5, JoinBound
<1>7. ByteMod * (ByteMod * (ByteMod * ByteMod)) = Modulus
  BY <1>1 DEF Modulus
<1> QED BY <1>6, <1>7 DEF FromLanes, Word

LEMMA IndexType == \A v \in Nat : WordIndex(v) \in Index
BY SizeAssumption DEF WordIndex, Index

LEMMA WordNat == Word \subseteq Nat /\ 0 \in Word /\ 1 \in Word
<1>1. Modulus > 1
  <2>1. Modulus % 4 = 0 /\ Modulus \in Nat \ {0}
    BY ModulusNat
  <2> QED BY <2>1
<1> QED BY <1>1, ModulusNat DEF Word

-----------------------------------------------------------------------------
(* The memory *)

LEMMA PowersBelow == /\ ByteMod \in Nat \ {0, 1} /\ ByteMod < Modulus
                     /\ ByteMod * ByteMod \in Nat /\ ByteMod * ByteMod < Modulus
<1> DEFINE Square == ByteMod * ByteMod
<1>1. ByteMod \in Nat \ {0, 1}
  BY WidthAssumption
<1>2. Square \in Nat /\ Square > ByteMod
  <2>1. ByteMod * ByteMod = ByteMod + (ByteMod - 1) * ByteMod
    BY <1>1
  <2>2. (ByteMod - 1) * ByteMod \in Nat \ {0}
    BY <1>1
  <2> QED BY <1>1, <2>1, <2>2
<1>3. Modulus = Square * Square
  BY <1>1 DEF Modulus
<1> HIDE DEF Square
<1>4. Square * Square = Square + (Square - 1) * Square
  BY <1>2
<1>5. (Square - 1) * Square \in Nat \ {0}
  BY <1>1, <1>2
<1> QED BY <1>1, <1>2, <1>3, <1>4, <1>5 DEF Square

LEMMA SignExtendType ==
    ASSUME NEW m \in Nat, m < Modulus, NEW v \in 0 .. m - 1
    PROVE  SignExtend(v, m) \in Word /\ v \in Word
BY ModulusNat DEF SignExtend, Word

LEMMA LoadType ==
    ASSUME MemoryTypeOK, NEW x \in Word, NEW o PROVE d_rdata(x, o) \in Word
<1> DEFINE word == mem[WordIndex(x)]
           lane_b == word[x % 4]
           lane_h == word[half(x)] + ByteMod * word[half(x) + 1]
<1>1. word \in MemWord
  BY WordNat, IndexType DEF MemoryTypeOK
<1>2. x % 4 \in Lane /\ half(x) \in Lane /\ half(x) + 1 \in Lane
  BY WordNat DEF Lane, half
<1>3. lane_b \in 0 .. ByteMod - 1
  BY <1>1, <1>2 DEF MemWord, Byte
<1>4. lane_h \in 0 .. ByteMod * ByteMod - 1
  <2>1. word[half(x)] \in Byte /\ word[half(x) + 1] \in 0 .. ByteMod - 1
    BY <1>1, <1>2 DEF MemWord, Byte
  <2> QED BY <2>1, JoinBound, PowersBelow
<1>5. FromLanes[word] \in Word
  BY <1>1, JoinType
<1>6. SignExtend(lane_b, ByteMod) \in Word /\ lane_b \in Word
  BY <1>3, PowersBelow, SignExtendType
<1>7. SignExtend(lane_h, ByteMod * ByteMod) \in Word /\ lane_h \in Word
  BY <1>4, PowersBelow, SignExtendType
<1> HIDE DEF lane_b, lane_h, word
<1> QED BY <1>5, <1>6, <1>7 DEF d_rdata, lane_b, lane_h, word

LEMMA MergedType ==
    ASSUME NEW word \in MemWord, NEW x, NEW o, NEW w \in Word
    PROVE  merged(word, x, o, w) \in MemWord
<1>1. ToLanes(w) \in [Lane -> Byte]
  BY LanesType DEF MemWord
<1>2. \A i \in Lane : i % 2 \in Lane /\ 0 \in Lane
  BY DEF Lane
<1>3. wdata_lanes(o, w) \in [Lane -> Byte]
  BY <1>1, <1>2 DEF wdata_lanes
<1> QED BY <1>3 DEF merged, MemWord

-----------------------------------------------------------------------------
(* The datapath *)

LEMMA ShiftType ==
    ASSUME NEW x \in Word, NEW n \in 0 .. XLEN - 1
    PROVE  /\ Truncate(x * 2 ^ n) \in Word
           /\ x \div 2 ^ n \in Word
           /\ ShiftRightArithmetic(x, n) \in Word
<1> DEFINE p == 2 ^ n
<1>1. /\ p \in Nat \ {0} /\ Modulus % p = 0 /\ Modulus \in Nat \ {0}
      /\ x \in 0 .. Modulus - 1
  BY WidthAssumption, ModulusNat DEF Word
<1> HIDE DEF p
<1>2. Truncate(x * p) \in Word
  BY <1>1, TruncateType
<1>3. x \div p \in Word
  <2>1. x \in Nat
    BY <1>1
  <2>2. x \div p \in Nat /\ x \div p <= x
    BY <1>1, <2>1, DivisionFacts
  <2> DEFINE c == x \div p
  <2> HIDE DEF c
  <2>3. c \in 0 .. Modulus - 1
    BY <1>1, <2>2 DEF c
  <2> QED BY <2>3 DEF Word, c
<1>4. ShiftRightArithmetic(x, n) \in Word
  <2>1. ShiftRightArithmetic(x, n)
          = x \div p + (IF x < Modulus \div 2 THEN 0 ELSE Modulus - Modulus \div p)
    BY DEF ShiftRightArithmetic, p
  <2>2. x \div p < Modulus \div p
    BY <1>1, DivisionMonotonic
  <2>3. x \div p \in Nat /\ Modulus \div p \in Nat /\ Modulus \div p <= Modulus
    BY <1>1, DivisionFacts, x \in Nat
  <2> DEFINE c == x \div p
             d == Modulus \div p
  <2> HIDE DEF c, d
  <2>4. c \in 0 .. Modulus - 1 /\ c + (Modulus - d) \in 0 .. Modulus - 1
    BY <1>1, <2>2, <2>3 DEF c, d
  <2>5. c \in Word /\ c + (Modulus - d) \in Word /\ c + 0 \in Word
    BY <2>4, <1>1 DEF Word
  <2> QED BY <2>1, <2>5 DEF c, d
<1> QED BY <1>2, <1>3, <1>4 DEF p

LEMMA AluType ==
    ASSUME NEW x \in Word, NEW y \in Word, NEW o PROVE alu(x, y, o) \in Word
<1>1. y % XLEN \in 0 .. XLEN - 1
  BY WordNat, WidthAssumption
<1>2. x + y \in Int /\ x - y \in Int
  BY WordNat
<1>3. \A c \in BOOLEAN : Bit(c) \in Word
  BY WordNat DEF Bit
<1>4. SignedLess(x, y) \in BOOLEAN /\ (x < y) \in BOOLEAN
  BY DEF SignedLess
<1>5. /\ BitAnd(x, y) \in Word /\ BitOr(x, y) \in Word /\ BitXor(x, y) \in Word
  BY BitwiseAssumption
<1>6. Truncate(x + y) \in Word /\ Truncate(x - y) \in Word
  BY <1>2, TruncateType
<1>7. /\ Truncate(x * 2 ^ (y % XLEN)) \in Word
      /\ x \div 2 ^ (y % XLEN) \in Word
      /\ ShiftRightArithmetic(x, y % XLEN) \in Word
  BY <1>1, ShiftType
<1>8. Bit(SignedLess(x, y)) \in Word /\ Bit(x < y) \in Word
  BY <1>3, <1>4
<1> HIDE DEF Bit
<1> QED BY <1>5, <1>6, <1>7, <1>8, WordNat DEF alu

-----------------------------------------------------------------------------
(* The golden model decodes and computes as the datapath does *)

\* The golden model's copies of the shared definitions.
LEMMA SharedIsa ==
    /\ \A v : Reference!WordIndex(v) = WordIndex(v) /\ Reference!Truncate(v) = Truncate(v)
    /\ \A v : Reference!Signed(v) = Signed(v)
    /\ \A v, m : Reference!SignExtend(v, m) = SignExtend(v, m)
    /\ Reference!Opcodes = Opcodes
BY DEF Reference!WordIndex, WordIndex, Reference!Truncate, Truncate, Reference!Modulus,
       Modulus, Reference!Signed, Signed, Reference!SignExtend, SignExtend,
       Reference!Opcodes, Opcodes

LEMMA SameIllegal ==
    ASSUME NEW g \in Instruction PROVE Reference!Illegal(g) <=> illegal(g)
<1>1. g.funct3 \in 0 .. 7 /\ g.opcode \in Opcodes \cup {"UNDEFINED"}
  BY DEF Instruction
<1>2. (g.funct3 \div 4 = 1 \/ g.funct3 % 4 = 3) <=> g.funct3 > 2
  BY <1>1
<1>3. g.opcode \notin Opcodes <=> g.opcode = "UNDEFINED"
  BY <1>1 DEF Opcodes
<1> QED BY <1>1, <1>2, <1>3, SharedIsa DEF Reference!Illegal, illegal

LEMMA SameBranch ==
    ASSUME NEW o \in {0, 1, 4, 5, 6, 7}, NEW x \in Word, NEW y \in Word
    PROVE  branch_cmp(x, y, o) <=> Reference!BranchTaken(o, x, y)
<1>1. x \in Int /\ y \in Int /\ Signed(x) \in Int /\ Signed(y) \in Int
  BY WordNat, ModulusNat DEF Signed
<1>2. SignedLess(x, y) <=> Signed(x) < Signed(y)
  BY DEF SignedLess
<1>3. Signed(x) >= Signed(y) <=> ~(Signed(x) < Signed(y))
  BY <1>1
<1>4. CASE o = 0
  BY <1>4 DEF branch_cmp, Reference!BranchTaken
<1>5. CASE o = 1
  BY <1>5 DEF branch_cmp, Reference!BranchTaken
<1>6. CASE o = 4
  BY <1>2, <1>6, SharedIsa DEF branch_cmp, Reference!BranchTaken
<1>7. CASE o = 5
  BY <1>2, <1>3, <1>7, SharedIsa DEF branch_cmp, Reference!BranchTaken
<1>8. CASE o = 6
  BY <1>8 DEF branch_cmp, Reference!BranchTaken
<1>9. CASE o = 7
  BY <1>9 DEF branch_cmp, Reference!BranchTaken
<1> QED BY <1>4, <1>5, <1>6, <1>7, <1>8, <1>9

LEMMA SameShift ==
    ASSUME NEW x \in Word, NEW n \in 0 .. XLEN - 1
    PROVE  ShiftRightArithmetic(x, n) = Truncate(Signed(x) \div 2 ^ n)
<1>1. /\ 2 ^ n \in Nat \ {0} /\ Modulus % 2 ^ n = 0 /\ Modulus \in Nat \ {0}
      /\ x \in 0 .. Modulus - 1
  BY WidthAssumption, ModulusNat DEF Word
<1>2. /\ x \div 2 ^ n \in 0 .. Modulus - 1
      /\ Truncate(x \div 2 ^ n) = x \div 2 ^ n
      /\ Truncate((x - Modulus) \div 2 ^ n)
           = (x \div 2 ^ n) + (Modulus - (Modulus \div 2 ^ n))
  BY <1>1, DivisionBelow DEF Truncate
<1>3. CASE x < Modulus \div 2
  <2>1. ShiftRightArithmetic(x, n) = (x \div 2 ^ n) + 0 /\ Signed(x) = x
    BY <1>3 DEF ShiftRightArithmetic, Signed
  <2>2. (x \div 2 ^ n) + 0 = x \div 2 ^ n
    BY <1>2
  <2> QED BY <1>2, <2>1, <2>2
<1>4. CASE ~(x < Modulus \div 2)
  BY <1>2, <1>4 DEF ShiftRightArithmetic, Signed
<1> QED BY <1>3, <1>4

\* The golden model's arithmetic, by its funct3 and bit 30 of the instruction.
LEMMA SameAlu ==
    ASSUME NEW x \in Word, NEW y \in Word, NEW f3 \in 0 .. 7, NEW bit \in {0, 1},
           bit = 1 => f3 \in {0, 5}
    PROVE  alu(x, y, 8 * bit + f3) = Reference!Alu(f3, bit, x, y)
<1> USE DEF ALU_ADD, ALU_SUB, ALU_SLL, ALU_SLT, ALU_SLTU, ALU_XOR, ALU_SRL,
            ALU_SRA, ALU_OR, ALU_AND
<1>1. y % XLEN \in 0 .. XLEN - 1
  BY WordNat, WidthAssumption
<1>2. \A c : Bit(c) = Reference!Flag(c)
  BY DEF Bit, Reference!Flag
<1>3. CASE f3 = 0 /\ bit = 0
  BY <1>3, SharedIsa DEF alu, Reference!Alu
<1>4. CASE f3 = 0 /\ bit = 1
  BY <1>4, SharedIsa DEF alu, Reference!Alu
<1>5. CASE f3 = 1 /\ bit = 0
  BY <1>5, SharedIsa DEF alu, Reference!Alu
<1>6. CASE f3 = 2 /\ bit = 0
  BY <1>2, <1>6, SharedIsa DEF alu, SignedLess, Reference!Alu
<1>7. CASE f3 = 3 /\ bit = 0
  BY <1>2, <1>7 DEF alu, Reference!Alu
<1>8. CASE f3 = 4 /\ bit = 0
  BY <1>8 DEF alu, Reference!Alu
<1>9. CASE f3 = 5 /\ bit = 0
  BY <1>9 DEF alu, Reference!Alu
<1>10. CASE f3 = 5 /\ bit = 1
  <2>1. alu(x, y, 8 * bit + f3) = ShiftRightArithmetic(x, y % XLEN)
    BY <1>10 DEF alu
  <2>2. Reference!Alu(f3, bit, x, y) = Truncate(Signed(x) \div 2 ^ (y % XLEN))
    BY <1>10, SharedIsa DEF Reference!Alu
  <2> QED BY <1>1, <2>1, <2>2, SameShift
<1>11. CASE f3 = 6 /\ bit = 0
  BY <1>11 DEF alu, Reference!Alu
<1>12. CASE f3 = 7 /\ bit = 0
  BY <1>12 DEF alu, Reference!Alu
<1>13. f3 \in {0, 1, 2, 3, 4, 5, 6, 7}
  OBVIOUS
<1> QED BY <1>3, <1>4, <1>5, <1>6, <1>7, <1>8, <1>9, <1>10, <1>11, <1>12, <1>13

\* A shift uses its amount modulo the width, taken once or twice.
LEMMA ShiftAmount ==
    ASSUME NEW x, NEW y \in Word, NEW f3 \in {1, 5}, NEW bit
    PROVE  Reference!Alu(f3, bit, x, y % XLEN) = Reference!Alu(f3, bit, x, y)
<1>1. (y % XLEN) % XLEN = y % XLEN
  BY WordNat, WidthAssumption
<1>2. CASE f3 = 1
  BY <1>1, <1>2 DEF Reference!Alu
<1>3. CASE f3 = 5
  BY <1>1, <1>3 DEF Reference!Alu
<1> QED BY <1>2, <1>3

\* What a legal arithmetic instruction computes.
LEMMA SameResult ==
    ASSUME NEW g \in Instruction, g.opcode \in {"REG", "IMM"}, ~illegal(g),
           NEW x \in Word, NEW y \in Word
    PROVE  Reference!AluResult(g, x, y)
             = alu(x, IF alu_b_sel(g) = "IMM" THEN imm(g) ELSE y, alu_op(g))
<1> DEFINE bit == (g.funct7 \div 32) % 2
           n   == g.imm["I"]
<1>1. g.funct3 \in 0 .. 7 /\ g.funct7 \in 0 .. 127 /\ n \in Word
  BY DEF Instruction, ImmFormat
<1>2. bit \in {0, 1} /\ bit = funct7_5(g)
  BY <1>1 DEF funct7_5
<1>3. g.funct7 = 0 => bit = 0
  OBVIOUS
<1> HIDE DEF bit, n
<1>4. CASE g.opcode = "REG"
  <2>1. bit = 1 => g.funct3 \in {0, 5}
    BY <1>2, <1>3, <1>4 DEF illegal
  <2>2. alu_op(g) = 8 * bit + g.funct3 /\ alu_b_sel(g) = "RS2"
    BY <1>2, <1>4 DEF alu_op, alu_b_sel
  <2>3. Reference!AluResult(g, x, y) = Reference!Alu(g.funct3, bit, x, y)
    BY <1>4 DEF Reference!AluResult, bit
  <2> QED BY <1>1, <1>2, <2>1, <2>2, <2>3, SameAlu
<1>5. CASE g.opcode = "IMM"
  <2> DEFINE op30 == IF g.funct3 = 5 THEN bit ELSE 0
  <2>1. alu_op(g) = 8 * op30 + g.funct3 /\ alu_b_sel(g) = "IMM" /\ imm(g) = n
    BY <1>1, <1>2, <1>5 DEF alu_op, alu_b_sel, imm, imm_sel, n
  <2>2. Reference!AluResult(g, x, y)
          = Reference!Alu(g.funct3, op30, x, IF g.funct3 \in {1, 5} THEN n % XLEN ELSE n)
    BY <1>5 DEF Reference!AluResult, bit, n
  <2>3. Reference!AluResult(g, x, y) = Reference!Alu(g.funct3, op30, x, n)
    BY <1>1, <2>2, ShiftAmount
  <2>4. op30 \in {0, 1} /\ (op30 = 1 => g.funct3 \in {0, 5})
    BY <1>2
  <2>5. alu(x, n, 8 * op30 + g.funct3) = Reference!Alu(g.funct3, op30, x, n)
    BY <1>1, <2>4, SameAlu
  <2> QED BY <2>1, <2>3, <2>5
<1> QED BY <1>4, <1>5

-----------------------------------------------------------------------------
(* The golden model takes words apart as the memory does *)

\* Taking a word apart gives back the lanes it was put together from.
LEMMA LanesOfJoin ==
    ASSUME NEW l \in MemWord
    PROVE  LET W == FromLanes[l]
               low == l[0] + ByteMod * l[1]
               high == l[2] + ByteMod * l[3]
           IN /\ W = low + (ByteMod * ByteMod) * high
              /\ low \in 0 .. ByteMod * ByteMod - 1 /\ high \in 0 .. ByteMod * ByteMod - 1
              /\ W % ByteMod = l[0] /\ (W \div ByteMod) % ByteMod = l[1]
              /\ (W \div (ByteMod * ByteMod)) % ByteMod = l[2]
              /\ (W \div (ByteMod * ByteMod * ByteMod)) % ByteMod = l[3]
              /\ W % (ByteMod * ByteMod) = low
              /\ (W \div (ByteMod * ByteMod)) % (ByteMod * ByteMod) = high
<1> DEFINE W == FromLanes[l]
           low == l[0] + ByteMod * l[1]
           high == l[2] + ByteMod * l[3]
           B == ByteMod
           S == ByteMod * ByteMod
<1>1. /\ B \in Nat \ {0} /\ S \in Nat \ {0} /\ S = B * B
      /\ l[0] \in 0 .. B - 1 /\ l[1] \in 0 .. B - 1 /\ l[2] \in 0 .. B - 1 /\ l[3] \in 0 .. B - 1
  BY WidthAssumption DEF MemWord, Lane, Byte
<1>2. low \in 0 .. S - 1 /\ high \in 0 .. S - 1
  <2>1. l[0] \in Byte /\ l[2] \in Byte
    BY <1>1 DEF Byte
  <2> QED BY <1>1, <2>1, JoinBound
<1>3. W = l[0] + B * (l[1] + B * high)
  BY DEF FromLanes
<1>4. W = low + S * high
  <2> HIDE DEF W, S, B
  <2>1. B * (l[1] + B * high) = B * l[1] + B * (B * high)
    <3> HIDE DEF high
    <3> QED BY <1>1, <1>2
  <2>2. B * (B * high) = S * high
    <3> HIDE DEF high
    <3> QED BY <1>1, <1>2
  <2>3. low = l[0] + B * l[1] /\ B * l[1] \in Int /\ S * high \in Int
    BY <1>1, <1>2 DEF B
  <2> QED BY <1>1, <1>3, <2>1, <2>2, <2>3
<1>5. W \in Nat
  BY JoinType, WordNat
<1> HIDE DEF W, low, high, B, S
<1>6. W % S = low /\ W \div S = high
  <2>1. S \in Nat \ {0} /\ low \in 0 .. S - 1 /\ high \in Int
    BY <1>1, <1>2
  <2>2. (low + S * high) % S = low /\ (low + S * high) \div S = high
    BY <2>1, JoinSplit
  <2> QED BY <1>4, <2>2
<1>7. W % B = l[0] /\ W \div B = l[1] + B * high
  <2>1. l[1] + B * high \in Int
    BY <1>1, <1>2
  <2> QED BY <1>1, <1>3, <2>1, JoinSplit
<1>8. (l[1] + B * high) % B = l[1]
  <2>1. high \in Int
    BY <1>2
  <2> QED BY <1>1, <2>1, JoinSplit
<1>9. high % B = l[2] /\ high \div B = l[3]
  <2>1. high = l[2] + B * l[3]
    BY DEF high, B
  <2>2. l[3] \in Int
    BY <1>1
  <2>3. (l[2] + B * l[3]) % B = l[2] /\ (l[2] + B * l[3]) \div B = l[3]
    BY <1>1, <2>2, JoinSplit
  <2> QED BY <2>1, <2>3
<1>10. W \div (S * B) = l[3]
  BY <1>1, <1>5, <1>6, <1>9, DivideTwice
<1>11. l[3] % B = l[3] /\ high % S = high
  BY <1>1, <1>2
<1> QED BY <1>2, <1>4, <1>6, <1>7, <1>8, <1>9, <1>10, <1>11 DEF W, low, high, B, S

\* The golden model's slices of a word are its lanes and its halves.
LEMMA Slices ==
    ASSUME NEW l \in MemWord
    PROVE  /\ \A k \in Lane : Reference!Slice(FromLanes[l], k, ByteMod) = l[k]
           /\ \A k \in {0, 2} : Reference!Slice(FromLanes[l], k, ByteMod * ByteMod)
                                  = l[k] + ByteMod * l[k + 1]
<1>1. FromLanes[l] \in Nat
  BY JoinType, WordNat
<1>2. FromLanes[l] \div 1 = FromLanes[l]
  BY <1>1
<1>3. /\ Reference!Shift(0) = 1 /\ Reference!Shift(1) = ByteMod
      /\ Reference!Shift(2) = ByteMod * ByteMod
      /\ Reference!Shift(3) = ByteMod * ByteMod * ByteMod
  BY DEF Reference!Shift
<1>4. ASSUME NEW k \in Lane PROVE Reference!Slice(FromLanes[l], k, ByteMod) = l[k]
  <2>1. k \in {0, 1, 2, 3}
    BY DEF Lane
  <2> QED BY <1>2, <1>3, <2>1, LanesOfJoin DEF Reference!Slice
<1>5. ASSUME NEW k \in {0, 2}
      PROVE  Reference!Slice(FromLanes[l], k, ByteMod * ByteMod) = l[k] + ByteMod * l[k + 1]
  BY <1>2, <1>3, LanesOfJoin DEF Reference!Slice
<1> QED BY <1>4, <1>5

\* A word put together from its own lanes.
LEMMA JoinOfLanes == ASSUME NEW w \in Word PROVE FromLanes[ToLanes(w)] = w
<1> DEFINE B == ByteMod
           S == ByteMod * ByteMod
           q1 == w \div B
           q2 == w \div (B * B)
           q3 == w \div (B * B * B)
<1>1. B \in Nat \ {0} /\ w \in Nat /\ B * B \in Nat \ {0} /\ B * B * B \in Nat \ {0}
  BY WidthAssumption, WordNat
<1>2. q2 = q1 \div B /\ q3 = q2 \div B
  BY <1>1, DivideTwice
<1>3. /\ q1 \in Nat /\ w = B * q1 + (w % B)
      /\ q2 \in Nat /\ q1 = B * q2 + (q1 % B)
      /\ q3 \in Nat /\ q2 = B * q3 + (q2 % B)
  BY <1>1, <1>2, DivisionFacts
<1>4. q3 \in 0 .. B - 1
  <2>1. Modulus % (B * B * B) = 0 /\ Modulus \div (B * B * B) = B
    <3> DEFINE C == B * B * B
    <3>1. Modulus = 0 + C * B /\ C \in Nat \ {0}
      BY <1>1 DEF Modulus
    <3> HIDE DEF C
    <3>2. 0 \in 0 .. C - 1 /\ B \in Int
      BY <1>1, <3>1
    <3>3. (0 + C * B) % C = 0 /\ (0 + C * B) \div C = B
      BY <3>1, <3>2, JoinSplit
    <3> QED BY <3>1, <3>3 DEF C
  <2>2. w \in 0 .. Modulus - 1 /\ Modulus \in Nat
    BY ModulusNat DEF Word
  <2>3. q3 < B
    BY <1>1, <2>1, <2>2, DivisionMonotonic
  <2> QED BY <1>1, <1>3, <2>3
<1>5. q3 % B = q3
  <2> HIDE DEF q3
  <2> QED BY <1>1, <1>4
<1>6. ToLanes(w) \in MemWord
  BY LanesType
<1>7. /\ ToLanes(w)[0] = w % B /\ ToLanes(w)[1] = q1 % B
      /\ ToLanes(w)[2] = q2 % B /\ ToLanes(w)[3] = q3 % B
  BY DEF ToLanes, Lane
<1>8. FromLanes[ToLanes(w)]
        = (w % B) + B * ((q1 % B) + B * ((q2 % B) + B * (q3 % B)))
  BY <1>6, <1>7 DEF FromLanes
<1>9. /\ (q2 % B) + B * q3 = q2 /\ (q1 % B) + B * q2 = q1 /\ (w % B) + B * q1 = w
  <2> HIDE DEF q1, q2, q3, B
  <2>1. (w % B) \in Int /\ (q1 % B) \in Int /\ (q2 % B) \in Int
        /\ B * q1 \in Int /\ B * q2 \in Int /\ B * q3 \in Int
    BY <1>1, <1>3
  <2> QED BY <1>3, <2>1
<1> QED BY <1>5, <1>8, <1>9

\* A word as the sum of its lanes.
LEMMA JoinSum ==
    ASSUME NEW l \in MemWord
    PROVE  FromLanes[l] = l[0] + l[1] * Reference!Shift(1) + l[2] * Reference!Shift(2)
                               + l[3] * Reference!Shift(3)
<1> DEFINE B == ByteMod
<1>1. B \in Int /\ l[0] \in Int /\ l[1] \in Int /\ l[2] \in Int /\ l[3] \in Int
  BY WidthAssumption DEF MemWord, Lane, Byte
<1>2. /\ Reference!Shift(1) = B /\ Reference!Shift(2) = B * B /\ Reference!Shift(3) = B * B * B
      /\ FromLanes[l] = l[0] + B * (l[1] + B * (l[2] + B * l[3]))
  BY DEF Reference!Shift, FromLanes
<1> DEFINE x == l[1]
           y == l[2]
           z == l[3]
<1>3. x \in Int /\ y \in Int /\ z \in Int
  BY <1>1
<1> HIDE DEF B, x, y, z
<1>4. B * (x + B * (y + B * z)) = x * B + (y * (B * B) + z * (B * B * B))
  <2>1. B * (y + B * z) = B * y + B * (B * z)
    BY <1>1, <1>3
  <2>2. B * (x + (B * y + B * (B * z))) = B * x + (B * (B * y) + B * (B * (B * z)))
    BY <1>1, <1>3
  <2>3. B * (B * y) = y * (B * B) /\ B * (B * (B * z)) = z * (B * B * B) /\ B * x = x * B
    BY <1>1, <1>3
  <2> QED BY <2>1, <2>2, <2>3
<1>5. x * B \in Int /\ y * (B * B) \in Int /\ z * (B * B * B) \in Int
  BY <1>1, <1>3
<1> QED BY <1>1, <1>2, <1>4, <1>5 DEF x, y, z

\* Replacing a lane adds the difference at its place.
LEMMA ReplaceLane ==
    ASSUME NEW l \in MemWord, NEW k \in Lane, NEW v \in Byte
    PROVE  FromLanes[[l EXCEPT ![k] = v]]
             = FromLanes[l] + (v - l[k]) * Reference!Shift(k)
<1> DEFINE m == [l EXCEPT ![k] = v]
           p1 == Reference!Shift(1)
           p2 == Reference!Shift(2)
           p3 == Reference!Shift(3)
<1>1. m \in MemWord /\ k \in {0, 1, 2, 3} /\ \A i \in Lane : m[i] = IF i = k THEN v ELSE l[i]
  BY DEF MemWord, Lane
<1>2. /\ FromLanes[m] = m[0] + m[1] * p1 + m[2] * p2 + m[3] * p3
      /\ FromLanes[l] = l[0] + l[1] * p1 + l[2] * p2 + l[3] * p3
  BY <1>1, JoinSum
<1>3. /\ l[0] \in Int /\ l[1] \in Int /\ l[2] \in Int /\ l[3] \in Int /\ v \in Int
      /\ p1 \in Int /\ p2 \in Int /\ p3 \in Int /\ Reference!Shift(0) = 1
  BY WidthAssumption DEF MemWord, Lane, Byte, Reference!Shift
<1> DEFINE c1 == l[1] * p1
           c2 == l[2] * p2
           c3 == l[3] * p3
<1>4. c1 \in Int /\ c2 \in Int /\ c3 \in Int
  BY <1>3
<1>5. /\ (v - l[1]) * p1 = v * p1 - c1 /\ v * p1 \in Int
      /\ (v - l[2]) * p2 = v * p2 - c2 /\ v * p2 \in Int
      /\ (v - l[3]) * p3 = v * p3 - c3 /\ v * p3 \in Int
      /\ (v - l[0]) * 1 = v - l[0]
  BY <1>3
<1> HIDE DEF c1, c2, c3, m, p1, p2, p3
<1>6. FromLanes[l] = l[0] + c1 + c2 + c3
  BY <1>2 DEF c1, c2, c3
<1>7. /\ k = 0 => FromLanes[m] = v + c1 + c2 + c3
      /\ k = 1 => FromLanes[m] = l[0] + v * p1 + c2 + c3
      /\ k = 2 => FromLanes[m] = l[0] + c1 + v * p2 + c3
      /\ k = 3 => FromLanes[m] = l[0] + c1 + c2 + v * p3
  <2>1. 0 \in Lane /\ 1 \in Lane /\ 2 \in Lane /\ 3 \in Lane
    BY DEF Lane
  <2> QED BY <1>1, <1>2, <2>1 DEF c1, c2, c3
<1>8. CASE k = 0
  BY <1>3, <1>4, <1>5, <1>6, <1>7, <1>8 DEF m
<1>9. CASE k = 1
  BY <1>3, <1>4, <1>5, <1>6, <1>7, <1>9 DEF m, p1
<1>10. CASE k = 2
  BY <1>3, <1>4, <1>5, <1>6, <1>7, <1>10 DEF m, p2
<1>11. CASE k = 3
  BY <1>3, <1>4, <1>5, <1>6, <1>7, <1>11 DEF m, p3
<1> QED BY <1>1, <1>8, <1>9, <1>10, <1>11

LEMMA SameHalf ==
    ASSUME NEW x \in Nat
    PROVE  Reference!HalfOffset(x) = half(x) /\ half(x) \in {0, 2}
BY DEF Reference!HalfOffset, half

\* The load path takes its value out of the word as the golden model does.
LEMMA LoadSlices ==
    ASSUME MemoryTypeOK, NEW at \in Nat, NEW o
    PROVE  LET word   == FromLanes[mem[WordIndex(at)]]
               lane_b == Reference!Slice(word, at % 4, ByteMod)
               lane_h == Reference!Slice(word, Reference!HalfOffset(at), ByteMod * ByteMod)
           IN d_rdata(at, o) = CASE o = 0 -> SignExtend(lane_b, ByteMod)
                                 [] o = 1 -> SignExtend(lane_h, ByteMod * ByteMod)
                                 [] o = 4 -> lane_b
                                 [] o = 5 -> lane_h
                                 [] OTHER -> word
<1> DEFINE l == mem[WordIndex(at)]
           h == half(at)
<1>1. l \in MemWord
  BY IndexType DEF MemoryTypeOK
<1>2. at % 4 \in Lane /\ h \in {0, 2} /\ Reference!HalfOffset(at) = h
  BY SameHalf DEF Lane
<1>3. /\ Reference!Slice(FromLanes[l], at % 4, ByteMod) = l[at % 4]
      /\ Reference!Slice(FromLanes[l], h, ByteMod * ByteMod) = l[h] + ByteMod * l[h + 1]
  BY <1>1, <1>2, Slices
<1> QED BY <1>2, <1>3 DEF d_rdata

\* Both refuse the same accesses.
LEMMA SameMisaligned ==
    ASSUME NEW at \in Nat, NEW o PROVE Reference!Misaligned(o, at) <=> unaligned(at, o)
BY DEF Reference!Misaligned, unaligned

\* Replicated data under byte enables replace the golden model's slice.
LEMMA SameMerge ==
    ASSUME NEW l \in MemWord, NEW at \in Nat, NEW o, NEW w \in Word
    PROVE  FromLanes[merged(l, at, o, w)]
             = CASE o = 0 -> Reference!Splice(FromLanes[l], at % 4, ByteMod, w)
                 [] o = 1 -> Reference!Splice(FromLanes[l], half(at), ByteMod * ByteMod, w)
                 [] OTHER  -> w
<1> DEFINE v == ToLanes(w)
           k == at % 4
           h == half(at)
<1>1. k \in Lane /\ h \in {0, 2}
  BY SameHalf DEF Lane
<1>2. v \in MemWord /\ v[0] \in Byte /\ v[1] \in Byte /\ v[0] = w % ByteMod
  BY LanesType DEF MemWord, Lane, ToLanes
<1>3. CASE o = 0
  <2>1. merged(l, at, o, w) = [l EXCEPT ![k] = v[0]]
    <3>1. \A i \in Lane : merged(l, at, o, w)[i] = IF i = k THEN v[0] ELSE l[i]
      BY <1>3 DEF merged, byte_en, wdata_lanes
    <3>2. merged(l, at, o, w) = [i \in Lane |-> merged(l, at, o, w)[i]]
      BY DEF merged
    <3> QED BY <3>1, <3>2 DEF MemWord
  <2>2. FromLanes[merged(l, at, o, w)]
          = FromLanes[l] + (v[0] - l[k]) * Reference!Shift(k)
    <3> HIDE DEF k, v
    <3>1. FromLanes[[l EXCEPT ![k] = v[0]]]
            = FromLanes[l] + (v[0] - l[k]) * Reference!Shift(k)
      BY <1>1, <1>2, ReplaceLane
    <3> QED BY <2>1, <3>1
  <2>3. Reference!Slice(FromLanes[l], k, ByteMod) = l[k]
    BY <1>1, Slices
  <2> HIDE DEF k, v
  <2> QED BY <1>2, <1>3, <2>2, <2>3 DEF Reference!Splice, k
<1>4. CASE o = 1
  <2> DEFINE m == [l EXCEPT ![h] = v[0]]
             n == [m EXCEPT ![h + 1] = v[1]]
  <2>1. h \in Lane /\ h + 1 \in Lane /\ h + 1 # h /\ h % 2 = 0 /\ (h + 1) % 2 = 1
    BY <1>1 DEF Lane
  <2>2. m \in MemWord /\ m[h + 1] = l[h + 1]
    BY <1>2, <2>1 DEF MemWord
  <2>3. merged(l, at, o, w) = n
    <3>1. \A i \in Lane : merged(l, at, o, w)[i]
                            = IF i = h THEN v[0] ELSE IF i = h + 1 THEN v[1] ELSE l[i]
      BY <1>4, <2>1 DEF merged, byte_en, wdata_lanes
    <3>2. merged(l, at, o, w) = [i \in Lane |-> merged(l, at, o, w)[i]]
      BY DEF merged
    <3>3. n = [i \in Lane |-> IF i = h THEN v[0] ELSE IF i = h + 1 THEN v[1] ELSE l[i]]
      BY <2>1 DEF MemWord
    <3> QED BY <3>1, <3>2, <3>3
  <2>4. FromLanes[n] = FromLanes[m] + (v[1] - l[h + 1]) * Reference!Shift(h + 1)
    <3> DEFINE g == h + 1
    <3>1. g \in Lane /\ m[g] = l[g]
      BY <2>1, <2>2
    <3> HIDE DEF g, m, v
    <3>2. FromLanes[[m EXCEPT ![g] = v[1]]] = FromLanes[m] + (v[1] - m[g]) * Reference!Shift(g)
      BY <1>2, <2>2, <3>1, ReplaceLane
    <3> QED BY <3>1, <3>2 DEF g
  <2>5. FromLanes[m] = FromLanes[l] + (v[0] - l[h]) * Reference!Shift(h)
    BY <1>2, <2>1, ReplaceLane
  <2>6. w % (ByteMod * ByteMod) = v[0] + ByteMod * v[1]
    BY <1>2, JoinOfLanes, LanesOfJoin
  <2>7. Reference!Slice(FromLanes[l], h, ByteMod * ByteMod) = l[h] + ByteMod * l[h + 1]
    BY <1>1, Slices
  <2>8. Reference!Shift(h + 1) = ByteMod * Reference!Shift(h) /\ Reference!Shift(h) \in Int
    BY <1>1, WidthAssumption DEF Reference!Shift
  <2> DEFINE B  == ByteMod
             s  == Reference!Shift(h)
             d0 == v[0] - l[h]
             d1 == v[1] - l[h + 1]
             W  == FromLanes[l]
  <2>9. /\ B \in Int /\ s \in Int /\ d0 \in Int /\ d1 \in Int /\ W \in Int
        /\ v[0] \in Int /\ v[1] \in Int /\ l[h] \in Int /\ l[h + 1] \in Int
    <3>1. l[h] \in Byte /\ l[h + 1] \in Byte
      BY <2>1 DEF MemWord
    <3>2. Byte \subseteq Int
      BY DEF Byte
    <3>3. W \in Nat /\ B \in Nat
      <4>1. W \in Nat
        BY JoinType, WordNat
      <4>2. B \in Nat
        BY WidthAssumption
      <4> QED BY <4>1, <4>2
    <3>4. v[0] \in Int /\ v[1] \in Int /\ l[h] \in Int /\ l[h + 1] \in Int
      BY <1>2, <3>1, <3>2
    <3>5. d0 \in Int /\ d1 \in Int
      <4> HIDE DEF v, h
      <4> QED BY <3>4
    <3>6. s \in Int
      BY <2>8
    <3> HIDE DEF B, s, d0, d1, W, v, h
    <3> QED BY <3>3, <3>4, <3>5, <3>6
  <2>10. (v[0] + B * v[1]) - (l[h] + B * l[h + 1]) = d0 + B * d1
    <3>1. B * (v[1] - l[h + 1]) = B * v[1] - B * l[h + 1]
      BY <2>9
    <3>2. B * v[1] \in Int /\ B * l[h + 1] \in Int
      BY <2>9
    <3> HIDE DEF B
    <3> QED BY <2>9, <3>1, <3>2
  <2> HIDE DEF B, s, d0, d1, W
  <2>11. (W + d0 * s) + d1 * (B * s) = W + (d0 + B * d1) * s
    <3>1. (d0 + B * d1) * s = d0 * s + (B * d1) * s /\ (B * d1) * s = d1 * (B * s)
      BY <2>9
    <3>2. d0 * s \in Int /\ d1 * (B * s) \in Int
      BY <2>9
    <3> QED BY <2>9, <3>1, <3>2
  <2>12. FromLanes[n] = (W + d0 * s) + d1 * (B * s)
    BY <2>4, <2>5, <2>8 DEF W, d0, d1, s, B
  <2>13. Reference!Splice(FromLanes[l], h, ByteMod * ByteMod, w) = W + (d0 + B * d1) * s
    BY <2>6, <2>7, <2>10 DEF Reference!Splice, W, s, B
  <2> HIDE DEF n
  <2>14. FromLanes[merged(l, at, o, w)]
           = Reference!Splice(FromLanes[l], half(at), ByteMod * ByteMod, w)
    BY <2>3, <2>11, <2>12, <2>13
  <2> QED BY <1>4, <2>14
<1>5. CASE o \notin {0, 1}
  <2>1. merged(l, at, o, w) = v
    BY <1>2, <1>5 DEF merged, byte_en, wdata_lanes, MemWord
  <2> QED BY <1>5, <2>1, JoinOfLanes
<1> QED BY <1>3, <1>4, <1>5
=============================================================================
