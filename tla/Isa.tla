-------------------------------- MODULE Isa --------------------------------
(***************************************************************************)
(* What the RTL (src/rtl) and the golden model (src/verif/iss.py) share:   *)
(* the machine word and the shape of an instruction.  Neither the decoder  *)
(* nor the execution of either side is defined here.                       *)
(*                                                                         *)
(* The width is a parameter.  The code has ByteMod = 256, XLEN = 32,       *)
(* NREGS = 32; the models that TLC checks use the same four-byte words     *)
(* with narrower bytes.  An instruction is a word; Fields(w) is what       *)
(* slicing w gives: its opcode, funct3, funct7, register numbers and the   *)
(* immediate of each of the five formats, already sign-extended.           *)
(***************************************************************************)
EXTENDS Integers

CONSTANTS
    ByteMod,        \* number of values of a byte
    XLEN,           \* number of bits of a word
    WORDS,          \* number of words of the memory array
    NREGS,          \* number of registers, x0 included
    Fields(_),      \* Fields(w): the fields of the instruction word w
    BitAnd(_, _), BitOr(_, _), BitXor(_, _)

Modulus == ByteMod * ByteMod * ByteMod * ByteMod
Word    == 0 .. Modulus - 1
Byte    == 0 .. ByteMod - 1
Lane    == 0 .. 3
MemWord == [Lane -> Byte]
Index   == 0 .. WORDS - 1
Reg     == 0 .. NREGS - 1

Opcodes == {"LUI", "AUIPC", "JAL", "JALR", "BRANCH", "LOAD", "STORE",
            "IMM", "REG", "MISC_MEM", "SYSTEM"}

ImmFormat == {"I", "S", "B", "U", "J"}

Instruction ==
    [opcode : Opcodes \cup {"UNDEFINED"},   \* inst[6:0]
     funct3 : 0 .. 7, funct7 : 0 .. 127,    \* inst[14:12], inst[31:25]
     sys    : {"ecall", "ebreak", "other"}, \* which of the words 0x73, 0x100073
     rd : Reg, rs1 : Reg, rs2 : Reg,
     imm : [ImmFormat -> Word]]             \* the immediate in each format

HALT_NONE           == 0
HALT_ECALL          == 1
HALT_EBREAK         == 2
HALT_ILLEGAL        == 3
HALT_MEM_MISALIGN   == 4
HALT_FETCH_MISALIGN == 5
HaltCause == HALT_NONE .. HALT_FETCH_MISALIGN

ASSUME WidthAssumption ==
    /\ ByteMod \in Nat \ {0, 1} /\ XLEN \in Nat \ {0}
    /\ Modulus = 2 ^ XLEN
    /\ \A n \in 0 .. XLEN - 1 : 2 ^ n \in Nat \ {0} /\ Modulus % 2 ^ n = 0

\* memory.sv:11 asks for a power of two; that the array holds a whole number
\* of words and divides the address space is all that is used here.
ASSUME SizeAssumption ==
    /\ WORDS \in Nat \ {0} /\ NREGS \in Nat \ {0}
    /\ Modulus % (4 * WORDS) = 0

\* Immediates of branches and jumps have no bit 0.
ASSUME FieldsAssumption ==
    \A w \in Word : /\ Fields(w) \in Instruction
                    /\ Fields(w).imm["B"] % 2 = 0 /\ Fields(w).imm["J"] % 2 = 0

ASSUME BitwiseAssumption ==
    \A a, b \in Word : /\ BitAnd(a, b) \in Word
                       /\ BitOr(a, b) \in Word
                       /\ BitXor(a, b) \in Word

-----------------------------------------------------------------------------
(* Words *)

Truncate(v) == v % Modulus

\* The value of w read as two's complement.
Signed(w) == IF w < Modulus \div 2 THEN w ELSE w - Modulus

\* Widen v, a value of m < Modulus possible ones, repeating its top bit.
SignExtend(v, m) == IF v < m \div 2 THEN v ELSE v + Modulus - m

\* A word as its four bytes, least significant first, and back.
ToLanes(w) ==
    [i \in Lane |->
        CASE i = 0 -> w % ByteMod
          [] i = 1 -> (w \div ByteMod) % ByteMod
          [] i = 2 -> (w \div (ByteMod * ByteMod)) % ByteMod
          [] i = 3 -> (w \div (ByteMod * ByteMod * ByteMod)) % ByteMod]

FromLanes == [l \in MemWord |->
    l[0] + ByteMod * (l[1] + ByteMod * (l[2] + ByteMod * l[3]))]

\* Only the low bits of an address select the word: addresses wrap.
WordIndex(addr) == (addr \div 4) % WORDS
=============================================================================
