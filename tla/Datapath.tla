------------------------------ MODULE Datapath ------------------------------
(***************************************************************************)
(* src/rtl/alu.sv and src/rtl/branch_cmp.sv: the combinational datapath.   *)
(***************************************************************************)
EXTENDS Decoder

Bit(b) == IF b THEN 1 ELSE 0

SignedLess_Unsigned(a, b) == a < b              \* mutant of SignedLess
SignedLess(a, b) == Signed(a) < Signed(b)

ShiftRightLogical(a, n) == a \div 2 ^ n          \* mutant of ShiftRightArithmetic

\* a >>> n for a signed a: the vacated high bits repeat the sign.
ShiftRightArithmetic(a, n) ==
    a \div 2 ^ n + (IF a < Modulus \div 2 THEN 0
                    ELSE Modulus - Modulus \div 2 ^ n)

\* Shifts use only the low bits of b (b[4:0] of the 32-bit core).
alu(a, b, op) ==
    LET shamt == b % XLEN
    IN CASE op = ALU_ADD  -> Truncate(a + b)
         [] op = ALU_SUB  -> Truncate(a - b)
         [] op = ALU_SLL  -> Truncate(a * 2 ^ shamt)
         [] op = ALU_SLT  -> Bit(SignedLess(a, b))
         [] op = ALU_SLTU -> Bit(a < b)
         [] op = ALU_XOR  -> BitXor(a, b)
         [] op = ALU_SRL  -> a \div 2 ^ shamt
         [] op = ALU_SRA  -> ShiftRightArithmetic(a, shamt)
         [] op = ALU_OR   -> BitOr(a, b)
         [] op = ALU_AND  -> BitAnd(a, b)
         [] OTHER         -> 0

branch_cmp(a, b, funct3) ==
    CASE funct3 = 0 -> a = b
      [] funct3 = 1 -> a # b
      [] funct3 = 4 -> SignedLess(a, b)
      [] funct3 = 5 -> ~SignedLess(a, b)
      [] funct3 = 6 -> a <  b
      [] funct3 = 7 -> a >= b
      [] OTHER      -> FALSE
=============================================================================
