---------------------------- MODULE MCUnitTests ----------------------------
(* 4-bit words (1-bit bytes): every operand pair, every shift amount; two  *)
(* words of memory, whose addresses run twice round the array.             *)
EXTENDS UnitTests, Bitwise

MCBitAnd(x, y) == x & y
MCBitOr(x, y)  == x | y
MCBitXor(x, y) == x ^^ y
\* No instruction is fetched here.
MCFields(w)    == [opcode |-> "UNDEFINED", funct3 |-> 0, funct7 |-> 0,
                   sys |-> "other", rd |-> 0, rs1 |-> 0, rs2 |-> 0,
                   imm |-> [x \in ImmFormat |-> 0]]
=============================================================================
