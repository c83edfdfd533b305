------------------------------ MODULE Encoding ------------------------------
(***************************************************************************)
(* The 32 bits of an instruction word: how src/verif/isa.py joins fields   *)
(* into one, and how the RTL (decoder.sv, imm_gen.sv) and the golden model *)
(* (iss.py) take it apart.  This is what the parameter Fields of Isa       *)
(* stands for, at the real width.                                          *)
(***************************************************************************)
EXTENDS Integers, Sequences

Bits == 0 .. 31
InstWord == [Bits -> {0, 1}]

\* The low 32 bits of the integer n, in two's complement; |n| < 2^31.
ToBits(n) ==
    [i \in Bits |-> IF i = 31 THEN (IF n < 0 THEN 1 ELSE 0) ELSE (n \div 2^i) % 2]

\* w[hi:lo], most significant bit first, and the number such bits are.
Part(w, hi, lo) == [k \in 1 .. hi - lo + 1 |-> w[hi + 1 - k]]
Number(s) ==
    LET value[n \in 0 .. Len(s)] == IF n = 0 THEN 0 ELSE 2 * value[n - 1] + s[n]
    IN  value[Len(s)]

\* The word whose bits, most significant first, are s: a concatenation.
Concat(s) == [i \in Bits |-> s[32 - i]]
Repeat(n, b) == [k \in 1 .. n |-> b]

Opcode == [LUI    |-> 55, AUIPC |-> 23, JAL   |-> 111, JALR     |-> 103,
           BRANCH |-> 99, LOAD  |-> 3,  STORE |-> 35,  IMM      |-> 19,
           REG    |-> 51, MISC_MEM |-> 15, SYSTEM |-> 115]

Formats == {"I", "S", "B", "U", "J"}

-----------------------------------------------------------------------------
(* isa.py: fields to a word *)

\* n << k, and the bitwise or of a set of words.
Shl(n, k) == [i \in Bits |-> IF i < k THEN 0 ELSE ToBits(n)[i - k]]
Or(words) == [i \in Bits |-> IF \E w \in words : w[i] = 1 THEN 1 ELSE 0]

r_type(funct7, rs2, rs1, funct3, rd, opcode) ==
    Or({Shl(funct7, 25), Shl(rs2, 20), Shl(rs1, 15), Shl(funct3, 12),
        Shl(rd, 7), ToBits(opcode)})

i_type(imm, rs1, funct3, rd, opcode) ==
    Or({Shl(imm % 2^12, 20), Shl(rs1, 15), Shl(funct3, 12), Shl(rd, 7), ToBits(opcode)})

s_type(imm, rs2, rs1, funct3, opcode) ==
    Or({Shl((imm % 2^12) \div 2^5, 25), Shl(rs2, 20), Shl(rs1, 15), Shl(funct3, 12),
        Shl(imm % 2^5, 7), ToBits(opcode)})

b_type_Swapped(imm, rs2, rs1, funct3, opcode) ==        \* mutant of b_type
    Or({Shl((imm \div 2^11) % 2, 31), Shl((imm \div 2^5) % 2^6, 25), Shl(rs2, 20),
        Shl(rs1, 15), Shl(funct3, 12), Shl((imm \div 2) % 2^4, 8),
        Shl((imm \div 2^12) % 2, 7), ToBits(opcode)})

b_type(imm, rs2, rs1, funct3, opcode) ==
    Or({Shl((imm \div 2^12) % 2, 31), Shl((imm \div 2^5) % 2^6, 25), Shl(rs2, 20),
        Shl(rs1, 15), Shl(funct3, 12), Shl((imm \div 2) % 2^4, 8),
        Shl((imm \div 2^11) % 2, 7), ToBits(opcode)})

u_type(imm, rd, opcode) == Or({Shl(imm % 2^20, 12), Shl(rd, 7), ToBits(opcode)})

j_type(imm, rd, opcode) ==
    Or({Shl((imm \div 2^20) % 2, 31), Shl((imm \div 2) % 2^10, 21),
        Shl((imm \div 2^11) % 2, 20), Shl((imm \div 2^12) % 2^8, 12),
        Shl(rd, 7), ToBits(opcode)})

-----------------------------------------------------------------------------
(* A word to its fields; decoder.sv, core.sv and iss.py slice alike *)

fields(w) ==
    [opcode |-> Number(Part(w, 6, 0)),   rd  |-> Number(Part(w, 11, 7)),
     funct3 |-> Number(Part(w, 14, 12)), rs1 |-> Number(Part(w, 19, 15)),
     rs2    |-> Number(Part(w, 24, 20)), funct7 |-> Number(Part(w, 31, 25))]

is_ecall(w)  == Part(w, 31, 7) = Repeat(25, 0)
is_ebreak(w) == Part(w, 31, 20) = Repeat(11, 0) \o <<1>> /\ Part(w, 19, 7) = Repeat(13, 0)

-----------------------------------------------------------------------------
(* imm_gen.sv: the immediate is a concatenation of the word's bits *)

imm_B_Rotated(w) ==                                     \* mutant of imm_B
    Repeat(20, w[31]) \o <<w[7]>> \o Part(w, 30, 25) \o <<0>> \o Part(w, 11, 8)
imm_B(w) ==
    Repeat(19, w[31]) \o <<w[31], w[7]>> \o Part(w, 30, 25) \o Part(w, 11, 8) \o <<0>>
imm_J(w) ==
    Repeat(11, w[31]) \o <<w[31]>> \o Part(w, 19, 12) \o <<w[20]>>
    \o Part(w, 30, 21) \o <<0>>

imm_gen(w, imm_sel) ==
    Concat(CASE imm_sel = "I" -> Repeat(20, w[31]) \o Part(w, 31, 20)
             [] imm_sel = "S" -> Repeat(20, w[31]) \o Part(w, 31, 25) \o Part(w, 11, 7)
             [] imm_sel = "B" -> imm_B(w)
             [] imm_sel = "U" -> Part(w, 31, 12) \o Repeat(12, 0)
             [] imm_sel = "J" -> imm_J(w))

-----------------------------------------------------------------------------
(* iss.py: the immediate is the value of shifted bit fields, sign-extended *)

bits(w, hi, lo) == Number(Part(w, hi, lo))
to_signed(v, width) == IF v >= 2^(width - 1) THEN v - 2^width ELSE v

iss_imm(w, fmt) ==
    CASE fmt = "I" -> ToBits(to_signed(bits(w, 31, 20), 12))
      [] fmt = "S" -> ToBits(to_signed(bits(w, 31, 25) * 2^5 + bits(w, 11, 7), 12))
      [] fmt = "B" -> ToBits(to_signed(bits(w, 31, 31) * 2^12 + bits(w, 7, 7) * 2^11
                                       + bits(w, 30, 25) * 2^5 + bits(w, 11, 8) * 2, 13))
      [] fmt = "U" -> Shl(bits(w, 31, 12), 12)
      [] fmt = "J" -> ToBits(to_signed(bits(w, 31, 31) * 2^20 + bits(w, 19, 12) * 2^12
                                       + bits(w, 20, 20) * 2^11 + bits(w, 30, 21) * 2, 21))
=============================================================================
