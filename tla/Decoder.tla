------------------------------ MODULE Decoder ------------------------------
(***************************************************************************)
(* src/rtl/decoder.sv and src/rtl/imm_gen.sv: the control signals of an    *)
(* instruction, one operator per output.  f is what the fields of the      *)
(* instruction word are (Isa!Instruction).                                 *)
(***************************************************************************)
EXTENDS Isa

\* The ALU operation is {funct7[5], funct3}.
ALU_ADD  == 0
ALU_SLL  == 1
ALU_SLT  == 2
ALU_SLTU == 3
ALU_XOR  == 4
ALU_SRL  == 5
ALU_OR   == 6
ALU_AND  == 7
ALU_SUB  == 8
ALU_SRA  == 13

funct7_5_Zero(f) == 0                           \* mutant of funct7_5
funct7_5(f) == (f.funct7 \div 32) % 2

illegal(f) ==
    \/ f.opcode = "UNDEFINED"
    \/ f.opcode \in {"JALR", "MISC_MEM"} /\ f.funct3 # 0
    \/ f.opcode = "BRANCH" /\ f.funct3 \in {2, 3}
    \/ f.opcode = "LOAD"   /\ f.funct3 \in {3, 6, 7}
    \/ f.opcode = "STORE"  /\ (f.funct3 \div 4 = 1 \/ f.funct3 % 4 = 3)
    \/ f.opcode = "IMM"    /\ \/ f.funct3 = 1 /\ f.funct7 # 0
                              \/ f.funct3 = 5 /\ f.funct7 \notin {0, 32}
    \/ f.opcode = "REG"    /\ f.funct7 # 0
                           /\ ~(f.funct7 = 32 /\ f.funct3 \in {0, 5})
    \/ f.opcode = "SYSTEM" /\ f.sys = "other"

\* The signals an illegal instruction mutes.
reg_write(f) == ~illegal(f) /\ f.opcode \in {"LUI", "AUIPC", "JAL", "JALR",
                                             "LOAD", "IMM", "REG"}
mem_read(f)  == ~illegal(f) /\ f.opcode = "LOAD"
mem_write_Unmuted(f) == f.opcode = "STORE"      \* mutant of mem_write
mem_write(f) == ~illegal(f) /\ f.opcode = "STORE"
branch(f)    == ~illegal(f) /\ f.opcode = "BRANCH"
jump(f)      == ~illegal(f) /\ f.opcode = "JAL"
jalr(f)      == ~illegal(f) /\ f.opcode = "JALR"
ecall(f)     == ~illegal(f) /\ f.opcode = "SYSTEM" /\ f.sys = "ecall"
ebreak(f)    == ~illegal(f) /\ f.opcode = "SYSTEM" /\ f.sys = "ebreak"

\* The selects, which keep their value for an illegal instruction.
alu_op(f) ==
    IF f.opcode = "REG" \/ (f.opcode = "IMM" /\ f.funct3 = 5)
    THEN 8 * funct7_5(f) + f.funct3
    ELSE IF f.opcode = "IMM" THEN f.funct3 ELSE ALU_ADD

alu_a_sel(f) == CASE f.opcode = "LUI"   -> "ZERO"
                  [] f.opcode = "AUIPC" -> "PC"
                  [] OTHER              -> "RS1"
alu_b_sel(f) == IF f.opcode = "REG" THEN "RS2" ELSE "IMM"

wb_sel(f) == CASE f.opcode \in {"JAL", "JALR"} /\ ~illegal(f) -> "PC4"
               [] f.opcode = "LOAD" /\ ~illegal(f)            -> "MEM"
               [] OTHER                                       -> "ALU"

mem_op(f) == f.funct3

\* imm_sel, and the immediate imm_gen.sv assembles for it.
imm_sel(f) == CASE f.opcode \in {"LUI", "AUIPC"} -> "U"
                [] f.opcode = "JAL"              -> "J"
                [] f.opcode = "BRANCH"           -> "B"
                [] f.opcode = "STORE"            -> "S"
                [] OTHER                         -> "I"

imm(f) == f.imm[imm_sel(f)]
=============================================================================
