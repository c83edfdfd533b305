------------------------------ MODULE RandGen ------------------------------
(***************************************************************************)
(* src/verif/randgen.py: constrained-random programs.  A random choice is  *)
(* any value the generator can draw; what it appends is a word whose       *)
(* fields have the drawn values.                                           *)
(***************************************************************************)
EXTENDS Isa, Sequences

CONSTANTS
    DATA_BASE, DATA_SIZE,   \* the data region, in bytes
    DATA_REG,               \* x31 of the code
    body_len                \* words between the prologue and the final ECALL

prologue == 2
EndOfProgram == (prologue + body_len) * 4       \* the address of the final ECALL

\* The program, zeros after it and the data region fit the memory without overlap.
ASSUME LayoutAssumption ==
    /\ body_len \in Nat \ {0}
    /\ DATA_BASE \in Nat /\ DATA_SIZE \in Nat
    /\ DATA_BASE % 4 = 0 /\ EndOfProgram + 4 <= DATA_BASE
    /\ DATA_BASE + DATA_SIZE <= 4 * WORDS
    /\ DATA_REG \in Reg \ {0}

SAFE_REGS  == Reg \ {0, DATA_REG}
Operand    == Reg \ {DATA_REG}                  \* SAFE_REGS + [0]
ALU_IMM_F3 == {0, 2, 3, 4, 6, 7}
BRANCH_F3  == {0, 1, 4, 5, 6, 7}
LOAD_F3    == {0, 1, 2, 4, 5}
STORE_F3   == {0, 1, 2}

\* The alignment an access of each funct3 needs.
align(funct3) == CASE funct3 \in {0, 4} -> 1 [] funct3 \in {1, 5} -> 2 [] OTHER -> 4

aligned_offset_Any(n, a) == n \in 0 .. DATA_SIZE - 1        \* mutant of aligned_offset
aligned_offset(n, a) == n \in 0 .. DATA_SIZE - 1 /\ n % a = 0

-----------------------------------------------------------------------------
(* What each kind may append at address at *)

alu_imm_word(i) ==
    i.opcode = "IMM" /\ i.funct3 \in ALU_IMM_F3 /\ i.rd \in SAFE_REGS /\ i.rs1 \in Operand

alu_reg_word(i) ==
    /\ i.opcode = "REG" /\ i.rd \in SAFE_REGS /\ i.rs1 \in Operand /\ i.rs2 \in Operand
    /\ i.funct7 \in IF i.funct3 \in {0, 5} THEN {0, 32} ELSE {0}

shift_word(i) ==
    /\ i.opcode = "IMM" /\ i.rd \in SAFE_REGS /\ i.rs1 \in Operand
    /\ i.funct3 \in {1, 5} /\ i.funct7 \in IF i.funct3 = 5 THEN {0, 32} ELSE {0}

load_word(i) ==
    /\ i.opcode = "LOAD" /\ i.rd \in SAFE_REGS /\ i.rs1 = DATA_REG
    /\ i.funct3 \in LOAD_F3 /\ aligned_offset(i.imm["I"], align(i.funct3))

store_word(i) ==
    /\ i.opcode = "STORE" /\ i.rs1 = DATA_REG /\ i.rs2 \in Operand
    /\ i.funct3 \in STORE_F3 /\ aligned_offset(i.imm["S"], align(i.funct3))

\* A target inside the body, backwards too.
branch_word(i, at) ==
    /\ i.opcode = "BRANCH" /\ i.funct3 \in BRANCH_F3
    /\ i.rs1 \in Operand /\ i.rs2 \in Operand
    /\ \E n \in prologue .. prologue + body_len - 1 : i.imm["B"] = Truncate(4 * n - at)

lui_word(i)   == i.opcode = "LUI" /\ i.rd \in SAFE_REGS
auipc_word(i) == i.opcode = "AUIPC" /\ i.rd \in SAFE_REGS

\* Forward only, so it cannot spin on itself; the final ECALL is a target.
jal_word(i, at) ==
    /\ i.opcode = "JAL" /\ i.rd \in SAFE_REGS
    /\ \E n \in prologue .. prologue + body_len : 4 * n > at /\ i.imm["J"] = Truncate(4 * n - at)

body_word(i, at) ==
    \/ alu_imm_word(i) \/ alu_reg_word(i) \/ shift_word(i)
    \/ load_word(i) \/ store_word(i)
    \/ branch_word(i, at) \/ jal_word(i, at)
    \/ lui_word(i) \/ auipc_word(i)

\* The prologue: LUI and ADDI leave DATA_BASE in the data register.
upper_word(i) == i.opcode = "LUI" /\ i.rd = DATA_REG
prologue_words(i, j) ==
    /\ upper_word(i)
    /\ j.opcode = "IMM" /\ j.funct3 = 0 /\ j.rd = DATA_REG /\ j.rs1 = DATA_REG
    /\ Truncate(i.imm["U"] + j.imm["I"]) = DATA_BASE

ecall_word(i) == i.opcode = "SYSTEM" /\ i.sys = "ecall"

-----------------------------------------------------------------------------
\* The next word of a program, by its fields: what the generator may append to
\* the words so far.
drawn(words, i) ==
    CASE Len(words) = 0 -> upper_word(i)
      [] Len(words) = 1 -> prologue_words(Fields(words[1]), i)
      [] Len(words) \in prologue .. prologue + body_len - 1 -> body_word(i, 4 * Len(words))
      [] OTHER -> ecall_word(i)

\* The memory a program of the generator fills.
random_program ==
    {m \in [Index -> Word] :
        /\ prologue_words(Fields(m[0]), Fields(m[1]))
        /\ \A k \in prologue .. prologue + body_len - 1 : body_word(Fields(m[k]), 4 * k)
        /\ ecall_word(Fields(m[prologue + body_len]))
        /\ \A k \in Index : k > prologue + body_len => m[k] = 0}
=============================================================================
