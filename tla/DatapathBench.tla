--------------------------- MODULE DatapathBench ---------------------------
(***************************************************************************)
(* Decoder, ALU and branch comparator on their own (verif/unit/            *)
(* tb_decoder.py, tb_alu.py, tb_branch_cmp.py), driven with every operand  *)
(* pair and every opcode, funct3 and interesting funct7.  Each test bench  *)
(* has a reference of its own, independent of the golden model's decode    *)
(* and arithmetic: three descriptions of one instruction set.              *)
(***************************************************************************)
EXTENDS Datapath

CONSTANT Funct7s        \* the values of funct7 to drive
ASSUME Funct7sAssumption == Funct7s \subseteq 0 .. 127

VARIABLES f, a, b       \* the stimulus: an instruction and two register values
datapathVars == <<f, a, b>>

\* Only operators of constant level are taken from the golden model.
Golden == INSTANCE Iss WITH mem <- <<>>, regs <- <<>>, pc <- 0,
                            halted <- FALSE, halt_cause <- 0, Programs <- {}

Stimulus(op, f3, f7, s) ==
    [opcode |-> op, funct3 |-> f3, funct7 |-> f7, sys |-> s,
     rd |-> 0, rs1 |-> 0, rs2 |-> 0, imm |-> [x \in ImmFormat |-> b]]

DatapathIdle == a = 0 /\ b = 0 /\ f = Stimulus("UNDEFINED", 0, 0, "other")

DatapathInit ==
    /\ a \in Word
    /\ b \in Word
    /\ \E op \in Opcodes \cup {"UNDEFINED"}, f3 \in 0 .. 7, f7 \in Funct7s,
          s \in {"ecall", "ebreak", "other"} :
            (op # "SYSTEM" => s = "other") /\ f = Stimulus(op, f3, f7, s)

\* The next stimulus: another operand.
DatapathNext ==
    /\ a' = Truncate(a + 1)
    /\ b' = Truncate(b + 3)
    /\ f' = [f EXCEPT !.imm = [x \in ImmFormat |-> b']]

-----------------------------------------------------------------------------
(* The references of the test benches *)

\* tb_decoder.py: the control signals, as updates of what most instructions have.
update(c, u) == [p \in DOMAIN c |-> IF p \in DOMAIN u THEN u[p] ELSE c[p]]

ref_bit30(i) == (i.funct7 \div 32) % 2
Defaults(i) ==
    [alu_op |-> ALU_ADD, alu_a_sel |-> "RS1", alu_b_sel |-> "IMM", imm_sel |-> "I",
     reg_write |-> FALSE, wb_sel |-> "ALU", mem_read |-> FALSE, mem_write |-> FALSE,
     mem_op |-> i.funct3, branch |-> FALSE, jump |-> FALSE, jalr |-> FALSE,
     ecall |-> FALSE, ebreak |-> FALSE, illegal |-> FALSE]

Refused == [illegal |-> TRUE]
Muted == [reg_write |-> FALSE, mem_read |-> FALSE, mem_write |-> FALSE, branch |-> FALSE,
          jump |-> FALSE, jalr |-> FALSE, ecall |-> FALSE, ebreak |-> FALSE]

ref_update(i) ==
    CASE i.opcode = "LUI"   -> [alu_a_sel |-> "ZERO", imm_sel |-> "U", reg_write |-> TRUE]
      [] i.opcode = "AUIPC" -> [alu_a_sel |-> "PC", imm_sel |-> "U", reg_write |-> TRUE]
      [] i.opcode = "JAL"   -> [imm_sel |-> "J", reg_write |-> TRUE, wb_sel |-> "PC4",
                                jump |-> TRUE]
      [] i.opcode = "JALR"  -> IF i.funct3 # 0 THEN Refused
                               ELSE [reg_write |-> TRUE, wb_sel |-> "PC4", jalr |-> TRUE]
      [] i.opcode = "BRANCH" -> [imm_sel |-> "B", illegal |-> i.funct3 \in {2, 3},
                                 branch |-> i.funct3 \notin {2, 3}]
      [] i.opcode = "LOAD"  -> IF i.funct3 \in {3, 6, 7} THEN Refused
                               ELSE [reg_write |-> TRUE, wb_sel |-> "MEM", mem_read |-> TRUE]
      [] i.opcode = "STORE" -> [imm_sel |-> "S", illegal |-> i.funct3 > 2,
                                mem_write |-> i.funct3 <= 2]
      [] i.opcode = "IMM"   ->
             [reg_write |-> TRUE,
              alu_op |-> IF i.funct3 = 5 THEN ref_bit30(i) * 8 + i.funct3 ELSE i.funct3,
              illegal |-> \/ i.funct3 = 1 /\ i.funct7 # 0
                          \/ i.funct3 = 5 /\ i.funct7 \notin {0, 32}]
      [] i.opcode = "REG"   ->
             [alu_b_sel |-> "RS2", reg_write |-> TRUE, alu_op |-> ref_bit30(i) * 8 + i.funct3,
              illegal |-> i.funct7 # 0 /\ ~(i.funct7 = 32 /\ i.funct3 \in {0, 5})]
      [] i.opcode = "MISC_MEM" -> [illegal |-> i.funct3 # 0]
      [] i.opcode = "SYSTEM"   -> CASE i.sys = "ecall"  -> [ecall |-> TRUE]
                                    [] i.sys = "ebreak" -> [ebreak |-> TRUE]
                                    [] OTHER            -> Refused
      [] OTHER -> Refused

ref_decode(i) == LET c == update(Defaults(i), ref_update(i))
                 IN IF c.illegal THEN update(c, Muted) ELSE c

\* tb_alu.py and isa.py: the ALU's operations by name.
ALU_OPS == [ADD |-> 0, SLL |-> 1, SLT |-> 2, SLTU |-> 3, XOR |-> 4, SRL |-> 5,
            OR |-> 6, AND |-> 7, SUB |-> 8, SRA |-> 13]
ref_alu(op, x, y) ==
    CASE op = "ADD"  -> Truncate(x + y)
      [] op = "SUB"  -> Truncate(x - y)
      [] op = "SLL"  -> Truncate(x * 2 ^ (y % XLEN))
      [] op = "SLT"  -> IF Signed(x) < Signed(y) THEN 1 ELSE 0
      [] op = "SLTU" -> IF x < y THEN 1 ELSE 0
      [] op = "XOR"  -> BitXor(x, y)
      [] op = "SRL"  -> x \div 2 ^ (y % XLEN)
      [] op = "SRA"  -> Truncate(Signed(x) \div 2 ^ (y % XLEN))
      [] op = "OR"   -> BitOr(x, y)
      [] op = "AND"  -> BitAnd(x, y)

\* tb_branch_cmp.py: funct3 2 and 3 are no branches and are never taken.
ref_branch(funct3, x, y) ==
    CASE funct3 = 0 -> x = y
      [] funct3 = 1 -> x # y
      [] funct3 = 4 -> Signed(x) < Signed(y)
      [] funct3 = 5 -> Signed(x) >= Signed(y)
      [] funct3 = 6 -> x < y
      [] funct3 = 7 -> x >= y
      [] OTHER      -> FALSE

\* The decoder's ports, as check() of tb_decoder.py reads them.
PORTS(i) ==
    [alu_op |-> alu_op(i), alu_a_sel |-> alu_a_sel(i), alu_b_sel |-> alu_b_sel(i),
     imm_sel |-> imm_sel(i), reg_write |-> reg_write(i), wb_sel |-> wb_sel(i),
     mem_read |-> mem_read(i), mem_write |-> mem_write(i), mem_op |-> mem_op(i),
     branch |-> branch(i), jump |-> jump(i), jalr |-> jalr(i),
     ecall |-> ecall(i), ebreak |-> ebreak(i), illegal |-> illegal(i)]

-----------------------------------------------------------------------------
\* The decoder, the test bench's reference and the golden model refuse the same
\* instructions, and every port of the decoder has the reference's value, an
\* illegal instruction's selects included (decoder.sv:140, tb_decoder.py:92).
DecodeAgrees == /\ PORTS(f) = ref_decode(f)
                /\ illegal(f) <=> Golden!Illegal(f)

\* Every legal arithmetic instruction computes what the golden model computes,
\* for all operands: the operation select, the operand select, truncation,
\* signed comparison and the sign of arithmetic shifts; and every operation
\* what tb_alu.py expects, an undefined one zero.
ExecuteAgrees ==
    /\ f.opcode \in {"REG", "IMM"} /\ ~illegal(f) =>
        alu(a, IF alu_b_sel(f) = "IMM" THEN imm(f) ELSE b, alu_op(f))
            = Golden!AluResult(f, a, b)
    /\ \A op \in DOMAIN ALU_OPS : alu(a, b, ALU_OPS[op]) = ref_alu(op, a, b)
    /\ \A n \in 0 .. 15 : (\A op \in DOMAIN ALU_OPS : ALU_OPS[op] # n) => alu(a, b, n) = 0

\* Every legal branch is taken on the same operands, in the golden model and in
\* tb_branch_cmp.py, and no other funct3 ever is.
BranchAgrees ==
    /\ branch(f) => (branch_cmp(a, b, f.funct3) <=> Golden!BranchTaken(f.funct3, a, b))
    /\ branch_cmp(a, b, f.funct3) <=> ref_branch(f.funct3, a, b)
=============================================================================
