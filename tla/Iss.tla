-------------------------------- MODULE Iss --------------------------------
(***************************************************************************)
(* src/verif/iss.py: the golden model.  The variables are the attributes   *)
(* of an Iss object; Step is one call of step(), Construct replaces the    *)
(* object by a new one.  Memory words are integers here, as in Python, and *)
(* nothing of the RTL's decoder or datapath is used.                       *)
(***************************************************************************)
EXTENDS Isa

CONSTANT Programs       \* the memories a new Iss object may have: functions [Index -> Word]

VARIABLES mem, regs, pc, halted, halt_cause
vars == <<mem, regs, pc, halted, halt_cause>>

-----------------------------------------------------------------------------
(* Memory *)

Misaligned(funct3, addr) ==
    IF funct3 \in {1, 5} THEN addr % 2 = 1 ELSE funct3 = 2 /\ addr % 4 # 0

\* 1 << (8 * k) of the code.
Shift(k) == CASE k = 0 -> 1        [] k = 1 -> ByteMod
              [] k = 2 -> ByteMod * ByteMod
              [] k = 3 -> ByteMod * ByteMod * ByteMod

\* The `size` values from byte k of a word on, and the word with them replaced.
Slice(word, k, size) == (word \div Shift(k)) % size
Splice(word, k, size, value) ==
    word + ((value % size) - Slice(word, k, size)) * Shift(k)

HalfOffset(addr) == IF addr % 4 \in {2, 3} THEN 2 ELSE 0

Load(funct3, addr) ==
    LET word   == mem[WordIndex(addr)]
        lane_b == Slice(word, addr % 4, ByteMod)
        lane_h == Slice(word, HalfOffset(addr), ByteMod * ByteMod)
    IN CASE funct3 = 0 -> SignExtend(lane_b, ByteMod)
         [] funct3 = 1 -> SignExtend(lane_h, ByteMod * ByteMod)
         [] funct3 = 4 -> lane_b
         [] funct3 = 5 -> lane_h
         [] OTHER      -> word

Store(funct3, addr, value) ==
    LET index == WordIndex(addr)
        word  == mem[index]
    IN [mem EXCEPT ![index] =
          CASE funct3 = 0 -> Splice(word, addr % 4, ByteMod, value)
            [] funct3 = 1 -> Splice(word, HalfOffset(addr),
                                    ByteMod * ByteMod, value)
            [] OTHER      -> value]

-----------------------------------------------------------------------------
(* Execution *)

Flag(b) == IF b THEN 1 ELSE 0

Alu(funct3, funct7_bit5, a, b) ==
    LET shamt == b % XLEN
    IN CASE funct3 = 0 -> Truncate(IF funct7_bit5 = 1 THEN a - b ELSE a + b)
         [] funct3 = 1 -> Truncate(a * 2 ^ shamt)
         [] funct3 = 2 -> Flag(Signed(a) < Signed(b))
         [] funct3 = 3 -> Flag(a < b)
         [] funct3 = 4 -> BitXor(a, b)
         [] funct3 = 5 -> IF funct7_bit5 = 1
                          THEN Truncate(Signed(a) \div 2 ^ shamt)
                          ELSE a \div 2 ^ shamt
         [] funct3 = 6 -> BitOr(a, b)
         [] OTHER      -> BitAnd(a, b)

BranchTaken(funct3, a, b) ==
    CASE funct3 = 0 -> a = b
      [] funct3 = 1 -> a # b
      [] funct3 = 4 -> Signed(a) <  Signed(b)
      [] funct3 = 5 -> Signed(a) >= Signed(b)
      [] funct3 = 6 -> a <  b
      [] OTHER      -> a >= b

\* The instructions step() refuses, and the value an arithmetic one computes:
\* b is the second register for REG; IMM takes bits 24:20 for a shift.
Illegal(f) ==
    \/ f.opcode \notin Opcodes
    \/ f.opcode \in {"JALR", "MISC_MEM"} /\ f.funct3 # 0
    \/ f.opcode = "BRANCH" /\ f.funct3 \in {2, 3}
    \/ f.opcode = "LOAD" /\ f.funct3 \in {3, 6, 7}
    \/ f.opcode = "STORE" /\ f.funct3 > 2
    \/ f.opcode = "IMM" /\ f.funct3 = 1 /\ f.funct7 # 0
    \/ f.opcode = "IMM" /\ f.funct3 = 5 /\ f.funct7 \notin {0, 32}
    \/ f.opcode = "REG" /\ f.funct7 # 0 /\ ~(f.funct7 = 32 /\ f.funct3 \in {0, 5})
    \/ f.opcode = "SYSTEM" /\ f.sys = "other"

AluResult(f, a, b) ==
    LET bit5 == (f.funct7 \div 32) % 2
    IN IF f.opcode = "REG" THEN Alu(f.funct3, bit5, a, b)
       ELSE Alu(f.funct3, IF f.funct3 = 5 THEN bit5 ELSE 0, a,
                IF f.funct3 \in {1, 5} THEN f.imm["I"] % XLEN ELSE f.imm["I"])

\* step() up to its commit: what the instruction at pc would do.
inst   == mem[WordIndex(pc)]
fields == Fields(inst)
opcode == fields.opcode
funct3 == fields.funct3
a      == regs[fields.rs1]
b      == regs[fields.rs2]

mem_addr == CASE opcode = "LOAD"  -> Truncate(a + fields.imm["I"])
              [] opcode = "STORE" -> Truncate(a + fields.imm["S"])
              [] OTHER            -> 0

next_pc ==
    CASE opcode = "JAL"  -> Truncate(pc + fields.imm["J"])
      [] opcode = "JALR" -> LET t == a + fields.imm["I"] IN Truncate(t - (t % 2))
      [] opcode = "BRANCH" /\ BranchTaken(funct3, a, b)
                         -> Truncate(pc + fields.imm["B"])
      [] OTHER           -> Truncate(pc + 4)

\* rd_value is left None by branches, stores and FENCE.
has_rd_value == opcode \notin {"BRANCH", "STORE", "MISC_MEM"}

rd_value ==
    CASE opcode = "LUI"             -> fields.imm["U"]
      [] opcode = "AUIPC"           -> Truncate(pc + fields.imm["U"])
      [] opcode \in {"JAL", "JALR"} -> Truncate(pc + 4)
      [] opcode = "LOAD"            -> Load(funct3, mem_addr)
      [] opcode \in {"REG", "IMM"}  -> AluResult(fields, a, b)

\* The cause of the Trap that step() raises, HALT_NONE when it raises none.
Cause ==
    IF Illegal(fields) THEN HALT_ILLEGAL
    ELSE IF opcode = "SYSTEM"
    THEN IF fields.sys = "ecall" THEN HALT_ECALL ELSE HALT_EBREAK
    ELSE IF opcode \in {"LOAD", "STORE"} /\ Misaligned(funct3, mem_addr)
    THEN HALT_MEM_MISALIGN
    ELSE IF next_pc % 4 # 0 THEN HALT_FETCH_MISALIGN ELSE HALT_NONE

\* The Commit that step() returns when it raises no Trap.
Commit ==
    [pc        |-> pc,
     inst      |-> inst,
     next_pc   |-> next_pc,
     rd        |-> IF has_rd_value THEN fields.rd ELSE 0,
     rd_wdata  |-> IF has_rd_value /\ fields.rd # 0 THEN rd_value ELSE 0,
     mem_write |-> opcode = "STORE",
     mem_addr  |-> mem_addr,
     mem_wdata |-> IF opcode = "STORE" THEN b ELSE 0]

-----------------------------------------------------------------------------
Retire ==
    /\ ~halted
    /\ Cause = HALT_NONE
    /\ mem' = IF opcode = "STORE" THEN Store(funct3, mem_addr, b) ELSE mem
    /\ regs' = IF has_rd_value /\ fields.rd # 0
               THEN [regs EXCEPT ![fields.rd] = rd_value] ELSE regs
    /\ pc' = next_pc
    /\ UNCHANGED <<halted, halt_cause>>

Trap ==
    /\ ~halted
    /\ Cause # HALT_NONE
    /\ halted' = TRUE
    /\ halt_cause' = Cause
    /\ UNCHANGED <<mem, regs, pc>>

\* step() returns None at once when the object has halted.
Halted == halted /\ UNCHANGED vars

Step == Retire \/ Trap \/ Halted

Construct ==
    /\ mem' \in Programs
    /\ regs' = [r \in Reg |-> 0]
    /\ pc' = 0
    /\ halted' = FALSE
    /\ halt_cause' = HALT_NONE

Init ==
    /\ mem \in Programs
    /\ regs = [r \in Reg |-> 0]
    /\ pc = 0
    /\ halted = FALSE
    /\ halt_cause = HALT_NONE

Next == Step \/ Construct

Spec == Init /\ [][Next]_vars
=============================================================================
