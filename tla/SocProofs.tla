----------------------------- MODULE SocProofs -----------------------------
(***************************************************************************)
(* The core for every word width, memory size, register count, program and *)
(* instruction encoding that the assumptions of Isa allow.  Its second     *)
(* half: the core implements the golden model.  Its datapath computes the  *)
(* golden model's values, its byte lanes hold the golden model's words,    *)
(* and each clock edge is a step of the golden model, a reset or nothing.  *)
(***************************************************************************)
EXTENDS SocProperties, WordProofs

-----------------------------------------------------------------------------
(* The signals of a cycle *)

\* What the fetched word decodes to, and the types of every data signal.
LEMMA SignalTypes ==
    ASSUME TypeOK
    PROVE  /\ inst \in Word /\ f \in Instruction
           /\ rs1_data \in Word /\ rs2_data \in Word /\ imm(f) \in Word
           /\ alu_y \in Word /\ pc_plus4 \in Word /\ pc_next \in Word
           /\ wb_data \in Word
<1>1. inst \in Word
  BY WordNat, IndexType, JoinType DEF inst, i_rdata, TypeOK, MemoryTypeOK
<1>2. f \in Instruction
  BY <1>1, FieldsAssumption DEF f
<1>3. f.rs1 \in Reg /\ f.rs2 \in Reg /\ f.imm \in [ImmFormat -> Word]
  BY <1>2 DEF Instruction
<1>4. rs1_data \in Word /\ rs2_data \in Word
  BY <1>3, WordNat DEF rs1_data, rs2_data, TypeOK
<1>5. imm(f) \in Word
  BY <1>3 DEF imm, imm_sel, ImmFormat
<1>6. alu_a \in Word /\ alu_b \in Word
  BY <1>4, <1>5, WordNat DEF alu_a, alu_b, TypeOK
<1>7. alu_y \in Word
  BY <1>6, AluType DEF alu_y
<1>8. pc_plus4 \in Word /\ Truncate(pc + imm(f)) \in Word
  <2>1. pc \in Nat /\ imm(f) \in Nat
    BY <1>5, WordNat DEF TypeOK
  <2>2. pc + 4 \in Int /\ pc + imm(f) \in Int
    BY <2>1
  <2> QED BY <2>2, TruncateType DEF pc_plus4
<1>9. alu_y - (alu_y % 2) \in Word
  <2> DEFINE y == alu_y
  <2>1. y \in 0 .. Modulus - 1
    BY <1>7 DEF Word
  <2> HIDE DEF y
  <2>2. y - (y % 2) \in 0 .. Modulus - 1
    BY <2>1, ModulusNat
  <2> QED BY <2>2 DEF y, Word
<1>10. pc_next \in Word
  BY <1>8, <1>9 DEF pc_next
<1>11. d_rdata(d_addr, d_op) \in Word
  BY <1>7, LoadType DEF d_addr, TypeOK
<1>12. wb_data \in Word
  BY <1>7, <1>8, <1>11 DEF wb_data
<1> QED BY <1>1, <1>2, <1>4, <1>5, <1>7, <1>8, <1>10, <1>12

-----------------------------------------------------------------------------
(* Types *)

LEMMA ClockTypes == TypeOK /\ [Next]_vars => TypeOK'
<1> SUFFICES ASSUME TypeOK, [Next]_vars PROVE TypeOK'
  OBVIOUS
<1>1. CASE UNCHANGED vars
  BY <1>1 DEF vars, arch, TypeOK, MemoryTypeOK
<1>2. CASE Next
  <2> USE <1>2 DEF Next, Clock
  <2>1. pc' \in Word
    BY SignalTypes, WordNat DEF PcEdge, RESET_PC, TypeOK
  <2>2. regs' \in [Reg -> Word]
    <3>1. [r \in Reg |-> 0] \in [Reg -> Word]
      BY WordNat
    <3>2. [regs EXCEPT ![f.rd] = wb_data] \in [Reg -> Word]
      BY SignalTypes DEF TypeOK
    <3> QED BY <3>1, <3>2 DEF RegfileEdge, TypeOK
  <2>3. MemoryTypeOK'
    <3> DEFINE i == WordIndex(d_addr)
               m == merged(mem[i], d_addr, d_op, d_wdata)
    <3>1. i \in Index
      BY SignalTypes, WordNat, IndexType DEF d_addr
    <3>2. mem \in [Index -> MemWord] /\ mem[i] \in MemWord
      BY <3>1 DEF TypeOK, MemoryTypeOK
    <3>3. m \in MemWord
      BY <3>2, SignalTypes, MergedType DEF d_wdata
    <3>4. mem' = mem \/ mem' = [mem EXCEPT ![i] = m]
      BY DEF MemoryEdge
    <3> HIDE DEF m, i
    <3> QED BY <3>1, <3>2, <3>3, <3>4 DEF MemoryTypeOK
  <2>4. halted' \in BOOLEAN
    BY DEF HaltEdge, TypeOK
  <2>5. halt_cause' \in HaltCause
    <3>1. trap_cause \in HaltCause /\ HALT_NONE \in HaltCause
      BY DEF trap_cause, HaltCause, HALT_NONE, HALT_ECALL, HALT_EBREAK,
             HALT_ILLEGAL, HALT_MEM_MISALIGN, HALT_FETCH_MISALIGN
    <3> QED BY <3>1 DEF HaltEdge, TypeOK
  <2>6. rst' \in BOOLEAN /\ step_en' \in BOOLEAN
    BY DEF Inputs
  <2> QED BY <2>1, <2>2, <2>3, <2>4, <2>5, <2>6 DEF TypeOK
<1> QED BY <1>1, <1>2

\* Every element of the machine's state keeps its type, for every program.
THEOREM TypeCorrect == Spec => []TypeOK
<1>1. Init => TypeOK
  <2> SUFFICES ASSUME Init PROVE TypeOK
    OBVIOUS
  <2>1. pc \in Word /\ regs \in [Reg -> Word]
    BY WordNat DEF Init
  <2>2. MemoryTypeOK
    BY ProgramsAssumption DEF Init, MemoryTypeOK
  <2>3. halt_cause \in HaltCause
    BY DEF Init, HaltCause, HALT_NONE, HALT_FETCH_MISALIGN
  <2>4. halted \in BOOLEAN /\ rst \in BOOLEAN /\ step_en \in BOOLEAN
    BY DEF Init
  <2> QED BY <2>1, <2>2, <2>3, <2>4 DEF TypeOK
<1> QED BY <1>1, ClockTypes, PTL DEF Spec

-----------------------------------------------------------------------------
(* x0 and word alignment *)

\* Addresses that wrap stay on a word boundary.
LEMMA TruncateAligned == \A v \in Nat : v % 4 = 0 => Truncate(v) % 4 = 0
<1> SUFFICES ASSUME NEW v \in Nat, v % 4 = 0 PROVE (v % Modulus) % 4 = 0
  BY DEF Truncate
<1> DEFINE M == Modulus
           q == v \div M
           r == v % M
<1>1. PICK k \in Nat : M = 4 * k
  BY ModulusNat
<1>2. q \in Nat /\ r \in Nat /\ v = M * q + r
  BY ModulusNat, DivisionFacts
<1> HIDE DEF q, r, M
<1>3. M * q = 4 * (k * q) /\ k * q \in Nat
  BY <1>1, <1>2
<1>4. r = v - 4 * (k * q)
  BY <1>2, <1>3
<1>5. r % 4 = 0
  <2> DEFINE z == k * q
  <2>1. z \in Nat /\ r = v - 4 * z
    BY <1>3, <1>4
  <2> HIDE DEF z
  <2> QED BY <2>1, <1>2
<1> QED BY <1>5 DEF r, M

LEMMA WellFormedStep == TypeOK /\ WellFormed /\ [Next]_vars => WellFormed'
<1> SUFFICES ASSUME TypeOK, WellFormed, [Next]_vars PROVE WellFormed'
  OBVIOUS
<1>1. CASE UNCHANGED vars
  BY <1>1 DEF vars, arch, WellFormed
<1>2. CASE Next
  <2> USE <1>2 DEF Next, Clock
  <2>1. regs'[0] = 0
    <3>1. 0 \in Reg
      BY SizeAssumption DEF Reg
    <3> QED BY <3>1 DEF RegfileEdge, WellFormed, TypeOK
  <2>2. ASSUME ~rst, ~stall PROVE pc_next % 4 = 0
    <3>1. ~halted /\ ~trap
      BY <2>2 DEF stall
    <3>2. trap_cause = HALT_NONE
      BY <3>1 DEF trap
    <3> QED BY <3>2 DEF trap_cause, misaligned_target, HALT_NONE, HALT_ECALL,
             HALT_EBREAK, HALT_ILLEGAL, HALT_MEM_MISALIGN, HALT_FETCH_MISALIGN
  <2>3. pc' % 4 = 0
    <3>1. pc' \in {0, pc, pc_next} /\ (~rst /\ ~stall => pc' = pc_next)
          /\ (rst => pc' = 0) /\ (~rst /\ stall => pc' = pc)
      BY DEF PcEdge, RESET_PC
    <3>2. pc % 4 = 0
      BY DEF WellFormed
    <3>3. CASE rst
      BY <3>1, <3>3
    <3>4. CASE ~rst /\ stall
      BY <3>1, <3>2, <3>4
    <3>5. CASE ~rst /\ ~stall
      BY <2>2, <3>1, <3>5
    <3> QED BY <3>3, <3>4, <3>5
  <2> QED BY <2>1, <2>3 DEF WellFormed
<1> QED BY <1>1, <1>2

\* x0 stays zero and the pc on a word boundary.
THEOREM WellFormedCorrect == Spec => []WellFormed
<1>1. Init => WellFormed
  BY SizeAssumption DEF Init, WellFormed, Reg
<1> QED BY <1>1, WellFormedStep, TypeCorrect, PTL DEF Spec

-----------------------------------------------------------------------------
(* Stores retire *)

\* A store goes on to the next word, so only its own address can stop it: the
\* fetch check, whose outcome the write enable ignores, cannot fire for it.
LEMMA StoreRetiresHere == ASSUME TypeOK, WellFormed PROVE StoreRetires
<1> SUFFICES ASSUME commit_mem_write, ~rst PROVE commit_valid
  BY DEF StoreRetires
<1>1. ~halted /\ step_en /\ mem_write(f) /\ ~misaligned
  BY DEF commit_mem_write, d_write
<1>2. f.opcode = "STORE" /\ ~illegal(f)
  BY <1>1 DEF mem_write
<1>3. ~ecall(f) /\ ~ebreak(f) /\ ~jalr(f) /\ ~jump(f) /\ ~branch(f)
  BY <1>2 DEF ecall, ebreak, jalr, jump, branch
<1>4. pc_next = Truncate(pc + 4)
  BY <1>3 DEF pc_next, pc_plus4
<1>5. pc + 4 \in Nat /\ (pc + 4) % 4 = 0
  <2>1. pc \in Nat /\ pc % 4 = 0
    BY WordNat DEF TypeOK, WellFormed
  <2> QED BY <2>1
<1>6. ~misaligned_target
  BY <1>4, <1>5, TruncateAligned DEF misaligned_target
<1>7. trap_cause = HALT_NONE
  BY <1>1, <1>2, <1>3, <1>6 DEF trap_cause
<1> QED BY <1>1, <1>7 DEF commit_valid, trap

\* A store that the memory takes retires.
THEOREM StoresRetire == Spec => []StoreRetires
BY StoreRetiresHere, TypeCorrect, WellFormedCorrect, PTL

-----------------------------------------------------------------------------
(* Standing still *)

LEMMA FrozenStep ==
    ASSUME TypeOK, [Next]_vars, halted \/ ~step_en, ~rst PROVE UNCHANGED arch
<1>1. CASE UNCHANGED vars
  BY <1>1 DEF vars
<1>2. CASE Next
  <2> USE <1>2 DEF Next, Clock
  <2>1. UNCHANGED pc
    BY DEF PcEdge, stall
  <2>2. UNCHANGED regs
    BY DEF RegfileEdge, regfile_we
  <2>3. UNCHANGED mem
    BY DEF MemoryEdge, d_write
  <2>4. UNCHANGED <<halted, halt_cause>>
    BY DEF HaltEdge, trap, TypeOK
  <2> QED BY <2>1, <2>2, <2>3, <2>4 DEF arch
<1> QED BY <1>1, <1>2

\* A halted core and a core that is not enabled keep all their state.
THEOREM FrozenCorrect == Spec => Frozen
<1>1. TypeOK /\ [Next]_vars => [(halted \/ ~step_en) /\ ~rst => UNCHANGED arch]_vars
  BY FrozenStep
<1> QED BY <1>1, TypeCorrect, PTL DEF Spec, Frozen

-----------------------------------------------------------------------------
(* The golden model on the same state *)

LEMMA TruncateClearsBit0 ==
    ASSUME NEW t \in Int
    PROVE  Truncate(t - (t % 2)) = Truncate(t) - (Truncate(t) % 2)
<1> DEFINE M == Modulus
           r == t % M
           q == t \div M
<1>1. PICK k \in Nat \ {0} : M = 2 * k
  <2>1. PICK j \in Nat \ {0} : M = 4 * j
    BY ModulusNat
  <2> QED BY <2>1, 2 * j \in Nat \ {0}, M = 2 * (2 * j)
<1>2. q \in Int /\ r \in 0 .. M - 1 /\ t = M * q + r
  BY ModulusNat
<1> HIDE DEF q, r, M
<1>3. t = 2 * (k * q) + r /\ k * q \in Int
  BY <1>1, <1>2
<1>4. t % 2 = r % 2
  <2> DEFINE z == k * q
  <2>1. z \in Int /\ t = 2 * z + r
    BY <1>3
  <2> HIDE DEF z
  <2> QED BY <2>1, <1>2
<1>5. t - (t % 2) = M * q + (r - (r % 2)) /\ r - (r % 2) \in 0 .. M - 1
  BY <1>1, <1>2, <1>4
<1>6. (M * q + (r - (r % 2))) % M = r - (r % 2)
  <2> DEFINE s == r - (r % 2)
  <2>1. s \in 0 .. M - 1
    BY <1>5
  <2> HIDE DEF s
  <2>2. (M * q + s) % M = s
    BY <2>1, <1>1, <1>2
  <2> QED BY <2>2 DEF s
<1> QED BY <1>5, <1>6 DEF Truncate, r, M

\* The golden model's copies of the shared definitions.
LEMMA SameIsa ==
    /\ \A v : Golden!WordIndex(v) = WordIndex(v) /\ Golden!Truncate(v) = Truncate(v)
    /\ \A v : Golden!Signed(v) = Signed(v)
    /\ Golden!Opcodes = Opcodes
    /\ Golden!HALT_NONE = HALT_NONE       /\ Golden!HALT_ECALL = HALT_ECALL
    /\ Golden!HALT_EBREAK = HALT_EBREAK   /\ Golden!HALT_ILLEGAL = HALT_ILLEGAL
    /\ Golden!HALT_MEM_MISALIGN = HALT_MEM_MISALIGN
    /\ Golden!HALT_FETCH_MISALIGN = HALT_FETCH_MISALIGN
BY DEF Golden!WordIndex, WordIndex, Golden!Truncate, Truncate, Golden!Modulus,
       Modulus, Golden!Signed, Signed, Golden!Opcodes, Opcodes,
       Golden!HALT_NONE, HALT_NONE, Golden!HALT_ECALL, HALT_ECALL,
       Golden!HALT_EBREAK, HALT_EBREAK, Golden!HALT_ILLEGAL, HALT_ILLEGAL,
       Golden!HALT_MEM_MISALIGN, HALT_MEM_MISALIGN,
       Golden!HALT_FETCH_MISALIGN, HALT_FETCH_MISALIGN

\* What the golden model of the refinement computes without its state.
LEMMA SameReference ==
    /\ \A v, w : Golden!Misaligned(v, w) <=> Reference!Misaligned(v, w)
    /\ \A v : Golden!HalfOffset(v) = Reference!HalfOffset(v)
    /\ \A v, w, x : Golden!Slice(v, w, x) = Reference!Slice(v, w, x)
    /\ \A v, w, x, y : Golden!Splice(v, w, x, y) = Reference!Splice(v, w, x, y)
    /\ \A v, w, x : Golden!BranchTaken(v, w, x) <=> Reference!BranchTaken(v, w, x)
    /\ \A g : Golden!Illegal(g) <=> Reference!Illegal(g)
    /\ \A g, v, w : Golden!AluResult(g, v, w) = Reference!AluResult(g, v, w)
<1>1. /\ \A v, w : Golden!Misaligned(v, w) <=> Reference!Misaligned(v, w)
      /\ \A v : Golden!Shift(v) = Reference!Shift(v)
      /\ \A v : Golden!Flag(v) = Reference!Flag(v)
  BY DEF Golden!Misaligned, Reference!Misaligned, Golden!Shift, Reference!Shift,
         Golden!Flag, Reference!Flag
<1>2. \A v : Golden!HalfOffset(v) = Reference!HalfOffset(v)
  BY DEF Golden!HalfOffset, Reference!HalfOffset
<1>3. \A v, w, x : Golden!Slice(v, w, x) = Reference!Slice(v, w, x)
  BY <1>1 DEF Golden!Slice, Reference!Slice
<1>4. \A v, w, x, y : Golden!Splice(v, w, x, y) = Reference!Splice(v, w, x, y)
  BY <1>1, <1>3 DEF Golden!Splice, Reference!Splice
<1>5. \A v, w, x : Golden!BranchTaken(v, w, x) <=> Reference!BranchTaken(v, w, x)
  BY SameIsa, SharedIsa DEF Golden!BranchTaken, Reference!BranchTaken
<1>6. \A g : Golden!Illegal(g) <=> Reference!Illegal(g)
  BY SameIsa, SharedIsa DEF Golden!Illegal, Reference!Illegal
<1>7. \A u, v, w, x : Golden!Alu(u, v, w, x) = Reference!Alu(u, v, w, x)
  <2>1. /\ \A v : Golden!Truncate(v) = Reference!Truncate(v)
        /\ \A v : Golden!Signed(v) = Reference!Signed(v)
        /\ \A v : Golden!Flag(v) = Reference!Flag(v)
    BY <1>1, SameIsa, SharedIsa
  <2> QED BY <2>1 DEF Golden!Alu, Reference!Alu
<1>8. \A g, v, w : Golden!AluResult(g, v, w) = Reference!AluResult(g, v, w)
  BY <1>7 DEF Golden!AluResult, Reference!AluResult
<1> QED BY <1>1, <1>2, <1>3, <1>4, <1>5, <1>6, <1>8

\* The immediate that each kind of instruction uses.
LEMMA ImmOf ==
    /\ f.opcode \in {"LOAD", "JALR"} => imm(f) = f.imm["I"]
    /\ f.opcode = "STORE"  => imm(f) = f.imm["S"]
    /\ f.opcode = "BRANCH" => imm(f) = f.imm["B"]
    /\ f.opcode = "JAL"    => imm(f) = f.imm["J"]
<1>1. /\ f.opcode \in {"LOAD", "JALR"} => imm_sel(f) = "I"
      /\ f.opcode = "STORE"  => imm_sel(f) = "S"
      /\ f.opcode = "BRANCH" => imm_sel(f) = "B"
      /\ f.opcode = "JAL"    => imm_sel(f) = "J"
  BY DEF imm_sel
<1> QED BY <1>1 DEF imm

\* The word the golden model fetches, and the registers it reads.
LEMMA GoldenReads ==
    ASSUME TypeOK, WellFormed
    PROVE  /\ Golden!fields = f /\ Golden!inst = inst
           /\ Golden!a = rs1_data /\ Golden!b = rs2_data
<1>1. WordIndex(pc) \in Index
  BY WordNat, IndexType DEF TypeOK
<1>2. Golden!inst = inst
  BY <1>1, SameIsa DEF Golden!inst, inst, i_rdata
<1>3. Golden!fields = f
  BY <1>2 DEF Golden!fields, f
<1>4. Golden!a = rs1_data /\ Golden!b = rs2_data
  BY <1>3 DEF Golden!a, Golden!b, rs1_data, rs2_data, WellFormed
<1> QED BY <1>2, <1>3, <1>4

\* Legal loads, stores and jumps compute the golden model's addresses.
LEMMA SameAddresses ==
    ASSUME TypeOK, WellFormed, ~illegal(f)
    PROVE  /\ mem_read(f) \/ mem_write(f) => d_addr = Golden!mem_addr
           /\ pc_next = Golden!next_pc
<1>1. /\ rs1_data \in Nat /\ imm(f) \in Nat /\ pc \in Nat
      /\ f.imm["I"] \in Nat /\ f.funct3 \in 0 .. 7
  <2>1. f \in Instruction /\ rs1_data \in Word /\ imm(f) \in Word /\ pc \in Word
    BY SignalTypes DEF TypeOK
  <2>2. f.imm["I"] \in Word /\ f.funct3 \in 0 .. 7
    BY <2>1 DEF Instruction, ImmFormat
  <2> QED BY <2>1, <2>2, WordNat
<1>2. f.opcode \in {"LOAD", "STORE", "JALR"}
        => alu_y = Truncate(rs1_data + imm(f))
  <2> SUFFICES ASSUME f.opcode \in {"LOAD", "STORE", "JALR"}
               PROVE  alu_y = Truncate(rs1_data + imm(f))
    OBVIOUS
  <2>1. alu_a = rs1_data /\ alu_b = imm(f) /\ alu_op(f) = ALU_ADD
    BY DEF alu_a, alu_a_sel, alu_b, alu_b_sel, alu_op
  <2>2. alu(alu_a, alu_b, ALU_ADD) = Truncate(alu_a + alu_b)
    BY DEF alu, ALU_ADD, ALU_SUB, ALU_SLL, ALU_SLT, ALU_SLTU, ALU_XOR, ALU_SRL,
           ALU_SRA, ALU_OR, ALU_AND
  <2> QED BY <2>1, <2>2 DEF alu_y
<1>3. mem_read(f) \/ mem_write(f) => d_addr = Golden!mem_addr
  BY <1>2, GoldenReads, ImmOf, SameIsa
     DEF mem_read, mem_write, d_addr, Golden!mem_addr, Golden!opcode
<1>4. pc_next = Golden!next_pc
  <2>1. CASE f.opcode = "JALR"
    <3>1. jalr(f) /\ ~jump(f) /\ ~branch(f)
      BY <2>1 DEF jalr, jump, branch
    <3>2. pc_next = alu_y - (alu_y % 2)
      BY <3>1 DEF pc_next
    <3>4. Golden!next_pc = Truncate((rs1_data + imm(f)) - ((rs1_data + imm(f)) % 2))
      BY <2>1, GoldenReads, ImmOf, SameIsa DEF Golden!next_pc, Golden!opcode
    <3>3. rs1_data + imm(f) \in Int
      BY <1>1
    <3> QED BY <1>2, <2>1, <3>2, <3>3, <3>4, TruncateClearsBit0
  <2>2. CASE f.opcode = "JAL"
    <3>1. ~jalr(f) /\ jump(f)
      BY <2>2 DEF jalr, jump
    <3>2. pc_next = Truncate(pc + imm(f))
      BY <3>1 DEF pc_next
    <3>3. Golden!next_pc = Truncate(pc + imm(f))
      BY <2>2, GoldenReads, ImmOf, SameIsa DEF Golden!next_pc, Golden!opcode
    <3> QED BY <3>2, <3>3
  <2>3. CASE f.opcode = "BRANCH"
    <3>1. f.funct3 \in {0, 1, 4, 5, 6, 7}
      BY <1>1, <2>3 DEF illegal
    <3>2. taken <=> Golden!BranchTaken(f.funct3, rs1_data, rs2_data)
      BY <3>1, SignalTypes, SameBranch, SameReference DEF taken
    <3>3. ~jalr(f) /\ ~jump(f) /\ branch(f) /\ imm(f) = f.imm["B"]
      BY <2>3, ImmOf DEF jalr, jump, branch
    <3>4. pc_next = IF taken THEN Truncate(pc + imm(f)) ELSE Truncate(pc + 4)
      BY <3>3 DEF pc_next, pc_plus4
    <3>5. Golden!next_pc = IF Golden!BranchTaken(f.funct3, rs1_data, rs2_data)
                           THEN Truncate(pc + imm(f)) ELSE Truncate(pc + 4)
      BY <2>3, <3>3, GoldenReads, SameIsa
         DEF Golden!next_pc, Golden!opcode, Golden!funct3
    <3> QED BY <3>2, <3>4, <3>5
  <2>4. CASE f.opcode \notin {"JAL", "JALR", "BRANCH"}
    <3>1. ~jalr(f) /\ ~jump(f) /\ ~branch(f)
      BY <2>4 DEF jalr, jump, branch
    <3>2. pc_next = Truncate(pc + 4)
      BY <3>1 DEF pc_next, pc_plus4
    <3>3. Golden!next_pc = Truncate(pc + 4)
      BY <2>4, GoldenReads, SameIsa DEF Golden!next_pc, Golden!opcode
    <3> QED BY <3>2, <3>3
  <2> QED BY <2>1, <2>2, <2>3, <2>4
<1> QED BY <1>3, <1>4

\* A running core, when it is enabled, sees the golden model's fault.
LEMMA SameCause ==
    ASSUME TypeOK, WellFormed, ~halted, step_en
    PROVE  trap_cause = Golden!Cause
<1>1. f \in Instruction /\ (Golden!Illegal(f) <=> illegal(f))
  BY SignalTypes, SameIllegal, SameReference
<1>2. CASE illegal(f)
  BY <1>1, <1>2, GoldenReads, SameIsa DEF trap_cause, Golden!Cause
<1>3. CASE ~illegal(f)
  <2>1. misaligned_target <=> Golden!next_pc % 4 # 0
    BY <1>3, SameAddresses DEF misaligned_target
  <2>2. f.sys \in {"ecall", "ebreak", "other"} /\ f.funct3 \in 0 .. 7
    BY <1>1 DEF Instruction
  <2>3. ecall(f) <=> f.opcode = "SYSTEM" /\ f.sys = "ecall"
    BY <1>3 DEF ecall
  <2>4. ebreak(f) <=> f.opcode = "SYSTEM" /\ f.sys = "ebreak"
    BY <1>3 DEF ebreak
  <2>5. f.opcode = "SYSTEM" => f.sys # "other"
    BY <1>3 DEF illegal
  <2>6. (mem_read(f) \/ mem_write(f)) /\ misaligned
          <=> f.opcode \in {"LOAD", "STORE"}
              /\ Golden!Misaligned(f.funct3, Golden!mem_addr)
    <3>1. mem_read(f) \/ mem_write(f) <=> f.opcode \in {"LOAD", "STORE"}
      BY <1>3 DEF mem_read, mem_write
    <3>2. ASSUME mem_read(f) \/ mem_write(f)
          PROVE  misaligned <=> Golden!Misaligned(f.funct3, Golden!mem_addr)
      <4>1. misaligned <=> unaligned(d_addr, d_op)
        BY <3>2 DEF misaligned, d_misaligned, d_read, d_write
      <4>2. d_addr = Golden!mem_addr /\ d_op = f.funct3 /\ d_addr \in Nat
        BY <1>3, <3>2, SameAddresses, SignalTypes, WordNat DEF d_op, mem_op, d_addr
      <4>3. d_addr % 2 # 0 <=> d_addr % 2 = 1
        BY <4>2
      <4> QED BY <4>1, <4>2, <4>3 DEF unaligned, Golden!Misaligned
    <3> QED BY <3>1, <3>2
  <2> QED BY <1>1, <1>3, <2>1, <2>2, <2>3, <2>4, <2>5, <2>6, GoldenReads, SameIsa
          DEF trap_cause, Golden!Cause, Golden!opcode, Golden!funct3
<1> QED BY <1>2, <1>3

-----------------------------------------------------------------------------
(* The latched cause *)

\* With the cause that a running core sees being the golden model's, and a
\* halted core keeping what the golden model looks at, the latch is explained.
LEMMA HaltStep ==
    TypeOK /\ WellFormed /\ HaltExplained /\ [Next]_vars => HaltExplained'
<1> SUFFICES ASSUME TypeOK, WellFormed, HaltExplained, [Next]_vars
             PROVE  HaltExplained'
  OBVIOUS
<1>1. ASSUME UNCHANGED <<pc, regs, mem>> PROVE Golden!Cause' = Golden!Cause
  BY <1>1 DEF Golden!Cause, Golden!fields, Golden!inst, Golden!opcode,
     Golden!funct3, Golden!a, Golden!b, Golden!mem_addr, Golden!next_pc
<1>2. CASE UNCHANGED arch
  BY <1>1, <1>2 DEF arch, HaltExplained
<1>3. CASE Next /\ rst
  BY <1>3 DEF Next, Clock, HaltEdge, HaltExplained
<1>4. CASE Next /\ ~rst /\ ~halted /\ step_en
  <2> USE <1>4 DEF Next, Clock
  <2>1. trap_cause = Golden!Cause
    BY SameCause
  <2>2. CASE trap
    <3>1. halted' = TRUE /\ halt_cause' = trap_cause /\ trap_cause # HALT_NONE
      BY <2>2 DEF HaltEdge, trap
    <3>2. UNCHANGED pc
      BY <2>2 DEF PcEdge, stall
    <3>3. UNCHANGED regs
      BY <2>2 DEF RegfileEdge, regfile_we
    <3>4. UNCHANGED mem
      <4>1. CASE commit_mem_write
        BY <2>2, <4>1, StoreRetiresHere DEF StoreRetires, commit_valid
      <4>2. CASE ~commit_mem_write
        BY <4>2 DEF MemoryEdge, commit_mem_write, misaligned
      <4> QED BY <4>1, <4>2
    <3> QED BY <1>1, <2>1, <3>1, <3>2, <3>3, <3>4 DEF HaltExplained
  <2>3. CASE ~trap
    BY <2>3 DEF HaltEdge, HaltExplained
  <2> QED BY <2>2, <2>3
<1>5. CASE ~rst /\ (halted \/ ~step_en)
  BY <1>2, <1>5, FrozenStep
<1>6. CASE UNCHANGED vars
  BY <1>2, <1>6 DEF vars
<1> QED BY <1>3, <1>4, <1>5, <1>6

\* The cause that a halted core shows is the golden model's for the
\* instruction it stands on.
THEOREM HaltCorrect == Spec => []HaltExplained
<1>1. Init => HaltExplained
  BY DEF Init, HaltExplained
<1> QED BY <1>1, HaltStep, TypeCorrect, WellFormedCorrect, PTL DEF Spec

-----------------------------------------------------------------------------
(* Loads and stores *)

\* A load of any width, sign and alignment returns the golden model's value.
LEMMA SameLoad ==
    ASSUME TypeOK, NEW addr \in Word, NEW op
    PROVE  d_rdata(addr, op) = Golden!Load(op, addr)
<1>1. MemoryTypeOK /\ addr \in Nat /\ WordIndex(addr) \in Index
  BY WordNat, IndexType DEF TypeOK
<1>2. \A v, m : Golden!SignExtend(v, m) = SignExtend(v, m)
  BY DEF Golden!SignExtend, SignExtend, Golden!Modulus, Modulus
<1>3. [i \in Index |-> FromLanes[mem[i]]][Golden!WordIndex(addr)]
        = FromLanes[mem[WordIndex(addr)]]
  BY <1>1, SameIsa
<1> QED BY <1>1, <1>2, <1>3, LoadSlices, SameReference DEF Golden!Load

\* A store at the clock edge leaves the memory that the golden model's leaves.
LEMMA SameStore ==
    ASSUME TypeOK, NEW addr \in Word, NEW op, NEW w \in Word
    PROVE  LET new == [mem EXCEPT ![WordIndex(addr)] = merged(@, addr, op, w)]
           IN [i \in Index |-> FromLanes[new[i]]] = Golden!Store(op, addr, w)
<1> DEFINE j == WordIndex(addr)
           new == [mem EXCEPT ![j] = merged(@, addr, op, w)]
           word == merged(mem[j], addr, op, w)
           numbers == [i \in Index |-> FromLanes[mem[i]]]
<1>1. j \in Index /\ addr \in Nat /\ mem \in [Index -> MemWord] /\ mem[j] \in MemWord
  BY WordNat, IndexType DEF TypeOK, MemoryTypeOK
<1>2. Golden!HalfOffset(addr) = half(addr) /\ numbers[j] = FromLanes[mem[j]]
  BY <1>1, SameHalf, SameReference
<1>3. Golden!Store(op, addr, w) = [numbers EXCEPT ![j] = FromLanes[word]]
  <2>1. FromLanes[word]
          = CASE op = 0 -> Golden!Splice(numbers[j], addr % 4, ByteMod, w)
              [] op = 1 -> Golden!Splice(numbers[j], Golden!HalfOffset(addr),
                                         ByteMod * ByteMod, w)
              [] OTHER  -> w
    BY <1>1, <1>2, SameMerge, SameReference
  <2> HIDE DEF word
  <2> QED BY <2>1, SameIsa DEF Golden!Store
<1>4. new = [mem EXCEPT ![j] = word]
  BY <1>1
<1> HIDE DEF word, new
<1>5. [i \in Index |-> FromLanes[new[i]]] = [numbers EXCEPT ![j] = FromLanes[word]]
  BY <1>1, <1>4
<1> QED BY <1>3, <1>5 DEF new

-----------------------------------------------------------------------------
(* Retirement *)

\* The value that the core writes back is the golden model's.
LEMMA SameValue ==
    ASSUME TypeOK, WellFormed, ~illegal(f), reg_write(f)
    PROVE  wb_data = Golden!rd_value
<1>1. /\ f \in Instruction /\ rs1_data \in Word /\ rs2_data \in Word /\ alu_y \in Word
      /\ imm(f) \in Word /\ pc \in Word
  BY SignalTypes DEF TypeOK
<1>2. f.opcode \in {"LUI", "AUIPC", "JAL", "JALR", "LOAD", "IMM", "REG"}
  BY DEF reg_write
<1>3. Golden!fields = f /\ Golden!a = rs1_data /\ Golden!b = rs2_data
  BY GoldenReads
<1>4. alu(alu_a, alu_b, ALU_ADD) = Truncate(alu_a + alu_b)
  BY DEF alu, ALU_ADD, ALU_SUB, ALU_SLL, ALU_SLT, ALU_SLTU, ALU_XOR, ALU_SRL,
         ALU_SRA, ALU_OR, ALU_AND
<1>5. CASE f.opcode = "LUI"
  <2>1. alu_a = 0 /\ alu_b = imm(f) /\ alu_op(f) = ALU_ADD /\ imm(f) = f.imm["U"]
    BY <1>5 DEF alu_a, alu_a_sel, alu_b, alu_b_sel, alu_op, imm, imm_sel
  <2>2. wb_data = Truncate(0 + f.imm["U"])
    BY <1>4, <1>5, <2>1 DEF wb_data, wb_sel, alu_y
  <2>3. f.imm["U"] \in 0 .. Modulus - 1
    BY <1>1, <2>1 DEF Word
  <2>4. Truncate(0 + f.imm["U"]) = f.imm["U"]
    BY <2>3, ModulusNat DEF Truncate
  <2>5. Golden!rd_value = f.imm["U"]
    BY <1>3, <1>5 DEF Golden!rd_value, Golden!opcode
  <2> QED BY <2>2, <2>4, <2>5
<1>6. CASE f.opcode = "AUIPC"
  <2>1. alu_a = pc /\ alu_b = imm(f) /\ alu_op(f) = ALU_ADD /\ imm(f) = f.imm["U"]
    BY <1>6 DEF alu_a, alu_a_sel, alu_b, alu_b_sel, alu_op, imm, imm_sel
  <2>2. wb_data = Truncate(pc + f.imm["U"])
    BY <1>4, <1>6, <2>1 DEF wb_data, wb_sel, alu_y
  <2>3. Golden!rd_value = Truncate(pc + f.imm["U"])
    BY <1>3, <1>6, SameIsa DEF Golden!rd_value, Golden!opcode
  <2> QED BY <2>2, <2>3
<1>7. CASE f.opcode \in {"JAL", "JALR"}
  <2>1. wb_data = Truncate(pc + 4)
    BY <1>7 DEF wb_data, wb_sel, pc_plus4
  <2>2. Golden!rd_value = Truncate(pc + 4)
    BY <1>3, <1>7, SameIsa DEF Golden!rd_value, Golden!opcode
  <2> QED BY <2>1, <2>2
<1>8. CASE f.opcode = "LOAD"
  <2>1. mem_read(f)
    BY <1>8 DEF mem_read
  <2>2. wb_data = d_rdata(d_addr, d_op)
    BY <1>8 DEF wb_data, wb_sel
  <2>3. d_addr = Golden!mem_addr /\ d_addr \in Word /\ d_op = Golden!funct3
    BY <1>1, <1>3, <2>1, SameAddresses DEF d_addr, d_op, mem_op, Golden!funct3
  <2>4. d_rdata(d_addr, d_op) = Golden!Load(Golden!funct3, Golden!mem_addr)
    BY <2>3, SameLoad
  <2>5. Golden!rd_value = Golden!Load(Golden!funct3, Golden!mem_addr)
    BY <1>3, <1>8 DEF Golden!rd_value, Golden!opcode
  <2> QED BY <2>2, <2>4, <2>5
<1>9. CASE f.opcode \in {"REG", "IMM"}
  <2>1. alu_a = rs1_data /\ alu_b = IF alu_b_sel(f) = "IMM" THEN imm(f) ELSE rs2_data
    BY <1>9 DEF alu_a, alu_a_sel, alu_b
  <2>2. wb_data = alu_y
    BY <1>9 DEF wb_data, wb_sel
  <2>3. Golden!AluResult(f, rs1_data, rs2_data) = alu(alu_a, alu_b, alu_op(f))
    BY <1>1, <1>9, <2>1, SameResult, SameReference
  <2>4. Golden!rd_value = Golden!AluResult(f, rs1_data, rs2_data)
    BY <1>3, <1>9 DEF Golden!rd_value, Golden!opcode
  <2> QED BY <2>2, <2>3, <2>4 DEF alu_y
<1> QED BY <1>2, <1>5, <1>6, <1>7, <1>8, <1>9

\* A retiring instruction, field by field as the golden model sees it.
LEMMA Retiring ==
    ASSUME TypeOK, WellFormed, commit_valid
    PROVE  /\ Golden!Cause = HALT_NONE /\ ~halted /\ ~trap /\ ~rst /\ step_en
           /\ ~illegal(f) /\ Golden!opcode = f.opcode
           /\ (reg_write(f) <=> Golden!has_rd_value)
           /\ (commit_mem_write <=> f.opcode = "STORE")
           /\ (d_write /\ ~d_misaligned(d_addr, d_op, d_read, d_write) <=> commit_mem_write)
<1>1. ~halted /\ ~trap /\ ~rst /\ step_en /\ trap_cause = HALT_NONE
  BY DEF commit_valid, trap
<1>2. Golden!Cause = HALT_NONE
  BY <1>1, SameCause
<1>3. /\ ~illegal(f) /\ ~ecall(f) /\ ~ebreak(f)
      /\ ~((mem_read(f) \/ mem_write(f)) /\ misaligned)
  BY <1>1 DEF trap_cause, HALT_NONE, HALT_ECALL, HALT_EBREAK, HALT_ILLEGAL,
              HALT_MEM_MISALIGN, HALT_FETCH_MISALIGN
<1>4. f \in Instruction /\ Golden!opcode = f.opcode
  BY SignalTypes, GoldenReads DEF Golden!opcode
<1>5. f.opcode # "SYSTEM" /\ f.opcode # "UNDEFINED"
  BY <1>3, <1>4 DEF illegal, ecall, ebreak, Instruction
<1>6. f.opcode \in Opcodes
  BY <1>4, <1>5 DEF Instruction
<1>7. reg_write(f) <=> Golden!has_rd_value
  BY <1>3, <1>4, <1>5, <1>6 DEF reg_write, Golden!has_rd_value, Opcodes
<1>8. commit_mem_write <=> f.opcode = "STORE"
  BY <1>1, <1>3 DEF commit_mem_write, d_write, mem_write
<1> QED BY <1>1, <1>2, <1>3, <1>4, <1>7, <1>8 DEF commit_mem_write, misaligned

LEMMA SameCommit ==
    ASSUME TypeOK, WellFormed, commit_valid
    PROVE  LET got == commit
               exp == Golden!Commit
           IN /\ Golden!Cause = HALT_NONE
              /\ exp = IF exp.mem_write THEN got
                       ELSE [got EXCEPT !.mem_addr  = exp.mem_addr,
                                        !.mem_wdata = exp.mem_wdata]
<1> DEFINE store == f.opcode = "STORE"
<1>1. /\ Golden!Cause = HALT_NONE /\ ~illegal(f) /\ Golden!opcode = f.opcode
      /\ (reg_write(f) <=> Golden!has_rd_value) /\ (commit_mem_write <=> store)
  BY Retiring
<1>2. Golden!inst = inst /\ Golden!fields = f /\ Golden!b = rs2_data
  BY GoldenReads
<1>3. pc_next = Golden!next_pc /\ (store => d_addr = Golden!mem_addr)
  BY <1>1, SameAddresses DEF mem_write
<1>4. commit_rd = IF Golden!has_rd_value THEN f.rd ELSE 0
  BY <1>1 DEF commit_rd
<1>5. commit_rd_wdata = IF Golden!has_rd_value /\ f.rd # 0 THEN Golden!rd_value ELSE 0
  <2>1. reg_write(f) => wb_data = Golden!rd_value
    BY <1>1, SameValue
  <2> QED BY <1>1, <2>1 DEF commit_rd_wdata
<1>6. Golden!Commit =
        [pc        |-> pc,
         inst      |-> inst,
         next_pc   |-> pc_next,
         rd        |-> commit_rd,
         rd_wdata  |-> commit_rd_wdata,
         mem_write |-> store,
         mem_addr  |-> Golden!mem_addr,
         mem_wdata |-> IF store THEN rs2_data ELSE 0]
  BY <1>1, <1>2, <1>3, <1>4, <1>5 DEF Golden!Commit
<1>7. commit =
        [pc        |-> pc,
         inst      |-> inst,
         next_pc   |-> pc_next,
         rd        |-> commit_rd,
         rd_wdata  |-> commit_rd_wdata,
         mem_write |-> commit_mem_write,
         mem_addr  |-> d_addr,
         mem_wdata |-> rs2_data]
  BY DEF commit, d_wdata
<1>8. (commit_mem_write = store) /\ commit_mem_write \in BOOLEAN /\ store \in BOOLEAN
  BY <1>1 DEF commit_mem_write
<1> HIDE DEF store
<1>9. CASE store
  <2>1. Golden!Commit = commit /\ Golden!Commit.mem_write
    BY <1>3, <1>6, <1>7, <1>8, <1>9
  <2> QED BY <1>1, <2>1
<1>10. CASE ~store
  <2>1. ~Golden!Commit.mem_write
    BY <1>6, <1>10
  <2>2. Golden!Commit.mem_addr = Golden!mem_addr /\ Golden!Commit.mem_wdata = 0
    BY ONLY <1>6, <1>10
  <2> DEFINE addressed == [commit EXCEPT !.mem_addr = Golden!mem_addr]
  <2>3. addressed =
          [pc        |-> pc,
           inst      |-> inst,
           next_pc   |-> pc_next,
           rd        |-> commit_rd,
           rd_wdata  |-> commit_rd_wdata,
           mem_write |-> store,
           mem_addr  |-> Golden!mem_addr,
           mem_wdata |-> rs2_data]
    BY ONLY <1>7, <1>8
  <2> HIDE DEF addressed
  <2>4. [addressed EXCEPT !.mem_wdata = 0] =
          [pc        |-> pc,
           inst      |-> inst,
           next_pc   |-> pc_next,
           rd        |-> commit_rd,
           rd_wdata  |-> commit_rd_wdata,
           mem_write |-> store,
           mem_addr  |-> Golden!mem_addr,
           mem_wdata |-> 0]
    BY ONLY <2>3
  <2>5. [addressed EXCEPT !.mem_wdata = 0] = Golden!Commit
    BY ONLY <1>6, <1>10, <2>4
  <2>6. Golden!Commit
          = [commit EXCEPT !.mem_addr  = Golden!Commit.mem_addr,
                           !.mem_wdata = Golden!Commit.mem_wdata]
    BY <2>2, <2>5, Zenon DEF addressed
  <2> QED BY <1>1, <2>1, <2>6
<1> QED BY <1>9, <1>10

\* What retires at a clock edge is what the golden model commits for the same
\* state: pc, instruction, next pc, register, its value, and the store.
THEOREM CommitCorrect == Spec => CommitAgrees
<1>1. TypeOK /\ WellFormed =>
        [commit_valid =>
           LET got == commit
               exp == Golden!Commit
           IN /\ Golden!Cause = HALT_NONE
              /\ exp = IF exp.mem_write THEN got
                       ELSE [got EXCEPT !.mem_addr  = exp.mem_addr,
                                        !.mem_wdata = exp.mem_wdata]]_vars
  BY SameCommit
<1> QED BY <1>1, TypeCorrect, WellFormedCorrect, PTL DEF CommitAgrees

-----------------------------------------------------------------------------
(* Steps *)

\* The golden model's memory after a clock edge.
LEMMA WordsAfter ==
    ASSUME TypeOK, Clock
    PROVE  [i \in Index |-> FromLanes[mem'[i]]] =
             IF commit_mem_write THEN Golden!Store(d_op, d_addr, rs2_data)
             ELSE [i \in Index |-> FromLanes[mem[i]]]
<1>1. MemoryEdge(d_addr, d_op, d_read, d_write, d_wdata)
  BY DEF Clock
<1>2. commit_mem_write <=> d_write /\ ~d_misaligned(d_addr, d_op, d_read, d_write)
  BY DEF commit_mem_write, misaligned
<1>3. CASE commit_mem_write
  <2> DEFINE new == [mem EXCEPT ![WordIndex(d_addr)] = merged(@, d_addr, d_op, rs2_data)]
  <2>1. mem' = new
    BY <1>1, <1>2, <1>3 DEF MemoryEdge, d_wdata
  <2>2. d_addr \in Word /\ rs2_data \in Word
    BY SignalTypes DEF d_addr
  <2>3. [i \in Index |-> FromLanes[new[i]]] = Golden!Store(d_op, d_addr, rs2_data)
    BY <2>2, SameStore
  <2> HIDE DEF new
  <2> QED BY <1>3, <2>1, <2>3
<1>4. CASE ~commit_mem_write
  <2>1. mem' = mem
    BY <1>1, <1>2, <1>4 DEF MemoryEdge
  <2> QED BY <1>4, <2>1
<1> QED BY <1>3, <1>4

\* A retiring instruction is the golden model's step.
LEMMA RetireStep ==
    ASSUME TypeOK, WellFormed, Clock, commit_valid PROVE Golden!Retire
<1>1. /\ Golden!Cause = HALT_NONE /\ ~halted /\ ~trap /\ ~rst /\ step_en
      /\ ~illegal(f) /\ Golden!opcode = f.opcode
      /\ (reg_write(f) <=> Golden!has_rd_value)
      /\ (commit_mem_write <=> f.opcode = "STORE")
  BY Retiring
<1>2. Golden!fields = f /\ Golden!b = rs2_data
  BY GoldenReads
<1>3. [i \in Index |-> FromLanes[mem'[i]]] =
        IF Golden!opcode = "STORE"
        THEN Golden!Store(Golden!funct3, Golden!mem_addr, Golden!b)
        ELSE [i \in Index |-> FromLanes[mem[i]]]
  <2>1. CASE f.opcode = "STORE"
    <3>1. d_addr = Golden!mem_addr
      BY <1>1, <2>1, SameAddresses DEF mem_write
    <3>2. d_op = Golden!funct3
      BY <1>2 DEF d_op, mem_op, Golden!funct3
    <3> QED BY <1>1, <1>2, <2>1, <3>1, <3>2, WordsAfter
  <2>2. CASE f.opcode # "STORE"
    BY <1>1, <2>2, WordsAfter
  <2> QED BY <2>1, <2>2
<1>4. regs' = IF Golden!has_rd_value /\ f.rd # 0
              THEN [regs EXCEPT ![f.rd] = Golden!rd_value] ELSE regs
  <2>1. reg_write(f) => wb_data = Golden!rd_value
    BY <1>1, SameValue
  <2>2. regfile_we <=> reg_write(f)
    BY <1>1 DEF regfile_we
  <2> QED BY <1>1, <2>1, <2>2 DEF Clock, RegfileEdge
<1>5. pc' = Golden!next_pc
  BY <1>1, SameAddresses DEF Clock, PcEdge, stall
<1>6. UNCHANGED <<halted, halt_cause>>
  BY <1>1 DEF Clock, HaltEdge, TypeOK
<1> QED BY <1>1, <1>2, <1>3, <1>4, <1>5, <1>6, SameIsa DEF Golden!Retire

\* A fault that the core latches is the golden model's trap.
LEMMA TrapStep ==
    ASSUME TypeOK, WellFormed, Clock, trap, step_en, ~rst PROVE Golden!Trap
<1>1. ~halted /\ trap_cause # HALT_NONE
  BY DEF trap
<1>2. trap_cause = Golden!Cause
  BY <1>1, SameCause
<1>3. ~commit_valid /\ ~commit_mem_write
  BY StoreRetiresHere DEF commit_valid, StoreRetires
<1>4. [i \in Index |-> FromLanes[mem'[i]]] = [i \in Index |-> FromLanes[mem[i]]]
  BY <1>3, WordsAfter
<1>5. UNCHANGED <<regs, pc>>
  BY DEF Clock, RegfileEdge, regfile_we, PcEdge, stall
<1>6. halted' = TRUE /\ halt_cause' = trap_cause
  BY <1>1 DEF Clock, HaltEdge
<1> QED BY <1>1, <1>2, <1>4, <1>5, <1>6, SameIsa DEF Golden!Trap

\* A reset is the construction of a new golden model.
LEMMA ResetStep ==
    ASSUME TypeOK, TypeOK', Clock, rst PROVE Golden!Construct
<1>1. [i \in Index |-> FromLanes[mem'[i]]] \in [Index -> Word]
  <2>1. \A i \in Index : mem'[i] \in MemWord
    BY DEF TypeOK, MemoryTypeOK
  <2> QED BY <2>1, JoinType
<1>2. regs' = [r \in Reg |-> 0] /\ pc' = 0 /\ halted' = FALSE /\ halt_cause' = HALT_NONE
  BY DEF Clock, RegfileEdge, PcEdge, RESET_PC, HaltEdge
<1>3. Golden!Reg = Reg /\ Golden!HALT_NONE = HALT_NONE
  BY SameIsa DEF Golden!Reg, Reg
<1> QED BY <1>1, <1>2, <1>3 DEF Golden!Construct

LEMMA RefinementStep ==
    ASSUME TypeOK, TypeOK', WellFormed, [Next]_vars
    PROVE  [Golden!Next]_(Golden!vars)
<1>1. CASE UNCHANGED vars
  BY <1>1 DEF vars, arch, Golden!vars
<1>2. CASE Next
  <2>1. Clock
    BY <1>2 DEF Next
  <2>2. CASE rst
    BY <2>1, <2>2, ResetStep DEF Golden!Next
  <2>3. CASE commit_valid
    BY <2>1, <2>3, RetireStep DEF Golden!Next, Golden!Step
  <2>4. CASE ~rst /\ trap /\ step_en
    BY <2>1, <2>4, TrapStep DEF Golden!Next, Golden!Step
  <2>5. CASE ~rst /\ (halted \/ ~step_en)
    <3>1. UNCHANGED arch
      BY <2>5, FrozenStep
    <3> QED BY <3>1 DEF arch, Golden!vars
  <2> QED BY <2>2, <2>3, <2>4, <2>5 DEF commit_valid
<1> QED BY <1>1, <1>2

\* The core implements the golden model: every behaviour of the clocked core,
\* with reset and step_en as its surroundings please, is one of the golden
\* model under the mapping that joins the byte lanes of memory to words.
THEOREM RefinementCorrect == Spec => RefinesIss
<1>1. Init => Golden!Init
  <2> SUFFICES ASSUME Init PROVE Golden!Init
    OBVIOUS
  <2>1. mem \in [Index -> MemWord]
    BY ProgramsAssumption DEF Init
  <2>2. [i \in Index |-> FromLanes[mem[i]]] \in [Index -> Word]
    BY <2>1, JoinType
  <2>3. Golden!Reg = Reg
    BY DEF Golden!Reg, Reg
  <2> QED BY <2>2, <2>3, SameIsa DEF Init, Golden!Init
<1>2. TypeOK /\ TypeOK' /\ WellFormed /\ [Next]_vars => [Golden!Next]_(Golden!vars)
  BY RefinementStep
<1> QED BY <1>1, <1>2, TypeCorrect, WellFormedCorrect, PTL
       DEF Spec, RefinesIss, Golden!Spec

-----------------------------------------------------------------------------
(* The trace *)

\* Each lane that a store enables lies within its width from the address on.
LEMMA EnabledLanes ==
    ASSUME NEW x \in Nat, NEW op, ~unaligned(x, op), NEW l \in byte_en(x, op)
    PROVE  \E k \in 0 .. 3 : l = (x + k) % 4 /\ (op = 0 => k = 0) /\ (op = 1 => k <= 1)
<1>1. CASE op = 0
  <2>1. l = (x + 0) % 4
    BY <1>1 DEF byte_en
  <2> QED BY <1>1, <2>1
<1>2. CASE op = 1
  <2>1. x % 2 = 0
    BY <1>2 DEF unaligned
  <2>2. half(x) = x % 4 /\ (x + 1) % 4 = (x % 4) + 1
    BY <2>1 DEF half
  <2>3. l = (x + 0) % 4 \/ l = (x + 1) % 4
    BY <1>2, <2>2 DEF byte_en
  <2> QED BY <1>2, <2>3
<1>3. CASE op \notin {0, 1}
  <2>1. l \in 0 .. 3
    BY <1>3 DEF byte_en, Lane
  <2>2. \E k \in 0 .. 3 : l = (x + k) % 4
    BY <2>1
  <2> QED BY <1>3, <2>2
<1> QED BY <1>1, <1>2, <1>3

\* A clock edge outside reset, told by the commit port.
LEMMA TraceStep ==
    ASSUME TypeOK, WellFormed, Clock, ~rst
    PROVE  /\ pc' = IF commit_valid THEN commit.next_pc ELSE pc
           /\ regs' = IF commit_valid /\ commit.rd # 0
                      THEN [regs EXCEPT ![commit.rd] = commit.rd_wdata] ELSE regs
           /\ \A i \in Index : mem'[i] # mem[i] =>
                 /\ commit_valid /\ commit.mem_write
                 /\ i = WordIndex(commit.mem_addr)
                 /\ \A l \in Lane : mem'[i][l] # mem[i][l] =>
                       \E k \in 0 .. 3 : l = (commit.mem_addr + k) % 4
                                         /\ (d_op = 0 => k = 0)
                                         /\ (d_op = 1 => k <= 1)
<1>1. /\ commit.next_pc = pc_next /\ commit.rd = commit_rd
      /\ commit.rd_wdata = commit_rd_wdata /\ commit.mem_write = commit_mem_write
      /\ commit.mem_addr = d_addr
  BY DEF commit
<1>2. commit_valid <=> ~stall
  BY DEF commit_valid, stall
<1>3. pc' = IF commit_valid THEN pc_next ELSE pc
  BY <1>2 DEF Clock, PcEdge
<1>4. regs' = IF commit_valid /\ commit_rd # 0
              THEN [regs EXCEPT ![commit_rd] = commit_rd_wdata] ELSE regs
  <2>1. regfile_we <=> commit_valid /\ reg_write(f)
    BY <1>2 DEF regfile_we, stall
  <2>2. CASE commit_valid /\ reg_write(f)
    BY <2>1, <2>2 DEF Clock, RegfileEdge, commit_rd, commit_rd_wdata
  <2>3. CASE ~(commit_valid /\ reg_write(f))
    BY <2>1, <2>3 DEF Clock, RegfileEdge, commit_rd
  <2> QED BY <2>2, <2>3
<1>5. ASSUME NEW i \in Index, mem'[i] # mem[i]
      PROVE  /\ commit_valid /\ commit_mem_write /\ i = WordIndex(d_addr)
             /\ \A l \in Lane : mem'[i][l] # mem[i][l] =>
                   \E k \in 0 .. 3 : l = (d_addr + k) % 4
                                     /\ (d_op = 0 => k = 0) /\ (d_op = 1 => k <= 1)
  <2>1. MemoryEdge(d_addr, d_op, d_read, d_write, d_wdata)
    BY DEF Clock
  <2>2. commit_mem_write
    BY <1>5, <2>1 DEF MemoryEdge, commit_mem_write, misaligned
  <2>3. commit_valid
    BY <2>2, StoreRetiresHere DEF StoreRetires
  <2>4. d_write /\ ~unaligned(d_addr, d_op)
    BY <2>2 DEF commit_mem_write, misaligned, d_misaligned
  <2>5. mem' = [mem EXCEPT ![WordIndex(d_addr)] = merged(@, d_addr, d_op, d_wdata)]
    BY <2>1, <2>2 DEF MemoryEdge, commit_mem_write, misaligned
  <2>6. mem \in [Index -> MemWord] /\ d_addr \in Nat
    BY SignalTypes, WordNat DEF TypeOK, MemoryTypeOK, d_addr
  <2>7. i = WordIndex(d_addr) /\ mem'[i] = merged(mem[i], d_addr, d_op, d_wdata)
    BY <1>5, <2>5, <2>6
  <2>8. ASSUME NEW l \in Lane, mem'[i][l] # mem[i][l] PROVE l \in byte_en(d_addr, d_op)
    BY <2>7, <2>8 DEF merged
  <2> QED BY <2>2, <2>3, <2>4, <2>6, <2>7, <2>8, EnabledLanes
<1> HIDE DEF commit
<1> QED BY <1>1, <1>3, <1>4, <1>5

\* Outside reset nothing happens that the commit port does not tell: the pc and
\* the registers move as reported, and only the bytes of a reported store change.
THEOREM TraceCorrect == Spec => TraceComplete
<1>1. TypeOK /\ WellFormed /\ [Next]_vars =>
        [~rst =>
           /\ pc' = IF commit_valid THEN commit.next_pc ELSE pc
           /\ regs' = IF commit_valid /\ commit.rd # 0
                      THEN [regs EXCEPT ![commit.rd] = commit.rd_wdata] ELSE regs
           /\ \A i \in Index : mem'[i] # mem[i] =>
                 /\ commit_valid /\ commit.mem_write
                 /\ i = WordIndex(commit.mem_addr)
                 /\ \A l \in Lane : mem'[i][l] # mem[i][l] =>
                       \E k \in 0 .. 3 : l = (commit.mem_addr + k) % 4
                                         /\ (d_op = 0 => k = 0)
                                         /\ (d_op = 1 => k <= 1)]_vars
  BY TraceStep DEF Next
<1> QED BY <1>1, TypeCorrect, WellFormedCorrect, PTL DEF Spec, TraceComplete
=============================================================================
