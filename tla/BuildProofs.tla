----------------------------- MODULE BuildProofs -----------------------------
(***************************************************************************)
(* A board that no reset started on a changed memory shows what            *)
(* build_program.py reported of a program that uses only addresses which   *)
(* board and model both have, for every memory size of either, divider and *)
(* window.  The tool runs the golden model                                 *)
(* to its end before the board starts, so the proof remembers the states   *)
(* the model went through: the board is always in one of them, as far as   *)
(* the memory that both have goes.                                         *)
(***************************************************************************)
EXTENDS BuildProgram, SocProofs

\* The tool's golden model in any state, which step() reads.
Tool(m, r, p) == INSTANCE Iss WITH WORDS <- ModelWords, mem <- m, regs <- r, pc <- p,
                                   halted <- FALSE, halt_cause <- HALT_NONE, Programs <- {}

\* What step() raises, the addresses it uses beside the pc, the state it leaves.
CauseOf(s) == Tool(s.mem, s.regs, s.pc)!Cause
Inside(s) ==
    /\ ~Beyond(s.pc)
    /\ Tool(s.mem, s.regs, s.pc)!opcode \in {"LOAD", "STORE"}
          => ~Beyond(Tool(s.mem, s.regs, s.pc)!mem_addr)
After(s) ==
    [mem  |-> IF Tool(s.mem, s.regs, s.pc)!opcode = "STORE"
              THEN Tool(s.mem, s.regs, s.pc)!Store(Tool(s.mem, s.regs, s.pc)!funct3,
                     Tool(s.mem, s.regs, s.pc)!mem_addr, Tool(s.mem, s.regs, s.pc)!b)
              ELSE s.mem,
     regs |-> IF Tool(s.mem, s.regs, s.pc)!has_rd_value
                    /\ Tool(s.mem, s.regs, s.pc)!fields.rd # 0
              THEN [s.regs EXCEPT ![Tool(s.mem, s.regs, s.pc)!fields.rd] =
                                     Tool(s.mem, s.regs, s.pc)!rd_value]
              ELSE s.regs,
     pc   |-> Tool(s.mem, s.regs, s.pc)!next_pc]

ModelState == [mem |-> m_mem, regs |-> m_regs, pc |-> m_pc]
First == [mem |-> Padded(ModelWords), regs |-> [r \in Reg |-> 0], pc |-> 0]

\* The memory of the model, and the words of it that the board has too.
ToolIndex == 0 .. ModelWords - 1
Shared == Index \cap ToolIndex

\* The board is in state s of the model, in the memory that both have.
Agrees(s) ==
    /\ DOMAIN s.mem = ToolIndex /\ regs = s.regs /\ pc = s.pc
    /\ \A i \in Shared : FromLanes[mem[i]] = s.mem[i]

-----------------------------------------------------------------------------
(* One step of the tool's model *)

\* The model of the tool is one of these machines.
LEMMA ModelReads ==
    /\ CauseOf(ModelState) = Model!Cause
    /\ Tool(m_mem, m_regs, m_pc)!opcode = Model!opcode
    /\ Tool(m_mem, m_regs, m_pc)!mem_addr = Model!mem_addr
<1>1. ModelState.mem = m_mem /\ ModelState.regs = m_regs /\ ModelState.pc = m_pc
  BY DEF ModelState
<1>2. Tool(m_mem, m_regs, m_pc)!Cause = Model!Cause
  BY DEF Tool!Cause, Model!Cause, Tool!fields, Model!fields, Tool!inst, Model!inst,
         Tool!WordIndex, Model!WordIndex, Tool!Illegal, Model!Illegal, Tool!Opcodes,
         Model!Opcodes, Tool!opcode, Model!opcode, Tool!funct3, Model!funct3, Tool!a, Model!a,
         Tool!b, Model!b, Tool!mem_addr, Model!mem_addr, Tool!next_pc, Model!next_pc,
         Tool!BranchTaken, Model!BranchTaken, Tool!Truncate, Model!Truncate, Tool!Modulus,
         Model!Modulus, Tool!Signed, Model!Signed, Tool!Misaligned, Model!Misaligned,
         Tool!HALT_NONE, Model!HALT_NONE, Tool!HALT_ECALL, Model!HALT_ECALL,
         Tool!HALT_EBREAK, Model!HALT_EBREAK, Tool!HALT_ILLEGAL, Model!HALT_ILLEGAL,
         Tool!HALT_MEM_MISALIGN, Model!HALT_MEM_MISALIGN,
         Tool!HALT_FETCH_MISALIGN, Model!HALT_FETCH_MISALIGN
<1>3. /\ Tool(m_mem, m_regs, m_pc)!opcode = Model!opcode
      /\ Tool(m_mem, m_regs, m_pc)!mem_addr = Model!mem_addr
  BY DEF Tool!fields, Model!fields, Tool!inst, Model!inst, Tool!WordIndex, Model!WordIndex,
         Tool!opcode, Model!opcode, Tool!a, Model!a, Tool!mem_addr, Model!mem_addr,
         Tool!Truncate, Model!Truncate, Tool!Modulus, Model!Modulus
<1> QED BY <1>1, <1>2, <1>3 DEF CauseOf

\* A retirement of the model leads to the state After says.
LEMMA ModelAfter == Model!Retire => ModelState' = After(ModelState)
<1> SUFFICES ASSUME Model!Retire PROVE ModelState' = After(ModelState)
  OBVIOUS
<1>1. ModelState.mem = m_mem /\ ModelState.regs = m_regs /\ ModelState.pc = m_pc
  BY DEF ModelState
<1>2. ModelState' = [mem |-> m_mem', regs |-> m_regs', pc |-> m_pc']
  BY DEF ModelState
<1>3. m_pc' = Tool(m_mem, m_regs, m_pc)!next_pc
  BY DEF Model!Retire, Tool!fields, Model!fields, Tool!inst, Model!inst,
         Tool!WordIndex, Model!WordIndex,
         Tool!opcode, Model!opcode, Tool!funct3, Model!funct3, Tool!a, Model!a,
         Tool!b, Model!b, Tool!next_pc, Model!next_pc,
         Tool!BranchTaken, Model!BranchTaken, Tool!Truncate, Model!Truncate, Tool!Modulus,
         Model!Modulus, Tool!Signed, Model!Signed
<1>4. m_mem' = IF Tool(m_mem, m_regs, m_pc)!opcode = "STORE"
               THEN Tool(m_mem, m_regs, m_pc)!Store(Tool(m_mem, m_regs, m_pc)!funct3,
                      Tool(m_mem, m_regs, m_pc)!mem_addr, Tool(m_mem, m_regs, m_pc)!b)
               ELSE m_mem
  BY DEF Model!Retire, Tool!fields, Model!fields, Tool!inst, Model!inst,
         Tool!WordIndex, Model!WordIndex, Tool!opcode, Model!opcode,
         Tool!funct3, Model!funct3, Tool!a, Model!a, Tool!b, Model!b,
         Tool!mem_addr, Model!mem_addr, Tool!Truncate, Model!Truncate,
         Tool!Modulus, Model!Modulus, Tool!Store, Model!Store, Tool!Splice, Model!Splice,
         Tool!Slice, Model!Slice, Tool!Shift, Model!Shift, Tool!HalfOffset, Model!HalfOffset
<1>5. m_regs' = IF Tool(m_mem, m_regs, m_pc)!has_rd_value
                     /\ Tool(m_mem, m_regs, m_pc)!fields.rd # 0
                THEN [m_regs EXCEPT ![Tool(m_mem, m_regs, m_pc)!fields.rd] =
                                       Tool(m_mem, m_regs, m_pc)!rd_value]
                ELSE m_regs
  <2>1. /\ Tool(m_mem, m_regs, m_pc)!fields = Model!fields
        /\ Tool(m_mem, m_regs, m_pc)!has_rd_value <=> Model!has_rd_value
    BY DEF Tool!fields, Model!fields, Tool!inst, Model!inst,
           Tool!WordIndex, Model!WordIndex, Tool!opcode, Model!opcode,
           Tool!has_rd_value, Model!has_rd_value
  <2>2. Tool(m_mem, m_regs, m_pc)!rd_value = Model!rd_value
    BY DEF Tool!fields, Model!fields, Tool!inst, Model!inst,
           Tool!WordIndex, Model!WordIndex, Tool!opcode, Model!opcode,
           Tool!funct3, Model!funct3, Tool!a, Model!a, Tool!b, Model!b,
           Tool!mem_addr, Model!mem_addr, Tool!Truncate, Model!Truncate,
           Tool!Modulus, Model!Modulus, Tool!rd_value, Model!rd_value, Tool!Load, Model!Load,
           Tool!Slice, Model!Slice, Tool!Shift, Model!Shift, Tool!HalfOffset, Model!HalfOffset,
           Tool!SignExtend, Model!SignExtend, Tool!AluResult, Model!AluResult, Tool!Alu,
           Model!Alu, Tool!Flag, Model!Flag, Tool!Signed, Model!Signed
  <2> QED BY <2>1, <2>2 DEF Model!Retire
<1> QED BY <1>1, <1>2, <1>3, <1>4, <1>5 DEF After

-----------------------------------------------------------------------------
(* One step of the board *)

\* Below the end of both memories addresses have not wrapped in either.
LEMMA InBoth ==
    ASSUME NEW m, NEW r, NEW p, NEW v \in Nat, ~Beyond(v)
    PROVE  /\ Golden!WordIndex(v) = Tool(m, r, p)!WordIndex(v)
           /\ Golden!WordIndex(v) \in Shared
<1>1. WORDS \in Nat \ {0} /\ ModelWords \in Nat \ {0} /\ v < 4 * WORDS /\ v < 4 * ModelWords
  BY SizeAssumption, BuildAssumption DEF Beyond
<1>2. PICK q \in Nat : q = v \div 4 /\ q < WORDS /\ q < ModelWords
  BY <1>1
<1>3. q % WORDS = q /\ q % ModelWords = q
  BY <1>1, <1>2
<1> QED BY <1>1, <1>2, <1>3 DEF Golden!WordIndex, Tool!WordIndex, Shared, Index, ToolIndex

\* Where the memories agree on the instruction, so do the board's golden model
\* and the tool's on everything but loads and stores.
LEMMA SameInstruction ==
    ASSUME NEW m, Tool(m, regs, pc)!inst = Golden!inst
    PROVE  /\ Tool(m, regs, pc)!fields = Golden!fields
           /\ Tool(m, regs, pc)!opcode = Golden!opcode
           /\ Tool(m, regs, pc)!funct3 = Golden!funct3 /\ Tool(m, regs, pc)!b = Golden!b
           /\ Tool(m, regs, pc)!mem_addr = Golden!mem_addr
           /\ Tool(m, regs, pc)!next_pc = Golden!next_pc
           /\ Tool(m, regs, pc)!has_rd_value <=> Golden!has_rd_value
           /\ Tool(m, regs, pc)!Cause = Golden!Cause
<1> PICK g : g = Golden!fields
  OBVIOUS
<1>1. Tool(m, regs, pc)!fields = g /\ Golden!fields = g
  BY DEF Tool!fields, Golden!fields
<1>2. /\ Tool(m, regs, pc)!opcode = Golden!opcode /\ Tool(m, regs, pc)!funct3 = Golden!funct3
      /\ Tool(m, regs, pc)!a = Golden!a /\ Tool(m, regs, pc)!b = Golden!b
  BY <1>1 DEF Tool!opcode, Golden!opcode, Tool!funct3, Golden!funct3, Tool!a, Golden!a,
              Tool!b, Golden!b
<1>3. Tool(m, regs, pc)!mem_addr = Golden!mem_addr
  BY <1>1, <1>2 DEF Tool!mem_addr, Golden!mem_addr, Tool!Truncate, Golden!Truncate,
                    Tool!Modulus, Golden!Modulus
<1>4. Tool(m, regs, pc)!next_pc = Golden!next_pc
  <2>1. /\ \A v : Tool(m, regs, pc)!Truncate(v) = Golden!Truncate(v)
        /\ Tool(m, regs, pc)!BranchTaken(Golden!funct3, Golden!a, Golden!b)
               <=> Golden!BranchTaken(Golden!funct3, Golden!a, Golden!b)
    BY DEF Tool!Truncate, Golden!Truncate, Tool!Modulus, Golden!Modulus,
           Tool!BranchTaken, Golden!BranchTaken, Tool!Signed, Golden!Signed
  <2> USE <1>1, <1>2, <2>1 DEF Tool!next_pc, Golden!next_pc
  <2>2. CASE Golden!opcode = "JAL"
    BY <2>2
  <2>3. CASE Golden!opcode = "JALR"
    BY <2>3
  <2>4. CASE Golden!opcode = "BRANCH" /\ Golden!BranchTaken(Golden!funct3, Golden!a, Golden!b)
    BY <2>4
  <2>5. CASE /\ Golden!opcode \notin {"JAL", "JALR"}
             /\ ~(/\ Golden!opcode = "BRANCH"
                  /\ Golden!BranchTaken(Golden!funct3, Golden!a, Golden!b))
    BY <2>5
  <2> QED BY <2>2, <2>3, <2>4, <2>5
<1>5. Tool(m, regs, pc)!has_rd_value <=> Golden!has_rd_value
  BY <1>2 DEF Tool!has_rd_value, Golden!has_rd_value
<1>6. Tool(m, regs, pc)!Cause = Golden!Cause
  <2>1. /\ Tool(m, regs, pc)!Illegal(g) <=> Golden!Illegal(g)
        /\ \A v, w : Tool(m, regs, pc)!Misaligned(v, w) <=> Golden!Misaligned(v, w)
    BY DEF Tool!Illegal, Golden!Illegal, Tool!Opcodes, Golden!Opcodes,
           Tool!Misaligned, Golden!Misaligned
  <2> QED BY <1>1, <1>2, <1>3, <1>4, <2>1
          DEF Tool!Cause, Golden!Cause, Tool!HALT_NONE, Golden!HALT_NONE,
              Tool!HALT_ECALL, Golden!HALT_ECALL, Tool!HALT_EBREAK, Golden!HALT_EBREAK,
              Tool!HALT_ILLEGAL, Golden!HALT_ILLEGAL,
              Tool!HALT_MEM_MISALIGN, Golden!HALT_MEM_MISALIGN,
              Tool!HALT_FETCH_MISALIGN, Golden!HALT_FETCH_MISALIGN
<1> QED BY <1>1, <1>2, <1>3, <1>4, <1>5, <1>6

\* Of memory, the value for rd depends on the word that a load addresses.
LEMMA SameResultOf ==
    ASSUME NEW m, Tool(m, regs, pc)!inst = Golden!inst,
           Golden!opcode = "LOAD" =>
              m[Tool(m, regs, pc)!WordIndex(Golden!mem_addr)] =
              FromLanes[mem[Golden!WordIndex(Golden!mem_addr)]]
              /\ Golden!WordIndex(Golden!mem_addr) \in Index
    PROVE  Tool(m, regs, pc)!rd_value = Golden!rd_value
<1>1. /\ Tool(m, regs, pc)!fields = Golden!fields /\ Tool(m, regs, pc)!opcode = Golden!opcode
      /\ Tool(m, regs, pc)!funct3 = Golden!funct3 /\ Tool(m, regs, pc)!b = Golden!b
      /\ Tool(m, regs, pc)!mem_addr = Golden!mem_addr
  BY SameInstruction
<1>2. Tool(m, regs, pc)!a = Golden!a
  BY <1>1 DEF Tool!a, Golden!a
<1>3. ASSUME Golden!opcode = "LOAD"
      PROVE  Tool(m, regs, pc)!Load(Golden!funct3, Golden!mem_addr)
                = Golden!Load(Golden!funct3, Golden!mem_addr)
  <2> PICK word, v, w : /\ word = FromLanes[mem[Golden!WordIndex(Golden!mem_addr)]]
                        /\ v = Golden!funct3 /\ w = Golden!mem_addr
    OBVIOUS
  <2>1. m[Tool(m, regs, pc)!WordIndex(w)] = word
    BY <1>3
  <2>2. [i \in Index |-> FromLanes[mem[i]]][Golden!WordIndex(w)] = word
    BY <1>3
  <2> DEFINE lane_b == Golden!Slice(word, w % 4, ByteMod)
             lane_h == Golden!Slice(word, Golden!HalfOffset(w), ByteMod * ByteMod)
             value == CASE v = 0 -> Golden!SignExtend(lane_b, ByteMod)
                        [] v = 1 -> Golden!SignExtend(lane_h, ByteMod * ByteMod)
                        [] v = 4 -> lane_b
                        [] v = 5 -> lane_h
                        [] OTHER -> word
  <2>3. Tool(m, regs, pc)!Load(v, w) = value
    <3>1. /\ Tool(m, regs, pc)!HalfOffset(w) = Golden!HalfOffset(w)
          /\ \A k, size : Tool(m, regs, pc)!Slice(word, k, size) = Golden!Slice(word, k, size)
          /\ \A u, size : Tool(m, regs, pc)!SignExtend(u, size) = Golden!SignExtend(u, size)
      BY DEF Tool!Slice, Golden!Slice, Tool!Shift, Golden!Shift, Tool!HalfOffset,
             Golden!HalfOffset, Tool!SignExtend, Golden!SignExtend, Tool!Modulus,
             Golden!Modulus
    <3> QED BY ONLY <2>1, <3>1 DEF Tool!Load
  <2>4. Golden!Load(v, w) = value
    BY ONLY <2>2 DEF Golden!Load
  <2>5. Tool(m, regs, pc)!Load(v, w) = Golden!Load(v, w)
    BY ONLY <2>3, <2>4
  <2> QED BY <2>5
<1>4. /\ \A v : Tool(m, regs, pc)!Truncate(v) = Golden!Truncate(v)
      /\ \A g, v, w : Tool(m, regs, pc)!AluResult(g, v, w) = Golden!AluResult(g, v, w)
  BY DEF Tool!Truncate, Golden!Truncate, Tool!Modulus, Golden!Modulus, Tool!AluResult,
         Golden!AluResult, Tool!Alu, Golden!Alu, Tool!Flag, Golden!Flag, Tool!Signed,
         Golden!Signed
<1> QED BY <1>1, <1>2, <1>3, <1>4 DEF Tool!rd_value, Golden!rd_value

\* A board in a state of the model sees the same fault there; when it retires,
\* it goes where the model goes.
LEMMA AgreesStep ==
    ASSUME TypeOK, NEW s, Agrees(s), Inside(s)
    PROVE  /\ CauseOf(s) = Golden!Cause
           /\ Golden!Retire => Agrees(After(s))'
<1> PICK m : m = s.mem
  OBVIOUS
<1>1. /\ s.mem = m /\ s.regs = regs /\ s.pc = pc
      /\ DOMAIN m = ToolIndex /\ \A i \in Shared : FromLanes[mem[i]] = m[i]
  BY DEF Agrees
<1>2. /\ ~Beyond(pc) /\ pc \in Nat
      /\ Tool(m, regs, pc)!opcode \in {"LOAD", "STORE"} => ~Beyond(Tool(m, regs, pc)!mem_addr)
  BY <1>1, WordNat DEF Inside, TypeOK
<1>3. Tool(m, regs, pc)!inst = Golden!inst
  <2>1. /\ Golden!WordIndex(pc) = Tool(m, regs, pc)!WordIndex(pc)
        /\ Golden!WordIndex(pc) \in Shared
    BY <1>2, InBoth
  <2> QED BY <1>1, <2>1 DEF Tool!inst, Golden!inst, Shared
<1>4. /\ Tool(m, regs, pc)!fields = Golden!fields
      /\ Tool(m, regs, pc)!opcode = Golden!opcode
      /\ Tool(m, regs, pc)!funct3 = Golden!funct3 /\ Tool(m, regs, pc)!b = Golden!b
      /\ Tool(m, regs, pc)!mem_addr = Golden!mem_addr
      /\ Tool(m, regs, pc)!next_pc = Golden!next_pc
      /\ Tool(m, regs, pc)!has_rd_value <=> Golden!has_rd_value
      /\ Tool(m, regs, pc)!Cause = Golden!Cause
  BY <1>3, SameInstruction
<1>5. CauseOf(s) = Golden!Cause
  BY <1>1, <1>4 DEF CauseOf
<1>6. ASSUME Golden!opcode \in {"LOAD", "STORE"}
      PROVE  /\ Golden!WordIndex(Golden!mem_addr) = Tool(m, regs, pc)!WordIndex(Golden!mem_addr)
             /\ Golden!WordIndex(Golden!mem_addr) \in Shared
  <2>1. Golden!mem_addr \in Nat /\ ~Beyond(Golden!mem_addr)
    <3>1. Golden!inst \in Word
      <4>1. Golden!WordIndex(pc) \in Index
        BY <1>2, IndexType, SameIsa
      <4> QED BY <4>1, JoinType DEF Golden!inst, TypeOK, MemoryTypeOK
    <3>2. Golden!fields \in Instruction /\ Golden!a \in Nat
      BY <3>1, FieldsAssumption, WordNat DEF Golden!fields, Golden!a, TypeOK, Instruction
    <3>3. Golden!fields.imm["I"] \in Nat /\ Golden!fields.imm["S"] \in Nat
      BY <3>2, WordNat DEF Instruction, ImmFormat
    <3>4. Golden!a + Golden!fields.imm["I"] \in Int /\ Golden!a + Golden!fields.imm["S"] \in Int
      BY <3>2, <3>3
    <3>5. Golden!mem_addr \in Word
      BY <1>6, <3>4, TruncateType, SameIsa DEF Golden!mem_addr
    <3> QED BY <1>2, <1>4, <1>6, <3>5, WordNat
  <2> QED BY <2>1, InBoth
<1>7. ASSUME Golden!Retire PROVE Agrees(After(s))'
  <2>1. pc' = After(s).pc
    BY <1>1, <1>4, <1>7 DEF After, Golden!Retire
  <2>2. regs' = After(s).regs
    <3>1. Tool(m, regs, pc)!rd_value = Golden!rd_value
      BY <1>1, <1>3, <1>4, <1>6, SameResultOf DEF Shared
    <3> QED BY <1>1, <1>4, <1>7, <3>1 DEF After, Golden!Retire
  <2>3. /\ DOMAIN After(s).mem = ToolIndex
        /\ \A i \in Shared : FromLanes[mem'[i]] = After(s).mem[i]
    <3>1. CASE Golden!opcode # "STORE"
      <4>1. After(s).mem = m
        BY <1>1, <1>4, <3>1 DEF After
      <4>2. [i \in Index |-> FromLanes[mem'[i]]] = [i \in Index |-> FromLanes[mem[i]]]
        BY <1>7, <3>1 DEF Golden!Retire
      <4>3. \A i \in Index : FromLanes[mem'[i]] = FromLanes[mem[i]]
        BY <4>2
      <4> QED BY <1>1, <4>1, <4>3 DEF Shared
    <3>2. CASE Golden!opcode = "STORE"
      <4> PICK word, j, v, w, x :
             /\ v = Golden!funct3 /\ w = Golden!mem_addr /\ x = Golden!b
             /\ j = Golden!WordIndex(w) /\ word = m[j]
        OBVIOUS
      <4> DEFINE new == CASE v = 0 -> Golden!Splice(word, w % 4, ByteMod, x)
                          [] v = 1 -> Golden!Splice(word, Golden!HalfOffset(w),
                                                    ByteMod * ByteMod, x)
                          [] OTHER -> x
      <4>1. /\ j = Tool(m, regs, pc)!WordIndex(w) /\ j \in Shared
            /\ j = Golden!WordIndex(w) /\ word = m[j]
        BY <1>6, <3>2
      <4>2. After(s).mem = [m EXCEPT ![j] = new]
        <5>1. After(s).mem = Tool(m, regs, pc)!Store(v, w, x)
          BY <1>1, <1>4, <3>2 DEF After
        <5>2. /\ Tool(m, regs, pc)!HalfOffset(w) = Golden!HalfOffset(w)
              /\ \A k, size : Tool(m, regs, pc)!Splice(word, k, size, x)
                                 = Golden!Splice(word, k, size, x)
          BY DEF Tool!Splice, Golden!Splice, Tool!Slice, Golden!Slice, Tool!Shift,
                 Golden!Shift, Tool!HalfOffset, Golden!HalfOffset
        <5>3. Tool(m, regs, pc)!Store(v, w, x) = [m EXCEPT ![j] = new]
          BY <4>1, <5>2, ZenonT(60) DEF Tool!Store
        <5> QED BY <5>1, <5>3
      <4>3. [i \in Index |-> FromLanes[mem'[i]]]
               = [[i \in Index |-> FromLanes[mem[i]]] EXCEPT ![j] = new]
        <5> PICK all : all = [i \in Index |-> FromLanes[mem[i]]]
          OBVIOUS
        <5>1. all[j] = word
          BY <1>1, <4>1 DEF Shared
        <5>2. Golden!Store(v, w, x) = [all EXCEPT ![j] = new]
          BY <4>1, <5>1 DEF Golden!Store
        <5>3. [i \in Index |-> FromLanes[mem'[i]]] = Golden!Store(v, w, x)
          BY <1>7, <3>2 DEF Golden!Retire
        <5> QED BY <5>2, <5>3
      <4> HIDE DEF new
      <4>4. \A i \in Index :
               FromLanes[mem'[i]] = IF i = j THEN new ELSE FromLanes[mem[i]]
        BY <4>3
      <4> QED BY <1>1, <4>1, <4>2, <4>4 DEF Shared
    <3> QED BY <3>1, <3>2
  <2> QED BY <2>1, <2>2, <2>3 DEF Agrees, Shared
<1> QED BY <1>5, <1>7

-----------------------------------------------------------------------------
(* The states the model went through, and the board among them              *)

\* The model started with the program, retired n times and is in the state
\* after that; a trap is that of the instruction there.
Went(n, st) ==
    /\ st[0] = First /\ st[n] = ModelState
    /\ \A k \in 0 .. n : DOMAIN st[k].mem = ToolIndex
    /\ \A k \in 0 .. n - 1 : /\ CauseOf(st[k]) = HALT_NONE /\ st[k + 1] = After(st[k])
                             /\ overrun \/ Inside(st[k])
    /\ m_halted => /\ m_halt_cause = CauseOf(ModelState) /\ m_halt_cause # HALT_NONE
                   /\ overrun \/ Inside(ModelState)

\* Where the board is comparable with the report.
Comparable == status = "reported" /\ m_halted /\ ~overrun /\ ~spoiled

\* Until the report the board has not been switched on.
Off == mem = Image /\ pc = 0 /\ regs = [r \in Reg |-> 0] /\ ~halted /\ ~spoiled

BuildInv ==
    /\ TypeOK /\ WellFormed /\ HaltExplained
    /\ words \in Seq(Word)
    /\ status # "reported" => Off
    /\ \E n \in Nat : \E st : Went(n, st) /\ (Comparable => \E k \in 0 .. n : Agrees(st[k]))

\* The hex file in the board's memory is the program in the model's.
LEMMA StartsAlike ==
    ASSUME words \in Seq(Word)
    PROVE  /\ DOMAIN First.mem = ToolIndex
           /\ \A i \in Shared : FromLanes[Image[i]] = First.mem[i]
<1>1. WORDS \in Nat \ {0} /\ ModelWords \in Nat \ {0} /\ Len(words) \in Nat
  BY SizeAssumption, BuildAssumption
<1>2. ASSUME NEW i \in Shared PROVE FromLanes[Image[i]] = First.mem[i]
  <2>1. /\ i \in Nat /\ i \in 0 .. WORDS - 1 /\ i \in 0 .. ModelWords - 1 /\ i \in Index
    BY <1>1 DEF Shared, Index, ToolIndex
  <2> PICK w : w = IF i < Len(words) THEN words[i + 1] ELSE 0
    OBVIOUS
  <2>2. w \in Word
    <3>1. CASE i < Len(words)
      <4>1. i + 1 \in 1 .. Len(words)
        BY <1>1, <2>1, <3>1
      <4> QED BY <3>1, <4>1
    <3>2. CASE ~(i < Len(words))
      BY <3>2, WordNat
    <3> QED BY <3>1, <3>2
  <2>3. Padded(WORDS)[i] = w /\ Padded(ModelWords)[i] = w
    BY <2>1 DEF Padded
  <2>4. Image[i] = ToLanes(w)
    BY <2>1, <2>3 DEF Image
  <2> QED BY <2>2, <2>3, <2>4, JoinOfLanes DEF First
<1>3. DOMAIN First.mem = ToolIndex
  BY DEF First, Padded, ToolIndex
<1> QED BY <1>2, <1>3

\* The tool and the board before either has run.
LEMMA BuildStarts == ASSUME BuildInit PROVE BuildInv
<1>1. Init /\ mem = Image
  BY DEF BuildInit, BoardInit
<1>2. TypeOK /\ WellFormed /\ HaltExplained
  <2>1. pc \in Word /\ regs \in [Reg -> Word]
    BY <1>1, WordNat DEF Init
  <2>2. MemoryTypeOK
    BY <1>1, ProgramsAssumption DEF Init, MemoryTypeOK
  <2>3. halt_cause \in HaltCause
    BY <1>1 DEF Init, HaltCause, HALT_NONE, HALT_FETCH_MISALIGN
  <2>4. halted \in BOOLEAN /\ rst \in BOOLEAN /\ step_en \in BOOLEAN
    BY <1>1 DEF Init
  <2>5. WellFormed
    BY <1>1, SizeAssumption DEF Init, WellFormed, Reg
  <2>6. HaltExplained
    BY <1>1 DEF Init, HaltExplained
  <2> QED BY <2>1, <2>2, <2>3, <2>4, <2>5, <2>6 DEF TypeOK
<1>3. words \in Seq(Word) /\ Off /\ ~m_halted
  BY <1>1, BuildAssumption DEF BuildInit, Init, Off
<1>4. ModelState = First
  BY DEF BuildInit, ModelState, First
<1>5. Went(0, [k \in {0} |-> First])
  BY <1>3, <1>4 DEF Went, First, Padded, ToolIndex
<1>6. ~Comparable
  BY <1>3 DEF Comparable
<1> QED BY <1>2, <1>3, <1>5, <1>6 DEF BuildInv

\* An iteration of Iss.run, and the report.
LEMMA RunKept == ASSUME BuildInv, run PROVE BuildInv'
<1>1. UNCHANGED vars /\ words' = words /\ spoiled' = spoiled
  BY DEF run, allboard
<1>2. /\ mem' = mem /\ pc' = pc /\ regs' = regs /\ halted' = halted /\ Image' = Image
      /\ \A s : Agrees(s)' <=> Agrees(s)
  BY <1>1 DEF vars, arch, Image, Padded, Agrees
<1>3. TypeOK' /\ WellFormed' /\ HaltExplained' /\ words' \in Seq(Word)
  BY <1>1, ClockTypes, WellFormedStep, HaltStep DEF BuildInv
<1>4. status = "model" /\ Off
  BY DEF run, BuildInv
<1>5. Off'
  BY <1>1, <1>2, <1>4 DEF Off
<1>6. Agrees(First)' /\ First' = First
  BY <1>1, <1>2, <1>4, StartsAlike DEF Off, BuildInv, First, Padded, Agrees
<1>7. PICK n \in Nat : \E st : Went(n, st)
  BY DEF BuildInv
<1>8. PICK st : Went(n, st)
  BY <1>7
<1>9. \E k \in Nat : \E went : Went(k, went)'
  <2>1. CASE UNCHANGED <<steps, model, overrun>>
    <3>1. Went(n, st)'
      BY <1>6, <1>8, <2>1 DEF Went, model, ModelState
    <3> QED BY <3>1
  <2>2. CASE Model!Step /\ ~m_halted
             /\ overrun' = (overrun \/ Beyond(m_pc)
                              \/ (Model!opcode \in {"LOAD", "STORE"} /\ Beyond(Model!mem_addr)))
    <3>1. overrun' \/ Inside(ModelState)
      <4>1. ModelState.mem = m_mem /\ ModelState.regs = m_regs /\ ModelState.pc = m_pc
        BY DEF ModelState
      <4> QED BY <2>2, <4>1, ModelReads DEF Inside
    <3>2. overrun => overrun'
      BY <2>2
    <3>3. CASE Model!Trap
      <4>1. m_mem' = m_mem /\ m_regs' = m_regs /\ m_pc' = m_pc
            /\ m_halt_cause' = CauseOf(ModelState) /\ m_halt_cause' # HALT_NONE
        BY <3>3, ModelReads DEF Model!Trap, Model!HALT_NONE, HALT_NONE
      <4>2. ModelState' = ModelState
        BY <4>1 DEF ModelState
      <4>3. Went(n, st)'
        BY <1>6, <1>8, <3>1, <3>2, <4>1, <4>2 DEF Went
      <4> QED BY <4>3
    <3>4. CASE Model!Retire
      <4>1. ModelState' = After(ModelState) /\ CauseOf(ModelState) = HALT_NONE /\ ~m_halted'
        BY <2>2, <3>4, ModelAfter, ModelReads DEF Model!Retire, Model!HALT_NONE, HALT_NONE
      <4>2. DOMAIN ModelState'.mem = ToolIndex
        <5>1. ModelState'.mem = m_mem' /\ ModelState.mem = m_mem
          BY DEF ModelState
        <5>2. DOMAIN m_mem = ToolIndex
          BY <1>8, <5>1 DEF Went
        <5>3. CASE Model!opcode # "STORE"
          BY <3>4, <5>1, <5>2, <5>3 DEF Model!Retire
        <5>4. CASE Model!opcode = "STORE"
          BY <3>4, <5>1, <5>2, <5>4 DEF Model!Retire, Model!Store
        <5> QED BY <5>3, <5>4
      <4> PICK next : next = [k \in 0 .. n + 1 |-> IF k <= n THEN st[k] ELSE ModelState']
        OBVIOUS
      <4>3. next[n + 1] = ModelState' /\ n + 1 \in Nat /\ \A k \in 0 .. n : next[k] = st[k]
        OBVIOUS
      <4>4. \A k \in 0 .. n + 1 : DOMAIN next[k].mem = ToolIndex
        <5> SUFFICES ASSUME NEW k \in 0 .. n + 1 PROVE DOMAIN next[k].mem = ToolIndex
          OBVIOUS
        <5>1. k \in 0 .. n \/ k = n + 1
          OBVIOUS
        <5> QED BY <1>8, <4>2, <4>3, <5>1 DEF Went
      <4>5. \A k \in 0 .. n : /\ CauseOf(next[k]) = HALT_NONE /\ next[k + 1] = After(next[k])
                              /\ overrun' \/ Inside(next[k])
        <5> SUFFICES ASSUME NEW k \in 0 .. n
                     PROVE  /\ CauseOf(next[k]) = HALT_NONE /\ next[k + 1] = After(next[k])
                            /\ overrun' \/ Inside(next[k])
          OBVIOUS
        <5>1. CASE k = n
          BY <1>8, <3>1, <4>1, <4>3, <5>1 DEF Went
        <5>2. CASE k \in 0 .. n - 1
          <6>1. next[k] = st[k] /\ next[k + 1] = st[k + 1]
            BY <4>3, <5>2
          <6> QED BY <1>8, <3>2, <5>2, <6>1 DEF Went
        <5> QED BY <5>1, <5>2
      <4>6. next[0] = First'
        BY <1>6, <1>8, <4>3 DEF Went
      <4>7. (n + 1) - 1 = n
        OBVIOUS
      <4>8. Went(n + 1, next)'
        BY <4>1, <4>3, <4>4, <4>5, <4>6, <4>7 DEF Went
      <4> QED BY <4>3, <4>8
    <3> QED BY <2>2, <3>3, <3>4 DEF Model!Step, Model!Halted
  <2> QED BY <2>1, <2>2 DEF run
<1>10. PICK k \in Nat : \E went : Went(k, went)'
  BY <1>9
<1>11. PICK went : Went(k, went)'
  BY <1>10
<1>12. 0 \in 0 .. k /\ Agrees(went[0])'
  BY <1>6, <1>11 DEF Went
<1> QED BY <1>3, <1>5, <1>11, <1>12 DEF BuildInv

\* A clock cycle of the board after the report.
LEMMA PowerUpKept == ASSUME BuildInv, PowerUp PROVE BuildInv'
<1>1. /\ BoardNext /\ status = "reported" /\ spoiled' = IF rst THEN mem' # Image ELSE spoiled
      /\ UNCHANGED <<words, status, steps, model, overrun>>
  BY DEF PowerUp
<1>2. Clock /\ Next
  <2>1. step_en' \in BOOLEAN
    <3>1. Control!step_en' \in BOOLEAN
      BY DEF Control!step_en
    <3> QED BY <1>1, <3>1 DEF BoardNext
  <2> QED BY <1>1, <2>1 DEF BoardNext, Next, Inputs
<1>3. TypeOK /\ WellFormed /\ HaltExplained /\ words \in Seq(Word)
  BY DEF BuildInv
<1>4. TypeOK' /\ WellFormed' /\ HaltExplained'
  BY <1>2, <1>3, ClockTypes, WellFormedStep, HaltStep
<1>5. words' \in Seq(Word) /\ (status' # "reported" => Off')
  BY <1>1, <1>3
<1>6. PICK n \in Nat : \E st : Went(n, st) /\ (Comparable => \E k \in 0 .. n : Agrees(st[k]))
  BY DEF BuildInv
<1>7. PICK st : Went(n, st) /\ (Comparable => \E k \in 0 .. n : Agrees(st[k]))
  BY <1>6
<1>8. First' = First /\ Image' = Image /\ ModelState' = ModelState
  BY <1>1 DEF First, Image, Padded, ModelState, model
<1>9. Went(n, st)'
  BY <1>1, <1>7, <1>8 DEF Went, model
<1>10. ASSUME Comparable' PROVE \E k \in 0 .. n : Agrees(st[k])'
  <2>1. CASE rst
    <3>1. mem' = Image' /\ pc' = 0 /\ regs' = [r \in Reg |-> 0]
      BY <1>1, <1>2, <1>8, <1>10, <2>1 DEF Comparable, Clock, PcEdge, RESET_PC, RegfileEdge
    <3>2. Agrees(First)'
      BY <1>3, <1>8, <3>1, StartsAlike DEF Agrees, First
    <3>3. 0 \in 0 .. n /\ st[0] = First'
      BY <1>7, <1>8 DEF Went
    <3> QED BY <3>2, <3>3
  <2>2. CASE ~rst
    <3>1. Comparable /\ ~overrun /\ m_halted
      BY <1>1, <1>10, <2>2 DEF Comparable, model
    <3>2. PICK k \in 0 .. n : Agrees(st[k])
      BY <1>7, <3>1
    <3>3. k \in 0 .. n - 1 \/ k = n
      BY <3>2
    <3>4. Inside(st[k])
      BY <1>7, <3>1, <3>2, <3>3 DEF Went
    <3>5. CASE commit_valid
      <4>1. Golden!Retire
        BY <1>2, <1>3, <3>5, RetireStep
      <4>2. CauseOf(st[k]) = Golden!Cause /\ Agrees(After(st[k]))'
        BY <1>3, <3>2, <3>4, <4>1, AgreesStep
      <4>3. CauseOf(st[k]) = HALT_NONE
        BY <4>1, <4>2, SameIsa DEF Golden!Retire
      <4>4. k # n
        BY <1>7, <3>1, <4>3 DEF Went
      <4>5. k + 1 \in 0 .. n /\ st[k + 1] = After(st[k])
        BY <1>7, <3>3, <4>4 DEF Went
      <4> QED BY <4>2, <4>5
    <3>6. CASE ~commit_valid
      <4>1. regs' = regs /\ pc' = pc
            /\ [i \in Index |-> FromLanes[mem'[i]]] = [i \in Index |-> FromLanes[mem[i]]]
        <5>1. CASE halted \/ ~step_en
          BY <1>2, <1>3, <2>2, <5>1, FrozenStep DEF arch
        <5>2. CASE trap /\ step_en
          BY <1>2, <1>3, <2>2, <5>2, TrapStep DEF Golden!Trap
        <5> QED BY <2>2, <3>6, <5>1, <5>2 DEF commit_valid
      <4>2. \A i \in Index : FromLanes[mem'[i]] = FromLanes[mem[i]]
        BY <4>1
      <4>3. Agrees(st[k])'
        BY <3>2, <4>1, <4>2 DEF Agrees, Shared
      <4> QED BY <3>2, <4>3
    <3> QED BY <3>5, <3>6
  <2> QED BY <2>1, <2>2
<1> QED BY <1>4, <1>5, <1>9, <1>10 DEF BuildInv

\* Either of them, and a stutter.
LEMMA BuildStep == BuildInv /\ [BuildNext]_buildvars => BuildInv'
<1> SUFFICES ASSUME BuildInv, [BuildNext]_buildvars PROVE BuildInv'
  OBVIOUS
<1>1. CASE UNCHANGED buildvars
  <2>1. UNCHANGED vars /\ UNCHANGED <<words, status, model, overrun, spoiled>>
    BY <1>1 DEF buildvars, allboard
  <2>2. TypeOK' /\ WellFormed' /\ HaltExplained'
    BY <2>1, ClockTypes, WellFormedStep, HaltStep DEF BuildInv
  <2>3. First' = First /\ ModelState' = ModelState /\ Off' = Off
        /\ words' = words /\ status' = status
    BY <2>1 DEF First, Off, Image, Padded, ModelState, model, vars, arch
  <2>4. \A n, st : Went(n, st)' <=> Went(n, st)
    BY <2>1, <2>3 DEF Went, model
  <2>5. (Comparable' <=> Comparable) /\ \A s : Agrees(s)' <=> Agrees(s)
    BY <2>1 DEF Comparable, Agrees, model, vars, arch
  <2> QED BY <2>2, <2>3, <2>4, <2>5 DEF BuildInv
<1> QED BY <1>1, RunKept, PowerUpKept DEF BuildNext

\* A model that ran to its trap and a board that halted are in the same state.
LEMMA ReportHere == ASSUME BuildInv PROVE ReportTrue
<1> SUFFICES ASSUME halted, m_halted, ~overrun, ~spoiled
             PROVE  /\ regs = m_regs /\ halt_cause = m_halt_cause
                    /\ \A i \in Index \cap DOMAIN m_mem : FromLanes[mem[i]] = m_mem[i]
  BY DEF ReportTrue
<1>1. Comparable
  BY DEF BuildInv, Off, Comparable
<1>2. PICK n \in Nat : \E st : Went(n, st) /\ \E k \in 0 .. n : Agrees(st[k])
  BY <1>1 DEF BuildInv
<1>3. PICK st : Went(n, st) /\ \E k \in 0 .. n : Agrees(st[k])
  BY <1>2
<1>4. PICK k \in 0 .. n : Agrees(st[k])
  BY <1>3
<1>5. Inside(st[k])
  <2>1. k \in 0 .. n - 1 \/ k = n
    BY <1>4
  <2> QED BY <1>3, <2>1 DEF Went
<1>6. CauseOf(st[k]) = halt_cause /\ halt_cause # HALT_NONE
  BY <1>4, <1>5, AgreesStep DEF BuildInv, HaltExplained
<1>7. k = n
  <2>1. k \in 0 .. n - 1 \/ k = n
    BY <1>4
  <2> QED BY <1>3, <1>6, <2>1 DEF Went
<1>8. st[k] = ModelState /\ m_halt_cause = CauseOf(ModelState) /\ DOMAIN st[k].mem = ToolIndex
  BY <1>3, <1>4, <1>7 DEF Went
<1>9. ModelState.mem = m_mem /\ ModelState.regs = m_regs
  BY DEF ModelState
<1> QED BY <1>4, <1>6, <1>8, <1>9 DEF Agrees, Shared

\* A board that has halted shows the registers, the cause and the memory that
\* the tool reported (build_program.py:49), for both memory sizes and every way
\* of stepping and slowing it.  Nothing is said of a program that used an address
\* only one of the memories has (overrun), nor after a reset that found the
\* memory changed (spoiled): there the board can show something else.
THEOREM ReportCorrect == BuildSpec => []ReportTrue
<1>1. BuildInit => BuildInv
  BY BuildStarts
<1>2. BuildInv => ReportTrue
  BY ReportHere
<1> QED BY <1>1, <1>2, BuildStep, PTL DEF BuildSpec
=============================================================================
