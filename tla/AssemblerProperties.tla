------------------------ MODULE AssemblerProperties ------------------------
(***************************************************************************)
(* What the test programs rest on: an assembled text means what it says to *)
(* the decoder.  source keeps the text, which the passes consume.          *)
(***************************************************************************)
EXTENDS Assembler, SequencesExt

VARIABLE source
hvars == <<vars, source>>

HInit == Init /\ source = text
HNext == Next /\ UNCHANGED source
HSpec == HInit /\ [][HNext]_hvars

LinkOps == {"jal"} \cup DOMAIN BRANCHES

\* The format of a real instruction's immediate, "R" for none.
Format(op) ==
    CASE op \in DOMAIN I_TYPE \cup DOMAIN LOADS \cup {"jalr"} -> "I"
      [] op \in DOMAIN STORES    -> "S"
      [] op \in DOMAIN BRANCHES  -> "B"
      [] op \in {"lui", "auipc"} -> "U"
      [] op = "jal"              -> "J"
      [] OTHER                   -> "R"

\* The immediates a format can hold.
ImmRange == [I |-> -2048 .. 2047, S |-> -2048 .. 2047, B |-> -4096 .. 4095,
             U |-> 0 .. 2^20 - 1, J |-> -(2^20) .. 2^20 - 1]
Fits(n, fmt) == n \in ImmRange[fmt] /\ (fmt \in {"B", "J"} => n % 2 = 0)

-----------------------------------------------------------------------------
(* The instruction set, read from the word *)

\* The fields of w spell the real instruction op.
Is(w, op) ==
    LET x == fields(w)
        funct == <<x.funct7, x.funct3>>
    IN \/ op \in DOMAIN R_TYPE   /\ x.opcode = Opcode.REG    /\ funct = R_TYPE[op]
       \/ op \in DOMAIN SHIFT_I  /\ x.opcode = Opcode.IMM    /\ funct = SHIFT_I[op]
       \/ op \in DOMAIN I_TYPE   /\ x.opcode = Opcode.IMM    /\ x.funct3 = I_TYPE[op]
       \/ op \in DOMAIN LOADS    /\ x.opcode = Opcode.LOAD   /\ x.funct3 = LOADS[op]
       \/ op \in DOMAIN STORES   /\ x.opcode = Opcode.STORE  /\ x.funct3 = STORES[op]
       \/ op \in DOMAIN BRANCHES /\ x.opcode = Opcode.BRANCH /\ x.funct3 = BRANCHES[op]
       \/ op = "lui"    /\ x.opcode = Opcode.LUI
       \/ op = "auipc"  /\ x.opcode = Opcode.AUIPC
       \/ op = "jal"    /\ x.opcode = Opcode.JAL
       \/ op = "jalr"   /\ x.opcode = Opcode.JALR     /\ x.funct3 = 0
       \/ op = "fence"  /\ x.opcode = Opcode.MISC_MEM /\ x.funct3 = 0
       \/ op = "ecall"  /\ x.opcode = Opcode.SYSTEM   /\ is_ecall(w)
       \/ op = "ebreak" /\ x.opcode = Opcode.SYSTEM   /\ is_ebreak(w)

Mnemonics == DOMAIN R_TYPE \cup DOMAIN SHIFT_I \cup DOMAIN I_TYPE \cup DOMAIN LOADS
             \cup DOMAIN STORES \cup DOMAIN BRANCHES
             \cup {"lui", "auipc", "jal", "jalr", "fence", "ecall", "ebreak"}

\* The register numbers w names, of those its instruction has.
RegistersOf(w, op) ==
    LET x == fields(w)
    IN [rd  |-> IF op \in DOMAIN STORES \cup DOMAIN BRANCHES THEN 0 ELSE x.rd,
        rs1 |-> IF op \in {"lui", "auipc", "jal"} THEN 0 ELSE x.rs1,
        rs2 |-> IF op \in DOMAIN R_TYPE \cup DOMAIN STORES \cup DOMAIN BRANCHES
                THEN x.rs2 ELSE 0]

-----------------------------------------------------------------------------
(* Sizes and addresses, from the text alone *)

Size(line) ==
    CASE line.op = "label" -> 0
      [] line.op = "li" ->
            IF (line.hi = 0 /\ line.lo < 2048) \/ (line.hi = 2^20 - 1 /\ line.lo >= 2048)
            THEN 1 ELSE 2
      [] OTHER -> 1

\* The address of line n of the source: the bytes of the lines before it.
AddressOf(n) ==
    LET after[k \in 0 .. Len(source)] ==
            IF k = 0 THEN Base ELSE after[k - 1] + 4 * Size(source[k])
    IN  after[n - 1]

\* The last line that defines label l; 0 when none does.
Definition(l) == Max({0} \cup {n \in DOMAIN source :
                                 source[n].op = "label" /\ source[n].name = l})

\* The operations that take a distance, and the labels a line uses.
Linking == LinkOps \cup {"j", "beqz", "bnez"}
Uses(line) == IF line.op \in {"label", "li"} \/ line.imm.label = "" THEN {}
              ELSE {line.imm.label}

WordAt(address) == words[(address - Base) \div 4 + 1]

-----------------------------------------------------------------------------
\* The next address and every item's address count the words before it, in
\* both passes: an expansion never shifts what follows (asm.py:176).
Layout ==
    /\ pc = Base + 4 * Len(items)
    /\ \A k \in DOMAIN items : items[k].at = Base + 4 * (k - 1)
    /\ words \in Seq(InstWord) /\ Len(words) <= Len(items)
    /\ \A l \in DOMAIN labels : l \in Labels /\ labels[l] \in Base .. pc

\* The word encoded last spells its own instruction and no other, with its
\* registers and, whenever it fits, its immediate (isa.py:44; decoder.sv:35).
Disassembles ==
    words # <<>> =>
        LET item == items[Len(words)]
            i == item.ins
            w == Last(words)
            n == IF i.op \in LinkOps THEN Relative(i.imm, item.at)
                                     ELSE Absolute(i.imm)
        IN i.op # ".word" =>
             /\ {op \in Mnemonics : Is(w, op)} = {i.op}
             /\ RegistersOf(w, i.op) = [rd |-> i.rd, rs1 |-> i.rs1, rs2 |-> i.rs2]
             /\ i.op \in DOMAIN SHIFT_I => fields(w).rs2 = n % 32
             /\ Format(i.op) # "R" /\ Fits(n, Format(i.op)) =>
                  imm_gen(w, Format(i.op)) =
                      IF Format(i.op) = "U" THEN Shl(n, 12) ELSE ToBits(n)

\* The RTL and the golden model read the same five immediates from any word,
\* data words included (imm_gen.sv:14, iss.py:153), and those of branches and
\* jumps are even.
ImmediatesAgree ==
    words # <<>> =>
        /\ \A fmt \in Formats : imm_gen(Last(words), fmt) = iss_imm(Last(words), fmt)
        /\ \A fmt \in {"B", "J"} : imm_gen(Last(words), fmt)[0] = 0

\* A branch or jump to a label, forward or backward and over expanded
\* pseudo-instructions, lands on the first word after the label's last
\* definition when its field holds the distance (asm.py:56).
LabelsResolve ==
    outcome = "done" =>
      \A n \in DOMAIN source : source[n].op \in Linking =>
        \A l \in Uses(source[n]) :
          LET w        == WordAt(AddressOf(n))
              distance == AddressOf(Definition(l)) - AddressOf(n)
              fmt      == IF Is(w, "jal") THEN "J" ELSE "B"
          IN Fits(distance, fmt) => imm_gen(w, fmt) = ToBits(distance)

\* li leaves its value in rd, in one instruction or two (asm.py:92): LUI loads
\* the upper 20 bits and the ADDI's negative immediate borrows one from them.
LiLoads ==
    outcome = "done" =>
      \A n \in DOMAIN source : source[n].op = "li" =>
        LET line  == source[n]
            first == WordAt(AddressOf(n))
            last  == WordAt(AddressOf(n) + 4 * (Size(line) - 1))
            upper == IF Size(line) = 1 THEN 0 ELSE Number(Part(first, 31, 12))
            low   == imm_gen(last, "I")
        IN /\ Size(line) = 2 => Is(first, "lui") /\ fields(first).rd = line.rd
           /\ Is(last, "addi") /\ fields(last).rd = line.rd
           /\ fields(last).rs1 = IF Size(line) = 1 THEN 0 ELSE line.rd
           /\ Number(Part(low, 11, 0)) = line.lo
           /\ (upper - low[31]) % 2^20 = line.hi

\* Exactly the texts that use a label they never define are refused; a label
\* may be used before its definition (asm.py:60).
RefusesExactly ==
    LET undefined == {l \in UNION {Uses(source[n]) : n \in DOMAIN source} :
                        Definition(l) = 0}
    IN /\ outcome = "error" => undefined # {}
       /\ outcome = "done"  => undefined = {}
=============================================================================
