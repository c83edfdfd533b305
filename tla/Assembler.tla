----------------------------- MODULE Assembler -----------------------------
(***************************************************************************)
(* src/verif/asm.py, assemble(): two passes over a text already split into *)
(* tokens.  The first expands pseudo-instructions and gives every label    *)
(* and item its address, the second encodes.  A number an instruction      *)
(* carries is a record, [label |-> l, num |-> n]: l = "" for a literal n.  *)
(* The literal of li and .word is 32 bits wide and is kept as the pair of  *)
(* its upper 20 bits and its low 12, value >> 12 and value & 0xFFF.        *)
(***************************************************************************)
EXTENDS Encoding

CONSTANTS
    Texts,          \* the texts to assemble: sequences of lines
    Labels,         \* the names a text may use
    Base            \* the byte address of the first word

ASSUME BaseAssumption == Base \in Nat /\ Base % 4 = 0

VARIABLES
    text,           \* the lines not read yet
    labels,         \* labels[l]: its address, for the labels met so far
    items, pc,      \* pass 1: the (address, instruction) pairs and the next address
    words,          \* pass 2: the words encoded so far
    outcome         \* "running", "done", or "error": AsmError

vars == <<text, labels, items, pc, words, outcome>>

-----------------------------------------------------------------------------
(* Tables *)

R_TYPE   == [add |-> <<0, 0>>, sub |-> <<32, 0>>, sll |-> <<0, 1>>, slt |-> <<0, 2>>,
             sltu |-> <<0, 3>>, xor |-> <<0, 4>>, srl |-> <<0, 5>>, sra |-> <<32, 5>>,
             or |-> <<0, 6>>, and |-> <<0, 7>>]
I_TYPE   == [addi |-> 0, slti |-> 2, sltiu |-> 3, xori |-> 4, ori |-> 6, andi |-> 7]
SHIFT_I  == [slli |-> <<0, 1>>, srli |-> <<0, 5>>, srai |-> <<32, 5>>]
LOADS    == [lb |-> 0, lh |-> 1, lw |-> 2, lbu |-> 4, lhu |-> 5]
STORES   == [sb |-> 0, sh |-> 1, sw |-> 2]
BRANCHES == [beq |-> 0, bne |-> 1, blt |-> 4, bge |-> 5, bltu |-> 6, bgeu |-> 7]

-----------------------------------------------------------------------------
(* A line with its registers and numbers read: _reg, _imm, _split_offset *)

Literal(n) == [label |-> "", num |-> n]

Registers == 0 .. 31
Numbers   == [label : Labels \cup {""}, num : Int]
None      == {Literal(0)}

\* The lines of the operations ops, whose operands are in these sets.
Lines(ops, rd, rs1, rs2, imm) == [op : ops, rd : rd, rs1 : rs1, rs2 : rs2, imm : imm]

RealLine ==
    Lines(DOMAIN R_TYPE, Registers, Registers, Registers, None)
    \cup Lines(DOMAIN I_TYPE \cup DOMAIN SHIFT_I \cup DOMAIN LOADS \cup {"jalr"},
               Registers, Registers, {0}, Numbers)
    \cup Lines(DOMAIN STORES \cup DOMAIN BRANCHES, {0}, Registers, Registers, Numbers)
    \cup Lines({"lui", "auipc", "jal"}, Registers, {0}, {0}, Numbers)
    \cup Lines({"ecall", "ebreak", "fence"}, {0}, {0}, {0}, None)

PseudoLine ==
    Lines({"nop", "ret"}, {0}, {0}, {0}, None)
    \cup Lines({"mv"}, Registers, Registers, {0}, None)
    \cup Lines({"jr"}, {0}, Registers, {0}, None)
    \cup Lines({"j"}, {0}, {0}, {0}, Numbers)
    \cup Lines({"beqz", "bnez"}, {0}, Registers, {0}, Numbers)
    \cup [op : {"li"}, rd : Registers, hi : 0 .. 2^20 - 1, lo : 0 .. 2^12 - 1]

WordLine  == [op : {".word"}, hi : 0 .. 2^20 - 1, lo : 0 .. 2^12 - 1, imm : None]
LabelLine == [op : {"label"}, name : Labels]
Line == RealLine \cup PseudoLine \cup WordLine \cup LabelLine

ASSUME TextsAssumption == "" \notin Labels /\ Texts \subseteq Seq(Line)

-----------------------------------------------------------------------------
(* _expand: pseudo-instructions to real ones *)

Real(op, rd, rs1, rs2, imm) == [op |-> op, rd |-> rd, rs1 |-> rs1, rs2 |-> rs2, imm |-> imm]

SignedLow(lo) == ((lo + 2048) % 4096) - 2048

expand_li_Unbumped(rd, hi, lo) ==               \* mutant of expand_li
    IF hi = 0 /\ lo < 2048 THEN <<Real("addi", rd, 0, 0, Literal(lo))>>
    ELSE <<Real("lui", rd, 0, 0, Literal(hi)),
           Real("addi", rd, rd, 0, Literal(SignedLow(lo)))>>

\* li: one ADDI when the value fits in 12 bits, else LUI and ADDI, the LUI one
\* higher when the low half is negative.
expand_li(rd, hi, lo) ==
    IF hi = 0 /\ lo < 2048 THEN <<Real("addi", rd, 0, 0, Literal(lo))>>
    ELSE IF hi = 2^20 - 1 /\ lo >= 2048
    THEN <<Real("addi", rd, 0, 0, Literal(lo - 4096))>>
    ELSE LET upper == (hi + (lo + 2048) \div 4096) % 2^20
         IN <<Real("lui", rd, 0, 0, Literal(upper)),
              Real("addi", rd, rd, 0, Literal(SignedLow(lo)))>>

expand(i) ==
    CASE i.op = "nop"  -> <<Real("addi", 0, 0, 0, Literal(0))>>
      [] i.op = "mv"   -> <<Real("addi", i.rd, i.rs1, 0, Literal(0))>>
      [] i.op = "j"    -> <<Real("jal", 0, 0, 0, i.imm)>>
      [] i.op = "jr"   -> <<Real("jalr", 0, i.rs1, 0, Literal(0))>>
      [] i.op = "ret"  -> <<Real("jalr", 0, 1, 0, Literal(0))>>
      [] i.op = "beqz" -> <<Real("beq", 0, i.rs1, 0, i.imm)>>
      [] i.op = "bnez" -> <<Real("bne", 0, i.rs1, 0, i.imm)>>
      [] i.op = "li"   -> expand_li(i.rd, i.hi, i.lo)
      [] OTHER         -> <<i>>

-----------------------------------------------------------------------------
(* _encode *)

Known_Backward(imm) ==                          \* mutant of Known
    imm.label = "" \/ (imm.label \in DOMAIN labels
                        /\ labels[imm.label] <= items[Len(words) + 1].at)
Known(imm) == imm.label = "" \/ imm.label \in DOMAIN labels

\* _imm, absolute and relative to the address at of the instruction.
Absolute(imm) == IF imm.label = "" THEN imm.num ELSE labels[imm.label]
Relative_Absolute(imm, at) == Absolute(imm)     \* mutant of Relative
Relative(imm, at) == IF imm.label = "" THEN imm.num ELSE labels[imm.label] - at

encode(i, at) ==
    CASE i.op \in DOMAIN R_TYPE ->
            r_type(R_TYPE[i.op][1], i.rs2, i.rs1, R_TYPE[i.op][2], i.rd, Opcode.REG)
      [] i.op \in DOMAIN I_TYPE ->
            i_type(Absolute(i.imm), i.rs1, I_TYPE[i.op], i.rd, Opcode.IMM)
      [] i.op \in DOMAIN SHIFT_I ->
            i_type(SHIFT_I[i.op][1] * 2^5 + (Absolute(i.imm) % 32), i.rs1,
                   SHIFT_I[i.op][2], i.rd, Opcode.IMM)
      [] i.op \in DOMAIN LOADS ->
            i_type(Absolute(i.imm), i.rs1, LOADS[i.op], i.rd, Opcode.LOAD)
      [] i.op \in DOMAIN STORES ->
            s_type(Absolute(i.imm), i.rs2, i.rs1, STORES[i.op], Opcode.STORE)
      [] i.op \in DOMAIN BRANCHES ->
            b_type(Relative(i.imm, at), i.rs2, i.rs1, BRANCHES[i.op], Opcode.BRANCH)
      [] i.op = "lui"    -> u_type(Absolute(i.imm), i.rd, Opcode.LUI)
      [] i.op = "auipc"  -> u_type(Absolute(i.imm), i.rd, Opcode.AUIPC)
      [] i.op = "jal"    -> j_type(Relative(i.imm, at), i.rd, Opcode.JAL)
      [] i.op = "jalr"   -> i_type(Absolute(i.imm), i.rs1, 0, i.rd, Opcode.JALR)
      [] i.op = "ecall"  -> ToBits(115)
      [] i.op = "ebreak" -> ToBits(1048691)
      [] i.op = "fence"  -> ToBits(15)
      [] i.op = ".word"  -> Or({Shl(i.hi, 12), ToBits(i.lo)})

-----------------------------------------------------------------------------
(* The two passes *)

\* A label gets the address of what follows; a later definition replaces it.
ReadLabel ==
    /\ text # <<>> /\ Head(text).op = "label"
    /\ labels' = [l \in DOMAIN labels \cup {Head(text).name} |->
                     IF l = Head(text).name THEN pc ELSE labels[l]]
    /\ text' = Tail(text)
    /\ UNCHANGED <<items, pc, words, outcome>>

ReadInstruction_OneWord ==                      \* mutant of ReadInstruction
    /\ text # <<>> /\ Head(text).op # "label"
    /\ LET real == expand(Head(text))
       IN items' = items \o [k \in DOMAIN real |-> [at |-> pc, ins |-> real[k]]]
    /\ pc' = pc + 4
    /\ text' = Tail(text)
    /\ UNCHANGED <<labels, words, outcome>>

\* One item per real instruction, so that sizes are known.
ReadInstruction ==
    /\ text # <<>> /\ Head(text).op # "label"
    /\ LET real == expand(Head(text))
       IN /\ items' = items \o [k \in DOMAIN real |->
                                   [at |-> pc + 4 * (k - 1), ins |-> real[k]]]
          /\ pc' = pc + 4 * Len(real)
    /\ text' = Tail(text)
    /\ UNCHANGED <<labels, words, outcome>>

\* Pass 2 begins when every label has its address.
next == items[Len(words) + 1]
MoreItems == text = <<>> /\ outcome = "running" /\ Len(words) < Len(items)

EncodeItem ==
    /\ MoreItems
    /\ Known(next.ins.imm)
    /\ words' = Append(words, encode(next.ins, next.at))
    /\ UNCHANGED <<text, labels, items, pc, outcome>>

UnknownLabel ==
    /\ MoreItems
    /\ ~Known(next.ins.imm)
    /\ outcome' = "error"
    /\ UNCHANGED <<text, labels, items, pc, words>>

Return ==
    /\ text = <<>> /\ outcome = "running" /\ Len(words) = Len(items)
    /\ outcome' = "done"
    /\ UNCHANGED <<text, labels, items, pc, words>>

Init ==
    /\ text \in Texts
    /\ labels = <<>>
    /\ items = <<>>
    /\ pc = Base
    /\ words = <<>>
    /\ outcome = "running"

Next == ReadLabel \/ ReadInstruction \/ EncodeItem \/ UnknownLabel \/ Return

Spec == Init /\ [][Next]_vars
=============================================================================
