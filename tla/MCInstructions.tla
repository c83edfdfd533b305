--------------------------- MODULE MCInstructions ---------------------------
(***************************************************************************)
(* Instructions by their mnemonic, for the programs of the MC modules, and *)
(* what slicing the assembled word gives on the 8-bit machine.             *)
(***************************************************************************)
EXTENDS Isa

\* An instruction: opcode, format, funct3, funct7, rd, rs1, rs2 and immediate.
\* SYSTEM has no format but a kind.
U(op, d, n)          == <<op, "U", 1, 3, d, 1, 2, n>>
Jal(d, n)            == <<"JAL", "J", 1, 3, d, 1, 2, n>>
JalrI(f3, d, s1, n)  == <<"JALR", "I", f3, 0, d, s1, 2, n>>
Br(f3, s1, s2, n)    == <<"BRANCH", "B", f3, 0, 3, s1, s2, n>>
Ld(f3, d, s1, n)     == <<"LOAD", "I", f3, 0, d, s1, 2, n>>
St(f3, s2, n, s1)    == <<"STORE", "S", f3, 0, 3, s1, s2, n>>
OpImm(f3, d, s1, n)  == <<"IMM", "I", f3, 0, d, s1, 2, n>>
Shift(f3, f7, d, s1, n) == <<"IMM", "I", f3, f7, d, s1, 2, n>>
Op(f3, f7, d, s1, s2)   == <<"REG", "R", f3, f7, d, s1, s2, 9>>
Sys(s)               == <<"SYSTEM", s, 0, 0, 0, 0, 0, 0>>
Undefined            == <<"UNDEFINED", "I", 0, 0, 1, 1, 2, 4>>

\* Its fields.  Only the immediate of its own format is n: the others differ
\* from it, as the bits of a real word do.
Sliced(i) ==
    LET even(x) == x - (x % 2)
        own(x)  == IF x = i[2] THEN i[8] ELSE (i[8] + 8) % 256
    IN [opcode |-> i[1], funct3 |-> i[3], funct7 |-> i[4],
        sys |-> IF i[1] = "SYSTEM" THEN i[2] ELSE "other",
        rd |-> i[5], rs1 |-> i[6], rs2 |-> i[7],
        imm |-> [x \in ImmFormat |-> IF x \in {"B", "J"} THEN even(own(x)) ELSE own(x)]]
=============================================================================
