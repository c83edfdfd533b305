------------------------------ MODULE MCBoard ------------------------------
(***************************************************************************)
(* The board for TLC: the 8-bit machine of MCSoc with x0 and t0, running a *)
(* program of the shape of fpga/program.s: a loop run twice, then ECALL.   *)
(***************************************************************************)
EXTENDS Board, MCInstructions, Sequences, Bitwise

MCBitAnd(x, y) == x & y
MCBitOr(x, y)  == x | y
MCBitXor(x, y) == x ^^ y

Listing == <<
    OpImm(0, 1, 1, 128),        \* loop: addi t0, t0, -128
    Br(1, 1, 0, 252),           \*       bne  t0, x0, loop
    Sys("ecall")>>

\* Two registers, so the number fields of a word have one bit.
MCTable ==
    [w \in Word |-> [Sliced(IF w < Len(Listing) THEN Listing[w + 1] ELSE Undefined)
                        EXCEPT !.rd = @ % 2, !.rs1 = @ % 2, !.rs2 = @ % 2]]
MCFields(w) == MCTable[w]
MCPrograms == {[i \in Index |-> ToLanes(IF i < Len(Listing) THEN i ELSE 0)]}
=============================================================================
