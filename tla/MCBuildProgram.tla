--------------------------- MODULE MCBuildProgram ---------------------------
(***************************************************************************)
(* The tool with a model of 16 words and the board of MCBoard with 8: the  *)
(* loop, a program that changes its own memory, which a reset does not     *)
(* undo, a load from where only the model has memory, and programs too     *)
(* long for the board and for the model.                                   *)
(***************************************************************************)
EXTENDS BuildProgram, MCInstructions, Bitwise

MCBitAnd(x, y) == x & y
MCBitOr(x, y)  == x | y
MCBitXor(x, y) == x ^^ y

Listing == <<
    OpImm(0, 1, 1, 128), Br(1, 1, 0, 252), Sys("ecall"),
    Ld(2, 1, 0, 24), OpImm(4, 1, 1, 7), St(2, 1, 24, 0),
    Ld(2, 1, 0, 36)>>

\* Two registers, so the number fields of a word have one bit.
MCTable ==
    [w \in Word |-> [Sliced(IF w < Len(Listing) THEN Listing[w + 1] ELSE Undefined)
                        EXCEPT !.rd = @ % 2, !.rs1 = @ % 2, !.rs2 = @ % 2]]
MCFields(w) == MCTable[w]

MCSources == {<<0, 1, 2>>, <<3, 4, 5, 2>>, <<6, 2>>,
              <<0, 0, 0, 0, 0, 0, 0, 0, 2>>, [k \in 1 .. 17 |-> 0]}
MCPrograms == {[i \in Index |-> ToLanes(IF i < Len(s) THEN s[i + 1] ELSE 0)] : s \in MCSources}
=============================================================================
