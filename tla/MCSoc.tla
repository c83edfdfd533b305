------------------------------- MODULE MCSoc -------------------------------
(***************************************************************************)
(* A small Soc for TLC: four-byte words of 2-bit bytes (XLEN = 8), four    *)
(* words of memory, four registers.  Addresses run to 255 and wrap after   *)
(* 16 bytes, so programs load, store and jump over their own code.         *)
(***************************************************************************)
EXTENDS SocProperties, MCInstructions, Sequences, FiniteSets, Bitwise

MCBitAnd(x, y) == x & y
MCBitOr(x, y)  == x | y
MCBitXor(x, y) == x ^^ y

\* The dictionary: word k - 1 is instruction k.  Words 0 .. 8 set registers,
\* so that stored data are instructions too.
Setters == <<
    OpImm(0, 1, 0, 6), OpImm(0, 1, 0, 255), OpImm(0, 2, 0, 11),
    OpImm(0, 2, 0, 128), OpImm(0, 1, 0, 13), U("LUI", 1, 64),
    U("AUIPC", 2, 192), OpImm(0, 0, 1, 5), Jal(1, 4)>>

Body ==
    <<Jal(3, 8), Jal(0, 252), Jal(3, 6), JalrI(0, 3, 1, 1), JalrI(0, 1, 1, 0),
      JalrI(0, 0, 2, 1), JalrI(1, 3, 1, 2),
      <<"MISC_MEM", "I", 0, 0, 3, 1, 2, 7>>, <<"MISC_MEM", "I", 1, 0, 3, 1, 2, 7>>,
      Sys("ecall"), Sys("ebreak"), Sys("other"), Undefined,
      Ld(2, 0, 0, 4), Ld(2, 3, 0, 12), St(2, 2, 4, 0), St(2, 1, 8, 0), St(2, 0, 0, 0),
      Shift(1, 1, 3, 1, 2), Shift(5, 32, 3, 2, 1), Shift(5, 32, 3, 1, 9),
      Shift(5, 0, 3, 2, 1), Shift(5, 1, 3, 2, 1)>>
    \o [k \in 1 .. 8 |-> Br(k - 1, 1, 2, 252)] \o [k \in 1 .. 8 |-> Br(k - 1, 1, 2, 6)]
    \o [k \in 1 .. 8 |-> Ld(k - 1, 3, 1, 3)]   \o [k \in 1 .. 8 |-> Ld(k - 1, 2, 2, 1)]
    \o [k \in 1 .. 8 |-> St(k - 1, 2, 3, 1)]   \o [k \in 1 .. 8 |-> St(k - 1, 1, 1, 2)]
    \o [k \in 1 .. 8 |-> OpImm(k - 1, 3, 1, 5)]
    \o [k \in 1 .. 8 |-> Op(k - 1, 0, 3, 1, 2)] \o [k \in 1 .. 8 |-> Op(k - 1, 32, 2, 2, 1)]
    \o <<Op(0, 1, 3, 1, 2)>>

Dictionary == Setters \o Body
MCTable == [w \in Word |-> Sliced(IF w < Len(Dictionary) THEN Dictionary[w + 1]
                                                      ELSE Undefined)]
MCFields(w) == MCTable[w]

\* Programs: two setters, any instruction, and a last word that stops, jumps
\* back to the third word or is negative data.
Words(q) == [i \in Index |-> ToLanes(q[i + 1])]
Last == {Len(Setters) + 9, Len(Setters) + 1, 216}
MCPrograms ==
    {Words(<<a, b, c, d>>) :
        a \in {0, 1, 4}, b \in {2, 3, 6}, c \in 0 .. Len(Dictionary) - 1, d \in Last}

\* Fewer programs for liveness, whose fourth word is the third one again.
MCLivePrograms ==
    {Words(<<4, 2, c, c>>) : c \in 0 .. Len(Dictionary) - 1}

\* Programs whose stores hit their own first word.
MCResetPrograms == {Words(<<24, b, c, 17>>) : b \in {2, 25}, c \in {26, 9, 17}}
=============================================================================
