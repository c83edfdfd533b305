---------------------------- MODULE MCRegression ----------------------------
(***************************************************************************)
(* A small regression: four-byte words of 2-bit bytes, 16 words of memory, *)
(* four registers, x3 as the data pointer of random programs.  Its         *)
(* directed programs cover every required bin in 43 words.                 *)
(***************************************************************************)
EXTENDS RegressionProperties, MCInstructions, Bitwise

MCBitAnd(x, y) == x & y
MCBitOr(x, y)  == x | y
MCBitXor(x, y) == x ^^ y

\* The directed programs, as instructions.  A zero word is no instruction.
MemoryTest ==
    <<U("LUI", 3, 16), OpImm(0, 3, 3, 32), OpImm(0, 1, 0, 253),
      St(2, 1, 0, 3), St(0, 1, 5, 3), St(1, 1, 10, 3),
      Ld(0, 2, 3, 5), Ld(4, 2, 3, 1), Ld(1, 2, 3, 10), Ld(5, 2, 3, 0), Ld(2, 2, 3, 0),
      Sys("ecall")>>
BranchTest ==
    <<OpImm(0, 3, 0, 253), OpImm(0, 2, 0, 1),
      Br(4, 3, 2, 8), Undefined, Br(6, 3, 2, 8), Br(5, 3, 2, 8), Br(7, 3, 2, 8), Undefined,
      Br(0, 3, 2, 8), Br(1, 3, 2, 8), Undefined, Sys("ebreak")>>
JumpTest ==
    <<OpImm(0, 3, 0, 16), <<"AUIPC", "U", 1, 3, 3, 3, 2, 12>>, Jal(2, 8), Undefined,
      JalrI(0, 2, 3, 5), Shift(1, 0, 3, 3, 0), Shift(5, 32, 2, 3, 7), Op(0, 32, 2, 3, 3),
      Op(0, 0, 0, 3, 2), Ld(2, 3, 3, 1)>>
\* Left running at its third word when the model stops.
LoopTest == <<OpImm(0, 3, 0, 9), OpImm(0, 3, 3, 1), Jal(0, 252)>>
\* Its third word, which it jumps over, is a store of x3 over its last.
AfterLoopTest ==
    <<OpImm(0, 2, 0, 1), Jal(0, 8), St(2, 3, 16, 0), OpImm(0, 2, 0, 1), Sys("ecall")>>
\* Its first word is a store over itself.
StoreFirst == <<St(2, 0, 0, 0), Sys("ecall")>>
Freeze == <<OpImm(0, 3, 0, 1), OpImm(0, 3, 3, 1), OpImm(0, 3, 3, 1), OpImm(0, 3, 3, 1),
            Sys("ecall")>>

\* What random programs are made of besides the words above that the generator
\* can draw, and words it must not draw.
Random ==
    <<Op(5, 32, 1, 2, 1), Ld(1, 1, 3, 6), Ld(1, 1, 3, 7), St(2, 2, 4, 3), St(2, 2, 6, 3),
      St(2, 2, 0, 1), Br(0, 1, 2, 252), Br(1, 1, 0, 4), Br(5, 2, 1, 0), Br(0, 0, 0, 248),
      Jal(1, 4), Jal(1, 12), Jal(1, 0)>>

Dictionary == <<Undefined>> \o MemoryTest \o BranchTest \o JumpTest \o LoopTest
              \o AfterLoopTest \o StoreFirst \o Freeze \o Random
MCTable == [w \in Word |-> Sliced(IF w < Len(Dictionary) THEN Dictionary[w + 1]
                                                      ELSE Undefined)]
MCFields(w) == MCTable[w]

\* A program as words.
Assembled(p) ==
    [k \in DOMAIN p |-> (CHOOSE n \in DOMAIN Dictionary : Dictionary[n] = p[k]) - 1]

MCSuites == {<<Assembled(MemoryTest), Assembled(BranchTest), Assembled(JumpTest),
               Assembled(LoopTest), Assembled(AfterLoopTest)>>,
             <<Assembled(LoopTest), Assembled(StoreFirst)>>}
MCFreeze == Assembled(Freeze)

\* Random programs for the unmodified core only: the directed ones kill the bugs.
MCInit == RegressionInit /\ tb.randoms = IF bug = "none" /\ Len(tb.todo) > 2 THEN 1 ELSE 0
MCSpec == MCInit /\ [][RegressionNext]_regressionVars /\ WF_regressionVars(RegressionNext)

MCPrograms == {[i \in Index |-> ToLanes(0)]}
=============================================================================
