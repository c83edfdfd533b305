---------------------------- MODULE MCAssembler ----------------------------
(***************************************************************************)
(* Texts for TLC.  Encoding and slicing move single bits around, so every  *)
(* operation with walking ones and zeros in its fields pins each of them;  *)
(* short texts with labels before, between and after expanding lines and   *)
(* every li at the edges of its two halves do the rest.                    *)
(***************************************************************************)
EXTENDS AssemblerProperties

To(l) == [label |-> l, num |-> 0]
Li(rd, hi, lo) == [op |-> "li", rd |-> rd, hi |-> hi, lo |-> lo]
DataWord(hi, lo) == [op |-> ".word", hi |-> hi, lo |-> lo, imm |-> Literal(0)]
LabelAt(l) == [op |-> "label", name |-> l]

\* Numbers of `width` bits with one bit set or one cleared, and their signs.
Walking(width) ==
    {0, -1} \cup {2^k : k \in 0 .. width - 1} \cup {-(2^k) - 1 : k \in 0 .. width - 1}

Triples == {<<1, 2, 4>>, <<8, 16, 31>>, <<30, 29, 27>>, <<23, 15, 0>>, <<0, 31, 21>>}

Single ==
    {Real(op, t[1], t[2], t[3], Literal(0)) : op \in DOMAIN R_TYPE, t \in Triples}
    \cup {Real(op, t[1], t[2], 0, Literal(n)) :
            op \in DOMAIN I_TYPE \cup DOMAIN LOADS \cup {"jalr"}, t \in Triples, n \in Walking(11)}
    \cup {Real(op, t[1], t[2], 0, Literal(n)) :
            op \in DOMAIN SHIFT_I, t \in Triples, n \in {0, 1, 2, 4, 8, 16, 31}}
    \cup {Real(op, 0, t[1], t[2], Literal(n)) : op \in DOMAIN STORES, t \in Triples, n \in Walking(11)}
    \cup {Real(op, 0, t[1], t[2], Literal(2 * n)) :
            op \in DOMAIN BRANCHES, t \in Triples, n \in Walking(11)}
    \cup {Real(op, t[1], 0, 0, Literal(n % 2^20)) :
            op \in {"lui", "auipc"}, t \in Triples, n \in Walking(20)}
    \cup {Real("jal", t[1], 0, 0, Literal(2 * n)) : t \in Triples, n \in Walking(19)}
    \cup {Real(op, 0, 0, 0, Literal(0)) : op \in {"nop", "ret", "fence", "ecall", "ebreak"}}
    \cup {Real("mv", t[1], t[2], 0, Literal(0)) : t \in Triples}
    \cup {Real("jr", 0, t[1], 0, Literal(0)) : t \in Triples}
    \cup {DataWord(hi % 2^20, lo % 2^12) : hi \in Walking(20), lo \in Walking(12)}
    \cup {Li(r, hi, lo) : r \in {1, 30}, hi \in {0, 1, 2, 2^19 - 1, 2^19, 2^20 - 2, 2^20 - 1},
                          lo \in {0, 1, 2047, 2048, 2049, 4095}}

TestLines == {LabelAt("top"), LabelAt("end"), Li(5, 0, 7), Li(6, 0, 2048), DataWord(3, 9),
          Real("beq", 0, 1, 2, To("top")), Real("bnez", 0, 7, 0, To("end")), Real("beqz", 0, 8, 0, To("top")),
          Real("j", 0, 0, 0, To("top")), Real("jal", 1, 0, 0, To("end"))}

MCTexts == {<<x>> : x \in Single} \cup UNION {[1 .. n -> TestLines] : n \in 2 .. 4}
=============================================================================
