----------------------------- MODULE ByteMemory -----------------------------
(***************************************************************************)
(* What src/rtl/memory.sv promises to the programmer: a little-endian      *)
(* array of bytes whose addresses wrap, where an access of 1, 2 or 4 bytes *)
(* is refused unless its address is a multiple of its size.                *)
(***************************************************************************)
EXTENDS Isa

VARIABLE bytes

Size == 4 * WORDS
Address == 0 .. Size - 1

\* The width of an access, from its funct3.
Width(op) == CASE op \in {0, 4} -> 1
               [] op \in {1, 5} -> 2
               [] OTHER         -> 4

Aligned(addr, n) == addr % n = 0

\* Byte k of the value v, and the byte k places above addr.
Digit(v, k) == CASE k = 0 -> v % ByteMod
                 [] k = 1 -> (v \div ByteMod) % ByteMod
                 [] k = 2 -> (v \div (ByteMod * ByteMod)) % ByteMod
                 [] k = 3 -> (v \div (ByteMod * ByteMod * ByteMod)) % ByteMod
At(addr, k) == bytes[(addr + k) % Size]

\* What a load of width n at addr returns, without its sign extension.
Value(addr, n) ==
    CASE n = 1 -> At(addr, 0)
      [] n = 2 -> At(addr, 0) + ByteMod * At(addr, 1)
      [] n = 4 -> At(addr, 0) + ByteMod * (At(addr, 1)
                     + ByteMod * (At(addr, 2) + ByteMod * At(addr, 3)))

\* A load: op 0, 1 extend the sign.
Read(addr, op) ==
    LET v == Value(addr, Width(op))
    IN CASE op = 0 -> SignExtend(v, ByteMod)
         [] op = 1 -> SignExtend(v, ByteMod * ByteMod)
         [] OTHER  -> v

\* A store of the low bytes of v.
Write(addr, op, v) ==
    /\ Aligned(addr, Width(op))
    /\ bytes' = [x \in Address |->
                   IF \E k \in 0 .. Width(op) - 1 : x = (addr + k) % Size
                   THEN Digit(v, (x - addr) % Size) ELSE bytes[x]]

Init == bytes \in [Address -> Byte]

Next == \E addr \in Word, op \in 0 .. 2, v \in Word : Write(addr, op, v)

Spec == Init /\ [][Next]_bytes
=============================================================================
