------------------------------- MODULE Memory -------------------------------
(***************************************************************************)
(* src/rtl/memory.sv: the unified memory.  One combinational instruction   *)
(* port, one data port whose reads are combinational and whose writes      *)
(* happen at the clock edge.  The array keeps each word as its four byte   *)
(* lanes, which is what the byte enables act on.                           *)
(***************************************************************************)
EXTENDS Isa

VARIABLE mem        \* the array: mem[i] is word i, as its byte lanes

MemoryTypeOK == mem \in [Index -> MemWord]

i_rdata(i_addr) == FromLanes[mem[WordIndex(i_addr)]]

unaligned(d_addr, d_op) ==
    \/ d_op \in {1, 5} /\ d_addr % 2 # 0
    \/ d_op = 2 /\ d_addr % 4 # 0

d_misaligned(d_addr, d_op, d_read, d_write) ==
    (d_read \/ d_write) /\ unaligned(d_addr, d_op)

half_Low(d_addr) == 0                           \* mutant of half
half(d_addr) == IF d_addr % 4 >= 2 THEN 2 ELSE 0    \* off[1]

\* The load path: the lanes of the addressed word, sign- or zero-extended.
d_rdata(d_addr, d_op) ==
    LET word   == mem[WordIndex(d_addr)]
        lane_b == word[d_addr % 4]
        lane_h == word[half(d_addr)] + ByteMod * word[half(d_addr) + 1]
    IN CASE d_op = 0 -> SignExtend(lane_b, ByteMod)
         [] d_op = 1 -> SignExtend(lane_h, ByteMod * ByteMod)
         [] d_op = 4 -> lane_b
         [] d_op = 5 -> lane_h
         [] OTHER    -> FromLanes[word]

\* The store path: the data replicated across the lanes, and the byte
\* enables that say which lanes of the addressed word take it.
byte_en_HalfByBit0(d_addr, d_op) ==             \* mutant of byte_en
    CASE d_op = 0 -> {d_addr % 4}
      [] d_op = 1 -> IF d_addr % 2 = 1 THEN {2, 3} ELSE {0, 1}
      [] OTHER    -> Lane
byte_en(d_addr, d_op) ==
    CASE d_op = 0 -> {d_addr % 4}
      [] d_op = 1 -> {half(d_addr), half(d_addr) + 1}
      [] OTHER    -> Lane

wdata_lanes_AsIs(d_op, d_wdata) == ToLanes(d_wdata)   \* mutant of wdata_lanes
wdata_lanes(d_op, d_wdata) ==
    LET l == ToLanes(d_wdata)
    IN CASE d_op = 0 -> [i \in Lane |-> l[0]]
         [] d_op = 1 -> [i \in Lane |-> l[i % 2]]
         [] OTHER    -> l

merged(word, d_addr, d_op, d_wdata) ==
    [i \in Lane |-> IF i \in byte_en(d_addr, d_op)
                    THEN wdata_lanes(d_op, d_wdata)[i] ELSE word[i]]

\* The clock edge.  There is no reset: the array keeps its contents.
MemoryEdge(d_addr, d_op, d_read, d_write, d_wdata) ==
    IF d_write /\ ~d_misaligned(d_addr, d_op, d_read, d_write)
    THEN mem' = [mem EXCEPT ![WordIndex(d_addr)] =
                               merged(@, d_addr, d_op, d_wdata)]
    ELSE UNCHANGED mem
=============================================================================
