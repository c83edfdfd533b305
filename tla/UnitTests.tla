----------------------------- MODULE UnitTests -----------------------------
(***************************************************************************)
(* verif/test_unit.py: one simulation for each block, driven by its test   *)
(* bench with a reference of its own.  The decoder, the ALU and the branch *)
(* comparator, which keep no state, share one stimulus; the memory has its *)
(* own.                                                                    *)
(***************************************************************************)
EXTENDS DatapathBench, MemoryBench

VARIABLE block          \* the block under test
vars == <<datapathVars, memoryVars, block>>

UNITS == {"datapath", "memory"}

Init ==
    \/ block = "datapath" /\ DatapathInit /\ MemoryIdle
    \/ block = "memory"   /\ MemoryInit /\ DatapathIdle

Next ==
    /\ UNCHANGED block
    /\ \/ block = "datapath" /\ DatapathNext /\ UNCHANGED memoryVars
       \/ block = "memory"   /\ MemoryNext /\ UNCHANGED datapathVars

Spec == Init /\ [][Next]_vars
=============================================================================
