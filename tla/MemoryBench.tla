---------------------------- MODULE MemoryBench ----------------------------
(***************************************************************************)
(* verif/unit/tb_memory.py: the memory on its own.  A test drives random   *)
(* loads and stores at any address and keeps a model of its own in step.   *)
(* All tests share one simulation: setup clears what the last one left.    *)
(***************************************************************************)
EXTENDS Memory

CONSTANT Data           \* the values to store
ASSUME DataAssumption == Data \subseteq Word

VARIABLES
    words,                  \* MemModel.words
    phase,                  \* "setup", "ready" (after a falling edge), "driven"
    addr, op, write, wdata  \* the data port's inputs
memoryVars == <<mem, words, phase, addr, op, write, wdata>>

LOADS  == {0, 1, 2, 4, 5}
STORES == {0, 1, 2}
BYTES  == 4 * WORDS

\* MemModel works on words like the golden model, and refuses as it does.
Model == INSTANCE Iss WITH mem <- words, regs <- <<>>, pc <- 0, halted <- FALSE,
                           halt_cause <- 0, Programs <- {}
model_misaligned(o, x) == Model!Misaligned(o, x)
model_load(o, x) == Model!Load(o, x)
model_store(o, x, data) ==
    IF model_misaligned(o, x) THEN words ELSE Model!Store(o, x, data)

Drive(o, x, w, data) == op' = o /\ addr' = x /\ write' = w /\ wdata' = data
Edge == MemoryEdge(addr, op, ~write, write, wdata)

-----------------------------------------------------------------------------
\* Words of the array that setup clears.
Cleared_ButLast == BYTES - 4                    \* mutant of Cleared
Cleared == BYTES

setup ==
    /\ phase = "setup"
    /\ Edge
    /\ IF addr + 4 < Cleared
       THEN phase' = phase /\ Drive(2, addr + 4, TRUE, 0) /\ UNCHANGED words
       ELSE phase' = "ready" /\ Drive(0, 0, FALSE, 0) /\ words' = [i \in Index |-> 0]

\* do_store and check_load drive the port after a falling edge, ...
mem_random ==
    /\ phase = "ready"
    /\ phase' = "driven"
    /\ \E x \in 0 .. 2 * BYTES - 1 :
          \/ \E o \in STORES, data \in Data : Drive(o, x, TRUE, data)
          \/ \E o \in LOADS : Drive(o, x, FALSE, 0)
    /\ UNCHANGED <<mem, words>>

\* ... look at its outputs, and let one rising edge pass; only then does the
\* model follow.
do_store ==
    /\ phase = "driven" /\ write
    /\ Edge
    /\ words' = model_store(op, addr, wdata)
    /\ phase' = "ready" /\ Drive(0, 0, FALSE, 0)

check_load ==
    /\ phase = "driven" /\ ~write
    /\ Edge
    /\ phase' = "ready" /\ Drive(0, 0, FALSE, 0)
    /\ UNCHANGED words

\* The next test of the module, on the same array.
NextTest ==
    /\ phase = "ready"
    /\ phase' = "setup" /\ Drive(2, 0, TRUE, 0)
    /\ UNCHANGED <<mem, words>>

\* The array of a simulator holds anything before the first test.
MemoryInit ==
    /\ mem \in [Index -> MemWord]
    /\ words = [i \in Index |-> 0]
    /\ phase = "setup" /\ addr = 0 /\ op = 2 /\ write = TRUE /\ wdata = 0

MemoryNext == setup \/ mem_random \/ do_store \/ check_load \/ NextTest

\* Another block is under test.
MemoryIdle ==
    /\ mem = [i \in Index |-> [l \in Lane |-> 0]] /\ words = [i \in Index |-> 0]
    /\ phase = "none" /\ addr = 0 /\ op = 0 /\ write = FALSE /\ wdata = 0

-----------------------------------------------------------------------------
\* The array seen as bytes: lane l of word i is byte 4 * i + l.
Bytes == INSTANCE ByteMemory
             WITH bytes <- [x \in 0 .. BYTES - 1 |-> mem[x \div 4][x % 4]]

Accepted == write /\ Bytes!Aligned(addr, Bytes!Width(op))

\* Replicated data, byte enables and word-wide storage implement a plain array
\* of bytes: a store of width n at addr changes exactly the n bytes from addr
\* on, in little-endian order, and a load or a refused store changes none.
RefinesBytes ==
    /\ Bytes!Init
    /\ [][IF Accepted THEN Bytes!Write(addr, op, wdata) ELSE UNCHANGED mem]_memoryVars

\* In every test the array holds what the model holds, on the instruction port
\* too, whatever the tests before it left there (tb_memory.py:72-77).
ModelInStep ==
    phase \in {"ready", "driven"} =>
        /\ \A i \in Index : FromLanes[mem[i]] = words[i]
        /\ \A x \in Word : i_rdata(x) = words[WordIndex(x)]

\* A driven access is refused when the model, the byte array and the golden
\* model refuse it; an aligned load of any width and sign returns the bytes
\* stored there, and a refused one what the model says.
LoadAgrees ==
    phase = "driven" =>
        /\ d_misaligned(addr, op, ~write, write) <=> model_misaligned(op, addr)
        /\ d_misaligned(addr, op, ~write, write) <=> ~Bytes!Aligned(addr, Bytes!Width(op))
        /\ ~write => d_rdata(addr, op) = model_load(op, addr)
        /\ ~write /\ ~model_misaligned(op, addr) => d_rdata(addr, op) = Bytes!Read(addr, op)
=============================================================================
