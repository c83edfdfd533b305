# Verification of rv32i-cpu

TLA+ models of the single-cycle RV32I core (`rtl/`), of the golden model it is
compared with (`verif/iss.py`), of the regression that compares them
(`verif/tb_core.py` with its random programs and its coverage gate), of the tools
that plant bugs and build board programs (`tools/`), and of the logic that makes
the core advance on the DE10-Lite board (`fpga/soc_top.sv`); TLC configurations
that check them on small instances; and TLAPS proofs of their main properties for
every word width, memory size, program and debounce window.

Source paths below are relative to `src/`.

## The system

| Part | State | Operations | Talks to |
|---|---|---|---|
| `rtl/core.sv`, `pc_unit.sv`, `regfile.sv` | `pc`, `regs`, `halted`, `halt_cause` | one clock edge: fetch, decode, execute, access memory, write back, or fault, or stand still, or reset | memory ports, the commit port |
| `rtl/decoder.sv`, `imm_gen.sv`, `alu.sv`, `branch_cmp.sv` | none | combinational functions of the instruction and of two registers | core |
| `rtl/memory.sv` | `mem` | combinational fetch and load, a store at the clock edge | core |
| `rtl/soc.sv` | none | wires core and memory | scoreboard, board |
| `verif/iss.py` | `mem`, `regs`, `pc`, `halted`, `halt_cause` | `step()` | scoreboard, `build_program.py` |
| `verif/tb_core.py` | the test it is in, expected trace, position, budget | loads a program under reset, drives `rst` and `step_en`, compares every retirement, the halt and the final state; one test after another on one simulated core | soc, golden model, randgen, coverage |
| `fpga/soc_top.sv` | divider, key synchroniser, debouncer, watch latch | makes `step_en`, watches the commit port | soc, switches, keys, display |
| `verif/asm.py`, `isa.py` | labels, items, words of one call | two-pass assembly | test programs, program builder |
| `verif/randgen.py`, `coverage.py` | the words so far, the bins hit | produce programs, classify commits, name the bins missed | scoreboard |
| `verif/unit/`, `test_unit.py` | a reference of each block, for memory a model of its contents | drive one block, compare its outputs | the blocks |
| `tools/inject_bugs.py` | survivors | plants each bug in a copy of the RTL and runs the tests on it | scoreboard, unit tests |
| `tools/build_program.py` | none | assembles a program, writes the hex file, predicts the registers it leaves | assembler, golden model, board |

What is hard here:

* Five places (pc, registers, memory, halt latch, commit port) gate themselves
  with different mixes of `halted`, `trap`, `rst` and `step_en`
  (`core.sv:108,148,177,189,205`). They have to agree in every cycle, or an
  instruction is executed twice, half, or not at all.
* The memory's write enable cannot depend on `trap` (`core.sv:141`), so that a
  faulting instruction leaves memory alone is an argument, not a gate.
* The memory is unified and its addresses wrap, so programs store over the code
  they are about to fetch; the pc wraps too.
* Two independent implementations of one instruction set have to agree for
  every encoding and every operand.
* On the board the enable comes from two unrelated sources, a free-running tick
  and a bouncing key, selected by an unsynchronised switch.
* The scoreboard runs every program on the core the last one left, may cut the
  model off anywhere, and must be right about both kinds of core: it may not
  blame a correct one, nor pass or wait for ever on a broken one.
* Random programs are safe only because of how their offsets are drawn.
* A board program is predicted on a model with another memory size, and may be
  restarted on a memory it has already changed.

The complete list, each at its line with the properties that cover it, is
`hazards` in `PROJECT.json`.

## Modules

    Isa ── Decoder ── Datapath ──┐
     ├──── Memory ───────────────┴─ Soc ── SocProperties ── SocProofs
     ├──── Iss  (instantiated as Golden)        └────────── MCSoc
     └──── ByteMemory (instantiated as Bytes)
    Datapath, Memory ── WordProofs ── SocProofs, UnitTestProofs
    DatapathBench ┬─ UnitTests ┬─ MCUnitTests
    MemoryBench ──┘            └─ UnitTestProofs
    Soc ── InjectedCore ┐
    Isa ── RandGen ─────┼─ Regression ── RegressionProperties ┬─ RegressionProofs (with SocProofs)
    Isa ── Coverage ────┘                                     ├─ MCRegression ─┐
                                                              └─ BugInjection ─┴─ MCBugInjection
    StepControl ── StepControlProperties ── StepControlProofs
     └── (instantiated as Control by) Board, which extends Soc
                                       ├── BuildProgram ┬─ MCBuildProgram
                                       │                └─ BuildProofs (with SocProofs)
                                       ├── MCBoard ────────┐
                                       └── BoardProperties ┴─ MCBoardHistory
                                            └── BoardProofs (with SocProofs)
    Encoding ── Assembler ── AssemblerProperties ┬─ MCAssembler
                                                 └─ AssemblerProofs
    Isa ── MCInstructions (mnemonics for the programs of the MC modules)

**Isa** holds what both sides share and nothing of either: words, lanes, the
halt causes, the shape of a decoded instruction. The width is a parameter: a
word is four bytes of `ByteMod` values each. The code has `ByteMod = 256`. The
slicing of an instruction word into its fields is the parameter `Fields`; it
stands for the slicing in `decoder.sv`, `core.sv` and `imm_gen.sv` and for the
`bits(...)` calls of `iss.py`, which `ImmediatesAgree` shows to agree at the
real width. `BitAnd`, `BitOr`, `BitXor` are
parameters because the proof system has no bitwise arithmetic.

**Decoder**, **Datapath**: one operator per output of `decoder.sv`, and `alu`
and `branch_cmp`.

**Memory**: the array as byte lanes, its two read paths and `MemoryEdge`, its
`always_ff` block. **ByteMemory** is the abstract specification: a wrapping
little-endian array of bytes.

**Iss**: the golden model. `Retire`, `Trap` and `Halted` are the three ways a
call of `step()` can end, `Construct` makes a new object. It uses none of
Decoder, Datapath or Memory; in particular it stores integers and shifts and
masks them, as the Python does.

**Soc**: the machine. A state is one clock cycle: what the flip-flops and the
inputs hold. The combinational signals of `core.sv` are state functions with the
source's names, `RegfileEdge`, `PcEdge`, `HaltEdge`, `MemoryEdge` are the
`always_ff` blocks, `Clock` is their conjunction and `Inputs` lets `rst` and
`step_en` take any value in the next cycle. There is one action because there
is one clock. Reset is not a separate action either: every block tests it.

**SocProperties** states what the core promises, most of it against `Golden`,
the instance of Iss over the core's own registers and memory.

**StepControl**: `soc_top.sv:40-91`. A step is a 50 MHz clock edge, after which
the key and the switch may have any level. **StepControlProperties** adds two
history variables that the code does not have, `past` (the key's recent levels)
and `idle` (cycles since the last pulse); they are only read by properties.

**Board**: `soc_top.sv` whole. It extends Soc, instantiates StepControl over its
own variables, and adds the watch latch; a step is one clock edge of everything,
and `step_en`, a free input in Soc, is what the step control makes of its state.
`rst` is `KEY[0]`, and all keys and switches may move in every cycle.
**BoardProperties** follows one press in `press`, from the cycle that accepts it
to the one that accepts its release, and in `watched` the registers that were not
written since the watch took its value from them; `WatchTruthful` is about these.

**Encoding**: the real 32-bit word as a function from bit numbers to bits. The
encoders of `isa.py`, the concatenations of `imm_gen.sv` and the shifted fields of
`iss.py` are each written their own way. **Assembler** is `assemble()`:
`ReadLabel` and `ReadInstruction` are pass 1, `EncodeItem`, `UnknownLabel` and
`Return` pass 2. Text is already split into tokens: a member of `Line` is a line with
its registers and numbers read, any integer where the code takes any.
**AssemblerProperties** reads the finished words back and computes every address
from the text alone.

**DatapathBench** drives decoder, ALU and branch comparator with all their inputs
and states the benches' own references for them. **MemoryBench** is
`unit/tb_memory.py`: an array that holds anything at first, `setup` clearing it
word by word, loads and stores at any address with a model kept in step, and the
next test on the same array. **UnitTests** runs the one or the other.

**Coverage** is `sample()` as the set of bins a retirement counts in, and
`missing()`. **RandGen** says which word the generator may append to the words so
far (`drawn`); a random choice is any value it can draw.

**InjectedCore** is the core with one of the eleven bugs of `core.sv` that
`inject_bugs.py` knows, or none: the signals a bug reaches are defined again with
the prefix `dut_`, and `bug` is constant within a behaviour. `hangs` stands for a
core that stops retiring.

**Regression** is `tb_core.py`: a session is the sequence of its tests, a test
fetches programs, and each program goes through `load`, `deposit`, `reset`, `run`
(one action per iteration of `Iss.run`), `compare` (one per iteration of the
loop), `stop`, `check_halt`, `check_held` and `compare_state`. A handler is the code
between two awaits; it leaves in `tb.edges` how many rising edges it awaits, and
only `RisingEdge` can then act. A failed assertion ends its test and the session
goes on, as cocotb does. **RegressionProperties** says what the regression is
relied on for; `executed` and `outcomes` are history variables.

**BugInjection** is the loop of `inject_bugs.py` around a whole session per bug,
with the texts it looks for reduced to the terms of the expressions they are.

**BuildProgram** is `build_program.py --run` followed by the board: the golden
model runs the program on `--words` words, then Board powers up with the hex file.
`overrun` and `spoiled` are history variables.

`map` in `PROJECT.json` gives the source lines of every definition. Definitions
marked "mutant of" are deliberate mistakes: each property is shown to fail when
one of them replaces the definition it is named after.

## What the runs show

| Run | Properties | Instance |
|---|---|---|
| `soc` | `TypeOK` `WellFormed` `HaltExplained` `StoreRetires` `Frozen` `TraceComplete` `CommitAgrees` `RefinesIss` | 8-bit words, 4 words of memory, 4 registers, 2646 programs |
| `soc_live` | `FaultHalts` `Retires` | the same machine, one program per instruction |
| `soc_reset` | `OnlyRetirementWritesMemory` (violated) | programs of stores |
| `unit_tests` | `DecodeAgrees` `ExecuteAgrees` `BranchAgrees` `LoadAgrees` `ModelInStep` `RefinesBytes` | 4-bit words, all operand pairs, all opcodes and funct3, five funct7; two words of memory, all addresses |
| `step_control` | `TypeOK` `PulsesApart` `CleanPressPulses` `DebounceExact` `AdjacentEnables` | divisor 8, window 3 |
| `step_control_enable` | `EnableNeverTwice` (violated) | divisor 8, window 3 |
| `board` | `BoardTypeOK` `WatchTruthful` `PressAddsOne` | divisor 8, window 2, two registers, a loop run twice |
| `board_press` | `PressAdvancesOne` (violated) | the same board |
| `board_live` | `ReportTrue` `BuiltEnds` | divisor 2, window 1, 8 words on the board and 16 in the model, five programs |
| `assembler` | `Layout` `Disassembles` `ImmediatesAgree` `LabelsResolve` `LiLoads` `RefusesExactly` | 15586 texts, 32-bit words |
| `regression` | `BugsKilled` `OutcomesTrue` `RandomRunsWell` `RetirementsCompared` `NoFalseAlarm` `SessionShrinks` `EverySessionEnds` | 8-bit words, 16 words of memory, 4 registers, two suites of directed programs, random programs with two words in their body, 13 cores |
| `inject_bugs` | `AllCaught` (violated) | the same machine, the main suite |

*The core.* `RefinesIss` says that every clock edge is a step of the golden
model, the construction of a new one (reset), or changes nothing. `CommitAgrees`
is the scoreboard's comparison (`tb_core.py:77`) for every cycle of every
behaviour, and `TraceComplete` says that what the commit port reports is all that
happens outside reset, which is what makes comparing it worth anything; what can happen
in the first cycle of a reset is the business of `OnlyRetirementWritesMemory`. `Frozen`,
`HaltExplained` and `StoreRetires` are the three arguments about gating above.

*The bounds.* Four-byte words keep every lane, alignment and sign case; bytes of
two bits make addresses wrap within programs that TLC can enumerate. A program is
two instructions that load registers (one of them possibly with an address that
points at code, or with a negative number), any instruction of a dictionary of
98, and a last word that stops, jumps back or is negative data. The dictionary
has every opcode and every funct3, legal and illegal, register zero as source and
destination, misaligned targets and addresses, and stores that hit the program
itself. Every arithmetic operation is checked on every operand pair by
`unit_tests`, so `soc` needs only a few operands. The divisor and window of the
step control are large enough that ticks, pulses and bounces fall in every
relative order; nothing depends on their size, as the proofs confirm.

On the board the core's program is small, because what is in question is when it
advances, not what it computes: registers change, a branch is taken and not taken,
and the program halts. The divisor leaves room for presses with and without a tick.

Encoders and slices move single bits, so in `assembler` every operation meets
walking ones and zeros in its immediate and walking register numbers, which pins
every wire; texts of up to four lines put labels before, between and after lines
that expand to one or two words; `li` is tried at every edge of its halves.

*The regression.* `NoFalseAlarm` says that a correct core fails no comparison,
whatever the program before left it doing and wherever the step limit cut the
model off; the one exception is a program whose first word is a store that changes
that very word, which the two clock edges in reset execute before the run
(`tb_core.py:47`, `core.sv:148`; no directed or random program of the repository
begins so; the instance's second suite does, and fails). `BugsKilled` says that no
planted bug of the core survives a session, and that the coverage gate is never the
only test that noticed; it is about the instance's directed programs, not the
repository's sixty, and of the second suite, which a correct core fails too, it says
little. `RetirementsCompared` relates what retired since reset, a fact about the core,
to what the loop compared. `OutcomesTrue` says that the two outcome bins are true to
the branches the core retired, in every test and after any failure, except that a
branch taken by 4 is counted as not taken. `RandomRunsWell` is `randgen.py`'s promise: no trap
before the ECALL, the data pointer kept, the program's words intact. `SessionShrinks`
says that no step of a session, on whatever core, leaves it as far from its end as it
was: five numbers (tests, programs, phases, iterations, clock edges ahead) fall in
lexicographic order. `EverySessionEnds` follows if steps are taken, on a core that
hangs too: the budget runs out.

The directed programs of the instance cover every required bin in 43 words. One
suite leaves a program in a loop when the model stops and follows it with one that
has a store where the loop stood; the other begins a program with a store over
itself. Random programs run on the unmodified core only, from a dictionary of words
the generator can draw and words it must not; two body words are enough for a
branch backwards, a jump over a store, a store followed by a load of its bytes and
the last word as a target. `MaxSteps` is 12: the longest directed program that halts
just does, and the loop does not. The `SLACK` of 3 instead of 200 only makes the
budget tighter.

*The builder.* `ReportTrue`: a board that has halted shows the registers, the cause
and the memory that `build_program.py` predicted, however it was stepped and pressed,
on two conditions: the program used no address that only one of the two memories has
(`--words` defaults to 256, `soc_top.sv:97` builds 64), and the last reset found the
memory as the hex file left it (reset does not restore it). A program that fails the
first, and a board that fails the second, are outside the property altogether. One
program of the instance toggles its own data word, one loads from beyond the board's
memory, one is too long for the board and one for the model. The documentation makes
neither condition (see below); without `~spoiled` the program that toggles its word
violates the property, without `~overrun` the one that loads from beyond.

*The watch.* `WatchTruthful` is about `SW[8]` up, as `soc_top.sv:7` and
`docs/HARDWARE.md:239` have it. It covers every move of `SW[4:0]`, also away from a
register and back, and says that the display then shows the selected register if
the watch took its value from it and saw every write since. Of other registers it says
nothing, and neither does the display.

*The four violations* are disagreements between the code and its documentation:

* `soc_reset`: `core.sv:148` gates the write enable by `halted` and `step_en`,
  not by `rst`, while `core.sv:205` gates `commit_valid` by `rst`. A store at the
  pc in the cycle in which reset is asserted is written, and the commit port,
  which "reports what the instruction in this cycle did" (`core.sv:11`), shows no
  retirement.
* `step_control_enable`: "The enable is never high twice in a row"
  (`soc_top.sv:89`, and `de10_cpu.sdc:23`, which rests the two-cycle timing
  budget on it). In slow mode a key pulse in the cycle before or after a tick
  makes it high twice. `AdjacentEnables` shows that this and a move of `SW[9]`
  are the only ways, so the claim does hold at full speed.
* `board_press`: "Each press advances exactly one instruction"
  (`docs/HARDWARE.md:267`, `README.md:310`). The slow tick runs on while the key
  is used, so a press held across a tick sees two instructions, and one whose pulse
  falls on a tick adds none. `PressAddsOne` is what does hold.
* `inject_bugs`: "All 43 planted mutants are detected and killed by the test suite"
  (`README.md:252`, and a gate in `ci.yml:39`). Two entries of `MUTANTS`
  (`inject_bugs.py:138-141`) look for text that `core.sv` no longer has since
  `step_en` was added, and a text that is not there ends the program
  (`inject_bugs.py:166-167`) with the later bugs never planted. Whether the repository's
  own programs would catch those is not modelled; `BugsKilled` shows that the
  instance's programs do.

*Other disagreements*, which the properties state as the code has them and no run
states as the documentation does:

* `README.md:312`: "`SW[8]`: Display select (LOW = selected register value, HIGH =
  current PC)". `soc_top.sv:135` is the other way round, and `soc_top.sv:7` and
  `docs/HARDWARE.md:239` say so.
* `README.md:311` and `docs/HARDWARE.md:274-275`: the display shows whichever register
  `SW[4:0]` selects, and one can "dial" through them on a board whose program has ended.
  The watch takes a value only when the selected register is written
  (`soc_top.sv:126`), so a halted board goes on showing the register selected before.
* `docs/HARDWARE.md:235`: `KEY[0]`, "hold and release to restart the program". Reset
  restores no memory (`memory.sv:114`), so a program that has changed its data can end
  with other registers the second time.
* `docs/HARDWARE.md:29-30`: "If the board shows something else, the hardware is wrong —
  not your expectation". A program of two words that loads from an address only the
  builder's model has (`build_program.py:30`) is accepted, fits the board, and ends
  otherwise there.
* `README.md:255-258`: the bins that "must be hit" include "Every instruction type and
  ALU operation", branches "forward and backward" and accesses "across all byte
  lanes". `REQUIRED` (`coverage.py:26-41`) has one bin for the register-immediate and one for
  the register-register instructions, none for the direction of a branch, and one for
  all non-zero lanes. The gate therefore opens on sessions that miss most of these, and no
  property here rests on its opening.
* `coverage.py:3-4`: coverage "reflects what the core actually executed". A branch taken
  by 4 counts as not taken (`coverage.py:61`); `OutcomesTrue` says that it is the
  only exception.

*Fairness.* `FairSpec` assumes that the clock ticks (weak fairness of the only
action) and that `step_en` is high infinitely often. The test bench holds it
high; on the board it is what the divider provides, as long as `SW[9]` comes to rest. Reset needs
no assumption there: both liveness properties are fulfilled by a reset.
`BuildSpec` assumes that the tool runs and then the board's clock; `BuiltEnds` then
follows in either position of `SW[9]`, pressed or not, once `KEY[0]` stays released.
`RegressionSpec` assumes that a step that can be taken is taken: a test is sequential
code that stops only at an await, and the simulation's clock never stops.

## What is proved

`WordProofs` holds what the other proofs share: quotients and remainders by any base;
that words, lanes and both paths of the memory stay in range (`JoinBound`,
`LoadType`, `MergedType`); and what the two implementations of the instruction set
have in common before either has a state. Joining and splitting a word are inverse
(`LanesOfJoin`, `JoinOfLanes`), the lanes of a word are what the model gets by
shifting and masking it (`Slices`), and on these rest the points where the two sides
compute differently: `SameAlu` (with `SameShift` for the two arithmetic shifts),
`SameIllegal`, `SameBranch`, `LoadSlices`, and `SameMerge`: byte enables over replicated
data change a word as the model's mask and or do. The golden model appears there as
`Reference`, an instance without a memory; each proof shows that its own instance
computes the same.

`SocProofs` proves, for every width, memory size, register count, program and
instruction encoding that the assumptions of Isa allow:

* `TypeCorrect`: `Spec => []TypeOK`. Most of the work is arithmetic, shown in
  WordProofs; from there every signal is typed (`SignalTypes`).
* `WellFormedCorrect`: `Spec => []WellFormed`. The pc moves only when `trap` is
  low, and then `misaligned_target` is low.
* `StoresRetire`: `Spec => []StoreRetires`. A store continues at pc + 4, which is
  aligned if pc is (`TruncateAligned`), so the fetch check cannot fire for a store
  and the memory's own alignment check is the only one left. `WellFormed` is the
  strengthening this needs.
* `FrozenCorrect`: `Spec => Frozen`.
* `HaltCorrect`: `Spec => []HaltExplained`. `SameCause` shows that a running,
  enabled core sees the golden model's fault: the two decoders refuse the same
  encodings (`SameIllegal`), and legal instructions compute the same addresses and
  targets (`SameAddresses`, `SameBranch`, `TruncateClearsBit0`). The step that
  latches the cause changes nothing the cause depends on, by `StoreRetiresHere`
  for memory, and `FrozenStep` keeps it so.

The inductive invariant is `TypeOK /\ WellFormed /\ HaltExplained`.

The second half of the module builds the refinement on that invariant.

* `RefinementCorrect`: `Spec => RefinesIss`, under the mapping that joins the byte
  lanes of each word. `SameLoad`, `SameStore` and `SameValue` carry the lemmas of
  WordProofs over to the core's memory and registers, and `RetireStep`, `TrapStep` and
  `ResetStep` are the three kinds of step that are not a stutter.
* `CommitCorrect`: `Spec => CommitAgrees`, what the commit port reports when it is
  valid, from the same lemmas (`SameCommit`).
* `TraceCorrect`: `Spec => TraceComplete`, for every edge outside reset. `EnabledLanes` bounds the bytes a store
  can touch.

`UnitTestProofs` proves what the unit tests check by sampling, for every width, memory
size and choice of the values driven.

* `MemoryCorrect`: `Spec => RefinesBytes`. Addresses run round the array, so a byte is
  placed by its word and lane and a number of turns (`Around`); from that, the lanes
  above an address are the bytes after it (`ByteAfter`), and the distance back from a
  lane is the digit of the data stored there (`Distance`). `LaneStored` and
  `WidthEnabled` say that the enabled lanes are exactly the bytes of the width and carry
  its digits, `StoreBytes` that a store is therefore one write of the byte array, and
  `SameRefusal` that both refuse the same addresses.
* `ModelCorrect` and `LoadCorrect`: `Spec => []ModelInStep` and `Spec => []LoadAgrees`.
  The array holds anything at first, so the invariant `InStep` says how far `setup`
  has cleared it; from there `StoredWord` keeps model and array equal word by word.
* `DecoderCorrect`: `Spec => []DecodeAgrees`. The bench describes the ports by updates
  of a dictionary, `decoder.sv` by one expression per port; `LegalUpdate` and
  `RefusedUpdate` say which updates an instruction gets, `DecodeLegal` and
  `DecodeRefused` compare all ports for each opcode.
* `AluCorrect` and `BranchCorrect`: `Spec => []ExecuteAgrees` and
  `Spec => []BranchAgrees`, for all words instead of the operands of the instance.

`StepControlProofs` proves for every window and divisor the types and bounds
(`Typing`), that the debouncer is exact (`DebounceCorrect`), that pulses are two
windows apart (`PulsesCorrect`), that a clean press is never missed
(`CleanPressCorrect`), and where consecutive enables can occur (`EnablesApart`). The
strengthening is a relation between the debounce counter, the stable level and the
length of the run of equal samples in `past`; a press that is on its way adds
`Pending` and `Taken`, which say what the run of high samples that just ended means for
the level, the previous level and the pulse.

`BoardProofs` proves of the composed board, for every program and every divisor:
`BoardTypeCorrect`; `WatchCorrect`, whose invariant `WatchInv` is that the watch
equals every register in `watched` (a register changes only as the commit port
reports it, `CommitTellsRegister`); `PressCorrect` for windows of at least two cycles
(with a window of one a release could overtake the pulse), whose invariant `Account`
says what a press has done in its first cycle, in its pulse cycle and afterwards;
and `BoardIsSoc`, that the board drives the core as Soc allows, so that the theorems
of `SocProofs` hold of it (`BoardHaltCorrect` is one).

`RegressionProofs` proves of the scoreboard, for every suite, random choice, planted
bug, step limit and budget:

* `RetirementsComparedCorrect`. Between two samples the count of retirements is behind by
  what is due at the next edge, so the invariant `Counted` says for every phase, with
  the edges it still awaits, how many have retired and how many were compared, back to
  the reset edge that makes them zero; `Steady` says that what a cycle will retire does
  not change before its edge.
* `UnmodifiedCore`: InjectedCore without a bug is the core of Soc.
* `RandomRunsWellCorrect`: `RegressionSpec => []RandomRunsWell`. `Drawn` says what the
  generator has put where, and the invariant `Running` what a run of such a program
  keeps: the pc is at the start of an instruction that the prologue or the body
  holds or at the ECALL, a jump or branch from there stays inside, the data pointer is set
  from the second instruction on, and every store lands in the data window, which the
  layout keeps away from the code. `Session` says which programs can be under test.
* `NoFalseAlarmCorrect`: `RegressionSpec => NoFalseAlarm`. The scoreboard runs the model
  to its end before the core starts, so the model's state says nothing about the core's:
  the proof remembers the chain `st` of states the model went through (`Chain`, `Ended`),
  and the invariant `Lockstep` is that the core is in the state of the chain that the
  number of retirements points at (`CoreIn`, with `Place`). One exception has to be
  carried along: in reset the core executes a first instruction that is a store, twice,
  so it starts one store ahead (`Early`); unless the store changes the first word itself
  it retires again with the same commit and the same result (`EarlyReads`, `EarlyEdge`).
  A program whose first word does change itself is excluded: the theorem says nothing
  of it, and the instance's second suite shows that it can fail on a correct core.
  The core's own steps come from the refinement (`RetireEdge`, `TrapEdge`), the
  comparison from `CommitCorrect`'s lemmas (`CommitAccepted`).
* `SessionShrinksCorrect`: `RegressionSpec => SessionShrinks`. The invariant `Countdown`
  says that the counter of each phase is a number and within its limit when the phase
  counts it down; `HandlerNears` goes through the handlers and names the number that
  falls, `NearerBy` is the order. Nothing of the core is used but that `RisingEdge` uses up
  an edge, so it holds of cores that hang.
* `OutcomesCorrect`: `RegressionSpec => []OutcomesTrue`. Bins and branches do not move
  together: the comparison samples before the edge at which the core branches, so the
  invariant `Sampled` counts a branch as done once it is `Pending`. That a
  sample tells what the branch does is `SampleTells`: the next pc is pc + 4 for an
  untaken branch and, as addresses wrap once at most (`WrapOnce`), for no taken one but
  one by 4. That no branch retires where nothing is sampled is `Quiet`, from `Lockstep`. A program whose
  first word destroys itself in reset is outside `Lockstep`; `DestroyedSoon` says of
  it that a lane of that word is `Lost`, that the core therefore stops, or fails
  its first comparison, and that no branch retires on the way.

`BuildProofs` proves `ReportCorrect`: `BuildSpec => []ReportTrue`, for every pair of
memory sizes, with the two conditions of `ReportTrue`: nothing is proved of a program
that used an address of one memory only, nor after a reset that found the memory
changed. The tool runs its model before the board starts, so the invariant
`BuildInv` keeps the chain `st` of the states the model went through, and says that the
board, if reset found the hex file, `Agrees` with one of them: the same registers and pc,
and the same words in the memory that both have. `InBoth` says that an address within
both memories means the same word in either, `AgreesStep` that the board's next
instruction is then the model's, by the core's refinement; a reset starts the chain again
(`StartsAlike`). When both have halted they stand at the end of the chain (`ReportHere`).

`AssemblerProofs` is about the real 32-bit encoding. It proves, for every text of
`Line`s, every set of labels and every base address on a word boundary, the six
properties of the run `assembler`: `LayoutCorrect`, `DisassemblesCorrect`,
`ImmediatesCorrect`, `LabelsCorrect`, `LiCorrect` and `RefusesCorrect`.

* The arithmetic comes first, by induction over bit positions: halving a number over
  and over gives its bits (`Halve`, `BitOf`), a remainder by a power of two keeps the
  low ones (`BitsLow`), a quotient shifts them (`BitsShifted`), a small number repeats its
  sign (`BitsSmall`), and reading bits back gives the number (`NumberOfBits`,
  `BitsOfNumber`, `SignExtend`). `Number` and `AddressOf` are recursive functions, so
  their equations rest on the existence of a function with them (`Recursion`), proved
  from the induction theorem of the library with a set in the place of a predicate.
* The builders of `isa.py` are an or of shifted slices. `Placed` says what a shifted
  slice is, `OrCarries` that an or keeps a field where the others are zero; hence for
  each format which bits of which operand a word carries (`RType` to `JType`).
* `RtlImmediate` and `IssImmediate` give both decoders' immediates bit by bit
  (`Immediate`), for every word; with the above, a word that carries an immediate its
  field can hold gives it back (`ReadsI` to `ReadsJ`).
* `Unambiguous` says that no word spells two operations, and the `Spells...` lemmas
  that each builder's word spells its own; `Encodes` puts them together over `encode`.
* The inductive invariant `Assembling` (`AssemblingAlways`) has seven parts: the lines
  read are a prefix of the source (`Following`); items are dense from the base, and `pc`
  is what the sizes of the lines read add up to (`Counted`); every instruction of a line
  read is an item at its address (`Emitted`) and every label an item needs is used by a
  line read (`Required`); a label has the address of its last definition so far
  (`LabelsMet`); a word is its item's encoding with every label known, and none exists
  before pass 1 is over (`Encoded`); and what `outcome` says (`Ended`). `Layout` alone
  is not inductive: that a label is still right when pass 2 uses it, and that the word
  at the address of a line is that line's, needs the relation of items and labels to the
  lines already consumed. `Expansion` is the fact about pseudo-instructions it rests on.
  TLC finds it to hold in all 97999 states of the instance.
* `LabelsCorrect` then follows from `DefinitionOf` and `WordOfLine`; `LiCorrect` from
  `LowHalf`, `UpperHalf` and `Borrow`, the wrap of LUI's twenty bits.

The assumptions are the named ASSUMEs of Isa, Soc, StepControl, Board, RandGen,
Regression, BuildProgram, MemoryBench, DatapathBench and Assembler, all evaluated by TLC on the instances above:
widths are powers of two, the memory divides the address space, `Fields` yields
instructions whose B and J immediates are even, bitwise operations stay within a word,
the random programs' layout fits, directed programs are words and as many as the memory
has, the freeze test's program begins with three ADDIs, the step limit is positive, the number of random programs is
a natural number, board programs are words and the tool's model has a memory, the
memory bench stores words and the decoder bench drives seven-bit values of funct7;
texts are made of lines, a program begins on a word boundary.

Only model-checked: `BugsKilled`, which is a claim about the directed
programs of the instance and false of others, and the liveness properties `FaultHalts`,
`Retires`, `BuiltEnds` and `EverySessionEnds`, which are beyond the proof system. Of the
last, `SessionShrinksCorrect` proves the descent; that a descent in naturals is finite
and that fairness keeps taking steps is left to the run.

## Not modelled

* The assembler's tokenising, register names and number syntax, and the errors
  they raise.
* X values before the first reset in simulation; the models start from the
  FPGA's cleared flip-flops, and reset is possible in every cycle.
* Metastability and skew of the unsynchronised inputs: an input has one level per
  clock, the same for every flip-flop that samples it.
* Combinational delays. That the two-cycle budget is enough is for timing
  analysis; that its premise about `step_en` holds is checked here.
* Simulation time: `load_and_reset` starts another `Clock` on the same wire for every
  program and stops none (`tb_core.py:40`); the models assume one clock, and that
  the first falling edge follows one rising edge.
* `expect_halt` (`tb_core.py:104`), which the code accepts and never compares, and the
  texts of the 60 directed programs: the instance has its own.
* The weights of the random choices, `core_random_long` (the same with other lengths),
  and the counts of the coverage report.
* The bugs that `inject_bugs.py` plants in single blocks, and the test benches
  of `pc_unit` and `regfile`, whose blocks are modelled as part of Soc and checked
  there; the reference of the `imm_gen` bench is the golden model's slicing over again,
  which `ImmediatesAgree` compares with the block; command lines, file copying, process control and `sim.py`.
* `fpga/top.sv`, `fpga/seg7.sv` (combinational demos), pin and build files, and the
  continuous integration workflow.

## Plan

1. Done: Isa, Decoder, Datapath, Memory, Iss, Soc, StepControl, Board, Encoding,
   Assembler; Regression with RandGen, Coverage and InjectedCore; BugInjection,
   BuildProgram, UnitTests; their runs, and the proofs above, with the core's
   refinement of the golden model, the scoreboard's lockstep, the board's report and the
   assembler.
2. Left: `BugsKilled` over a dictionary of generated programs, to see which bugs random
   programs alone find; the benches of `pc_unit` and `regfile`.
