----------------------------- MODULE Regression -----------------------------
(***************************************************************************)
(* src/verif/tb_core.py: the scoreboard.  Its tests run one after another  *)
(* on one simulated core; each program is loaded under reset, run on the   *)
(* golden model, then compared retirement by retirement.  A handler is the *)
(* code between two awaits; it reads settled values and ends by awaiting   *)
(* tb.edges rising edges, which are the simulator's.  A failed assertion   *)
(* ends its test, not the session.                                         *)
(***************************************************************************)
EXTENDS InjectedCore, RandGen, Coverage

CONSTANTS
    Suites,         \* the values PROGRAMS may have: sequences of programs
    RANDOMS,        \* how many random programs a session may run
    FREEZE, t0,     \* the program of core_step_enable_freezes, the register it counts in
    MaxSteps,       \* max_steps
    SLACK           \* the 200 of the budget

\* The directed programs are words, at least one and as many as fit.
ASSUME SuitesAssumption ==
    \A suite \in Suites : /\ suite \in Seq(Seq(Word))
                          /\ \A k \in DOMAIN suite : Len(suite[k]) \in 1 .. WORDS

\* The program of the freeze test begins with three ADDIs (tb_core.py:386-389).
ASSUME FreezeAssumption ==
    /\ FREEZE \in Seq(Word) /\ Len(FREEZE) \in 3 .. WORDS
    /\ \A k \in 1 .. 3 : Fields(FREEZE[k]).opcode = "IMM" /\ Fields(FREEZE[k]).funct3 = 0

ASSUME LimitsAssumption == MaxSteps \in Nat \ {0} /\ SLACK \in Nat /\ RANDOMS \subseteq Nat

VARIABLES
    m_mem, m_regs, m_pc, m_halted, m_halt_cause,    \* the Iss object
    tb,                 \* the test bench: its place in the session and its variables
    executed, outcomes  \* history: retirements since reset, outcomes of the core's branches
history == <<executed, outcomes>>
model == <<m_mem, m_regs, m_pc, m_halted, m_halt_cause>>
regressionVars == <<vars, bug, model, tb, history>>

Model == INSTANCE Iss WITH mem <- m_mem, regs <- m_regs, pc <- m_pc, halted <- m_halted,
                            halt_cause <- m_halt_cause

AfterTest == [directed |-> "random", random |-> "freeze", freeze |-> "coverage",
              coverage |-> "done", done |-> "done"]

-----------------------------------------------------------------------------
(* The session *)

At(phase) == tb.phase = phase /\ tb.edges = 0

\* One rising edge of the simulation.
RisingEdge ==
    /\ tb.edges > 0
    /\ tb' = [tb EXCEPT !.edges = @ - 1]
    /\ DutEdge
    /\ executed' = IF rst THEN 0 ELSE IF dut_valid THEN executed + 1 ELSE executed
    /\ outcomes' = IF dut_valid /\ branch(f)
                   THEN outcomes \cup {IF ~dut_taken THEN "not-taken"
                                       ELSE IF imm(f) = 4 THEN "taken-by-4" ELSE "taken"}
                   ELSE outcomes
    /\ UNCHANGED <<rst, step_en, model>>

\* Neither the core nor the model moves.
Still == UNCHANGED <<vars, model, history>>
NextTest == [tb EXCEPT !.test = AfterTest[@], !.phase = "fetch"]
Pass == tb' = NextTest /\ Still
Fail == tb' = [NextTest EXCEPT !.failed = @ \cup {tb.test}] /\ Still

\* Rising edges before the first falling edge: the clock just started (cocotb's
\* Clock) rises once, in reset, on the core the last program left.
clock_Skipped == 0                              \* mutant of clock
clock == 1

\* load_and_reset asserts the length, then drives the inputs.
load(program) ==
    IF Len(program) > WORDS THEN Fail
    ELSE /\ tb' = [tb EXCEPT !.words = program, !.phase = "deposit", !.edges = clock,
                             !.todo = IF tb.test = "directed" THEN Tail(@) ELSE @]
         /\ rst' = TRUE /\ step_en' = TRUE
         /\ UNCHANGED <<arch, model, history>>

core_directed_programs ==
    tb.test = "directed" /\ At("fetch") /\ IF tb.todo = <<>> THEN Pass ELSE load(Head(tb.todo))

\* core_random_long is the same with other lengths.
core_random_programs ==
    /\ tb.test = "random" /\ At("fetch")
    /\ IF tb.randoms = 0 THEN Pass
       ELSE tb' = [tb EXCEPT !.randoms = @ - 1, !.phase = "generate", !.words = <<>>] /\ Still

Generate ==
    /\ At("generate")
    /\ IF Len(tb.words) > prologue + body_len THEN load(tb.words)
       ELSE /\ \E w \in Word :
                  drawn(tb.words, Fields(w)) /\ tb' = [tb EXCEPT !.words = Append(@, w)]
            /\ Still

core_step_enable_freezes == tb.test = "freeze" /\ At("fetch") /\ load(FREEZE)

core_functional_coverage ==
    tb.test = "coverage" /\ At("fetch") /\ IF missing(tb.COVERAGE) = {} THEN Pass ELSE Fail

-----------------------------------------------------------------------------
(* load_and_reset *)

Padded == [i \in Index |-> IF i < Len(tb.words) THEN tb.words[i + 1] ELSE 0]

\* Two rising edges in reset are still to come.
deposit ==
    /\ At("deposit")
    /\ mem' = [i \in Index |-> ToLanes(Padded[i])]
    /\ tb' = [tb EXCEPT !.phase = "reset", !.edges = 2]
    /\ UNCHANGED <<pc, regs, halted, halt_cause, rst, step_en, model, history>>

\* Out of reset on a falling edge.  A program then meets a model of its own.
reset ==
    /\ At("reset")
    /\ rst' = FALSE
    /\ tb' = [tb EXCEPT !.phase = IF tb.test = "freeze" THEN "warm" ELSE "model",
                        !.count = 0, !.expected = <<>>, !.retired = 0]
    /\ m_mem' = Padded /\ m_regs' = [r \in Reg |-> 0] /\ m_pc' = 0
    /\ m_halted' = FALSE /\ m_halt_cause' = HALT_NONE
    /\ UNCHANGED <<arch, step_en, history>>

-----------------------------------------------------------------------------
(* run_program *)

\* One iteration of Iss.run; a trap ends it and appends nothing.
run ==
    /\ At("model")
    /\ IF tb.count = MaxSteps \/ m_halted
       THEN /\ tb' = [tb EXCEPT !.phase = "compare", !.budget = Len(tb.expected) * 4 + SLACK]
            /\ Still
       ELSE /\ Model!Step
            /\ tb' = [tb EXCEPT !.count = @ + 1,
                                !.expected = IF Model!Cause = HALT_NONE
                                             THEN Append(@, Model!Commit) ELSE @]
            /\ UNCHANGED <<vars, history>>

\* Address and data are compared only when the model stores.
compare_commit(got, exp) ==
    /\ \A x \in {"pc", "inst", "next_pc", "rd", "rd_wdata", "mem_write"} : got[x] = exp[x]
    /\ exp.mem_write => got.mem_addr = exp.mem_addr /\ got.mem_wdata = exp.mem_wdata

retire_Blind == tb.retired + 1                  \* mutant of retire
retire == IF dut_valid THEN tb.retired + 1 ELSE tb.retired

More == tb.retired < Len(tb.expected)

\* What the budget is after an iteration of the loop.
spend_OnCommit == IF dut_valid THEN tb.budget - 1 ELSE tb.budget    \* mutant of spend
spend == tb.budget - 1

compare ==
    /\ At("compare") /\ More
    /\ LET exp == tb.expected[tb.retired + 1]
       IN IF spend <= 0 \/ halted \/ (dut_valid /\ ~compare_commit(dut_commit, exp)) THEN Fail
          ELSE /\ tb' = [tb EXCEPT !.budget = spend, !.retired = retire, !.edges = 1,
                           !.COVERAGE = IF dut_valid
                                        THEN @ \cup sample(Fields(exp.inst), exp) ELSE @]
               /\ Still

\* The model stopped: one more edge for the core to latch the trap.
stop ==
    /\ At("compare") /\ ~More
    /\ IF halted /\ ~m_halted THEN Fail
       ELSE /\ tb' = IF m_halted THEN [tb EXCEPT !.phase = "halted", !.edges = 1]
                     ELSE [tb EXCEPT !.phase = "state"]
            /\ Still

check_halt ==
    /\ At("halted")
    /\ IF ~halted \/ halt_cause # m_halt_cause \/ pc # m_pc THEN Fail
       ELSE tb' = [tb EXCEPT !.phase = "held", !.count = 3, !.edges = 1] /\ Still

\* Three edges, a look at the pc after each.
check_held ==
    /\ At("held")
    /\ IF pc # m_pc THEN Fail
       ELSE /\ tb' = IF tb.count > 1 THEN [tb EXCEPT !.count = @ - 1, !.edges = 1]
                     ELSE [tb EXCEPT !.phase = "state",
                                     !.COVERAGE = @ \cup {<<"halt", m_halt_cause>>}]
            /\ Still

compare_state ==
    /\ At("state")
    /\ IF regs = m_regs /\ \A i \in Index : FromLanes[mem[i]] = m_mem[i]
       THEN tb' = [tb EXCEPT !.phase = "fetch"] /\ Still
       ELSE Fail

-----------------------------------------------------------------------------
(* core_step_enable_freezes *)

\* Two retirements; then step_en goes low.
warm ==
    At("warm") /\ tb' = [tb EXCEPT !.phase = "disable", !.edges = 2] /\ Still
disable ==
    /\ At("disable")
    /\ tb' = [tb EXCEPT !.phase = "disabled", !.pc_before = pc, !.reg_before = regs[t0]]
    /\ step_en' = FALSE
    /\ UNCHANGED <<arch, rst, model, history>>

disabled ==
    /\ At("disabled")
    /\ IF dut_valid THEN Fail
       ELSE tb' = [tb EXCEPT !.phase = "frozen", !.count = 5, !.edges = 1] /\ Still

moved_PcOnly == pc # tb.pc_before               \* mutant of moved
moved == pc # tb.pc_before \/ regs[t0] # tb.reg_before

\* Five edges, a look after each; then step_en comes back.
check_frozen ==
    /\ At("frozen")
    /\ IF moved THEN Fail
       ELSE IF tb.count > 1 THEN tb' = [tb EXCEPT !.count = @ - 1, !.edges = 1] /\ Still
       ELSE /\ tb' = [tb EXCEPT !.phase = "enabled"] /\ step_en' = TRUE
            /\ UNCHANGED <<arch, rst, model, history>>

enabled ==
    /\ At("enabled")
    /\ IF ~dut_valid THEN Fail
       ELSE tb' = [tb EXCEPT !.phase = "resumed", !.edges = 1] /\ Still

resumed == At("resumed") /\ IF pc # tb.pc_before + 4 THEN Fail ELSE Pass

-----------------------------------------------------------------------------
RegressionInit ==
    /\ Init /\ rst = TRUE /\ step_en = TRUE
    /\ m_mem = [i \in Index |-> 0] /\ m_regs = [r \in Reg |-> 0] /\ m_pc = 0
    /\ m_halted = FALSE /\ m_halt_cause = HALT_NONE
    /\ bug \in BUGS \cup {"none", "hangs"}
    /\ executed = 0 /\ outcomes = {}
    /\ \E suite \in Suites, n \in RANDOMS :
          tb = [test |-> "directed", phase |-> "fetch", todo |-> suite, randoms |-> n,
                words |-> <<>>, edges |-> 0, count |-> 0, expected |-> <<>>, retired |-> 0,
                budget |-> 0, pc_before |-> 0, reg_before |-> 0, COVERAGE |-> {},
                failed |-> {}]

Test ==
    \/ core_directed_programs \/ core_random_programs \/ Generate
    \/ core_step_enable_freezes \/ core_functional_coverage
    \/ deposit \/ reset
    \/ run \/ compare \/ stop \/ check_halt \/ check_held \/ compare_state
    \/ warm \/ disable \/ disabled \/ check_frozen \/ enabled \/ resumed

RegressionNext == (RisingEdge \/ Test) /\ UNCHANGED bug

\* A test runs to its end unless an await never returns, and the clock of the
\* simulation never stops.
RegressionSpec == RegressionInit /\ [][RegressionNext]_regressionVars
                  /\ WF_regressionVars(RegressionNext)
=============================================================================
