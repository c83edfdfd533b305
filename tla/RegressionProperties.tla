------------------------ MODULE RegressionProperties ------------------------
(***************************************************************************)
(* What the regression is relied on for: it does not blame a correct core, *)
(* it notices the planted bugs, its random programs run well, it compares  *)
(* everything that retires, and it ends.                                   *)
(***************************************************************************)
EXTENDS Regression

\* A store that changes its own word: the only kind of first word whose execution
\* during the two reset edges (core.sv:148) the later run does not repeat.
StoresOverItself(program) ==
    LET i == Fields(program[1])
        x == i.imm["S"]
        w == ToLanes(program[1])
    IN /\ mem_write(i) /\ ~unaligned(x, i.funct3) /\ WordIndex(x) = 0
       /\ merged(w, x, i.funct3, 0) # w

-----------------------------------------------------------------------------
\* A comparison fails on the unmodified core only for a program that starts
\* with a store that changes its own word, whatever the core was left doing by
\* the program before and wherever the step limit cut the model off
\* (tb_core.py:34-51, 112-147).
NoFalseAlarm ==
    [][bug = "none" /\ tb.test # "coverage" /\ tb'.failed # tb.failed
          => StoresOverItself(tb.words)]_regressionVars

\* A session on a core with a planted bug ends with a failed comparison, not
\* only with a closed coverage gate: no bug of the core survives
\* (inject_bugs.py:210-219; "All 43 planted mutants are detected", README.md:252).
\* This is a claim about the suites of the instance: it says nothing of other
\* directed programs, and little of a suite that a correct core fails as well.
BugsKilled ==
    tb.test = "done" /\ bug # "none" => tb.failed \ {"coverage"} # {}

\* The two outcome bins say what the branches of the unmodified core did, in
\* every test and after any failure, except that a branch taken by 4 counts as
\* not taken (coverage.py:61): no branch retires unsampled and none is sampled
\* that does not retire.
OutcomesTrue ==
    bug = "none" /\ tb.edges = 0 =>
        /\ <<"outcome", "taken">> \in tb.COVERAGE <=> "taken" \in outcomes
        /\ <<"outcome", "not-taken">> \in tb.COVERAGE
              <=> {"not-taken", "taken-by-4"} \cap outcomes # {}

\* How far a session is from its end: tests, programs of the test, phases of
\* the program, iterations of the phase and edges to its next handler.
TestsAhead == [directed |-> 4, random |-> 3, freeze |-> 2, coverage |-> 1, done |-> 0]
PhasesAhead ==
    [fetch |-> 9, generate |-> 8, deposit |-> 7, reset |-> 6, model |-> 5, compare |-> 4,
     halted |-> 3, held |-> 2, state |-> 1,
     warm |-> 5, disable |-> 4, disabled |-> 3, frozen |-> 2, enabled |-> 1, resumed |-> 0]
ProgramsAhead ==
    Len(tb.todo) + tb.randoms + IF tb.phase = "fetch" /\ tb.test # "freeze" THEN 0 ELSE 1
IterationsAhead ==
    CASE tb.phase = "generate" -> prologue + body_len + 1 - Len(tb.words)
      [] tb.phase = "model"    -> MaxSteps - tb.count
      [] tb.phase = "compare"  -> tb.budget
      [] tb.phase \in {"held", "frozen"} -> tb.count
      [] OTHER -> 0
Ahead == <<TestsAhead[tb.test], ProgramsAhead, PhasesAhead[tb.phase], IterationsAhead, tb.edges>>

Nearer(s, t) ==
    /\ s \in [1 .. 5 -> Nat] /\ t \in [1 .. 5 -> Nat]
    /\ \E k \in 1 .. 5 : t[k] < s[k] /\ \A j \in 1 .. k - 1 : t[j] = s[j]

\* A session cannot go round in a circle: whatever core it meets and however its
\* tests fail, each of its steps, an edge included, brings its end nearer in the
\* lexicographic order of five natural numbers.  The step limit bounds the model
\* (iss.py:250), the budget a core that does not retire (tb_core.py:113).
SessionShrinks == [][Nearer(Ahead, Ahead')]_regressionVars

\* A generated program stops nowhere but at its final ECALL, keeps its data
\* pointer and never writes its own code (randgen.py:6-13, 97-99).
RandomRunsWell ==
    tb.test = "random" /\ tb.phase \in {"model", "compare", "halted", "held", "state"} =>
        /\ m_halted => m_halt_cause = HALT_ECALL /\ m_pc = EndOfProgram
        /\ m_pc \notin {0, 4} => m_regs[DATA_REG] = DATA_BASE
        /\ \A k \in 0 .. prologue + body_len : m_mem[k] = tb.words[k + 1]

\* Every retirement of the core since reset was compared, and a program passes
\* only when all that the model expects were.
RetirementsCompared ==
    tb.phase \in {"compare", "held", "state"} /\ tb.edges = 0 =>
        /\ executed = tb.retired
        /\ tb.phase # "compare" => executed = Len(tb.expected)

\* Every session ends, also on a core that stops retiring and on programs that
\* never halt: the step limit bounds the model, the budget the core.
EverySessionEnds == <>(tb.test = "done")
=============================================================================
