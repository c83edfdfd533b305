--------------------------- MODULE RegressionProofs ---------------------------
(***************************************************************************)
(* For every suite of programs, random choice, planted bug, memory size,   *)
(* step limit and budget: the scoreboard compares everything that retires, *)
(* only puts programs under test that fit, its random programs stop        *)
(* nowhere but at their end, it does not blame a correct core unless the   *)
(* program destroys its own first word, it samples the branches that       *)
(* retire, and a session only ever gets nearer its end.                    *)
(***************************************************************************)
EXTENDS RegressionProperties, SocProofs, SequenceTheorems

\* The variables of the test bench, one by one.
Shape ==
    tb = [test |-> tb.test, phase |-> tb.phase, todo |-> tb.todo, randoms |-> tb.randoms,
          words |-> tb.words, edges |-> tb.edges, count |-> tb.count,
          expected |-> tb.expected, retired |-> tb.retired, budget |-> tb.budget,
          pc_before |-> tb.pc_before, reg_before |-> tb.reg_before,
          COVERAGE |-> tb.COVERAGE, failed |-> tb.failed]

\* Retirements at the next rising edge.
Due == IF dut_valid THEN 1 ELSE 0

\* What has retired (done) and what has been compared (seen) in each phase of a
\* program, edges before the next handler, with all instructions expected.
CountedAs(phase, edges, seen, all, done, resetting, stopped, due) ==
    /\ edges \in Nat /\ seen \in Nat /\ done \in Nat /\ all \in Nat
    /\ phase = "deposit" => resetting
    /\ phase = "reset" => resetting /\ edges <= 2 /\ (edges # 2 => done = 0)
    /\ phase = "model" => ~resetting /\ edges = 0 /\ done = 0 /\ seen = 0
    /\ phase = "compare" =>
          /\ ~resetting /\ seen <= all /\ edges <= 1
          /\ seen = done + IF edges = 1 THEN due ELSE 0
    /\ phase = "halted" =>
          /\ ~resetting /\ seen = all /\ edges <= 1
          /\ edges = 1 \/ stopped => done = seen
    /\ phase = "held" => ~resetting /\ stopped /\ seen = all /\ done = seen
    /\ phase = "state" => edges = 0 /\ seen = all /\ done = seen

Counted == CountedAs(tb.phase, tb.edges, tb.retired, Len(tb.expected), executed,
                     rst, halted, Due)

\* What the core will do at an edge does not change before it.
LEMMA Steady ==
    ASSUME UNCHANGED vars, UNCHANGED bug
    PROVE  dut_valid' = dut_valid /\ f' = f /\ dut_taken' = dut_taken
<1>1. /\ pc' = pc /\ regs' = regs /\ mem' = mem /\ halted' = halted
      /\ halt_cause' = halt_cause /\ rst' = rst /\ step_en' = step_en /\ bug' = bug
  BY DEF vars, arch
<1>2. f' = f
  BY <1>1 DEF f, inst, i_rdata
<1>3. rs1_data' = rs1_data /\ rs2_data' = rs2_data
  BY <1>1, <1>2 DEF rs1_data, rs2_data
<1>4. dut_rs2' = dut_rs2 /\ dut_a' = dut_a
  BY <1>1, <1>2, <1>3 DEF dut_rs2, dut_a, alu_a
<1>5. dut_b' = dut_b
  BY <1>1, <1>2, <1>4 DEF dut_b
<1>6. dut_y' = dut_y
  BY <1>2, <1>4, <1>5 DEF dut_y
<1>7. dut_taken' = dut_taken
  BY <1>1, <1>2, <1>3, <1>4 DEF dut_taken
<1>8. dut_next' = dut_next
  BY <1>1, <1>2, <1>6, <1>7 DEF dut_next, pc_plus4
<1>9. dut_misaligned' = dut_misaligned
  BY <1>1, <1>2, <1>6 DEF dut_misaligned, d_op, d_read, d_write
<1>10. dut_cause' = dut_cause
  BY <1>2, <1>8, <1>9 DEF dut_cause
<1> QED BY <1>1, <1>2, <1>7, <1>10 DEF dut_valid, dut_trap

\* One edge keeps the account.
LEMMA EdgeStep ==
    ASSUME Shape, Counted, rst \in BOOLEAN, halted \in BOOLEAN, RisingEdge
    PROVE  Shape' /\ Counted'
<1>1. /\ tb.edges > 0 /\ tb' = [tb EXCEPT !.edges = @ - 1]
      /\ executed' = IF rst THEN 0 ELSE IF dut_valid THEN executed + 1 ELSE executed
      /\ rst' = rst
      /\ halted' = IF rst THEN FALSE ELSE halted \/ (dut_trap /\ step_en /\ bug # "hangs")
  BY DEF RisingEdge, DutEdge
<1>2. /\ tb'.phase = tb.phase /\ tb'.retired = tb.retired /\ tb'.edges = tb.edges - 1
      /\ tb'.expected = tb.expected
  BY <1>1 DEF Shape
<1>3. Shape'
  BY <1>1 DEF Shape
<1>4. Due \in {0, 1} /\ (Due = 1 <=> dut_valid)
  BY DEF Due
<1>5. Due = 1 => ~halted /\ ~halted'
  BY <1>1, <1>4 DEF dut_valid
<1>6. executed' = IF rst THEN 0 ELSE executed + Due
  BY <1>1, <1>4 DEF Counted, CountedAs
<1>7. halted /\ ~rst => halted'
  BY <1>1
<1>8. CountedAs(tb.phase, tb.edges - 1, tb.retired, Len(tb.expected),
                IF rst THEN 0 ELSE executed + Due, rst, halted', Due')
  <2> DEFINE phase == tb.phase
             edges == tb.edges
             seen == tb.retired
             all == Len(tb.expected)
             due == Due
             due2 == Due'
             later == halted'
  <2>1. /\ CountedAs(phase, edges, seen, all, executed, rst, halted, due) /\ edges > 0
        /\ due \in {0, 1} /\ (due = 1 => ~halted /\ ~later) /\ (halted /\ ~rst => later)
    BY <1>1, <1>4, <1>5, <1>7 DEF Counted
  <2> HIDE DEF phase, edges, seen, all, due, due2, later
  <2>2. /\ edges \in Nat /\ edges - 1 \in Nat /\ executed \in Nat /\ executed + due \in Nat
    BY <2>1 DEF CountedAs
  <2>3. CountedAs(phase, edges - 1, seen, all, IF rst THEN 0 ELSE executed + due,
                  rst, later, due2)
    <3>1. CASE phase = "compare"
      BY <2>1, <2>2, <3>1 DEF CountedAs
    <3>2. CASE phase = "halted"
      BY <2>1, <2>2, <3>2 DEF CountedAs
    <3>3. CASE phase = "held"
      BY <2>1, <2>2, <3>3 DEF CountedAs
    <3>4. CASE phase \notin {"compare", "halted", "held"}
      BY <2>1, <2>2, <3>4 DEF CountedAs
    <3> QED BY <3>1, <3>2, <3>3, <3>4
  <2> QED BY <2>3 DEF phase, edges, seen, all, due, due2, later
<1> QED BY <1>1, <1>2, <1>3, <1>6, <1>8 DEF Counted

-----------------------------------------------------------------------------
(* The handlers *)

Bits == rst \in BOOLEAN /\ halted \in BOOLEAN

Tracked == {"deposit", "reset", "model", "compare", "halted", "held", "state"}

\* Between programs and in the freeze test nothing is counted.
LEMMA Untracked ==
    ASSUME NEW phase, phase \notin Tracked,
           NEW edges \in Nat, NEW seen \in Nat, NEW all \in Nat, NEW done \in Nat,
           NEW resetting, NEW stopped, NEW due
    PROVE  CountedAs(phase, edges, seen, all, done, resetting, stopped, due)
BY DEF Tracked, CountedAs

\* A handler that leaves the core alone and goes to a phase without counts.
LEMMA Leave ==
    ASSUME Shape, Counted, Bits, Still, NEW phase, phase \notin Tracked,
           tb'.phase = phase, tb'.edges \in Nat, tb'.retired = tb.retired,
           tb'.expected = tb.expected
    PROVE  Counted' /\ Bits'
<1>1. executed' = executed /\ rst' = rst /\ halted' = halted
  BY DEF Still, history, vars, arch
<1>2. executed \in Nat /\ tb.retired \in Nat /\ Len(tb.expected) \in Nat
  BY DEF Counted, CountedAs
<1>3. CountedAs(phase, tb'.edges, tb.retired, Len(tb.expected), executed, rst, halted, Due')
  BY <1>2, Untracked
<1> QED BY <1>1, <1>3 DEF Counted, Bits

LEMMA EndOfTest ==
    ASSUME Shape, Counted, Bits, Pass \/ Fail PROVE Shape' /\ Counted' /\ Bits'
<1>1. Shape' /\ tb'.phase = "fetch" /\ tb'.edges = tb.edges
      /\ tb'.retired = tb.retired /\ tb'.expected = tb.expected
  <2>1. CASE Pass
    BY <2>1 DEF Pass, NextTest, Shape
  <2>2. CASE Fail
    <3>0. PICK next : next = [tb EXCEPT !.test = AfterTest[@], !.phase = "fetch"]
      OBVIOUS
    <3>1. next = [test |-> AfterTest[tb.test], phase |-> "fetch", todo |-> tb.todo,
                  randoms |-> tb.randoms, words |-> tb.words, edges |-> tb.edges,
                  count |-> tb.count, expected |-> tb.expected, retired |-> tb.retired,
                  budget |-> tb.budget, pc_before |-> tb.pc_before,
                  reg_before |-> tb.reg_before, COVERAGE |-> tb.COVERAGE,
                  failed |-> tb.failed]
      BY <3>0 DEF Shape
    <3>2. tb' = [next EXCEPT !.failed = @ \cup {tb.test}]
      BY <2>2, <3>0 DEF Fail, NextTest
    <3> QED BY <3>1, <3>2 DEF Shape
  <2> QED BY <2>1, <2>2
<1>2. Still
  BY DEF Pass, Fail
<1>3. "fetch" \notin Tracked /\ tb.edges \in Nat
  BY DEF Tracked, Counted, CountedAs
<1> QED BY <1>1, <1>2, <1>3, Leave

\* load_and_reset, up to its first await.
LEMMA Loading ==
    ASSUME Shape, Counted, Bits, NEW program, load(program)
    PROVE  Shape' /\ Counted' /\ Bits'
<1>1. CASE Fail
  BY <1>1, EndOfTest
<1>2. CASE ~Fail
  <2>1. /\ tb' = [tb EXCEPT !.words = program, !.phase = "deposit", !.edges = clock,
                            !.todo = IF tb.test = "directed" THEN Tail(@) ELSE @]
        /\ rst' = TRUE /\ UNCHANGED <<arch, history>>
    BY <1>2 DEF load
  <2>2. Shape' /\ tb'.phase = "deposit" /\ tb'.edges = 1
        /\ tb'.retired = tb.retired /\ tb'.expected = tb.expected
    BY <2>1 DEF Shape, clock
  <2>3. rst' /\ halted' = halted /\ executed' = executed
    BY <2>1 DEF arch, history
  <2>4. CountedAs("deposit", 1, tb.retired, Len(tb.expected), executed, TRUE, halted, Due')
    BY DEF Counted, CountedAs
  <2> QED BY <2>1, <2>2, <2>3, <2>4 DEF Counted, Bits
<1> QED BY <1>1, <1>2

\* Fetching, generating and closing a test.
LEMMA SessionStep ==
    ASSUME Shape, Counted, Bits,
           \/ core_directed_programs \/ core_random_programs \/ Generate
           \/ core_step_enable_freezes \/ core_functional_coverage
    PROVE  Shape' /\ Counted' /\ Bits'
<1>1. CASE core_directed_programs
  BY <1>1, EndOfTest, Loading DEF core_directed_programs
<1>2. CASE core_random_programs
  <2>1. CASE Pass
    BY <2>1, EndOfTest
  <2>2. CASE ~Pass
    <3>1. /\ tb' = [tb EXCEPT !.randoms = @ - 1, !.phase = "generate", !.words = <<>>]
          /\ Still
      BY <1>2, <2>2 DEF core_random_programs
    <3>2. Shape' /\ tb'.phase = "generate" /\ tb'.edges = tb.edges
          /\ tb'.retired = tb.retired /\ tb'.expected = tb.expected
      BY <3>1 DEF Shape
    <3>3. "generate" \notin Tracked /\ tb.edges \in Nat
      BY DEF Tracked, Counted, CountedAs
    <3> QED BY <3>1, <3>2, <3>3, Leave
  <2> QED BY <2>1, <2>2
<1>3. CASE Generate
  <2>1. CASE load(tb.words)
    BY <2>1, Loading
  <2>2. CASE ~load(tb.words)
    <3>1. PICK w : tb' = [tb EXCEPT !.words = Append(@, w)] /\ Still
      BY <1>3, <2>2 DEF Generate
    <3>2. Shape' /\ tb'.phase = tb.phase /\ tb'.edges = tb.edges
          /\ tb'.retired = tb.retired /\ tb'.expected = tb.expected
      BY <3>1 DEF Shape
    <3>3. tb.phase = "generate" /\ "generate" \notin Tracked /\ tb.edges \in Nat
      BY <1>3 DEF Generate, At, Tracked, Counted, CountedAs
    <3> QED BY <3>1, <3>2, <3>3, Leave
  <2> QED BY <2>1, <2>2
<1>4. CASE core_step_enable_freezes
  BY <1>4, Loading DEF core_step_enable_freezes
<1>5. CASE core_functional_coverage
  BY <1>5, EndOfTest DEF core_functional_coverage
<1> QED BY <1>1, <1>2, <1>3, <1>4, <1>5

\* load_and_reset, from its first await to its end.
LEMMA LoadStep ==
    ASSUME Shape, Counted, Bits, deposit \/ reset
    PROVE  Shape' /\ Counted' /\ Bits'
<1>1. executed' = executed /\ halted' = halted
  BY DEF deposit, reset, history, arch
<1>2. executed \in Nat /\ tb.retired \in Nat /\ Len(tb.expected) \in Nat /\ tb.edges \in Nat
  BY DEF Counted, CountedAs
<1>3. CASE deposit
  <2>1. tb.phase = "deposit" /\ tb' = [tb EXCEPT !.phase = "reset", !.edges = 2] /\ rst' = rst
    BY <1>3 DEF deposit, At
  <2>2. Shape' /\ tb'.phase = "reset" /\ tb'.edges = 2
        /\ tb'.retired = tb.retired /\ tb'.expected = tb.expected
    BY <2>1 DEF Shape
  <2>3. rst
    BY <2>1 DEF Counted, CountedAs
  <2>4. CountedAs("reset", 2, tb.retired, Len(tb.expected), executed, rst, halted, Due')
    BY <1>2, <2>3 DEF CountedAs
  <2> QED BY <1>1, <2>1, <2>2, <2>4 DEF Counted, Bits
<1>4. CASE reset
  <2>1. /\ tb.phase = "reset" /\ tb.edges = 0 /\ rst' = FALSE
        /\ tb' = [tb EXCEPT !.phase = IF tb.test = "freeze" THEN "warm" ELSE "model",
                            !.count = 0, !.expected = <<>>, !.retired = 0]
    BY <1>4 DEF reset, At
  <2>2. Shape' /\ tb'.phase = (IF tb.test = "freeze" THEN "warm" ELSE "model")
        /\ tb'.edges = 0 /\ tb'.retired = 0 /\ tb'.expected = <<>>
    BY <2>1 DEF Shape
  <2>3. executed = 0
    BY <2>1 DEF Counted, CountedAs
  <2>4. Len(<<>>) = 0
    OBVIOUS
  <2>5. \A x \in {"warm", "model"} : CountedAs(x, 0, 0, 0, 0, FALSE, halted, Due')
    BY DEF CountedAs
  <2> QED BY <1>1, <2>1, <2>2, <2>3, <2>4, <2>5 DEF Counted, Bits
<1> QED BY <1>3, <1>4

\* Iss.run: the core stands before its first edge out of reset.
LEMMA ModelStep ==
    ASSUME Shape, Counted, Bits, run PROVE Shape' /\ Counted' /\ Bits'
<1>1. tb.phase = "model" /\ executed' = executed /\ rst' = rst /\ halted' = halted
  BY DEF run, At, Still, history, vars, arch
<1>2. /\ ~rst /\ tb.edges = 0 /\ executed = 0 /\ tb.retired = 0
      /\ Len(tb.expected) \in Nat
  BY <1>1 DEF Counted, CountedAs
<1>3. /\ Shape' /\ tb'.phase \in {"model", "compare"} /\ tb'.edges = 0 /\ tb'.retired = 0
      /\ Len(tb'.expected) \in Nat
  <2>1. CASE tb.count = MaxSteps \/ m_halted
    <3>1. tb' = [tb EXCEPT !.phase = "compare", !.budget = Len(tb.expected) * 4 + SLACK]
      BY <2>1 DEF run
    <3> QED BY <1>2, <3>1 DEF Shape
  <2>2. CASE ~(tb.count = MaxSteps \/ m_halted)
    <3>1. PICK e : /\ tb' = [tb EXCEPT !.count = @ + 1, !.expected = e]
                   /\ \/ e = tb.expected
                      \/ e = Append(tb.expected, Model!Commit)
      BY <2>2 DEF run
    <3>2. Len(e) \in Nat
      BY <1>2, <3>1
    <3> QED BY <1>1, <1>2, <3>1, <3>2 DEF Shape
  <2> QED BY <2>1, <2>2
<1>4. \A x \in {"model", "compare"}, n \in Nat :
        CountedAs(x, 0, 0, n, 0, FALSE, halted, Due')
  BY DEF CountedAs
<1> QED BY <1>1, <1>2, <1>3, <1>4 DEF Counted, Bits

\* One iteration of the comparison: what is due at the next edge is counted now.
LEMMA CompareStep ==
    ASSUME Shape, Counted, Bits, UNCHANGED bug, compare
    PROVE  Shape' /\ Counted' /\ Bits'
<1>1. CASE Fail
  BY <1>1, EndOfTest
<1>2. CASE ~Fail
  <2>1. PICK b, c : /\ tb' = [tb EXCEPT !.budget = b, !.retired = retire, !.edges = 1,
                                        !.COVERAGE = c]
                    /\ Still
    BY <1>2 DEF compare
  <2>2. Shape' /\ tb'.phase = tb.phase /\ tb'.edges = 1 /\ tb'.retired = retire
        /\ tb'.expected = tb.expected
    BY <2>1 DEF Shape
  <2>3. /\ tb.phase = "compare" /\ tb.edges = 0 /\ tb.retired < Len(tb.expected)
    BY DEF compare, At, More
  <2>4. /\ ~rst /\ executed = tb.retired
        /\ executed \in Nat /\ Len(tb.expected) \in Nat
    BY <2>3 DEF Counted, CountedAs
  <2>5. executed' = executed /\ rst' = rst /\ halted' = halted /\ Due' = Due
    BY <2>1, Steady DEF Still, history, vars, arch, Due
  <2>6. Due \in {0, 1} /\ retire = tb.retired + Due
    BY <2>4 DEF Due, retire
  <2>7. CountedAs("compare", 1, tb.retired + Due, Len(tb.expected), executed, rst, halted, Due)
    BY <2>3, <2>4, <2>6 DEF CountedAs
  <2> QED BY <2>2, <2>3, <2>5, <2>6, <2>7 DEF Counted, Bits
<1> QED BY <1>1, <1>2

\* After the last comparison.  A core that has halted has nothing due.
LEMMA StopStep ==
    ASSUME Shape, Counted, Bits, stop \/ check_halt \/ check_held \/ compare_state
    PROVE  Shape' /\ Counted' /\ Bits'
<1>1. CASE Fail
  BY <1>1, EndOfTest
<1>2. CASE ~Fail
  <2>0. Still
    BY <1>2 DEF stop, check_halt, check_held, compare_state
  <2>1. executed' = executed /\ rst' = rst /\ halted' = halted
    BY <2>0 DEF Still, history, vars, arch
  <2>2. executed \in Nat /\ tb.retired \in Nat /\ Len(tb.expected) \in Nat
    BY DEF Counted, CountedAs
  <2>3. CASE stop
    <3>1. /\ tb.phase = "compare" /\ tb.edges = 0 /\ ~(tb.retired < Len(tb.expected))
          /\ tb' = IF m_halted THEN [tb EXCEPT !.phase = "halted", !.edges = 1]
                   ELSE [tb EXCEPT !.phase = "state"]
      BY <1>2, <2>3 DEF stop, At, More
    <3>2. ~rst /\ executed = tb.retired /\ tb.retired = Len(tb.expected)
      BY <2>2, <3>1 DEF Counted, CountedAs
    <3>3. /\ Shape' /\ tb'.retired = tb.retired /\ tb'.expected = tb.expected
          /\ \/ tb'.phase = "halted" /\ tb'.edges = 1
             \/ tb'.phase = "state" /\ tb'.edges = 0
      BY <3>1 DEF Shape
    <3>4. /\ CountedAs("halted", 1, tb.retired, Len(tb.expected), executed, rst, halted, Due')
          /\ CountedAs("state", 0, tb.retired, Len(tb.expected), executed, rst, halted, Due')
      BY <2>2, <3>2 DEF CountedAs
    <3> QED BY <2>1, <3>3, <3>4 DEF Counted, Bits
  <2>4. CASE check_halt
    <3>1. /\ tb.phase = "halted" /\ tb.edges = 0 /\ halted
          /\ tb' = [tb EXCEPT !.phase = "held", !.count = 3, !.edges = 1]
      BY <1>2, <2>4 DEF check_halt, At
    <3>2. ~rst /\ executed = tb.retired /\ tb.retired = Len(tb.expected)
      BY <3>1 DEF Counted, CountedAs
    <3>3. Shape' /\ tb'.phase = "held" /\ tb'.edges = 1
          /\ tb'.retired = tb.retired /\ tb'.expected = tb.expected
      BY <3>1 DEF Shape
    <3>4. CountedAs("held", 1, tb.retired, Len(tb.expected), executed, rst, halted, Due')
      BY <2>2, <3>1, <3>2 DEF CountedAs
    <3> QED BY <2>1, <3>3, <3>4 DEF Counted, Bits
  <2>5. CASE check_held
    <3>1. PICK c, v : /\ tb.phase = "held" /\ tb.edges = 0
                      /\ \/ tb' = [tb EXCEPT !.count = c, !.edges = 1]
                         \/ tb' = [tb EXCEPT !.phase = "state", !.COVERAGE = v]
      BY <1>2, <2>5 DEF check_held, At
    <3>2. ~rst /\ halted /\ executed = tb.retired /\ tb.retired = Len(tb.expected)
      BY <3>1 DEF Counted, CountedAs
    <3>3. /\ Shape' /\ tb'.retired = tb.retired /\ tb'.expected = tb.expected
          /\ \/ tb'.phase = "held" /\ tb'.edges = 1
             \/ tb'.phase = "state" /\ tb'.edges = 0
      BY <3>1 DEF Shape
    <3>4. /\ CountedAs("held", 1, tb.retired, Len(tb.expected), executed, rst, halted, Due')
          /\ CountedAs("state", 0, tb.retired, Len(tb.expected), executed, rst, halted, Due')
      BY <2>2, <3>2 DEF CountedAs
    <3> QED BY <2>1, <3>3, <3>4 DEF Counted, Bits
  <2>6. CASE compare_state
    <3>1. tb' = [tb EXCEPT !.phase = "fetch"] /\ tb.edges = 0
      BY <1>2, <2>6 DEF compare_state, At
    <3>2. Shape' /\ tb'.phase = "fetch" /\ tb'.edges = 0
          /\ tb'.retired = tb.retired /\ tb'.expected = tb.expected
      BY <3>1 DEF Shape
    <3>3. "fetch" \notin Tracked
      BY DEF Tracked
    <3> QED BY <2>0, <3>2, <3>3, Leave
  <2> QED BY <2>3, <2>4, <2>5, <2>6
<1> QED BY <1>1, <1>2

\* The freeze test moves step_en and nothing else of the core.
LEMMA FreezeStep ==
    ASSUME Shape, Counted, Bits,
           warm \/ disable \/ disabled \/ check_frozen \/ enabled \/ resumed
    PROVE  Shape' /\ Counted' /\ Bits'
<1>1. CASE Pass \/ Fail
  BY <1>1, EndOfTest
<1>2. CASE ~(Pass \/ Fail)
  <2>1. executed' = executed /\ rst' = rst /\ halted' = halted
    BY <1>2 DEF warm, disable, disabled, check_frozen, enabled, resumed, Still, history,
                vars, arch
  <2>2. /\ executed \in Nat /\ tb.retired \in Nat /\ Len(tb.expected) \in Nat
        /\ tb.edges \in Nat
    BY DEF Counted, CountedAs
  <2>3. /\ Shape' /\ tb'.retired = tb.retired /\ tb'.expected = tb.expected
        /\ tb'.phase \notin Tracked /\ tb'.edges \in Nat
    <3>1. CASE warm
      BY <3>1 DEF warm, Shape, Tracked
    <3>2. CASE disable
      BY <2>2, <3>2 DEF disable, Shape, Tracked
    <3>3. CASE disabled
      <4>1. tb' = [tb EXCEPT !.phase = "frozen", !.count = 5, !.edges = 1]
        BY <1>2, <3>3 DEF disabled
      <4> QED BY <4>1 DEF Shape, Tracked
    <3>4. CASE check_frozen
      <4>1. /\ tb.phase = "frozen"
            /\ \/ \E c : tb' = [tb EXCEPT !.count = c, !.edges = 1]
               \/ tb' = [tb EXCEPT !.phase = "enabled"]
        BY <1>2, <3>4 DEF check_frozen, At
      <4>2. CASE tb' = [tb EXCEPT !.phase = "enabled"]
        BY <2>2, <4>2 DEF Shape, Tracked
      <4>3. CASE \E c : tb' = [tb EXCEPT !.count = c, !.edges = 1]
        <5>1. PICK c : tb' = [tb EXCEPT !.count = c, !.edges = 1]
          BY <4>3
        <5> QED BY <4>1, <5>1 DEF Shape, Tracked
      <4> QED BY <4>1, <4>2, <4>3
    <3>5. CASE enabled
      <4>1. tb' = [tb EXCEPT !.phase = "resumed", !.edges = 1]
        BY <1>2, <3>5 DEF enabled
      <4> QED BY <4>1 DEF Shape, Tracked
    <3>6. CASE resumed
      BY <1>2, <3>6 DEF resumed
    <3> QED BY <3>1, <3>2, <3>3, <3>4, <3>5, <3>6
  <2>4. CountedAs(tb'.phase, tb'.edges, tb.retired, Len(tb.expected), executed, rst,
                  halted, Due')
    BY <2>2, <2>3, Untracked
  <2> QED BY <2>1, <2>3, <2>4 DEF Counted, Bits
<1> QED BY <1>1, <1>2

-----------------------------------------------------------------------------
(* The invariant *)

LEMMA Started == ASSUME RegressionInit PROVE Shape /\ Counted /\ Bits
<1>1. PICK suite, n :
        tb = [test |-> "directed", phase |-> "fetch", todo |-> suite, randoms |-> n,
              words |-> <<>>, edges |-> 0, count |-> 0, expected |-> <<>>, retired |-> 0,
              budget |-> 0, pc_before |-> 0, reg_before |-> 0, COVERAGE |-> {},
              failed |-> {}]
  BY DEF RegressionInit
<1>2. rst = TRUE /\ halted = FALSE /\ executed = 0
  BY DEF RegressionInit, Init
<1>3. Len(<<>>) = 0
  OBVIOUS
<1>4. Shape /\ tb.phase = "fetch" /\ tb.edges = 0 /\ tb.retired = 0 /\ tb.expected = <<>>
  BY <1>1 DEF Shape
<1>5. CountedAs("fetch", 0, 0, 0, 0, rst, halted, Due)
  BY Untracked DEF Tracked
<1> QED BY <1>2, <1>3, <1>4, <1>5 DEF Counted, Bits

LEMMA Kept ==
    ASSUME Shape, Counted, Bits, [RegressionNext]_regressionVars
    PROVE  Shape' /\ Counted' /\ Bits'
<1>1. CASE RisingEdge
  <2>1. Bits'
    <3>1. rst' = rst
          /\ halted' = IF rst THEN FALSE ELSE halted \/ (dut_trap /\ step_en /\ bug # "hangs")
      BY <1>1 DEF RisingEdge, DutEdge
    <3> QED BY <3>1 DEF Bits
  <2> QED BY <1>1, <2>1, EdgeStep DEF Bits
<1>2. CASE Test /\ UNCHANGED bug
  BY <1>2, SessionStep, LoadStep, ModelStep, CompareStep, StopStep, FreezeStep DEF Test
<1>3. CASE UNCHANGED regressionVars
  <2>1. tb' = tb /\ executed' = executed /\ rst' = rst /\ halted' = halted /\ Due' = Due
    BY <1>3, Steady DEF regressionVars, history, vars, arch, Due
  <2> QED BY <2>1 DEF Shape, Counted, Bits
<1> QED BY <1>1, <1>2, <1>3 DEF RegressionNext

\* Whatever the core does, each of its retirements since reset has been compared
\* when the test bench reads the next one, and a program that passes has
\* retired exactly what the model expects (tb_core.py:107-147).
THEOREM RetirementsComparedCorrect == RegressionSpec => []RetirementsCompared
<1>1. RegressionInit => Shape /\ Counted /\ Bits
  BY Started
<1>2. Shape /\ Counted /\ Bits /\ [RegressionNext]_regressionVars
        => (Shape /\ Counted /\ Bits)'
  BY Kept
<1>3. Counted => RetirementsCompared
  BY DEF Counted, CountedAs, RetirementsCompared
<1> QED BY <1>1, <1>2, <1>3, PTL DEF RegressionSpec

\* The injected core without a bug is the core: run_mutant changes nothing in its
\* copy of core.sv but the bug's text (inject_bugs.py:159-169), so what the tests
\* do to it they do to core.sv.
THEOREM UnmodifiedCore ==
    ASSUME bug = "none"
    PROVE  (DutEdge <=> Clock) /\ dut_valid = commit_valid /\ dut_commit = commit
<1>1. dut_rs2 = rs2_data /\ dut_a = alu_a
  BY DEF dut_rs2, dut_a
<1>2. dut_b = alu_b
  <2>1. (alu_b_sel(f) = "IMM") = (bug = "alu_b_inverted") <=> alu_b_sel(f) # "IMM"
    OBVIOUS
  <2> QED BY <1>1, <2>1 DEF dut_b, alu_b
<1>3. dut_y = alu_y /\ dut_taken = taken /\ dut_wdata = d_wdata
  BY <1>1, <1>2 DEF dut_y, alu_y, dut_taken, taken, dut_wdata, d_wdata
<1>4. dut_misaligned = misaligned /\ dut_next = pc_next
  BY <1>3 DEF dut_misaligned, misaligned, d_addr, dut_next, pc_next
<1>5. dut_wb = wb_data
  BY <1>3 DEF dut_wb, wb_data, d_addr
<1>6. dut_cause = trap_cause
  BY <1>4 DEF dut_cause, trap_cause, misaligned_target
<1>7. dut_trap = trap
  BY <1>6 DEF dut_trap, trap
<1>8. (dut_we <=> regfile_we) /\ (dut_stall <=> stall)
  BY <1>7 DEF dut_we, regfile_we, dut_stall, stall
<1>9. dut_valid = commit_valid
  BY <1>7 DEF dut_valid, commit_valid
<1>10. dut_commit = commit
  BY <1>3, <1>4, <1>5 DEF dut_commit, commit, commit_rd_wdata, commit_mem_write, d_addr
<1>11. DutEdge <=> Clock
  BY <1>3, <1>4, <1>5, <1>6, <1>7, <1>8
  DEF DutEdge, Clock, RegfileEdge, PcEdge, HaltEdge, d_addr
<1> QED BY <1>9, <1>10, <1>11

-----------------------------------------------------------------------------
(* The session *)

\* A program that fits, as load_and_reset asserts.
Loadable == {p \in Seq(Word) : Len(p) \in 1 .. WORDS}

Between  == {"fetch", "generate"}
Freezing == {"warm", "disable", "disabled", "frozen", "enabled", "resumed"}

\* Every program the test bench has to load fits; the freeze test runs its own.
Session ==
    /\ tb.todo \in Seq(Loadable)
    /\ tb.phase = "generate" =>
          /\ tb.test = "random" /\ tb.words \in Seq(Word)
          /\ Len(tb.words) <= prologue + body_len + 1
    /\ tb.phase \notin Between => tb.words \in Loadable
    /\ tb.test = "freeze" => tb.phase = "fetch" \/ tb.words = FREEZE
    /\ tb.phase \in Freezing => tb.test = "freeze"

\* The end of a test.
LEMMA TestEnds ==
    ASSUME Shape, Pass \/ Fail
    PROVE  /\ tb'.phase = "fetch" /\ tb'.test = AfterTest[tb.test] /\ tb'.todo = tb.todo
           /\ tb'.words = tb.words /\ tb'.edges = tb.edges /\ tb'.randoms = tb.randoms
           /\ Still
<1>1. PICK failed : tb' = [[tb EXCEPT !.test = AfterTest[@], !.phase = "fetch"]
                             EXCEPT !.failed = failed]
  <2>1. CASE Pass
    <3>1. tb' = [[tb EXCEPT !.test = AfterTest[@], !.phase = "fetch"]
                   EXCEPT !.failed = tb.failed]
      BY <2>1 DEF Pass, NextTest, Shape
    <3> QED BY <3>1
  <2>2. CASE Fail
    BY <2>2 DEF Fail, NextTest
  <2> QED BY <2>1, <2>2
<1> QED BY <1>1 DEF Shape, Pass, Fail

\* From the load on, a handler that ends no test stays with the program.
LEMMA Onward ==
    ASSUME Shape, ~Pass, ~Fail,
           \/ RisingEdge \/ deposit \/ reset \/ run \/ compare \/ stop \/ check_halt
           \/ check_held \/ compare_state \/ warm \/ disable \/ disabled \/ check_frozen
           \/ enabled \/ resumed
    PROVE  /\ tb'.test = tb.test /\ tb'.words = tb.words /\ tb'.todo = tb.todo
           /\ tb'.failed = tb.failed /\ tb'.randoms = tb.randoms
           /\ \/ tb'.phase = tb.phase
              \/ /\ tb.phase \notin Between /\ tb'.phase # "generate"
                 /\ tb'.phase \in Freezing => tb.test = "freeze" \/ tb.phase \in Freezing
<1> USE DEF Shape, At, Between, Freezing
<1>1. CASE RisingEdge
  BY <1>1 DEF RisingEdge
<1>2. CASE deposit
  BY <1>2 DEF deposit
<1>3. CASE reset
  BY <1>3 DEF reset
<1>4. CASE run
  <2>1. PICK c, e, b, p : /\ p \in {tb.phase, "compare"} /\ tb.phase = "model"
                          /\ tb' = [tb EXCEPT !.phase = p, !.budget = b, !.count = c,
                                              !.expected = e]
    <3>1. CASE tb.count = MaxSteps \/ m_halted
      <4>1. tb' = [tb EXCEPT !.phase = "compare", !.budget = Len(tb.expected) * 4 + SLACK,
                             !.count = tb.count, !.expected = tb.expected]
        BY <1>4, <3>1 DEF run
      <4> QED BY <1>4, <4>1 DEF run
    <3>2. CASE ~(tb.count = MaxSteps \/ m_halted)
      <4>1. PICK e : tb' = [tb EXCEPT !.count = @ + 1, !.expected = e]
        BY <1>4, <3>2 DEF run
      <4>2. tb' = [tb EXCEPT !.phase = tb.phase, !.budget = tb.budget, !.count = tb.count + 1,
                             !.expected = e]
        BY <4>1
      <4> QED BY <1>4, <4>2 DEF run
    <3> QED BY <3>1, <3>2
  <2> QED BY <2>1
<1>5. CASE compare
  <2>1. PICK b, c : tb' = [tb EXCEPT !.budget = b, !.retired = retire, !.edges = 1,
                                     !.COVERAGE = c]
    BY <1>5 DEF compare
  <2> QED BY <2>1
<1>6. CASE stop
  BY <1>6 DEF stop
<1>7. CASE check_halt
  BY <1>7 DEF check_halt
<1>8. CASE check_held
  <2>1. PICK c, v : /\ tb.phase = "held"
                    /\ \/ tb' = [tb EXCEPT !.count = c, !.edges = 1]
                       \/ tb' = [tb EXCEPT !.phase = "state", !.COVERAGE = v]
    BY <1>8 DEF check_held
  <2> QED BY <2>1
<1>9. CASE compare_state
  BY <1>9 DEF compare_state
<1>10. CASE warm
  BY <1>10 DEF warm
<1>11. CASE disable
  BY <1>11 DEF disable
<1>12. CASE disabled
  BY <1>12 DEF disabled
<1>13. CASE check_frozen
  <2>1. PICK c : /\ tb.phase = "frozen"
                 /\ \/ tb' = [tb EXCEPT !.count = c, !.edges = 1]
                    \/ tb' = [tb EXCEPT !.phase = "enabled"]
    BY <1>13 DEF check_frozen
  <2> QED BY <2>1
<1>14. CASE enabled
  BY <1>14 DEF enabled
<1>15. CASE resumed
  BY <1>15 DEF resumed
<1> QED BY <1>1, <1>2, <1>3, <1>4, <1>5, <1>6, <1>7, <1>8, <1>9, <1>10, <1>11,
           <1>12, <1>13, <1>14, <1>15

\* A load that has a program that fits does not fail.
LEMMA LoadFits ==
    ASSUME Shape, NEW program \in Loadable, load(program)
    PROVE  /\ tb' = [tb EXCEPT !.words = program, !.phase = "deposit", !.edges = 1,
                               !.todo = IF tb.test = "directed" THEN Tail(@) ELSE @]
           /\ tb'.test = tb.test /\ tb'.words = program /\ tb'.phase = "deposit"
           /\ tb'.edges = 1 /\ tb'.failed = tb.failed /\ tb'.randoms = tb.randoms
           /\ tb'.todo = IF tb.test = "directed" THEN Tail(tb.todo) ELSE tb.todo
           /\ rst' = TRUE /\ step_en' = TRUE /\ UNCHANGED <<arch, model, history>>
<1>1. ~(Len(program) > WORDS)
  BY SizeAssumption DEF Loadable
<1>2. /\ tb' = [tb EXCEPT !.words = program, !.phase = "deposit", !.edges = 1,
                          !.todo = IF tb.test = "directed" THEN Tail(@) ELSE @]
      /\ rst' = TRUE /\ step_en' = TRUE /\ UNCHANGED <<arch, model, history>>
  BY <1>1 DEF load, clock
<1> QED BY <1>2 DEF Shape

LEMMA FreezeLoadable == FREEZE \in Loadable
BY FreezeAssumption DEF Loadable

\* A generated program fits.
LEMMA GeneratedFits ==
    ASSUME Session, tb.phase = "generate", Len(tb.words) > prologue + body_len
    PROVE  tb.words \in Loadable
<1>1. /\ tb.words \in Seq(Word) /\ Len(tb.words) \in Nat
      /\ Len(tb.words) <= prologue + body_len + 1
  BY DEF Session
<1>2. body_len \in Nat /\ WORDS \in Nat /\ prologue + body_len + 1 <= WORDS
  <2>1. body_len \in Nat /\ WORDS \in Nat /\ DATA_BASE \in Nat /\ DATA_SIZE \in Nat
    BY LayoutAssumption, SizeAssumption
  <2>2. (2 + body_len) * 4 + 4 <= DATA_BASE /\ DATA_BASE + DATA_SIZE <= 4 * WORDS
    BY LayoutAssumption DEF EndOfProgram, prologue
  <2> QED BY <2>1, <2>2 DEF prologue
<1> QED BY <1>1, <1>2 DEF Loadable, prologue

\* Fetching and generating.
LEMMA SessionSteps ==
    ASSUME Shape, Session,
           \/ core_directed_programs \/ core_random_programs \/ Generate
           \/ core_step_enable_freezes \/ core_functional_coverage
    PROVE  /\ Session'
           /\ \/ Pass \/ (Fail /\ tb.test = "coverage")
              \/ \E program \in Loadable : load(program)
              \/ Still /\ tb'.phase = "generate" /\ tb'.failed = tb.failed
<1>1. CASE core_directed_programs
  <2>1. CASE tb.todo = <<>>
    BY <1>1, <2>1, TestEnds DEF core_directed_programs, Session, Between, Freezing
  <2>2. CASE tb.todo # <<>>
    <3>1. Head(tb.todo) \in Loadable /\ Tail(tb.todo) \in Seq(Loadable)
      BY <2>2 DEF Session
    <3>2. load(Head(tb.todo)) /\ tb.test = "directed"
      BY <1>1, <2>2 DEF core_directed_programs
    <3> QED BY <3>1, <3>2, LoadFits DEF Session, Between, Freezing
  <2> QED BY <2>1, <2>2
<1>2. CASE core_random_programs
  <2>1. CASE tb.randoms = 0
    BY <1>2, <2>1, TestEnds DEF core_random_programs, Session, Between, Freezing
  <2>2. CASE tb.randoms # 0
    <3>1. /\ tb' = [tb EXCEPT !.randoms = @ - 1, !.phase = "generate", !.words = <<>>]
          /\ Still /\ tb.test = "random"
      BY <1>2, <2>2 DEF core_random_programs
    <3>2. /\ tb'.phase = "generate" /\ tb'.words = <<>> /\ tb'.test = "random"
          /\ tb'.todo = tb.todo /\ tb'.failed = tb.failed
      BY <3>1 DEF Shape
    <3>3. <<>> \in Seq(Word) /\ Len(<<>>) <= prologue + body_len + 1
      BY LayoutAssumption DEF prologue
    <3> QED BY <3>1, <3>2, <3>3 DEF Session, Between, Freezing
  <2> QED BY <2>1, <2>2
<1>3. CASE Generate
  <2>0. tb.phase = "generate" /\ tb.test = "random" /\ tb.words \in Seq(Word)
        /\ tb.todo \in Seq(Loadable)
    BY <1>3 DEF Generate, At, Session
  <2>1. CASE Len(tb.words) > prologue + body_len
    <3>1. load(tb.words) /\ tb.words \in Loadable
      BY <1>3, <2>0, <2>1, GeneratedFits DEF Generate
    <3> QED BY <2>0, <3>1, LoadFits DEF Session, Between, Freezing
  <2>2. CASE ~(Len(tb.words) > prologue + body_len)
    <3>1. PICK w \in Word : tb' = [tb EXCEPT !.words = Append(@, w)] /\ Still
      BY <1>3, <2>2 DEF Generate
    <3>2. /\ tb'.phase = "generate" /\ tb'.words = Append(tb.words, w) /\ tb'.test = "random"
          /\ tb'.todo = tb.todo /\ tb'.failed = tb.failed
      BY <2>0, <3>1 DEF Shape
    <3>3. /\ Append(tb.words, w) \in Seq(Word)
          /\ Len(Append(tb.words, w)) <= prologue + body_len + 1
      BY <2>0, <2>2, LayoutAssumption DEF prologue
    <3> QED BY <3>1, <3>2, <3>3, <2>0 DEF Session, Between, Freezing
  <2> QED BY <2>1, <2>2
<1>4. CASE core_step_enable_freezes
  <2>1. load(FREEZE) /\ tb.test = "freeze"
    BY <1>4 DEF core_step_enable_freezes
  <2> QED BY <2>1, FreezeLoadable, LoadFits DEF Session, Between, Freezing
<1>5. CASE core_functional_coverage
  <2>1. Pass \/ Fail
    BY <1>5 DEF core_functional_coverage
  <2> QED BY <1>5, <2>1, TestEnds DEF core_functional_coverage, Session, Between, Freezing
<1> QED BY <1>1, <1>2, <1>3, <1>4, <1>5

LEMMA SessionKept ==
    ASSUME Shape, Session, [RegressionNext]_regressionVars PROVE Session'
<1>1. CASE Pass \/ Fail
  BY <1>1, TestEnds DEF Session, Between, Freezing
<1>2. CASE \/ core_directed_programs \/ core_random_programs \/ Generate
           \/ core_step_enable_freezes \/ core_functional_coverage
  BY <1>2, SessionSteps
<1>3. CASE UNCHANGED regressionVars
  BY <1>3 DEF regressionVars, Session
<1>4. CASE /\ RisingEdge \/ Test
           /\ ~(Pass \/ Fail)
           /\ ~(\/ core_directed_programs \/ core_random_programs \/ Generate
                \/ core_step_enable_freezes \/ core_functional_coverage)
  BY <1>4, Onward DEF Test, Session, Between, Freezing
<1> QED BY <1>1, <1>2, <1>3, <1>4 DEF RegressionNext

LEMMA SessionStarts == ASSUME RegressionInit PROVE Session
<1>1. PICK suite, n :
        /\ suite \in Suites
        /\ tb = [test |-> "directed", phase |-> "fetch", todo |-> suite, randoms |-> n,
                 words |-> <<>>, edges |-> 0, count |-> 0, expected |-> <<>>,
                 retired |-> 0, budget |-> 0, pc_before |-> 0, reg_before |-> 0,
                 COVERAGE |-> {}, failed |-> {}]
  BY DEF RegressionInit
<1>2. suite \in Seq(Loadable)
  <2>1. suite \in Seq(Seq(Word)) /\ \A k \in DOMAIN suite : Len(suite[k]) \in 1 .. WORDS
    BY <1>1, SuitesAssumption
  <2>2. \A k \in 1 .. Len(suite) : suite[k] \in Loadable
    BY <2>1 DEF Loadable
  <2>3. suite = [k \in 1 .. Len(suite) |-> suite[k]] /\ Len(suite) \in Nat
    BY <2>1
  <2> QED BY <2>2, <2>3, IsASeq
<1> QED BY <1>1, <1>2 DEF Session, Between, Freezing

-----------------------------------------------------------------------------
(* Random programs *)

\* The model's copies of the shared definitions.
LEMMA ModelShared ==
    /\ \A v : Model!WordIndex(v) = WordIndex(v) /\ Model!Truncate(v) = Truncate(v)
    /\ \A v : Model!Signed(v) = Signed(v)
    /\ \A v, w : Model!SignExtend(v, w) = SignExtend(v, w)
    /\ Model!Opcodes = Opcodes
    /\ Model!HALT_NONE = HALT_NONE /\ Model!HALT_ECALL = HALT_ECALL
    /\ Model!HALT_EBREAK = HALT_EBREAK /\ Model!HALT_ILLEGAL = HALT_ILLEGAL
    /\ Model!HALT_MEM_MISALIGN = HALT_MEM_MISALIGN
    /\ Model!HALT_FETCH_MISALIGN = HALT_FETCH_MISALIGN
BY DEF Model!WordIndex, WordIndex, Model!Truncate, Truncate, Model!Modulus, Modulus,
       Model!Signed, Signed, Model!Opcodes, Opcodes, Model!SignExtend, SignExtend,
       Model!HALT_NONE, HALT_NONE, Model!HALT_ECALL, HALT_ECALL,
       Model!HALT_EBREAK, HALT_EBREAK, Model!HALT_ILLEGAL, HALT_ILLEGAL,
       Model!HALT_MEM_MISALIGN, HALT_MEM_MISALIGN,
       Model!HALT_FETCH_MISALIGN, HALT_FETCH_MISALIGN

\* What the generator has appended so far (randgen.py:60-99).
Drawn(words) ==
    /\ words \in Seq(Word) /\ Len(words) <= prologue + body_len + 1
    /\ Len(words) >= 1 => upper_word(Fields(words[1]))
    /\ Len(words) >= 2 => prologue_words(Fields(words[1]), Fields(words[2]))
    /\ \A k \in prologue .. prologue + body_len - 1 :
          k < Len(words) => body_word(Fields(words[k + 1]), 4 * k)
    /\ Len(words) > prologue + body_len => ecall_word(Fields(words[prologue + body_len + 1]))

LEMMA DrawnNext ==
    ASSUME NEW words, Drawn(words), NEW w \in Word, drawn(words, Fields(w)),
           ~(Len(words) > prologue + body_len)
    PROVE  Drawn(Append(words, w))
<1> DEFINE n == Len(words)
           new == Append(words, w)
<1>1. /\ words \in Seq(Word) /\ n \in Nat /\ n <= prologue + body_len
      /\ prologue = 2 /\ body_len \in Nat
  BY LayoutAssumption DEF Drawn, prologue
<1>2. /\ new \in Seq(Word) /\ Len(new) = n + 1 /\ new[n + 1] = w
      /\ \A k \in 1 .. n : new[k] = words[k]
  BY <1>1
<1> HIDE DEF new
<1>3. upper_word(Fields(new[1]))
  <2>1. CASE n = 0
    <3>1. n # 1 /\ n \notin prologue .. prologue + body_len - 1
      BY <1>1, <2>1
    <3>2. upper_word(Fields(w))
      BY <2>1, <3>1, Zenon DEF drawn
    <3> QED BY <1>2, <2>1, <3>2
  <2>2. CASE n >= 1
    BY <1>1, <1>2, <2>2 DEF Drawn
  <2> QED BY <1>1, <2>1, <2>2
<1>4. n + 1 >= 2 => prologue_words(Fields(new[1]), Fields(new[2]))
  <2>1. CASE n = 1
    <3>1. n # 0 /\ n \notin prologue .. prologue + body_len - 1
      BY <1>1, <2>1
    <3>2. prologue_words(Fields(words[1]), Fields(w))
      BY <2>1, <3>1, Zenon DEF drawn
    <3>3. new[2] = w /\ new[1] = words[1]
      BY <1>2, <2>1
    <3> QED BY <3>2, <3>3
  <2>2. CASE n >= 2
    BY <1>1, <1>2, <2>2 DEF Drawn
  <2>3. n + 1 >= 2 => n = 1 \/ n >= 2
    <3>1. \A v \in Nat : v + 1 >= 2 => v = 1 \/ v >= 2
      OBVIOUS
    <3> QED BY <1>1, <3>1
  <2> QED BY <2>1, <2>2, <2>3
<1>5. ASSUME NEW k \in prologue .. prologue + body_len - 1, k < n + 1
      PROVE  body_word(Fields(new[k + 1]), 4 * k)
  <2>1. CASE k = n
    <3>1. n \notin {0, 1}
      BY <1>1, <2>1
    <3>2. body_word(Fields(w), 4 * n)
      BY <2>1, <3>1 DEF drawn
    <3> QED BY <1>2, <2>1, <3>2
  <2>2. CASE k < n
    <3>1. k + 1 \in 1 .. n
      BY <1>1, <2>2
    <3> QED BY <1>2, <2>2, <3>1 DEF Drawn
  <2> QED BY <1>1, <1>5, <2>1, <2>2
<1>6. ASSUME n + 1 > prologue + body_len PROVE ecall_word(Fields(new[prologue + body_len + 1]))
  <2>1. n = prologue + body_len
    BY <1>1, <1>6
  <2>2. n # 0 /\ n # 1 /\ n \notin prologue .. prologue + body_len - 1
    BY <1>1, <2>1, LayoutAssumption
  <2>3. ecall_word(Fields(w))
    BY <2>2 DEF drawn
  <2> QED BY <1>2, <2>1, <2>3
<1> QED BY <1>1, <1>2, <1>3, <1>4, <1>5, <1>6 DEF Drawn, new

\* Where the program and its data are.
LEMMA Layout ==
    /\ prologue = 2 /\ body_len \in Nat /\ body_len >= 1 /\ WORDS \in Nat
    /\ DATA_BASE \in Nat /\ DATA_SIZE \in Nat /\ DATA_BASE % 4 = 0
    /\ EndOfProgram = 4 * (prologue + body_len)
    /\ 4 * (prologue + body_len + 1) <= DATA_BASE /\ DATA_BASE + DATA_SIZE <= 4 * WORDS
    /\ 4 * WORDS <= Modulus /\ Modulus \in Nat
<1>1. 4 * WORDS <= Modulus
  <2> DEFINE p == 4 * WORDS
  <2>1. p \in Nat \ {0} /\ Modulus % p = 0 /\ Modulus \in Nat \ {0}
    BY SizeAssumption, ModulusNat
  <2> HIDE DEF p
  <2>2. p > Modulus => Modulus % p = Modulus
    BY <2>1
  <2>3. ~(p > Modulus)
    BY <2>1, <2>2
  <2> QED BY <2>1, <2>3 DEF p
<1>2. body_len \in Nat /\ body_len >= 1
  BY LayoutAssumption
<1>3. EndOfProgram = 4 * (2 + body_len) /\ EndOfProgram + 4 = 4 * (2 + body_len + 1)
  BY <1>2 DEF EndOfProgram, prologue
<1> QED BY <1>1, <1>2, <1>3, LayoutAssumption, SizeAssumption, ModulusNat DEF prologue

\* An offset to a target is one whatever its sign.
LEMMA JumpsTo ==
    ASSUME NEW from \in 0 .. Modulus - 1, NEW to \in 0 .. Modulus - 1
    PROVE  Truncate(from + Truncate(to - from)) = to
<1> DEFINE M == Modulus
<1>1. M \in Nat \ {0} /\ from \in 0 .. M - 1 /\ to \in 0 .. M - 1
  BY ModulusNat
<1> HIDE DEF M
<1>2. CASE to >= from
  <2>1. (((to - from) + M * 0) + 0) % M = (to - from) + 0
    BY <1>1, <1>2, CircleUp
  <2>2. (to - from) % M = to - from
    BY <1>1, <2>1
  <2>3. ((to + M * 0) + 0) % M = to + 0
    BY <1>1, CircleUp
  <2>4. (from + (to - from)) % M = to
    BY <1>1, <2>3
  <2> QED BY <2>2, <2>4 DEF Truncate, M
<1>3. CASE to < from
  <2>1. ((((to - from) + M) + M * (-1)) + 0) % M = ((to - from) + M) + 0
    BY <1>1, <1>3, CircleUp
  <2>2. (to - from) % M = (to - from) + M
    BY <1>1, <2>1
  <2>3. ((to + M * 1) + 0) % M = to + 0
    BY <1>1, CircleUp
  <2>4. (from + ((to - from) + M)) % M = to
    BY <1>1, <2>3
  <2> QED BY <2>2, <2>4 DEF Truncate, M
<1> QED BY <1>1, <1>2, <1>3

\* The model on a generated program: on one of its words, the words untouched,
\* the data pointer set up by the first two.
Modelled == {"model", "compare", "halted", "held", "state"}
Last == prologue + body_len
Running ==
    /\ DOMAIN m_mem = Index /\ DOMAIN m_regs = Reg
    /\ m_mem = [i \in Index |-> m_mem[i]] /\ m_regs = [r \in Reg |-> m_regs[r]]
    /\ \A k \in 0 .. Last : m_mem[k] = tb.words[k + 1]
    /\ \E n \in 0 .. Last : m_pc = 4 * n
    /\ m_pc = 4 => m_regs[DATA_REG] = Fields(tb.words[1]).imm["U"]
    /\ m_pc \notin {0, 4} => m_regs[DATA_REG] = DATA_BASE
    /\ m_halted => m_halt_cause = HALT_ECALL /\ m_pc = EndOfProgram

\* The word the model is on.
LEMMA RunningReads ==
    ASSUME Running, NEW n \in 0 .. Last, m_pc = 4 * n
    PROVE  /\ Model!fields = Fields(tb.words[n + 1])
           /\ Model!opcode = Model!fields.opcode /\ Model!funct3 = Model!fields.funct3
           /\ Model!a = m_regs[Model!fields.rs1]
           /\ n \in Nat /\ n \in Index /\ Last \in Nat
           /\ 4 * n \in 0 .. Modulus - 1
<1>1. /\ Last \in Nat /\ WORDS \in Nat /\ 4 * (Last + 1) <= 4 * WORDS
      /\ 4 * WORDS <= Modulus /\ Modulus \in Nat /\ DATA_SIZE \in Nat
  <2>1. /\ prologue = 2 /\ body_len \in Nat /\ WORDS \in Nat /\ DATA_BASE \in Nat
        /\ DATA_SIZE \in Nat /\ 4 * (prologue + body_len + 1) <= DATA_BASE
        /\ DATA_BASE + DATA_SIZE <= 4 * WORDS /\ 4 * WORDS <= Modulus /\ Modulus \in Nat
    BY Layout
  <2> QED BY <2>1 DEF Last
<1>2. n \in Nat /\ n <= Last /\ n < WORDS
  BY <1>1
<1>3. WordIndex(m_pc) = n
  <2>1. m_pc \div 4 = n
    BY <1>2
  <2>2. n % WORDS = n
    BY <1>1, <1>2
  <2> QED BY <2>1, <2>2 DEF WordIndex
<1>4. Model!inst = tb.words[n + 1]
  BY <1>3, ModelShared DEF Model!inst, Running
<1>5. Model!fields = Fields(tb.words[n + 1])
  BY <1>4 DEF Model!fields
<1>6. n \in Index
  BY <1>1, <1>2 DEF Index
<1>7. 4 * n \in 0 .. Modulus - 1
  BY <1>1, <1>2
<1> QED BY <1>1, <1>2, <1>5, <1>6, <1>7 DEF Model!opcode, Model!funct3, Model!a

\* An access of the data region: aligned, inside memory and behind the program.
LEMMA DataAccess ==
    ASSUME NEW n, NEW funct3, aligned_offset(n, align(funct3)), funct3 \in LOAD_F3
    PROVE  /\ ~Model!Misaligned(funct3, Truncate(DATA_BASE + n))
           /\ WordIndex(Truncate(DATA_BASE + n)) > Last
<1> DEFINE addr == DATA_BASE + n
<1>1. /\ DATA_BASE \in Nat /\ DATA_SIZE \in Nat /\ DATA_BASE % 4 = 0 /\ Last \in Nat
      /\ WORDS \in Nat /\ 4 * (Last + 1) <= DATA_BASE /\ DATA_BASE + DATA_SIZE <= 4 * WORDS
      /\ 4 * WORDS <= Modulus /\ Modulus \in Nat
  BY Layout DEF Last
<1>2. n \in 0 .. DATA_SIZE - 1 /\ n % align(funct3) = 0
  BY DEF aligned_offset
<1>3. /\ addr \in Nat /\ addr < 4 * WORDS /\ addr >= 4 * (Last + 1)
  BY <1>1, <1>2
<1>4. Truncate(addr) = addr
  <2>1. \A v \in Nat : v < Modulus => v % Modulus = v
    BY <1>1
  <2> HIDE DEF addr
  <2> QED BY <1>1, <1>3, <2>1 DEF Truncate
<1>5. WordIndex(addr) > Last
  <2> HIDE DEF addr
  <2>1. addr \div 4 \in Nat /\ addr \div 4 < WORDS /\ addr \div 4 > Last
    BY <1>1, <1>3
  <2>2. (addr \div 4) % WORDS = addr \div 4
    BY <1>1, <2>1
  <2> QED BY <2>1, <2>2 DEF WordIndex
<1>6. ~Model!Misaligned(funct3, addr)
  <2>1. CASE funct3 \in {0, 4}
    BY <2>1 DEF Model!Misaligned
  <2>2. CASE funct3 \in {1, 5}
    <3>1. n % 2 = 0
      BY <1>2, <2>2 DEF align
    <3>2. addr % 2 = 0
      BY <1>1, <1>2, <3>1
    <3> QED BY <2>2, <3>2 DEF Model!Misaligned
  <2>3. CASE funct3 = 2
    <3>1. n % 4 = 0
      BY <1>2, <2>3 DEF align
    <3>2. addr % 4 = 0
      BY <1>1, <1>2, <3>1
    <3> QED BY <2>3, <3>2 DEF Model!Misaligned
  <2> QED BY <2>1, <2>2, <2>3 DEF LOAD_F3
<1> QED BY <1>4, <1>5, <1>6

\* No word of the body is refused, is an access elsewhere or writes the pointer.
LEMMA BodyLegal ==
    ASSUME NEW i, NEW at, body_word(i, at)
    PROVE  /\ i.opcode \in {"IMM", "REG", "LUI", "AUIPC", "LOAD", "STORE", "BRANCH", "JAL"}
           /\ ~Model!Illegal(i)
           /\ i.opcode \notin {"BRANCH", "STORE"} => i.rd # DATA_REG
           /\ i.opcode = "LOAD"  => load_word(i)
           /\ i.opcode = "STORE" => store_word(i)
           /\ i.opcode = "BRANCH" => branch_word(i, at)
           /\ i.opcode = "JAL" => jal_word(i, at)
<1>1. Model!Opcodes = Opcodes
  BY ModelShared
<1> USE <1>1 DEF Model!Illegal, Opcodes, SAFE_REGS
<1>2. CASE alu_imm_word(i)
  BY <1>2 DEF alu_imm_word, ALU_IMM_F3
<1>3. CASE alu_reg_word(i)
  BY <1>3 DEF alu_reg_word
<1>4. CASE shift_word(i)
  BY <1>4 DEF shift_word
<1>5. CASE load_word(i)
  BY <1>5 DEF load_word, LOAD_F3
<1>6. CASE store_word(i)
  BY <1>6 DEF store_word, STORE_F3
<1>7. CASE branch_word(i, at)
  BY <1>7 DEF branch_word, BRANCH_F3
<1>8. CASE jal_word(i, at)
  BY <1>8 DEF jal_word
<1>9. CASE lui_word(i) \/ auipc_word(i)
  BY <1>9 DEF lui_word, auipc_word
<1> QED BY <1>2, <1>3, <1>4, <1>5, <1>6, <1>7, <1>8, <1>9 DEF body_word

\* A word of the body retires, stays in the program and leaves it alone.
LEMMA BodyRuns ==
    ASSUME Running, NEW n \in prologue .. Last - 1, m_pc = 4 * n,
           body_word(Fields(tb.words[n + 1]), 4 * n)
    PROVE  /\ ~Model!Illegal(Model!fields) /\ Model!opcode # "SYSTEM"
           /\ Model!opcode \in {"LOAD", "STORE"} =>
                 /\ ~Model!Misaligned(Model!funct3, Model!mem_addr)
                 /\ WordIndex(Model!mem_addr) > Last
           /\ \E k \in prologue .. Last : Model!next_pc = 4 * k
           /\ Model!has_rd_value => Model!fields.rd # DATA_REG
<1>0. PICK i : i = Fields(tb.words[n + 1])
  OBVIOUS
<1>1. prologue = 2 /\ Last \in Nat /\ n \in Nat /\ n \in 2 .. Last - 1 /\ n \in 0 .. Last
  BY Layout DEF Last
<1>2. /\ Model!fields = i /\ Model!opcode = i.opcode /\ Model!funct3 = i.funct3
      /\ Model!a = m_regs[i.rs1]
  BY <1>0, <1>1, RunningReads
<1>3. m_regs[DATA_REG] = DATA_BASE
  <2>1. m_pc \notin {0, 4}
    BY <1>1
  <2> QED BY <2>1 DEF Running
<1>4. \A k \in 0 .. Last : 4 * k \in 0 .. Modulus - 1
  <2>1. /\ 4 * (Last + 1) <= DATA_BASE /\ DATA_BASE + DATA_SIZE <= 4 * WORDS
        /\ 4 * WORDS <= Modulus /\ Modulus \in Nat /\ DATA_BASE \in Nat /\ DATA_SIZE \in Nat
        /\ WORDS \in Nat
    BY Layout DEF Last
  <2> QED BY <1>1, <2>1
<1>5. 4 * (n + 1) \in 0 .. Modulus - 1 /\ n + 1 \in prologue .. Last
  BY <1>1, <1>4
<1>6. Truncate(m_pc + 4) = 4 * (n + 1)
  <2>1. m_pc + 4 = 4 * (n + 1)
    BY <1>1
  <2>2. \A v \in 0 .. Modulus - 1 : v % Modulus = v
    BY ModulusNat
  <2> QED BY <1>5, <2>1, <2>2 DEF Truncate
<1>7. \A k \in 0 .. Last : Truncate(m_pc + Truncate(4 * k - 4 * n)) = 4 * k
  BY <1>1, <1>4, JumpsTo
<1>8. \E k \in prologue .. Last : Model!next_pc = 4 * k
  <2>1. CASE i.opcode \in {"IMM", "REG", "LUI", "AUIPC", "LOAD", "STORE"}
    <3>1. Model!next_pc = 4 * (n + 1)
      BY <1>2, <1>6, <2>1, ModelShared DEF Model!next_pc
    <3> QED BY <1>5, <3>1
  <2>2. CASE i.opcode = "BRANCH"
    <3>1. PICK k \in prologue .. Last - 1 : i.imm["B"] = Truncate(4 * k - 4 * n)
      <4>1. branch_word(i, 4 * n)
        BY <1>0, <2>2, BodyLegal
      <4>2. \E k \in prologue .. prologue + body_len - 1 :
              i.imm["B"] = Truncate(4 * k - 4 * n)
        BY <4>1, Zenon DEF branch_word
      <4>3. Last - 1 = prologue + body_len - 1
        BY Layout DEF Last
      <4> QED BY <4>2, <4>3
    <3>2. k \in 0 .. Last /\ k \in prologue .. Last
      BY <1>1
    <3>3. Truncate(m_pc + i.imm["B"]) = 4 * k
      BY <1>7, <3>1, <3>2
    <3>4. Model!next_pc \in {4 * k, 4 * (n + 1)}
      BY <1>2, <1>6, <2>2, <3>3, ModelShared DEF Model!next_pc
    <3> QED BY <1>5, <3>2, <3>4
  <2>3. CASE i.opcode = "JAL"
    <3>1. PICK k \in prologue .. Last : i.imm["J"] = Truncate(4 * k - 4 * n)
      BY <1>0, <2>3, BodyLegal DEF jal_word, Last
    <3>2. k \in 0 .. Last
      BY <1>1
    <3>3. Model!next_pc = 4 * k
      BY <1>2, <1>7, <2>3, <3>1, <3>2, ModelShared DEF Model!next_pc
    <3> QED BY <3>3
  <2> QED BY <1>0, <2>1, <2>2, <2>3, BodyLegal
<1>9. ASSUME i.opcode = "LOAD"
      PROVE  /\ ~Model!Misaligned(Model!funct3, Model!mem_addr)
             /\ WordIndex(Model!mem_addr) > Last
  <2>1. load_word(i)
    BY <1>0, <1>9, BodyLegal
  <2>2. Model!mem_addr = Truncate(DATA_BASE + i.imm["I"])
    BY <1>2, <1>3, <1>9, <2>1, ModelShared DEF Model!mem_addr, load_word
  <2> QED BY <1>2, <2>1, <2>2, DataAccess DEF load_word
<1>10. ASSUME i.opcode = "STORE"
       PROVE  /\ ~Model!Misaligned(Model!funct3, Model!mem_addr)
              /\ WordIndex(Model!mem_addr) > Last
  <2>1. store_word(i)
    BY <1>0, <1>10, BodyLegal
  <2>2. Model!mem_addr = Truncate(DATA_BASE + i.imm["S"])
    BY <1>2, <1>3, <1>10, <2>1, ModelShared DEF Model!mem_addr, store_word
  <2>3. i.funct3 \in LOAD_F3
    BY <2>1 DEF store_word, STORE_F3, LOAD_F3
  <2> QED BY <1>2, <2>1, <2>2, <2>3, DataAccess DEF store_word
<1>11. Model!has_rd_value => i.rd # DATA_REG
  BY <1>0, <1>2, BodyLegal DEF Model!has_rd_value
<1> QED BY <1>0, <1>2, <1>8, <1>9, <1>10, <1>11, BodyLegal

\* One step of the model on a generated program.
LEMMA RunningStep ==
    ASSUME Running, Drawn(tb.words), Len(tb.words) = Last + 1, tb'.words = tb.words, Model!Step
    PROVE  Running'
<1>1. /\ prologue = 2 /\ Last \in Nat /\ Last >= 3 /\ EndOfProgram = 4 * Last
      /\ 4 * Last \in 0 .. Modulus - 1 /\ Last = prologue + body_len
      /\ Last - 1 = prologue + body_len - 1
  <2>1. /\ prologue = 2 /\ body_len \in Nat /\ body_len >= 1
        /\ EndOfProgram = 4 * (prologue + body_len)
        /\ 4 * (prologue + body_len + 1) <= DATA_BASE /\ DATA_BASE + DATA_SIZE <= 4 * WORDS
        /\ 4 * WORDS <= Modulus /\ Modulus \in Nat /\ DATA_BASE \in Nat /\ DATA_SIZE \in Nat
        /\ WORDS \in Nat
    BY Layout
  <2> QED BY <2>1 DEF Last
<1>2. PICK n \in 0 .. Last : m_pc = 4 * n
  BY DEF Running
<1>3. PICK i : i = Fields(tb.words[n + 1])
  OBVIOUS
<1>4. /\ Model!fields = i /\ Model!opcode = i.opcode /\ Model!funct3 = i.funct3
      /\ Model!a = m_regs[i.rs1] /\ n \in Nat
  BY <1>2, <1>3, RunningReads
<1>5. DATA_REG \in Reg /\ DATA_REG # 0
  BY LayoutAssumption
<1>6. /\ Model!HALT_NONE = HALT_NONE /\ Model!HALT_ECALL = HALT_ECALL
      /\ Model!HALT_ECALL # Model!HALT_NONE
      /\ Model!Opcodes = Opcodes
  BY ModelShared DEF HALT_NONE, HALT_ECALL
\* What a retirement leaves: the next word and the pointer decide.
<1>7. ASSUME ~m_halted, Model!Cause = HALT_NONE, NEW k \in 0 .. Last, Model!next_pc = 4 * k,
             Model!opcode = "STORE" => WordIndex(Model!mem_addr) > Last,
             4 * k = 4 => m_regs'[DATA_REG] = Fields(tb.words[1]).imm["U"],
             4 * k \notin {0, 4} => m_regs'[DATA_REG] = DATA_BASE
      PROVE  Running'
  <2>1. Model!Retire
    BY <1>6, <1>7 DEF Model!Step, Model!Trap, Model!Halted
  <2>2. m_pc' = 4 * k /\ m_halted' = m_halted
    BY <1>7, <2>1 DEF Model!Retire
  <2>3. DOMAIN m_regs' = Reg /\ m_regs' = [r \in Reg |-> m_regs'[r]]
    BY <2>1 DEF Model!Retire, Running
  <2>4. /\ DOMAIN m_mem' = Index /\ m_mem' = [x \in Index |-> m_mem'[x]]
        /\ \A x \in 0 .. Last : m_mem'[x] = m_mem[x]
    <3>1. CASE Model!opcode = "STORE"
      <4>1. PICK v : m_mem' = [m_mem EXCEPT ![WordIndex(Model!mem_addr)] = v]
        BY <2>1, <3>1, ModelShared DEF Model!Retire, Model!Store
      <4>2. \A x \in 0 .. Last : x # WordIndex(Model!mem_addr)
        BY <1>1, <1>7, <3>1
      <4> QED BY <4>1, <4>2 DEF Running
    <3>2. CASE Model!opcode # "STORE"
      BY <2>1, <3>2 DEF Model!Retire, Running
    <3> QED BY <3>1, <3>2
  <2>5. \A x \in 0 .. Last : m_mem'[x] = tb'.words[x + 1]
    BY <2>4 DEF Running
  <2> QED BY <1>7, <2>2, <2>3, <2>4, <2>5 DEF Running, Last
<1>8. CASE m_halted
  <2>1. UNCHANGED <<m_mem, m_regs, m_pc, m_halted, m_halt_cause>>
    BY <1>8 DEF Model!Step, Model!Retire, Model!Trap, Model!Halted, Model!vars
  <2> QED BY <2>1 DEF Running
\* The final ECALL stops it.
<1>9. CASE ~m_halted /\ n = Last
  <2>1. i.opcode = "SYSTEM" /\ i.sys = "ecall"
    BY <1>1, <1>3, <1>9 DEF Drawn, ecall_word, Last
  <2>2. Model!Cause = HALT_ECALL
    BY <1>4, <1>6, <2>1 DEF Model!Cause, Model!Illegal, Opcodes
  <2>3. Model!Trap
    BY <1>6, <1>9, <2>2 DEF Model!Step, Model!Retire, Model!Halted
  <2>4. /\ m_mem' = m_mem /\ m_regs' = m_regs /\ m_pc' = m_pc /\ m_halt_cause' = HALT_ECALL
    BY <2>2, <2>3 DEF Model!Trap
  <2> QED BY <1>1, <1>2, <1>9, <2>4 DEF Running
\* The prologue.
<1>10. CASE ~m_halted /\ n = 0
  <2>1. i.opcode = "LUI" /\ i.rd = DATA_REG
    BY <1>1, <1>3, <1>10 DEF Drawn, upper_word
  <2>2. Model!next_pc = 4
    <3>1. Truncate(0 + 4) = 4
      <4>1. 4 \in 0 .. Modulus - 1 /\ 0 + 4 = 4
        BY <1>1, ModulusNat
      <4> QED BY <4>1, ModulusNat DEF Truncate
    <3> QED BY <1>2, <1>4, <1>10, <2>1, <3>1, ModelShared DEF Model!next_pc
  <2>3. Model!Cause = HALT_NONE
    BY <1>4, <1>6, <2>1, <2>2 DEF Model!Cause, Model!Illegal, Opcodes
  <2>4. m_regs'[DATA_REG] = i.imm["U"]
    <3>1. Model!rd_value = i.imm["U"]
      BY <1>4, <2>1 DEF Model!rd_value
    <3>2. Model!Retire
      BY <1>6, <1>10, <2>3 DEF Model!Step, Model!Trap, Model!Halted
    <3>3. m_regs' = [m_regs EXCEPT ![DATA_REG] = i.imm["U"]]
      BY <1>4, <1>5, <2>1, <3>1, <3>2 DEF Model!Retire, Model!has_rd_value
    <3> QED BY <1>5, <3>3 DEF Running
  <2>5. 1 \in 0 .. Last /\ 4 * 1 = 4
    BY <1>1
  <2> QED BY <1>3, <1>4, <1>7, <1>10, <2>1, <2>2, <2>3, <2>4, <2>5
<1>11. CASE ~m_halted /\ n = 1
  <2>1. /\ i.opcode = "IMM" /\ i.funct3 = 0 /\ i.rd = DATA_REG /\ i.rs1 = DATA_REG
        /\ Truncate(Fields(tb.words[1]).imm["U"] + i.imm["I"]) = DATA_BASE
    BY <1>1, <1>3, <1>11 DEF Drawn, prologue_words
  <2>2. Model!next_pc = 8
    <3>1. Truncate(4 + 4) = 8
      <4>1. 8 \in 0 .. Modulus - 1 /\ 4 + 4 = 8
        BY <1>1, ModulusNat
      <4> QED BY <4>1, ModulusNat DEF Truncate
    <3>2. m_pc = 4
      BY <1>2, <1>11
    <3> QED BY <1>4, <2>1, <3>1, <3>2, ModelShared DEF Model!next_pc
  <2>3. Model!Cause = HALT_NONE
    BY <1>4, <1>6, <2>1, <2>2 DEF Model!Cause, Model!Illegal, Opcodes
  <2>4. m_regs'[DATA_REG] = DATA_BASE
    <3>1. m_regs[DATA_REG] = Fields(tb.words[1]).imm["U"]
      <4>1. m_pc = 4
        BY <1>2, <1>11
      <4> QED BY <4>1 DEF Running
    <3>2. Model!rd_value = DATA_BASE
      <4>1. Model!AluResult(i, Model!a, Model!b)
              = Truncate(Fields(tb.words[1]).imm["U"] + i.imm["I"])
        BY <1>4, <2>1, <3>1, ModelShared DEF Model!AluResult, Model!Alu
      <4> QED BY <1>4, <2>1, <4>1 DEF Model!rd_value
    <3>3. Model!Retire
      BY <1>6, <1>11, <2>3 DEF Model!Step, Model!Trap, Model!Halted
    <3>4. m_regs' = [m_regs EXCEPT ![DATA_REG] = DATA_BASE]
      BY <1>4, <1>5, <2>1, <3>2, <3>3 DEF Model!Retire, Model!has_rd_value
    <3> QED BY <1>5, <3>4 DEF Running
  <2>5. 2 \in 0 .. Last /\ 4 * 2 = 8 /\ 4 * 2 # 4
    BY <1>1
  <2> QED BY <1>4, <1>7, <1>11, <2>1, <2>2, <2>3, <2>4, <2>5
\* The body.
<1>12. CASE ~m_halted /\ n \in prologue .. Last - 1
  <2>1. body_word(i, 4 * n)
    <3>1. n < Len(tb.words) /\ n \in prologue .. prologue + body_len - 1
      BY <1>1, <1>12
    <3> QED BY <1>3, <3>1 DEF Drawn
  <2>2. /\ ~Model!Illegal(i) /\ i.opcode # "SYSTEM"
        /\ i.opcode \in {"LOAD", "STORE"} =>
              ~Model!Misaligned(i.funct3, Model!mem_addr) /\ WordIndex(Model!mem_addr) > Last
        /\ Model!has_rd_value => i.rd # DATA_REG
    BY <1>2, <1>3, <1>4, <1>12, <2>1, BodyRuns
  <2>3. PICK k \in prologue .. Last : Model!next_pc = 4 * k
    BY <1>2, <1>3, <1>12, <2>1, BodyRuns
  <2>4. k \in 0 .. Last /\ 4 * k \notin {0, 4} /\ 4 * k # 4 /\ (4 * k) % 4 = 0
    BY <1>1, <2>3
  <2>5. Model!Cause = HALT_NONE
    BY <1>4, <1>6, <2>2, <2>3, <2>4 DEF Model!Cause
  <2>6. m_regs'[DATA_REG] = DATA_BASE
    <3>1. m_regs[DATA_REG] = DATA_BASE
      <4>1. m_pc \notin {0, 4}
        BY <1>1, <1>2, <1>12
      <4> QED BY <4>1 DEF Running
    <3>2. Model!Retire
      BY <1>6, <1>12, <2>5 DEF Model!Step, Model!Trap, Model!Halted
    <3> QED BY <1>4, <1>5, <2>2, <3>1, <3>2 DEF Model!Retire, Running
  <2> QED BY <1>4, <1>7, <1>12, <2>2, <2>3, <2>4, <2>5, <2>6
<1>13. n = 0 \/ n = 1 \/ n \in prologue .. Last - 1 \/ n = Last
  BY <1>1, <1>2
<1> QED BY <1>8, <1>9, <1>10, <1>11, <1>12, <1>13

\* What the generator has produced and where the model is on it.
RandomInv ==
    tb.test = "random" =>
        /\ tb.phase = "generate" => Drawn(tb.words)
        /\ tb.phase \notin Between => Drawn(tb.words) /\ Len(tb.words) = Last + 1
        /\ tb.phase \in Modelled => Running

\* Fetching and generating.
LEMMA RandomDrawn ==
    ASSUME Shape, Session, RandomInv,
           \/ core_directed_programs \/ core_random_programs \/ Generate
           \/ core_step_enable_freezes \/ core_functional_coverage
    PROVE  RandomInv'
<1>1. CASE Pass \/ Fail
  BY <1>1, TestEnds DEF RandomInv, Between, Modelled
<1>2. CASE core_random_programs /\ ~Pass
  <2>1. tb' = [tb EXCEPT !.randoms = @ - 1, !.phase = "generate", !.words = <<>>]
    BY <1>2 DEF core_random_programs
  <2>2. tb'.phase = "generate" /\ tb'.words = <<>>
    BY <2>1 DEF Shape
  <2>3. Drawn(<<>>)
    <3>1. /\ <<>> \in Seq(Word) /\ Len(<<>>) = 0 /\ prologue = 2 /\ body_len \in Nat
          /\ 0 <= prologue + body_len + 1 /\ ~(0 > prologue + body_len)
          /\ \A k \in prologue .. prologue + body_len - 1 : ~(k < 0)
      BY Layout
    <3> QED BY <3>1 DEF Drawn
  <2> QED BY <2>2, <2>3 DEF RandomInv, Between, Modelled
<1>3. CASE Generate /\ ~Fail
  <2>0. tb.phase = "generate" /\ tb.test = "random" /\ Drawn(tb.words)
    BY <1>3 DEF Generate, At, Session, RandomInv
  <2>1. CASE Len(tb.words) > prologue + body_len
    <3>1. tb.words \in Loadable /\ load(tb.words)
      BY <1>3, <2>0, <2>1, GeneratedFits DEF Generate
    <3>2. tb'.words = tb.words /\ tb'.phase = "deposit"
      BY <3>1, LoadFits
    <3>3. Len(tb.words) = Last + 1
      <4>1. Len(tb.words) \in Nat /\ Len(tb.words) <= prologue + body_len + 1
            /\ prologue + body_len \in Nat
        BY <2>0, Layout DEF Drawn
      <4> QED BY <2>1, <4>1 DEF Last
    <3> QED BY <2>0, <3>2, <3>3 DEF RandomInv, Modelled, Last
  <2>2. CASE ~(Len(tb.words) > prologue + body_len)
    <3>1. PICK w \in Word : drawn(tb.words, Fields(w)) /\ tb' = [tb EXCEPT !.words = Append(@, w)]
      BY <1>3, <2>2 DEF Generate
    <3>2. tb'.phase = "generate" /\ tb'.words = Append(tb.words, w)
      BY <2>0, <3>1 DEF Shape
    <3>3. Drawn(Append(tb.words, w))
      BY <2>0, <2>2, <3>1, DrawnNext
    <3> QED BY <3>2, <3>3 DEF RandomInv, Between, Modelled
  <2> QED BY <2>1, <2>2
<1>4. CASE core_directed_programs /\ ~Pass
  <2>1. tb.todo # <<>> /\ load(Head(tb.todo)) /\ tb.test = "directed"
    BY <1>4 DEF core_directed_programs
  <2>2. Head(tb.todo) \in Loadable
    BY <2>1 DEF Session
  <2> QED BY <2>1, <2>2, LoadFits DEF RandomInv
<1>5. CASE core_step_enable_freezes
  <2>1. load(FREEZE) /\ tb.test = "freeze"
    BY <1>5 DEF core_step_enable_freezes
  <2> QED BY <2>1, FreezeLoadable, LoadFits DEF RandomInv
<1>6. CASE core_functional_coverage
  BY <1>1, <1>6 DEF core_functional_coverage
<1> QED BY <1>1, <1>2, <1>3, <1>4, <1>5, <1>6

\* The memory and registers of a new model.
LEMMA RunningStarts ==
    ASSUME Drawn(tb.words), Len(tb.words) = Last + 1, tb'.words = tb.words,
           m_mem' = Padded, m_regs' = [r \in Reg |-> 0], m_pc' = 0, m_halted' = FALSE
    PROVE  Running'
<1>1. Last \in Nat /\ Last < WORDS /\ WORDS \in Nat
  <2>1. /\ prologue = 2 /\ body_len \in Nat /\ DATA_BASE \in Nat /\ DATA_SIZE \in Nat
        /\ WORDS \in Nat
        /\ 4 * (prologue + body_len + 1) <= DATA_BASE /\ DATA_BASE + DATA_SIZE <= 4 * WORDS
    BY Layout
  <2> QED BY <2>1 DEF Last
<1>2. ASSUME NEW k \in 0 .. Last PROVE Padded[k] = tb.words[k + 1]
  <2>1. k \in Index /\ k < Len(tb.words)
    BY <1>1 DEF Index
  <2> QED BY <2>1 DEF Padded
<1>3. Padded = [i \in Index |-> Padded[i]] /\ DOMAIN Padded = Index
  BY DEF Padded
<1>4. 0 \in 0 .. Last /\ 4 * 0 = 0
  BY <1>1
<1>5. /\ DOMAIN m_mem' = Index /\ m_mem' = [i \in Index |-> m_mem'[i]]
      /\ DOMAIN m_regs' = Reg /\ m_regs' = [r \in Reg |-> m_regs'[r]]
  BY <1>3
<1>6. \A k \in 0 .. Last : m_mem'[k] = tb'.words[k + 1]
  BY <1>2
<1>7. \E n \in 0 .. Last : m_pc' = 4 * n
  BY <1>4
<1>8. m_pc' # 4 /\ m_pc' \in {0, 4}
  OBVIOUS
<1> QED BY <1>5, <1>6, <1>7, <1>8 DEF Running, Last

LEMMA RandomKept ==
    ASSUME Shape, Session, RandomInv, [RegressionNext]_regressionVars
    PROVE  RandomInv'
<1>1. ASSUME UNCHANGED model, tb'.test = tb.test, tb'.words = tb.words,
             tb'.phase \in Between \cup Modelled => tb'.phase = "fetch" \/ tb.phase \in Modelled,
             tb.phase \notin Between
      PROVE  RandomInv'
  BY <1>1 DEF model, RandomInv, Running, Between, Modelled, Last
<1>2. CASE UNCHANGED regressionVars
  BY <1>2 DEF regressionVars, model, RandomInv, Running, Drawn, Last
<1>3. CASE \/ core_directed_programs \/ core_random_programs \/ Generate
           \/ core_step_enable_freezes \/ core_functional_coverage
  BY <1>3, RandomDrawn
<1>4. CASE Pass \/ Fail
  BY <1>4, TestEnds DEF RandomInv, Between, Modelled
<1>5. CASE RisingEdge
  <2>1. tb'.phase = tb.phase /\ tb'.words = tb.words /\ tb'.test = tb.test /\ UNCHANGED model
    BY <1>5 DEF RisingEdge, Shape
  <2> QED BY <2>1 DEF model, RandomInv, Running, Last
<1>6. CASE reset
  <2>1. tb.phase = "reset" /\ tb'.words = tb.words /\ tb'.test = tb.test
    BY <1>6 DEF reset, At, Shape
  <2>2. m_mem' = Padded /\ m_regs' = [r \in Reg |-> 0] /\ m_pc' = 0 /\ m_halted' = FALSE
        /\ tb'.phase \in {"warm", "model"}
    BY <1>6 DEF reset, Shape
  <2> QED BY <2>1, <2>2, RunningStarts DEF RandomInv, Between, Last
<1>7. CASE run
  <2>1. tb.phase = "model" /\ tb'.words = tb.words /\ tb'.test = tb.test
        /\ tb'.phase \in {"model", "compare"}
    <3>1. CASE tb.count = MaxSteps \/ m_halted
      <4>1. tb' = [tb EXCEPT !.phase = "compare", !.budget = Len(tb.expected) * 4 + SLACK]
        BY <1>7, <3>1 DEF run
      <4> QED BY <1>7, <4>1 DEF run, At, Shape
    <3>2. CASE ~(tb.count = MaxSteps \/ m_halted)
      <4>1. PICK e : tb' = [tb EXCEPT !.count = @ + 1, !.expected = e]
        BY <1>7, <3>2 DEF run
      <4> QED BY <1>7, <4>1 DEF run, At, Shape
    <3> QED BY <3>1, <3>2
  <2>2. CASE Model!Step
    <3>1. tb.test = "random" => Running'
      BY <2>1, <2>2, RunningStep DEF RandomInv, Modelled, Between
    <3> QED BY <2>1, <3>1 DEF RandomInv, Modelled, Between, Last
  <2>3. CASE ~Model!Step
    <3>1. UNCHANGED model
      BY <1>7, <2>3 DEF run, Still
    <3> QED BY <1>1, <2>1, <3>1 DEF Modelled, Between
  <2> QED BY <2>2, <2>3
<1>8. CASE /\ \/ deposit \/ compare \/ stop \/ check_halt \/ check_held \/ compare_state
              \/ warm \/ disable \/ disabled \/ check_frozen \/ enabled \/ resumed
           /\ ~Pass /\ ~Fail
  <2>1. tb'.words = tb.words /\ tb'.test = tb.test
    BY <1>8, Onward
  <2>2. UNCHANGED model
    BY <1>8 DEF deposit, compare, stop, check_halt, check_held, compare_state, warm, disable,
               disabled, check_frozen, enabled, resumed, Still
  <2>3. tb.phase \notin Between
        /\ (tb'.phase \in Between \cup Modelled => tb'.phase = "fetch" \/ tb.phase \in Modelled)
    <3>1. CASE deposit
      BY <3>1 DEF deposit, At, Shape, Between, Modelled
    <3>2. CASE compare \/ stop \/ check_halt \/ check_held \/ compare_state
      BY <3>2 DEF compare, stop, check_halt, check_held, compare_state, At, Between, Modelled
    <3>3. CASE warm \/ disable \/ disabled \/ check_frozen \/ enabled \/ resumed
      <4>1. tb.phase \in Freezing
        BY <3>3 DEF warm, disable, disabled, check_frozen, enabled, resumed, At, Freezing
      <4>2. tb'.phase \in Freezing
        <5>1. CASE warm \/ disable
          BY <5>1 DEF warm, disable, Shape, Freezing
        <5>2. CASE disabled
          BY <1>8, <5>2 DEF disabled, Shape, Freezing
        <5>3. CASE enabled
          BY <1>8, <5>3 DEF enabled, Shape, Freezing
        <5>4. CASE check_frozen
          <6>1. PICK c : /\ tb.phase = "frozen"
                         /\ \/ tb' = [tb EXCEPT !.count = c, !.edges = 1]
                            \/ tb' = [tb EXCEPT !.phase = "enabled"]
            BY <1>8, <5>4 DEF check_frozen, At
          <6> QED BY <6>1 DEF Shape, Freezing
        <5>5. CASE resumed
          BY <1>8, <5>5 DEF resumed
        <5> QED BY <3>3, <5>1, <5>2, <5>3, <5>4, <5>5
      <4> QED BY <4>1, <4>2 DEF Freezing, Between, Modelled
    <3> QED BY <1>8, <3>1, <3>2, <3>3
  <2> QED BY <1>1, <2>1, <2>2, <2>3
<1> QED BY <1>2, <1>3, <1>4, <1>5, <1>6, <1>7, <1>8 DEF RegressionNext, Test

\* Whatever the generator draws and whatever core runs it, a random program
\* stops nowhere but at its final ECALL, keeps its data pointer from its third
\* word on and never writes its own code (randgen.py:6-13, 60-99).
THEOREM RandomRunsWellCorrect == RegressionSpec => []RandomRunsWell
<1> DEFINE Inv == Shape /\ Counted /\ Bits /\ Session /\ RandomInv
<1>1. RegressionInit => Inv
  <2> SUFFICES ASSUME RegressionInit PROVE Inv
    OBVIOUS
  <2>1. tb.test = "directed"
    BY DEF RegressionInit
  <2> QED BY <2>1, Started, SessionStarts DEF RandomInv
<1>2. Inv /\ [RegressionNext]_regressionVars => Inv'
  BY Kept, SessionKept, RandomKept
<1>3. Inv => RandomRunsWell
  BY DEF RandomInv, Running, RandomRunsWell, Modelled, Between, Last
<1> HIDE DEF Inv
<1> QED BY <1>1, <1>2, <1>3, PTL DEF RegressionSpec

-----------------------------------------------------------------------------
(* The scoreboard and a correct core.  run_program first lets the golden    *)
(* model run to its end and only then the core, so the proof remembers the  *)
(* states the model went through: the core is always in one of them, and    *)
(* what it retires there is what the model committed.                       *)

\* The golden model in any state, which step() reads.
Machine(m, r, p) == INSTANCE Iss WITH mem <- m, regs <- r, pc <- p, halted <- FALSE,
                                      halt_cause <- HALT_NONE, Programs <- {}

\* What step() raises, what it returns, and the state it leaves.
CauseOf(s)  == Machine(s.mem, s.regs, s.pc)!Cause
CommitOf(s) == Machine(s.mem, s.regs, s.pc)!Commit
After(s) ==
    [mem  |-> IF Machine(s.mem, s.regs, s.pc)!opcode = "STORE"
              THEN Machine(s.mem, s.regs, s.pc)!Store(Machine(s.mem, s.regs, s.pc)!funct3,
                     Machine(s.mem, s.regs, s.pc)!mem_addr, Machine(s.mem, s.regs, s.pc)!b)
              ELSE s.mem,
     regs |-> IF Machine(s.mem, s.regs, s.pc)!has_rd_value
                    /\ Machine(s.mem, s.regs, s.pc)!fields.rd # 0
              THEN [s.regs EXCEPT ![Machine(s.mem, s.regs, s.pc)!fields.rd] =
                                     Machine(s.mem, s.regs, s.pc)!rd_value]
              ELSE s.regs,
     pc   |-> Machine(s.mem, s.regs, s.pc)!next_pc]

\* The words of a memory array; the state of the core and that of the model.
WordsOf(array) == [i \in Index |-> FromLanes[array[i]]]
CoreState  == [mem |-> WordsOf(mem), regs |-> regs, pc |-> pc]
ModelState == [mem |-> m_mem, regs |-> m_regs, pc |-> m_pc]

-----------------------------------------------------------------------------
(* The golden model, the one the scoreboard runs and the one of the core's  *)
(* refinement are copies of the same class                                  *)

\* Their copies of the shared definitions.
LEMMA MachineShared ==
    ASSUME NEW m, NEW r, NEW p
    PROVE  /\ \A v : Machine(m, r, p)!WordIndex(v) = WordIndex(v)
                  /\ Machine(m, r, p)!Truncate(v) = Truncate(v)
           /\ \A v : Machine(m, r, p)!Signed(v) = Signed(v)
           /\ \A v, w : Machine(m, r, p)!SignExtend(v, w) = SignExtend(v, w)
           /\ Machine(m, r, p)!Opcodes = Opcodes
           /\ Machine(m, r, p)!HALT_NONE = HALT_NONE /\ Machine(m, r, p)!HALT_ECALL = HALT_ECALL
           /\ Machine(m, r, p)!HALT_EBREAK = HALT_EBREAK
           /\ Machine(m, r, p)!HALT_ILLEGAL = HALT_ILLEGAL
           /\ Machine(m, r, p)!HALT_MEM_MISALIGN = HALT_MEM_MISALIGN
           /\ Machine(m, r, p)!HALT_FETCH_MISALIGN = HALT_FETCH_MISALIGN
BY DEF Machine!WordIndex, WordIndex, Machine!Truncate, Truncate, Machine!Modulus, Modulus,
       Machine!Signed, Signed, Machine!Opcodes, Opcodes, Machine!SignExtend, SignExtend,
       Machine!HALT_NONE, HALT_NONE, Machine!HALT_ECALL, HALT_ECALL,
       Machine!HALT_EBREAK, HALT_EBREAK, Machine!HALT_ILLEGAL, HALT_ILLEGAL,
       Machine!HALT_MEM_MISALIGN, HALT_MEM_MISALIGN,
       Machine!HALT_FETCH_MISALIGN, HALT_FETCH_MISALIGN

LEMMA GoldenShared ==
    /\ \A v : Golden!WordIndex(v) = WordIndex(v) /\ Golden!Truncate(v) = Truncate(v)
    /\ \A v : Golden!Signed(v) = Signed(v)
    /\ \A v, w : Golden!SignExtend(v, w) = SignExtend(v, w)
    /\ Golden!Opcodes = Opcodes
    /\ Golden!HALT_NONE = HALT_NONE /\ Golden!HALT_ECALL = HALT_ECALL
    /\ Golden!HALT_EBREAK = HALT_EBREAK /\ Golden!HALT_ILLEGAL = HALT_ILLEGAL
    /\ Golden!HALT_MEM_MISALIGN = HALT_MEM_MISALIGN
    /\ Golden!HALT_FETCH_MISALIGN = HALT_FETCH_MISALIGN
BY SameIsa DEF SignExtend, Golden!SignExtend, Modulus, Golden!Modulus

\* The operators of the class that read no attribute.
LEMMA GoldenHelpers ==
    ASSUME NEW m, NEW r, NEW p
    PROVE  /\ \A v, w : Machine(m, r, p)!Misaligned(v, w) <=> Golden!Misaligned(v, w)
           /\ \A v : Machine(m, r, p)!HalfOffset(v) = Golden!HalfOffset(v)
           /\ \A v, w, x : Machine(m, r, p)!Slice(v, w, x) = Golden!Slice(v, w, x)
           /\ \A v, w, x, y : Machine(m, r, p)!Splice(v, w, x, y) = Golden!Splice(v, w, x, y)
           /\ \A v, w, x : Machine(m, r, p)!BranchTaken(v, w, x) <=> Golden!BranchTaken(v, w, x)
           /\ \A g : Machine(m, r, p)!Illegal(g) <=> Golden!Illegal(g)
           /\ \A g, v, w : Machine(m, r, p)!AluResult(g, v, w) = Golden!AluResult(g, v, w)
<1>1. /\ \A v, w : Machine(m, r, p)!Misaligned(v, w) <=> Golden!Misaligned(v, w)
      /\ \A v : Machine(m, r, p)!Shift(v) = Golden!Shift(v)
      /\ \A v : Machine(m, r, p)!Flag(v) = Golden!Flag(v)
  BY DEF Machine!Misaligned, Golden!Misaligned, Machine!Shift, Golden!Shift, Machine!Flag,
         Golden!Flag
<1>2. \A v : Machine(m, r, p)!HalfOffset(v) = Golden!HalfOffset(v)
  BY DEF Machine!HalfOffset, Golden!HalfOffset
<1>3. \A v, w, x : Machine(m, r, p)!Slice(v, w, x) = Golden!Slice(v, w, x)
  BY <1>1 DEF Machine!Slice, Golden!Slice
<1>4. \A v, w, x, y : Machine(m, r, p)!Splice(v, w, x, y) = Golden!Splice(v, w, x, y)
  BY <1>1, <1>3 DEF Machine!Splice, Golden!Splice
<1>5. \A v, w, x : Machine(m, r, p)!BranchTaken(v, w, x) <=> Golden!BranchTaken(v, w, x)
  BY MachineShared, GoldenShared DEF Machine!BranchTaken, Golden!BranchTaken
<1>6. \A g : Machine(m, r, p)!Illegal(g) <=> Golden!Illegal(g)
  BY MachineShared, GoldenShared DEF Machine!Illegal, Golden!Illegal
<1>7. \A u, v, w, x : Machine(m, r, p)!Alu(u, v, w, x) = Golden!Alu(u, v, w, x)
  <2>1. /\ \A v : Machine(m, r, p)!Truncate(v) = Golden!Truncate(v)
               /\ Machine(m, r, p)!Signed(v) = Golden!Signed(v)
        /\ \A v : Machine(m, r, p)!Flag(v) = Golden!Flag(v)
    BY <1>1, MachineShared, GoldenShared
  <2> QED BY <2>1 DEF Machine!Alu, Golden!Alu
<1>8. \A g, v, w : Machine(m, r, p)!AluResult(g, v, w) = Golden!AluResult(g, v, w)
  BY <1>7 DEF Machine!AluResult, Golden!AluResult
<1> QED BY <1>1, <1>2, <1>3, <1>4, <1>5, <1>6, <1>8

LEMMA ModelHelpers ==
    ASSUME NEW m, NEW r, NEW p
    PROVE  /\ \A v, w : Machine(m, r, p)!Misaligned(v, w) <=> Model!Misaligned(v, w)
           /\ \A v : Machine(m, r, p)!HalfOffset(v) = Model!HalfOffset(v)
           /\ \A v, w, x : Machine(m, r, p)!Slice(v, w, x) = Model!Slice(v, w, x)
           /\ \A v, w, x, y : Machine(m, r, p)!Splice(v, w, x, y) = Model!Splice(v, w, x, y)
           /\ \A v, w, x : Machine(m, r, p)!BranchTaken(v, w, x) <=> Model!BranchTaken(v, w, x)
           /\ \A g : Machine(m, r, p)!Illegal(g) <=> Model!Illegal(g)
           /\ \A g, v, w : Machine(m, r, p)!AluResult(g, v, w) = Model!AluResult(g, v, w)
<1>1. /\ \A v, w : Machine(m, r, p)!Misaligned(v, w) <=> Model!Misaligned(v, w)
      /\ \A v : Machine(m, r, p)!Shift(v) = Model!Shift(v)
      /\ \A v : Machine(m, r, p)!Flag(v) = Model!Flag(v)
  BY DEF Machine!Misaligned, Model!Misaligned, Machine!Shift, Model!Shift, Machine!Flag,
         Model!Flag
<1>2. \A v : Machine(m, r, p)!HalfOffset(v) = Model!HalfOffset(v)
  BY DEF Machine!HalfOffset, Model!HalfOffset
<1>3. \A v, w, x : Machine(m, r, p)!Slice(v, w, x) = Model!Slice(v, w, x)
  BY <1>1 DEF Machine!Slice, Model!Slice
<1>4. \A v, w, x, y : Machine(m, r, p)!Splice(v, w, x, y) = Model!Splice(v, w, x, y)
  BY <1>1, <1>3 DEF Machine!Splice, Model!Splice
<1>5. \A v, w, x : Machine(m, r, p)!BranchTaken(v, w, x) <=> Model!BranchTaken(v, w, x)
  BY MachineShared, ModelShared DEF Machine!BranchTaken, Model!BranchTaken
<1>6. \A g : Machine(m, r, p)!Illegal(g) <=> Model!Illegal(g)
  BY MachineShared, ModelShared DEF Machine!Illegal, Model!Illegal
<1>7. \A u, v, w, x : Machine(m, r, p)!Alu(u, v, w, x) = Model!Alu(u, v, w, x)
  <2>1. /\ \A v : Machine(m, r, p)!Truncate(v) = Model!Truncate(v)
               /\ Machine(m, r, p)!Signed(v) = Model!Signed(v)
        /\ \A v : Machine(m, r, p)!Flag(v) = Model!Flag(v)
    BY <1>1, MachineShared, ModelShared
  <2> QED BY <2>1 DEF Machine!Alu, Model!Alu
<1>8. \A g, v, w : Machine(m, r, p)!AluResult(g, v, w) = Model!AluResult(g, v, w)
  BY <1>7 DEF Machine!AluResult, Model!AluResult
<1> QED BY <1>1, <1>2, <1>3, <1>4, <1>5, <1>6, <1>8

\* What step() reads in the core's state.
LEMMA CoreReads ==
    ASSUME NEW m, NEW r, NEW p, m = WordsOf(mem), r = regs, p = pc
    PROVE  /\ Machine(m, r, p)!fields = Golden!fields /\ Machine(m, r, p)!opcode = Golden!opcode
           /\ Machine(m, r, p)!funct3 = Golden!funct3 /\ Machine(m, r, p)!b = Golden!b
           /\ Machine(m, r, p)!mem_addr = Golden!mem_addr
           /\ Machine(m, r, p)!next_pc = Golden!next_pc
           /\ (Machine(m, r, p)!has_rd_value <=> Golden!has_rd_value)
           /\ \A v, w, x : Machine(m, r, p)!Store(v, w, x) = Golden!Store(v, w, x)
           /\ Machine(m, r, p)!rd_value = Golden!rd_value
           /\ Machine(m, r, p)!Cause = Golden!Cause /\ Machine(m, r, p)!Commit = Golden!Commit
<1>1. Machine(m, r, p)!inst = Golden!inst
  BY MachineShared, GoldenShared DEF Machine!inst, Golden!inst, WordsOf
<1>2. Machine(m, r, p)!fields = Golden!fields
  BY <1>1 DEF Machine!fields, Golden!fields
<1>3. /\ Machine(m, r, p)!opcode = Golden!opcode /\ Machine(m, r, p)!funct3 = Golden!funct3
      /\ Machine(m, r, p)!a = Golden!a /\ Machine(m, r, p)!b = Golden!b
  BY <1>2 DEF Machine!opcode, Golden!opcode, Machine!funct3, Golden!funct3,
              Machine!a, Golden!a, Machine!b, Golden!b
<1>4. Machine(m, r, p)!mem_addr = Golden!mem_addr
  BY <1>2, <1>3, MachineShared, GoldenShared DEF Machine!mem_addr, Golden!mem_addr
<1>5. Machine(m, r, p)!next_pc = Golden!next_pc
  <2>1. /\ \A v : Machine(m, r, p)!Truncate(v) = Golden!Truncate(v)
        /\ Machine(m, r, p)!BranchTaken(Golden!funct3, Golden!a, Golden!b)
               <=> Golden!BranchTaken(Golden!funct3, Golden!a, Golden!b)
    BY MachineShared, GoldenShared, GoldenHelpers
  <2> USE <1>2, <1>3, <2>1 DEF Machine!next_pc, Golden!next_pc
  <2>2. CASE Golden!opcode = "JAL"
    BY <2>2
  <2>3. CASE Golden!opcode = "JALR"
    BY <2>3
  <2>4. CASE Golden!opcode = "BRANCH" /\ Golden!BranchTaken(Golden!funct3, Golden!a, Golden!b)
    BY <2>4
  <2>5. CASE /\ Golden!opcode \notin {"JAL", "JALR"}
             /\ ~(/\ Golden!opcode = "BRANCH"
                  /\ Golden!BranchTaken(Golden!funct3, Golden!a, Golden!b))
    BY <2>5
  <2> QED BY <2>2, <2>3, <2>4, <2>5
<1>6. Machine(m, r, p)!has_rd_value <=> Golden!has_rd_value
  BY <1>3 DEF Machine!has_rd_value, Golden!has_rd_value
<1>7. Machine(m, r, p)!Cause = Golden!Cause
  BY <1>2, <1>3, <1>4, <1>5, MachineShared, GoldenShared, GoldenHelpers
         DEF Machine!Cause, Golden!Cause
<1>8. \A v, w : Machine(m, r, p)!Load(v, w) = Golden!Load(v, w)
  <2> SUFFICES ASSUME NEW v, NEW w PROVE Machine(m, r, p)!Load(v, w) = Golden!Load(v, w)
    OBVIOUS
  <2> DEFINE word == m[WordIndex(w)]
             lane_b == Golden!Slice(word, w % 4, ByteMod)
             lane_h == Golden!Slice(word, Golden!HalfOffset(w), ByteMod * ByteMod)
             value == CASE v = 0 -> SignExtend(lane_b, ByteMod)
                        [] v = 1 -> SignExtend(lane_h, ByteMod * ByteMod)
                        [] v = 4 -> lane_b
                        [] v = 5 -> lane_h
                        [] OTHER -> word
  <2>1. Machine(m, r, p)!Load(v, w) = value
    <3>1. /\ Machine(m, r, p)!WordIndex(w) = WordIndex(w)
          /\ Machine(m, r, p)!HalfOffset(w) = Golden!HalfOffset(w)
          /\ \A k, size : Machine(m, r, p)!Slice(word, k, size) = Golden!Slice(word, k, size)
          /\ \A u, size : Machine(m, r, p)!SignExtend(u, size) = SignExtend(u, size)
      BY MachineShared, GoldenHelpers
    <3> QED BY <3>1 DEF Machine!Load
  <2>2. Golden!Load(v, w) = value
    BY GoldenShared DEF Golden!Load, WordsOf
  <2> QED BY <2>1, <2>2
<1>9. \A v, w, x : Machine(m, r, p)!Store(v, w, x) = Golden!Store(v, w, x)
  <2> SUFFICES ASSUME NEW v, NEW w, NEW x
               PROVE  Machine(m, r, p)!Store(v, w, x) = Golden!Store(v, w, x)
    OBVIOUS
  <2> DEFINE j == WordIndex(w)
             word == m[j]
             new == CASE v = 0 -> Golden!Splice(word, w % 4, ByteMod, x)
                      [] v = 1 -> Golden!Splice(word, Golden!HalfOffset(w),
                                                ByteMod * ByteMod, x)
                      [] OTHER -> x
  <2>1. Machine(m, r, p)!Store(v, w, x) = [m EXCEPT ![j] = new]
    <3>1. /\ Machine(m, r, p)!WordIndex(w) = j
          /\ Machine(m, r, p)!HalfOffset(w) = Golden!HalfOffset(w)
          /\ \A k, size : Machine(m, r, p)!Splice(word, k, size, x)
                 = Golden!Splice(word, k, size, x)
      BY MachineShared, GoldenHelpers
    <3> HIDE DEF j, word
    <3> QED BY <3>1, ZenonT(60) DEF Machine!Store, j, word
  <2>2. Golden!Store(v, w, x) = [m EXCEPT ![j] = new]
    BY GoldenShared DEF Golden!Store, WordsOf
  <2> QED BY <2>1, <2>2
<1>10. Machine(m, r, p)!rd_value = Golden!rd_value
  BY <1>2, <1>3, <1>4, <1>8, MachineShared, GoldenShared, GoldenHelpers
         DEF Machine!rd_value, Golden!rd_value
<1>11. Machine(m, r, p)!Commit = Golden!Commit
  BY <1>1, <1>2, <1>3, <1>4, <1>5, <1>6, <1>10 DEF Machine!Commit, Golden!Commit
<1> QED BY <1>2, <1>3, <1>4, <1>5, <1>6, <1>7, <1>9, <1>10, <1>11

\* And in the state of the scoreboard's model.
LEMMA ModelReads ==
    ASSUME NEW m, NEW r, NEW p, m = m_mem, r = m_regs, p = m_pc
    PROVE  /\ Machine(m, r, p)!fields = Model!fields /\ Machine(m, r, p)!opcode = Model!opcode
           /\ Machine(m, r, p)!funct3 = Model!funct3 /\ Machine(m, r, p)!b = Model!b
           /\ Machine(m, r, p)!mem_addr = Model!mem_addr
           /\ Machine(m, r, p)!next_pc = Model!next_pc
           /\ (Machine(m, r, p)!has_rd_value <=> Model!has_rd_value)
           /\ \A v, w, x : Machine(m, r, p)!Store(v, w, x) = Model!Store(v, w, x)
           /\ Machine(m, r, p)!rd_value = Model!rd_value
           /\ Machine(m, r, p)!Cause = Model!Cause /\ Machine(m, r, p)!Commit = Model!Commit
<1>1. Machine(m, r, p)!inst = Model!inst
  BY MachineShared, ModelShared DEF Machine!inst, Model!inst
<1>2. Machine(m, r, p)!fields = Model!fields
  BY <1>1 DEF Machine!fields, Model!fields
<1>3. /\ Machine(m, r, p)!opcode = Model!opcode /\ Machine(m, r, p)!funct3 = Model!funct3
      /\ Machine(m, r, p)!a = Model!a /\ Machine(m, r, p)!b = Model!b
  BY <1>2 DEF Machine!opcode, Model!opcode, Machine!funct3, Model!funct3,
              Machine!a, Model!a, Machine!b, Model!b
<1>4. Machine(m, r, p)!mem_addr = Model!mem_addr
  BY <1>2, <1>3, MachineShared, ModelShared DEF Machine!mem_addr, Model!mem_addr
<1>5. Machine(m, r, p)!next_pc = Model!next_pc
  <2>1. /\ \A v : Machine(m, r, p)!Truncate(v) = Model!Truncate(v)
        /\ Machine(m, r, p)!BranchTaken(Model!funct3, Model!a, Model!b)
               <=> Model!BranchTaken(Model!funct3, Model!a, Model!b)
    BY MachineShared, ModelShared, ModelHelpers
  <2> USE <1>2, <1>3, <2>1 DEF Machine!next_pc, Model!next_pc
  <2>2. CASE Model!opcode = "JAL"
    BY <2>2
  <2>3. CASE Model!opcode = "JALR"
    BY <2>3
  <2>4. CASE Model!opcode = "BRANCH" /\ Model!BranchTaken(Model!funct3, Model!a, Model!b)
    BY <2>4
  <2>5. CASE /\ Model!opcode \notin {"JAL", "JALR"}
             /\ ~(Model!opcode = "BRANCH" /\ Model!BranchTaken(Model!funct3, Model!a, Model!b))
    BY <2>5
  <2> QED BY <2>2, <2>3, <2>4, <2>5
<1>6. Machine(m, r, p)!has_rd_value <=> Model!has_rd_value
  BY <1>3 DEF Machine!has_rd_value, Model!has_rd_value
<1>7. Machine(m, r, p)!Cause = Model!Cause
  BY <1>2, <1>3, <1>4, <1>5, MachineShared, ModelShared, ModelHelpers
         DEF Machine!Cause, Model!Cause
<1>8. \A v, w : Machine(m, r, p)!Load(v, w) = Model!Load(v, w)
  <2> SUFFICES ASSUME NEW v, NEW w PROVE Machine(m, r, p)!Load(v, w) = Model!Load(v, w)
    OBVIOUS
  <2> DEFINE word == m[WordIndex(w)]
             lane_b == Model!Slice(word, w % 4, ByteMod)
             lane_h == Model!Slice(word, Model!HalfOffset(w), ByteMod * ByteMod)
             value == CASE v = 0 -> SignExtend(lane_b, ByteMod)
                        [] v = 1 -> SignExtend(lane_h, ByteMod * ByteMod)
                        [] v = 4 -> lane_b
                        [] v = 5 -> lane_h
                        [] OTHER -> word
  <2>1. Machine(m, r, p)!Load(v, w) = value
    <3>1. /\ Machine(m, r, p)!WordIndex(w) = WordIndex(w)
          /\ Machine(m, r, p)!HalfOffset(w) = Model!HalfOffset(w)
          /\ \A k, size : Machine(m, r, p)!Slice(word, k, size) = Model!Slice(word, k, size)
          /\ \A u, size : Machine(m, r, p)!SignExtend(u, size) = SignExtend(u, size)
      BY MachineShared, ModelHelpers
    <3> QED BY <3>1 DEF Machine!Load
  <2>2. Model!Load(v, w) = value
    BY ModelShared DEF Model!Load
  <2> QED BY <2>1, <2>2
<1>9. \A v, w, x : Machine(m, r, p)!Store(v, w, x) = Model!Store(v, w, x)
  <2> SUFFICES ASSUME NEW v, NEW w, NEW x
               PROVE  Machine(m, r, p)!Store(v, w, x) = Model!Store(v, w, x)
    OBVIOUS
  <2> DEFINE j == WordIndex(w)
             word == m[j]
             new == CASE v = 0 -> Model!Splice(word, w % 4, ByteMod, x)
                      [] v = 1 -> Model!Splice(word, Model!HalfOffset(w), ByteMod * ByteMod, x)
                      [] OTHER -> x
  <2>1. Machine(m, r, p)!Store(v, w, x) = [m EXCEPT ![j] = new]
    <3>1. /\ Machine(m, r, p)!WordIndex(w) = j
          /\ Machine(m, r, p)!HalfOffset(w) = Model!HalfOffset(w)
          /\ \A k, size : Machine(m, r, p)!Splice(word, k, size, x)
                 = Model!Splice(word, k, size, x)
      BY MachineShared, ModelHelpers
    <3> HIDE DEF j, word
    <3> QED BY <3>1, ZenonT(60) DEF Machine!Store, j, word
  <2>2. Model!Store(v, w, x) = [m EXCEPT ![j] = new]
    <3>1. Model!WordIndex(w) = j
      BY ModelShared
    <3> HIDE DEF j, word
    <3> QED BY <3>1 DEF Model!Store, j, word
  <2> QED BY <2>1, <2>2
<1>10. Machine(m, r, p)!rd_value = Model!rd_value
  BY <1>2, <1>3, <1>4, <1>8, MachineShared, ModelShared, ModelHelpers
         DEF Machine!rd_value, Model!rd_value
<1>11. Machine(m, r, p)!Commit = Model!Commit
  BY <1>1, <1>2, <1>3, <1>4, <1>5, <1>6, <1>10 DEF Machine!Commit, Model!Commit
<1> QED BY <1>2, <1>3, <1>4, <1>5, <1>6, <1>7, <1>9, <1>10, <1>11

\* The step of the core's golden model, and of the scoreboard's, in these terms.
LEMMA CoreAfter ==
    /\ CauseOf(CoreState) = Golden!Cause /\ CommitOf(CoreState) = Golden!Commit
    /\ Golden!Retire => CoreState' = After(CoreState)
<1> DEFINE s == CoreState
<1>1. s.mem = WordsOf(mem) /\ s.regs = regs /\ s.pc = pc
  BY DEF CoreState
<1> HIDE DEF s
<1>2. CauseOf(s) = Golden!Cause /\ CommitOf(s) = Golden!Commit
  BY <1>1, CoreReads DEF CauseOf, CommitOf
<1>3. ASSUME Golden!Retire PROVE CoreState' = After(s)
  <2>1. /\ WordsOf(mem') = IF Golden!opcode = "STORE"
                           THEN Golden!Store(Golden!funct3, Golden!mem_addr, Golden!b)
                           ELSE s.mem
        /\ regs' = IF Golden!has_rd_value /\ Golden!fields.rd # 0
                   THEN [s.regs EXCEPT ![Golden!fields.rd] = Golden!rd_value] ELSE s.regs
        /\ pc' = Golden!next_pc
    BY <1>1, <1>3 DEF Golden!Retire, WordsOf
  <2>2. CoreState' = [mem |-> WordsOf(mem'), regs |-> regs', pc |-> pc']
    BY DEF CoreState, WordsOf
  <2> QED BY <1>1, <2>1, <2>2, CoreReads DEF After
<1> QED BY <1>2, <1>3 DEF s

LEMMA ModelAfter ==
    /\ CauseOf(ModelState) = Model!Cause /\ CommitOf(ModelState) = Model!Commit
    /\ Model!Retire => ModelState' = After(ModelState)
<1> DEFINE s == ModelState
<1>1. s.mem = m_mem /\ s.regs = m_regs /\ s.pc = m_pc
  BY DEF ModelState
<1> HIDE DEF s
<1>2. CauseOf(s) = Model!Cause /\ CommitOf(s) = Model!Commit
  BY <1>1, ModelReads DEF CauseOf, CommitOf
<1>3. ASSUME Model!Retire PROVE ModelState' = After(s)
  <2>1. /\ m_mem' = IF Model!opcode = "STORE"
                    THEN Model!Store(Model!funct3, Model!mem_addr, Model!b) ELSE s.mem
        /\ m_regs' = IF Model!has_rd_value /\ Model!fields.rd # 0
                     THEN [s.regs EXCEPT ![Model!fields.rd] = Model!rd_value] ELSE s.regs
        /\ m_pc' = Model!next_pc
    BY <1>1, <1>3 DEF Model!Retire
  <2>2. ModelState' = [mem |-> m_mem', regs |-> m_regs', pc |-> m_pc']
    BY DEF ModelState
  <2> QED BY <1>1, <2>1, <2>2, ModelReads DEF After
<1> QED BY <1>2, <1>3 DEF s

\* A store does not read memory but for its own word.
LEMMA StoreReads ==
    ASSUME NEW s, NEW t, s.pc = t.pc, s.regs = t.regs,
           s.mem[WordIndex(s.pc)] = t.mem[WordIndex(s.pc)],
           Fields(s.mem[WordIndex(s.pc)]).opcode = "STORE"
    PROVE  /\ CauseOf(s) = CauseOf(t) /\ CommitOf(s) = CommitOf(t)
           /\ After(s).regs = After(t).regs /\ After(s).pc = After(t).pc
<1> DEFINE m == s.mem
           n == t.mem
           r == s.regs
           p == s.pc
<1>1. /\ t.regs = r /\ t.pc = p /\ m[WordIndex(p)] = n[WordIndex(p)]
      /\ Fields(m[WordIndex(p)]).opcode = "STORE"
  OBVIOUS
<1> HIDE DEF m, n, r, p
<1>2. /\ Machine(m, r, p)!inst = Machine(n, r, p)!inst
      /\ Fields(Machine(m, r, p)!inst).opcode = "STORE"
  BY <1>1, MachineShared DEF Machine!inst
<1>3. /\ Machine(m, r, p)!fields = Machine(n, r, p)!fields
      /\ Machine(m, r, p)!opcode = "STORE" /\ Machine(n, r, p)!opcode = "STORE"
      /\ Machine(m, r, p)!funct3 = Machine(n, r, p)!funct3
      /\ Machine(m, r, p)!a = Machine(n, r, p)!a /\ Machine(m, r, p)!b = Machine(n, r, p)!b
  BY <1>2 DEF Machine!fields, Machine!opcode, Machine!funct3, Machine!a, Machine!b
<1>4. Machine(m, r, p)!mem_addr = Machine(n, r, p)!mem_addr
  BY <1>3, MachineShared DEF Machine!mem_addr
<1>5. Machine(m, r, p)!next_pc = Machine(n, r, p)!next_pc
  <2>1. Machine(m, r, p)!next_pc = Machine(m, r, p)!Truncate(p + 4)
    BY <1>3 DEF Machine!next_pc
  <2>2. Machine(n, r, p)!next_pc = Machine(n, r, p)!Truncate(p + 4)
    BY <1>3 DEF Machine!next_pc
  <2> QED BY <2>1, <2>2, MachineShared
<1>6. ~Machine(m, r, p)!has_rd_value /\ ~Machine(n, r, p)!has_rd_value
  BY <1>3 DEF Machine!has_rd_value
<1>7. Machine(m, r, p)!Cause = Machine(n, r, p)!Cause
  <2>1. /\ \A g : Machine(m, r, p)!Illegal(g) <=> Machine(n, r, p)!Illegal(g)
        /\ \A v, w : Machine(m, r, p)!Misaligned(v, w) <=> Machine(n, r, p)!Misaligned(v, w)
    BY GoldenHelpers
  <2> QED BY <1>3, <1>4, <1>5, <2>1, MachineShared DEF Machine!Cause
<1>8. Machine(m, r, p)!Commit = Machine(n, r, p)!Commit
  BY <1>2, <1>3, <1>4, <1>5, <1>6 DEF Machine!Commit
<1>9. /\ After(s).regs = r /\ After(s).pc = Machine(m, r, p)!next_pc
      /\ After(t).regs = r /\ After(t).pc = Machine(n, r, p)!next_pc
  BY <1>1, <1>6 DEF After, m, n, r, p
<1> QED BY <1>1, <1>5, <1>7, <1>8, <1>9 DEF CauseOf, CommitOf, m, n, r, p

-----------------------------------------------------------------------------
(* load_and_reset: what the core holds when it comes out of reset.  In reset *)
(* the first word of the program is fetched twice, and memory is not reset.  *)

Loaded == [i \in Index |-> ToLanes(Padded[i])]

\* Loaded, with the first word executed if it is a store: all registers are 0.
Target == Truncate(Fields(Padded[0]).imm["S"])
Writes == mem_write(Fields(Padded[0])) /\ ~unaligned(Target, Fields(Padded[0]).funct3)
Stored ==
    IF Writes THEN [Loaded EXCEPT ![WordIndex(Target)] =
                                     merged(@, Target, Fields(Padded[0]).funct3, 0)]
    ELSE Loaded

Fresh == pc = 0 /\ regs = [r \in Reg |-> 0] /\ halted = FALSE
First == [mem |-> Padded, regs |-> [r \in Reg |-> 0], pc |-> 0]

\* The core before its first edge out of reset, when that first store is done.
Early == Fresh /\ mem = Stored /\ CauseOf(First) = HALT_NONE

LEMMA ZeroPlus == \A v \in Word : 0 + v = v
<1> SUFFICES ASSUME NEW v \in Word PROVE 0 + v = v
  OBVIOUS
<1>1. v \in Nat
  BY WordNat
<1> QED BY <1>1

LEMMA PaddedType ==
    ASSUME tb.words \in Loadable
    PROVE  /\ Padded \in [Index -> Word] /\ Loaded \in [Index -> MemWord]
           /\ 0 \in Index /\ Padded[0] = tb.words[1] /\ Padded[0] \in Word
           /\ Fields(Padded[0]) \in Instruction
           /\ WordsOf(Loaded) = Padded
<1>1. tb.words \in Seq(Word) /\ Len(tb.words) \in 1 .. WORDS
  BY DEF Loadable
<1>2. 0 \in Index /\ \A i \in Index : i \in Nat
  BY SizeAssumption DEF Index
<1>3. Padded \in [Index -> Word]
  <2> SUFFICES ASSUME NEW i \in Index, i < Len(tb.words) PROVE tb.words[i + 1] \in Word
    BY WordNat DEF Padded
  <2> QED BY <1>1, <1>2
<1>4. Padded[0] = tb.words[1] /\ Padded[0] \in Word
  BY <1>1, <1>2, <1>3 DEF Padded
<1>5. Loaded \in [Index -> MemWord]
  BY <1>3, LanesType DEF Loaded
<1>6. WordsOf(Loaded) = Padded
  BY <1>3, JoinOfLanes DEF WordsOf, Loaded
<1> QED BY <1>2, <1>3, <1>4, <1>5, <1>6, FieldsAssumption

LEMMA TargetType ==
    ASSUME tb.words \in Loadable
    PROVE  /\ Target \in Word /\ WordIndex(Target) \in Index
           /\ Target = Fields(Padded[0]).imm["S"]
           /\ StoresOverItself(tb.words) <=> Writes /\ Stored[0] # Loaded[0]
           /\ Writes /\ Stored[0] # Loaded[0] => WordIndex(Target) = 0
<1> DEFINE v == Fields(Padded[0]).imm["S"]
<1>1. v \in Word /\ Padded[0] = tb.words[1]
  BY PaddedType DEF Instruction, ImmFormat
<1> HIDE DEF v
<1>2. Truncate(v) = v
  BY <1>1, ModulusNat DEF Truncate, Word
<1>3. Target = v /\ Target \in Word /\ WordIndex(Target) \in Index
  BY <1>1, <1>2, WordNat, IndexType DEF v, Target
<1>4. Loaded[0] = ToLanes(Padded[0]) /\ 0 \in Index
  BY PaddedType DEF Loaded
<1>5. ASSUME Writes
      PROVE  Stored[0] = IF WordIndex(Target) = 0
                         THEN merged(Loaded[0], Target, Fields(Padded[0]).funct3, 0)
                         ELSE Loaded[0]
  BY <1>3, <1>4, <1>5, PaddedType DEF Stored
<1>6. StoresOverItself(tb.words) <=>
        Writes /\ WordIndex(Target) = 0
          /\ merged(Loaded[0], Target, Fields(Padded[0]).funct3, 0) # Loaded[0]
  BY <1>1, <1>3, <1>4 DEF v, Writes, StoresOverItself
<1> QED BY <1>3, <1>5, <1>6 DEF v

\* Storing the same again changes nothing.
LEMMA StoredTwice ==
    ASSUME tb.words \in Loadable
    PROVE  /\ Stored \in [Index -> MemWord]
           /\ Writes => /\ Stored = [Stored EXCEPT ![WordIndex(Target)] =
                                       merged(@, Target, Fields(Padded[0]).funct3, 0)]
<1> DEFINE j == WordIndex(Target)
           o == Fields(Padded[0]).funct3
<1>1. Loaded \in [Index -> MemWord] /\ j \in Index
  BY PaddedType, TargetType
<1>2. \A w \in MemWord : merged(w, Target, o, 0) \in MemWord
  BY MergedType, WordNat
<1>3. \A w \in MemWord : merged(merged(w, Target, o, 0), Target, o, 0) = merged(w, Target, o, 0)
  BY DEF merged
<1> HIDE DEF j, o
<1>4. Stored \in [Index -> MemWord]
  BY <1>1, <1>2 DEF Stored, j, o
<1>5. ASSUME Writes PROVE Stored[j] = merged(Loaded[j], Target, o, 0)
  BY <1>1, <1>5 DEF Stored, j, o
<1>6. ASSUME Writes PROVE merged(Stored[j], Target, o, 0) = Stored[j]
  BY <1>1, <1>3, <1>5, <1>6
<1>7. ASSUME NEW array \in [Index -> MemWord], NEW x, x = array[j]
      PROVE  array = [array EXCEPT ![j] = x]
  BY <1>1, <1>7
<1> QED BY <1>4, <1>6, <1>7 DEF j, o

\* What the core reads at its first instruction.
LEMMA FirstReads ==
    ASSUME tb.words \in Loadable, Fresh, mem[0] = Loaded[0]
    PROVE  /\ inst = Padded[0] /\ f = Fields(Padded[0])
           /\ rs1_data = 0 /\ rs2_data = 0
           /\ f.opcode = "STORE" => d_addr = Target
<1>2. WordIndex(0) = 0
  BY SizeAssumption DEF WordIndex
<1>3. inst = Padded[0]
  BY <1>2, PaddedType, JoinOfLanes DEF inst, i_rdata, Fresh, Loaded
<1>4. f = Fields(Padded[0]) /\ f \in Instruction
  BY <1>3, PaddedType DEF f
<1>5. rs1_data = 0 /\ rs2_data = 0
  BY <1>4 DEF rs1_data, rs2_data, Fresh, Instruction
<1>6. ASSUME f.opcode = "STORE" PROVE d_addr = Target
  <2>1. alu_a = rs1_data /\ alu_b = f.imm["S"] /\ alu_op(f) = ALU_ADD
    BY <1>6 DEF alu_a, alu_b, alu_a_sel, alu_b_sel, imm, imm_sel, alu_op
  <2>2. alu(0, f.imm["S"], ALU_ADD) = Truncate(0 + f.imm["S"])
    BY DEF alu, ALU_ADD, ALU_SUB, ALU_SLL, ALU_SLT, ALU_SLTU, ALU_XOR, ALU_SRL,
           ALU_SRA, ALU_OR, ALU_AND
  <2>3. f.imm["S"] \in Word
    BY <1>4 DEF Instruction, ImmFormat
  <2>4. 0 + f.imm["S"] = f.imm["S"]
    BY <2>3, ZeroPlus
  <2> QED BY <1>4, <1>5, <2>1, <2>2, <2>4 DEF d_addr, alu_y, Target
<1> QED BY <1>3, <1>4, <1>5, <1>6

\* Memory before the second instruction, unless the first destroyed itself.
LEMMA FirstIntact ==
    ASSUME tb.words \in Loadable, ~StoresOverItself(tb.words), mem \in {Loaded, Stored}
    PROVE  mem[0] = Loaded[0]
BY TargetType DEF Stored

\* Each edge before the second instruction leaves the first store done, once.
LEMMA FirstEdge ==
    ASSUME tb.words \in Loadable, Fresh, mem \in {Loaded, Stored}, mem[0] = Loaded[0],
           step_en, Clock
    PROVE  mem' = Stored
<1>1. MemoryEdge(d_addr, d_op, d_read, d_write, d_wdata)
  BY DEF Clock
<1>2. /\ f = Fields(Padded[0]) /\ d_wdata = 0 /\ d_op = f.funct3
      /\ (f.opcode = "STORE" => d_addr = Target)
  BY FirstReads DEF d_wdata, d_op, mem_op
<1>3. d_write <=> mem_write(f)
  BY DEF d_write, Fresh
<1>4. mem_write(f) => f.opcode = "STORE"
  BY DEF mem_write
<1>5. d_write /\ ~d_misaligned(d_addr, d_op, d_read, d_write) <=> Writes
  BY <1>2, <1>3, <1>4 DEF Writes, d_misaligned
<1>6. CASE Writes
  <2>1. mem' = [mem EXCEPT ![WordIndex(Target)] =
                             merged(@, Target, Fields(Padded[0]).funct3, 0)]
    BY <1>1, <1>2, <1>3, <1>4, <1>5, <1>6 DEF MemoryEdge
  <2>2. CASE mem = Loaded
    BY <1>6, <2>1, <2>2 DEF Stored
  <2>3. CASE mem = Stored
    BY <1>6, <2>1, <2>3, StoredTwice
  <2> QED BY <2>2, <2>3
<1>7. CASE ~Writes
  BY <1>1, <1>5, <1>7 DEF MemoryEdge, Stored
<1> QED BY <1>6, <1>7

\* The words after that store are those the golden model's step leaves.
LEMMA StoredWords ==
    ASSUME tb.words \in Loadable, Writes
    PROVE  WordsOf(Stored) = After(First).mem
<1> DEFINE g == Fields(Padded[0])
           o == g.funct3
           j == WordIndex(Target)
           zeros == [r \in Reg |-> 0]
           word == merged(Loaded[j], Target, o, 0)
           new == [Padded EXCEPT ![j] = FromLanes[word]]
<1>1. /\ Padded \in [Index -> Word] /\ Loaded \in [Index -> MemWord] /\ j \in Index
      /\ Loaded[j] \in MemWord /\ FromLanes[Loaded[j]] = Padded[j] /\ Target \in Nat
      /\ g \in Instruction /\ g.opcode = "STORE" /\ g.rs1 \in Reg /\ g.rs2 \in Reg
      /\ 0 \in Word
  <2>1. WordsOf(Loaded)[j] = FromLanes[Loaded[j]]
    BY TargetType DEF WordsOf
  <2> QED BY <2>1, PaddedType, TargetType, WordNat DEF Writes, mem_write, Instruction
<1>2. WordsOf(Stored) = new
  <2>1. Stored = [Loaded EXCEPT ![j] = word]
    BY DEF Stored
  <2>2. \A i \in Index : Stored[i] = IF i = j THEN word ELSE Loaded[i]
    BY <1>1, <2>1
  <2>3. \A i \in Index : FromLanes[Loaded[i]] = Padded[i]
    BY PaddedType DEF WordsOf
  <2> HIDE DEF word, j
  <2> QED BY <1>1, <2>2, <2>3 DEF WordsOf
<1>3. /\ Machine(Padded, zeros, 0)!fields = g /\ Machine(Padded, zeros, 0)!opcode = "STORE"
      /\ Machine(Padded, zeros, 0)!funct3 = o /\ Machine(Padded, zeros, 0)!a = 0
      /\ Machine(Padded, zeros, 0)!b = 0
  <2>1. WordIndex(0) = 0
    BY SizeAssumption DEF WordIndex
  <2>2. Machine(Padded, zeros, 0)!fields = g
    BY <2>1, MachineShared DEF Machine!inst, Machine!fields
  <2> QED BY <1>1, <2>2 DEF Machine!opcode, Machine!funct3, Machine!a, Machine!b
<1>4. Machine(Padded, zeros, 0)!mem_addr = Target
  <2>1. 0 + g.imm["S"] = g.imm["S"]
    <3>1. g.imm["S"] \in Word
      BY <1>1 DEF Instruction, ImmFormat
    <3> QED BY <3>1, ZeroPlus
  <2> QED BY <1>3, <2>1, MachineShared DEF Machine!mem_addr, Target
<1>5. Machine(Padded, zeros, 0)!Store(o, Target, 0) = new
  <2>1. FromLanes[word] =
          CASE o = 0 -> Golden!Splice(Padded[j], Target % 4, ByteMod, 0)
            [] o = 1 -> Golden!Splice(Padded[j], half(Target), ByteMod * ByteMod, 0)
            [] OTHER -> 0
    BY <1>1, SameMerge, SameReference
  <2>2. /\ Machine(Padded, zeros, 0)!WordIndex(Target) = j
        /\ Machine(Padded, zeros, 0)!HalfOffset(Target) = half(Target)
        /\ \A v, k, size : Machine(Padded, zeros, 0)!Splice(v, k, size, 0)
                             = Golden!Splice(v, k, size, 0)
    BY <1>1, MachineShared, GoldenHelpers, SameHalf, SameReference
  <2> HIDE DEF word, j, o, zeros
  <2> QED BY <2>1, <2>2 DEF Machine!Store
<1>6. First.mem = Padded /\ First.regs = zeros /\ First.pc = 0
  BY DEF First
<1> QED BY <1>2, <1>3, <1>4, <1>5, <1>6 DEF After

\* It is a store that retires, so a program whose first word traps is untouched.
LEMMA WritesRetire ==
    ASSUME tb.words \in Loadable, Writes PROVE CauseOf(First) = HALT_NONE
<1> DEFINE g == Fields(Padded[0])
           zeros == [r \in Reg |-> 0]
<1>1. /\ g \in Instruction /\ g.opcode = "STORE" /\ ~illegal(g) /\ g.rs1 \in Reg
      /\ ~unaligned(Target, g.funct3) /\ g.funct3 \in 0 .. 7
  BY PaddedType DEF Writes, mem_write, Instruction
<1>2. Machine(Padded, zeros, 0)!fields = g
  <2>1. WordIndex(0) = 0
    BY SizeAssumption DEF WordIndex
  <2> QED BY <2>1, MachineShared DEF Machine!inst, Machine!fields
<1>3. /\ Machine(Padded, zeros, 0)!opcode = "STORE"
      /\ Machine(Padded, zeros, 0)!funct3 = g.funct3
      /\ Machine(Padded, zeros, 0)!a = 0
  BY <1>1, <1>2 DEF Machine!opcode, Machine!funct3, Machine!a
<1>4. Machine(Padded, zeros, 0)!mem_addr = Target
  <2>1. 0 + g.imm["S"] = g.imm["S"]
    <3>1. g.imm["S"] \in Word
      BY <1>1 DEF Instruction, ImmFormat
    <3> QED BY <3>1, ZeroPlus
  <2> QED BY <1>2, <1>3, <2>1, MachineShared DEF Machine!mem_addr, Target
<1>5. Machine(Padded, zeros, 0)!next_pc % 4 = 0
  <2>1. Machine(Padded, zeros, 0)!next_pc = Machine(Padded, zeros, 0)!Truncate(0 + 4)
    BY <1>3 DEF Machine!next_pc
  <2>2. Truncate(4) % 4 = 0
    BY TruncateAligned
  <2>3. 0 + 4 = 4
    OBVIOUS
  <2> QED BY <2>1, <2>2, <2>3, MachineShared
<1>6. ~Machine(Padded, zeros, 0)!Illegal(g)
  BY <1>1, SameIllegal, SameReference, GoldenHelpers
<1>7. ~Machine(Padded, zeros, 0)!Misaligned(g.funct3, Target)
  <2>1. ~Golden!Misaligned(g.funct3, Target)
    <3>1. Target % 2 = 1 => Target % 2 # 0
      OBVIOUS
    <3> QED BY <1>1, <3>1 DEF Golden!Misaligned, unaligned
  <2> QED BY <2>1, GoldenHelpers
<1>8. Machine(Padded, zeros, 0)!Cause = HALT_NONE
  BY <1>2, <1>3, <1>4, <1>5, <1>6, <1>7, MachineShared DEF Machine!Cause
<1>9. First.mem = Padded /\ First.regs = zeros /\ First.pc = 0
  BY DEF First
<1> QED BY <1>8, <1>9 DEF CauseOf

-----------------------------------------------------------------------------
(* One edge of the core *)

\* The core is free to run.
Free == TypeOK /\ WellFormed /\ ~rst /\ step_en /\ ~halted

\* The golden model's verdict on the core's instruction is the core's.
LEMMA SameVerdict ==
    ASSUME Free PROVE commit_valid <=> CauseOf(CoreState) = HALT_NONE
<1>1. trap_cause = CauseOf(CoreState)
  BY SameCause, CoreAfter DEF Free
<1> QED BY <1>1 DEF Free, commit_valid, trap

LEMMA CommitAccepted ==
    ASSUME Free, CauseOf(CoreState) = HALT_NONE
    PROVE  compare_commit(commit, CommitOf(CoreState))
<1> DEFINE got == commit
           exp == Golden!Commit
<1>1. exp = IF exp.mem_write THEN got
            ELSE [got EXCEPT !.mem_addr = exp.mem_addr, !.mem_wdata = exp.mem_wdata]
  BY SameVerdict, SameCommit DEF Free
<1>2. \A x \in {"pc", "inst", "next_pc", "rd", "rd_wdata", "mem_write"} :
         \A v, w : [got EXCEPT !.mem_addr = v, !.mem_wdata = w][x] = got[x]
  BY DEF commit
<1> HIDE DEF got, exp
<1>3. \A x \in {"pc", "inst", "next_pc", "rd", "rd_wdata", "mem_write"} : got[x] = exp[x]
  <2>1. CASE exp.mem_write
    BY <1>1, <2>1
  <2>2. CASE ~exp.mem_write
    <3> DEFINE v == exp.mem_addr
               w == exp.mem_wdata
    <3>1. exp = [got EXCEPT !.mem_addr = v, !.mem_wdata = w]
      BY <1>1, <2>2
    <3> HIDE DEF v, w
    <3> SUFFICES ASSUME NEW x \in {"pc", "inst", "next_pc", "rd", "rd_wdata", "mem_write"}
                 PROVE  got[x] = exp[x]
      OBVIOUS
    <3>2. [got EXCEPT !.mem_addr = v, !.mem_wdata = w][x] = got[x]
      BY <1>2, ZenonT(40)
    <3> QED BY <3>1, <3>2
  <2> QED BY <2>1, <2>2
<1>4. exp.mem_write => got.mem_addr = exp.mem_addr /\ got.mem_wdata = exp.mem_wdata
  BY <1>1
<1> QED BY <1>3, <1>4, CoreAfter DEF compare_commit, got, exp

LEMMA RetireEdge ==
    ASSUME Free, CauseOf(CoreState) = HALT_NONE, Clock
    PROVE  CoreState' = After(CoreState) /\ halted' = FALSE
<1>1. commit_valid
  BY SameVerdict
<1>2. Golden!Retire
  BY <1>1, RetireStep DEF Free
<1>3. halted' = halted
  BY <1>2 DEF Golden!Retire
<1> QED BY <1>2, <1>3, CoreAfter DEF Free, TypeOK

\* A fault stops the core where it is.
LEMMA TrapEdge ==
    ASSUME Free, CauseOf(CoreState) # HALT_NONE, Clock
    PROVE  CoreState' = CoreState /\ halted' = TRUE /\ halt_cause' = CauseOf(CoreState)
<1>1. ~commit_valid /\ trap
  BY SameVerdict DEF Free, commit_valid
<1>2. Golden!Trap
  BY <1>1, TrapStep DEF Free
<1>3. /\ WordsOf(mem') = WordsOf(mem) /\ regs' = regs /\ pc' = pc
      /\ halted' = TRUE /\ halt_cause' = Golden!Cause
  BY <1>2 DEF Golden!Trap, WordsOf
<1>4. CoreState' = [mem |-> WordsOf(mem'), regs |-> regs', pc |-> pc']
  BY DEF CoreState, WordsOf
<1> QED BY <1>3, <1>4, CoreAfter DEF CoreState

\* A first store that is done already retires once more, with the same commit.
LEMMA EarlyReads ==
    ASSUME tb.words \in Loadable, ~StoresOverItself(tb.words), Early
    PROVE  /\ CauseOf(CoreState) = CauseOf(First) /\ CommitOf(CoreState) = CommitOf(First)
           /\ Writes => /\ After(CoreState).regs = After(First).regs
                        /\ After(CoreState).pc = After(First).pc
           /\ ~Writes => CoreState = First
<1>1. CoreState.pc = 0 /\ First.pc = 0 /\ CoreState.regs = First.regs
      /\ CoreState.mem = WordsOf(Stored) /\ First.mem = Padded
  BY DEF CoreState, First, Early, Fresh
<1>2. CASE Writes
  <2>1. WordIndex(0) = 0 /\ 0 \in Index
    BY SizeAssumption DEF WordIndex, Index
  <2>2. CoreState.mem[0] = Padded[0]
    <3>1. Stored[0] = Loaded[0]
      BY <1>2, TargetType
    <3>2. WordsOf(Stored)[0] = FromLanes[Stored[0]] /\ WordsOf(Loaded)[0] = FromLanes[Loaded[0]]
      BY <2>1 DEF WordsOf
    <3> QED BY <1>1, <3>1, <3>2, PaddedType
  <2>3. Fields(CoreState.mem[0]).opcode = "STORE"
    BY <1>2, <2>2 DEF Writes, mem_write
  <2> QED BY <1>1, <1>2, <2>1, <2>2, <2>3, StoreReads
<1>3. CASE ~Writes
  <2>1. WordsOf(Stored) = Padded
    BY <1>3, PaddedType DEF Stored
  <2>2. CoreState = First
    BY <2>1 DEF CoreState, First, Early, Fresh
  <2> QED BY <1>3, <2>2
<1> QED BY <1>2, <1>3

LEMMA EarlyEdge ==
    ASSUME tb.words \in Loadable, ~StoresOverItself(tb.words), Early, Free, Clock
    PROVE  CoreState' = After(First) /\ halted' = FALSE
<1>1. CauseOf(CoreState) = HALT_NONE
  BY EarlyReads DEF Early
<1>2. CoreState' = After(CoreState) /\ halted' = FALSE
  BY <1>1, RetireEdge
<1>3. CASE ~Writes
  BY <1>2, <1>3, EarlyReads
<1>4. CASE Writes
  <2>1. mem' = Stored
    BY FirstIntact, FirstEdge DEF Early, Free
  <2>2. CoreState'.mem = After(First).mem
    BY <1>4, <2>1, StoredWords DEF CoreState, WordsOf
  <2>3. CoreState'.regs = After(First).regs /\ CoreState'.pc = After(First).pc
    BY <1>2, <1>4, EarlyReads
  <2>4. \A x : x = After(First) <=> x = [mem |-> After(First).mem, regs |-> After(First).regs,
                                         pc |-> After(First).pc]
    BY DEF After
  <2>5. CoreState' = [mem |-> CoreState'.mem, regs |-> CoreState'.regs, pc |-> CoreState'.pc]
    BY DEF CoreState
  <2> QED BY <1>2, <2>2, <2>3, <2>4, <2>5
<1> QED BY <1>3, <1>4

\* An ADDI, three of which the freeze test begins with.
LEMMA AddiEdge ==
    ASSUME Free, f.opcode = "IMM", f.funct3 = 0
    PROVE  /\ commit_valid
           /\ Clock => pc' = Truncate(pc + 4) /\ mem' = mem /\ halted' = FALSE
<1>1. ~illegal(f) /\ ~ecall(f) /\ ~ebreak(f) /\ ~jump(f) /\ ~jalr(f) /\ ~branch(f)
      /\ ~mem_read(f) /\ ~mem_write(f)
  BY DEF Free, illegal, ecall, ebreak, jump, jalr, branch, mem_read, mem_write
<1>2. pc_next = Truncate(pc + 4)
  BY <1>1 DEF pc_next, pc_plus4
<1>3. pc_next % 4 = 0
  <2>1. pc \in Nat /\ pc % 4 = 0
    BY WordNat DEF Free, TypeOK, WellFormed
  <2>2. pc + 4 \in Nat /\ (pc + 4) % 4 = 0
    BY <2>1
  <2> QED BY <1>2, <2>2, TruncateAligned
<1>4. trap_cause = HALT_NONE
  BY <1>1, <1>3 DEF trap_cause, misaligned_target
<1>5. commit_valid /\ ~stall /\ ~trap
  BY <1>4 DEF Free, commit_valid, trap, stall
<1> QED BY <1>1, <1>2, <1>5
        DEF Free, Clock, PcEdge, MemoryEdge, HaltEdge, d_write, TypeOK

-----------------------------------------------------------------------------
(* In step: the states st that the model went through                        *)

\* The model's commits so far, each in the state the one before it left.
Chain(st) ==
    /\ st[1] = First
    /\ \A k \in 1 .. Len(tb.expected) :
          /\ CauseOf(st[k]) = HALT_NONE
          /\ tb.expected[k] = CommitOf(st[k])
          /\ st[k + 1] = After(st[k])

\* Where the model is, and what stopped it if it was a trap.
Ended(st) ==
    /\ st[Len(tb.expected) + 1] = ModelState
    /\ m_halted => m_halt_cause = CauseOf(ModelState) /\ m_halt_cause # HALT_NONE

\* The state the core is in during the comparison.
Place == IF tb.edges = 1 THEN tb.retired ELSE tb.retired + 1
CoreIn(st) == CoreState = st[Place] \/ (Place = 1 /\ Early)

InDeposit == rst /\ step_en /\ (tb.edges = 0 => Fresh)
InReset   == rst /\ step_en /\ Fresh /\ mem \in {Loaded, Stored}
InModel ==
    /\ ~rst /\ step_en /\ Fresh /\ mem \in {Loaded, Stored}
    /\ tb.count \in Nat /\ (tb.count > 0 => Len(tb.expected) > 0 \/ m_halted)
    /\ \E S : tb.expected \in Seq(S)
    /\ \E st : Chain(st) /\ Ended(st)
InCompare ==
    /\ ~rst /\ step_en /\ ~halted
    /\ Len(tb.expected) > 0 \/ m_halted
    /\ tb.budget = Len(tb.expected) * 4 + SLACK - tb.retired
    /\ tb.edges = 1 => tb.retired > 0
    /\ \E st : Chain(st) /\ Ended(st) /\ CoreIn(st)
InHalted ==
    /\ ~rst /\ step_en /\ CoreState = ModelState
    /\ m_halt_cause = CauseOf(ModelState) /\ m_halt_cause # HALT_NONE
    /\ IF tb.edges = 0 THEN halted /\ halt_cause = m_halt_cause ELSE ~halted
InHeld  == ~rst /\ halted /\ CoreState = ModelState
InState == CoreState = ModelState

\* The freeze test: two ADDIs, step_en low, step_en high, a third.
InFreeze ==
    /\ ~rst /\ ~halted /\ mem = Loaded
    /\ step_en <=> tb.phase \notin {"disabled", "frozen"}
    /\ tb.phase \in {"warm", "disabled", "enabled"} => tb.edges = 0
    /\ tb.phase = "warm" => pc = 0
    /\ tb.phase = "disable" => tb.edges <= 2 /\ pc = 8 - 4 * tb.edges
    /\ tb.phase \in {"disabled", "frozen", "enabled"} => pc = 8
    /\ tb.phase = "resumed" => tb.edges <= 1 /\ pc = 12 - 4 * tb.edges
    /\ tb.phase \in Freezing \ {"warm", "disable"} => tb.pc_before = 8
    /\ tb.phase \in {"disabled", "frozen"} => tb.reg_before = regs[t0]

Lock ==
    /\ tb.phase = "deposit" => InDeposit
    /\ tb.phase = "reset"   => InReset
    /\ tb.phase = "model"   => InModel
    /\ tb.phase = "compare" => InCompare
    /\ tb.phase = "halted"  => InHalted
    /\ tb.phase = "held"    => InHeld
    /\ tb.phase = "state"   => InState
    /\ tb.phase \in Freezing => InFreeze

\* The core is one, and in step with every program that is no exception.
Lockstep ==
    bug = "none" =>
        /\ TypeOK /\ WellFormed
        /\ tb.phase \notin Between /\ ~StoresOverItself(tb.words) => Lock

\* What only depends on the program and the model.
LEMMA ProgramKept ==
    ASSUME tb'.words = tb.words
    PROVE  /\ Padded' = Padded /\ Loaded' = Loaded /\ Stored' = Stored /\ First' = First
           /\ StoresOverItself(tb.words)' <=> StoresOverItself(tb.words)
BY DEF Padded, Loaded, Stored, Writes, Target, First, StoresOverItself

LEMMA ChainKept ==
    ASSUME tb'.words = tb.words, tb'.expected = tb.expected, UNCHANGED model
    PROVE  /\ ModelState' = ModelState
           /\ \A st : (Chain(st)' <=> Chain(st)) /\ (Ended(st)' <=> Ended(st))
           /\ m_halted' = m_halted /\ m_halt_cause' = m_halt_cause
<1>1. ModelState' = ModelState /\ m_halted' = m_halted /\ m_halt_cause' = m_halt_cause
  BY DEF model, ModelState
<1> QED BY <1>1, ProgramKept DEF Chain, Ended

LEMMA CoreKept ==
    ASSUME UNCHANGED arch, tb'.words = tb.words
    PROVE  /\ CoreState' = CoreState /\ (Fresh' <=> Fresh) /\ (Early' <=> Early)
           /\ mem' = mem /\ pc' = pc /\ regs' = regs /\ halted' = halted
           /\ halt_cause' = halt_cause
<1>1. mem' = mem /\ pc' = pc /\ regs' = regs /\ halted' = halted /\ halt_cause' = halt_cause
  BY DEF arch
<1>2. (Fresh' <=> Fresh) /\ CoreState' = CoreState
  BY <1>1 DEF Fresh, CoreState, WordsOf
<1> QED BY <1>1, <1>2, ProgramKept DEF Early

-----------------------------------------------------------------------------
(* A rising edge *)

LEMMA ModulusBig == Modulus >= 16
<1> DEFINE S == ByteMod * ByteMod
<1>1. ByteMod \in Nat /\ ByteMod >= 2
  BY WidthAssumption
<1>2. S \in Nat /\ S >= 4
  <2>1. ByteMod * ByteMod >= 2 * ByteMod
    BY <1>1
  <2> QED BY <1>1, <2>1
<1>3. Modulus = S * S
  BY <1>1 DEF Modulus
<1> HIDE DEF S
<1>4. S * S >= 4 * S
  BY <1>2
<1> QED BY <1>2, <1>3, <1>4

\* The first three words of the freeze test are ADDIs.
LEMMA FreezeReads ==
    ASSUME tb.words = FREEZE, mem = Loaded, pc \in {0, 4, 8}
    PROVE  f.opcode = "IMM" /\ f.funct3 = 0 /\ Truncate(pc + 4) = pc + 4
<1>1. PICK k \in 0 .. 2 : pc = 4 * k
  <2>1. 0 \in 0 .. 2 /\ 1 \in 0 .. 2 /\ 2 \in 0 .. 2 /\ 4 * 0 = 0 /\ 4 * 1 = 4 /\ 4 * 2 = 8
    OBVIOUS
  <2> QED BY <2>1
<1>2. Len(FREEZE) \in 3 .. WORDS /\ WORDS \in Nat
  BY FreezeAssumption, SizeAssumption
<1>3. WordIndex(pc) = k /\ k \in Index
  <2>1. pc \div 4 = k /\ k \in 0 .. WORDS - 1
    BY <1>1, <1>2
  <2>2. k % WORDS = k
    BY <1>2, <2>1
  <2> QED BY <2>1, <2>2 DEF WordIndex, Index
<1>4. Padded \in [Index -> Word] /\ WordsOf(Loaded) = Padded
  BY PaddedType, FreezeLoadable
<1>5. inst = Padded[k]
  <2>1. WordsOf(Loaded)[k] = FromLanes[Loaded[k]]
    BY <1>3 DEF WordsOf
  <2> QED BY <1>3, <1>4, <2>1 DEF inst, i_rdata
<1>6. Padded[k] = FREEZE[k + 1] /\ k + 1 \in 1 .. 3
  BY <1>2, <1>3 DEF Padded
<1>7. Truncate(pc + 4) = pc + 4
  <2>1. pc + 4 \in 0 .. Modulus - 1
    BY ModulusBig, ModulusNat
  <2> DEFINE x == pc + 4
  <2> HIDE DEF x
  <2>2. x \in 0 .. Modulus - 1 => x % Modulus = x
    BY ModulusNat
  <2> QED BY <2>1, <2>2 DEF x, Truncate
<1> QED BY <1>5, <1>6, <1>7, FreezeAssumption DEF f

LEMMA CompareEdge ==
    ASSUME Counted, Free, Session, ~StoresOverItself(tb.words), tb.phase = "compare",
           InCompare, tb.edges > 0, Clock, rst' = rst, step_en' = step_en,
           UNCHANGED model, tb'.words = tb.words, tb'.expected = tb.expected,
           tb'.retired = tb.retired, tb'.budget = tb.budget, tb'.edges = tb.edges - 1
    PROVE  InCompare'
<1>1. /\ tb.edges = 1 /\ tb'.edges = 0 /\ tb.retired \in Nat /\ tb.retired > 0
      /\ Len(tb.expected) \in Nat /\ tb.retired <= Len(tb.expected)
  BY DEF Counted, CountedAs, InCompare
<1>2. PICK st : Chain(st) /\ Ended(st) /\ CoreIn(st)
  BY DEF InCompare
<1> DEFINE j == tb.retired
<1>3. CauseOf(st[j]) = HALT_NONE /\ st[j + 1] = After(st[j]) /\ st[1] = First
  BY <1>1, <1>2 DEF Chain
<1>4. CoreState' = st[j + 1] /\ halted' = FALSE
  <2>1. CASE CoreState = st[j]
    BY <1>3, <2>1, RetireEdge
  <2>2. CASE j = 1 /\ Early
    BY <1>3, <2>2, EarlyEdge DEF Session, Between
  <2>3. CoreState = st[j] \/ (j = 1 /\ Early)
    BY <1>1, <1>2 DEF CoreIn, Place
  <2> QED BY <2>1, <2>2, <2>3
<1>5. Place' = j + 1
  BY <1>1 DEF Place
<1>6. Chain(st)' /\ Ended(st)' /\ CoreIn(st)'
  BY <1>2, <1>4, <1>5, ChainKept DEF CoreIn
<1>7. Len(tb'.expected) > 0 \/ m_halted'
  BY ChainKept DEF InCompare
<1> QED BY <1>1, <1>4, <1>6, <1>7 DEF InCompare, Free

LEMMA FreezeEdge ==
    ASSUME Counted, TypeOK, WellFormed, Session, tb.phase \in Freezing, InFreeze,
           tb.edges > 0, Clock, rst' = rst, step_en' = step_en, step_en \in BOOLEAN,
           tb'.words = tb.words, tb'.phase = tb.phase, tb'.edges = tb.edges - 1,
           tb'.pc_before = tb.pc_before, tb'.reg_before = tb.reg_before
    PROVE  InFreeze'
<1>1. tb.words = FREEZE /\ tb.edges \in Nat /\ Loaded' = Loaded /\ ~rst /\ rst \in BOOLEAN
  BY ProgramKept DEF Session, Freezing, Counted, CountedAs, InFreeze, TypeOK
<1>2. tb.phase \in {"disable", "frozen", "resumed"}
  BY DEF InFreeze, Freezing
<1>3. CASE tb.phase = "frozen"
  <2>1. UNCHANGED arch
    BY <1>1, <1>3, FrozenStep DEF InFreeze, Next, Inputs
  <2>2. mem' = mem /\ pc' = pc /\ regs' = regs /\ halted' = halted
    BY <2>1 DEF arch
  <2> QED BY <1>1, <1>3, <2>2 DEF InFreeze, Freezing
<1>4. CASE tb.phase \in {"disable", "resumed"}
  <2>1. pc \in {0, 4, 8} /\ mem = Loaded /\ step_en /\ ~halted
        /\ tb.edges \in {1, 2} /\ (tb.phase = "resumed" => tb.edges = 1)
    BY <1>1, <1>4 DEF InFreeze
  <2>2. f.opcode = "IMM" /\ f.funct3 = 0 /\ Truncate(pc + 4) = pc + 4
    BY <1>1, <2>1, FreezeReads
  <2>3. pc' = pc + 4 /\ mem' = mem /\ halted' = FALSE
    BY <1>1, <2>1, <2>2, AddiEdge DEF Free
  <2> QED BY <1>1, <1>4, <2>1, <2>3 DEF InFreeze, Freezing
<1> QED BY <1>2, <1>3, <1>4

LEMMA EdgeInStep ==
    ASSUME Shape, Counted, TypeOK, WellFormed, Session, Lock, bug = "none",
           tb.phase \notin Between, ~StoresOverItself(tb.words), RisingEdge
    PROVE  Lock'
<1>1. /\ tb.edges > 0 /\ tb.edges \in Nat /\ Clock /\ rst' = rst /\ step_en' = step_en
      /\ UNCHANGED model /\ rst \in BOOLEAN /\ step_en \in BOOLEAN
  BY UnmodifiedCore DEF RisingEdge, Counted, CountedAs, TypeOK
<1>2. /\ tb'.phase = tb.phase /\ tb'.edges = tb.edges - 1 /\ tb'.words = tb.words
      /\ tb'.expected = tb.expected /\ tb'.retired = tb.retired /\ tb'.budget = tb.budget
      /\ tb'.pc_before = tb.pc_before /\ tb'.reg_before = tb.reg_before
  BY DEF RisingEdge, Shape
<1>3. CASE tb.phase = "deposit"
  <2>1. rst /\ step_en
    BY <1>3 DEF Lock, InDeposit
  <2>2. Fresh'
    BY <1>1, <2>1 DEF Clock, RegfileEdge, PcEdge, HaltEdge, RESET_PC, Fresh
  <2>3. InDeposit'
    BY <1>1, <2>1, <2>2 DEF InDeposit
  <2> QED BY <1>2, <1>3, <2>3 DEF Lock, Freezing
<1>4. CASE tb.phase = "reset"
  <2>1. rst /\ step_en /\ Fresh /\ mem \in {Loaded, Stored}
    BY <1>4 DEF Lock, InReset
  <2>2. Fresh'
    BY <1>1, <2>1 DEF Clock, RegfileEdge, PcEdge, HaltEdge, RESET_PC, Fresh
  <2>3. mem' = Stored /\ Stored' = Stored
    BY <1>1, <1>2, <1>4, <2>1, FirstIntact, FirstEdge, ProgramKept DEF Session, Between
  <2>4. InReset'
    BY <1>1, <2>1, <2>2, <2>3 DEF InReset
  <2> QED BY <1>2, <1>4, <2>4 DEF Lock, Freezing
<1>5. CASE tb.phase \in {"model", "state"}
  BY <1>1, <1>5 DEF Counted, CountedAs
<1>6. CASE tb.phase = "compare"
  <2>1. InCompare /\ Free
    BY <1>6 DEF Lock, InCompare, Free
  <2>2. InCompare'
    BY <1>1, <1>2, <1>6, <2>1, CompareEdge
  <2> QED BY <1>2, <1>6, <2>2 DEF Lock, Freezing
<1>7. CASE tb.phase = "halted"
  <2>1. InHalted /\ tb.edges = 1
    BY <1>1, <1>7 DEF Lock, Counted, CountedAs
  <2>2. CauseOf(CoreState) # HALT_NONE /\ Free
    BY <2>1 DEF InHalted, Free
  <2>3. CoreState' = CoreState /\ halted' = TRUE /\ halt_cause' = CauseOf(CoreState)
    BY <1>1, <2>2, TrapEdge
  <2>4. /\ ModelState' = ModelState /\ m_halt_cause' = m_halt_cause /\ tb'.edges = 0
    BY <1>1, <1>2, <2>1, ChainKept
  <2>5. InHalted'
    BY <1>1, <2>1, <2>3, <2>4 DEF InHalted
  <2> QED BY <1>2, <1>7, <2>5 DEF Lock, Freezing
<1>8. CASE tb.phase = "held"
  <2>1. InHeld
    BY <1>8 DEF Lock
  <2>2. UNCHANGED arch
    BY <1>1, <2>1, FrozenStep DEF InHeld, Next, Inputs
  <2>3. CoreState' = CoreState /\ halted' = halted /\ ModelState' = ModelState
    BY <1>1, <1>2, <2>2, CoreKept, ChainKept
  <2>4. InHeld'
    BY <1>1, <2>1, <2>3 DEF InHeld
  <2> QED BY <1>2, <1>8, <2>4 DEF Lock, Freezing
<1>9. CASE tb.phase \in Freezing
  <2>1. InFreeze'
    BY <1>1, <1>2, <1>9, FreezeEdge DEF Lock
  <2> QED BY <1>2, <1>9, <2>1 DEF Lock, Freezing
<1>10. CASE tb.phase \notin {"deposit", "reset", "model", "compare", "halted", "held", "state"}
                              \cup Freezing
  BY <1>2, <1>10 DEF Lock
<1> QED BY <1>3, <1>4, <1>5, <1>6, <1>7, <1>8, <1>9, <1>10


-----------------------------------------------------------------------------
(* The handlers *)

\* A program is under way on the unmodified core, in step.
InStep ==
    /\ Shape /\ Counted /\ TypeOK /\ WellFormed /\ Session /\ Lock
    /\ bug = "none" /\ tb.phase \notin Between /\ ~StoresOverItself(tb.words)

LEMMA LoadInStep ==
    ASSUME Shape, NEW program \in Loadable, load(program)
    PROVE  tb'.failed = tb.failed /\ Lock'
<1>1. tb'.phase = "deposit" /\ tb'.edges = 1 /\ rst' /\ step_en' /\ tb'.failed = tb.failed
  BY LoadFits
<1> QED BY <1>1 DEF Lock, InDeposit, Freezing

LEMMA DepositInStep ==
    ASSUME InStep, deposit PROVE tb'.failed = tb.failed /\ Lock'
<1>1. tb.phase = "deposit" /\ tb.edges = 0 /\ tb' = [tb EXCEPT !.phase = "reset", !.edges = 2]
  BY DEF deposit, At
<1>2. tb'.phase = "reset" /\ tb'.words = tb.words /\ tb'.failed = tb.failed
  BY <1>1 DEF InStep, Shape
<1>3. rst /\ step_en /\ Fresh
  BY <1>1 DEF InStep, Lock, InDeposit
<1>4. mem' = Loaded /\ Loaded' = Loaded
  BY <1>2, ProgramKept DEF deposit, Loaded
<1>5. rst' /\ step_en' /\ Fresh'
  BY <1>3 DEF deposit, Fresh
<1>6. InReset'
  BY <1>4, <1>5 DEF InReset
<1> QED BY <1>2, <1>6 DEF Lock, Freezing

\* The words of the freeze test begin with no store.
LEMMA FreezeWritesNot == ASSUME tb.words = FREEZE PROVE ~Writes /\ Stored = Loaded
<1>1. Padded[0] = FREEZE[1]
  BY FreezeLoadable, PaddedType
<1>2. ~Writes
  BY <1>1, FreezeAssumption DEF Writes, mem_write
<1> QED BY <1>2 DEF Stored

LEMMA ResetInStep ==
    ASSUME InStep, reset PROVE tb'.failed = tb.failed /\ Lock'
<1>1. /\ tb.phase = "reset" /\ tb.edges = 0
      /\ tb' = [tb EXCEPT !.phase = IF tb.test = "freeze" THEN "warm" ELSE "model",
                          !.count = 0, !.expected = <<>>, !.retired = 0]
  BY DEF reset, At
<1>2. /\ tb'.phase = (IF tb.test = "freeze" THEN "warm" ELSE "model")
      /\ tb'.words = tb.words /\ tb'.failed = tb.failed /\ tb'.edges = 0
      /\ tb'.count = 0 /\ tb'.expected = <<>>
  BY <1>1 DEF InStep, Shape
<1>3. step_en /\ Fresh /\ mem \in {Loaded, Stored}
  BY <1>1 DEF InStep, Lock, InReset
<1>4. rst' = FALSE /\ step_en' /\ Fresh' /\ mem' = mem /\ pc' = 0 /\ halted' = FALSE
  BY <1>3, CoreKept, <1>2 DEF reset, Fresh
<1>5. Loaded' = Loaded /\ Stored' = Stored /\ First' = First
  BY <1>2, ProgramKept
<1>6. CASE tb.test = "freeze"
  <2>1. tb.words = FREEZE
    BY <1>1, <1>6 DEF InStep, Session
  <2>2. mem' = Loaded'
    BY <1>3, <1>4, <1>5, <2>1, FreezeWritesNot
  <2>3. InFreeze'
    BY <1>2, <1>4, <1>6, <2>2 DEF InFreeze, Freezing
  <2> QED BY <1>2, <1>6, <2>3 DEF Lock, Freezing
<1>7. CASE tb.test # "freeze"
  <2>1. m_mem' = Padded /\ m_regs' = [r \in Reg |-> 0] /\ m_pc' = 0 /\ m_halted' = FALSE
    BY DEF reset
  <2>2. ModelState' = First
    BY <2>1 DEF ModelState, First
  <2>0. PICK st : st = [k \in Nat |-> First]
    OBVIOUS
  <2>3. st[1] = First /\ Len(<<>>) = 0 /\ <<>> \in Seq({})
    BY <2>0
  <2>4. Chain(st)' /\ Ended(st)'
    <3>1. Len(tb'.expected) = 0 /\ 0 + 1 = 1 /\ \A k : k \notin 1 .. 0
      BY <1>2, <2>3
    <3>2. Chain(st)'
      BY <1>5, <2>3, <3>1 DEF Chain
    <3>3. Ended(st)'
      BY <2>1, <2>2, <2>3, <3>1 DEF Ended
    <3> QED BY <3>2, <3>3
  <2>5. tb'.expected \in Seq({})
    BY <1>2, <2>3
  <2>6. InModel'
    BY <1>2, <1>3, <1>4, <1>5, <2>4, <2>5 DEF InModel
  <2> QED BY <1>2, <1>7, <2>6 DEF Lock, Freezing
<1> QED BY <1>2, <1>6, <1>7

\* One step of the model: its next state is remembered.
LEMMA ModelStepInStep ==
    ASSUME InStep, run, ~(tb.count = MaxSteps \/ m_halted)
    PROVE  tb'.failed = tb.failed /\ Lock'
<1>0. PICK e : /\ e = IF Model!Cause = HALT_NONE THEN Append(tb.expected, Model!Commit)
                      ELSE tb.expected
               /\ tb' = [tb EXCEPT !.count = @ + 1, !.expected = e]
  BY DEF run
<1>1. /\ tb'.phase = "model" /\ tb'.words = tb.words /\ tb'.failed = tb.failed
      /\ tb'.count = tb.count + 1 /\ tb'.expected = e
  BY <1>0 DEF InStep, Shape, run, At
<1>2. InModel
  BY DEF InStep, Lock, run, At
<1>3. PICK S, st : tb.expected \in Seq(S) /\ Chain(st) /\ Ended(st)
  BY <1>2 DEF InModel
<1>4. /\ UNCHANGED arch /\ rst' = rst /\ step_en' = step_en /\ Model!Step
  BY DEF run, vars
<1>5. /\ ~rst' /\ step_en' /\ Fresh' /\ mem' \in {Loaded', Stored'} /\ First' = First
      /\ tb'.count \in Nat
  BY <1>1, <1>2, <1>4, CoreKept, ProgramKept DEF InModel
<1>6. Model!HALT_NONE = HALT_NONE /\ CauseOf(ModelState) = Model!Cause
      /\ CommitOf(ModelState) = Model!Commit
  BY ModelShared, ModelAfter
<1> DEFINE n == Len(tb.expected)
<1>7. n \in Nat /\ ~m_halted /\ st[n + 1] = ModelState /\ st[1] = First
  BY <1>3 DEF Chain, Ended
<1>8. CASE Model!Cause = HALT_NONE
  <2>1. Model!Retire
    BY <1>4, <1>6, <1>7, <1>8 DEF Model!Step, Model!Trap, Model!Halted
  <2>2. ModelState' = After(ModelState) /\ m_halted' = m_halted
    BY <2>1, ModelAfter DEF Model!Retire
  <2>3. PICK T : T = S \cup {Model!Commit}
    OBVIOUS
  <2>4. /\ tb.expected \in Seq(T) /\ Model!Commit \in T
    <3>1. S \subseteq T /\ Model!Commit \in T
      BY <2>3
    <3> QED BY <1>3, <3>1
  <2>5. /\ e = Append(tb.expected, Model!Commit) /\ e \in Seq(T) /\ Len(e) = n + 1
        /\ e[n + 1] = Model!Commit /\ \A k \in 1 .. n : e[k] = tb.expected[k]
    BY <1>0, <1>8, <2>4
  <2>6. PICK next : next = [k \in Nat |-> IF k = n + 2 THEN After(ModelState) ELSE st[k]]
    OBVIOUS
  <2>7. next[n + 2] = After(ModelState) /\ \A k \in 1 .. n + 1 : next[k] = st[k]
    BY <1>7, <2>6
  <2>8. \A k \in 1 .. n + 1 : /\ CauseOf(next[k]) = HALT_NONE /\ e[k] = CommitOf(next[k])
                              /\ next[k + 1] = After(next[k])
    <3>1. ASSUME NEW k \in 1 .. n
          PROVE  /\ CauseOf(next[k]) = HALT_NONE /\ e[k] = CommitOf(next[k])
                 /\ next[k + 1] = After(next[k])
      <4>1. k \in 1 .. n + 1 /\ k + 1 \in 1 .. n + 1
        BY <1>7
      <4>2. next[k] = st[k] /\ next[k + 1] = st[k + 1] /\ e[k] = tb.expected[k]
        BY <2>5, <2>7, <4>1
      <4> QED BY <1>3, <4>2 DEF Chain
    <3>2. /\ CauseOf(next[n + 1]) = HALT_NONE /\ e[n + 1] = CommitOf(next[n + 1])
          /\ next[n + 2] = After(next[n + 1])
      <4>1. next[n + 1] = ModelState
        BY <1>7, <2>7
      <4> QED BY <1>6, <1>8, <2>5, <2>7, <4>1
    <3>3. \A k \in 1 .. n + 1 : k \in 1 .. n \/ (k = n + 1 /\ k + 1 = n + 2)
      BY <1>7
    <3> QED BY <3>1, <3>2, <3>3
  <2>9. Chain(next)' /\ Ended(next)'
    <3>1. Len(tb'.expected) = n + 1 /\ (n + 1) + 1 = n + 2
      BY <1>1, <1>7, <2>5
    <3>2. next[1] = First'
      BY <1>5, <1>7, <2>7
    <3> QED BY <1>1, <1>7, <2>2, <2>7, <2>8, <3>1, <3>2 DEF Chain, Ended
  <2>10. InModel'
    BY <1>1, <1>5, <1>7, <2>5, <2>9 DEF InModel
  <2> QED BY <1>1, <2>10 DEF Lock, Freezing
<1>9. CASE Model!Cause # HALT_NONE
  <2>1. Model!Trap
    BY <1>4, <1>6, <1>7, <1>9 DEF Model!Step, Model!Retire, Model!Halted
  <2>2. ModelState' = ModelState /\ m_halted' = TRUE /\ m_halt_cause' = Model!Cause
    BY <2>1 DEF Model!Trap, ModelState
  <2>3. e = tb.expected
    BY <1>0, <1>9
  <2>4. Chain(st)'
    BY <1>1, <1>3, <1>5, <2>3 DEF Chain
  <2>5. Ended(st)'
    BY <1>1, <1>6, <1>7, <1>9, <2>2, <2>3 DEF Ended
  <2>6. InModel'
    BY <1>1, <1>3, <1>5, <2>2, <2>3, <2>4, <2>5 DEF InModel
  <2> QED BY <1>1, <2>6 DEF Lock, Freezing
<1> QED BY <1>8, <1>9

\* The end of Iss.run: the core is before its first edge out of reset.
LEMMA ModelEndInStep ==
    ASSUME InStep, run, tb.count = MaxSteps \/ m_halted
    PROVE  tb'.failed = tb.failed /\ Lock'
<1>1. /\ tb.phase = "model" /\ Still
      /\ tb' = [tb EXCEPT !.phase = "compare", !.budget = Len(tb.expected) * 4 + SLACK]
  BY DEF run, At
<1>2. /\ tb'.phase = "compare" /\ tb'.words = tb.words /\ tb'.failed = tb.failed
      /\ tb'.expected = tb.expected /\ tb'.budget = Len(tb.expected) * 4 + SLACK
      /\ tb'.edges = tb.edges /\ tb'.retired = tb.retired
  BY <1>1 DEF InStep, Shape
<1>3. InModel /\ tb.edges = 0 /\ tb.retired = 0 /\ Len(tb.expected) \in Nat
      /\ tb.words \in Loadable
  BY <1>1 DEF InStep, Lock, Counted, CountedAs, Session, Between
<1>4. PICK st : Chain(st) /\ Ended(st)
  BY <1>3 DEF InModel
<1>5. UNCHANGED arch /\ rst' = rst /\ step_en' = step_en /\ UNCHANGED model
  BY <1>1 DEF Still, vars
<1>6. Chain(st)' /\ Ended(st)' /\ m_halted' = m_halted
  BY <1>2, <1>4, <1>5, ChainKept
<1>7. CoreState = First \/ Early
  <2>1. CASE mem = Loaded
    BY <1>3, <2>1, PaddedType DEF InModel, CoreState, First, Fresh
  <2>2. CASE mem = Stored /\ mem # Loaded
    <3>1. Writes
      BY <2>2 DEF Stored
    <3> QED BY <1>3, <2>2, <3>1, WritesRetire DEF InModel, Early
  <2> QED BY <1>3, <2>1, <2>2 DEF InModel
<1>8. CoreIn(st)'
  <2>1. Place' = 1
    BY <1>2, <1>3 DEF Place
  <2>2. CoreState' = CoreState /\ (Early' <=> Early)
    BY <1>2, <1>5, CoreKept
  <2> QED BY <1>4, <1>7, <2>1, <2>2 DEF CoreIn, Chain
<1>9. Len(tb.expected) > 0 \/ m_halted
  BY <1>3, LimitsAssumption DEF InModel
<1>10. ~halted'
  BY <1>3, <1>5 DEF InModel, Fresh, arch
<1>11. SLACK \in Nat
  BY LimitsAssumption
<1>12. InCompare'
  <2>1. tb'.budget = Len(tb'.expected) * 4 + SLACK - tb'.retired
    BY <1>2, <1>3, <1>11
  <2> QED BY <1>2, <1>3, <1>5, <1>6, <1>8, <1>9, <1>10, <2>1 DEF InCompare, InModel
<1> QED BY <1>2, <1>12 DEF Lock, Freezing

\* An iteration of the comparison: the core retires, and what the model committed.
LEMMA CompareInStep ==
    ASSUME InStep, compare PROVE tb'.failed = tb.failed /\ Lock'
<1> DEFINE j == tb.retired + 1
           n == Len(tb.expected)
           exp == tb.expected[j]
<1>1. /\ tb.phase = "compare" /\ tb.edges = 0 /\ tb.retired < n /\ tb.retired \in Nat
      /\ n \in Nat /\ InCompare /\ Free /\ tb.words \in Loadable
  BY DEF compare, At, More, InStep, Lock, Counted, CountedAs, Session, Between, InCompare, Free
<1>2. PICK st : Chain(st) /\ Ended(st) /\ CoreIn(st)
  BY <1>1 DEF InCompare
<1>3. /\ CauseOf(st[j]) = HALT_NONE /\ exp = CommitOf(st[j]) /\ st[1] = First
      /\ CoreState = st[j] \/ (j = 1 /\ Early)
  <2>1. j \in 1 .. n
    BY <1>1
  <2>2. Place = j
    BY <1>1 DEF Place
  <2> QED BY <1>2, <2>1, <2>2 DEF Chain, CoreIn
<1>4. CauseOf(CoreState) = HALT_NONE /\ CommitOf(CoreState) = exp
  <2>1. CASE CoreState = st[j]
    BY <1>3, <2>1
  <2>2. CASE j = 1 /\ Early
    BY <1>1, <1>3, <2>2, EarlyReads DEF InStep
  <2> QED BY <1>3, <2>1, <2>2
<1>5. dut_valid /\ compare_commit(dut_commit, exp)
  BY <1>1, <1>4, SameVerdict, CommitAccepted, UnmodifiedCore DEF InStep
<1>6. ~(spend <= 0) /\ ~halted /\ spend = n * 4 + SLACK - (tb.retired + 1)
  <2>1. tb.budget = n * 4 + SLACK - tb.retired /\ ~halted /\ SLACK \in Nat
    BY <1>1, LimitsAssumption DEF InCompare
  <2> QED BY <1>1, <2>1 DEF spend
<1>7. PICK c : tb' = [tb EXCEPT !.budget = spend, !.retired = retire, !.edges = 1,
                                !.COVERAGE = c] /\ Still
  BY <1>5, <1>6 DEF compare
<1>8. /\ tb'.phase = "compare" /\ tb'.words = tb.words /\ tb'.failed = tb.failed
      /\ tb'.expected = tb.expected /\ tb'.budget = spend /\ tb'.edges = 1
      /\ tb'.retired = tb.retired + 1
  BY <1>1, <1>5, <1>7 DEF InStep, Shape, retire
<1>9. /\ UNCHANGED arch /\ UNCHANGED model /\ rst' = rst /\ step_en' = step_en
      /\ halted' = halted
  BY <1>7 DEF Still, vars, arch
<1>10. /\ Chain(st)' /\ Ended(st)' /\ m_halted' = m_halted /\ CoreState' = CoreState
       /\ (Early' <=> Early)
  BY <1>2, <1>8, <1>9, ChainKept, CoreKept
<1>11. Place' = j /\ CoreIn(st)'
  BY <1>3, <1>8, <1>10 DEF Place, CoreIn
<1>12. InCompare'
  <2>1. tb'.budget = Len(tb'.expected) * 4 + SLACK - tb'.retired /\ tb'.retired > 0
    BY <1>1, <1>6, <1>8
  <2> QED BY <1>1, <1>8, <1>9, <1>10, <1>11, <2>1 DEF InCompare
<1> QED BY <1>8, <1>12 DEF Lock, Freezing

\* The model has no more: the core is where it stopped.
LEMMA StopInStep ==
    ASSUME InStep, stop PROVE tb'.failed = tb.failed /\ Lock'
<1> DEFINE n == Len(tb.expected)
<1>1. /\ tb.phase = "compare" /\ tb.edges = 0 /\ tb.retired = n
      /\ n \in Nat /\ InCompare /\ Free /\ tb.words \in Loadable
  BY DEF stop, At, More, InStep, Lock, Counted, CountedAs, Session, Between, InCompare, Free
<1>2. PICK st : Chain(st) /\ Ended(st) /\ CoreIn(st)
  BY <1>1 DEF InCompare
<1>3. CoreState = ModelState
  <2>1. Place = n + 1 /\ st[n + 1] = ModelState /\ st[1] = First
    BY <1>1, <1>2 DEF Place, Ended, Chain
  <2>2. ~(n + 1 = 1 /\ Early)
    <3> SUFFICES ASSUME n + 1 = 1, Early PROVE FALSE
      OBVIOUS
    <3>1. m_halted /\ ModelState = First
      BY <1>1, <2>1 DEF InCompare
    <3> QED BY <1>2, <3>1 DEF Ended, Early
  <2> QED BY <1>2, <2>1, <2>2 DEF CoreIn
<1>4. ~halted
  BY <1>1 DEF InCompare
<1>5. Still /\ tb' = IF m_halted THEN [tb EXCEPT !.phase = "halted", !.edges = 1]
                     ELSE [tb EXCEPT !.phase = "state"]
  BY <1>4 DEF stop
<1>6. /\ tb'.words = tb.words /\ tb'.failed = tb.failed /\ tb'.expected = tb.expected
      /\ IF m_halted THEN tb'.phase = "halted" /\ tb'.edges = 1
         ELSE tb'.phase = "state"
  BY <1>5 DEF InStep, Shape
<1>7. /\ UNCHANGED arch /\ UNCHANGED model /\ rst' = rst /\ step_en' = step_en
      /\ halted' = halted
  BY <1>5 DEF Still, vars, arch
<1>8. CoreState' = ModelState' /\ ModelState' = ModelState /\ m_halt_cause' = m_halt_cause
  BY <1>3, <1>6, <1>7, ChainKept, CoreKept
<1>9. CASE m_halted
  <2>1. InHalted'
    BY <1>1, <1>2, <1>4, <1>6, <1>7, <1>8, <1>9 DEF InHalted, Ended, Free
  <2> QED BY <1>6, <1>9, <2>1 DEF Lock, Freezing
<1>10. CASE ~m_halted
  BY <1>6, <1>8, <1>10 DEF Lock, Freezing, InState
<1> QED BY <1>9, <1>10

\* The two states, by their parts.
LEMMA StatesEqual ==
    ASSUME CoreState = ModelState
    PROVE  pc = m_pc /\ regs = m_regs /\ \A i \in Index : FromLanes[mem[i]] = m_mem[i]
<1>1. CoreState.pc = pc /\ CoreState.regs = regs /\ CoreState.mem = WordsOf(mem)
      /\ ModelState.pc = m_pc /\ ModelState.regs = m_regs /\ ModelState.mem = m_mem
  BY DEF CoreState, ModelState
<1>2. \A i \in Index : WordsOf(mem)[i] = FromLanes[mem[i]]
  BY DEF WordsOf
<1> QED BY <1>1, <1>2

LEMMA HaltInStep ==
    ASSUME InStep, check_halt PROVE tb'.failed = tb.failed /\ Lock'
<1>1. tb.phase = "halted" /\ tb.edges = 0 /\ InHalted /\ halted /\ pc = m_pc
      /\ halt_cause = m_halt_cause
  BY StatesEqual DEF check_halt, At, InStep, Lock, InHalted
<1>2. Still /\ tb' = [tb EXCEPT !.phase = "held", !.count = 3, !.edges = 1]
  BY <1>1 DEF check_halt
<1>3. tb'.phase = "held" /\ tb'.words = tb.words /\ tb'.failed = tb.failed
      /\ tb'.expected = tb.expected
  BY <1>2 DEF InStep, Shape
<1>4. UNCHANGED arch /\ UNCHANGED model /\ rst' = rst
  BY <1>2 DEF Still, vars
<1>5. CoreState' = CoreState /\ ModelState' = ModelState /\ halted' = halted
  BY <1>3, <1>4, ChainKept, CoreKept
<1>6. InHeld'
  BY <1>1, <1>4, <1>5 DEF InHeld, InHalted
<1> QED BY <1>3, <1>6 DEF Lock, Freezing

LEMMA HeldInStep ==
    ASSUME InStep, check_held PROVE tb'.failed = tb.failed /\ Lock'
<1>1. tb.phase = "held" /\ InHeld /\ pc = m_pc
  BY StatesEqual DEF check_held, At, InStep, Lock, InHeld
<1>2. PICK c, v : /\ Still
                  /\ \/ tb' = [tb EXCEPT !.count = c, !.edges = 1]
                     \/ tb' = [tb EXCEPT !.phase = "state", !.COVERAGE = v]
  BY <1>1 DEF check_held
<1>3. tb'.phase \in {"held", "state"} /\ tb'.words = tb.words /\ tb'.failed = tb.failed
      /\ tb'.expected = tb.expected
  BY <1>1, <1>2 DEF InStep, Shape
<1>4. UNCHANGED arch /\ UNCHANGED model /\ rst' = rst
  BY <1>2 DEF Still, vars
<1>5. CoreState' = CoreState /\ ModelState' = ModelState /\ halted' = halted
  BY <1>3, <1>4, ChainKept, CoreKept
<1>6. InHeld' /\ InState'
  BY <1>1, <1>4, <1>5 DEF InHeld, InState
<1> QED BY <1>3, <1>6 DEF Lock, Freezing

LEMMA StateInStep ==
    ASSUME InStep, compare_state
    PROVE  tb'.failed = tb.failed /\ tb'.phase = "fetch"
<1>1. regs = m_regs /\ \A i \in Index : FromLanes[mem[i]] = m_mem[i]
  BY StatesEqual DEF compare_state, At, InStep, Lock, InState
<1>2. tb' = [tb EXCEPT !.phase = "fetch"]
  BY <1>1 DEF compare_state
<1> QED BY <1>2 DEF InStep, Shape

\* The freeze test: nothing moves while step_en is low, and an ADDI retires after.
LEMMA FreezeInStep ==
    ASSUME InStep, warm \/ disable \/ disabled \/ check_frozen \/ enabled \/ resumed
    PROVE  tb'.failed = tb.failed /\ (tb'.phase \notin Between => Lock')
<1>1. tb.phase \in Freezing /\ tb.edges = 0 /\ tb.words = FREEZE /\ InFreeze
  BY DEF warm, disable, disabled, check_frozen, enabled, resumed, At, Freezing, InStep,
         Session, Lock
<1>2. /\ ~rst /\ rst \in BOOLEAN /\ step_en \in BOOLEAN /\ ~halted /\ mem = Loaded
  BY <1>1 DEF InFreeze, InStep, TypeOK
<1>3. ASSUME tb'.words = tb.words, UNCHANGED arch, rst' = rst, tb'.phase \in Freezing
      PROVE  /\ mem' = Loaded' /\ pc' = pc /\ regs' = regs /\ ~rst' /\ ~halted'
             /\ InFreeze' => Lock'
  BY <1>2, <1>3, ProgramKept, CoreKept DEF Lock, Freezing
<1>4. CASE warm
  <2>1. /\ tb'.phase = "disable" /\ tb'.edges = 2 /\ tb'.words = tb.words
        /\ tb'.failed = tb.failed /\ tb.phase = "warm" /\ Still
    BY <1>4 DEF warm, At, InStep, Shape
  <2>2. UNCHANGED arch /\ rst' = rst /\ step_en' = step_en
    BY <2>1 DEF Still, vars
  <2> QED BY <1>1, <1>3, <2>1, <2>2 DEF InFreeze, Freezing
<1>5. CASE disable
  <2>1. /\ tb'.phase = "disabled" /\ tb'.edges = 0 /\ tb'.words = tb.words
        /\ tb'.failed = tb.failed /\ tb.phase = "disable"
        /\ tb'.pc_before = pc /\ tb'.reg_before = regs[t0]
    BY <1>1, <1>5 DEF disable, At, InStep, Shape
  <2>2. UNCHANGED arch /\ rst' = rst /\ step_en' = FALSE
    BY <1>5 DEF disable
  <2>3. pc = 8
    BY <1>1, <2>1 DEF InFreeze
  <2> QED BY <1>1, <1>3, <2>1, <2>2, <2>3 DEF InFreeze, Freezing
<1>6. CASE disabled
  <2>1. tb.phase = "disabled" /\ ~step_en
    BY <1>1, <1>6 DEF disabled, At, InFreeze
  <2>2. ~dut_valid
    BY <2>1 DEF dut_valid
  <2>3. tb' = [tb EXCEPT !.phase = "frozen", !.count = 5, !.edges = 1] /\ Still
    BY <1>6, <2>2 DEF disabled
  <2>4. /\ tb'.phase = "frozen" /\ tb'.edges = 1 /\ tb'.words = tb.words
        /\ tb'.failed = tb.failed /\ tb'.pc_before = tb.pc_before
        /\ tb'.reg_before = tb.reg_before
    BY <2>3 DEF InStep, Shape
  <2>5. UNCHANGED arch /\ rst' = rst /\ step_en' = step_en
    BY <2>3 DEF Still, vars
  <2> QED BY <1>1, <1>3, <2>1, <2>4, <2>5 DEF InFreeze, Freezing
<1>7. CASE check_frozen
  <2>1. tb.phase = "frozen" /\ ~step_en /\ ~moved
    BY <1>1, <1>7 DEF check_frozen, At, InFreeze, Freezing, moved
  <2>2. CASE tb.count > 1
    <3>1. tb' = [tb EXCEPT !.count = @ - 1, !.edges = 1] /\ Still
      BY <1>7, <2>1, <2>2 DEF check_frozen
    <3>2. /\ tb'.phase = "frozen" /\ tb'.edges = 1 /\ tb'.words = tb.words
          /\ tb'.failed = tb.failed /\ tb'.pc_before = tb.pc_before
          /\ tb'.reg_before = tb.reg_before
      BY <2>1, <3>1 DEF InStep, Shape
    <3>3. UNCHANGED arch /\ rst' = rst /\ step_en' = step_en
      BY <3>1 DEF Still, vars
    <3> QED BY <1>1, <1>3, <2>1, <3>2, <3>3 DEF InFreeze, Freezing
  <2>3. CASE ~(tb.count > 1)
    <3>1. tb' = [tb EXCEPT !.phase = "enabled"] /\ step_en' = TRUE
          /\ UNCHANGED arch /\ rst' = rst
      BY <1>7, <2>1, <2>3 DEF check_frozen
    <3>2. /\ tb'.phase = "enabled" /\ tb'.edges = 0 /\ tb'.words = tb.words
          /\ tb'.failed = tb.failed /\ tb'.pc_before = tb.pc_before
      BY <1>1, <3>1 DEF InStep, Shape
    <3> QED BY <1>1, <1>3, <2>1, <3>1, <3>2 DEF InFreeze, Freezing
  <2> QED BY <2>2, <2>3
<1>8. CASE enabled
  <2>1. tb.phase = "enabled" /\ step_en /\ pc = 8
    BY <1>1, <1>8 DEF enabled, At, InFreeze
  <2>2. dut_valid
    <3>1. f.opcode = "IMM" /\ f.funct3 = 0
      BY <1>1, <1>2, <2>1, FreezeReads
    <3> QED BY <1>2, <2>1, <3>1, AddiEdge, UnmodifiedCore DEF Free, InStep
  <2>3. tb' = [tb EXCEPT !.phase = "resumed", !.edges = 1] /\ Still
    BY <1>8, <2>2 DEF enabled
  <2>4. /\ tb'.phase = "resumed" /\ tb'.edges = 1 /\ tb'.words = tb.words
        /\ tb'.failed = tb.failed /\ tb'.pc_before = tb.pc_before
    BY <2>3 DEF InStep, Shape
  <2>5. UNCHANGED arch /\ rst' = rst /\ step_en' = step_en
    BY <2>3 DEF Still, vars
  <2> QED BY <1>1, <1>3, <2>1, <2>4, <2>5 DEF InFreeze, Freezing
<1>9. CASE resumed
  <2>1. tb.phase = "resumed" /\ pc = 12 /\ tb.pc_before = 8
    BY <1>1, <1>9 DEF resumed, At, InFreeze, Freezing
  <2>2. Pass
    BY <1>9, <2>1 DEF resumed
  <2>3. tb'.failed = tb.failed /\ tb'.phase = "fetch"
    BY <2>2 DEF Pass, NextTest, InStep, Shape
  <2> QED BY <2>3 DEF Between
<1> QED BY <1>4, <1>5, <1>6, <1>7, <1>8, <1>9

-----------------------------------------------------------------------------
(* The invariant *)

Handler ==
    \/ deposit \/ reset \/ run \/ compare \/ stop \/ check_halt \/ check_held
    \/ compare_state \/ warm \/ disable \/ disabled \/ check_frozen \/ enabled \/ resumed

\* The test bench writes a memory of the core's type.
LEMMA CoreTyped ==
    ASSUME TypeOK, WellFormed, Session, Shape, bug = "none",
           [RegressionNext]_regressionVars
    PROVE  TypeOK' /\ WellFormed'
<1>1. CASE RisingEdge
  <2>1. Clock /\ rst' = rst /\ step_en' = step_en
    BY <1>1, UnmodifiedCore DEF RisingEdge
  <2>2. Next
    BY <2>1 DEF Next, Inputs, TypeOK
  <2> QED BY <2>2, ClockTypes, WellFormedStep
<1>2. CASE UNCHANGED regressionVars
  BY <1>2, ClockTypes, WellFormedStep DEF regressionVars
<1>3. CASE deposit
  <2>1. tb.words \in Loadable
    BY <1>3 DEF deposit, At, Session, Between
  <2>2. /\ mem' = Loaded /\ pc' = pc /\ regs' = regs /\ halted' = halted
        /\ halt_cause' = halt_cause /\ rst' = rst /\ step_en' = step_en
    BY <1>3 DEF deposit, Loaded
  <2> QED BY <2>1, <2>2, PaddedType DEF TypeOK, MemoryTypeOK, WellFormed
<1>4. ASSUME UNCHANGED arch, rst' \in BOOLEAN, step_en' \in BOOLEAN
      PROVE  TypeOK' /\ WellFormed'
  BY <1>4 DEF arch, TypeOK, MemoryTypeOK, WellFormed
<1>5. ASSUME UNCHANGED vars PROVE TypeOK' /\ WellFormed'
  BY <1>4, <1>5 DEF vars, TypeOK
<1>6. CASE \/ core_directed_programs \/ core_random_programs \/ Generate
           \/ core_step_enable_freezes \/ core_functional_coverage
  <2>1. CASE \E program \in Loadable : load(program)
    BY <1>4, <2>1, LoadFits
  <2>2. CASE Still
    BY <1>5, <2>2 DEF Still
  <2> QED BY <1>6, <2>1, <2>2, SessionSteps DEF Pass, Fail
<1>7. CASE reset
  BY <1>4, <1>7 DEF reset, TypeOK
<1>8. CASE run
  BY <1>5, <1>8 DEF run, Still
<1>9. CASE compare \/ stop \/ check_halt \/ check_held \/ compare_state
  BY <1>5, <1>9 DEF compare, stop, check_halt, check_held, compare_state, Still, Fail
<1>10. CASE warm \/ disabled \/ enabled \/ resumed
  BY <1>5, <1>10 DEF warm, disabled, enabled, resumed, Still, Pass, Fail
<1>11. CASE disable
  BY <1>4, <1>11 DEF disable, TypeOK
<1>12. CASE check_frozen
  BY <1>4, <1>5, <1>12 DEF check_frozen, Still, Fail, TypeOK
<1> QED BY <1>1, <1>2, <1>3, <1>6, <1>7, <1>8, <1>9, <1>10, <1>11, <1>12
        DEF RegressionNext, Test

LEMMA HandlersInStep ==
    ASSUME InStep, Handler
    PROVE  tb'.failed = tb.failed /\ (tb'.phase \notin Between => Lock')
<1>1. CASE run
  BY <1>1, ModelStepInStep, ModelEndInStep
<1>2. CASE compare_state
  BY <1>2, StateInStep DEF Between
<1>3. CASE deposit \/ reset \/ compare \/ stop \/ check_halt \/ check_held
  BY <1>3, DepositInStep, ResetInStep, CompareInStep, StopInStep, HaltInStep, HeldInStep
<1>4. CASE warm \/ disable \/ disabled \/ check_frozen \/ enabled \/ resumed
  BY <1>4, FreezeInStep
<1> QED BY <1>1, <1>2, <1>3, <1>4 DEF Handler

\* A handler stays with the program whether or not its test fails.
LEMMA SameProgram ==
    ASSUME Shape, Handler PROVE tb'.words = tb.words /\ tb.phase \notin Between
<1>1. tb'.words = tb.words
  BY TestEnds, Onward DEF Handler
<1>2. tb.phase \notin Between
  BY DEF Handler, deposit, reset, run, compare, stop, check_halt, check_held,
         compare_state, warm, disable, disabled, check_frozen, enabled, resumed, At, Between
<1> QED BY <1>1, <1>2

NoAlarm ==
    bug = "none" /\ tb.test # "coverage" /\ tb'.failed # tb.failed
      => StoresOverItself(tb.words)

LEMMA LockstepKept ==
    ASSUME Shape, Counted, Session, Lockstep, [RegressionNext]_regressionVars
    PROVE  Lockstep' /\ NoAlarm
<1>1. bug' = bug
  BY DEF RegressionNext, regressionVars
<1> SUFFICES ASSUME bug = "none"
             PROVE  /\ tb'.phase \notin Between /\ ~StoresOverItself(tb.words)' => Lock'
                    /\ tb.test # "coverage" /\ tb'.failed # tb.failed
                         => StoresOverItself(tb.words)
  BY <1>1, CoreTyped DEF Lockstep, NoAlarm
<1>2. ASSUME tb.phase \notin Between, ~StoresOverItself(tb.words) PROVE InStep
  BY <1>2 DEF InStep, Lockstep
<1>3. CASE RisingEdge
  <2>1. tb'.failed = tb.failed /\ tb'.phase = tb.phase /\ tb'.words = tb.words
    BY <1>3 DEF RisingEdge, Shape
  <2> QED BY <1>2, <1>3, <2>1, ProgramKept, EdgeInStep DEF InStep
<1>4. CASE \/ core_directed_programs \/ core_random_programs \/ Generate
           \/ core_step_enable_freezes \/ core_functional_coverage
  <2>1. CASE Pass
    <3>1. tb'.failed = tb.failed /\ tb'.phase = "fetch"
      BY <2>1 DEF Pass, NextTest, Shape
    <3> QED BY <3>1 DEF Between
  <2>2. CASE Fail /\ tb.test = "coverage"
    BY <2>2, TestEnds DEF Between
  <2>3. CASE \E program \in Loadable : load(program)
    BY <2>3, LoadInStep
  <2>4. CASE Still /\ tb'.phase = "generate" /\ tb'.failed = tb.failed
    BY <2>4 DEF Between
  <2> QED BY <1>4, <2>1, <2>2, <2>3, <2>4, SessionSteps
<1>5. CASE Handler
  BY <1>2, <1>5, SameProgram, ProgramKept, HandlersInStep
<1>6. CASE UNCHANGED regressionVars
  <2>1. tb' = tb /\ UNCHANGED arch /\ rst' = rst /\ step_en' = step_en /\ UNCHANGED model
    BY <1>6 DEF regressionVars, vars
  <2>2. /\ (InDeposit' <=> InDeposit) /\ (InReset' <=> InReset) /\ (InState' <=> InState)
        /\ (InHalted' <=> InHalted) /\ (InHeld' <=> InHeld) /\ (InFreeze' <=> InFreeze)
    BY <2>1, ProgramKept, CoreKept, ChainKept
    DEF InDeposit, InReset, InState, InHalted, InHeld, InFreeze
  <2>3. \A st : CoreIn(st)' <=> CoreIn(st)
    BY <2>1, CoreKept DEF CoreIn, Place
  <2>4. /\ (InModel' <=> InModel) /\ (InCompare' <=> InCompare)
    BY <2>1, <2>3, ProgramKept, CoreKept, ChainKept DEF InModel, InCompare
  <2>5. Lock' <=> Lock
    BY <2>1, <2>2, <2>4 DEF Lock
  <2> QED BY <2>1, <2>5, ProgramKept DEF Lockstep
<1> QED BY <1>3, <1>4, <1>5, <1>6 DEF RegressionNext, Test, Handler

LEMMA LockstepStarts == ASSUME RegressionInit PROVE Lockstep
<1>1. tb.phase \in Between
  <2>1. PICK suite, n :
          tb = [test |-> "directed", phase |-> "fetch", todo |-> suite, randoms |-> n,
                words |-> <<>>, edges |-> 0, count |-> 0, expected |-> <<>>, retired |-> 0,
                budget |-> 0, pc_before |-> 0, reg_before |-> 0, COVERAGE |-> {},
                failed |-> {}]
    BY DEF RegressionInit
  <2> QED BY <2>1 DEF Between
<1>2. TypeOK
  <2>1. mem \in [Index -> MemWord]
    BY ProgramsAssumption DEF RegressionInit, Init
  <2>2. pc \in Word /\ regs \in [Reg -> Word]
    BY WordNat DEF RegressionInit, Init
  <2>3. halted \in BOOLEAN /\ rst \in BOOLEAN /\ step_en \in BOOLEAN
    BY DEF RegressionInit, Init
  <2>4. halt_cause \in HaltCause
    BY DEF RegressionInit, Init, HaltCause, HALT_NONE, HALT_FETCH_MISALIGN
  <2> QED BY <2>1, <2>2, <2>3, <2>4 DEF TypeOK, MemoryTypeOK
<1>3. WellFormed
  BY SizeAssumption DEF RegressionInit, Init, WellFormed, Reg
<1> QED BY <1>1, <1>2, <1>3 DEF Lockstep

\* A program that does not begin with a store that changes its own word never fails
\* on the unmodified core, directed or random, whatever the program before left
\* the core in and whatever step limit and budget (tb_core.py:34-51, 107-147,
\* 381-413).  Of a program that does begin so nothing is said: it can fail.
THEOREM NoFalseAlarmCorrect == RegressionSpec => NoFalseAlarm
<1> DEFINE Inv == Shape /\ Counted /\ Bits /\ Session /\ Lockstep
<1>1. RegressionInit => Inv
  BY Started, SessionStarts, LockstepStarts
<1>2. Inv /\ [RegressionNext]_regressionVars => Inv' /\ NoAlarm
  BY Kept, SessionKept, LockstepKept
<1>3. NoAlarm => [bug = "none" /\ tb.test # "coverage" /\ tb'.failed # tb.failed
                    => StoresOverItself(tb.words)]_regressionVars
  BY DEF NoAlarm
<1> HIDE DEF Inv
<1> QED BY <1>1, <1>2, <1>3, PTL DEF RegressionSpec, NoFalseAlarm

-----------------------------------------------------------------------------
(* A session counts down *)

\* Where the session is: the counters of the phases that count down.
Countdown ==
    /\ tb.test \in DOMAIN TestsAhead /\ tb.phase \in DOMAIN PhasesAhead
    /\ tb.randoms \in Nat
    /\ tb.test \in {"coverage", "done"} => tb.phase = "fetch"
    /\ tb.phase \in {"model", "compare", "halted", "held", "state"} => tb.test # "freeze"
    /\ tb.phase = "model" => tb.count \in 0 .. MaxSteps
    /\ tb.phase = "compare" => tb.budget \in Nat
    /\ tb.phase \in {"held", "frozen"} => tb.count \in Nat

\* The order, on the five numbers.
LEMMA NearerBy ==
    ASSUME NEW s \in [1 .. 5 -> Nat], NEW t \in [1 .. 5 -> Nat],
           \/ t[1] < s[1]
           \/ t[1] = s[1] /\ t[2] < s[2]
           \/ t[1] = s[1] /\ t[2] = s[2] /\ t[3] < s[3]
           \/ t[1] = s[1] /\ t[2] = s[2] /\ t[3] = s[3] /\ t[4] < s[4]
           \/ t[1] = s[1] /\ t[2] = s[2] /\ t[3] = s[3] /\ t[4] = s[4] /\ t[5] < s[5]
    PROVE  Nearer(s, t)
<1>1. \E k \in 1 .. 5 : t[k] < s[k] /\ \A j \in 1 .. k - 1 : t[j] = s[j]
  <2>1. CASE t[1] < s[1]
    BY <2>1
  <2>2. CASE t[1] = s[1] /\ t[2] < s[2]
    <3>1. \A j \in 1 .. 2 - 1 : j = 1
      OBVIOUS
    <3> QED BY <2>2, <3>1
  <2>3. CASE t[1] = s[1] /\ t[2] = s[2] /\ t[3] < s[3]
    <3>1. \A j \in 1 .. 3 - 1 : j \in {1, 2}
      OBVIOUS
    <3> QED BY <2>3, <3>1
  <2>4. CASE t[1] = s[1] /\ t[2] = s[2] /\ t[3] = s[3] /\ t[4] < s[4]
    <3>1. \A j \in 1 .. 4 - 1 : j \in {1, 2, 3}
      OBVIOUS
    <3> QED BY <2>4, <3>1
  <2>5. CASE t[1] = s[1] /\ t[2] = s[2] /\ t[3] = s[3] /\ t[4] = s[4] /\ t[5] < s[5]
    <3>1. \A j \in 1 .. 5 - 1 : j \in {1, 2, 3, 4}
      OBVIOUS
    <3> QED BY <2>5, <3>1
  <2> QED BY <2>1, <2>2, <2>3, <2>4, <2>5
<1> QED BY <1>1 DEF Nearer

\* They are numbers.
LEMMA AheadTypes ==
    ASSUME Session, Countdown
    PROVE  /\ TestsAhead[tb.test] \in Nat /\ ProgramsAhead \in Nat
           /\ PhasesAhead[tb.phase] \in Nat /\ IterationsAhead \in Nat
           /\ Len(tb.todo) \in Nat
<1>1. Len(tb.todo) \in Nat /\ ProgramsAhead \in Nat
  BY DEF Session, Countdown, ProgramsAhead
<1>2. IterationsAhead \in Nat
  <2>1. CASE tb.phase = "generate"
    <3>1. Len(tb.words) \in Nat /\ Len(tb.words) <= prologue + body_len + 1
      BY <2>1 DEF Session
    <3> QED BY <2>1, <3>1, LayoutAssumption DEF IterationsAhead, prologue
  <2>2. CASE tb.phase # "generate"
    BY <2>2, LimitsAssumption DEF Countdown, IterationsAhead
  <2> QED BY <2>1, <2>2
<1>3. TestsAhead[tb.test] \in Nat /\ PhasesAhead[tb.phase] \in Nat
  BY DEF Countdown, TestsAhead, PhasesAhead
<1> QED BY <1>1, <1>2, <1>3

\* What a step does to them.
Nears ==
    \/ TestsAhead[tb.test]' < TestsAhead[tb.test]
    \/ /\ TestsAhead[tb.test]' = TestsAhead[tb.test]
       /\ \/ ProgramsAhead' < ProgramsAhead
          \/ /\ ProgramsAhead' = ProgramsAhead
             /\ \/ PhasesAhead[tb.phase]' < PhasesAhead[tb.phase]
                \/ /\ PhasesAhead[tb.phase]' = PhasesAhead[tb.phase]
                   /\ \/ IterationsAhead' < IterationsAhead
                      \/ IterationsAhead' = IterationsAhead /\ tb.edges' < tb.edges

\* The end of a test.
LEMMA EndNears ==
    ASSUME Shape, Countdown, tb.test # "done", Pass \/ Fail PROVE Countdown' /\ Nears
<1>1. tb'.phase = "fetch" /\ tb'.test = AfterTest[tb.test] /\ tb'.randoms = tb.randoms
  BY TestEnds
<1>2. tb.test \in {"directed", "random", "freeze", "coverage"}
  BY DEF Countdown, TestsAhead
<1>3. tb'.test \in {"random", "freeze", "coverage", "done"}
      /\ TestsAhead[tb'.test] < TestsAhead[tb.test]
  BY <1>1, <1>2 DEF AfterTest, TestsAhead
<1> QED BY <1>1, <1>3 DEF Countdown, Nears, TestsAhead, PhasesAhead

\* A program that is loaded has been taken from those to come.
LEMMA LoadNears ==
    ASSUME Shape, Session, Countdown, NEW program \in Loadable, load(program),
           tb.phase \in Between, tb.test \in {"directed", "random", "freeze"},
           tb.test = "directed" => tb.todo # <<>>, tb.test # "random" => tb.phase = "fetch",
           tb.test = "random" => tb.phase = "generate"
    PROVE  Countdown' /\ Nears
<1>1. /\ tb'.test = tb.test /\ tb'.phase = "deposit" /\ tb'.randoms = tb.randoms
      /\ tb'.todo = IF tb.test = "directed" THEN Tail(tb.todo) ELSE tb.todo
  BY LoadFits
<1>2. Countdown'
  BY <1>1 DEF Countdown, PhasesAhead
<1>3. ProgramsAhead' = ProgramsAhead
  <2>1. Len(tb.todo) \in Nat /\ tb.randoms \in Nat
    BY DEF Session, Countdown
  <2>2. CASE tb.test = "directed"
    <3>1. Len(Tail(tb.todo)) = Len(tb.todo) - 1
      BY <2>2 DEF Session
    <3> QED BY <1>1, <2>1, <2>2, <3>1 DEF ProgramsAhead
  <2>3. CASE tb.test # "directed"
    BY <1>1, <2>1, <2>3 DEF ProgramsAhead
  <2> QED BY <2>2, <2>3
<1>4. PhasesAhead[tb'.phase] < PhasesAhead[tb.phase]
  BY <1>1 DEF PhasesAhead, Between
<1> QED BY <1>1, <1>2, <1>3, <1>4 DEF Nears

\* Fetching, generating and closing a test.
LEMMA SessionNears ==
    ASSUME Shape, Session, Countdown,
           \/ core_directed_programs \/ core_random_programs \/ Generate
           \/ core_step_enable_freezes \/ core_functional_coverage
    PROVE  Countdown' /\ Nears
<1>1. CASE core_directed_programs
  <2>1. CASE tb.todo = <<>>
    BY <1>1, <2>1, EndNears DEF core_directed_programs
  <2>2. CASE tb.todo # <<>>
    <3>1. Head(tb.todo) \in Loadable
      BY <2>2 DEF Session
    <3> QED BY <1>1, <2>2, <3>1, LoadNears DEF core_directed_programs, At, Between
  <2> QED BY <2>1, <2>2
<1>2. CASE core_random_programs
  <2>1. CASE tb.randoms = 0
    BY <1>2, <2>1, EndNears DEF core_random_programs
  <2>2. CASE tb.randoms # 0
    <3>1. /\ tb' = [tb EXCEPT !.randoms = @ - 1, !.phase = "generate", !.words = <<>>]
          /\ tb.test = "random" /\ tb.phase = "fetch"
      BY <1>2, <2>2 DEF core_random_programs, At
    <3>2. /\ tb'.phase = "generate" /\ tb'.test = tb.test /\ tb'.todo = tb.todo
          /\ tb'.randoms = tb.randoms - 1
      BY <3>1 DEF Shape
    <3>3. Countdown'
      BY <2>2, <3>1, <3>2 DEF Countdown, PhasesAhead
    <3>4. ProgramsAhead' = ProgramsAhead
      <4>1. Len(tb.todo) \in Nat /\ tb.randoms \in Nat
        BY DEF Session, Countdown
      <4> QED BY <3>1, <3>2, <4>1 DEF ProgramsAhead
    <3>5. PhasesAhead[tb'.phase] < PhasesAhead[tb.phase]
      BY <3>1, <3>2 DEF PhasesAhead
    <3> QED BY <3>2, <3>3, <3>4, <3>5 DEF Nears
  <2> QED BY <2>1, <2>2
<1>3. CASE Generate
  <2>0. tb.phase = "generate" /\ tb.test = "random" /\ tb.words \in Seq(Word)
    BY <1>3 DEF Generate, At, Session
  <2>1. CASE Len(tb.words) > prologue + body_len
    <3>1. load(tb.words) /\ tb.words \in Loadable
      BY <1>3, <2>0, <2>1, GeneratedFits DEF Generate
    <3> QED BY <2>0, <3>1, LoadNears DEF Between
  <2>2. CASE ~(Len(tb.words) > prologue + body_len)
    <3>1. PICK w \in Word : tb' = [tb EXCEPT !.words = Append(@, w)]
      BY <1>3, <2>2 DEF Generate
    <3>2. /\ tb'.phase = "generate" /\ tb'.words = Append(tb.words, w) /\ tb'.test = "random"
          /\ tb'.todo = tb.todo /\ tb'.randoms = tb.randoms
      BY <2>0, <3>1 DEF Shape
    <3>3. Countdown'
      BY <2>0, <3>2 DEF Countdown
    <3>4. Len(tb.words) \in Nat /\ Len(Append(tb.words, w)) = Len(tb.words) + 1
      BY <2>0
    <3>5. IterationsAhead' < IterationsAhead
      BY <2>0, <3>2, <3>4, LayoutAssumption DEF IterationsAhead, prologue
    <3>6. ProgramsAhead' = ProgramsAhead
      BY <2>0, <3>2 DEF ProgramsAhead
    <3> QED BY <2>0, <3>2, <3>3, <3>5, <3>6 DEF Nears
  <2> QED BY <2>1, <2>2
<1>4. CASE core_step_enable_freezes
  BY <1>4, FreezeLoadable, LoadNears DEF core_step_enable_freezes, At, Between
<1>5. CASE core_functional_coverage
  BY <1>5, EndNears DEF core_functional_coverage
<1> QED BY <1>1, <1>2, <1>3, <1>4, <1>5

\* A handler that goes on to a later phase of the same program.
LEMMA PhaseNears ==
    ASSUME Shape, Countdown, NEW p \in DOMAIN PhasesAhead, tb'.phase = p, tb'.test = tb.test,
           tb'.todo = tb.todo, tb'.randoms = tb.randoms, tb.phase # "fetch", p # "fetch",
           PhasesAhead[p] < PhasesAhead[tb.phase],
           p \in {"model", "compare", "halted", "held", "state"} => tb.test # "freeze",
           p = "model" => tb'.count \in 0 .. MaxSteps,
           p = "compare" => tb'.budget \in Nat,
           p \in {"held", "frozen"} => tb'.count \in Nat
    PROVE  Countdown' /\ Nears
<1>1. Countdown'
  BY DEF Countdown
<1>2. ProgramsAhead' = ProgramsAhead
  BY DEF ProgramsAhead
<1> QED BY <1>1, <1>2 DEF Nears

\* One that stays in its phase.
LEMMA IterationNears ==
    ASSUME Shape, Countdown, tb'.phase = tb.phase, tb'.test = tb.test, tb'.todo = tb.todo,
           tb'.randoms = tb.randoms,
           tb.phase = "model" => tb'.count \in 0 .. MaxSteps,
           tb.phase = "compare" => tb'.budget \in Nat,
           tb.phase \in {"held", "frozen"} => tb'.count \in Nat,
           IterationsAhead' < IterationsAhead
    PROVE  Countdown' /\ Nears
<1>1. Countdown'
  BY DEF Countdown
<1>2. ProgramsAhead' = ProgramsAhead
  BY DEF ProgramsAhead
<1> QED BY <1>1, <1>2 DEF Nears

\* The handlers of load_and_reset, run_program and the freeze test.
LEMMA HandlerNears ==
    ASSUME Shape, Counted, Session, Countdown, Handler PROVE Countdown' /\ Nears
<1>0. tb.test # "done" /\ tb.phase # "fetch"
  BY DEF Handler, deposit, reset, run, compare, stop, check_halt, check_held,
         compare_state, warm, disable, disabled, check_frozen, enabled, resumed, At, Countdown
<1>1. CASE Pass \/ Fail
  BY <1>0, <1>1, EndNears
<1> SUFFICES ASSUME ~Pass, ~Fail PROVE Countdown' /\ Nears
  BY <1>1
<1>2. /\ tb'.test = tb.test /\ tb'.todo = tb.todo /\ tb'.randoms = tb.randoms
  BY Onward DEF Handler
<1>3. CASE deposit
  <2>1. tb.phase = "deposit" /\ tb' = [tb EXCEPT !.phase = "reset", !.edges = 2]
    BY <1>3 DEF deposit, At
  <2>2. tb'.phase = "reset"
    BY <2>1 DEF Shape
  <2> QED BY <1>2, <2>1, <2>2, PhaseNears DEF PhasesAhead
<1>4. CASE reset
  <2>1. /\ tb.phase = "reset"
        /\ tb' = [tb EXCEPT !.phase = IF tb.test = "freeze" THEN "warm" ELSE "model",
                            !.count = 0, !.expected = <<>>, !.retired = 0]
    BY <1>4 DEF reset, At
  <2>2. tb'.phase = (IF tb.test = "freeze" THEN "warm" ELSE "model") /\ tb'.count = 0
    BY <2>1 DEF Shape
  <2> QED BY <1>2, <2>1, <2>2, PhaseNears, LimitsAssumption DEF PhasesAhead
<1>5. CASE run
  <2>0. tb.phase = "model" /\ tb.test # "freeze" /\ Len(tb.expected) \in Nat
        /\ tb.count \in 0 .. MaxSteps
    BY <1>5 DEF run, At, Countdown, Counted, CountedAs
  <2>1. CASE tb.count = MaxSteps \/ m_halted
    <3>1. tb' = [tb EXCEPT !.phase = "compare", !.budget = Len(tb.expected) * 4 + SLACK]
      BY <1>5, <2>1 DEF run
    <3>2. tb'.phase = "compare" /\ tb'.budget = Len(tb.expected) * 4 + SLACK
      BY <3>1 DEF Shape
    <3>3. tb'.budget \in Nat
      BY <2>0, <3>2, LimitsAssumption
    <3> QED BY <1>2, <2>0, <3>2, <3>3, PhaseNears DEF PhasesAhead
  <2>2. CASE ~(tb.count = MaxSteps \/ m_halted)
    <3>1. PICK e : tb' = [tb EXCEPT !.count = @ + 1, !.expected = e]
      BY <1>5, <2>2 DEF run
    <3>2. tb'.phase = "model" /\ tb'.count = tb.count + 1
      BY <2>0, <3>1 DEF Shape
    <3>3. tb'.count \in 0 .. MaxSteps /\ IterationsAhead' < IterationsAhead
      BY <2>0, <2>2, <3>2, LimitsAssumption DEF IterationsAhead
    <3> QED BY <1>2, <2>0, <3>2, <3>3, IterationNears
  <2> QED BY <2>1, <2>2
<1>6. CASE compare
  <2>1. tb.phase = "compare" /\ ~(spend <= 0) /\ tb.budget \in Nat
    BY <1>6 DEF compare, At, Countdown
  <2>2. PICK c : tb' = [tb EXCEPT !.budget = spend, !.retired = retire, !.edges = 1,
                                  !.COVERAGE = c]
    BY <1>6 DEF compare
  <2>3. tb'.phase = "compare" /\ tb'.budget = spend
    BY <2>1, <2>2 DEF Shape
  <2>4. tb'.budget \in Nat /\ IterationsAhead' < IterationsAhead
    BY <2>1, <2>3 DEF spend, IterationsAhead
  <2> QED BY <1>2, <2>1, <2>3, <2>4, IterationNears
<1>7. CASE stop
  <2>1. /\ tb.phase = "compare" /\ tb.test # "freeze"
        /\ tb' = IF m_halted THEN [tb EXCEPT !.phase = "halted", !.edges = 1]
                 ELSE [tb EXCEPT !.phase = "state"]
    BY <1>7 DEF stop, At, Countdown
  <2>2. tb'.phase \in {"halted", "state"}
    BY <2>1 DEF Shape
  <2> QED BY <1>2, <2>1, <2>2, PhaseNears DEF PhasesAhead
<1>8. CASE check_halt
  <2>1. /\ tb.phase = "halted" /\ tb.test # "freeze"
        /\ tb' = [tb EXCEPT !.phase = "held", !.count = 3, !.edges = 1]
    BY <1>8 DEF check_halt, At, Countdown
  <2>2. tb'.phase = "held" /\ tb'.count = 3
    BY <2>1 DEF Shape
  <2> QED BY <1>2, <2>1, <2>2, PhaseNears DEF PhasesAhead
<1>9. CASE check_held
  <2>0. tb.phase = "held" /\ tb.test # "freeze" /\ tb.count \in Nat
    BY <1>9 DEF check_held, At, Countdown
  <2>1. CASE tb.count > 1
    <3>1. tb' = [tb EXCEPT !.count = @ - 1, !.edges = 1]
      BY <1>9, <2>1 DEF check_held
    <3>2. tb'.phase = "held" /\ tb'.count = tb.count - 1
      BY <2>0, <3>1 DEF Shape
    <3>3. tb'.count \in Nat /\ IterationsAhead' < IterationsAhead
      BY <2>0, <2>1, <3>2 DEF IterationsAhead
    <3> QED BY <1>2, <2>0, <3>2, <3>3, IterationNears
  <2>2. CASE ~(tb.count > 1)
    <3>1. PICK v : tb' = [tb EXCEPT !.phase = "state", !.COVERAGE = v]
      BY <1>9, <2>2 DEF check_held
    <3>2. tb'.phase = "state"
      BY <3>1 DEF Shape
    <3> QED BY <1>2, <2>0, <3>2, PhaseNears DEF PhasesAhead
  <2> QED BY <2>1, <2>2
<1>10. CASE compare_state
  <2>1. tb.phase = "state" /\ tb.test # "freeze" /\ tb' = [tb EXCEPT !.phase = "fetch"]
    BY <1>10 DEF compare_state, At, Countdown
  <2>2. tb'.phase = "fetch"
    BY <2>1 DEF Shape
  <2>3. Countdown'
    BY <1>2, <2>2 DEF Countdown, PhasesAhead
  <2>4. ProgramsAhead' < ProgramsAhead
    <3>1. Len(tb.todo) \in Nat /\ tb.randoms \in Nat
      BY DEF Session, Countdown
    <3> QED BY <1>2, <2>1, <2>2, <3>1 DEF ProgramsAhead
  <2> QED BY <1>2, <2>3, <2>4 DEF Nears
<1>11. CASE warm
  <2>1. tb.phase = "warm" /\ tb' = [tb EXCEPT !.phase = "disable", !.edges = 2]
    BY <1>11 DEF warm, At
  <2>2. tb'.phase = "disable"
    BY <2>1 DEF Shape
  <2> QED BY <1>2, <2>1, <2>2, PhaseNears DEF PhasesAhead
<1>12. CASE disable
  <2>1. /\ tb.phase = "disable"
        /\ tb' = [tb EXCEPT !.phase = "disabled", !.pc_before = pc, !.reg_before = regs[t0]]
    BY <1>12 DEF disable, At
  <2>2. tb'.phase = "disabled"
    BY <2>1 DEF Shape
  <2> QED BY <1>2, <2>1, <2>2, PhaseNears DEF PhasesAhead
<1>13. CASE disabled
  <2>1. tb.phase = "disabled" /\ tb' = [tb EXCEPT !.phase = "frozen", !.count = 5, !.edges = 1]
    BY <1>13 DEF disabled, At
  <2>2. tb'.phase = "frozen" /\ tb'.count = 5
    BY <2>1 DEF Shape
  <2> QED BY <1>2, <2>1, <2>2, PhaseNears DEF PhasesAhead
<1>14. CASE check_frozen
  <2>0. tb.phase = "frozen" /\ tb.count \in Nat
    BY <1>14 DEF check_frozen, At, Countdown
  <2>1. CASE tb.count > 1
    <3>1. tb' = [tb EXCEPT !.count = @ - 1, !.edges = 1]
      BY <1>14, <2>1 DEF check_frozen
    <3>2. tb'.phase = "frozen" /\ tb'.count = tb.count - 1
      BY <2>0, <3>1 DEF Shape
    <3>3. tb'.count \in Nat /\ IterationsAhead' < IterationsAhead
      BY <2>0, <2>1, <3>2 DEF IterationsAhead
    <3> QED BY <1>2, <2>0, <3>2, <3>3, IterationNears
  <2>2. CASE ~(tb.count > 1)
    <3>1. tb' = [tb EXCEPT !.phase = "enabled"]
      BY <1>14, <2>2 DEF check_frozen
    <3>2. tb'.phase = "enabled"
      BY <3>1 DEF Shape
    <3> QED BY <1>2, <2>0, <3>2, PhaseNears DEF PhasesAhead
  <2> QED BY <2>1, <2>2
<1>15. CASE enabled
  <2>1. tb.phase = "enabled" /\ tb' = [tb EXCEPT !.phase = "resumed", !.edges = 1]
    BY <1>15 DEF enabled, At
  <2>2. tb'.phase = "resumed"
    BY <2>1 DEF Shape
  <2> QED BY <1>2, <2>1, <2>2, PhaseNears DEF PhasesAhead
<1>16. CASE resumed
  BY <1>16 DEF resumed
<1> QED BY <1>3, <1>4, <1>5, <1>6, <1>7, <1>8, <1>9, <1>10, <1>11, <1>12, <1>13, <1>14,
           <1>15, <1>16 DEF Handler

\* An edge brings the next handler nearer.
LEMMA EdgeNears ==
    ASSUME Shape, Counted, Countdown, RisingEdge PROVE Countdown' /\ Nears
<1>1. tb.edges \in Nat /\ tb' = [tb EXCEPT !.edges = @ - 1]
  BY DEF RisingEdge, Counted, CountedAs
<1>2. /\ tb'.test = tb.test /\ tb'.phase = tb.phase /\ tb'.todo = tb.todo
      /\ tb'.randoms = tb.randoms /\ tb'.words = tb.words /\ tb'.count = tb.count
      /\ tb'.budget = tb.budget /\ tb'.edges = tb.edges - 1
  BY <1>1 DEF Shape
<1> QED BY <1>1, <1>2 DEF Countdown, Nears, ProgramsAhead, IterationsAhead

\* Every step counts down, and no counter leaves its range.
LEMMA CountdownKept ==
    ASSUME Shape, Counted, Session, Countdown, [RegressionNext]_regressionVars
    PROVE  Countdown' /\ [Nears]_regressionVars
<1>1. CASE UNCHANGED regressionVars
  BY <1>1 DEF regressionVars, Countdown
<1> QED BY <1>1, EdgeNears, HandlerNears, SessionNears DEF RegressionNext, Test, Handler

\* A session starts with all of its tests ahead.
LEMMA CountdownStarts == ASSUME RegressionInit PROVE Countdown
<1>1. PICK suite \in Suites, n \in RANDOMS :
        tb = [test |-> "directed", phase |-> "fetch", todo |-> suite, randoms |-> n,
              words |-> <<>>, edges |-> 0, count |-> 0, expected |-> <<>>, retired |-> 0,
              budget |-> 0, pc_before |-> 0, reg_before |-> 0, COVERAGE |-> {},
              failed |-> {}]
  BY DEF RegressionInit
<1>2. tb.test = "directed" /\ tb.phase = "fetch" /\ tb.randoms \in Nat
  BY <1>1, LimitsAssumption
<1> QED BY <1>2 DEF Countdown, TestsAhead, PhasesAhead

\* The five numbers are numbers.
Numbered ==
    /\ TestsAhead[tb.test] \in Nat /\ ProgramsAhead \in Nat
    /\ PhasesAhead[tb.phase] \in Nat /\ IterationsAhead \in Nat /\ tb.edges \in Nat

\* Every step of a session, whatever core it meets, however its programs are cut
\* off and whichever comparisons fail, brings its end nearer: run_program's loops
\* are bounded by max_steps and the budget (tb_core.py:109-123, iss.py:250).
THEOREM SessionShrinksCorrect == RegressionSpec => SessionShrinks
<1> DEFINE Inv == Shape /\ Counted /\ Bits /\ Session /\ Countdown
<1>1. RegressionInit => Inv
  BY Started, SessionStarts, CountdownStarts
<1>2. Inv /\ [RegressionNext]_regressionVars => Inv' /\ [Nears]_regressionVars
  BY Kept, SessionKept, CountdownKept
<1>3. Inv => Numbered
  BY AheadTypes DEF Numbered, Counted, CountedAs
<1>4. Numbered /\ Numbered' /\ [Nears]_regressionVars
        => [Nearer(Ahead, Ahead')]_regressionVars
  <2> SUFFICES ASSUME Numbered, Numbered', Nears PROVE Nearer(Ahead, Ahead')
    OBVIOUS
  <2>1. PICK a1 \in Nat, a2 \in Nat, a3 \in Nat, a4 \in Nat, a5 \in Nat :
          /\ a1 = TestsAhead[tb.test] /\ a2 = ProgramsAhead /\ a3 = PhasesAhead[tb.phase]
          /\ a4 = IterationsAhead /\ a5 = tb.edges
    BY DEF Numbered
  <2>2. PICK b1 \in Nat, b2 \in Nat, b3 \in Nat, b4 \in Nat, b5 \in Nat :
          /\ b1 = TestsAhead[tb.test]' /\ b2 = ProgramsAhead' /\ b3 = PhasesAhead[tb.phase]'
          /\ b4 = IterationsAhead' /\ b5 = tb.edges'
    BY DEF Numbered
  <2>3. Ahead = <<a1, a2, a3, a4, a5>> /\ Ahead' = <<b1, b2, b3, b4, b5>>
    BY <2>1, <2>2 DEF Ahead
  <2>4. \/ b1 < a1
        \/ b1 = a1 /\ b2 < a2
        \/ b1 = a1 /\ b2 = a2 /\ b3 < a3
        \/ b1 = a1 /\ b2 = a2 /\ b3 = a3 /\ b4 < a4
        \/ b1 = a1 /\ b2 = a2 /\ b3 = a3 /\ b4 = a4 /\ b5 < a5
    BY <2>1, <2>2 DEF Nears
  <2> PICK s, t : s = <<a1, a2, a3, a4, a5>> /\ t = <<b1, b2, b3, b4, b5>>
    OBVIOUS
  <2>5. s \in [1 .. 5 -> Nat] /\ t \in [1 .. 5 -> Nat]
    OBVIOUS
  <2>6. /\ s[1] = a1 /\ s[2] = a2 /\ s[3] = a3 /\ s[4] = a4 /\ s[5] = a5
        /\ t[1] = b1 /\ t[2] = b2 /\ t[3] = b3 /\ t[4] = b4 /\ t[5] = b5
    OBVIOUS
  <2>7. Nearer(s, t)
    BY <2>4, <2>5, <2>6, NearerBy
  <2> QED BY <2>3, <2>7
<1> HIDE DEF Inv
<1> QED BY <1>1, <1>2, <1>3, <1>4, PTL DEF RegressionSpec, SessionShrinks

-----------------------------------------------------------------------------
(* The outcome bins.  A program whose first word destroys itself in reset    *)
(* must not retire anything unsampled either: it ends before its second      *)
(* instruction.                                                              *)

\* A lane of the first word that the store in it has cleared.
Lost == \E l \in Lane : mem[0][l] = 0 /\ Loaded[0][l] # 0

\* What the model expects of that first word.
FirstExpected == Len(tb.expected) > 0 /\ tb.expected[1] = CommitOf(First)

\* A program that destroys its first word gets no further than the comparison
\* of its first instruction.
Destroyed ==
    /\ tb.phase = "deposit" => rst /\ step_en /\ (tb.edges = 0 => Fresh)
    /\ tb.phase = "reset" =>
          rst /\ step_en /\ Fresh /\ IF tb.edges = 2 THEN mem = Loaded ELSE Lost
    /\ tb.phase = "model" =>
          /\ ~rst /\ step_en /\ Fresh /\ Lost /\ \E S : tb.expected \in Seq(S)
          /\ IF tb.count = 0 THEN ModelState = First /\ ~m_halted /\ tb.expected = <<>>
             ELSE FirstExpected
    /\ tb.phase = "compare" =>
          /\ ~rst /\ step_en /\ tb.retired = 0 /\ FirstExpected
          /\ halted \/ (Fresh /\ Lost)
          /\ tb.edges = 1 => ~dut_valid
    /\ tb.phase \notin {"halted", "held", "state"} \cup Freezing

DestroyedSoon ==
    bug = "none" /\ tb.phase \notin Between /\ StoresOverItself(tb.words) => Destroyed

\* A store of zero puts zeros in the lanes it writes.
LEMMA ZeroLanes ==
    ASSUME NEW o, NEW l \in Lane PROVE wdata_lanes(o, 0)[l] = 0
<1>1. ByteMod \in Nat /\ ByteMod > 0 /\ ByteMod * ByteMod \in Nat /\ ByteMod * ByteMod > 0
      /\ ByteMod * ByteMod * ByteMod \in Nat /\ ByteMod * ByteMod * ByteMod > 0
  <2>1. ByteMod \in Nat /\ ByteMod > 0
    BY WidthAssumption
  <2>2. \A v, w \in Nat : v > 0 /\ w > 0 => v * w \in Nat /\ v * w > 0
    OBVIOUS
  <2>3. ByteMod * ByteMod \in Nat /\ ByteMod * ByteMod > 0
    BY <2>1, <2>2
  <2> QED BY <2>1, <2>2, <2>3
<1>2. \A n \in Nat : n > 0 => 0 \div n = 0 /\ 0 % n = 0
  OBVIOUS
<1>3. \A i \in Lane : ToLanes(0)[i] = 0
  BY <1>1, <1>2 DEF ToLanes, Lane
<1>4. l % 2 \in Lane /\ 0 \in Lane
  BY DEF Lane
<1> QED BY <1>3, <1>4 DEF wdata_lanes

\* Zeros never bring a lost lane back.
LEMMA LostForEver ==
    ASSUME tb.words \in Loadable, TypeOK, Fresh, step_en, Clock, Lost, tb'.words = tb.words
    PROVE  Lost'
<1>1. 0 \in Index /\ mem \in [Index -> MemWord] /\ Loaded' = Loaded
  BY PaddedType, ProgramKept DEF TypeOK, MemoryTypeOK
<1>2. PICK l \in Lane : mem[0][l] = 0 /\ Loaded[0][l] # 0
  BY DEF Lost
<1>3. d_wdata = 0
  <2>1. f \in Instruction
    BY SignalTypes
  <2> QED BY <2>1 DEF d_wdata, rs2_data, Fresh, Instruction
<1>4. mem' = mem \/ mem' = [mem EXCEPT ![WordIndex(d_addr)] = merged(@, d_addr, d_op, 0)]
  BY <1>3 DEF Clock, MemoryEdge
<1>5. mem'[0] = mem[0] \/ mem'[0] = merged(mem[0], d_addr, d_op, 0)
  BY <1>1, <1>4
<1>6. merged(mem[0], d_addr, d_op, 0)[l] = 0
  BY <1>2, ZeroLanes DEF merged
<1> QED BY <1>1, <1>2, <1>5, <1>6 DEF Lost

\* The first edge in reset destroys it.
LEMMA LostAtOnce ==
    ASSUME tb.words \in Loadable, StoresOverItself(tb.words), Fresh, mem = Loaded, step_en,
           Clock, tb'.words = tb.words
    PROVE  Lost'
<1>1. Writes /\ Stored[0] # Loaded[0] /\ WordIndex(Target) = 0
  BY TargetType
<1>2. mem' = Stored /\ Loaded' = Loaded
  BY FirstEdge, ProgramKept
<1>3. Loaded \in [Index -> MemWord] /\ 0 \in Index
  BY PaddedType
<1>4. Stored[0] = merged(Loaded[0], Target, Fields(Padded[0]).funct3, 0)
  BY <1>1, <1>3 DEF Stored
<1>5. \A l \in Lane : Stored[0][l] = 0 \/ Stored[0][l] = Loaded[0][l]
  BY <1>4, ZeroLanes DEF merged
<1>6. \E l \in Lane : Stored[0][l] # Loaded[0][l]
  <2>1. Loaded[0] \in [Lane -> Byte]
    BY <1>3 DEF MemWord
  <2>2. Loaded[0] = [l \in Lane |-> Loaded[0][l]]
    BY <2>1
  <2>3. Stored[0] = [l \in Lane |-> Stored[0][l]]
    BY <1>4 DEF merged
  <2>4. ASSUME \A l \in Lane : Stored[0][l] = Loaded[0][l] PROVE FALSE
    <3>1. [l \in Lane |-> Stored[0][l]] = [l \in Lane |-> Loaded[0][l]]
      BY <2>4
    <3> QED BY <1>1, <2>2, <2>3, <3>1
  <2> QED BY <2>4
<1>7. PICK l \in Lane : Stored[0][l] # Loaded[0][l]
  BY <1>6
<1>8. Stored[0][l] = 0 /\ Loaded[0][l] # 0
  BY <1>5, <1>7
<1> QED BY <1>2, <1>8 DEF Lost

\* The scoreboard notices.
LEMMA LostShows ==
    ASSUME tb.words \in Loadable, TypeOK, Fresh, Lost
    PROVE  ~compare_commit(commit, CommitOf(First))
<1>1. 0 \in Index /\ mem[0] \in MemWord /\ Loaded[0] \in MemWord
  BY PaddedType DEF TypeOK, MemoryTypeOK
<1>2. WordIndex(0) = 0
  BY SizeAssumption DEF WordIndex
<1>3. commit.inst = FromLanes[mem[0]]
  BY <1>2 DEF commit, inst, i_rdata, Fresh
<1>4. CommitOf(First).inst = Padded[0] /\ Padded[0] = FromLanes[Loaded[0]]
  <2> DEFINE zeros == [r \in Reg |-> 0]
  <2>1. First.mem = Padded /\ First.regs = zeros /\ First.pc = 0
    BY DEF First
  <2>2. Machine(Padded, zeros, 0)!inst = Padded[0]
    BY <1>2, MachineShared DEF Machine!inst
  <2>3. WordsOf(Loaded)[0] = FromLanes[Loaded[0]]
    BY <1>1 DEF WordsOf
  <2> QED BY <2>1, <2>2, <2>3, PaddedType DEF CommitOf, Machine!Commit
<1>5. ASSUME FromLanes[mem[0]] = FromLanes[Loaded[0]] PROVE FALSE
  <2>1. PICK l \in Lane : mem[0][l] = 0 /\ Loaded[0][l] # 0
    BY DEF Lost
  <2>2. mem[0][l] = Loaded[0][l]
    BY <1>1, <1>5, Slices
  <2> QED BY <2>1, <2>2
<1>6. commit.inst # CommitOf(First).inst
  BY <1>3, <1>4, <1>5
<1> QED BY <1>6 DEF compare_commit
\* A rising edge: the first destroys the word, the core either retires what is
\* left of it or stops.
LEMMA DestroyedAtEdge ==
    ASSUME Shape, Counted, Session, TypeOK, WellFormed, bug = "none", tb.phase \notin Between,
           StoresOverItself(tb.words), Destroyed, RisingEdge
    PROVE  Destroyed'
<1>1. /\ tb.edges > 0 /\ tb.edges \in Nat /\ Clock /\ rst' = rst /\ step_en' = step_en
      /\ UNCHANGED model /\ tb.words \in Loadable
  BY UnmodifiedCore DEF RisingEdge, Counted, CountedAs, Session
<1>2. /\ tb'.phase = tb.phase /\ tb'.edges = tb.edges - 1 /\ tb'.words = tb.words
      /\ tb'.expected = tb.expected /\ tb'.retired = tb.retired
  BY DEF RisingEdge, Shape
<1>3. Loaded' = Loaded /\ First' = First
  BY <1>2, ProgramKept
<1>4. CASE tb.phase = "deposit"
  <2>1. rst /\ step_en
    BY <1>4 DEF Destroyed
  <2>2. Fresh'
    BY <1>1, <2>1 DEF Clock, RegfileEdge, PcEdge, HaltEdge, RESET_PC, Fresh
  <2> QED BY <1>1, <1>2, <1>4, <2>1, <2>2 DEF Destroyed, Freezing
<1>5. CASE tb.phase = "reset"
  <2>1. /\ rst /\ step_en /\ Fresh /\ tb.edges \in {1, 2}
        /\ IF tb.edges = 2 THEN mem = Loaded ELSE Lost
    BY <1>1, <1>5 DEF Destroyed, Counted, CountedAs
  <2>2. Fresh'
    BY <1>1, <2>1 DEF Clock, RegfileEdge, PcEdge, HaltEdge, RESET_PC, Fresh
  <2>3. Lost'
    BY <1>1, <1>2, <2>1, LostAtOnce, LostForEver
  <2> QED BY <1>1, <1>2, <1>5, <2>1, <2>2, <2>3 DEF Destroyed, Freezing
<1>6. CASE tb.phase = "model"
  BY <1>1, <1>6 DEF Counted, CountedAs
<1>7. CASE tb.phase = "compare"
  <2>1. /\ ~rst /\ step_en /\ tb.retired = 0 /\ FirstExpected /\ tb.edges = 1 /\ ~dut_valid
        /\ halted \in BOOLEAN /\ rst \in BOOLEAN
    BY <1>1, <1>7 DEF Destroyed, Counted, CountedAs, TypeOK
  <2>2. ~halted => trap
    BY <2>1, UnmodifiedCore DEF commit_valid
  <2>3. halted'
    BY <1>1, <2>1, <2>2 DEF Clock, HaltEdge
  <2>4. FirstExpected'
    BY <1>2, <1>3, <2>1 DEF FirstExpected
  <2> QED BY <1>1, <1>2, <1>7, <2>1, <2>3, <2>4 DEF Destroyed, Freezing
<1>8. CASE tb.phase \notin {"deposit", "reset", "model", "compare"}
  BY <1>2, <1>8 DEF Destroyed, Freezing
<1> QED BY <1>4, <1>5, <1>6, <1>7, <1>8

\* What the model expects of the first word, once it is past it.
LEMMA DestroyedInModel ==
    ASSUME Shape, Counted, Session, Countdown, tb.phase = "model", bug = "none",
           StoresOverItself(tb.words), Destroyed, run
    PROVE  Destroyed'
<1>1. /\ ~rst /\ step_en /\ Fresh /\ Lost /\ tb.edges = 0 /\ tb.retired = 0
      /\ tb.count \in 0 .. MaxSteps /\ MaxSteps \in Nat \ {0} /\ tb.words \in Loadable
  BY LimitsAssumption DEF Destroyed, Counted, CountedAs, Countdown, Session, Between
<1>2. PICK S : tb.expected \in Seq(S)
  BY DEF Destroyed
<1>3. /\ UNCHANGED arch /\ rst' = rst /\ step_en' = step_en
  BY DEF run, Still, vars
<1>4. CASE tb.count = MaxSteps \/ m_halted
  <2>1. tb' = [tb EXCEPT !.phase = "compare", !.budget = Len(tb.expected) * 4 + SLACK]
    BY <1>4 DEF run
  <2>2. /\ tb'.phase = "compare" /\ tb'.words = tb.words /\ tb'.expected = tb.expected
        /\ tb'.edges = 0 /\ tb'.retired = 0
    BY <1>1, <2>1 DEF Shape
  <2>3. FirstExpected
    BY <1>1, <1>4 DEF Destroyed
  <2>4. FirstExpected' /\ Fresh' /\ Lost'
    BY <1>1, <1>3, <2>2, <2>3, ProgramKept, CoreKept DEF FirstExpected, Lost
  <2> QED BY <1>1, <1>3, <2>2, <2>4 DEF Destroyed, Freezing
<1>5. CASE ~(tb.count = MaxSteps \/ m_halted)
  <2>1. PICK e : /\ e = IF Model!Cause = HALT_NONE THEN Append(tb.expected, Model!Commit)
                        ELSE tb.expected
                 /\ tb' = [tb EXCEPT !.count = @ + 1, !.expected = e]
    BY <1>5 DEF run
  <2>2. /\ tb'.phase = "model" /\ tb'.words = tb.words /\ tb'.expected = e
        /\ tb'.count = tb.count + 1
    BY <2>1 DEF Shape
  <2>3. Fresh' /\ Lost' /\ First' = First /\ ~rst' /\ step_en'
    BY <1>1, <1>3, <2>2, ProgramKept, CoreKept DEF Lost
  <2>4. PICK T : T = S \cup {Model!Commit}
    OBVIOUS
  <2>5. tb.expected \in Seq(T) /\ Model!Commit \in T
    <3>1. S \subseteq T /\ Model!Commit \in T
      BY <2>4
    <3> QED BY <1>2, <3>1
  <2>6. e \in Seq(T)
    BY <2>1, <2>5
  <2>7. Len(e) > 0 /\ e[1] = CommitOf(First)
    <3>1. CASE tb.count = 0
      <4>1. ModelState = First /\ tb.expected = <<>>
        BY <3>1 DEF Destroyed
      <4>2. Model!Cause = HALT_NONE /\ Model!Commit = CommitOf(First)
        BY <1>1, <4>1, TargetType, WritesRetire, ModelAfter
      <4> QED BY <2>1, <4>1, <4>2
    <3>2. CASE tb.count # 0
      <4>1. Len(tb.expected) > 0 /\ tb.expected[1] = CommitOf(First)
        BY <3>2 DEF Destroyed, FirstExpected
      <4>2. 1 \in 1 .. Len(tb.expected)
        BY <2>5, <4>1
      <4> QED BY <2>1, <2>5, <4>1, <4>2
    <3> QED BY <3>1, <3>2
  <2>8. FirstExpected'
    BY <2>2, <2>3, <2>7 DEF FirstExpected
  <2>9. tb'.count # 0
    BY <1>1, <2>2
  <2> QED BY <2>2, <2>3, <2>6, <2>8, <2>9 DEF Destroyed, Freezing
<1> QED BY <1>4, <1>5

\* The scoreboard's first comparison of it is its last.
LEMMA DestroyedShows ==
    ASSUME Shape, Counted, Session, TypeOK, tb.phase = "compare", bug = "none", bug' = bug,
           Destroyed, compare, StoresOverItself(tb.words)
    PROVE  Fail \/ (Destroyed' /\ ~dut_valid)
<1>1. /\ ~rst /\ step_en /\ tb.retired = 0 /\ FirstExpected /\ tb.edges = 0
      /\ (halted \/ (Fresh /\ Lost)) /\ tb.words \in Loadable
  BY DEF Destroyed, compare, At, Session, Between
<1>2. CASE halted
  BY <1>2 DEF compare
<1>3. CASE ~halted /\ dut_valid
  <2>1. ~compare_commit(dut_commit, CommitOf(First))
    BY <1>1, <1>3, LostShows, UnmodifiedCore
  <2>2. tb.expected[tb.retired + 1] = CommitOf(First)
    BY <1>1 DEF FirstExpected
  <2> QED BY <1>3, <2>1, <2>2 DEF compare
<1>4. CASE ~halted /\ ~dut_valid
  <2> SUFFICES ASSUME ~Fail PROVE Destroyed'
    BY <1>4
  <2>1. PICK c : tb' = [tb EXCEPT !.budget = spend, !.retired = retire, !.edges = 1,
                                  !.COVERAGE = c] /\ Still
    BY DEF compare
  <2>2. /\ tb'.phase = "compare" /\ tb'.words = tb.words /\ tb'.expected = tb.expected
        /\ tb'.retired = 0 /\ tb'.edges = 1
    BY <1>1, <1>4, <2>1 DEF Shape, retire
  <2>3. UNCHANGED vars /\ UNCHANGED arch /\ rst' = rst /\ step_en' = step_en
    BY <2>1 DEF Still, vars
  <2>4. ~dut_valid'
    BY <1>4, <2>3, Steady
  <2>5. FirstExpected' /\ Fresh' /\ Lost'
    BY <1>1, <1>4, <2>2, <2>3, ProgramKept, CoreKept DEF FirstExpected, Lost
  <2> QED BY <1>1, <2>2, <2>3, <2>4, <2>5 DEF Destroyed, Freezing
<1> QED BY <1>2, <1>3, <1>4

\* The handlers: such a program fails at the first comparison, or its budget ends.
LEMMA DestroyedByHandler ==
    ASSUME Shape, Counted, Session, Countdown, TypeOK, bug = "none", bug' = bug,
           StoresOverItself(tb.words), Destroyed, Handler
    PROVE  tb'.phase \in Between \/ Destroyed'
<1>0. tb.words \in Loadable
  BY SameProgram DEF Session
<1>1. CASE deposit
  <2>1. tb.phase = "deposit" /\ tb.edges = 0 /\ tb' = [tb EXCEPT !.phase = "reset", !.edges = 2]
    BY <1>1 DEF deposit, At
  <2>2. tb'.phase = "reset" /\ tb'.words = tb.words /\ tb'.edges = 2
    BY <2>1 DEF Shape
  <2>3. rst /\ step_en /\ Fresh
    BY <2>1 DEF Destroyed
  <2>4. mem' = Loaded /\ Loaded' = Loaded
    BY <1>1, <2>2, ProgramKept DEF deposit, Loaded
  <2>5. rst' /\ step_en' /\ Fresh'
    BY <1>1, <2>3 DEF deposit, Fresh
  <2> QED BY <2>2, <2>4, <2>5 DEF Destroyed, Freezing
<1>2. CASE reset
  <2>1. /\ tb.phase = "reset" /\ tb.edges = 0
        /\ tb' = [tb EXCEPT !.phase = IF tb.test = "freeze" THEN "warm" ELSE "model",
                            !.count = 0, !.expected = <<>>, !.retired = 0]
    BY <1>2 DEF reset, At
  <2>2. tb.test # "freeze"
    <3> SUFFICES ASSUME tb.test = "freeze" PROVE FALSE
      OBVIOUS
    <3>1. tb.words = FREEZE
      BY <2>1 DEF Session
    <3> QED BY <1>0, <3>1, FreezeWritesNot, TargetType
  <2>3. /\ tb'.phase = "model" /\ tb'.words = tb.words /\ tb'.count = 0 /\ tb'.expected = <<>>
    BY <2>1, <2>2 DEF Shape
  <2>4. step_en /\ Fresh /\ Lost
    BY <2>1 DEF Destroyed
  <2>5. rst' = FALSE /\ step_en' /\ Fresh' /\ Lost' /\ First' = First
    BY <1>2, <2>3, <2>4, CoreKept, ProgramKept DEF reset, Lost
  <2>6. m_mem' = Padded /\ m_regs' = [r \in Reg |-> 0] /\ m_pc' = 0 /\ m_halted' = FALSE
    BY <1>2 DEF reset
  <2>7. ModelState' = First
    BY <2>6 DEF ModelState, First
  <2>8. tb'.expected \in Seq({})
    <3>1. <<>> \in Seq({})
      OBVIOUS
    <3> QED BY <2>3, <3>1
  <2> QED BY <2>3, <2>5, <2>6, <2>7, <2>8 DEF Destroyed, Freezing
<1>3. CASE run
  BY <1>3, DestroyedInModel DEF run, At
<1>4. CASE compare
  BY <1>4, DestroyedShows, TestEnds DEF compare, At, Between
<1>5. CASE stop
  <2>1. tb.phase = "compare" /\ ~More
    BY <1>5 DEF stop, At
  <2> QED BY <2>1 DEF More, Destroyed, FirstExpected
<1>6. CASE \/ check_halt \/ check_held \/ compare_state
           \/ warm \/ disable \/ disabled \/ check_frozen \/ enabled \/ resumed
  BY <1>6 DEF check_halt, check_held, compare_state, warm, disable, disabled, check_frozen,
              enabled, resumed, At, Destroyed, Freezing
<1> QED BY <1>1, <1>2, <1>3, <1>4, <1>5, <1>6 DEF Handler

\* Every step of the session.
LEMMA DestroyedKept ==
    ASSUME Shape, Counted, Session, Countdown, Lockstep, DestroyedSoon,
           [RegressionNext]_regressionVars
    PROVE  DestroyedSoon'
<1>1. bug' = bug
  BY DEF RegressionNext, regressionVars
<1> SUFFICES ASSUME bug = "none", tb'.phase \notin Between, StoresOverItself(tb.words)'
             PROVE  Destroyed'
  BY <1>1 DEF DestroyedSoon
<1>2. TypeOK /\ WellFormed
  BY DEF Lockstep
<1>3. CASE RisingEdge
  <2>1. tb'.phase = tb.phase /\ tb'.words = tb.words
    BY <1>3 DEF RisingEdge, Shape
  <2> QED BY <1>2, <1>3, <2>1, ProgramKept, DestroyedAtEdge DEF DestroyedSoon
<1>4. CASE \/ core_directed_programs \/ core_random_programs \/ Generate
           \/ core_step_enable_freezes \/ core_functional_coverage
  <2>1. CASE \E program \in Loadable : load(program)
    <3>1. tb'.phase = "deposit" /\ tb'.edges = 1 /\ rst' /\ step_en'
      BY <2>1, LoadFits
    <3> QED BY <3>1 DEF Destroyed, Freezing
  <2>2. CASE tb'.phase \in Between
    BY <2>2
  <2> QED BY <1>4, <2>1, <2>2, SessionSteps, TestEnds DEF Between
<1>5. CASE Handler
  BY <1>1, <1>2, <1>5, SameProgram, ProgramKept, DestroyedByHandler DEF DestroyedSoon
<1>6. CASE UNCHANGED regressionVars
  <2>1. tb' = tb /\ UNCHANGED vars /\ UNCHANGED arch /\ rst' = rst /\ step_en' = step_en
        /\ UNCHANGED model
    BY <1>6 DEF regressionVars, vars
  <2>2. dut_valid' = dut_valid
    BY <1>1, <2>1, Steady
  <2>3. /\ (Fresh' <=> Fresh) /\ mem' = mem /\ halted' = halted /\ Loaded' = Loaded
        /\ First' = First /\ ModelState' = ModelState /\ m_halted' = m_halted
    BY <2>1, ProgramKept, CoreKept, ChainKept
  <2>4. (Lost' <=> Lost) /\ (FirstExpected' <=> FirstExpected)
    BY <2>1, <2>3 DEF Lost, FirstExpected
  <2>5. Destroyed' <=> Destroyed
    BY <2>1, <2>2, <2>3, <2>4 DEF Destroyed
  <2> QED BY <2>1, <2>5, ProgramKept DEF DestroyedSoon
<1> QED BY <1>3, <1>4, <1>5, <1>6 DEF RegressionNext, Test, Handler

-----------------------------------------------------------------------------
(* Sampling, comparison by comparison *)

\* A test bench between two programs awaits nothing.
Settled == tb.phase \in Between => tb.edges = 0

\* What the branch at the next rising edge does, if one retires.
Branched ==
    IF dut_valid /\ branch(f)
    THEN {IF ~dut_taken THEN "not-taken" ELSE IF imm(f) = 4 THEN "taken-by-4" ELSE "taken"}
    ELSE {}

\* The outcome bins of C say what the branches O did.
Told(C, O) ==
    /\ <<"outcome", "taken">> \in C <=> "taken" \in O
    /\ <<"outcome", "not-taken">> \in C <=> {"not-taken", "taken-by-4"} \cap O # {}

\* The comparison samples before the edge, the core branches at it.
Pending == IF tb.phase = "compare" /\ tb.edges = 1 THEN Branched ELSE {}
Sampled == bug = "none" => Told(tb.COVERAGE, outcomes \cup Pending)

\* Of the handlers only the comparison touches the outcome bins.
LEMMA HandlerBins ==
    ASSUME Shape, Handler, ~compare
    PROVE  /\ tb'.phase \in Between \cup {"compare"} => tb'.edges = 0
           /\ \A x : <<"outcome", x>> \in tb'.COVERAGE <=> <<"outcome", x>> \in tb.COVERAGE
           /\ outcomes' = outcomes
<1>0. tb.edges = 0
  BY DEF Handler, deposit, reset, run, compare, stop, check_halt, check_held,
         compare_state, warm, disable, disabled, check_frozen, enabled, resumed, At
<1>1. CASE Pass \/ Fail
  <2>1. tb'.COVERAGE = tb.COVERAGE
    <3>1. CASE Pass
      BY <3>1 DEF Pass, NextTest, Shape
    <3>2. CASE Fail
      BY <3>2 DEF Fail, NextTest, Shape
    <3> QED BY <1>1, <3>1, <3>2
  <2> QED BY <1>0, <1>1, <2>1, TestEnds DEF Still, history
<1> SUFFICES ASSUME ~Pass, ~Fail
             PROVE  /\ tb'.phase \in Between \cup {"compare"} => tb'.edges = 0
                    /\ \A x : <<"outcome", x>> \in tb'.COVERAGE
                                <=> <<"outcome", x>> \in tb.COVERAGE
                    /\ outcomes' = outcomes
  BY <1>1
<1>2. outcomes' = outcomes
  BY DEF Handler, deposit, reset, run, stop, check_halt, check_held, compare_state, warm,
         disable, disabled, check_frozen, enabled, resumed, Still, history
<1>3. CASE deposit
  BY <1>2, <1>3 DEF deposit, Shape, Between
<1>4. CASE reset
  BY <1>2, <1>4 DEF reset, Shape, Between
<1>5. CASE run
  <2>1. CASE tb.count = MaxSteps \/ m_halted
    <3>1. tb' = [tb EXCEPT !.phase = "compare", !.budget = Len(tb.expected) * 4 + SLACK]
      BY <1>5, <2>1 DEF run
    <3> QED BY <1>0, <1>2, <3>1 DEF Shape
  <2>2. CASE ~(tb.count = MaxSteps \/ m_halted)
    <3>1. PICK c, e : tb' = [tb EXCEPT !.count = c, !.expected = e]
      BY <1>5, <2>2 DEF run
    <3> QED BY <1>0, <1>2, <3>1 DEF Shape
  <2> QED BY <2>1, <2>2
<1>6. CASE stop
  <2>1. tb' = IF m_halted THEN [tb EXCEPT !.phase = "halted", !.edges = 1]
              ELSE [tb EXCEPT !.phase = "state"]
    BY <1>6 DEF stop
  <2> QED BY <1>2, <2>1 DEF Shape, Between
<1>7. CASE check_halt
  <2>1. tb' = [tb EXCEPT !.phase = "held", !.count = 3, !.edges = 1]
    BY <1>7 DEF check_halt
  <2> QED BY <1>2, <2>1 DEF Shape, Between
<1>8. CASE check_held
  <2>1. \/ tb' = [tb EXCEPT !.count = @ - 1, !.edges = 1]
        \/ tb' = [tb EXCEPT !.phase = "state", !.COVERAGE = @ \cup {<<"halt", m_halt_cause>>}]
    BY <1>8 DEF check_held
  <2>2. tb.phase = "held"
    BY <1>8 DEF check_held, At
  <2>3. tb'.phase \in {"held", "state"}
        /\ tb'.COVERAGE \in {tb.COVERAGE, tb.COVERAGE \cup {<<"halt", m_halt_cause>>}}
    BY <2>1, <2>2 DEF Shape
  <2>4. \A x : <<"outcome", x>> # <<"halt", m_halt_cause>>
    OBVIOUS
  <2> QED BY <1>2, <2>3, <2>4 DEF Between
<1>9. CASE compare_state
  <2>1. tb' = [tb EXCEPT !.phase = "fetch"]
    BY <1>9 DEF compare_state
  <2> QED BY <1>0, <1>2, <2>1 DEF Shape
<1>10. CASE warm \/ disable \/ disabled \/ enabled \/ resumed
  BY <1>2, <1>10 DEF warm, disable, disabled, enabled, resumed, Shape, Between
<1>11. CASE check_frozen
  <2>1. PICK c : \/ tb' = [tb EXCEPT !.count = c, !.edges = 1]
                 \/ tb' = [tb EXCEPT !.phase = "enabled"]
    BY <1>11 DEF check_frozen
  <2>2. tb.phase = "frozen"
    BY <1>11 DEF check_frozen, At
  <2> QED BY <1>2, <2>1, <2>2 DEF Shape, Between
<1> QED BY <1>3, <1>4, <1>5, <1>6, <1>7, <1>8, <1>9, <1>10, <1>11 DEF Handler

\* Only the phases of a program await edges.
LEMMA SettledKept ==
    ASSUME Shape, Counted, Countdown, Settled, [RegressionNext]_regressionVars PROVE Settled'
<1>1. CASE RisingEdge
  <2>1. tb.edges > 0 /\ tb.edges \in Nat /\ tb'.phase = tb.phase
    BY <1>1 DEF RisingEdge, Shape, Counted, CountedAs
  <2> QED BY <2>1 DEF Settled
<1>2. CASE Test /\ (Pass \/ Fail)
  <2>1. tb.edges = 0
    BY <1>2 DEF Test, core_directed_programs, core_random_programs, Generate,
         core_step_enable_freezes, core_functional_coverage, deposit, reset, run, compare,
         stop, check_halt, check_held, compare_state, warm, disable, disabled, check_frozen,
         enabled, resumed, At
  <2> QED BY <1>2, <2>1, TestEnds DEF Settled
<1>3. CASE Handler /\ ~(Pass \/ Fail)
  <2>1. CASE compare
    <3>1. PICK b, c : tb' = [tb EXCEPT !.budget = b, !.retired = retire, !.edges = 1,
                                       !.COVERAGE = c] /\ tb.phase = "compare"
      BY <1>3, <2>1 DEF compare, At
    <3>2. tb'.phase = "compare"
      BY <3>1 DEF Shape
    <3> QED BY <3>2 DEF Settled, Between
  <2>2. CASE ~compare
    BY <1>3, <2>2, HandlerBins DEF Settled
  <2> QED BY <2>1, <2>2
<1>4. CASE /\ \/ core_directed_programs \/ core_random_programs \/ Generate
              \/ core_step_enable_freezes \/ core_functional_coverage
           /\ ~(Pass \/ Fail)
  <2>1. CASE \E program : load(program)
    <3>1. tb'.phase = "deposit"
      BY <1>4, <2>1 DEF load, Shape
    <3> QED BY <3>1 DEF Settled, Between
  <2>2. CASE ~\E program : load(program)
    <3>1. /\ tb.edges = 0
          /\ \/ tb' = [tb EXCEPT !.randoms = @ - 1, !.phase = "generate", !.words = <<>>]
             \/ \E w \in Word : tb' = [tb EXCEPT !.words = Append(@, w)]
      BY <1>4, <2>2 DEF core_directed_programs, core_random_programs, Generate,
           core_step_enable_freezes, core_functional_coverage, At
    <3>2. tb'.edges = 0
      BY <3>1 DEF Shape
    <3> QED BY <3>2 DEF Settled
  <2> QED BY <2>1, <2>2
<1>5. CASE UNCHANGED regressionVars
  BY <1>5 DEF regressionVars, Settled
<1> QED BY <1>1, <1>2, <1>3, <1>4, <1>5 DEF RegressionNext, Test, Handler

\* On the circle of addresses pc + imm is pc + 4 only for imm = 4.
LEMMA WrapOnce ==
    ASSUME NEW x \in Word, NEW y \in Word, Truncate(x + y) = Truncate(x + 4) PROVE y = 4
<1>1. Modulus \in Nat \ {0} /\ Modulus >= 16 /\ x \in 0 .. Modulus - 1 /\ y \in 0 .. Modulus - 1
  BY ModulusNat, ModulusBig DEF Word
<1> DEFINE M == Modulus
<1> HIDE DEF M
<1>2. M \in Nat \ {0} /\ M >= 16 /\ x \in 0 .. M - 1 /\ y \in 0 .. M - 1
  BY <1>1 DEF M
<1>3. ASSUME NEW v \in 0 .. 2 * M - 1 PROVE v % M = IF v < M THEN v ELSE v - M
  <2>1. CASE v < M
    BY <1>2, <2>1
  <2>2. CASE v >= M
    <3>1. PICK u \in 0 .. M - 1 : u = v - M
      BY <1>2, <2>2
    <3>2. (u + M * 1) % M = u
      BY <1>2, JoinSplit
    <3>3. u + M * 1 = v
      BY <1>2, <3>1
    <3> QED BY <2>2, <3>1, <3>2, <3>3, <1>2
  <2> QED BY <1>2, <2>1, <2>2
<1>4. (x + y) % M = (x + 4) % M
  BY DEF M, Truncate
<1>5. x + y \in 0 .. 2 * M - 1 /\ x + 4 \in 0 .. 2 * M - 1
  BY <1>2
<1> DEFINE v == x + y
           w == x + 4
<1>6. (v % M = IF v < M THEN v ELSE v - M) /\ (w % M = IF w < M THEN w ELSE w - M)
  <2> HIDE DEF v, w
  <2>1. v \in 0 .. 2 * M - 1 /\ w \in 0 .. 2 * M - 1
    BY <1>5 DEF v, w
  <2> QED BY <1>3, <2>1
<1>7. (IF v < M THEN v ELSE v - M) = (IF w < M THEN w ELSE w - M)
  BY <1>4, <1>6
<1> QED BY <1>2, <1>7

\* The outcome bins are those of branches, one of the two for each.
LEMMA NoOutcome ==
    ASSUME NEW i, NEW c, i.opcode # "BRANCH", NEW x PROVE <<"outcome", x>> \notin sample(i, c)
<1>1. <<"outcome", x>> \notin group(i, c)
  BY DEF group, When
<1>2. ASSUME NEW P, NEW y, NEW z, y # "outcome" PROVE <<"outcome", x>> \notin When(P, <<y, z>>)
  BY <1>2 DEF When
<1> QED BY <1>1, <1>2 DEF sample

\* A branch hits the bin of its outcome and not the other.
LEMMA BranchSampled ==
    ASSUME NEW i, NEW c, i.opcode = "BRANCH", NEW x
    PROVE  <<"outcome", x>> \in sample(i, c) <=> x = outcome(c)
<1>1. <<"outcome", x>> \in group(i, c) <=> x = outcome(c)
  BY DEF group
<1>2. ASSUME NEW P, NEW y, NEW z, y # "outcome" PROVE <<"outcome", x>> \notin When(P, <<y, z>>)
  BY <1>2 DEF When
<1> QED BY <1>1, <1>2 DEF sample, Opcodes

\* A commit that agrees with the core's is sampled for what the core's branch does.
LEMMA SampleTells ==
    ASSUME TypeOK, bug = "none", dut_valid, NEW exp, compare_commit(dut_commit, exp)
    PROVE  Told(sample(Fields(exp.inst), exp), Branched)
<1>1. /\ exp.inst = inst /\ exp.pc = pc /\ exp.next_pc = pc_next /\ Fields(exp.inst) = f
      /\ commit_valid /\ dut_taken = taken
  <2>1. compare_commit(commit, exp) /\ commit_valid
    BY UnmodifiedCore
  <2>2. commit.inst = inst /\ commit.pc = pc /\ commit.next_pc = pc_next
    BY DEF commit
  <2>3. dut_taken = taken
    BY DEF dut_taken, taken, dut_rs2
  <2> QED BY <2>1, <2>2, <2>3 DEF compare_commit, f
<1>2. CASE f.opcode # "BRANCH"
  <2>1. Branched = {}
    BY <1>2 DEF Branched, branch
  <2> QED BY <1>1, <1>2, <2>1, NoOutcome DEF Told
<1>3. CASE f.opcode = "BRANCH"
  <2>1. branch(f) /\ ~jalr(f) /\ ~jump(f)
    <3>1. ~illegal(f)
      BY <1>1 DEF commit_valid, trap, trap_cause, HALT_ILLEGAL, HALT_NONE
    <3> QED BY <1>3, <3>1 DEF branch, jalr, jump
  <2>2. pc_next = IF taken THEN Truncate(pc + imm(f)) ELSE Truncate(pc + 4)
    BY <2>1 DEF pc_next, pc_plus4
  <2>3. outcome(exp) = IF taken /\ imm(f) # 4 THEN "taken" ELSE "not-taken"
    <3>1. pc \in Word /\ imm(f) \in Word
      BY SignalTypes DEF TypeOK
    <3> QED BY <1>1, <2>2, <3>1, WrapOnce DEF outcome
  <2>4. Branched = {IF ~taken THEN "not-taken" ELSE IF imm(f) = 4 THEN "taken-by-4" ELSE "taken"}
    BY <1>1, <2>1 DEF Branched
  <2>5. \A x : <<"outcome", x>> \in sample(Fields(exp.inst), exp) <=> x = outcome(exp)
    BY <1>1, <1>3, BranchSampled
  <2>6. PICK C, o : /\ C = sample(Fields(exp.inst), exp) /\ Branched = {o}
                    /\ \A x : <<"outcome", x>> \in C <=> x = outcome(exp)
                    /\ \/ o = "not-taken" /\ outcome(exp) = "not-taken"
                       \/ o = "taken-by-4" /\ outcome(exp) = "not-taken"
                       \/ o = "taken" /\ outcome(exp) = "taken"
    <3>1. CASE ~taken
      BY <2>3, <2>4, <2>5, <3>1
    <3>2. CASE taken /\ imm(f) = 4
      BY <2>3, <2>4, <2>5, <3>2
    <3>3. CASE taken /\ imm(f) # 4
      BY <2>3, <2>4, <2>5, <3>3
    <3> QED BY <3>1, <3>2, <3>3
  <2>7. Told(C, {o})
    <3>1. /\ <<"outcome", "taken">> \in C <=> "taken" = outcome(exp)
          /\ <<"outcome", "not-taken">> \in C <=> "not-taken" = outcome(exp)
      BY <2>6
    <3>2. /\ "taken" \in {o} <=> "taken" = outcome(exp)
          /\ {"not-taken", "taken-by-4"} \cap {o} # {} <=> "not-taken" = outcome(exp)
      <4>1. CASE o = "not-taken" /\ outcome(exp) = "not-taken"
        BY <4>1
      <4>2. CASE o = "taken-by-4" /\ outcome(exp) = "not-taken"
        BY <4>2
      <4>3. CASE o = "taken" /\ outcome(exp) = "taken"
        BY <4>3
      <4> QED BY <2>6, <4>1, <4>2, <4>3
    <3> QED BY <3>1, <3>2 DEF Told
  <2> QED BY <2>6, <2>7
<1> QED BY <1>2, <1>3

\* Bins and outcomes accumulate together.
LEMMA ToldTogether ==
    ASSUME NEW C, NEW D, NEW O, NEW P, Told(C, O), Told(D, P) PROVE Told(C \cup D, O \cup P)
BY DEF Told

\* Outside the comparison no branch of the unmodified core retires: it is in reset,
\* stopped, disabled or at an ADDI of the freeze test.
LEMMA Quiet ==
    ASSUME Shape, Counted, Session, Countdown, Lockstep, DestroyedSoon, Settled,
           bug = "none", tb.edges > 0, tb.phase # "compare"
    PROVE  Branched = {}
<1> SUFFICES ASSUME dut_valid, branch(f) PROVE FALSE
  BY DEF Branched
<1>1. ~rst /\ ~halted /\ step_en /\ commit_valid /\ TypeOK /\ WellFormed /\ tb.edges \in Nat
  BY UnmodifiedCore DEF dut_valid, Lockstep, Counted, CountedAs
<1>2. tb.phase \notin {"deposit", "reset", "model", "held", "state"} \cup Between
  BY <1>1 DEF Counted, CountedAs, Settled
<1>3. tb.phase \in {"halted"} \cup Freezing
  BY <1>2 DEF Countdown, PhasesAhead, Between, Freezing
<1>4. Lock
  <2>1. tb.phase \notin Between
    BY <1>2
  <2>2. ~StoresOverItself(tb.words)
    BY <1>3, <2>1 DEF DestroyedSoon, Destroyed
  <2> QED BY <2>1, <2>2 DEF Lockstep
<1>5. CASE tb.phase = "halted"
  <2>1. CauseOf(CoreState) # HALT_NONE
    BY <1>4, <1>5 DEF Lock, InHalted
  <2> QED BY <1>1, <2>1, SameVerdict DEF Free
<1>6. CASE tb.phase \in Freezing
  <2>1. InFreeze /\ tb.words = FREEZE
    BY <1>4, <1>6 DEF Lock, Session, Freezing
  <2>2. pc \in {0, 4, 8} /\ mem = Loaded
    BY <1>1, <1>6, <2>1 DEF InFreeze, Freezing
  <2>3. f.opcode = "IMM"
    BY <2>1, <2>2, FreezeReads
  <2> QED BY <2>3 DEF branch
<1> QED BY <1>3, <1>5, <1>6

\* One iteration of the comparison samples the branch that is about to retire.
LEMMA CompareSamples ==
    ASSUME Shape, TypeOK, bug = "none", bug' = bug, compare,
           Told(tb.COVERAGE, outcomes)
    PROVE  Told(tb'.COVERAGE, (outcomes \cup Pending)')
<1>1. outcomes' = outcomes
  BY DEF compare, Fail, Still, history
<1>2. CASE Fail
  <2>1. tb'.COVERAGE = tb.COVERAGE /\ tb'.phase = "fetch"
    BY <1>2 DEF Fail, NextTest, Shape
  <2>2. Pending' = {}
    BY <2>1 DEF Pending
  <2> QED BY <1>1, <2>1, <2>2
<1>3. CASE ~Fail
  <2> DEFINE exp == tb.expected[tb.retired + 1]
  <2>1. PICK D : /\ D = IF dut_valid THEN sample(Fields(exp.inst), exp) ELSE {}
                 /\ tb' = [tb EXCEPT !.budget = spend, !.retired = retire, !.edges = 1,
                                     !.COVERAGE = IF dut_valid
                                        THEN @ \cup sample(Fields(exp.inst), exp) ELSE @]
                 /\ Still /\ tb.phase = "compare"
                 /\ dut_valid => compare_commit(dut_commit, exp)
    BY <1>3 DEF compare, At
  <2>2. tb'.COVERAGE = tb.COVERAGE \cup D /\ tb'.phase = "compare" /\ tb'.edges = 1
    BY <2>1 DEF Shape
  <2>3. UNCHANGED vars
    BY <2>1 DEF Still
  <2>4. Branched' = Branched
    <3>1. dut_valid' = dut_valid /\ f' = f /\ dut_taken' = dut_taken
      BY <2>3, Steady
    <3>2. (branch(f))' = branch(f) /\ (imm(f))' = imm(f)
      BY <3>1 DEF branch, imm, imm_sel, illegal
    <3> QED BY <3>1, <3>2 DEF Branched
  <2>5. Told(D, Branched)
    <3>1. CASE dut_valid
      <4>1. \A e : compare_commit(dut_commit, e) => Told(sample(Fields(e.inst), e), Branched)
        BY <3>1, SampleTells
      <4> QED BY <2>1, <3>1, <4>1
    <3>2. CASE ~dut_valid
      BY <2>1, <3>2 DEF Branched, Told
    <3> QED BY <3>1, <3>2
  <2>6. Pending' = Branched
    BY <2>2, <2>4 DEF Pending
  <2> QED BY <1>1, <2>2, <2>5, <2>6, ToldTogether
<1> QED BY <1>2, <1>3

\* Every step of the session.
LEMMA SampledKept ==
    ASSUME Shape, Counted, Session, Countdown, Lockstep, DestroyedSoon, Settled, Sampled,
           [RegressionNext]_regressionVars
    PROVE  Sampled'
<1>1. bug' = bug
  BY DEF RegressionNext, regressionVars
<1> SUFFICES ASSUME bug = "none" PROVE Told(tb.COVERAGE, outcomes \cup Pending)'
  BY <1>1 DEF Sampled
<1>2. Told(tb.COVERAGE, outcomes \cup Pending) /\ TypeOK
  BY DEF Sampled, Lockstep
<1>3. CASE RisingEdge
  <2>1. /\ tb.edges > 0 /\ tb.edges \in Nat /\ tb' = [tb EXCEPT !.edges = @ - 1]
        /\ outcomes' = outcomes \cup Branched
    BY <1>3 DEF RisingEdge, Branched, Counted, CountedAs
  <2>2. /\ tb'.phase = tb.phase /\ tb'.edges = tb.edges - 1 /\ tb'.COVERAGE = tb.COVERAGE
    BY <2>1 DEF Shape
  <2>3. CASE tb.phase = "compare"
    <3>1. tb.edges = 1 /\ tb'.edges = 0
      BY <2>1, <2>2, <2>3 DEF Counted, CountedAs
    <3>2. Pending = Branched /\ Pending' = {}
      BY <2>2, <2>3, <3>1 DEF Pending
    <3> QED BY <1>2, <2>1, <2>2, <3>2
  <2>4. CASE tb.phase # "compare"
    <3>1. Branched = {} /\ Pending = {} /\ Pending' = {}
      BY <2>1, <2>2, <2>4, Quiet DEF Pending
    <3> QED BY <1>2, <2>1, <2>2, <3>1
  <2> QED BY <2>3, <2>4
<1>4. ASSUME tb.edges = 0, tb'.phase = "compare" => tb'.edges = 0, outcomes' = outcomes,
             \A x : <<"outcome", x>> \in tb'.COVERAGE <=> <<"outcome", x>> \in tb.COVERAGE
      PROVE  Told(tb.COVERAGE, outcomes \cup Pending)'
  <2>1. Pending = {} /\ Pending' = {}
    BY <1>4 DEF Pending
  <2> QED BY <1>2, <1>4, <2>1 DEF Told
<1>5. CASE \/ core_directed_programs \/ core_random_programs \/ Generate
           \/ core_step_enable_freezes \/ core_functional_coverage
  <2>1. tb.edges = 0
    BY <1>5 DEF core_directed_programs, core_random_programs, Generate,
         core_step_enable_freezes, core_functional_coverage, At
  <2>2. CASE \E program \in Loadable : load(program)
    <3>1. PICK program \in Loadable : load(program)
      BY <2>2
    <3>2. /\ tb' = [tb EXCEPT !.words = program, !.phase = "deposit", !.edges = 1,
                              !.todo = IF tb.test = "directed" THEN Tail(@) ELSE @]
          /\ UNCHANGED history
      BY <3>1, LoadFits
    <3>3. tb'.COVERAGE = tb.COVERAGE /\ tb'.phase = "deposit"
      BY <3>2 DEF Shape
    <3> QED BY <1>4, <2>1, <3>2, <3>3 DEF history
  <2>3. CASE Pass \/ Fail
    <3>1. CASE Pass
      <4>1. tb'.COVERAGE = tb.COVERAGE /\ tb'.phase = "fetch" /\ outcomes' = outcomes
        BY <3>1 DEF Pass, NextTest, Shape, Still, history
      <4> QED BY <1>4, <2>1, <4>1
    <3>2. CASE Fail
      <4>1. tb'.COVERAGE = tb.COVERAGE /\ tb'.phase = "fetch" /\ outcomes' = outcomes
        BY <3>2 DEF Fail, NextTest, Shape, Still, history
      <4> QED BY <1>4, <2>1, <4>1
    <3> QED BY <2>3, <3>1, <3>2
  <2>4. CASE ~(Pass \/ Fail) /\ ~\E program \in Loadable : load(program)
    <3>1. Still /\ tb'.phase = "generate"
      BY <1>5, <2>4, SessionSteps
    <3>2. tb'.COVERAGE = tb.COVERAGE
      <4>1. CASE core_random_programs
        BY <2>4, <4>1 DEF core_random_programs, Shape
      <4>2. CASE Generate
        <5>1. ~load(tb.words)
          <6>1. CASE Len(tb.words) > prologue + body_len
            <7>1. tb.words \in Loadable
              BY <4>2, <6>1, GeneratedFits DEF Generate, At, Session
            <7> QED BY <2>4, <7>1
          <6>2. CASE ~(Len(tb.words) > prologue + body_len)
            <7>1. PICK w \in Word : tb' = [tb EXCEPT !.words = Append(@, w)]
              BY <4>2, <6>2 DEF Generate
            <7>2. tb'.phase = "generate"
              BY <3>1
            <7> QED BY <7>2 DEF load, Fail, NextTest, Shape
          <6> QED BY <6>1, <6>2
        <5>2. PICK w \in Word : tb' = [tb EXCEPT !.words = Append(@, w)]
          BY <4>2, <5>1 DEF Generate
        <5> QED BY <5>2 DEF Shape
      <4>3. CASE core_directed_programs \/ core_step_enable_freezes \/ core_functional_coverage
        BY <1>5, <2>4, <4>3, FreezeLoadable
        DEF core_directed_programs, core_step_enable_freezes, core_functional_coverage, Session
      <4> QED BY <1>5, <4>1, <4>2, <4>3
    <3> QED BY <1>4, <2>1, <3>1, <3>2 DEF Still, history
  <2> QED BY <2>2, <2>3, <2>4
<1>6. CASE Handler /\ ~compare
  <2>1. tb.edges = 0
    BY <1>6 DEF Handler, deposit, reset, run, compare, stop, check_halt, check_held,
         compare_state, warm, disable, disabled, check_frozen, enabled, resumed, At
  <2> QED BY <1>4, <1>6, <2>1, HandlerBins
<1>7. CASE compare
  <2>1. Pending = {}
    BY <1>7 DEF compare, At, Pending
  <2>2. outcomes \cup Pending = outcomes
    BY <2>1
  <2> QED BY <1>1, <1>2, <1>7, <2>2, CompareSamples
<1>8. CASE UNCHANGED regressionVars
  <2>1. tb' = tb /\ outcomes' = outcomes /\ UNCHANGED vars
    BY <1>8 DEF regressionVars, history
  <2>2. Branched' = Branched
    <3>1. dut_valid' = dut_valid /\ f' = f /\ dut_taken' = dut_taken
      BY <1>1, <2>1, Steady
    <3>2. (branch(f))' = branch(f) /\ (imm(f))' = imm(f)
      BY <3>1 DEF branch, imm, imm_sel, illegal
    <3> QED BY <3>1, <3>2 DEF Branched
  <2>3. Pending' = Pending
    BY <2>1, <2>2 DEF Pending
  <2> QED BY <1>2, <2>1, <2>3
<1> QED BY <1>3, <1>5, <1>6, <1>7, <1>8 DEF RegressionNext, Test, Handler

\* It starts with nothing sampled.
LEMMA OutcomesStart == ASSUME RegressionInit PROVE DestroyedSoon /\ Settled /\ Sampled
<1>1. PICK suite, n :
        tb = [test |-> "directed", phase |-> "fetch", todo |-> suite, randoms |-> n,
              words |-> <<>>, edges |-> 0, count |-> 0, expected |-> <<>>, retired |-> 0,
              budget |-> 0, pc_before |-> 0, reg_before |-> 0, COVERAGE |-> {},
              failed |-> {}]
  BY DEF RegressionInit
<1>2. tb.phase = "fetch" /\ tb.edges = 0 /\ tb.COVERAGE = {} /\ outcomes = {}
  BY <1>1 DEF RegressionInit
<1> QED BY <1>2 DEF DestroyedSoon, Settled, Sampled, Pending, Told, Between

\* Whatever the programs, the random choices and the tests that fail on the way, the
\* coverage gate's outcome bins are hit by exactly the branches that the unmodified
\* core retires (tb_core.py:119-121, coverage.py:61).
THEOREM OutcomesCorrect == RegressionSpec => []OutcomesTrue
<1> DEFINE Inv == /\ Shape /\ Counted /\ Bits /\ Session /\ Countdown /\ Lockstep
                  /\ DestroyedSoon /\ Settled /\ Sampled
<1>1. RegressionInit => Inv
  BY Started, SessionStarts, CountdownStarts, LockstepStarts, OutcomesStart
<1>2. Inv /\ [RegressionNext]_regressionVars => Inv'
  <2> SUFFICES ASSUME Inv, [RegressionNext]_regressionVars PROVE Inv'
    OBVIOUS
  <2>1. Shape' /\ Counted' /\ Bits' /\ Session'
    BY Kept, SessionKept
  <2>2. Countdown' /\ Lockstep'
    BY CountdownKept, LockstepKept
  <2>3. DestroyedSoon' /\ Settled' /\ Sampled'
    BY DestroyedKept, SettledKept, SampledKept
  <2> QED BY <2>1, <2>2, <2>3
<1>3. Inv => OutcomesTrue
  BY DEF Sampled, Pending, Told, OutcomesTrue
<1> HIDE DEF Inv
<1> QED BY <1>1, <1>2, <1>3, PTL DEF RegressionSpec
=============================================================================
