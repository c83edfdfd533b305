---------------------------- MODULE BuildProgram ----------------------------
(***************************************************************************)
(* src/tools/build_program.py --run, and what becomes of its output: the   *)
(* tool assembles a program, refuses one that does not fit, writes the hex *)
(* file, runs the program on a golden model of --words words and reports   *)
(* the registers the board should show; then the board powers up with the  *)
(* hex file in a memory of its own size.                                   *)
(***************************************************************************)
EXTENDS Board, Sequences

CONSTANTS
    Sources,        \* the assembled programs
    ModelWords,     \* --words
    MaxSteps        \* max_steps of Iss.run

\* A model without memory could not run (iss.py:70).
ASSUME BuildAssumption ==
    /\ Sources \subseteq Seq(Word)
    /\ ModelWords \in Nat \ {0} /\ MaxSteps \in Nat

VARIABLES
    words,          \* the assembled program
    status,         \* "model", "reported" or "exit" (SystemExit)
    steps,          \* iterations of Iss.run
    m_mem, m_regs, m_pc, m_halted, m_halt_cause,    \* the Iss object
    \* history
    overrun,        \* the model used an address one of the memories does not have
    spoiled         \* after the last reset the memory did not hold the hex file
model == <<m_mem, m_regs, m_pc, m_halted, m_halt_cause>>
allboard == <<vars, pressed, SW9, SW_watch, divider, key_raw, key_sync, key_stable,
              key_prev, key_pulse, debounce, watch_value>>
buildvars == <<allboard, words, status, steps, model, overrun, spoiled>>

Model == INSTANCE Iss WITH WORDS <- ModelWords, mem <- m_mem, regs <- m_regs, pc <- m_pc,
                           halted <- m_halted, halt_cause <- m_halt_cause, Programs <- {}

\* A memory of n words with the program in it.
Padded(n) == [i \in 0 .. n - 1 |-> IF i < Len(words) THEN words[i + 1] ELSE 0]
Image == [i \in Index |-> ToLanes(Padded(WORDS)[i])]

\* There the addresses of the board or of the model have wrapped.
Beyond(addr) == addr >= 4 * WORDS \/ addr >= 4 * ModelWords

-----------------------------------------------------------------------------
\* One iteration of Iss.run; then the report.
run ==
    /\ status = "model"
    /\ IF m_halted \/ steps = MaxSteps
       THEN status' = "reported" /\ UNCHANGED <<steps, model, overrun>>
       ELSE /\ Model!Step
            /\ steps' = steps + 1
            /\ overrun' = (overrun \/ Beyond(m_pc)
                              \/ (Model!opcode \in {"LOAD", "STORE"} /\ Beyond(Model!mem_addr)))
            /\ UNCHANGED status
    /\ UNCHANGED <<allboard, words, spoiled>>

\* The board, with a program that fits it (docs/HARDWARE.md:33).
PowerUp ==
    /\ status = "reported" /\ Len(words) <= WORDS
    /\ BoardNext
    /\ spoiled' = IF rst THEN mem' # Image ELSE spoiled
    /\ UNCHANGED <<words, status, steps, model, overrun>>

BuildInit ==
    /\ words \in Sources
    /\ BoardInit /\ mem = Image
    /\ status = IF Len(words) > ModelWords THEN "exit" ELSE "model"
    /\ steps = 0
    /\ m_mem = Padded(ModelWords) /\ m_regs = [r \in Reg |-> 0] /\ m_pc = 0
    /\ m_halted = FALSE /\ m_halt_cause = HALT_NONE
    /\ overrun = FALSE /\ spoiled = FALSE

BuildNext == run \/ PowerUp

BuildSpec == BuildInit /\ [][BuildNext]_buildvars /\ WF_buildvars(BuildNext)

-----------------------------------------------------------------------------
\* A board that has halted shows what the tool reported (build_program.py:49),
\* however it was stepped and slowed down on the way, provided the program used
\* no address that only one of the two memories has and every reset found the
\* memory as the hex file left it.  docs/HARDWARE.md:29-30 promises it without
\* either condition, and docs/HARDWARE.md:235 that KEY[0] restarts the program,
\* which it does not on a changed memory: neither promise holds of the code.
ReportTrue ==
    halted /\ m_halted /\ ~overrun /\ ~spoiled =>
        /\ regs = m_regs /\ halt_cause = m_halt_cause
        /\ \A i \in Index \cap DOMAIN m_mem : FromLanes[mem[i]] = m_mem[i]

\* Ends, for a program the tool accepts and the board has room for.
BuiltEnds == status # "exit" /\ Len(words) <= WORDS => Ends
=============================================================================
