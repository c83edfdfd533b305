---------------------------- MODULE BugInjection ----------------------------
(***************************************************************************)
(* src/tools/inject_bugs.py: the campaign.  One after another, the bugs    *)
(* selected from MUTANTS are planted in a copy of the RTL and the tests    *)
(* run on it; a bug no test fails on is a survivor.  A bug is planted by   *)
(* replacing a text, and one whose text is not there exactly once ends the *)
(* program.  Modelled for --only core, the bugs of core.sv.                *)
(***************************************************************************)
EXTENDS RegressionProperties

VARIABLES
    status,         \* "next", "testing", "reported" or "exit" (SystemExit)
    nth,            \* the place in selected
    survivors
campaignVars == <<regressionVars, status, nth, survivors>>

selected == <<"wb_alu", "store_rs1", "alu_b_inverted", "branch_swapped", "rs2_from_rs1",
              "trap_writes", "trap_advances", "auipc_rs1", "link_pc",
              "pc_ignores_step_en", "we_ignores_step_en">>

\* Two ports of core.sv by the terms of their expression, as the file has them
\* and as the bugs that change them look for them.
core_sv == [we    |-> {"reg_write", "!halted", "!trap", "step_en"},
            stall |-> {"halted", "trap", "!step_en"}]
old == [trap_writes        |-> [port |-> "we", terms |-> {"reg_write", "!halted", "!trap"}],
        trap_advances      |-> [port |-> "stall", terms |-> {"halted", "trap"}],
        pc_ignores_step_en |-> [port |-> "stall", terms |-> {"halted", "trap", "!step_en"}],
        we_ignores_step_en |-> [port |-> "we",
                                terms |-> {"reg_write", "!halted", "!trap", "step_en"}]]

\* The other bugs' texts are in the file as they are.
FoundOnce(m) == m \in DOMAIN old => core_sv[old[m].port] = old[m].terms

-----------------------------------------------------------------------------
\* A new simulation of the patched core.
run_mutant ==
    /\ status = "next" /\ nth <= Len(selected)
    /\ UNCHANGED <<nth, survivors>>
    /\ IF ~FoundOnce(selected[nth]) THEN status' = "exit" /\ UNCHANGED regressionVars
       ELSE /\ status' = "testing" /\ bug' = selected[nth]
            /\ mem' \in Programs /\ pc' = 0 /\ regs' = [r \in Reg |-> 0]
            /\ halted' = FALSE /\ halt_cause' = HALT_NONE /\ rst' = TRUE /\ step_en' = TRUE
            /\ \E suite \in Suites, n \in RANDOMS :
                  tb' = [tb EXCEPT !.test = "directed", !.phase = "fetch", !.todo = suite,
                                   !.randoms = n, !.COVERAGE = {}, !.failed = {}]
            /\ UNCHANGED <<model, history>>

testing == status = "testing" /\ RegressionNext /\ UNCHANGED <<status, nth, survivors>>

\* The results of the simulation: killed when a test failed.
get_results ==
    /\ status = "testing" /\ tb.test = "done"
    /\ survivors' = IF tb.failed = {} THEN survivors \cup {bug} ELSE survivors
    /\ status' = "next" /\ nth' = nth + 1
    /\ UNCHANGED regressionVars

report ==
    /\ status = "next" /\ nth > Len(selected)
    /\ status' = "reported"
    /\ UNCHANGED <<regressionVars, nth, survivors>>

CampaignInit ==
    /\ RegressionInit /\ bug = "none" /\ tb.randoms = 0
    /\ status = "next" /\ nth = 1 /\ survivors = {}
CampaignNext == run_mutant \/ testing \/ get_results \/ report
CampaignSpec == CampaignInit /\ [][CampaignNext]_campaignVars

-----------------------------------------------------------------------------
\* "All 43 planted mutants are detected and killed" (README.md:252): when the
\* program ends, every selected bug was planted and none survived.
AllCaught ==
    status \in {"reported", "exit"} => nth > Len(selected) /\ survivors = {}
=============================================================================
