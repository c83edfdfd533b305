--------------------------- MODULE SocProperties ---------------------------
(***************************************************************************)
(* What the core promises: it executes the golden model's instructions,    *)
(* it reports them truthfully on its commit port, it stands still when it  *)
(* is told to, and it never wedges.                                        *)
(***************************************************************************)
EXTENDS Soc

\* The golden model over the core's own state.  Its memory words are the
\* numbers whose lanes the RTL array keeps.
Golden == INSTANCE Iss WITH
              mem      <- [i \in Index |-> FromLanes[mem[i]]],
              Programs <- [Index -> Word]

-----------------------------------------------------------------------------
(* Invariants *)

\* Types of the state elements and of the inputs.
TypeOK ==
    /\ pc \in Word
    /\ regs \in [Reg -> Word]
    /\ MemoryTypeOK
    /\ halted \in BOOLEAN
    /\ halt_cause \in HaltCause
    /\ rst \in BOOLEAN
    /\ step_en \in BOOLEAN

\* x0 is never written and the program counter stays on a word boundary,
\* whatever JALR computes and however addresses wrap (regfile.sv:25,
\* pc_unit.sv:38).
WellFormed == regs[0] = 0 /\ pc % 4 = 0

\* A halted core stands on the instruction that stopped it: the latched cause
\* is the one the golden model finds for the instruction at the pc in the
\* present memory and registers, so nothing moved after the fault was taken.
HaltExplained ==
    IF halted THEN halt_cause = Golden!Cause /\ halt_cause # HALT_NONE
              ELSE halt_cause = HALT_NONE

\* Outside reset a store that the memory takes belongs to an instruction that
\* retires.  d_write is not gated by trap (core.sv:141), so this rests on
\* stores never having a misaligned successor.
StoreRetires == commit_mem_write /\ ~rst => commit_valid

-----------------------------------------------------------------------------
(* Steps *)

\* A halted core, and a core whose step_en is low, keeps all its state until
\* reset: single-stepping does not lose, repeat or half-execute anything.
Frozen == [][(halted \/ ~step_en) /\ ~rst => UNCHANGED arch]_vars

\* Outside reset the commit port tells everything that happens: registers and
\* pc change only as reported, and memory changes only in the word of a
\* reported store.  The scoreboard and the board's register watch see the core
\* through this port alone.
TraceComplete ==
    [][~rst =>
         /\ pc' = IF commit_valid THEN commit.next_pc ELSE pc
         /\ regs' = IF commit_valid /\ commit.rd # 0
                    THEN [regs EXCEPT ![commit.rd] = commit.rd_wdata] ELSE regs
         /\ \A i \in Index : mem'[i] # mem[i] =>
               /\ commit_valid /\ commit.mem_write
               /\ i = WordIndex(commit.mem_addr)
               /\ \A l \in Lane : mem'[i][l] # mem[i][l] =>
                     \E k \in 0 .. 3 : l = (commit.mem_addr + k) % 4
                                       /\ (d_op = 0 => k = 0)
                                       /\ (d_op = 1 => k <= 1)]_vars

\* What retires at a clock edge is exactly what the golden model commits for
\* the same state.  As in tb_core.py compare_commit, the address and the data
\* count only when there is a store.
CommitAgrees ==
    [][commit_valid =>
         LET got == commit
             exp == Golden!Commit
         IN /\ Golden!Cause = HALT_NONE
            /\ exp = IF exp.mem_write THEN got
                     ELSE [got EXCEPT !.mem_addr  = exp.mem_addr,
                                      !.mem_wdata = exp.mem_wdata]]_vars

\* Every step of the core is a step of the golden model, a reset is the
\* construction of a new one, and a cycle that does neither changes nothing.
RefinesIss == Golden!Spec

\* What the commit port's comment says (core.sv:11): it "reports what the
\* instruction in this cycle did".  Memory then changes only in cycles that
\* report a retirement.
OnlyRetirementWritesMemory == [][mem' # mem => commit_valid]_vars

-----------------------------------------------------------------------------
(* Liveness *)

\* A pending fault is eventually latched, unless reset comes first.
FaultHalts ==
    (~halted /\ ~rst /\ Golden!Cause # HALT_NONE) ~> (halted \/ rst)

\* No legal instruction wedges the core: it retires, unless reset comes first.
Retires ==
    (~halted /\ ~rst /\ Golden!Cause = HALT_NONE) ~> (commit_valid \/ rst)
=============================================================================
