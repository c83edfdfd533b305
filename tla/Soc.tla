-------------------------------- MODULE Soc --------------------------------
(***************************************************************************)
(* src/rtl/soc.sv: the single-cycle core (core.sv, with its register file  *)
(* and program counter unit) wired to the memory.  A state is what the     *)
(* flip-flops and the inputs hold during one clock cycle; the state        *)
(* functions are the combinational signals of that cycle; Next is the      *)
(* rising edge, where every always_ff block moves at once and the inputs   *)
(* take the values they have in the next cycle.                            *)
(***************************************************************************)
EXTENDS Datapath, Memory

CONSTANT Programs       \* the contents the memory may be loaded with

ASSUME ProgramsAssumption == Programs \subseteq [Index -> MemWord]

VARIABLES
    pc,                 \* pc_unit.sv
    regs,               \* regfile.sv
    halted, halt_cause, \* core.sv
    rst, step_en        \* the inputs

arch == <<pc, regs, mem, halted, halt_cause>>
vars == <<arch, rst, step_en>>

RESET_PC == 0

-----------------------------------------------------------------------------
(* The combinational signals of a cycle *)

inst == i_rdata(pc)
f    == Fields(inst)

rs1_data == IF f.rs1 = 0 THEN 0 ELSE regs[f.rs1]
rs2_data == IF f.rs2 = 0 THEN 0 ELSE regs[f.rs2]

alu_a == CASE alu_a_sel(f) = "PC"   -> pc
           [] alu_a_sel(f) = "ZERO" -> 0
           [] OTHER                 -> rs1_data
alu_b == IF alu_b_sel(f) = "IMM" THEN imm(f) ELSE rs2_data
alu_y == alu(alu_a, alu_b, alu_op(f))

taken == branch_cmp(rs1_data, rs2_data, f.funct3)

\* The data port.  d_read and d_write are not gated by trap, nor by rst.
d_addr     == alu_y
d_op       == mem_op(f)
d_read     == mem_read(f) /\ ~halted
d_write_Ungated == mem_write(f) /\ ~halted      \* mutant of d_write
d_write    == mem_write(f) /\ ~halted /\ step_en
d_wdata    == rs2_data
misaligned == d_misaligned(d_addr, d_op, d_read, d_write)

pc_plus4_NoWrap == pc + 4                       \* mutant of pc_plus4
pc_plus4 == Truncate(pc + 4)
pc_next  == CASE jalr(f) -> alu_y - (alu_y % 2)
              [] jump(f) \/ (branch(f) /\ taken) -> Truncate(pc + imm(f))
              [] OTHER -> pc_plus4
misaligned_target_Bit0 == pc_next % 2 # 0       \* mutant of misaligned_target
misaligned_target_Untaken ==                    \* mutant of misaligned_target
    (IF branch(f) THEN Truncate(pc + imm(f)) ELSE pc_next) % 4 # 0
misaligned_target == pc_next % 4 # 0

wb_data == CASE wb_sel(f) = "MEM" -> d_rdata(d_addr, d_op)
             [] wb_sel(f) = "PC4" -> pc_plus4
             [] OTHER             -> alu_y

trap_cause ==
    IF illegal(f) THEN HALT_ILLEGAL
    ELSE IF ecall(f) THEN HALT_ECALL
    ELSE IF ebreak(f) THEN HALT_EBREAK
    ELSE IF (mem_read(f) \/ mem_write(f)) /\ misaligned THEN HALT_MEM_MISALIGN
    ELSE IF misaligned_target THEN HALT_FETCH_MISALIGN
    ELSE HALT_NONE
trap == trap_cause # HALT_NONE /\ ~halted

\* The retirement trace.
commit_valid     == ~halted /\ ~trap /\ ~rst /\ step_en
commit_rd        == IF reg_write(f) THEN f.rd ELSE 0
commit_rd_wdata_AluOnly ==                      \* mutant of commit_rd_wdata
    IF reg_write(f) /\ f.rd # 0 THEN alu_y ELSE 0
commit_rd_wdata  == IF reg_write(f) /\ f.rd # 0 THEN wb_data ELSE 0
commit_mem_write == d_write /\ ~misaligned

commit == [pc        |-> pc,
           inst      |-> inst,
           next_pc   |-> pc_next,
           rd        |-> commit_rd,
           rd_wdata  |-> commit_rd_wdata,
           mem_write |-> commit_mem_write,
           mem_addr  |-> d_addr,
           mem_wdata |-> d_wdata]

-----------------------------------------------------------------------------
(* The clock edge, one conjunct per always_ff block *)

regfile_we_TrapWrites == reg_write(f) /\ ~halted /\ step_en    \* mutant of regfile_we
regfile_we == reg_write(f) /\ ~halted /\ ~trap /\ step_en

RegfileEdge ==
    regs' = IF rst THEN [r \in Reg |-> 0]
            ELSE IF regfile_we /\ f.rd # 0
            THEN [regs EXCEPT ![f.rd] = wb_data]
            ELSE regs

stall_IgnoresEnable == halted \/ trap           \* mutant of stall
stall == halted \/ trap \/ ~step_en

PcEdge == pc' = IF rst THEN RESET_PC ELSE IF stall THEN pc ELSE pc_next

HaltEdge_OnCommit ==                            \* mutant of HaltEdge
    /\ halted' = IF rst THEN FALSE ELSE halted \/ (trap /\ commit_valid)
    /\ halt_cause' = IF rst THEN HALT_NONE
                     ELSE IF trap /\ commit_valid THEN trap_cause ELSE halt_cause
HaltEdge ==
    /\ halted' = IF rst THEN FALSE ELSE halted \/ (trap /\ step_en)
    /\ halt_cause' = IF rst THEN HALT_NONE
                     ELSE IF trap /\ step_en THEN trap_cause ELSE halt_cause

Clock ==
    /\ RegfileEdge
    /\ PcEdge
    /\ HaltEdge
    /\ MemoryEdge(d_addr, d_op, d_read, d_write, d_wdata)

\* rst and step_en come from outside and may change in every cycle.
Inputs == rst' \in BOOLEAN /\ step_en' \in BOOLEAN

\* Power-up: the FPGA clears its flip-flops; the memory holds INIT_FILE.
Init ==
    /\ mem \in Programs
    /\ pc = 0
    /\ regs = [r \in Reg |-> 0]
    /\ halted = FALSE
    /\ halt_cause = HALT_NONE
    /\ rst \in BOOLEAN
    /\ step_en \in BOOLEAN

Next == Clock /\ Inputs

Spec == Init /\ [][Next]_vars

\* The clock never stops, and the enable comes again and again: tb_core.py
\* holds it high, soc_top.sv derives it from a free-running counter
\* (Board!Ends).
FairSpec == Spec /\ WF_vars(Next) /\ []<>step_en
=============================================================================
