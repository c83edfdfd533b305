---------------------------- MODULE InjectedCore ----------------------------
(***************************************************************************)
(* The core as src/tools/inject_bugs.py builds it: soc.sv with one of the  *)
(* core integration bugs of MUTANTS planted in core.sv, or with none.  A   *)
(* bug changes one expression; everything downstream of it follows.        *)
(***************************************************************************)
EXTENDS Soc

VARIABLE bug            \* the planted bug

\* "hangs" is none of MUTANTS: a core that stops retiring, which is what the
\* budget of the test bench is for (tb_core.py:115).
BUGS == {"wb_alu", "store_rs1", "alu_b_inverted", "branch_swapped", "rs2_from_rs1",
         "trap_writes", "trap_advances", "auipc_rs1", "link_pc",
         "pc_ignores_step_en", "we_ignores_step_en"}

dut_rs2   == IF bug = "rs2_from_rs1" THEN rs1_data ELSE rs2_data
dut_a     == IF bug = "auipc_rs1" /\ alu_a_sel(f) = "PC" THEN rs1_data ELSE alu_a
dut_b     == IF (alu_b_sel(f) = "IMM") = (bug = "alu_b_inverted") THEN dut_rs2 ELSE imm(f)
dut_y     == alu(dut_a, dut_b, alu_op(f))
dut_taken == IF bug = "branch_swapped" THEN branch_cmp(dut_rs2, rs1_data, f.funct3)
             ELSE branch_cmp(rs1_data, dut_rs2, f.funct3)

dut_wdata      == IF bug = "store_rs1" THEN rs1_data ELSE dut_rs2
dut_misaligned == d_misaligned(dut_y, d_op, d_read, d_write)

dut_next == CASE jalr(f) -> dut_y - (dut_y % 2)
              [] jump(f) \/ (branch(f) /\ dut_taken) -> Truncate(pc + imm(f))
              [] OTHER -> pc_plus4

dut_wb == CASE wb_sel(f) = "MEM" -> IF bug = "wb_alu" THEN dut_y ELSE d_rdata(dut_y, d_op)
            [] wb_sel(f) = "PC4" -> IF bug = "link_pc" THEN pc ELSE pc_plus4
            [] OTHER             -> dut_y

dut_cause ==
    IF illegal(f) THEN HALT_ILLEGAL
    ELSE IF ecall(f) THEN HALT_ECALL
    ELSE IF ebreak(f) THEN HALT_EBREAK
    ELSE IF (mem_read(f) \/ mem_write(f)) /\ dut_misaligned THEN HALT_MEM_MISALIGN
    ELSE IF dut_next % 4 # 0 THEN HALT_FETCH_MISALIGN
    ELSE HALT_NONE
dut_trap == dut_cause # HALT_NONE /\ ~halted

dut_we ==
    /\ reg_write(f) /\ ~halted
    /\ bug = "trap_writes" \/ ~dut_trap
    /\ bug = "we_ignores_step_en" \/ step_en
dut_stall ==
    \/ halted
    \/ bug # "trap_advances" /\ dut_trap
    \/ bug # "pc_ignores_step_en" /\ ~step_en
    \/ bug = "hangs"

dut_valid == ~halted /\ ~dut_trap /\ ~rst /\ step_en /\ bug # "hangs"
dut_commit ==
    [pc        |-> pc,
     inst      |-> inst,
     next_pc   |-> dut_next,
     rd        |-> commit_rd,
     rd_wdata  |-> IF reg_write(f) /\ f.rd # 0 THEN dut_wb ELSE 0,
     mem_write |-> d_write /\ ~dut_misaligned,
     mem_addr  |-> dut_y,
     mem_wdata |-> dut_wdata]

\* One rising edge; a core that hangs never halts either.
DutEdge ==
    /\ regs' = IF rst THEN [r \in Reg |-> 0]
               ELSE IF dut_we /\ f.rd # 0 THEN [regs EXCEPT ![f.rd] = dut_wb] ELSE regs
    /\ pc' = IF rst THEN RESET_PC ELSE IF dut_stall THEN pc ELSE dut_next
    /\ halted' = IF rst THEN FALSE ELSE halted \/ (dut_trap /\ step_en /\ bug # "hangs")
    /\ halt_cause' = IF rst THEN HALT_NONE
                     ELSE IF dut_trap /\ step_en /\ bug # "hangs" THEN dut_cause ELSE halt_cause
    /\ MemoryEdge(dut_y, d_op, d_read, d_write, dut_wdata)
=============================================================================
