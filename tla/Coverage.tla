------------------------------ MODULE Coverage ------------------------------
(***************************************************************************)
(* src/verif/coverage.py: which bins one retired instruction counts in.    *)
(* Counts matter only as zero or not, so COVERAGE is the set of bins hit.  *)
(* An instruction group's bin is named by its opcode, a branch's, load's   *)
(* or store's by its funct3.                                               *)
(***************************************************************************)
EXTENDS Isa

BRANCH_NAMES == {0, 1, 4, 5, 6, 7}
LOAD_NAMES   == {0, 1, 2, 4, 5}
STORE_NAMES  == {0, 1, 2}

REQUIRED ==
    ({"op"} \X (Opcodes \ {"MISC_MEM", "SYSTEM"}))
    \cup ({"branch"} \X BRANCH_NAMES) \cup ({"outcome"} \X {"taken", "not-taken"})
    \cup ({"mem-load"} \X LOAD_NAMES) \cup ({"mem-store"} \X STORE_NAMES)
    \cup {<<"shift", "zero">>, <<"shift", "max">>, <<"result", "zero">>,
          <<"result", "negative">>, <<"rd", "x0">>, <<"rs1", "x0">>,
          <<"mem", "unaligned-lane">>}

When(condition, bin) == IF condition THEN {bin} ELSE {}

outcome_Stuck(commit) ==                        \* mutant of outcome
    IF commit.next_pc # commit.pc THEN "taken" ELSE "not-taken"
outcome(commit) ==
    IF commit.next_pc # Truncate(commit.pc + 4) THEN "taken" ELSE "not-taken"

\* The bins of an instruction's own group.
group(i, commit) ==
    CASE i.opcode = "BRANCH" -> {<<"branch", i.funct3>>, <<"outcome", outcome(commit)>>}
      [] i.opcode = "LOAD"   -> {<<"mem-load", i.funct3>>}
      [] i.opcode = "STORE"  -> {<<"mem-store", i.funct3>>}
      [] i.opcode = "IMM"    ->
             {<<"alu-imm", i.funct3>>}
             \cup When(i.funct3 \in {1, 5} /\ i.imm["I"] % XLEN = 0, <<"shift", "zero">>)
             \cup When(i.funct3 \in {1, 5} /\ i.imm["I"] % XLEN = XLEN - 1, <<"shift", "max">>)
      [] i.opcode = "REG"    ->
             {<<"alu-reg", i.funct3>>} \cup When(i.funct7 = 32, <<"alu", "alt-funct7">>)
      [] OTHER -> {}

\* rs1:x0 looks at bits 19:15 of every instruction, whatever they encode.
sample(i, commit) ==
    IF i.opcode \notin Opcodes THEN {<<"op", "unknown">>}
    ELSE {<<"op", i.opcode>>} \cup group(i, commit)
         \cup When(i.rd = 0 /\ commit.rd = 0 /\ i.opcode \in {"IMM", "REG", "LUI"}, <<"rd", "x0">>)
         \cup When(i.rs1 = 0, <<"rs1", "x0">>)
         \cup When(i.opcode \in {"LOAD", "STORE"} /\ commit.mem_addr % 4 # 0,
                   <<"mem", "unaligned-lane">>)
         \cup When(commit.rd # 0 /\ commit.rd_wdata = 0, <<"result", "zero">>)
         \cup When(commit.rd # 0 /\ Signed(commit.rd_wdata) < 0, <<"result", "negative">>)

missing(counts) == REQUIRED \ counts
=============================================================================
