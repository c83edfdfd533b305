------------------------------- MODULE Board -------------------------------
(***************************************************************************)
(* src/fpga/soc_top.sv: the DE10-Lite top level.  The core and its memory  *)
(* (Soc) advance when the step control (StepControl) says so, KEY[0]       *)
(* resets them, and a latch on the commit port watches the register that   *)
(* SW[4:0] selects.  Everything moves on the one 50 MHz clock.             *)
(***************************************************************************)
EXTENDS Soc

CONSTANTS DIVISOR, WINDOW           \* of StepControl

ASSUME ControlAssumption ==
    /\ DIVISOR \in Nat \ {0} /\ DIVISOR % 2 = 0
    /\ WINDOW \in Nat \ {0}

VARIABLES
    pressed, SW9,                   \* KEY[1] and SW[9]; KEY[0] is rst
    SW_watch,                       \* SW[4:0]
    divider,
    key_raw, key_sync, key_stable, key_prev, key_pulse, debounce,
    watch_value

Control == INSTANCE StepControl

boardvars == <<vars, Control!vars, SW_watch, watch_value>>

BoardTypeOK ==
    /\ Control!TypeOK
    /\ SW_watch \in Reg
    /\ watch_value \in Word

\* HEX5..HEX0 for the two positions of SW[8]; that they show 24 of the 32 bits
\* is left out.
shown(SW8) == IF SW8 THEN watch_value ELSE commit.pc

-----------------------------------------------------------------------------
WatchEdge_NoReset ==                            \* mutant of WatchEdge
    watch_value' = IF commit_valid /\ commit_rd # 0 /\ commit_rd = SW_watch
                   THEN commit_rd_wdata ELSE watch_value

\* Watching a register costs a comparator and a latch on the commit port.
WatchEdge ==
    watch_value' =
        IF rst THEN 0
        ELSE IF commit_valid /\ commit_rd # 0 /\ commit_rd = SW_watch
        THEN commit_rd_wdata ELSE watch_value

\* One clock edge of the whole board, then the inputs of the next cycle.
BoardNext ==
    /\ Clock
    /\ WatchEdge
    /\ Control!Next
    /\ rst' \in BOOLEAN
    /\ SW_watch' \in Reg
    /\ step_en' = Control!step_en'

BoardInit ==
    /\ Init
    /\ Control!Init
    /\ watch_value = 0
    /\ SW_watch \in Reg
    /\ step_en = Control!step_en

BoardSpec == BoardInit /\ [][BoardNext]_boardvars

\* The 50 MHz clock does not stop.
FairBoard == BoardSpec /\ WF_boardvars(BoardNext)

\* Once KEY[0] stays up and SW[9] rests, in either position, a program that
\* ends reaches its ECALL and the board stays there (docs/HARDWARE.md, tests 1
\* and 2), whatever resets, presses and watching happened before.
Ends ==
    <>[]~rst /\ (<>[]SW9 \/ <>[]~SW9) => <>[](halted /\ halt_cause = HALT_ECALL)
=============================================================================
