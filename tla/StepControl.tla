---------------------------- MODULE StepControl ----------------------------
(***************************************************************************)
(* src/fpga/soc_top.sv, lines 40 to 91: what makes the core advance on the *)
(* board.  A free-running divider, the KEY[1] synchroniser and debouncer,  *)
(* its press pulse, and the clock enable step_en chosen by SW[9].          *)
(* One step is one edge of the 50 MHz clock.                               *)
(***************************************************************************)
EXTENDS Integers

CONSTANTS
    DIVISOR,        \* the divider counts modulo this (2^23 on the board)
    WINDOW          \* cycles a new level must last (2^16 on the board)

ASSUME DivisorAssumption == DIVISOR \in Nat \ {0} /\ DIVISOR % 2 = 0
ASSUME WindowAssumption  == WINDOW \in Nat \ {0}

VARIABLES
    pressed, SW9,                       \* the board's KEY[1] and SW[9]
    divider,
    key_raw, key_sync, key_stable, key_prev, key_pulse, debounce

control == <<divider, key_raw, key_sync, key_stable, key_prev, key_pulse, debounce>>
vars == <<pressed, SW9, control>>

TypeOK ==
    /\ divider \in 0 .. DIVISOR - 1
    /\ debounce \in 0 .. WINDOW - 1
    /\ pressed \in BOOLEAN /\ SW9 \in BOOLEAN
    /\ key_raw \in BOOLEAN /\ key_sync \in BOOLEAN /\ key_stable \in BOOLEAN
    /\ key_prev \in BOOLEAN /\ key_pulse \in BOOLEAN

tick_Late == divider = DIVISOR                  \* mutant of tick
tick == divider = 0

step_en_FullSpeed == SW9 \/ tick \/ key_pulse    \* mutant of step_en

\* Full speed is every other cycle; slow mode is a tick or a press.
step_en == IF SW9 THEN divider % 2 = 1 ELSE tick \/ key_pulse

-----------------------------------------------------------------------------
DividerEdge == divider' = (divider + 1) % DIVISOR

SynchroniserEdge == key_raw' = pressed /\ key_sync' = key_raw

DebounceEdge_NoReset ==                         \* mutant of DebounceEdge
    IF key_sync = key_stable
    THEN UNCHANGED <<debounce, key_stable>>
    ELSE IF debounce = WINDOW - 1
    THEN debounce' = 0 /\ key_stable' = key_sync
    ELSE debounce' = debounce + 1 /\ UNCHANGED key_stable

DebounceEdge_Unbounded ==                       \* mutant of DebounceEdge
    IF key_sync = key_stable
    THEN debounce' = 0 /\ UNCHANGED key_stable
    ELSE /\ debounce' = debounce + 1
         /\ key_stable' = IF debounce = WINDOW - 1 THEN key_sync ELSE key_stable

\* A level that differs from the stable one must last WINDOW cycles on end.
DebounceEdge ==
    IF key_sync = key_stable
    THEN debounce' = 0 /\ UNCHANGED key_stable
    ELSE IF debounce = WINDOW - 1
    THEN debounce' = 0 /\ key_stable' = key_sync
    ELSE debounce' = debounce + 1 /\ UNCHANGED key_stable

PulseEdge_Level ==                              \* mutant of PulseEdge
    /\ key_prev' = key_stable
    /\ key_pulse' = key_stable

PulseEdge_Release ==                            \* mutant of PulseEdge
    /\ key_prev' = key_stable
    /\ key_pulse' = (key_prev /\ ~key_stable)

PulseEdge ==
    /\ key_prev' = key_stable
    /\ key_pulse' = (key_stable /\ ~key_prev)

\* The clock edge, and the board's inputs in the next cycle.
Next ==
    /\ DividerEdge
    /\ SynchroniserEdge
    /\ DebounceEdge
    /\ PulseEdge
    /\ pressed' \in BOOLEAN
    /\ SW9' \in BOOLEAN

\* Power-up clears every flip-flop; none of them is reset by KEY[0].
Init ==
    /\ divider = 0
    /\ debounce = 0
    /\ key_raw = FALSE /\ key_sync = FALSE /\ key_stable = FALSE
    /\ key_prev = FALSE /\ key_pulse = FALSE
    /\ pressed \in BOOLEAN
    /\ SW9 \in BOOLEAN

Spec == Init /\ [][Next]_vars
=============================================================================
