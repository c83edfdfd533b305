-------------------------- MODULE BoardProperties --------------------------
(***************************************************************************)
(* What someone at the board is told: a press steps one instruction, and   *)
(* the display shows the watched register.  The history variables follow   *)
(* one press of KEY[1], from the cycle that accepts it to the one that     *)
(* accepts its release, and what the watch still holds.                    *)
(***************************************************************************)
EXTENDS Board

VARIABLES
    watched,    \* registers not written since the watch took its value from them
    press       \* the present press: see NoPress

hvars == <<boardvars, watched, press>>

\* steady: in slow mode, out of reset and running throughout.  byKey and
\* byTick count the instructions executed in cycles without and with a tick
\* (2 stands for more), merged that its pulse fell on a tick.
NoPress == [steady |-> FALSE, byKey |-> 0, byTick |-> 0, merged |-> FALSE]

\* An instruction is executed in this cycle: it retires or takes its trap.
executes == commit_valid \/ (trap /\ step_en /\ ~rst)

\* The cycles of a press: its acceptance has reached key_stable.
accepted == ~key_stable /\ key_stable'
released == key_stable /\ ~key_stable'

Saturated(n) == IF n < 2 THEN n + 1 ELSE n

PressHistory ==
    press' =
      IF accepted THEN [NoPress EXCEPT !.steady = TRUE]
      ELSE IF ~(press.steady /\ key_stable /\ ~SW9 /\ ~rst /\ ~halted) THEN NoPress
      ELSE [press EXCEPT
              !.byKey  = IF executes /\ ~Control!tick THEN Saturated(@) ELSE @,
              !.byTick = IF executes /\ Control!tick  THEN Saturated(@) ELSE @,
              !.merged = @ \/ (key_pulse /\ Control!tick)]

\* A reset clears every register and the watch with them; after that the watch
\* holds one register, and no other that is written.
WatchHistory ==
    watched' = IF rst THEN Reg
               ELSE IF ~(commit_valid /\ commit_rd # 0) THEN watched
               ELSE IF commit_rd = SW_watch THEN {commit_rd} ELSE watched \ {commit_rd}

HInit == BoardInit /\ watched = Reg /\ press = NoPress
HNext == BoardNext /\ PressHistory /\ WatchHistory
HSpec == HInit /\ [][HNext]_hvars

-----------------------------------------------------------------------------
\* With SW[8] up the display shows the selected register, wherever SW[4:0] moved
\* in between, if the watch took its value from that register and missed no write
\* to it since: the latch misses none while the register is selected and takes
\* none that did not retire (soc_top.sv:123-129).  The documents disagree twice.
\* README.md:312 says that SW[8] LOW shows the register and HIGH the pc; the code
\* (soc_top.sv:7, 135) and docs/HARDWARE.md:239 have it as here.  And README.md:311
\* and docs/HARDWARE.md:274-275 promise any register that is dialled, where the
\* code goes on showing the one watched before until the new one is written: of a
\* register not in watched the display says nothing.
WatchTruthful == SW_watch \in watched => shown(TRUE) = regs[SW_watch]

\* A press adds exactly one instruction to those the ticks execute, however it
\* bounces and however long it is held, unless its pulse falls on a tick: then
\* it adds none (soc_top.sv:91).
PressAddsOne ==
    [][released /\ press'.steady =>
          press'.byKey = IF press'.merged THEN 0 ELSE 1]_hvars

\* docs/HARDWARE.md:267: with SW[9] low "each press advances exactly one
\* instruction" (README.md:310 the same): from the acceptance of a press to the
\* acceptance of its release one instruction is executed.
PressAdvancesOne ==
    [][released /\ press'.steady => press'.byKey + press'.byTick = 1]_hvars
=============================================================================
