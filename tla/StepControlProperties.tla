----------------------- MODULE StepControlProperties -----------------------
(***************************************************************************)
(* What the step control promises, stated over a history of what the key   *)
(* really did: past[i] is KEY[1] i clock edges ago, idle the number of     *)
(* cycles since the last key_pulse (2 * WINDOW stands for that or more).   *)
(***************************************************************************)
EXTENDS StepControl

VARIABLES past, idle

HLength == 2 * WINDOW + 3
hvars == <<vars, past, idle>>

HInit == Init /\ past = [i \in 1 .. HLength |-> FALSE] /\ idle = 2 * WINDOW

HNext ==
    /\ Next
    /\ past' = [i \in 1 .. HLength |-> IF i = 1 THEN pressed ELSE past[i - 1]]
    /\ idle' = IF key_pulse THEN 1 ELSE IF idle < 2 * WINDOW THEN idle + 1 ELSE idle

HSpec == HInit /\ [][HNext]_hvars

\* The samples from i to j cycles ago all were `level`.
Was(level, i, j) == \A k \in i .. j : past[k] = level

-----------------------------------------------------------------------------
\* The debouncer takes a new level exactly when the synchronised key has shown
\* it for WINDOW cycles on end: a bounce shorter than that is never taken and
\* one that long never missed (soc_top.sv:47).
DebounceExact ==
    [][key_stable' = IF Was(~key_stable, 2, WINDOW + 1) THEN ~key_stable
                                                        ELSE key_stable]_hvars

\* Two pulses are at least two windows apart, however the key bounces: one
\* press cannot step twice (soc_top.sv:48).
PulsesApart == key_pulse => idle = 2 * WINDOW

\* A clean press, WINDOW cycles up and then WINDOW cycles down, does step: its
\* pulse comes three cycles after the window fills.
CleanPressPulses ==
    Was(TRUE, 4, WINDOW + 3) /\ Was(FALSE, WINDOW + 4, 2 * WINDOW + 3) => key_pulse

\* The core is enabled in two cycles running only around a key pulse in slow
\* mode or a move of SW[9]: the two-cycle timing budget of de10_cpu.sdc holds
\* in every other case.
AdjacentEnables ==
    [][step_en /\ step_en' =>
          \/ SW9' # SW9
          \/ ~SW9 /\ (key_pulse \/ key_pulse')]_vars

\* soc_top.sv:89: the enable is never high twice in a row.  (Asked only of
\* cycles between which SW[9] does not move.)
EnableNeverTwice == [][step_en /\ SW9' = SW9 => ~step_en']_vars
=============================================================================
