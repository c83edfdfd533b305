------------------------- MODULE StepControlProofs -------------------------
(***************************************************************************)
(* The step control for every divider and every debounce window.           *)
(***************************************************************************)
EXTENDS StepControlProperties, TLAPS

\* The state elements keep their types, and the divider and the debounce counter
\* their bounds, for every key, switch, divider and window (soc_top.sv:40-61).
THEOREM Typing == HSpec => []TypeOK
<1>1. HInit => TypeOK
  <2> SUFFICES ASSUME HInit PROVE TypeOK
    OBVIOUS
  <2>1. divider \in 0 .. DIVISOR - 1
    BY DivisorAssumption DEF HInit, Init
  <2>2. debounce \in 0 .. WINDOW - 1
    BY WindowAssumption DEF HInit, Init
  <2> QED BY <2>1, <2>2 DEF HInit, Init, TypeOK
<1>2. TypeOK /\ [HNext]_hvars => TypeOK'
  <2> SUFFICES ASSUME TypeOK, [HNext]_hvars PROVE TypeOK'
    OBVIOUS
  <2>1. CASE HNext
    <3> USE <2>1 DEF HNext, Next
    <3>1. divider' \in 0 .. DIVISOR - 1
      BY DivisorAssumption DEF TypeOK, DividerEdge
    <3>2. debounce' \in 0 .. WINDOW - 1
      BY WindowAssumption DEF TypeOK, DebounceEdge
    <3>3. /\ pressed' \in BOOLEAN /\ SW9' \in BOOLEAN
          /\ key_raw' \in BOOLEAN /\ key_sync' \in BOOLEAN /\ key_stable' \in BOOLEAN
          /\ key_prev' \in BOOLEAN /\ key_pulse' \in BOOLEAN
      BY DEF TypeOK, SynchroniserEdge, DebounceEdge, PulseEdge
    <3> QED BY <3>1, <3>2, <3>3 DEF TypeOK
  <2>2. CASE UNCHANGED hvars
    BY <2>2 DEF hvars, vars, control, TypeOK
  <2> QED BY <2>1, <2>2
<1> QED BY <1>1, <1>2, PTL DEF HSpec

-----------------------------------------------------------------------------
(* The debouncer.  Its counter is the length of the run of samples, behind *)
(* the one in key_sync, that differ from key_stable; the sample before     *)
(* that run agrees with key_stable.  The history makes this sayable.       *)

Run ==
    /\ past \in [1 .. HLength -> BOOLEAN]
    /\ key_raw = past[1] /\ key_sync = past[2]
    /\ Was(~key_stable, 3, debounce + 2)
    /\ past[debounce + 3] = key_stable

LEMMA RunHolds == HSpec => [](TypeOK /\ Run)
<1>1. HInit => Run
  <2> SUFFICES ASSUME HInit PROVE Run
    OBVIOUS
  <2>1. /\ past = [i \in 1 .. HLength |-> FALSE]
        /\ debounce = 0 /\ key_raw = FALSE /\ key_sync = FALSE /\ key_stable = FALSE
    BY DEF HInit, Init
  <2>2. \A i \in 1 .. 3 : i \in 1 .. HLength
    BY WindowAssumption DEF HLength
  <2>3. past[1] = FALSE /\ past[2] = FALSE /\ past[3] = FALSE
    BY <2>1, <2>2
  <2>4. Was(~key_stable, 3, debounce + 2)
    BY <2>1 DEF Was
  <2>5. past \in [1 .. HLength -> BOOLEAN]
    BY <2>1
  <2>6. key_raw = past[1] /\ key_sync = past[2] /\ past[debounce + 3] = key_stable
    <3>1. debounce + 3 = 3
      BY <2>1
    <3> QED BY <3>1, <2>1, <2>3
  <2> QED BY <2>4, <2>5, <2>6 DEF Run
<1>2. TypeOK /\ Run /\ [HNext]_hvars => Run'
  <2> SUFFICES ASSUME TypeOK, Run, [HNext]_hvars PROVE Run'
    OBVIOUS
  <2>0. WINDOW \in Nat \ {0} /\ debounce \in 0 .. WINDOW - 1
    BY WindowAssumption DEF TypeOK
  <2>1. CASE HNext
    <3>1. /\ past' = [i \in 1 .. HLength |-> IF i = 1 THEN pressed ELSE past[i - 1]]
          /\ key_raw' = pressed /\ key_sync' = key_raw
      BY <2>1 DEF HNext, Next, SynchroniserEdge
    <3>2. /\ past' \in [1 .. HLength -> BOOLEAN]
          /\ \A i \in 2 .. HLength : past'[i] = past[i - 1]
          /\ past'[1] = pressed
      BY <3>1, <2>0 DEF Run, TypeOK, HLength
    <3>3. key_raw' = past'[1] /\ key_sync' = past'[2]
      BY <3>1, <3>2, <2>0 DEF Run, HLength
    <3>4. Was(~key_stable, 3, debounce + 2)' /\ past'[debounce' + 3] = key_stable'
      <4>1. CASE key_sync = key_stable
        <5>1. debounce' = 0 /\ key_stable' = key_stable
          BY <4>1, <2>1 DEF HNext, Next, DebounceEdge
        <5>2. past'[3] = past[2]
          BY <3>2, <2>0 DEF HLength
        <5> QED BY <5>1, <5>2, <4>1 DEF Run, Was
      <4>2. CASE key_sync # key_stable /\ debounce = WINDOW - 1
        BY <4>2, <2>1, <3>2, <2>0 DEF HNext, Next, DebounceEdge, Run, Was, HLength
      <4>3. CASE key_sync # key_stable /\ debounce # WINDOW - 1
        <5>1. debounce' = debounce + 1 /\ key_stable' = key_stable
          BY <4>3, <2>1 DEF HNext, Next, DebounceEdge
        <5>2. past[2] = ~key_stable
          BY <4>3 DEF Run, TypeOK
        <5>3. \A k \in 3 .. debounce + 3 : past'[k] = ~key_stable
          BY <5>2, <3>2, <2>0 DEF Run, Was, HLength
        <5>4. past'[debounce + 4] = key_stable
          BY <4>3, <3>2, <2>0 DEF Run, HLength
        <5> QED BY <5>1, <5>3, <5>4, <2>0 DEF Was
      <4> QED BY <4>1, <4>2, <4>3
    <3> QED BY <3>2, <3>3, <3>4 DEF Run
  <2>2. CASE UNCHANGED hvars
    BY <2>2 DEF hvars, vars, control, Run, Was
  <2> QED BY <2>1, <2>2
<1> QED BY <1>1, <1>2, Typing, PTL DEF HSpec

\* The debouncer accepts exactly the levels that last a whole window.
THEOREM DebounceCorrect == HSpec => DebounceExact
<1> DEFINE Exact == key_stable' = IF Was(~key_stable, 2, WINDOW + 1)
                                  THEN ~key_stable ELSE key_stable
<1>1. TypeOK /\ Run /\ [HNext]_hvars => [Exact]_hvars
  <2> SUFFICES ASSUME TypeOK, Run, HNext PROVE Exact
    OBVIOUS
  <2>0. WINDOW \in Nat \ {0} /\ debounce \in 0 .. WINDOW - 1
    BY WindowAssumption DEF TypeOK
  <2>1. CASE Was(~key_stable, 2, WINDOW + 1)
    <3>1. key_sync # key_stable
      BY <2>1, <2>0 DEF Run, Was, TypeOK
    <3>2. debounce = WINDOW - 1
      <4>1. ~(debounce + 3 \in 2 .. WINDOW + 1)
        BY <2>1 DEF Was, Run, TypeOK
      <4> QED BY <4>1, <2>0
    <3>3. key_stable' = key_sync
      BY <3>1, <3>2 DEF HNext, Next, DebounceEdge
    <3> QED BY <2>1, <3>1, <3>3 DEF TypeOK
  <2>2. CASE ~Was(~key_stable, 2, WINDOW + 1)
    <3>1. key_sync = key_stable \/ debounce # WINDOW - 1
      <4> SUFFICES ASSUME key_sync # key_stable, debounce = WINDOW - 1 PROVE FALSE
        OBVIOUS
      <4>1. past[2] = ~key_stable
        BY DEF Run, TypeOK
      <4>2. \A k \in 2 .. WINDOW + 1 : past[k] = ~key_stable
        BY <4>1, <2>0 DEF Run, Was
      <4> QED BY <4>2, <2>2 DEF Was
    <3>2. key_stable' = key_stable
      BY <3>1 DEF HNext, Next, DebounceEdge
    <3> QED BY <2>2, <3>2
  <2> QED BY <2>1, <2>2
<1> QED BY <1>1, RunHolds, PTL DEF HSpec, DebounceExact

-----------------------------------------------------------------------------
(* The pulse.  Since counts the cycles after the last pulse, up to          *)
(* 2 * WINDOW: within it the key must fall, which takes a window, and rise, *)
(* which takes another, so debounce bounds how far that can have got.       *)

Since == IF key_pulse THEN 0 ELSE idle

Spacing ==
    /\ idle \in 1 .. 2 * WINDOW
    /\ key_pulse => idle = 2 * WINDOW
    /\ key_stable => debounce <= Since + 1
    /\ ~key_stable => debounce + WINDOW <= Since + 1
    /\ key_stable /\ ~key_prev => debounce = 0 /\ Since >= 2 * WINDOW - 1

LEMMA SpacingStep == TypeOK /\ Spacing /\ [HNext]_hvars => Spacing'
<1> SUFFICES ASSUME TypeOK, Spacing, [HNext]_hvars PROVE Spacing'
  OBVIOUS
<1>0. WINDOW \in Nat \ {0} /\ debounce \in 0 .. WINDOW - 1
  BY WindowAssumption DEF TypeOK
<1>1. CASE HNext
  <2>1. idle' = IF Since < 2 * WINDOW THEN Since + 1 ELSE 2 * WINDOW
    BY <1>1, <1>0 DEF HNext, Since, Spacing
  <2>2. Since \in 0 .. 2 * WINDOW
    BY <1>0 DEF Since, Spacing
  <2>3. debounce' \in 0 .. WINDOW - 1
    BY <1>0, <1>1 DEF HNext, Next, DebounceEdge
  <2>4. key_prev' = key_stable /\ key_pulse' = (key_stable /\ ~key_prev)
    BY <1>1 DEF HNext, Next, PulseEdge
  <2>5. CASE key_stable /\ ~key_prev
    <3>1. debounce = 0 /\ Since >= 2 * WINDOW - 1
      BY <2>5 DEF Spacing
    <3>2. idle' = 2 * WINDOW
      BY <3>1, <2>1, <2>2, <1>0
    <3>3. key_pulse' /\ key_prev'
      BY <2>4, <2>5
    <3>4. Since' = 0
      BY <3>3 DEF Since
    <3>5. debounce' <= 1
      BY <3>1, <1>1, <1>0 DEF HNext, Next, DebounceEdge
    <3>6. ~key_stable' => debounce' = 0 /\ WINDOW = 1
      <4> SUFFICES ASSUME ~key_stable' PROVE debounce' = 0 /\ WINDOW = 1
        OBVIOUS
      <4>1. debounce = WINDOW - 1 /\ debounce' = 0
        BY <2>5, <1>1 DEF HNext, Next, DebounceEdge
      <4> QED BY <4>1, <3>1, <1>0
    <3> QED BY <3>2, <3>3, <3>4, <3>5, <3>6, <1>0 DEF Spacing
  <2>6. CASE ~(key_stable /\ ~key_prev)
    <3>1. ~key_pulse' /\ Since' = idle'
      BY <2>6, <2>4 DEF Since
    <3>2. CASE key_stable' = key_stable
      <4>1. debounce' = 0 \/ debounce' = debounce + 1
        BY <1>1 DEF HNext, Next, DebounceEdge
      <4>2. \/ Since' = Since + 1 /\ debounce' <= debounce + 1
            \/ Since' = 2 * WINDOW /\ debounce' <= WINDOW - 1
        BY <4>1, <3>1, <2>1, <2>2, <2>3, <1>0
      <4>3. CASE key_stable
        <5>1. debounce' <= Since' + 1
          BY <4>2, <4>3, <2>2, <2>3, <1>0 DEF Spacing
        <5>2. key_prev'
          BY <2>4, <4>3
        <5> QED BY <5>1, <5>2, <4>3, <3>1, <3>2, <2>1, <2>2, <1>0 DEF Spacing
      <4>4. CASE ~key_stable
        <5>1. debounce' + WINDOW <= Since' + 1
          BY <4>2, <4>4, <2>2, <2>3, <1>0 DEF Spacing
        <5>2. ~key_stable'
          BY <3>2, <4>4
        <5> QED BY <5>1, <5>2, <3>1, <2>1, <2>2, <1>0 DEF Spacing
      <4> QED BY <4>3, <4>4
    <3>3. CASE key_stable' # key_stable
      <4>1. debounce = WINDOW - 1 /\ debounce' = 0
        BY <3>3, <1>1 DEF HNext, Next, DebounceEdge
      <4>2. CASE key_stable
        <5>1. ~key_stable'
          BY <4>2, <3>3, <1>1 DEF HNext, Next, DebounceEdge, TypeOK
        <5>2. WINDOW - 1 <= Since + 1
          BY <4>1, <4>2 DEF Spacing
        <5> QED BY <5>1, <5>2, <4>1, <3>1, <2>1, <2>2, <1>0 DEF Spacing
      <4>3. CASE ~key_stable
        <5>1. key_stable'
          BY <4>3, <3>3, <1>1 DEF HNext, Next, DebounceEdge, TypeOK
        <5>2. WINDOW - 1 + WINDOW <= Since + 1
          BY <4>1, <4>3 DEF Spacing
        <5> QED BY <5>1, <5>2, <4>1, <3>1, <2>1, <2>2, <1>0 DEF Spacing
      <4> QED BY <4>2, <4>3
    <3> QED BY <3>2, <3>3
  <2> QED BY <2>5, <2>6
<1>2. CASE UNCHANGED hvars
  BY <1>2 DEF hvars, vars, control, Spacing, Since
<1> QED BY <1>1, <1>2

\* Two pulses, hence the steps of two presses, are two windows apart.
THEOREM PulsesCorrect == HSpec => []PulsesApart
<1>1. HInit => Spacing
  BY WindowAssumption DEF HInit, Init, Spacing, Since
<1>2. Spacing => PulsesApart
  BY DEF Spacing, PulsesApart
<1> QED BY <1>1, <1>2, SpacingStep, Typing, PTL DEF HSpec

-----------------------------------------------------------------------------
\* Enables are adjacent only around a key pulse or a move of SW[9].
THEOREM EnablesApart == HSpec => AdjacentEnables
<1> DEFINE Apart == step_en /\ step_en' => \/ SW9' # SW9
                                           \/ ~SW9 /\ (key_pulse \/ key_pulse')
<1>1. TypeOK /\ [HNext]_hvars => [Apart]_vars
  <2> SUFFICES ASSUME TypeOK, HNext, step_en, step_en', SW9' = SW9
               PROVE  ~SW9 /\ (key_pulse \/ key_pulse')
    BY DEF hvars
  <2>1. divider \in 0 .. DIVISOR - 1 /\ divider' = (divider + 1) % DIVISOR
    BY DEF TypeOK, HNext, Next, DividerEdge
  <2>2. CASE SW9
    <3>1. divider % 2 = 1 /\ divider' % 2 = 1
      BY <2>2 DEF step_en
    <3> QED BY <3>1, <2>1, DivisorAssumption
  <2>3. CASE ~SW9 /\ ~key_pulse /\ ~key_pulse'
    <3>1. divider = 0 /\ divider' = 0
      BY <2>3 DEF step_en, tick
    <3>2. DIVISOR > 1
      BY DivisorAssumption
    <3> QED BY <3>1, <3>2, <2>1, DivisorAssumption
  <2> QED BY <2>2, <2>3
<1> QED BY <1>1, Typing, PTL DEF HSpec, AdjacentEnables

-----------------------------------------------------------------------------
(* A clean press.  Three states of its passage through the debouncer, each *)
(* one clock edge after the one before: its window is not full, its level  *)
(* has just been taken, its pulse is out.                                  *)

\* After a window of one level, fewer than WINDOW samples of the other change
\* nothing.
Pending ==
    \A j \in 0 .. WINDOW - 1, level \in BOOLEAN :
        Was(level, 3, j + 2) /\ Was(~level, j + 3, j + WINDOW + 2) => key_stable = ~level

Taken ==
    Was(TRUE, 3, WINDOW + 2) /\ Was(FALSE, WINDOW + 3, 2 * WINDOW + 2)
        => key_stable /\ ~key_prev

LEMMA PendingStep ==
    ASSUME TypeOK, Run, TypeOK', Run', Pending, HNext PROVE Pending'
<1>0. WINDOW \in Nat \ {0} /\ debounce \in 0 .. WINDOW - 1
  BY WindowAssumption DEF TypeOK
<1>1. \A i \in 2 .. HLength : past'[i] = past[i - 1]
  BY <1>0 DEF HNext, HLength
<1> SUFFICES ASSUME NEW j \in 0 .. WINDOW - 1, NEW level \in BOOLEAN,
                    Was(level, 3, j + 2)', Was(~level, j + 3, j + WINDOW + 2)'
             PROVE  key_stable' = ~level
  BY DEF Pending
<1>2. CASE j = 0
  <2>1. Was(~level, 3, WINDOW + 2)'
    BY <1>0, <1>2 DEF Was
  <2>2. \A k \in 3 .. WINDOW + 2 : past'[k] = ~level
    BY <2>1 DEF Was
  <2>3. PICK d \in 0 .. WINDOW - 1 : debounce' = d
    BY DEF TypeOK
  <2>4. d + 3 \in 3 .. WINDOW + 2
    BY <1>0
  <2>5. past'[d + 3] = key_stable'
    BY <2>3 DEF Run
  <2> QED BY <2>2, <2>4, <2>5
<1>3. CASE j > 0
  <2>1. Was(level, 2, j + 1)
    <3> SUFFICES ASSUME NEW k \in 2 .. j + 1 PROVE past[k] = level
      BY DEF Was
    <3>1. k + 1 \in 3 .. j + 2 /\ k + 1 \in 2 .. HLength
      BY <1>0 DEF HLength
    <3> QED BY <1>1, <3>1 DEF Was
  <2>2. Was(~level, j + 2, j + WINDOW + 1)
    <3> SUFFICES ASSUME NEW k \in j + 2 .. j + WINDOW + 1 PROVE past[k] = ~level
      BY DEF Was
    <3>1. k + 1 \in j + 3 .. j + WINDOW + 2 /\ k + 1 \in 2 .. HLength
      BY <1>0 DEF HLength
    <3> QED BY <1>1, <3>1 DEF Was
  <2>3. key_stable = ~level
    <3> DEFINE i == j - 1
    <3>1. i \in 0 .. WINDOW - 1 /\ i + 2 = j + 1 /\ i + 3 = j + 2
          /\ i + WINDOW + 2 = j + WINDOW + 1
      BY <1>0, <1>3
    <3>2. Was(level, 3, i + 2) /\ Was(~level, i + 3, i + WINDOW + 2)
      BY <2>1, <2>2, <3>1 DEF Was
    <3> HIDE DEF i
    <3> QED BY <3>1, <3>2 DEF Pending
  <2>4. debounce < WINDOW - 1
    <3> SUFFICES ASSUME debounce = WINDOW - 1 PROVE FALSE
      BY <1>0
    <3>1. j + 2 \in 3 .. debounce + 2
      BY <1>0, <1>3
    <3>2. past[j + 2] = ~key_stable
      BY <3>1 DEF Run, Was
    <3>3. past[j + 2] = ~level
      BY <1>0, <2>2 DEF Was
    <3> QED BY <2>3, <3>2, <3>3
  <2> QED BY <1>0, <2>3, <2>4 DEF HNext, Next, DebounceEdge
<1> QED BY <1>2, <1>3

\* A press that is clean, a window up and then a window down, gives its pulse
\* three edges after the second window fills: it is never missed
\* (soc_top.sv:64-84).
THEOREM CleanPressCorrect == HSpec => []CleanPressPulses
<1>1. HInit => Pending /\ Taken /\ CleanPressPulses
  <2> SUFFICES ASSUME HInit PROVE Pending /\ Taken /\ CleanPressPulses
    OBVIOUS
  <2>0. WINDOW \in Nat \ {0} /\ key_stable = FALSE
        /\ \A i \in 1 .. 2 * WINDOW + 3 : past[i] = FALSE
    BY WindowAssumption DEF HInit, Init, HLength
  <2>1. ~Was(TRUE, 3, WINDOW + 2) /\ ~Was(TRUE, 4, WINDOW + 3)
    BY <2>0 DEF Was
  <2>2. \A j \in 0 .. WINDOW - 1 : ~Was(TRUE, j + 3, j + WINDOW + 2)
    <3> SUFFICES ASSUME NEW j \in 0 .. WINDOW - 1
                 PROVE  \E k \in j + 3 .. j + WINDOW + 2 : past[k] # TRUE
      BY DEF Was
    <3>1. j + 3 \in j + 3 .. j + WINDOW + 2 /\ j + 3 \in 1 .. 2 * WINDOW + 3
      BY <2>0
    <3> QED BY <2>0, <3>1
  <2>3. Pending
    BY <2>0, <2>2 DEF Pending
  <2> QED BY <2>1, <2>3 DEF Taken, CleanPressPulses
<1>2. TypeOK /\ Run /\ Pending /\ Taken /\ CleanPressPulses
      /\ [HNext]_hvars /\ TypeOK' /\ Run'
        => Pending' /\ Taken' /\ CleanPressPulses'
  <2> SUFFICES ASSUME TypeOK, Run, Pending, Taken, CleanPressPulses, [HNext]_hvars,
                      TypeOK', Run'
               PROVE  Pending' /\ Taken' /\ CleanPressPulses'
    OBVIOUS
  <2>0. WINDOW \in Nat \ {0}
    BY WindowAssumption
  <2>1. CASE UNCHANGED hvars
    BY <2>1 DEF hvars, vars, control, Pending, Taken, CleanPressPulses, Was
  <2>2. CASE HNext
    <3>1. \A i \in 2 .. 2 * WINDOW + 3 : past'[i] = past[i - 1]
      BY <2>0, <2>2 DEF HNext, HLength
    <3>2. key_prev' = key_stable /\ key_pulse' = (key_stable /\ ~key_prev)
      BY <2>2 DEF HNext, Next, PulseEdge
    <3>3. Pending'
      BY <2>2, PendingStep
    <3>4. Taken'
      <4> SUFFICES ASSUME Was(TRUE, 3, WINDOW + 2)',
                          Was(FALSE, WINDOW + 3, 2 * WINDOW + 2)'
                   PROVE  key_stable' /\ ~key_prev'
        BY DEF Taken
      <4>1. key_stable'
        <5>1. PICK d \in 0 .. WINDOW - 1 : debounce' = d
          BY DEF TypeOK
        <5>2. d + 3 \in 3 .. WINDOW + 2
          BY <2>0
        <5>3. past'[d + 3] = TRUE
          BY <5>2 DEF Was
        <5>4. past'[d + 3] = key_stable'
          BY <5>1 DEF Run
        <5> QED BY <5>3, <5>4
      <4>2. Was(TRUE, 3, WINDOW + 1)
        <5> SUFFICES ASSUME NEW k \in 3 .. WINDOW + 1 PROVE past[k] = TRUE
          BY DEF Was
        <5>1. k + 1 \in 3 .. WINDOW + 2 /\ k + 1 \in 2 .. 2 * WINDOW + 3
          BY <2>0
        <5> QED BY <3>1, <5>1 DEF Was
      <4>3. Was(FALSE, WINDOW + 2, 2 * WINDOW + 1)
        <5> SUFFICES ASSUME NEW k \in WINDOW + 2 .. 2 * WINDOW + 1 PROVE past[k] = FALSE
          BY DEF Was
        <5>1. k + 1 \in WINDOW + 3 .. 2 * WINDOW + 2 /\ k + 1 \in 2 .. 2 * WINDOW + 3
          BY <2>0
        <5> QED BY <3>1, <5>1 DEF Was
      <4>4. key_stable = FALSE
        <5> DEFINE j == WINDOW - 1
        <5>1. j \in 0 .. WINDOW - 1 /\ j + 2 = WINDOW + 1 /\ j + 3 = WINDOW + 2
              /\ j + WINDOW + 2 = 2 * WINDOW + 1
          BY <2>0
        <5>2. Was(TRUE, 3, j + 2) /\ Was(~TRUE, j + 3, j + WINDOW + 2)
          BY <4>2, <4>3, <5>1 DEF Was
        <5> HIDE DEF j
        <5> QED BY <5>1, <5>2 DEF Pending
      <4> QED BY <3>2, <4>1, <4>4
    <3>5. CleanPressPulses'
      <4> SUFFICES ASSUME Was(TRUE, 4, WINDOW + 3)',
                          Was(FALSE, WINDOW + 4, 2 * WINDOW + 3)'
                   PROVE  key_pulse'
        BY DEF CleanPressPulses
      <4>1. Was(TRUE, 3, WINDOW + 2)
        <5> SUFFICES ASSUME NEW k \in 3 .. WINDOW + 2 PROVE past[k] = TRUE
          BY DEF Was
        <5>1. k + 1 \in 4 .. WINDOW + 3 /\ k + 1 \in 2 .. 2 * WINDOW + 3
          BY <2>0
        <5> QED BY <3>1, <5>1 DEF Was
      <4>2. Was(FALSE, WINDOW + 3, 2 * WINDOW + 2)
        <5> SUFFICES ASSUME NEW k \in WINDOW + 3 .. 2 * WINDOW + 2 PROVE past[k] = FALSE
          BY DEF Was
        <5>1. k + 1 \in WINDOW + 4 .. 2 * WINDOW + 3 /\ k + 1 \in 2 .. 2 * WINDOW + 3
          BY <2>0
        <5> QED BY <3>1, <5>1 DEF Was
      <4> QED BY <3>2, <4>1, <4>2 DEF Taken
    <3> QED BY <3>3, <3>4, <3>5
  <2> QED BY <2>1, <2>2
<1> QED BY <1>1, <1>2, RunHolds, PTL DEF HSpec
=============================================================================
