---------------------------- MODULE BoardProofs ----------------------------
(***************************************************************************)
(* Proofs of BoardProperties, for every program, width, divisor and        *)
(* debounce window.                                                        *)
(***************************************************************************)
EXTENDS BoardProperties, SocProofs

\* The watch has the value of every register it is said to hold, selected or not;
\* registers are a function on Reg.
WatchInv ==
    /\ regs = [r \in Reg |-> regs[r]]
    /\ SW_watch \in Reg
    /\ watched \subseteq Reg
    /\ \A s \in watched : watch_value = regs[s]

\* A register changes only when the commit port reports it.
LEMMA CommitTellsRegister ==
    ASSUME regs = [r \in Reg |-> regs[r]], RegfileEdge, ~rst, NEW s \in Reg
    PROVE  /\ commit_valid /\ commit_rd # 0 /\ commit_rd = s => regs'[s] = commit_rd_wdata
           /\ ~(commit_valid /\ commit_rd # 0 /\ commit_rd = s) => regs'[s] = regs[s]
<1>1. regfile_we <=> reg_write(f) /\ commit_valid
  BY DEF regfile_we, commit_valid
<1>2. CASE regfile_we /\ f.rd # 0
  <2>1. regs' = [regs EXCEPT ![f.rd] = wb_data]
    BY <1>2 DEF RegfileEdge
  <2>2. commit_rd = f.rd /\ commit_rd_wdata = wb_data /\ commit_valid
    BY <1>1, <1>2 DEF commit_rd, commit_rd_wdata
  <2>3. DOMAIN regs = Reg
    OBVIOUS
  <2>4. regs'[s] = IF s = f.rd THEN wb_data ELSE regs[s]
    BY <2>1, <2>3
  <2>5. CASE s = f.rd
    BY <2>2, <2>4, <2>5, <1>2
  <2>6. CASE s # f.rd
    BY <2>2, <2>4, <2>6
  <2> QED BY <2>5, <2>6
<1>3. CASE ~(regfile_we /\ f.rd # 0)
  <2>1. regs' = regs
    BY <1>3 DEF RegfileEdge
  <2>2. ~(commit_valid /\ commit_rd # 0)
    BY <1>1, <1>3 DEF commit_rd
  <2> QED BY <2>1, <2>2
<1> QED BY <1>2, <1>3

\* With SW[8] up the display shows the selected register if the watch took its
\* value from it, or was reset with it, and it was not written unseen since
\* (soc_top.sv:123-129).
THEOREM WatchCorrect == HSpec => []WatchTruthful
<1>1. HInit => WatchInv
  BY DEF HInit, BoardInit, Init, WatchInv
<1>2. WatchInv /\ [HNext]_hvars => WatchInv'
  <2> SUFFICES ASSUME WatchInv, [HNext]_hvars PROVE WatchInv'
    OBVIOUS
  <2>1. CASE UNCHANGED hvars
    BY <2>1 DEF WatchInv, hvars, boardvars, vars, arch
  <2>2. CASE HNext
    <3>1. SW_watch' \in Reg /\ RegfileEdge /\ WatchEdge /\ WatchHistory
      BY <2>2 DEF HNext, BoardNext, Clock
    <3>2. regs' = [r \in Reg |-> regs'[r]]
      BY <3>1 DEF WatchInv, RegfileEdge
    <3>3. watched' \subseteq Reg
      BY <3>1 DEF WatchHistory, WatchInv
    <3>4. ASSUME NEW s \in watched' PROVE watch_value' = regs'[s]
      <4>1. CASE rst
        BY <3>1, <3>3, <4>1 DEF RegfileEdge, WatchEdge
      <4>2. CASE ~rst /\ commit_valid /\ commit_rd # 0 /\ commit_rd = SW_watch
        <5>1. s = commit_rd /\ s \in Reg /\ watch_value' = commit_rd_wdata
          BY <3>1, <3>3, <4>2 DEF WatchHistory, WatchEdge
        <5> QED BY <3>1, <4>2, <5>1, CommitTellsRegister DEF WatchInv
      <4>3. CASE ~rst /\ ~(commit_valid /\ commit_rd # 0 /\ commit_rd = SW_watch)
        <5>1. s \in watched /\ s \in Reg /\ watch_value' = watch_value
          BY <3>1, <3>3, <4>3 DEF WatchHistory, WatchEdge
        <5>2. ~(commit_valid /\ commit_rd # 0 /\ commit_rd = s)
          BY <3>1, <4>3 DEF WatchHistory
        <5>3. regs'[s] = regs[s]
          BY <3>1, <4>3, <5>1, <5>2, CommitTellsRegister DEF WatchInv
        <5> QED BY <5>1, <5>3 DEF WatchInv
      <4> QED BY <4>1, <4>2, <4>3
    <3> QED BY <3>1, <3>2, <3>3, <3>4 DEF WatchInv
  <2> QED BY <2>1, <2>2
<1>3. WatchInv => WatchTruthful
  BY DEF WatchInv, WatchTruthful, shown
<1> QED BY <1>1, <1>2, <1>3, PTL DEF HSpec

-----------------------------------------------------------------------------
(* A press.  Its first cycle precedes its pulse, the second has the pulse,  *)
(* and from the third on its account is closed; the window keeps a release  *)
(* from overtaking the pulse.                                               *)

KeyTypes ==
    /\ key_raw \in BOOLEAN /\ key_sync \in BOOLEAN /\ key_stable \in BOOLEAN
    /\ key_prev \in BOOLEAN /\ key_pulse \in BOOLEAN
    /\ pressed \in BOOLEAN /\ SW9 \in BOOLEAN

PressTypes == press \in [steady : BOOLEAN, byKey : 0 .. 2, byTick : 0 .. 2, merged : BOOLEAN]

Account ==
    press.steady =>
      /\ ~key_prev => /\ key_stable /\ ~key_pulse /\ debounce = 0
                      /\ press.byKey = 0 /\ ~press.merged
      /\ key_prev /\ key_pulse => key_stable /\ press.byKey = 0 /\ ~press.merged
      /\ key_prev /\ ~key_pulse => press.byKey = IF press.merged THEN 0 ELSE 1

PressInv == KeyTypes /\ PressTypes /\ step_en = Control!step_en /\ Account

\* Out of reset and running, every enabled cycle executes an instruction.
LEMMA EnabledExecutes ==
    ASSUME ~rst, ~halted PROVE executes <=> step_en
BY DEF executes, commit_valid, trap

LEMMA KeyTypesStep ==
    ASSUME KeyTypes, BoardNext PROVE KeyTypes'
BY DEF KeyTypes, BoardNext, Control!Next, Control!SynchroniserEdge,
       Control!DebounceEdge, Control!PulseEdge

LEMMA PressTypesStep ==
    ASSUME PressTypes, KeyTypes, PressHistory PROVE PressTypes'
<1>1. CASE accepted
  <2>1. press' = [steady |-> TRUE, byKey |-> 0, byTick |-> 0, merged |-> FALSE]
    BY <1>1 DEF PressHistory, NoPress
  <2> QED BY <2>1 DEF PressTypes
<1>2. CASE ~accepted /\ press' = NoPress
  BY <1>2 DEF PressTypes, NoPress
<1>3. CASE ~accepted /\ press' # NoPress
  <2>1. \A n \in 0 .. 2 : Saturated(n) \in 0 .. 2
    BY DEF Saturated
  <2>2. (press.merged \/ (key_pulse /\ Control!tick)) \in BOOLEAN
    OBVIOUS
  <2> QED BY <1>3, <2>1, <2>2 DEF PressTypes, PressHistory
<1> QED BY <1>1, <1>2, <1>3

\* What one step does to the account of a press that goes on.
LEMMA AccountStep ==
    ASSUME WINDOW > 1, PressInv, BoardNext, PressHistory, press'.steady, ~accepted
    PROVE  /\ press.steady /\ key_stable /\ ~SW9 /\ ~rst /\ ~halted
           /\ press'.byKey = IF key_pulse /\ ~Control!tick
                             THEN Saturated(press.byKey) ELSE press.byKey
           /\ press'.merged = (press.merged \/ (key_pulse /\ Control!tick))
<1>1. press' # NoPress
  BY DEF NoPress
<1>2. press.steady /\ key_stable /\ ~SW9 /\ ~rst /\ ~halted
  BY <1>1 DEF PressHistory
<1>3. executes <=> step_en
  BY <1>2, EnabledExecutes
<1>4. executes /\ ~Control!tick <=> key_pulse /\ ~Control!tick
  BY <1>2, <1>3 DEF PressInv, KeyTypes, Control!step_en
<1>5. press' = [press EXCEPT
                  !.byKey  = IF executes /\ ~Control!tick THEN Saturated(@) ELSE @,
                  !.byTick = IF executes /\ Control!tick  THEN Saturated(@) ELSE @,
                  !.merged = @ \/ (key_pulse /\ Control!tick)]
  BY <1>2 DEF PressHistory
<1>6. /\ press'.byKey = IF executes /\ ~Control!tick
                        THEN Saturated(press.byKey) ELSE press.byKey
      /\ press'.merged = (press.merged \/ (key_pulse /\ Control!tick))
  BY <1>5 DEF PressInv, PressTypes
<1> QED BY <1>2, <1>4, <1>6

LEMMA AccountPreserved ==
    ASSUME WINDOW > 1, PressInv, BoardNext, PressHistory PROVE Account'
<1> SUFFICES ASSUME press'.steady PROVE Account'
  BY DEF Account
<1>1. /\ key_prev' = key_stable
      /\ key_pulse' = (key_stable /\ ~key_prev)
      /\ Control!DebounceEdge
  BY DEF BoardNext, Control!Next, Control!PulseEdge
<1> USE DEF PressInv
<1>2. CASE accepted
  <2>1. key_stable' /\ ~key_prev' /\ ~key_pulse' /\ debounce' = 0
    BY <1>1, <1>2 DEF accepted, Control!DebounceEdge
  <2>2. press'.byKey = 0 /\ ~press'.merged
    BY <1>2 DEF PressHistory, NoPress
  <2> QED BY <2>1, <2>2 DEF Account
<1>3. CASE ~accepted
  <2>1. /\ press.steady /\ key_stable
        /\ press'.byKey = IF key_pulse /\ ~Control!tick
                          THEN Saturated(press.byKey) ELSE press.byKey
        /\ press'.merged = (press.merged \/ (key_pulse /\ Control!tick))
    BY <1>3, AccountStep
  <2>2. CASE ~key_prev
    <3>1. ~key_pulse /\ debounce = 0 /\ press.byKey = 0 /\ ~press.merged
      BY <2>1, <2>2 DEF Account
    <3>2. key_prev' /\ key_pulse'
      BY <1>1, <2>1, <2>2
    <3>3. key_stable'
      <4>1. debounce # WINDOW - 1
        BY <3>1, ControlAssumption
      <4>2. key_stable' = key_stable
        BY <1>1, <4>1 DEF Control!DebounceEdge
      <4> QED BY <2>1, <4>2
    <3>4. press'.byKey = 0 /\ ~press'.merged
      BY <2>1, <3>1
    <3> QED BY <3>2, <3>3, <3>4 DEF Account
  <2>3. CASE key_prev
    <3>1. key_prev' /\ ~key_pulse'
      BY <1>1, <2>1, <2>3
    <3>2. press'.byKey = IF press'.merged THEN 0 ELSE 1
      <4>1. CASE key_pulse
        <5>1. press.byKey = 0 /\ ~press.merged
          BY <2>1, <2>3, <4>1 DEF Account
        <5>2. CASE Control!tick
          BY <2>1, <4>1, <5>1, <5>2
        <5>3. CASE ~Control!tick
          <6>1. Saturated(press.byKey) = 1
            BY <5>1 DEF Saturated
          <6>2. press'.byKey = 1
            BY <2>1, <4>1, <5>3, <6>1
          <6>3. ~press'.merged
            BY <2>1, <5>1, <5>3
          <6> QED BY <6>2, <6>3
        <5> QED BY <5>2, <5>3
      <4>2. CASE ~key_pulse
        BY <2>1, <2>3, <4>2 DEF Account
      <4> QED BY <4>1, <4>2
    <3> QED BY <3>1, <3>2 DEF Account
  <2> QED BY <2>2, <2>3 DEF KeyTypes
<1> QED BY <1>2, <1>3

\* With a window of two cycles or more, a press in slow mode adds exactly one
\* instruction to those of the ticks, or none when its pulse falls on a tick,
\* for every program, divider and bounce of the key (soc_top.sv:91).
THEOREM PressCorrect == WINDOW > 1 => (HSpec => PressAddsOne)
<1> SUFFICES ASSUME WINDOW > 1 PROVE HSpec => PressAddsOne
  OBVIOUS
<1>1. HInit => PressInv
  <2> SUFFICES ASSUME HInit PROVE PressInv
    OBVIOUS
  <2>1. press = [steady |-> FALSE, byKey |-> 0, byTick |-> 0, merged |-> FALSE]
    BY DEF HInit, NoPress
  <2>2. PressTypes /\ Account
    BY <2>1 DEF PressTypes, Account
  <2>3. KeyTypes /\ step_en = Control!step_en
    BY DEF HInit, BoardInit, Control!Init, KeyTypes
  <2> QED BY <2>2, <2>3 DEF PressInv
<1>2. PressInv /\ [HNext]_hvars => PressInv'
  <2> SUFFICES ASSUME PressInv, [HNext]_hvars PROVE PressInv'
    OBVIOUS
  <2>1. CASE UNCHANGED hvars
    BY <2>1 DEF hvars, boardvars, vars, Control!vars, Control!control, PressInv,
                KeyTypes, PressTypes, Account, Control!step_en, Control!tick
  <2>2. CASE HNext
    <3>1. BoardNext /\ PressHistory
      BY <2>2 DEF HNext
    <3>2. KeyTypes' /\ PressTypes'
      BY <3>1, KeyTypesStep, PressTypesStep DEF PressInv
    <3>3. step_en' = Control!step_en'
      BY <3>1 DEF BoardNext
    <3>4. Account'
      BY <3>1, AccountPreserved
    <3> QED BY <3>2, <3>3, <3>4 DEF PressInv
  <2> QED BY <2>1, <2>2
<1>3. PressInv /\ [HNext]_hvars =>
        [released /\ press'.steady =>
           press'.byKey = IF press'.merged THEN 0 ELSE 1]_hvars
  <2> SUFFICES ASSUME PressInv, HNext, released, press'.steady
               PROVE  press'.byKey = IF press'.merged THEN 0 ELSE 1
    OBVIOUS
  <2>1. BoardNext /\ PressHistory /\ ~accepted
    BY DEF HNext, released, accepted
  <2>2. press.steady /\ key_stable
    BY <2>1, AccountStep
  <2>3. /\ key_prev' = key_stable
        /\ key_pulse' = (key_stable /\ ~key_prev)
        /\ Control!DebounceEdge
    BY <2>1 DEF BoardNext, Control!Next, Control!PulseEdge
  <2>4. key_prev
    <3> SUFFICES ASSUME ~key_prev PROVE FALSE
      OBVIOUS
    <3>1. debounce = 0
      BY <2>2 DEF PressInv, Account
    <3>2. debounce # WINDOW - 1
      BY <3>1, ControlAssumption
    <3>3. key_stable' = key_stable
      BY <2>3, <3>2 DEF Control!DebounceEdge
    <3> QED BY <2>2, <3>3 DEF released
  <2>5. Account'
    BY <2>1, AccountPreserved
  <2> QED BY <2>2, <2>3, <2>4, <2>5 DEF Account
<1> QED BY <1>1, <1>2, <1>3, PTL DEF HSpec, PressAddsOne

-----------------------------------------------------------------------------
\* The board drives the core as Soc allows: whatever the key, the switches and
\* the divider do, what is proved of Soc holds of the board (soc_top.sv:96).
THEOREM BoardIsSoc == BoardSpec => Spec
<1>1. BoardInit => Init
  <2> SUFFICES ASSUME BoardInit PROVE Init
    OBVIOUS
  <2> QED BY DEF BoardInit
<1>2. [BoardNext]_boardvars => [Next]_vars
  <2>1. ASSUME BoardNext PROVE Next
    <3>1. step_en' \in BOOLEAN
      <4>1. Control!step_en' \in BOOLEAN
        BY DEF Control!step_en
      <4> QED BY <2>1, <4>1 DEF BoardNext
    <3> QED BY <2>1, <3>1 DEF BoardNext, Next, Inputs
  <2> QED BY <2>1 DEF boardvars
<1> QED BY <1>1, <1>2, PTL DEF BoardSpec, Spec

\* On the board too, a halted core stands on the instruction that stopped it,
\* with that instruction's cause on LEDR[3:1] (soc_top.sv:145).
THEOREM BoardHaltCorrect == BoardSpec => []HaltExplained
BY BoardIsSoc, HaltCorrect, PTL

\* The board's state keeps its types and its counters their bounds, and the
\* watch holds a word, whatever the switches select (soc_top.sv:40, 124).
THEOREM BoardTypeCorrect == BoardSpec => []BoardTypeOK
<1>1. BoardInit => BoardTypeOK
  <2> SUFFICES ASSUME BoardInit PROVE BoardTypeOK
    OBVIOUS
  <2>1. Control!TypeOK
    <3>1. divider \in 0 .. DIVISOR - 1 /\ debounce \in 0 .. WINDOW - 1
      BY ControlAssumption DEF BoardInit, Control!Init
    <3> QED BY <3>1 DEF BoardInit, Control!Init, Control!TypeOK
  <2> QED BY <2>1, WordNat DEF BoardInit, BoardTypeOK
<1>2. TypeOK /\ BoardTypeOK /\ [BoardNext]_boardvars => BoardTypeOK'
  <2> SUFFICES ASSUME TypeOK, BoardTypeOK, [BoardNext]_boardvars PROVE BoardTypeOK'
    OBVIOUS
  <2>1. CASE BoardNext
    <3>1. Control!TypeOK'
      <4> USE <2>1 DEF BoardNext, Control!Next
      <4>1. divider' \in 0 .. DIVISOR - 1
        BY ControlAssumption DEF BoardTypeOK, Control!TypeOK, Control!DividerEdge
      <4>2. debounce' \in 0 .. WINDOW - 1
        BY ControlAssumption DEF BoardTypeOK, Control!TypeOK, Control!DebounceEdge
      <4>3. /\ pressed' \in BOOLEAN /\ SW9' \in BOOLEAN
            /\ key_raw' \in BOOLEAN /\ key_sync' \in BOOLEAN /\ key_stable' \in BOOLEAN
            /\ key_prev' \in BOOLEAN /\ key_pulse' \in BOOLEAN
        BY DEF BoardTypeOK, Control!TypeOK, Control!SynchroniserEdge,
               Control!DebounceEdge, Control!PulseEdge
      <4> QED BY <4>1, <4>2, <4>3 DEF Control!TypeOK
    <3>2. commit_rd_wdata \in Word
      BY SignalTypes, WordNat DEF commit_rd_wdata
    <3>3. watch_value' \in Word
      BY <2>1, <3>2, WordNat DEF BoardNext, WatchEdge, BoardTypeOK
    <3> QED BY <2>1, <3>1, <3>3 DEF BoardNext, BoardTypeOK
  <2>2. CASE UNCHANGED boardvars
    BY <2>2 DEF boardvars, Control!vars, Control!control, BoardTypeOK, Control!TypeOK
  <2> QED BY <2>1, <2>2
<1> QED BY <1>1, <1>2, BoardIsSoc, TypeCorrect, PTL DEF BoardSpec
=============================================================================
