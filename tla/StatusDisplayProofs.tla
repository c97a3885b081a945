------------------------- MODULE StatusDisplayProofs -------------------------
(***************************************************************************)
(* The display's invariants for every wake and refresh period.             *)
(*                                                                         *)
(* AsleepIsDark and NoPressLost are inductive.  ShownIsFresh needs what a  *)
(* frame that is not due yet says of the one on the panel (FrameInv),      *)
(* StageTellsCrash where in the boot and in a pass the stage is set        *)
(* (StageInv), and RestartIsPressed where an armed release comes from      *)
(* (BootKeyInv).                                                           *)
(***************************************************************************)
EXTENDS StatusDisplay, TLAPS

USE DEF taskVars, wakeVars, frameVars, keyVars, irqVars, boardVars, crashVars

\* The board line of a frame that was just drawn.
BoardFresh == pmu.ready /\ boardOk => boardAge < PowerTicks

\* A frame that is not due to be replaced is the one drawn last, and is fresh.
FrameInv ==
  /\ ~force /\ initialized /\ sinceRender < RenderTicks => frameAge < RenderTicks /\ BoardFresh
  /\ pc \in InitPCs => ~initialized
  /\ pc = "rendered" /\ initialized => frameAge < RenderTicks
  /\ pc \in {"stripes", "rendered"} => BoardFresh
  /\ pc = "sleep" /\ polled /\ initialized /\ awake => ~force /\ sinceRender < RenderTicks

\* The stage is set while a frame is drawn and nowhere else, once init() has
\* dropped what the last boot left.
StageInv ==
  /\ pc \in {"boot", "noBuffer"} /\ died # "cold" => (stage # 0 <=> died = "rendering")
  /\ pc \in RenderPCs => stage # 0
  /\ pc \notin RenderPCs \union {"boot", "noBuffer"} => stage = 0

\* A release is armed by a press of this boot only.
BootKeyInv ==
  /\ bootKey.armed => began
  /\ bootKey.ready /\ button /\ ~bootKey.pressed => began

\* Every variable keeps its type (the members of status_display.h).
LEMMA TypeStep == TypeOK /\ [Next]_vars => TypeOK'
<1> SUFFICES ASSUME TypeOK, [Next]_vars PROVE TypeOK'
  OBVIOUS
<1>1. pc' \in PCs
  <2> USE DEF PCs, InitPCs, PassPCs, RenderPCs
  <2>1. CASE InitStage
    BY <2>1 DEF InitStage, TypeOK
  <2>2. CASE InitBus
    BY <2>2 DEF InitBus, TypeOK
  <2>3. CASE InitPmu
    BY <2>3 DEF InitPmu, TypeOK
  <2>4. CASE InitWakeInputs
    BY <2>4 DEF InitWakeInputs, TypeOK
  <2>5. CASE InitPanelPower
    BY <2>5 DEF InitPanelPower, TypeOK
  <2>6. CASE InitPanel
    BY <2>6 DEF InitPanel, TypeOK
  <2>7. CASE InitStandby
    BY <2>7 DEF InitStandby, TypeOK
  <2>8. CASE BeginPass
    BY <2>8 DEF BeginPass, TypeOK
  <2>9. CASE PollBootKey
    BY <2>9 DEF PollBootKey, TypeOK
  <2>10. CASE BootRestart
    BY <2>10 DEF BootRestart, TypeOK, ResetRam
  <2>11. CASE PollPwrRead
    BY <2>11 DEF PollPwrRead, TypeOK
  <2>12. CASE PollPwrClear
    BY <2>12 DEF PollPwrClear, TypeOK
  <2>13. CASE Sleep
    BY <2>13 DEF Sleep, TypeOK
  <2>14. CASE SkipFrame
    BY <2>14 DEF SkipFrame, TypeOK
  <2>15. CASE BeginFrame
    BY <2>15 DEF BeginFrame, TypeOK
  <2>16. CASE RefreshBoard
    BY <2>16 DEF RefreshBoard, TypeOK
  <2>17. CASE RenderStripes
    BY <2>17 DEF RenderStripes, TypeOK
  <2>18. CASE EndFrame
    BY <2>18 DEF EndFrame, TypeOK
  <2>19. CASE Tick
    BY <2>19 DEF Tick, TypeOK
  <2>20. CASE PollAgain
    BY <2>20 DEF PollAgain, TypeOK
  <2>21. CASE PressPwr
    BY <2>21 DEF PressPwr, TypeOK
  <2>22. CASE OtherIrq
    BY <2>22 DEF OtherIrq, TypeOK
  <2>23. CASE PressBoot
    BY <2>23 DEF PressBoot, TypeOK
  <2>24. CASE ReleaseBoot
    BY <2>24 DEF ReleaseBoot, TypeOK
  <2>25. CASE Crash
    BY <2>25 DEF Crash, TypeOK, ResetRam
  <2>26. CASE PowerCut
    BY <2>26 DEF PowerCut, TypeOK, ResetRam
  <2>27. CASE UNCHANGED vars
    BY <2>27 DEF vars, TypeOK
  <2> QED
    BY <2>1, <2>2, <2>3, <2>4, <2>5, <2>6, <2>7, <2>8, <2>9, <2>10, <2>11, <2>12, <2>13, <2>14,
       <2>15, <2>16, <2>17, <2>18, <2>19, <2>20, <2>21, <2>22, <2>23, <2>24, <2>25, <2>26, <2>27
    DEF Next, DisplayInit, DisplayTask, World
<1>2. TimeTypes'
  <2> USE TicksAssumption DEF RenderTicks, TypeOK, TimeTypes
  <2>1. CASE InitStage
    BY <2>1 DEF InitStage
  <2>2. CASE InitBus
    BY <2>2 DEF InitBus
  <2>3. CASE InitPmu
    BY <2>3 DEF InitPmu
  <2>4. CASE InitWakeInputs
    BY <2>4 DEF InitWakeInputs
  <2>5. CASE InitPanelPower
    BY <2>5 DEF InitPanelPower
  <2>6. CASE InitPanel
    BY <2>6 DEF InitPanel
  <2>7. CASE InitStandby
    BY <2>7 DEF InitStandby
  <2>8. CASE BeginPass
    BY <2>8 DEF BeginPass
  <2>9. CASE PollBootKey
    BY <2>9 DEF PollBootKey
  <2>10. CASE BootRestart
    BY <2>10 DEF BootRestart, ResetRam
  <2>11. CASE PollPwrRead
    BY <2>11 DEF PollPwrRead
  <2>12. CASE PollPwrClear
    <3>1. CASE "short" \in seen
      <4>1. awakeLeft' = WakeTicks /\ sinceRender' \in {sinceRender, RenderTicks}
        BY <2>12, <3>1 DEF PollPwrClear, Wake
      <4>2. UNCHANGED <<frameAge, boardAge>>
        BY <2>12 DEF PollPwrClear
      <4> QED BY <4>1, <4>2
    <3>2. CASE "short" \notin seen
      BY <2>12, <3>2 DEF PollPwrClear
    <3> QED BY <3>1, <3>2
  <2>13. CASE Sleep
    BY <2>13 DEF Sleep
  <2>14. CASE SkipFrame
    BY <2>14 DEF SkipFrame
  <2>15. CASE BeginFrame
    BY <2>15 DEF BeginFrame
  <2>16. CASE RefreshBoard
    BY <2>16 DEF RefreshBoard
  <2>17. CASE RenderStripes
    BY <2>17 DEF RenderStripes
  <2>18. CASE EndFrame
    BY <2>18 DEF EndFrame
  <2>19. CASE Tick
    BY <2>19 DEF Tick, Minus, Plus
  <2>20. CASE PollAgain
    BY <2>20 DEF PollAgain
  <2>21. CASE PressPwr
    BY <2>21 DEF PressPwr
  <2>22. CASE OtherIrq
    BY <2>22 DEF OtherIrq
  <2>23. CASE PressBoot
    BY <2>23 DEF PressBoot
  <2>24. CASE ReleaseBoot
    BY <2>24 DEF ReleaseBoot
  <2>25. CASE Crash
    BY <2>25 DEF Crash, ResetRam
  <2>26. CASE PowerCut
    BY <2>26 DEF PowerCut, ResetRam
  <2>27. CASE UNCHANGED vars
    BY <2>27 DEF vars
  <2> QED
    BY <2>1, <2>2, <2>3, <2>4, <2>5, <2>6, <2>7, <2>8, <2>9, <2>10, <2>11, <2>12, <2>13, <2>14,
       <2>15, <2>16, <2>17, <2>18, <2>19, <2>20, <2>21, <2>22, <2>23, <2>24, <2>25, <2>26, <2>27
    DEF Next, DisplayInit, DisplayTask, World
<1>3. FlagTypes'
  <2> USE DEF TypeOK, FlagTypes
  <2>1. CASE InitStage
    BY <2>1 DEF InitStage
  <2>2. CASE InitBus
    BY <2>2 DEF InitBus
  <2>3. CASE InitPmu
    <3>1. owed' \in BOOLEAN
      BY <2>3 DEF InitPmu
    <3>2. UNCHANGED <<initialized, awake, force, boardOk, button, polled, began, panel, stage, died>>
      BY <2>3 DEF InitPmu
    <3> QED BY <3>1, <3>2
  <2>4. CASE InitWakeInputs
    BY <2>4 DEF InitWakeInputs
  <2>5. CASE InitPanelPower
    BY <2>5 DEF InitPanelPower
  <2>6. CASE InitPanel
    BY <2>6 DEF InitPanel
  <2>7. CASE InitStandby
    BY <2>7 DEF InitStandby, PanelCommand
  <2>8. CASE BeginPass
    BY <2>8 DEF BeginPass
  <2>9. CASE PollBootKey
    BY <2>9 DEF PollBootKey
  <2>10. CASE BootRestart
    BY <2>10 DEF BootRestart, ResetRam
  <2>11. CASE PollPwrRead
    BY <2>11 DEF PollPwrRead
  <2>12. CASE PollPwrClear
    BY <2>12 DEF PollPwrClear, Wake, PanelCommand
  <2>13. CASE Sleep
    BY <2>13 DEF Sleep, PanelCommand
  <2>14. CASE SkipFrame
    BY <2>14 DEF SkipFrame
  <2>15. CASE BeginFrame
    BY <2>15 DEF BeginFrame
  <2>16. CASE RefreshBoard
    BY <2>16 DEF RefreshBoard
  <2>17. CASE RenderStripes
    BY <2>17 DEF RenderStripes
  <2>18. CASE EndFrame
    BY <2>18 DEF EndFrame
  <2>19. CASE Tick
    BY <2>19 DEF Tick
  <2>20. CASE PollAgain
    BY <2>20 DEF PollAgain
  <2>21. CASE PressPwr
    BY <2>21 DEF PressPwr
  <2>22. CASE OtherIrq
    BY <2>22 DEF OtherIrq
  <2>23. CASE PressBoot
    BY <2>23 DEF PressBoot
  <2>24. CASE ReleaseBoot
    BY <2>24 DEF ReleaseBoot
  <2>25. CASE Crash
    BY <2>25 DEF Crash, ResetRam
  <2>26. CASE PowerCut
    BY <2>26 DEF PowerCut, ResetRam
  <2>27. CASE UNCHANGED vars
    BY <2>27 DEF vars
  <2> QED
    BY <2>1, <2>2, <2>3, <2>4, <2>5, <2>6, <2>7, <2>8, <2>9, <2>10, <2>11, <2>12, <2>13, <2>14,
       <2>15, <2>16, <2>17, <2>18, <2>19, <2>20, <2>21, <2>22, <2>23, <2>24, <2>25, <2>26, <2>27
    DEF Next, DisplayInit, DisplayTask, World
<1>4. KeyTypes'
  <2> USE DEF TypeOK, FlagTypes, KeyTypes
  <2>1. CASE InitStage
    BY <2>1 DEF InitStage
  <2>2. CASE InitBus
    BY <2>2 DEF InitBus
  <2>3. CASE InitPmu
    <3>1. pmu' = pmu \/ \E latches \in BOOLEAN : pmu' = [ready |-> TRUE, latches |-> latches]
      BY <2>3 DEF InitPmu
    <3>2. pmu' \in [ready : BOOLEAN, latches : BOOLEAN]
      <4>1. CASE pmu' = pmu
        BY <4>1
      <4>2. ASSUME NEW latches \in BOOLEAN, pmu' = [ready |-> TRUE, latches |-> latches]
            PROVE  pmu' \in [ready : BOOLEAN, latches : BOOLEAN]
        BY <4>2, Zenon
      <4> QED BY <3>1, <4>1, <4>2
    <3>3. bootKey' = bootKey
      BY <2>3 DEF InitPmu
    <3> QED BY <3>2, <3>3
  <2>4. CASE InitWakeInputs
    BY <2>4 DEF InitWakeInputs
  <2>5. CASE InitPanelPower
    BY <2>5 DEF InitPanelPower
  <2>6. CASE InitPanel
    BY <2>6 DEF InitPanel
  <2>7. CASE InitStandby
    BY <2>7 DEF InitStandby
  <2>8. CASE BeginPass
    BY <2>8 DEF BeginPass
  <2>9. CASE PollBootKey
    BY <2>9 DEF PollBootKey
  <2>10. CASE BootRestart
    BY <2>10 DEF BootRestart, ResetRam
  <2>11. CASE PollPwrRead
    BY <2>11 DEF PollPwrRead
  <2>12. CASE PollPwrClear
    BY <2>12 DEF PollPwrClear, Wake
  <2>13. CASE Sleep
    BY <2>13 DEF Sleep
  <2>14. CASE SkipFrame
    BY <2>14 DEF SkipFrame
  <2>15. CASE BeginFrame
    BY <2>15 DEF BeginFrame
  <2>16. CASE RefreshBoard
    BY <2>16 DEF RefreshBoard
  <2>17. CASE RenderStripes
    BY <2>17 DEF RenderStripes
  <2>18. CASE EndFrame
    BY <2>18 DEF EndFrame
  <2>19. CASE Tick
    BY <2>19 DEF Tick
  <2>20. CASE PollAgain
    BY <2>20 DEF PollAgain
  <2>21. CASE PressPwr
    BY <2>21 DEF PressPwr
  <2>22. CASE OtherIrq
    BY <2>22 DEF OtherIrq
  <2>23. CASE PressBoot
    BY <2>23 DEF PressBoot
  <2>24. CASE ReleaseBoot
    BY <2>24 DEF ReleaseBoot
  <2>25. CASE Crash
    BY <2>25 DEF Crash, ResetRam
  <2>26. CASE PowerCut
    BY <2>26 DEF PowerCut, ResetRam
  <2>27. CASE UNCHANGED vars
    BY <2>27 DEF vars
  <2> QED
    BY <2>1, <2>2, <2>3, <2>4, <2>5, <2>6, <2>7, <2>8, <2>9, <2>10, <2>11, <2>12, <2>13, <2>14,
       <2>15, <2>16, <2>17, <2>18, <2>19, <2>20, <2>21, <2>22, <2>23, <2>24, <2>25, <2>26, <2>27
    DEF Next, DisplayInit, DisplayTask, World
<1>5. IrqTypes'
  <2> USE DEF TypeOK, IrqTypes
  <2>1. CASE InitStage
    BY <2>1 DEF InitStage
  <2>2. CASE InitBus
    BY <2>2 DEF InitBus
  <2>3. CASE InitPmu
    BY <2>3 DEF InitPmu
  <2>4. CASE InitWakeInputs
    BY <2>4 DEF InitWakeInputs
  <2>5. CASE InitPanelPower
    BY <2>5 DEF InitPanelPower
  <2>6. CASE InitPanel
    BY <2>6 DEF InitPanel
  <2>7. CASE InitStandby
    BY <2>7 DEF InitStandby
  <2>8. CASE BeginPass
    BY <2>8 DEF BeginPass
  <2>9. CASE PollBootKey
    BY <2>9 DEF PollBootKey
  <2>10. CASE BootRestart
    BY <2>10 DEF BootRestart, ResetRam
  <2>11. CASE PollPwrRead
    BY <2>11 DEF PollPwrRead
  <2>12. CASE PollPwrClear
    BY <2>12 DEF PollPwrClear, Wake, WrittenBack
  <2>13. CASE Sleep
    BY <2>13 DEF Sleep
  <2>14. CASE SkipFrame
    BY <2>14 DEF SkipFrame
  <2>15. CASE BeginFrame
    BY <2>15 DEF BeginFrame
  <2>16. CASE RefreshBoard
    BY <2>16 DEF RefreshBoard
  <2>17. CASE RenderStripes
    BY <2>17 DEF RenderStripes
  <2>18. CASE EndFrame
    BY <2>18 DEF EndFrame
  <2>19. CASE Tick
    BY <2>19 DEF Tick
  <2>20. CASE PollAgain
    BY <2>20 DEF PollAgain
  <2>21. CASE PressPwr
    BY <2>21 DEF PressPwr
  <2>22. CASE OtherIrq
    BY <2>22 DEF OtherIrq
  <2>23. CASE PressBoot
    BY <2>23 DEF PressBoot
  <2>24. CASE ReleaseBoot
    BY <2>24 DEF ReleaseBoot
  <2>25. CASE Crash
    BY <2>25 DEF Crash, ResetRam
  <2>26. CASE PowerCut
    BY <2>26 DEF PowerCut, ResetRam
  <2>27. CASE UNCHANGED vars
    BY <2>27 DEF vars
  <2> QED
    BY <2>1, <2>2, <2>3, <2>4, <2>5, <2>6, <2>7, <2>8, <2>9, <2>10, <2>11, <2>12, <2>13, <2>14,
       <2>15, <2>16, <2>17, <2>18, <2>19, <2>20, <2>21, <2>22, <2>23, <2>24, <2>25, <2>26, <2>27
    DEF Next, DisplayInit, DisplayTask, World
<1> QED BY <1>1, <1>2, <1>3, <1>4, <1>5 DEF TypeOK

\* The display falls asleep only with a command to the panel that was done.
LEMMA AsleepStep == TypeOK /\ AsleepIsDark /\ [Next]_vars => AsleepIsDark'
<1> SUFFICES ASSUME TypeOK, AsleepIsDark, [Next]_vars PROVE AsleepIsDark'
  OBVIOUS
<1> USE DEF AsleepIsDark, Live, PassPCs, RenderPCs
<1>1. CASE InitStage
  BY <1>1 DEF InitStage
<1>2. CASE InitBus
  BY <1>2 DEF InitBus
<1>3. CASE InitPmu
  BY <1>3 DEF InitPmu
<1>4. CASE InitWakeInputs
  BY <1>4 DEF InitWakeInputs
<1>5. CASE InitPanelPower
  BY <1>5 DEF InitPanelPower
<1>6. CASE InitPanel
  BY <1>6 DEF InitPanel
<1>7. CASE InitStandby
  BY <1>7 DEF InitStandby, PanelCommand
<1>8. CASE BeginPass
  BY <1>8 DEF BeginPass
<1>9. CASE PollBootKey
  BY <1>9 DEF PollBootKey
<1>10. CASE BootRestart
  BY <1>10 DEF BootRestart, ResetRam
<1>11. CASE PollPwrRead
  BY <1>11 DEF PollPwrRead
<1>12. CASE PollPwrClear
  BY <1>12 DEF PollPwrClear, Wake, WrittenBack, PanelCommand
<1>13. CASE Sleep
  BY <1>13 DEF Sleep, PanelCommand
<1>14. CASE SkipFrame
  BY <1>14 DEF SkipFrame
<1>15. CASE BeginFrame
  BY <1>15 DEF BeginFrame
<1>16. CASE RefreshBoard
  BY <1>16 DEF RefreshBoard
<1>17. CASE RenderStripes
  BY <1>17 DEF RenderStripes
<1>18. CASE EndFrame
  BY <1>18 DEF EndFrame
<1>19. CASE Tick
  BY <1>19 DEF Tick, Minus, Plus
<1>20. CASE PollAgain
  BY <1>20 DEF PollAgain
<1>21. CASE PressPwr
  BY <1>21 DEF PressPwr
<1>22. CASE OtherIrq
  BY <1>22 DEF OtherIrq
<1>23. CASE PressBoot
  BY <1>23 DEF PressBoot
<1>24. CASE ReleaseBoot
  BY <1>24 DEF ReleaseBoot
<1>25. CASE Crash
  BY <1>25 DEF Crash, ResetRam
<1>26. CASE PowerCut
  BY <1>26 DEF PowerCut, ResetRam
<1>27. CASE UNCHANGED vars
  BY <1>27 DEF vars
<1> QED
  BY <1>1, <1>2, <1>3, <1>4, <1>5, <1>6, <1>7, <1>8, <1>9, <1>10, <1>11, <1>12, <1>13, <1>14,
     <1>15, <1>16, <1>17, <1>18, <1>19, <1>20, <1>21, <1>22, <1>23, <1>24, <1>25, <1>26, <1>27
  DEF Next, DisplayInit, DisplayTask, World

\* A press stays in the interrupt register until the poll that read it wakes the
\* display: only bits that were read are written back.
LEMMA PressStep == TypeOK /\ NoPressLost /\ [Next]_vars => NoPressLost'
<1> SUFFICES ASSUME TypeOK, NoPressLost, [Next]_vars PROVE NoPressLost'
  OBVIOUS
<1> USE DEF NoPressLost
<1>1. CASE InitStage
  BY <1>1 DEF InitStage
<1>2. CASE InitBus
  BY <1>2 DEF InitBus
<1>3. CASE InitPmu
  BY <1>3 DEF InitPmu
<1>4. CASE InitWakeInputs
  BY <1>4 DEF InitWakeInputs
<1>5. CASE InitPanelPower
  BY <1>5 DEF InitPanelPower
<1>6. CASE InitPanel
  BY <1>6 DEF InitPanel
<1>7. CASE InitStandby
  BY <1>7 DEF InitStandby, PanelCommand
<1>8. CASE BeginPass
  BY <1>8 DEF BeginPass
<1>9. CASE PollBootKey
  BY <1>9 DEF PollBootKey
<1>10. CASE BootRestart
  BY <1>10 DEF BootRestart, ResetRam
<1>11. CASE PollPwrRead
  BY <1>11 DEF PollPwrRead
<1>12. CASE PollPwrClear
  BY <1>12 DEF PollPwrClear, Wake, WrittenBack, PanelCommand
<1>13. CASE Sleep
  BY <1>13 DEF Sleep, PanelCommand
<1>14. CASE SkipFrame
  BY <1>14 DEF SkipFrame
<1>15. CASE BeginFrame
  BY <1>15 DEF BeginFrame
<1>16. CASE RefreshBoard
  BY <1>16 DEF RefreshBoard
<1>17. CASE RenderStripes
  BY <1>17 DEF RenderStripes
<1>18. CASE EndFrame
  BY <1>18 DEF EndFrame
<1>19. CASE Tick
  BY <1>19 DEF Tick, Minus, Plus
<1>20. CASE PollAgain
  BY <1>20 DEF PollAgain
<1>21. CASE PressPwr
  BY <1>21 DEF PressPwr
<1>22. CASE OtherIrq
  BY <1>22 DEF OtherIrq
<1>23. CASE PressBoot
  BY <1>23 DEF PressBoot
<1>24. CASE ReleaseBoot
  BY <1>24 DEF ReleaseBoot
<1>25. CASE Crash
  BY <1>25 DEF Crash, ResetRam
<1>26. CASE PowerCut
  BY <1>26 DEF PowerCut, ResetRam
<1>27. CASE UNCHANGED vars
  BY <1>27 DEF vars
<1> QED
  BY <1>1, <1>2, <1>3, <1>4, <1>5, <1>6, <1>7, <1>8, <1>9, <1>10, <1>11, <1>12, <1>13, <1>14,
     <1>15, <1>16, <1>17, <1>18, <1>19, <1>20, <1>21, <1>22, <1>23, <1>24, <1>25, <1>26, <1>27
  DEF Next, DisplayInit, DisplayTask, World

\* The frame on the panel ages only with the clock that makes the next one due.
LEMMA FrameStep == TypeOK /\ FrameInv /\ [Next]_vars => FrameInv'
<1> SUFFICES ASSUME TypeOK, FrameInv, [Next]_vars PROVE FrameInv'
  OBVIOUS
<1> USE DEF FrameInv, BoardFresh, TypeOK, FlagTypes, TimeTypes, KeyTypes, RenderTicks, InitPCs
<1>1. CASE InitStage
  BY <1>1 DEF InitStage
<1>2. CASE InitBus
  BY <1>2 DEF InitBus
<1>3. CASE InitPmu
  BY <1>3 DEF InitPmu
<1>4. CASE InitWakeInputs
  BY <1>4 DEF InitWakeInputs
<1>5. CASE InitPanelPower
  BY <1>5 DEF InitPanelPower
<1>6. CASE InitPanel
  BY <1>6 DEF InitPanel
<1>7. CASE InitStandby
  BY <1>7 DEF InitStandby, PanelCommand
<1>8. CASE BeginPass
  BY <1>8 DEF BeginPass
<1>9. CASE PollBootKey
  BY <1>9 DEF PollBootKey
<1>10. CASE BootRestart
  BY <1>10 DEF BootRestart, ResetRam
<1>11. CASE PollPwrRead
  BY <1>11 DEF PollPwrRead
<1>12. CASE PollPwrClear
  BY <1>12 DEF PollPwrClear, Wake, WrittenBack, PanelCommand
<1>13. CASE Sleep
  BY <1>13 DEF Sleep, PanelCommand
<1>14. CASE SkipFrame
  BY <1>14 DEF SkipFrame, FrameDue
<1>15. CASE BeginFrame
  BY <1>15 DEF BeginFrame, FrameDue
<1>16. CASE RefreshBoard
  BY <1>16, TicksAssumption DEF RefreshBoard
<1>17. CASE RenderStripes
  BY <1>17 DEF RenderStripes
<1>18. CASE EndFrame
  BY <1>18 DEF EndFrame
<1>19. CASE Tick
  BY <1>19, TicksAssumption DEF Tick, Minus, Plus
<1>20. CASE PollAgain
  BY <1>20 DEF PollAgain
<1>21. CASE PressPwr
  BY <1>21 DEF PressPwr
<1>22. CASE OtherIrq
  BY <1>22 DEF OtherIrq
<1>23. CASE PressBoot
  BY <1>23 DEF PressBoot
<1>24. CASE ReleaseBoot
  BY <1>24 DEF ReleaseBoot
<1>25. CASE Crash
  BY <1>25 DEF Crash, ResetRam
<1>26. CASE PowerCut
  BY <1>26 DEF PowerCut, ResetRam
<1>27. CASE UNCHANGED vars
  BY <1>27 DEF vars
<1> QED
  BY <1>1, <1>2, <1>3, <1>4, <1>5, <1>6, <1>7, <1>8, <1>9, <1>10, <1>11, <1>12, <1>13, <1>14,
     <1>15, <1>16, <1>17, <1>18, <1>19, <1>20, <1>21, <1>22, <1>23, <1>24, <1>25, <1>26, <1>27
  DEF Next, DisplayInit, DisplayTask, World

\* The stage is dropped by init() and set back after every frame, a failed one too.
LEMMA StageStep == TypeOK /\ StageInv /\ [Next]_vars => StageInv'
<1> SUFFICES ASSUME TypeOK, StageInv, [Next]_vars PROVE StageInv'
  OBVIOUS
<1> USE DEF StageInv, RenderPCs
<1>1. CASE InitStage
  BY <1>1 DEF InitStage
<1>2. CASE InitBus
  BY <1>2 DEF InitBus
<1>3. CASE InitPmu
  BY <1>3 DEF InitPmu
<1>4. CASE InitWakeInputs
  BY <1>4 DEF InitWakeInputs
<1>5. CASE InitPanelPower
  BY <1>5 DEF InitPanelPower
<1>6. CASE InitPanel
  BY <1>6 DEF InitPanel
<1>7. CASE InitStandby
  BY <1>7 DEF InitStandby, PanelCommand
<1>8. CASE BeginPass
  BY <1>8 DEF BeginPass
<1>9. CASE PollBootKey
  BY <1>9 DEF PollBootKey
<1>10. CASE BootRestart
  BY <1>10 DEF BootRestart, ResetRam
<1>11. CASE PollPwrRead
  BY <1>11 DEF PollPwrRead
<1>12. CASE PollPwrClear
  BY <1>12 DEF PollPwrClear, Wake, WrittenBack, PanelCommand
<1>13. CASE Sleep
  BY <1>13 DEF Sleep, PanelCommand
<1>14. CASE SkipFrame
  BY <1>14 DEF SkipFrame
<1>15. CASE BeginFrame
  BY <1>15 DEF BeginFrame
<1>16. CASE RefreshBoard
  BY <1>16 DEF RefreshBoard
<1>17. CASE RenderStripes
  BY <1>17 DEF RenderStripes
<1>18. CASE EndFrame
  BY <1>18 DEF EndFrame
<1>19. CASE Tick
  BY <1>19 DEF Tick, Minus, Plus
<1>20. CASE PollAgain
  BY <1>20 DEF PollAgain
<1>21. CASE PressPwr
  BY <1>21 DEF PressPwr
<1>22. CASE OtherIrq
  BY <1>22 DEF OtherIrq
<1>23. CASE PressBoot
  BY <1>23 DEF PressBoot
<1>24. CASE ReleaseBoot
  BY <1>24 DEF ReleaseBoot
<1>25. CASE Crash
  BY <1>25 DEF Crash, ResetRam
<1>26. CASE PowerCut
  BY <1>26 DEF PowerCut, ResetRam
<1>27. CASE UNCHANGED vars
  BY <1>27 DEF vars
<1> QED
  BY <1>1, <1>2, <1>3, <1>4, <1>5, <1>6, <1>7, <1>8, <1>9, <1>10, <1>11, <1>12, <1>13, <1>14,
     <1>15, <1>16, <1>17, <1>18, <1>19, <1>20, <1>21, <1>22, <1>23, <1>24, <1>25, <1>26, <1>27
  DEF Next, DisplayInit, DisplayTask, World

\* The level of the button at boot is taken as already pressed.
LEMMA BootKeyStep == TypeOK /\ BootKeyInv /\ [Next]_vars => BootKeyInv'
<1> SUFFICES ASSUME TypeOK, BootKeyInv, [Next]_vars PROVE BootKeyInv'
  OBVIOUS
<1> USE DEF BootKeyInv, TypeOK, KeyTypes, FlagTypes
<1>1. CASE InitStage
  BY <1>1 DEF InitStage
<1>2. CASE InitBus
  BY <1>2 DEF InitBus
<1>3. CASE InitPmu
  BY <1>3 DEF InitPmu
<1>4. CASE InitWakeInputs
  BY <1>4 DEF InitWakeInputs
<1>5. CASE InitPanelPower
  BY <1>5 DEF InitPanelPower
<1>6. CASE InitPanel
  BY <1>6 DEF InitPanel
<1>7. CASE InitStandby
  BY <1>7 DEF InitStandby, PanelCommand
<1>8. CASE BeginPass
  BY <1>8 DEF BeginPass
<1>9. CASE PollBootKey
  BY <1>9 DEF PollBootKey
<1>10. CASE BootRestart
  BY <1>10 DEF BootRestart, ResetRam
<1>11. CASE PollPwrRead
  BY <1>11 DEF PollPwrRead
<1>12. CASE PollPwrClear
  BY <1>12 DEF PollPwrClear, Wake, WrittenBack, PanelCommand
<1>13. CASE Sleep
  BY <1>13 DEF Sleep, PanelCommand
<1>14. CASE SkipFrame
  BY <1>14 DEF SkipFrame
<1>15. CASE BeginFrame
  BY <1>15 DEF BeginFrame
<1>16. CASE RefreshBoard
  BY <1>16 DEF RefreshBoard
<1>17. CASE RenderStripes
  BY <1>17 DEF RenderStripes
<1>18. CASE EndFrame
  BY <1>18 DEF EndFrame
<1>19. CASE Tick
  BY <1>19 DEF Tick, Minus, Plus
<1>20. CASE PollAgain
  BY <1>20 DEF PollAgain
<1>21. CASE PressPwr
  BY <1>21 DEF PressPwr
<1>22. CASE OtherIrq
  BY <1>22 DEF OtherIrq
<1>23. CASE PressBoot
  BY <1>23 DEF PressBoot
<1>24. CASE ReleaseBoot
  BY <1>24 DEF ReleaseBoot
<1>25. CASE Crash
  BY <1>25 DEF Crash, ResetRam
<1>26. CASE PowerCut
  BY <1>26 DEF PowerCut, ResetRam
<1>27. CASE UNCHANGED vars
  BY <1>27 DEF vars
<1> QED
  BY <1>1, <1>2, <1>3, <1>4, <1>5, <1>6, <1>7, <1>8, <1>9, <1>10, <1>11, <1>12, <1>13, <1>14,
     <1>15, <1>16, <1>17, <1>18, <1>19, <1>20, <1>21, <1>22, <1>23, <1>24, <1>25, <1>26, <1>27
  DEF Next, DisplayInit, DisplayTask, World

\* All of it.
DisplayInv == TypeOK /\ AsleepIsDark /\ NoPressLost /\ FrameInv /\ StageInv /\ BootKeyInv

LEMMA DisplayInductive == Spec => []DisplayInv
<1>1. Init => DisplayInv
  <2> SUFFICES ASSUME Init PROVE DisplayInv
    OBVIOUS
  <2> USE DEF Init
  <2>1. TypeOK
    <3>1. pc \in PCs /\ KeyTypes /\ IrqTypes
      BY DEF PCs, InitPCs, KeyTypes, IrqTypes
    <3>2. FlagTypes
      BY DEF FlagTypes
    <3>3. TimeTypes
      BY TicksAssumption DEF TimeTypes, RenderTicks
    <3> QED BY <3>1, <3>2, <3>3 DEF TypeOK
  <2>2. AsleepIsDark /\ NoPressLost /\ BootKeyInv
    BY DEF AsleepIsDark, Live, NoPressLost, BootKeyInv
  <2>3. FrameInv
    BY DEF FrameInv, BoardFresh
  <2>4. StageInv
    BY DEF StageInv, RenderPCs
  <2> QED BY <2>1, <2>2, <2>3, <2>4 DEF DisplayInv
<1>2. DisplayInv /\ [Next]_vars => DisplayInv'
  BY TypeStep, AsleepStep, PressStep, FrameStep, StageStep, BootKeyStep DEF DisplayInv
<1> QED BY <1>1, <1>2, PTL DEF Spec

-----------------------------------------------------------------------------
\* Every variable keeps its type, through every crash and failed transfer.
THEOREM DisplayTypes == Spec => []TypeOK
<1>1. DisplayInv => TypeOK
  BY DEF DisplayInv
<1> QED BY <1>1, DisplayInductive, PTL

\* A display that believes to be asleep has a dark panel: sleep_display keeps it
\* awake, and tries again, until the panel was switched off.
THEOREM AsleepSafe == Spec => []AsleepIsDark
<1>1. DisplayInv => AsleepIsDark
  BY DEF DisplayInv
<1> QED BY <1>1, DisplayInductive, PTL

\* poll_power_key_wake_request loses no press, wherever between its read and its
\* write-back the press comes and whichever transfer fails.
THEOREM PressSafe == Spec => []NoPressLost
<1>1. DisplayInv => NoPressLost
  BY DEF DisplayInv
<1> QED BY <1>1, DisplayInductive, PTL

\* After a pass the frame and its board line are no older than their periods.
THEOREM FrameSafe == Spec => []ShownIsFresh
<1>1. DisplayInv => ShownIsFresh
  BY DEF DisplayInv, FrameInv, BoardFresh, ShownIsFresh
<1> QED BY <1>1, DisplayInductive, PTL

\* The stage in RTC memory says whether the last boot ended while it drew.
THEOREM StageSafe == Spec => []StageTellsCrash
<1>1. DisplayInv => StageTellsCrash
  BY DEF DisplayInv, StageInv, StageTellsCrash
<1> QED BY <1>1, DisplayInductive, PTL

\* BOOT restarts the bridge only after a press of this boot.
THEOREM RestartSafe == Spec => RestartIsPressed
<1>1. DisplayInv /\ [Next]_vars => [BootRestart => began]_vars
  BY DEF DisplayInv, BootKeyInv, BootRestart, BootReleased
<1> QED BY <1>1, DisplayInductive, PTL DEF Spec, RestartIsPressed
=============================================================================
