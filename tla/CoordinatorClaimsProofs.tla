------------------------- MODULE CoordinatorClaimsProofs -------------------------
(***************************************************************************)
(* The zone records of CommandCoordinator: the coordinator keeps the       *)
(* promise of ZoneClaims, never shows two zones Running, its failures      *)
(* claim nothing, and the countdown timer never forgets a running zone.    *)
(* And its commands: each one ends after boundedly many steps of the       *)
(* worker.                                                                 *)
(*                                                                         *)
(* WhichInv says which command and attempt the worker is on; RunningInv    *)
(* what mark_running finds; TimedInv what the two halves of                *)
(* ensure_remaining_timer_state know of the zones.                         *)
(***************************************************************************)
EXTENDS CommandCoordinatorProofs

StartPCs == {"startOpen", "startClear", "prepare", "duration", "urgentCheck", "arm",
             "confirm", "wait", "markIdle", "markRunning", "startClose"}
StopPCs == {"stopOpen", "stopClear", "stop1", "stop2", "stopWait", "stopClose", "stopMark"}

WhichInv ==
  /\ pc \in StartPCs => frame.cmd.type = "Start"
  /\ pc \in StopPCs => \/ frame.stopFor = "cmd" /\ frame.cmd.type = "Stop"
                       \/ frame.stopFor \in {"cleanup", "abort"} /\ frame.cmd.type = "Start"
  /\ pc \in {"stopOpen", "stopClose", "stopMark"} => frame.stopFor # "abort"
  /\ pc \in StartPCs \ {"startOpen"} => frame.startTry >= 1
  /\ pc \in StopPCs /\ frame.stopFor # "cmd" => frame.startTry >= 1
  /\ pc \in {"applyOpen", "apply", "applyRecord", "applyClose"} => frame.cmd.type = "Apply"
  /\ pc \in {"refreshOpen", "refreshClose"} => frame.cmd.type = "RefreshBattery"

TimedInv ==
  /\ pc = "idle" /\ AnyRunning(status) => timerOn
  /\ pc = "timer" /\ AnyRunning(status) => frame.anyRunning

-----------------------------------------------------------------------------
(***************************************************************************)
(* Refinement of ZoneClaims.                                               *)
(***************************************************************************)

\* A step that only takes claims back, and loses reports, is a Doubt.
LEMMA DoubtStep ==
  ASSUME status' \in [Zones -> Statuses],
         \A z \in Zones : status'[z] \in {status[z]} \union Claims!Uncertain,
         inbox' \subseteq inbox, Heard' \subseteq Heard
  PROVE  Claims!Next
  BY DEF Claims!Next, Claims!Doubt, Claims!Uncertain, Statuses

\* Away from the ends of a confirmed start or stop nothing has been heard.
NotHearing == pc \notin {"markIdle", "markRunning", "stopClose", "stopMark"}

\* A fail-safe reset leaves only doubt.
LEMMA FailSafeDoubts ==
  ASSUME NEW e \in BOOLEAN, FailSafeReset(e)
  PROVE  \A z \in Zones : status'[z] \in Claims!Uncertain /\ stale'[z]
  BY DEF FailSafeReset, AllUnknown, AllStale, Claims!Uncertain

\* Opening a session leaves the records, or doubts them.
LEMMA OpenDoubts ==
  ASSUME NEW next, OpenOk(next) \/ OpenFail(next)
  PROVE  /\ inbox' \subseteq inbox /\ pc' = next
         /\ \A z \in Zones : status'[z] \in {status[z]} \union Claims!Uncertain
  BY FailSafeDoubts DEF OpenOk, OpenFail, store

\* mark_idle_all follows a confirmed stop.
MarkInv == pc = "stopMark" => frame.ok

LEMMA MarkNext ==
  ASSUME TypeOK, MarkInv, [Next]_vars
  PROVE  MarkInv'
<1> USE DEF MarkInv, store, shared, device
<1>1. CASE Requests \/ MqttTask \/ Events \/ Hunter \/ UNCHANGED vars
  BY <1>1 DEF Requests, RequestCheck, RequestStopFlag, BatteryTimer, MqttTask, RequestEnqueue,
     RequestStopEnqueue, Events, LinkDrops, CloseCompletes, Disconnected, WifiDrops,
     RemainingTimer, Hunter, HunterNotifies, HunterExpires, vars
<1>2. CASE Receive \/ Dispatch \/ Finish \/ FinishTimer \/ Reboot
  BY <1>2 DEF Receive, Dispatch, Finish, FinishTimer, Reboot, TypeOK, Frame, Command, CommandTypes
<1>3. CASE StartOpen \/ StopOpen \/ ApplyOpen \/ RefreshOpen
  BY <1>3, OpenDoubts DEF StartOpen, StopOpen, ApplyOpen, RefreshOpen
<1>4. CASE \/ StartGiveUp \/ StartClear \/ WritePrepare \/ WriteDuration \/ UrgentCheck \/ WriteArm
           \/ ConfirmLoop \/ ConfirmRunning \/ ConfirmOther \/ ConfirmTimeout \/ MarkOthersIdle
           \/ MarkRunning \/ StartClose
  BY <1>4 DEF StartGiveUp, StartClear, WritePrepare, WriteDuration, StartWrote, UrgentCheck,
     WriteArm, ConfirmLoop, UrgentOr, ConfirmRunning, ConfirmOther, ConfirmTimeout,
     MarkOthersIdle, MarkRunning, StartClose
<1>5. CASE StopGiveUp \/ StopClear \/ WriteStop \/ StopConfirmed \/ StopIgnore \/ StopTimeout
  BY <1>5 DEF StopGiveUp, StopDone, StopClear, WriteStop, StopConfirmed, StopIgnore, StopTimeout,
     StopReturn
<1>6. CASE StopClose \/ StopMark
  BY <1>6 DEF StopClose, StopMark, StopDone
<1>7. CASE ApplyTransfer \/ ApplyRecord \/ ApplyClose \/ RefreshClose
  BY <1>7 DEF ApplyTransfer, ApplyRecord, ApplyClose, RefreshClose
<1> QED
  BY <1>1, <1>2, <1>3, <1>4, <1>5, <1>6, <1>7 DEF Next, Worker

\* Every step of the coordinator is a step of ZoneClaims, or none.
LEMMA ClaimsStep ==
  ASSUME TypeOK, TypeOK', MarkInv, [Next]_vars
  PROVE  [Claims!Next]_Claims!vars
<1> USE DEF store, shared, device, Claims!vars
<1>1. status' \in [Zones -> Statuses]
  BY DEF TypeOK
<1>2. CASE Requests \/ HunterExpires
  BY <1>2 DEF Requests, RequestCheck, RequestStopFlag, BatteryTimer, HunterExpires, Heard
<1>3. CASE MqttTask
  <2>1. /\ \A z \in Zones : status'[z] \in {status[z]} \union {"Starting", "Stopping"}
        /\ inbox' = inbox /\ Heard' = Heard
    BY <1>3 DEF MqttTask, RequestEnqueue, RequestStopEnqueue, TypeOK, Heard
  <2> QED
    BY <1>1, <2>1, DoubtStep DEF Claims!Uncertain
<1>4. CASE Receive \/ Dispatch \/ Finish \/ FinishTimer
  <2>1. status' = status /\ inbox' = inbox /\ NotHearing
    BY <1>4 DEF Receive, Dispatch, Finish, FinishTimer, NotHearing
  <2>2. NotHearing'
    BY <1>4 DEF Receive, Dispatch, Finish, FinishTimer, NotHearing, TypeOK, Frame, Command,
       CommandTypes
  <2>3. Heard = {} /\ Heard' = {}
    BY <2>1, <2>2 DEF NotHearing, Heard
  <2> QED
    BY <2>1, <2>3
<1>5. CASE StartOpen \/ StopOpen \/ ApplyOpen \/ RefreshOpen
  <2>1. /\ inbox' \subseteq inbox /\ NotHearing'
        /\ \A z \in Zones : status'[z] \in {status[z]} \union Claims!Uncertain
    BY <1>5, OpenDoubts DEF StartOpen, StopOpen, ApplyOpen, RefreshOpen, NotHearing
  <2>2. Heard' = {}
    BY <2>1 DEF NotHearing, Heard
  <2> QED
    BY <1>1, <2>1, <2>2, DoubtStep
<1>6. CASE StartGiveUp \/ ConfirmTimeout
  <2>1. /\ inbox' = inbox /\ NotHearing'
        /\ \A z \in Zones : status'[z] \in {status[z]} \union {"Error"}
    BY <1>6 DEF StartGiveUp, ConfirmTimeout, SetZoneError, TypeOK, NotHearing
  <2>2. Heard' = {}
    BY <2>1 DEF NotHearing, Heard
  <2> QED
    BY <1>1, <2>1, <2>2, DoubtStep DEF Claims!Uncertain
<1>7. CASE \/ StartClear \/ UrgentCheck \/ ConfirmLoop \/ ConfirmOther \/ StartClose
           \/ WritePrepare \/ WriteDuration \/ WriteArm \/ StopClear \/ StopIgnore
  <2>1. status' = status /\ inbox' \subseteq inbox /\ NotHearing'
    <3>1. CASE StartClear \/ UrgentCheck \/ ConfirmLoop \/ ConfirmOther \/ StartClose
      BY <3>1 DEF StartClear, UrgentCheck, ConfirmLoop, UrgentOr, ConfirmOther, StartClose,
         NotHearing
    <3>2. CASE WritePrepare \/ WriteDuration \/ WriteArm
      BY <3>2 DEF WritePrepare, WriteDuration, WriteArm, StartWrote, NotHearing
    <3>3. CASE StopClear \/ StopIgnore
      BY <3>3 DEF StopClear, StopIgnore, NotHearing
    <3> QED
      BY <1>7, <3>1, <3>2, <3>3
  <2>2. Heard' = {}
    BY <2>1 DEF NotHearing, Heard
  <2> QED
    BY <1>1, <2>1, <2>2, DoubtStep
<1>8. CASE ConfirmRunning
  <2>1. "countdown" \in inbox /\ inbox' = inbox \ {"countdown"} /\ status' = status
    BY <1>8 DEF ConfirmRunning
  <2>2. Heard' = {"countdown"}
    BY <1>8 DEF ConfirmRunning, Heard
  <2> QED
    BY <2>1, <2>2 DEF Claims!Next, Claims!Hear
<1>9. CASE MarkOthersIdle
  <2>1. Heard = {"countdown"} /\ Heard' = {"countdown"}
    BY <1>9 DEF MarkOthersIdle, Heard
  <2>2. status' = [z \in Zones |-> "Idle"] /\ inbox' = inbox
    BY <1>9 DEF MarkOthersIdle, AllIdle
  <2> QED
    BY <2>1, <2>2 DEF Claims!Next, Claims!ShowIdle
<1>10. CASE MarkRunning
  <2>1. Heard = {"countdown"} /\ Heard' = {}
    BY <1>10 DEF MarkRunning, Heard
  <2>2. status' = [status EXCEPT ![frame.cmd.zone] = "Running"] /\ inbox' = inbox
    BY <1>10 DEF MarkRunning
  <2>3. CASE frame.cmd.zone \in Zones
    BY <2>1, <2>2, <2>3 DEF Claims!Next, Claims!ShowRunning
  <2>4. CASE frame.cmd.zone \notin Zones
    <3>1. \A z \in Zones : status'[z] \in {status[z]} \union Claims!Uncertain
      BY <2>2, <2>4 DEF TypeOK
    <3> QED
      BY <1>1, <2>1, <2>2, <3>1, DoubtStep
  <2> QED
    BY <2>3, <2>4
<1>11. CASE StopGiveUp
  <2>1. inbox' = inbox /\ NotHearing'
    BY <1>11 DEF StopGiveUp, StopDone, NotHearing
  <2>2. \A z \in Zones : status'[z] \in Claims!Uncertain
    BY <1>11, FailSafeDoubts DEF StopGiveUp
  <2>3. Heard' = {}
    BY <2>1 DEF NotHearing, Heard
  <2> QED
    BY <1>1, <2>1, <2>2, <2>3, DoubtStep
<1>12. CASE WriteStop \/ StopTimeout
  <2>1. status' = status /\ inbox' = inbox
    BY <1>12 DEF WriteStop, StopTimeout
  <2>2. pc' \in {"stop2", "stopWait", "startClose", "stopClose"} /\ frame'.ok = FALSE
    BY <1>12 DEF WriteStop, StopTimeout, StopReturn, TypeOK, Frame
  <2>3. Heard' = {}
    BY <2>2 DEF Heard
  <2> QED
    BY <1>1, <2>1, <2>3, DoubtStep
<1>13. CASE StopConfirmed
  <2>1. "stopped" \in inbox /\ inbox' = inbox \ {"stopped"} /\ status' = status
    BY <1>13 DEF StopConfirmed
  <2>2. CASE frame.stopFor = "abort"
    <3>1. Heard' = {}
      BY <1>13, <2>2 DEF StopConfirmed, StopReturn, Heard
    <3> QED
      BY <1>1, <2>1, <3>1, DoubtStep
  <2>3. CASE frame.stopFor # "abort"
    <3>1. Heard' = {"stopped"}
      BY <1>13, <2>3 DEF StopConfirmed, StopReturn, Heard, TypeOK, Frame
    <3> QED
      BY <2>1, <3>1 DEF Claims!Next, Claims!Hear
  <2> QED
    BY <2>2, <2>3
<1>14. CASE StopClose
  <2>1. /\ pc = "stopClose" /\ pc' = IF frame.ok THEN "stopMark" ELSE "stopOpen"
        /\ UNCHANGED <<status, inbox, frame>>
    BY <1>14 DEF StopClose
  <2>2. Heard' = Heard
    BY <2>1 DEF Heard
  <2> QED
    BY <2>1, <2>2
<1>15. CASE StopMark
  <2>1. status' = [z \in Zones |-> "Idle"] /\ inbox' = inbox /\ Heard' = {}
    BY <1>15 DEF StopMark, StopDone, MarkIdleAll, AllIdle, Heard
  <2>2. Heard # {}
    BY <1>15 DEF StopMark, Heard, MarkInv
  <2> QED
    BY <2>1, <2>2 DEF Claims!Next, Claims!ShowIdle
<1>16. CASE ApplyTransfer \/ ApplyRecord \/ ApplyClose \/ RefreshClose
  <2>1. status' = status /\ inbox' = inbox /\ NotHearing'
    BY <1>16 DEF ApplyTransfer, ApplyRecord, ApplyClose, RefreshClose, NotHearing
  <2>2. Heard' = {}
    BY <2>1 DEF NotHearing, Heard
  <2> QED
    BY <1>1, <2>1, <2>2, DoubtStep
<1>17. CASE LinkDrops \/ CloseCompletes \/ WifiDrops
  <2>1. inbox' = inbox /\ Heard' = Heard
    BY <1>17 DEF LinkDrops, CloseCompletes, Disconnected, WifiDrops, Heard
  <2>2. \A z \in Zones : status'[z] \in Claims!Uncertain
    BY <1>17, FailSafeDoubts DEF LinkDrops, CloseCompletes, Disconnected, WifiDrops
  <2> QED
    BY <1>1, <2>1, <2>2, DoubtStep
<1>18. CASE RemainingTimer
  <2>1. inbox' = inbox /\ Heard' = Heard
    BY <1>18 DEF RemainingTimer, Heard
  <2> QED
    BY <1>18, <2>1 DEF RemainingTimer, Claims!Next, Claims!RunOver
<1>19. CASE HunterNotifies
  <2>1. status' = status /\ Heard' = Heard
    BY <1>19 DEF HunterNotifies, Heard
  <2> QED
    BY <1>19, <2>1 DEF HunterNotifies, Notifications, Claims!Next, Claims!Report, Claims!Reports
<1>20. CASE Reboot
  <2>1. \A z \in Zones : status'[z] = "Unknown"
    BY <1>20 DEF Reboot, AllUnknown
  <2>2. inbox' = {} /\ Heard' = {}
    BY <1>20 DEF Reboot, Heard
  <2> QED
    BY <1>1, <2>1, <2>2, DoubtStep DEF Claims!Uncertain
<1>21. CASE UNCHANGED vars
  BY <1>21 DEF vars, Heard
<1> QED
  BY <1>2, <1>3, <1>4, <1>5, <1>6, <1>7, <1>8, <1>9, <1>10, <1>11, <1>12, <1>13, <1>14, <1>15,
     <1>16, <1>17, <1>18, <1>19, <1>20, <1>21
  DEF Next, Worker, Events, Hunter

\* The coordinator implements the promise: a zone is shown Running or Idle only
\* on what the Hunter reported since the notification queue was emptied, or at
\* the end of a run, and everything else takes claims back.
THEOREM KeepsPromise == Spec => ClaimsFollow
<1>1. Init => Claims!Init
  BY DEF Init, AllUnknown, Heard, Claims!Init
<1>2. Init => MarkInv
  BY DEF Init, MarkInv
<1> QED
  BY <1>1, <1>2, MarkNext, ClaimsStep, TypeCorrect, PTL DEF Spec, ClaimsFollow, Claims!Spec

-----------------------------------------------------------------------------
(***************************************************************************)
(* Never two zones Running.                                                *)
(***************************************************************************)
OneRunning == \A v, w \in Zones : status[v] = "Running" /\ status[w] = "Running" => v = w

\* Between the two loops of mark_running no zone is Running.
RunningInv == OneRunning /\ (pc = "markRunning" => ~AnyRunning(status))

\* Only mark_running shows a zone Running.
LEMMA OnlyMarkedRun ==
  ASSUME TypeOK, [Next]_vars, ~MarkRunning
  PROVE  \A z \in Zones : status'[z] = "Running" => status[z] = "Running"
<1> USE DEF store, shared, device, TypeOK
<1>1. CASE Requests \/ MqttTask
  BY <1>1 DEF Requests, RequestCheck, RequestStopFlag, BatteryTimer, MqttTask, RequestEnqueue,
     RequestStopEnqueue
<1>2. CASE Receive \/ Dispatch \/ Finish \/ FinishTimer
  BY <1>2 DEF Receive, Dispatch, Finish, FinishTimer
<1>3. CASE StartOpen \/ StopOpen \/ ApplyOpen \/ RefreshOpen
  BY <1>3, OpenDoubts DEF StartOpen, StopOpen, ApplyOpen, RefreshOpen, Claims!Uncertain
<1>4. CASE \/ StartClear \/ WritePrepare \/ WriteDuration \/ UrgentCheck \/ WriteArm
           \/ ConfirmLoop \/ ConfirmRunning \/ ConfirmOther \/ StartClose
  BY <1>4 DEF StartClear, WritePrepare, WriteDuration, StartWrote, UrgentCheck, WriteArm,
     ConfirmLoop, UrgentOr, ConfirmRunning, ConfirmOther, StartClose
<1>5. CASE StartGiveUp \/ ConfirmTimeout
  BY <1>5 DEF StartGiveUp, ConfirmTimeout, SetZoneError
<1>6. CASE MarkOthersIdle \/ StopMark
  BY <1>6 DEF MarkOthersIdle, StopMark, MarkIdleAll, AllIdle
<1>7. CASE StopClear \/ WriteStop \/ StopConfirmed \/ StopIgnore \/ StopTimeout \/ StopClose
  BY <1>7 DEF StopClear, WriteStop, StopConfirmed, StopIgnore, StopTimeout, StopClose
<1>8. CASE StopGiveUp \/ LinkDrops \/ CloseCompletes \/ WifiDrops
  BY <1>8, FailSafeDoubts DEF StopGiveUp, LinkDrops, CloseCompletes, Disconnected, WifiDrops,
     Claims!Uncertain
<1>9. CASE ApplyTransfer \/ ApplyRecord \/ ApplyClose \/ RefreshClose
  BY <1>9 DEF ApplyTransfer, ApplyRecord, ApplyClose, RefreshClose
<1>10. CASE RemainingTimer
  BY <1>10 DEF RemainingTimer
<1>11. CASE Hunter \/ UNCHANGED vars
  BY <1>11 DEF Hunter, HunterNotifies, HunterExpires, vars
<1>12. CASE Reboot
  BY <1>12 DEF Reboot, AllUnknown
<1> QED
  BY <1>1, <1>2, <1>3, <1>4, <1>5, <1>6, <1>7, <1>8, <1>9, <1>10, <1>11, <1>12
  DEF Next, Worker, Events

\* And only its first loop leads to its second.
LEMMA MarkEntry ==
  ASSUME TypeOK, [Next]_vars, pc # "markRunning", pc' = "markRunning"
  PROVE  MarkOthersIdle
<1> USE DEF store, shared, device
<1>1. ~(Requests \/ MqttTask \/ Events \/ Hunter \/ Reboot \/ UNCHANGED vars)
  BY DEF Requests, RequestCheck, RequestStopFlag, BatteryTimer, MqttTask, RequestEnqueue,
     RequestStopEnqueue, Events, LinkDrops, CloseCompletes, Disconnected, WifiDrops,
     RemainingTimer, Hunter, HunterNotifies, HunterExpires, Reboot, vars
<1>2. ~(Receive \/ Dispatch \/ Finish \/ FinishTimer)
  BY DEF Receive, Dispatch, Finish, FinishTimer, TypeOK, Frame, Command, CommandTypes
<1>3. ~(StartOpen \/ StopOpen \/ ApplyOpen \/ RefreshOpen)
  BY OpenDoubts DEF StartOpen, StopOpen, ApplyOpen, RefreshOpen
<1>4. ~(\/ StartGiveUp \/ StartClear \/ WritePrepare \/ WriteDuration \/ UrgentCheck \/ WriteArm
        \/ ConfirmLoop \/ ConfirmRunning \/ ConfirmOther \/ ConfirmTimeout \/ MarkRunning
        \/ StartClose)
  BY DEF StartGiveUp, StartClear, WritePrepare, WriteDuration, StartWrote, UrgentCheck, WriteArm,
     ConfirmLoop, UrgentOr, ConfirmRunning, ConfirmOther, ConfirmTimeout, MarkRunning, StartClose
<1>5. ~(StopGiveUp \/ StopClear \/ WriteStop \/ StopConfirmed \/ StopIgnore \/ StopTimeout
        \/ StopClose \/ StopMark)
  BY DEF StopGiveUp, StopClear, WriteStop, StopConfirmed, StopIgnore, StopTimeout, StopReturn,
     StopClose, StopMark, StopDone
<1>6. ~(ApplyTransfer \/ ApplyRecord \/ ApplyClose \/ RefreshClose)
  BY DEF ApplyTransfer, ApplyRecord, ApplyClose, RefreshClose
<1> QED
  BY <1>1, <1>2, <1>3, <1>4, <1>5, <1>6 DEF Next, Worker

\* No two zones are ever shown Running, although mark_running writes the zones
\* one after another and the handlers write them in between.
THEOREM NeverTwoRunning == Spec => []OneRunning
<1>1. Init => RunningInv
  BY DEF Init, RunningInv, OneRunning, AllUnknown
<1>2. ASSUME TypeOK, RunningInv, [Next]_vars PROVE RunningInv'
  <2>1. CASE MarkRunning
    <3>1. /\ status' = [status EXCEPT ![frame.cmd.zone] = "Running"] /\ pc' = "startClose"
          /\ \A z \in Zones : status[z] # "Running"
      BY <1>2, <2>1 DEF MarkRunning, RunningInv, AnyRunning
    <3> QED
      BY <1>2, <3>1 DEF RunningInv, OneRunning, TypeOK
  <2>2. CASE ~MarkRunning
    <3>1. \A z \in Zones : status'[z] = "Running" => status[z] = "Running"
      BY <1>2, <2>2, OnlyMarkedRun
    <3>2. CASE MarkOthersIdle
      BY <3>2 DEF MarkOthersIdle, AllIdle, RunningInv, OneRunning, AnyRunning
    <3>3. CASE ~MarkOthersIdle
      <4>1. pc' = "markRunning" => pc = "markRunning"
        BY <1>2, <3>3, MarkEntry
      <4> QED
        BY <1>2, <3>1, <4>1 DEF RunningInv, OneRunning, AnyRunning
    <3> QED
      BY <3>2, <3>3
  <2> QED
    BY <2>1, <2>2
<1>3. RunningInv => OneRunning
  BY DEF RunningInv
<1> QED
  BY <1>1, <1>2, <1>3, TypeCorrect, PTL DEF Spec

-----------------------------------------------------------------------------
(***************************************************************************)
(* A failed start or stop claims nothing.                                  *)
(***************************************************************************)

\* The worker is on the command its pc belongs to.
LEMMA WhichNext ==
  ASSUME TypeOK, WhichInv, [Next]_vars
  PROVE  WhichInv'
<1> USE DEF WhichInv, StartPCs, StopPCs, TypeOK, Frame, Command, store, shared, device
<1>1. CASE Requests \/ MqttTask
  BY <1>1 DEF Requests, RequestCheck, RequestStopFlag, BatteryTimer, MqttTask,
     RequestEnqueue, RequestStopEnqueue
<1>2. CASE Receive \/ Finish \/ FinishTimer
  BY <1>2 DEF Receive, Finish, FinishTimer
<1>3. CASE Dispatch
  BY <1>3 DEF Dispatch, CommandTypes
<1>4. CASE StartOpen \/ StopOpen \/ ApplyOpen \/ RefreshOpen
  <2>1. CASE StartOpen
    <3>1. pc' \in {"startOpen", "startClear"} /\ frame'.startTry = frame.startTry + 1
          /\ frame'.cmd = frame.cmd
      BY <2>1, OpenDoubts DEF StartOpen
    <3> QED
      BY <2>1, <3>1 DEF StartOpen, MaxAttempts
  <2>2. CASE StopOpen
    BY <2>2, OpenDoubts DEF StopOpen
  <2>3. CASE ApplyOpen \/ RefreshOpen
    BY <2>3, OpenDoubts DEF ApplyOpen, RefreshOpen
  <2> QED
    BY <1>4, <2>1, <2>2, <2>3
<1>5. CASE \/ StartGiveUp \/ StartClear \/ ConfirmRunning \/ ConfirmOther \/ ConfirmTimeout
           \/ MarkOthersIdle \/ MarkRunning
  BY <1>5 DEF StartGiveUp, StartClear, ConfirmRunning, ConfirmOther, ConfirmTimeout,
     MarkOthersIdle, MarkRunning
<1>6. CASE WritePrepare
  BY <1>6 DEF WritePrepare, StartWrote
<1>7. CASE WriteDuration
  BY <1>7 DEF WriteDuration, StartWrote
<1>8. CASE WriteArm
  BY <1>8 DEF WriteArm, StartWrote
<1>9. CASE UrgentCheck \/ ConfirmLoop
  BY <1>9 DEF UrgentCheck, ConfirmLoop, UrgentOr
<1>10. CASE StartClose
  BY <1>10 DEF StartClose
<1>11. CASE StopGiveUp
  BY <1>11 DEF StopGiveUp, StopDone
<1>12. CASE StopClear \/ StopConfirmed \/ StopIgnore \/ StopTimeout
  BY <1>12 DEF StopClear, StopConfirmed, StopIgnore, StopTimeout, StopReturn
<1>13. CASE WriteStop
  BY <1>13 DEF WriteStop, StopReturn
<1>14. CASE StopClose \/ StopMark
  BY <1>14 DEF StopClose, StopMark, StopDone
<1>15. CASE ApplyTransfer \/ ApplyRecord \/ ApplyClose \/ RefreshClose
  BY <1>15 DEF ApplyTransfer, ApplyRecord, ApplyClose, RefreshClose
<1>16. CASE Events \/ Hunter
  BY <1>16 DEF Events, LinkDrops, CloseCompletes, Disconnected, WifiDrops, RemainingTimer,
     Hunter, HunterNotifies, HunterExpires
<1>17. CASE Reboot
  BY <1>17 DEF Reboot
<1>18. CASE UNCHANGED vars
  BY <1>18 DEF vars
<1> QED
  BY <1>1, <1>2, <1>3, <1>4, <1>5, <1>6, <1>7, <1>8, <1>9, <1>10, <1>11, <1>12, <1>13,
     <1>14, <1>15, <1>16, <1>17, <1>18 DEF Next, Worker

\* Which steps reach the end of a command, and with which result.
LEMMA FinishEntry ==
  ASSUME TypeOK, WhichInv, [Next]_vars, pc # "finish", pc' = "finish", ~frame'.ok,
         frame'.cmd.type \in {"Start", "Stop"}
  PROVE  \/ StartGiveUp
         \/ StopGiveUp
<1> USE DEF WhichInv, StartPCs, StopPCs, TypeOK, Frame, Command, store, shared, device
<1>1. ~(Requests \/ MqttTask \/ Events \/ Hunter \/ Reboot \/ UNCHANGED vars)
  BY DEF Requests, RequestCheck, RequestStopFlag, BatteryTimer, MqttTask, RequestEnqueue,
     RequestStopEnqueue, Events, LinkDrops, CloseCompletes, Disconnected, WifiDrops,
     RemainingTimer, Hunter, HunterNotifies, HunterExpires, Reboot, vars
<1>2. ~(Receive \/ Dispatch \/ Finish \/ FinishTimer)
  BY DEF Receive, Dispatch, Finish, FinishTimer, CommandTypes
<1>3. ~(StartOpen \/ StopOpen \/ ApplyOpen \/ RefreshOpen)
  BY OpenDoubts DEF StartOpen, StopOpen, ApplyOpen, RefreshOpen
<1>4. ~(StartClear \/ WritePrepare \/ WriteDuration \/ UrgentCheck \/ WriteArm \/ ConfirmLoop)
  BY DEF StartClear, WritePrepare, WriteDuration, StartWrote, UrgentCheck, WriteArm,
     ConfirmLoop, UrgentOr
<1>5. ~(ConfirmRunning \/ ConfirmOther \/ ConfirmTimeout \/ MarkOthersIdle \/ MarkRunning
        \/ StartClose)
  BY DEF ConfirmRunning, ConfirmOther, ConfirmTimeout, MarkOthersIdle, MarkRunning, StartClose
<1>6. ~(StopClear \/ WriteStop \/ StopConfirmed \/ StopIgnore \/ StopTimeout)
  BY DEF StopClear, WriteStop, StopConfirmed, StopIgnore, StopTimeout, StopReturn
<1>7. ~(StopClose \/ StopMark)
  BY DEF StopClose, StopMark, StopDone
<1>8. ~(ApplyTransfer \/ ApplyRecord \/ ApplyClose \/ RefreshClose)
  BY DEF ApplyTransfer, ApplyRecord, ApplyClose, RefreshClose
<1> QED
  BY <1>1, <1>2, <1>3, <1>4, <1>5, <1>6, <1>7, <1>8 DEF Next, Worker

\* What a step may do to a zone that claims nothing while the worker stays at
\* the end of its command.
LEMMA FinishStays ==
  ASSUME TypeOK, FailureClaimsNothing, [Next]_vars, pc = "finish", pc' = "finish"
  PROVE  FailureClaimsNothing'
<1> USE DEF FailureClaimsNothing, TypeOK, store, shared, device
<1>1. ~(Worker \/ Reboot)
  BY DEF Reboot, Worker, Receive, Dispatch, Finish, FinishTimer, StartOpen, StartGiveUp, StartClear,
     WritePrepare, WriteDuration, UrgentCheck, WriteArm, ConfirmLoop, UrgentOr, ConfirmRunning,
     ConfirmOther, ConfirmTimeout, MarkOthersIdle, MarkRunning, StartClose, StopOpen, StopGiveUp,
     StopClear, WriteStop, StopConfirmed, StopIgnore, StopTimeout, StopClose, StopMark, ApplyOpen,
     ApplyTransfer, ApplyRecord, ApplyClose, RefreshOpen, RefreshClose
<1>2. CASE Requests \/ Hunter
  BY <1>2 DEF Requests, RequestCheck, RequestStopFlag, BatteryTimer, Hunter, HunterNotifies,
     HunterExpires
<1>3. CASE RequestEnqueue
  BY <1>3 DEF RequestEnqueue
<1>4. CASE RequestStopEnqueue
  BY <1>4 DEF RequestStopEnqueue
<1>5. CASE LinkDrops \/ CloseCompletes \/ WifiDrops
  BY <1>5, FailSafeDoubts DEF LinkDrops, CloseCompletes, Disconnected, WifiDrops,
     Claims!Uncertain
<1>6. CASE RemainingTimer
  BY <1>6 DEF RemainingTimer
<1>7. CASE UNCHANGED vars
  BY <1>7 DEF vars
<1> QED
  BY <1>1, <1>2, <1>3, <1>4, <1>5, <1>6, <1>7 DEF Next, MqttTask, Events

\* A failed start or stop leaves its zones uncertain and stale until the next
\* command, whatever the handlers do meanwhile.
THEOREM FailureSafe == Spec => []FailureClaimsNothing
<1>1. Init => WhichInv /\ FailureClaimsNothing
  BY DEF Init, WhichInv, StartPCs, StopPCs, FailureClaimsNothing
<1>2. ASSUME TypeOK, WhichInv, FailureClaimsNothing, [Next]_vars PROVE FailureClaimsNothing'
  <2> SUFFICES ASSUME pc' = "finish", ~frame'.ok, frame'.cmd.type \in {"Start", "Stop"}
               PROVE  FailureClaimsNothing'
    BY DEF FailureClaimsNothing
  <2>1. CASE pc = "finish"
    BY <1>2, <2>1, FinishStays
  <2>2. CASE StartGiveUp
    <3>1. frame'.cmd = frame.cmd /\ frame.cmd.type = "Start"
      BY <1>2, <2>2 DEF StartGiveUp, WhichInv, StartPCs, TypeOK, Frame
    <3>2. ASSUME NEW z \in Zones, z = frame.cmd.zone
          PROVE  status'[z] = "Error" /\ stale'[z]
      BY <1>2, <2>2, <3>2 DEF StartGiveUp, SetZoneError, TypeOK
    <3> QED
      BY <3>1, <3>2 DEF FailureClaimsNothing
  <2>3. CASE StopGiveUp
    <3>1. \A z \in Zones : status'[z] \in Claims!Uncertain /\ stale'[z]
      BY <2>3, FailSafeDoubts DEF StopGiveUp
    <3> QED
      BY <3>1 DEF FailureClaimsNothing, Claims!Uncertain
  <2> QED
    BY <1>2, <2>1, <2>2, <2>3, FinishEntry
<1> QED
  BY <1>1, <1>2, WhichNext, TypeCorrect, PTL DEF Spec

-----------------------------------------------------------------------------
(***************************************************************************)
(* The countdown timer.                                                    *)
(***************************************************************************)

\* The two halves of ensure_remaining_timer_state, and every handler between
\* them, keep the timer with the running zones.
LEMMA TimedNext ==
  ASSUME TypeOK, TimedInv, [Next]_vars
  PROVE  TimedInv'
<1> USE DEF TimedInv, AnyRunning, TypeOK, store, shared, device
<1>1. CASE Requests \/ Hunter
  BY <1>1 DEF Requests, RequestCheck, RequestStopFlag, BatteryTimer, Hunter, HunterNotifies,
     HunterExpires
<1>2. CASE RequestEnqueue
  <2>1. \A z \in Zones : status'[z] = "Running" => status[z] = "Running"
    BY <1>2 DEF RequestEnqueue
  <2> QED
    BY <1>2, <2>1 DEF RequestEnqueue
<1>3. CASE RequestStopEnqueue
  BY <1>3 DEF RequestStopEnqueue
<1>4. CASE Finish
  BY <1>4 DEF Finish, Frame
<1>5. CASE FinishTimer
  BY <1>5 DEF FinishTimer
<1>6. CASE LinkDrops \/ CloseCompletes \/ WifiDrops
  <2>1. \A z \in Zones : status'[z] # "Running"
    BY <1>6, FailSafeDoubts DEF LinkDrops, CloseCompletes, Disconnected, WifiDrops, Claims!Uncertain
  <2> QED
    BY <2>1
<1>7. CASE RemainingTimer
  BY <1>7 DEF RemainingTimer
<1>8. CASE Reboot
  BY <1>8 DEF Reboot, AllUnknown
<1>9. CASE UNCHANGED vars
  BY <1>9 DEF vars
<1>10. CASE Worker /\ ~Finish /\ ~FinishTimer
  <2>1. CASE Receive \/ Dispatch
    BY <2>1 DEF Receive, Dispatch, Frame, Command, CommandTypes
  <2>2. CASE StartOpen \/ StopOpen \/ ApplyOpen \/ RefreshOpen
    BY <2>2, OpenDoubts DEF StartOpen, StopOpen, ApplyOpen, RefreshOpen
  <2>3. CASE StartGiveUp \/ StartClear \/ WritePrepare \/ WriteDuration \/ UrgentCheck
             \/ WriteArm \/ ConfirmLoop
    BY <2>3 DEF StartGiveUp, StartClear, WritePrepare, WriteDuration, StartWrote, UrgentCheck,
       WriteArm, ConfirmLoop, UrgentOr
  <2>4. CASE ConfirmRunning \/ ConfirmOther \/ ConfirmTimeout \/ MarkOthersIdle \/ MarkRunning
             \/ StartClose
    BY <2>4 DEF ConfirmRunning, ConfirmOther, ConfirmTimeout, MarkOthersIdle, MarkRunning, StartClose
  <2>5. CASE StopGiveUp \/ StopClear \/ WriteStop \/ StopConfirmed \/ StopIgnore
             \/ StopTimeout \/ StopClose \/ StopMark
    BY <2>5 DEF StopGiveUp, StopClear, WriteStop, StopConfirmed, StopIgnore, StopTimeout,
       StopClose, StopMark, StopDone, StopReturn
  <2>6. CASE ApplyTransfer \/ ApplyRecord \/ ApplyClose \/ RefreshClose
    BY <2>6 DEF ApplyTransfer, ApplyRecord, ApplyClose, RefreshClose
  <2> QED
    BY <1>10, <2>1, <2>2, <2>3, <2>4, <2>5, <2>6 DEF Worker
<1> QED
  BY <1>1, <1>2, <1>3, <1>4, <1>5, <1>6, <1>7, <1>8, <1>9, <1>10 DEF Next, MqttTask, Events

\* A zone that is Running while the worker rests is counted down.
THEOREM TimerSafe == Spec => []RestingRunningIsTimed
<1>1. Init => TimedInv
  BY DEF Init, TimedInv, AnyRunning, AllUnknown
<1>2. TimedInv => RestingRunningIsTimed
  BY DEF TimedInv, AnyRunning, RestingRunningIsTimed
<1> QED
  BY <1>1, <1>2, TimedNext, TypeCorrect, PTL DEF Spec

-----------------------------------------------------------------------------
(***************************************************************************)
(* Every command ends after boundedly many steps of the worker: the safety *)
(* half of CommandsEnd, which says besides that the steps are taken.       *)
(*                                                                         *)
(* StepsLeft bounds the steps left until the worker rests.  Each part of a *)
(* command counts down on its own; a start adds what its later attempts    *)
(* may take (Retries), a stop sequence what its own may (Sequences) and    *)
(* what its caller does afterwards (Caller).                               *)
(***************************************************************************)
MostSteps == 58

Retries == 27 * (MaxAttempts - frame.startTry) + 3
Sequences == 7 * (MaxAttempts - frame.stopTry) + 1
Caller == IF frame.stopFor = "cmd" THEN 2 ELSE Retries

StartLeft ==
  CASE pc = "startOpen"   -> 0
    [] pc = "startClear"  -> 26
    [] pc = "prepare"     -> 25
    [] pc = "duration"    -> 24
    [] pc = "urgentCheck" -> 23
    [] pc = "arm"         -> 22
    [] pc = "confirm"     -> 21
    [] pc = "wait"        -> 21
    [] pc = "markIdle"    -> 18
    [] pc = "markRunning" -> 17
    [] pc = "startClose"  -> 16

\* perform_stop_attempt called by an aborted start: its startClose is next.
AbortLeft ==
  CASE pc = "stopClear" -> 20
    [] pc = "stop1"     -> 19
    [] pc = "stop2"     -> 18
    [] pc = "stopWait"  -> 17

StopLeft ==
  CASE pc = "stopOpen"  -> 0
    [] pc = "stopClear" -> 6
    [] pc = "stop1"     -> 5
    [] pc = "stop2"     -> 4
    [] pc = "stopWait"  -> 3
    [] pc = "stopClose" -> 2
    [] pc = "stopMark"  -> 1

OtherLeft ==
  CASE pc = "idle"         -> 0
    [] pc = "timer"        -> 1
    [] pc = "finish"       -> 2
    [] pc = "refreshClose" -> 3
    [] pc = "refreshOpen"  -> 4
    [] pc = "applyClose"   -> 3
    [] pc = "applyRecord"  -> 4
    [] pc = "apply"        -> 5
    [] pc = "applyOpen"    -> 6
    [] pc = "got"          -> MostSteps

StepsLeft ==
  IF pc \in StartPCs THEN Retries + StartLeft
  ELSE IF pc \in StopPCs /\ frame.stopFor = "abort" THEN Retries + AbortLeft
  ELSE IF pc \in StopPCs THEN Caller + Sequences + StopLeft
  ELSE OtherLeft

\* The two validation loops: read again, until the deadline.
Polls == ConfirmLoop \/ ConfirmOther \/ StopIgnore

\* A command takes at most MostSteps steps of the worker, and none is left
\* exactly when the worker rests.
BoundedCommand == StepsLeft \in 0..MostSteps /\ (StepsLeft = 0 <=> pc = "idle")

\* Every step of the worker on a command brings its end nearer, except reading
\* on in a validation loop; no step of another task puts it off.
Advances ==
  /\ Worker /\ ~Receive => StepsLeft' < StepsLeft \/ (Polls /\ StepsLeft' = StepsLeft)
  /\ ~Worker => StepsLeft' <= StepsLeft

CommandsAdvance == [][Advances]_vars

\* Opening a session leads to its step, with the frame the caller gives it.
LEMMA OpenLeads ==
  ASSUME NEW ok, NEW failed, OpenOk(ok) \/ OpenFail(failed)
  PROVE  pc' \in {ok, failed}
  BY DEF OpenOk, OpenFail

\* What the parts of the bound may be.
LEMMA PartsBounded ==
  ASSUME TypeOK
  PROVE  /\ Retries \in 3..57 /\ Sequences \in 1..15 /\ Caller \in 2..57
         /\ frame.startTry >= 1 => Retries \in 3..30 /\ Caller \in 2..30
         /\ frame.stopFor = "cmd" => Caller = 2
         /\ pc \in StartPCs => StartLeft \in 0..26
         /\ pc = "startOpen" => StartLeft = 0
         /\ pc \in StopPCs \ {"stopOpen", "stopClose", "stopMark"} => AbortLeft \in 17..20
         /\ pc \in StopPCs => StopLeft \in 0..6
<1>1. frame.startTry \in 0..2 /\ frame.stopTry \in 0..2
  BY DEF TypeOK, Frame, MaxAttempts
<1>2. Retries \in 3..57 /\ (frame.startTry >= 1 => Retries \in 3..30) /\ Sequences \in 1..15
  BY <1>1 DEF Retries, Sequences, MaxAttempts
<1>3. pc \in StartPCs => StartLeft \in 0..26 /\ (pc = "startOpen" => StartLeft = 0)
  <2>1. /\ pc = "startOpen" => StartLeft = 0
        /\ pc = "startClear" => StartLeft = 26
        /\ pc = "prepare" => StartLeft = 25
    BY DEF StartLeft
  <2>2. /\ pc = "duration" => StartLeft = 24
        /\ pc = "urgentCheck" => StartLeft = 23
        /\ pc = "arm" => StartLeft = 22
    BY DEF StartLeft
  <2>3. /\ pc = "confirm" => StartLeft = 21
        /\ pc = "wait" => StartLeft = 21
        /\ pc = "startClose" => StartLeft = 16
    BY DEF StartLeft
  <2>4. /\ pc = "markIdle" => StartLeft = 18
        /\ pc = "markRunning" => StartLeft = 17
    BY DEF StartLeft
  <2> QED
    BY <2>1, <2>2, <2>3, <2>4 DEF StartPCs
<1>4. pc \in StopPCs => StopLeft \in 0..6
  BY DEF StopPCs, StopLeft
<1>5. pc \in StopPCs \ {"stopOpen", "stopClose", "stopMark"} => AbortLeft \in 17..20
  BY DEF StopPCs, AbortLeft
<1> QED
  BY <1>2, <1>3, <1>4, <1>5 DEF Caller, StartPCs

\* The bound, at every pc.
LEMMA StepsBounded ==
  ASSUME TypeOK, WhichInv
  PROVE  BoundedCommand
<1>1. CASE pc \in StartPCs
  <2>1. StepsLeft = Retries + StartLeft /\ pc # "idle"
    BY <1>1 DEF StepsLeft, StartPCs
  <2>2. Retries + StartLeft \in 3..57
    BY <1>1, PartsBounded DEF WhichInv
  <2> QED
    BY <2>1, <2>2 DEF BoundedCommand, MostSteps
<1>2. CASE pc \in StopPCs /\ frame.stopFor = "abort"
  <2>1. StepsLeft = Retries + AbortLeft /\ pc # "idle"
    BY <1>2 DEF StepsLeft, StartPCs, StopPCs
  <2>2. Retries + AbortLeft \in 3..57
    BY <1>2, PartsBounded DEF WhichInv
  <2> QED
    BY <2>1, <2>2 DEF BoundedCommand, MostSteps
<1>3. CASE pc \in StopPCs /\ frame.stopFor # "abort"
  <2>1. StepsLeft = Caller + Sequences + StopLeft /\ pc # "idle"
    BY <1>3 DEF StepsLeft, StartPCs, StopPCs
  <2>2. Caller \in 2..30
    BY <1>3, PartsBounded DEF WhichInv
  <2>3. Caller + Sequences + StopLeft \in 3..57
    BY <1>3, <2>2, PartsBounded
  <2> QED
    BY <2>1, <2>3 DEF BoundedCommand, MostSteps
<1>4. CASE pc \notin StartPCs \union StopPCs
  BY <1>4 DEF StepsLeft, StartPCs, StopPCs, OtherLeft, BoundedCommand, MostSteps, TypeOK, WorkerPCs
<1> QED
  BY <1>1, <1>2, <1>3, <1>4

\* The worker's own steps count down, or poll.
LEMMA WorkerAdvances ==
  ASSUME TypeOK, TypeOK', WhichInv, WhichInv', Worker, ~Receive
  PROVE  StepsLeft' < StepsLeft \/ (Polls /\ StepsLeft' = StepsLeft)
<1>0. Sequences \in 1..15 /\ Caller \in 2..57 /\ Retries \in 3..57
  BY PartsBounded
<1> USE DEF StepsLeft, StartPCs, StopPCs, TypeOK, Frame
<1>1. CASE Dispatch
  <2>1. StepsLeft = 58 /\ frame'.startTry = frame.startTry /\ frame'.stopTry = frame.stopTry
    BY <1>1 DEF Dispatch, OtherLeft, MostSteps
  <2>2. CASE frame.cmd.type = "Start"
    <3>1. StepsLeft' = Retries' + 0 /\ Retries' \in 3..57
      BY <1>1, <2>2, PartsBounded DEF Dispatch, Retries, MaxAttempts, StartLeft
    <3> QED
      BY <2>1, <3>1
  <2>3. CASE frame.cmd.type = "Stop"
    <3>1. pc' = "stopOpen" /\ frame'.stopFor = "cmd"
      BY <1>1, <2>3 DEF Dispatch
    <3>2. StepsLeft' = 2 + Sequences' + 0 /\ Sequences' \in 1..15
      BY <2>1, <3>1 DEF Sequences, MaxAttempts, StopLeft, Caller
    <3> QED
      BY <2>1, <3>2
  <2>4. CASE frame.cmd.type \in {"Apply", "RefreshBattery"}
    BY <1>1, <2>1, <2>4 DEF Dispatch, OtherLeft
  <2> QED
    BY <2>2, <2>3, <2>4 DEF Command, CommandTypes
<1>2. CASE Finish \/ FinishTimer
  BY <1>2 DEF Finish, FinishTimer, OtherLeft
<1>3. CASE StartOpen
  <2>1. Retries' = Retries - 27 /\ Retries \in Int
    BY <1>3 DEF StartOpen, Retries, MaxAttempts
  <2>2. pc = "startOpen" /\ pc' \in {"startClear", "startOpen"}
    BY <1>3, OpenLeads DEF StartOpen
  <2> QED
    BY <2>1, <2>2 DEF StartLeft
<1>4. CASE \/ StartClear \/ WritePrepare \/ WriteDuration \/ WriteArm
           \/ ConfirmRunning \/ ConfirmTimeout \/ MarkOthersIdle \/ MarkRunning
  <2>1. Retries' = Retries /\ Retries \in Int
    BY <1>4 DEF StartClear, WritePrepare, WriteDuration, WriteArm, StartWrote, ConfirmRunning,
       ConfirmTimeout, MarkOthersIdle, MarkRunning, Retries, MaxAttempts
  <2>2. CASE StartClear \/ ConfirmRunning \/ ConfirmTimeout \/ MarkOthersIdle \/ MarkRunning
    BY <2>1, <2>2 DEF StartClear, ConfirmRunning, ConfirmTimeout, MarkOthersIdle, MarkRunning,
       StartLeft
  <2>3. CASE WritePrepare \/ WriteDuration \/ WriteArm
    BY <2>1, <2>3 DEF WritePrepare, WriteDuration, WriteArm, StartWrote, StartLeft
  <2> QED
    BY <1>4, <2>2, <2>3
<1>5. CASE UrgentCheck \/ ConfirmLoop
  <2>1. Retries' = Retries /\ Retries \in Int
    BY <1>5 DEF UrgentCheck, ConfirmLoop, UrgentOr, Retries, MaxAttempts
  <2>2. CASE urgent
    BY <1>5, <2>1, <2>2 DEF UrgentCheck, ConfirmLoop, UrgentOr, StartLeft, AbortLeft
  <2>3. CASE ~urgent
    BY <1>5, <2>1, <2>3 DEF UrgentCheck, ConfirmLoop, UrgentOr, StartLeft, Polls
  <2> QED
    BY <2>2, <2>3
<1>6. CASE ConfirmOther
  BY <1>6 DEF ConfirmOther, Retries, StartLeft, Polls
<1>7. CASE StartGiveUp
  <2>1. StepsLeft = Retries + 0 /\ Retries \in 3..57 /\ StepsLeft' = 2
    BY <1>0, <1>7 DEF StartGiveUp, StartLeft, OtherLeft
  <2> QED
    BY <2>1
<1>8. CASE StartClose
  <2>1. StepsLeft = Retries + 16 /\ Retries \in 3..57
    BY <1>0, <1>8 DEF StartClose, StartLeft
  <2>2. CASE frame.ok
    <3>1. StepsLeft' = 2
      BY <1>8, <2>2 DEF StartClose, OtherLeft
    <3> QED
      BY <2>1, <3>1
  <2>3. CASE ~frame.ok
    <3>1. /\ pc' = "stopOpen" /\ frame'.stopFor = "cleanup"
          /\ frame'.startTry = frame.startTry /\ frame'.stopTry = frame.stopTry
      BY <1>8, <2>3 DEF StartClose
    <3>2. StepsLeft' = Retries + Sequences + 0 /\ Sequences \in 1..15
      BY <1>0, <3>1 DEF Caller, Retries, Sequences, StopLeft
    <3> QED
      BY <2>1, <3>2
  <2> QED
    BY <2>2, <2>3
<1>9. CASE StopOpen
  <2>1. /\ pc = "stopOpen" /\ pc' \in {"stopClear", "stopOpen"}
        /\ frame' = [frame EXCEPT !.stopTry = @ + 1] /\ frame.stopFor # "abort"
    BY <1>9, OpenLeads DEF StopOpen, WhichInv
  <2>2. /\ frame'.startTry = frame.startTry /\ frame'.stopFor = frame.stopFor
        /\ frame'.stopTry = frame.stopTry + 1
    BY <2>1
  <2>3. Sequences' = Sequences - 7 /\ Sequences \in Int /\ Caller' = Caller /\ Caller \in Int
    BY <2>2, PartsBounded DEF Sequences, Caller, Retries, MaxAttempts
  <2>4. StepsLeft = Caller + Sequences + 0
    BY <2>1 DEF StopLeft
  <2>5. StepsLeft' = Caller' + Sequences' + StopLeft' /\ StopLeft' \in {0, 6}
    BY <2>1, <2>2 DEF StopLeft
  <2> QED
    BY <2>3, <2>4, <2>5
<1>10. CASE StopGiveUp
  <2>1. pc = "stopOpen" /\ frame.stopFor # "abort"
    BY <1>10 DEF StopGiveUp, WhichInv
  <2>2. StepsLeft = Caller + Sequences + 0 /\ Sequences \in 1..15 /\ Caller \in 2..57
    BY <1>0, <2>1 DEF StopLeft
  <2>3. StepsLeft' = Caller
    <3>1. CASE frame.stopFor = "cmd"
      BY <1>10, <3>1 DEF StopGiveUp, StopDone, Caller, OtherLeft
    <3>2. CASE frame.stopFor # "cmd"
      <4>1. pc' = "startOpen" /\ frame'.startTry = frame.startTry
        BY <1>10, <3>2 DEF StopGiveUp, StopDone
      <4>2. StepsLeft' = Retries + 0 /\ Retries \in 3..57
        BY <4>1, <1>0 DEF Retries, MaxAttempts, StartLeft
      <4> QED
        BY <3>2, <4>2 DEF Caller
    <3> QED
      BY <3>1, <3>2
  <2> QED
    BY <2>2, <2>3
<1>11. CASE frame.stopFor = "abort" /\ (StopClear \/ WriteStop \/ StopConfirmed \/ StopTimeout)
  <2>1. Retries' = Retries /\ Retries \in Int
    BY <1>11 DEF StopClear, WriteStop, StopConfirmed, StopTimeout, StopReturn, Retries, MaxAttempts
  <2>2. CASE StopClear \/ StopConfirmed \/ StopTimeout
    BY <1>11, <2>1, <2>2 DEF StopClear, StopConfirmed, StopTimeout, StopReturn, AbortLeft, StartLeft
  <2>3. CASE WriteStop
    BY <1>11, <2>1, <2>3 DEF WriteStop, StopReturn, AbortLeft, StartLeft
  <2> QED
    BY <1>11, <2>2, <2>3
<1>12. CASE frame.stopFor # "abort" /\ (StopClear \/ WriteStop \/ StopConfirmed \/ StopTimeout)
  <2>1. /\ frame'.startTry = frame.startTry /\ frame'.stopTry = frame.stopTry
        /\ frame'.stopFor = frame.stopFor
    BY <1>12 DEF StopClear, WriteStop, StopConfirmed, StopTimeout, StopReturn
  <2>2. /\ Sequences' = Sequences /\ Sequences \in Int
        /\ Caller' = Caller /\ Caller \in Int
    <3>1. Retries' = Retries /\ Sequences' = Sequences
      BY <2>1 DEF Sequences, Retries, MaxAttempts
    <3>2. Sequences \in Int /\ Caller \in Int
      BY <1>0
    <3> QED
      BY <2>1, <3>1, <3>2 DEF Caller
  <2>3. /\ pc \in StopPCs /\ pc' \in StopPCs
        /\ StopLeft \in Int /\ StopLeft' \in Int /\ StopLeft' < StopLeft
    <3>1. CASE StopClear \/ StopConfirmed \/ StopTimeout
      BY <1>12, <3>1 DEF StopClear, StopConfirmed, StopTimeout, StopReturn, StopLeft
    <3>2. CASE WriteStop
      BY <1>12, <3>2 DEF WriteStop, StopReturn, StopLeft
    <3> QED
      BY <1>12, <3>1, <3>2
  <2>4. StepsLeft = Caller + Sequences + StopLeft /\ StepsLeft' = Caller' + Sequences' + StopLeft'
    BY <1>12, <2>1, <2>3
  <2> QED
    BY <2>2, <2>3, <2>4
<1>13. CASE StopIgnore
  BY <1>13 DEF StopIgnore, Retries, Sequences, Caller, StopLeft, AbortLeft, Polls
<1>14. CASE StopClose
  <2>1. /\ pc = "stopClose" /\ frame.stopFor # "abort" /\ frame' = frame
        /\ pc' \in {"stopMark", "stopOpen"}
    BY <1>14 DEF StopClose, WhichInv
  <2>2. StepsLeft = Caller + Sequences + 2 /\ Sequences \in 1..15 /\ Caller \in 2..57
    BY <1>0, <2>1 DEF StopLeft
  <2>3. StepsLeft' = Caller + Sequences + StopLeft' /\ StopLeft' \in {0, 1}
    BY <2>1 DEF Caller, Retries, Sequences, StopLeft
  <2> QED
    BY <2>2, <2>3
<1>17. CASE StopMark
  <2>1. pc = "stopMark" /\ frame.stopFor # "abort"
    BY <1>17 DEF StopMark, WhichInv
  <2>2. StepsLeft = Caller + Sequences + 1 /\ Sequences \in 1..15 /\ Caller \in 2..57
    BY <1>0, <2>1 DEF StopLeft
  <2>3. StepsLeft' = Caller
    <3>1. CASE frame.stopFor = "cmd"
      BY <1>17, <3>1 DEF StopMark, StopDone, Caller, OtherLeft
    <3>2. CASE frame.stopFor # "cmd"
      <4>1. pc' = "startOpen" /\ frame'.startTry = frame.startTry
        BY <1>17, <3>2 DEF StopMark, StopDone
      <4>2. StepsLeft' = Retries + 0 /\ Retries \in 3..57
        BY <4>1, <1>0 DEF Retries, MaxAttempts, StartLeft
      <4> QED
        BY <3>2, <4>2 DEF Caller
    <3> QED
      BY <3>1, <3>2
  <2> QED
    BY <2>2, <2>3
<1>15. CASE ApplyOpen \/ RefreshOpen
  <2>1. \/ pc = "applyOpen" /\ pc' \in {"apply", "finish"}
        \/ pc = "refreshOpen" /\ pc' \in {"refreshClose", "finish"}
    BY <1>15, OpenLeads DEF ApplyOpen, RefreshOpen
  <2> QED
    BY <2>1 DEF OtherLeft
<1>16. CASE ApplyTransfer \/ ApplyRecord \/ ApplyClose \/ RefreshClose
  BY <1>16 DEF ApplyTransfer, ApplyRecord, ApplyClose, RefreshClose, OtherLeft
<1> QED
  BY <1>1, <1>2, <1>3, <1>4, <1>5, <1>6, <1>7, <1>8, <1>9, <1>10, <1>11, <1>12, <1>13, <1>14,
     <1>15, <1>16, <1>17 DEF Worker

\* The other tasks leave the worker where it is; a restart puts it to rest.
LEMMA OthersDoNotDelay ==
  ASSUME TypeOK, WhichInv, [Next]_vars, ~Worker
  PROVE  StepsLeft' <= StepsLeft
<1> USE DEF store, shared, device
<1>1. StepsLeft \in Nat
  BY StepsBounded DEF BoundedCommand, MostSteps
<1>2. CASE Reboot
  <2>1. pc' = "idle"
    BY <1>2 DEF Reboot
  <2>2. StepsLeft' = 0
    BY <2>1 DEF StepsLeft, StartPCs, StopPCs, OtherLeft
  <2> QED
    BY <1>1, <2>2
<1>3. CASE ~Reboot
  <2>1. pc' = pc /\ frame' = frame
    BY <1>3 DEF Next, Requests, RequestCheck, RequestStopFlag, BatteryTimer, MqttTask,
       RequestEnqueue, RequestStopEnqueue, Events, LinkDrops, CloseCompletes, Disconnected,
       WifiDrops, RemainingTimer, Hunter, HunterNotifies, HunterExpires, vars
  <2>2. StepsLeft' = StepsLeft
    BY <2>1 DEF StepsLeft, Retries, Sequences, Caller, StartLeft, StopLeft, AbortLeft, OtherLeft
  <2> QED
    BY <1>1, <2>2
<1> QED
  BY <1>2, <1>3

\* A command the worker has taken ends after at most 58 of its steps that are
\* not polls, whatever fails in it, and no other task puts the end off.
THEOREM CommandsBounded == Spec => []BoundedCommand /\ CommandsAdvance
<1>1. Init => WhichInv
  BY DEF Init, WhichInv, StartPCs, StopPCs
<1>2. ASSUME TypeOK, TypeOK', WhichInv, WhichInv', [Next]_vars PROVE Advances
  BY <1>2, WorkerAdvances, OthersDoNotDelay DEF Advances
<1> QED
  BY <1>1, <1>2, WhichNext, StepsBounded, TypeCorrect, PTL DEF Spec, CommandsAdvance
=============================================================================
