---------------------- MODULE CommandCoordinatorProofs ----------------------
(***************************************************************************)
(* Proofs about CommandCoordinator, for every set of zones, every queue    *)
(* capacity of at least three, and every choice of requests and of packets *)
(* the device may ignore.                                                  *)
(*                                                                         *)
(* TypeOK is inductive, and together with it each of QueueInv,             *)
(* UrgentMeansStopPending (with QueueInv) and ControlInv.  Beside the      *)
(* properties they say why a queue that a request found empty still has    *)
(* room when it enqueues (QueueInv), where the worker may be while an arm  *)
(* is unattended (ArmInv) or the valve contradicts a zone record (IdleInv) *)
(* and what the stop sequence knows of the valve (SequenceInv).            *)
(***************************************************************************)
EXTENDS CommandCoordinator, TLAPS

\* A request that passed the check meets at most the battery timer's command.
QueueInv ==
  /\ StopsUpFront
  /\ mqtt.at = "checked" => Len(queue) <= 1 /\ mqtt.cmd.type # "Stop"
  /\ mqtt.at = "flagged" => mqtt.cmd = NoCommand

\* Where the worker can be while an arm is unattended.
ArmInv ==
  unattended => \/ pc \in {"confirm", "wait", "stopClear"}
                \/ pc = "startClose" /\ ~frame.ok

\* What the sequences know of the valve: a stop confirmation in the inbox was
\* sent with no arm open, and between prepare and the end of mark_running only
\* the command's own zone can be open.
SequenceInv ==
  /\ pc \in {"stop1", "stop2", "stopWait"} /\ "stopped" \in inbox => valve = NoZone
  /\ (pc = "stopClose" /\ frame.ok) \/ pc = "stopMark" => valve = NoZone
  /\ pc \in {"duration", "urgentCheck", "arm", "confirm", "wait", "markIdle", "markRunning"} =>
       valve \in {NoZone, frame.cmd.zone}

\* The valve contradicts an Idle zone only between an arm and the end of the
\* confirmation or stop sequence that follows it; mark_running itself shows the
\* confirmed zone Idle for a moment.
IdleInv ==
  \A z \in Zones : status[z] = "Idle" /\ valve = z =>
     \/ pc \in {"confirm", "wait", "markIdle", "markRunning",
                "stopOpen", "stopClear", "stop1", "stop2", "stopWait"}
     \/ pc \in {"startClose", "stopClose"} /\ ~frame.ok

ControlInv == ArmInv /\ SequenceInv /\ IdleInv

-----------------------------------------------------------------------------
(***************************************************************************)
(* Type correctness.                                                       *)
(***************************************************************************)

\* What FrameFor returns for a command is a frame of the worker.
LEMMA FrameForType == ASSUME NEW c \in Command PROVE FrameFor(c) \in Frame
  BY DEF FrameFor, Frame, MaxAttempts

\* The stop command, and what a request enqueues, are commands.
LEMMA NoCommandType == NoCommand \in Command
  BY DEF NoCommand, Command, CommandTypes

\* Enqueue keeps a queue of commands within its capacity.
LEMMA EnqueueType ==
  ASSUME queue \in Seq(Command), Len(queue) <= QueueCap,
         NEW c \in Command, NEW front \in BOOLEAN, Enqueue(c, front)
  PROVE  queue' \in Seq(Command) /\ Len(queue') <= QueueCap
  BY QueueCapAssumption DEF Enqueue

\* A fail-safe reset leaves typed zone records.
LEMMA FailSafeType ==
  ASSUME NEW e \in BOOLEAN, FailSafeReset(e)
  PROVE  /\ urgent' \in BOOLEAN /\ timerOn' \in BOOLEAN
         /\ status' \in [Zones -> Statuses] /\ stale' \in [Zones -> BOOLEAN]
  BY DEF FailSafeReset, AllUnknown, AllStale, AnyRunning, Statuses

\* The initial state has the type of TypeOK.
LEMMA TypeInit == Init => TypeOK
<1> SUFFICES ASSUME Init PROVE TypeOK
  OBVIOUS
<1>1. queue \in Seq(Command) /\ Len(queue) <= QueueCap
  BY QueueCapAssumption DEF Init
<1>2. mqtt \in [at : {"rest", "checked", "flagged"}, cmd : Command]
  BY NoCommandType DEF Init, AtRest
<1>3. frame \in Frame
  BY FrameForType, NoCommandType DEF Init
<1>4. status \in [Zones -> Statuses] /\ stale \in [Zones -> BOOLEAN]
  BY DEF Init, AllUnknown, AllStale, Statuses
<1> QED
  BY <1>1, <1>2, <1>3, <1>4 DEF Init, TypeOK, WorkerPCs, Notifications

\* So are the requests.
LEMMA RequestType == NonStopCommand \subseteq Command /\ Refresh \in Command
  BY DEF NonStopCommand, Refresh, Command, CommandTypes

\* What opening a session leaves is typed.
LEMMA OpenType ==
  ASSUME TypeOK, NEW next \in WorkerPCs, OpenOk(next) \/ OpenFail(next)
  PROVE  /\ queue' = queue /\ busy' = busy /\ mqtt' = mqtt /\ valve' = valve
         /\ unattended' = unattended /\ pc' = next
         /\ urgent' \in BOOLEAN /\ timerOn' \in BOOLEAN
         /\ status' \in [Zones -> Statuses] /\ stale' \in [Zones -> BOOLEAN]
         /\ link' \in {"up", "closing", "down"} /\ inbox' \in SUBSET Notifications
<1>1. CASE OpenOk(next)
  BY <1>1, FailSafeType DEF OpenOk, TypeOK, store
<1>2. CASE OpenFail(next)
  BY <1>2 DEF OpenFail, TypeOK, store, shared
<1> QED
  BY <1>1, <1>2

\* So is what the two stop functions return to.
LEMMA StopDoneType ==
  ASSUME frame \in Frame, NEW success \in BOOLEAN, StopDone(success)
  PROVE  frame' \in Frame /\ pc' \in WorkerPCs
<1>1. 0 \in 0..MaxAttempts
  BY DEF MaxAttempts
<1>2. [frame EXCEPT !.ok = success, !.stopTry = 0] \in Frame
  BY <1>1 DEF Frame
<1>3. [frame EXCEPT !.ok = FALSE, !.stopTry = 0, !.stopFor = "none"] \in Frame
  BY <1>1 DEF Frame
<1> QED
  BY <1>2, <1>3 DEF StopDone, WorkerPCs

\* And what perform_stop_attempt returns to.
LEMMA StopReturnType ==
  ASSUME frame \in Frame, NEW success \in BOOLEAN, StopReturn(success)
  PROVE  frame' \in Frame /\ pc' \in WorkerPCs
  BY DEF StopReturn, Frame, WorkerPCs

\* Every step keeps the type.
LEMMA TypeNext == TypeOK /\ [Next]_vars => TypeOK'
<1> SUFFICES ASSUME TypeOK, [Next]_vars PROVE TypeOK'
  OBVIOUS
<1> USE DEF TypeOK, WorkerPCs, Notifications, store, shared, device
<1>1. CASE RequestCheck
  BY <1>1, RequestType DEF RequestCheck
<1>2. CASE RequestEnqueue
  <2>1. queue' \in Seq(Command) /\ Len(queue') <= QueueCap
    BY <1>2, EnqueueType DEF RequestEnqueue
  <2>2. status' \in [Zones -> Statuses] /\ stale' \in [Zones -> BOOLEAN]
    BY <1>2 DEF RequestEnqueue, Statuses
  <2> QED
    BY <1>2, <2>1, <2>2, NoCommandType DEF RequestEnqueue, AtRest
<1>3. CASE RequestStopFlag
  BY <1>3, NoCommandType DEF RequestStopFlag
<1>4. CASE RequestStopEnqueue
  <2>1. queue' \in Seq(Command) /\ Len(queue') <= QueueCap
    BY <1>4, EnqueueType DEF RequestStopEnqueue
  <2>2. status' \in [Zones -> Statuses]
    BY <1>4 DEF RequestStopEnqueue, Statuses
  <2> QED
    BY <1>4, <2>1, <2>2, NoCommandType DEF RequestStopEnqueue, AtRest
<1>5. CASE BatteryTimer
  <2>1. queue' \in Seq(Command) /\ Len(queue') <= QueueCap
    BY <1>5, EnqueueType, RequestType DEF BatteryTimer
  <2> QED
    BY <1>5, <2>1 DEF BatteryTimer
<1>6. CASE Receive
  <2>1. Head(queue) \in Command /\ Tail(queue) \in Seq(Command) /\ Len(Tail(queue)) <= QueueCap
    BY <1>6, QueueCapAssumption DEF Receive
  <2> QED
    BY <1>6, <2>1, FrameForType DEF Receive
<1>7. CASE Dispatch
  <2>1. frame.cmd.type \in CommandTypes
    BY DEF Frame, Command
  <2>2. pc' \in WorkerPCs
    BY <1>7, <2>1 DEF Dispatch, CommandTypes
  <2>3. frame' \in Frame /\ urgent' \in BOOLEAN
    BY <1>7 DEF Dispatch, Frame
  <2> QED
    BY <1>7, <2>2, <2>3 DEF Dispatch
<1>8. CASE Finish
  BY <1>8 DEF Finish, Frame, AnyRunning
<1>9. CASE FinishTimer
  <2>1. timerOn' \in BOOLEAN
    BY <1>9 DEF FinishTimer, Frame
  <2> QED
    BY <1>9, <2>1, FrameForType, NoCommandType DEF FinishTimer
<1>10. CASE StartOpen
  <2>1. frame' \in Frame
    BY <1>10 DEF StartOpen, Frame, MaxAttempts
  <2> QED
    BY <1>10, <2>1, OpenType DEF StartOpen
<1>11. CASE StartGiveUp
  BY <1>11 DEF StartGiveUp, SetZoneError, Frame, Statuses
<1>12. CASE StartClear
  BY <1>12 DEF StartClear
<1>13. CASE WritePrepare
  BY <1>13 DEF WritePrepare, StartWrote, Frame
<1>14. CASE WriteDuration
  BY <1>14 DEF WriteDuration, StartWrote, Frame
<1>15. CASE UrgentCheck
  BY <1>15 DEF UrgentCheck, UrgentOr, Frame
<1>16. CASE WriteArm
  BY <1>16 DEF WriteArm, StartWrote, Frame, Command
<1>17. CASE ConfirmLoop
  BY <1>17 DEF ConfirmLoop, UrgentOr, Frame
<1>18. CASE ConfirmRunning \/ MarkOthersIdle \/ MarkRunning
  BY <1>18 DEF ConfirmRunning, MarkOthersIdle, AllIdle, MarkRunning, Frame, Statuses
<1>19. CASE ConfirmOther
  BY <1>19 DEF ConfirmOther
<1>20. CASE ConfirmTimeout
  BY <1>20 DEF ConfirmTimeout, SetZoneError, Frame, Statuses
<1>21. CASE StartClose
  <2>1. frame' \in Frame /\ pc' \in WorkerPCs /\ urgent' \in BOOLEAN /\ unattended' \in BOOLEAN
    BY <1>21 DEF StartClose, Frame
  <2>2. link' \in {"up", "closing", "down"}
    BY <1>21 DEF StartClose, Close
  <2> QED
    BY <1>21, <2>1, <2>2 DEF StartClose
<1>22. CASE StopOpen
  <2>1. frame' \in Frame
    BY <1>22 DEF StopOpen, Frame, MaxAttempts
  <2> QED
    BY <1>22, <2>1, OpenType DEF StopOpen
<1>23. CASE StopGiveUp
  <2>1. frame' \in Frame /\ pc' \in WorkerPCs
    BY <1>23, StopDoneType DEF StopGiveUp
  <2> QED
    BY <1>23, <2>1, FailSafeType DEF StopGiveUp
<1>24. CASE StopClear
  BY <1>24 DEF StopClear
<1>25. CASE WriteStop
  <2>1. frame' \in Frame /\ pc' \in WorkerPCs
    BY <1>25, StopReturnType DEF WriteStop, Frame
  <2> QED
    BY <1>25, <2>1 DEF WriteStop
<1>26. CASE StopConfirmed
  BY <1>26 DEF StopConfirmed, StopReturn, Frame
<1>27. CASE StopIgnore
  BY <1>27 DEF StopIgnore
<1>28. CASE StopTimeout
  BY <1>28 DEF StopTimeout, StopReturn, Frame
<1>29. CASE StopClose \/ StopMark
  <2>1. CASE StopClose
    BY <2>1 DEF StopClose, Close
  <2>2. CASE StopMark
    <3>1. frame' \in Frame /\ pc' \in WorkerPCs
      BY <2>2, StopDoneType DEF StopMark
    <3>2. status' \in [Zones -> Statuses] /\ stale' \in [Zones -> BOOLEAN]
      BY <2>2 DEF StopMark, MarkIdleAll, AllIdle, Statuses
    <3> QED
      BY <2>2, <3>1, <3>2 DEF StopMark
  <2> QED
    BY <1>29, <2>1, <2>2
<1>30. CASE ApplyOpen
  BY <1>30, OpenType DEF ApplyOpen
<1>31. CASE ApplyTransfer \/ ApplyRecord
  BY <1>31 DEF ApplyTransfer, ApplyRecord, Frame
<1>32. CASE ApplyClose
  BY <1>32 DEF ApplyClose, Close
<1>33. CASE RefreshOpen
  BY <1>33, OpenType DEF RefreshOpen
<1>34. CASE RefreshClose
  BY <1>34 DEF RefreshClose, Close, Frame
<1>35. CASE LinkDrops \/ CloseCompletes
  BY <1>35, FailSafeType DEF LinkDrops, CloseCompletes, Disconnected
<1>36. CASE WifiDrops
  <2>1. FailSafeReset(FALSE) /\ UNCHANGED <<queue, busy, mqtt, pc, frame, device, unattended>>
    BY <1>36 DEF WifiDrops
  <2>2. /\ urgent' \in BOOLEAN /\ timerOn' \in BOOLEAN
        /\ status' \in [Zones -> Statuses] /\ stale' \in [Zones -> BOOLEAN]
    BY <2>1, FailSafeType
  <2> QED
    BY <2>1, <2>2
<1>37. CASE RemainingTimer
  BY <1>37 DEF RemainingTimer, AnyRunning, Statuses
<1>38. CASE HunterNotifies
  BY <1>38 DEF HunterNotifies
<1>39. CASE HunterExpires
  BY <1>39 DEF HunterExpires
<1>40. CASE Reboot
  <2>1. status' \in [Zones -> Statuses] /\ stale' \in [Zones -> BOOLEAN]
    BY <1>40 DEF Reboot, AllUnknown, AllStale, Statuses
  <2>2. queue' \in Seq(Command) /\ Len(queue') <= QueueCap
    BY <1>40, QueueCapAssumption DEF Reboot
  <2>3. mqtt' \in [at : {"rest", "checked", "flagged"}, cmd : Command] /\ frame' \in Frame
    BY <1>40, NoCommandType, FrameForType DEF Reboot, AtRest
  <2> QED
    BY <1>40, <2>1, <2>2, <2>3 DEF Reboot
<1>41. CASE UNCHANGED vars
  BY <1>41 DEF vars
<1> QED
  BY <1>1, <1>2, <1>3, <1>4, <1>5, <1>6, <1>7, <1>8, <1>9, <1>10, <1>11, <1>12, <1>13,
     <1>14, <1>15, <1>16, <1>17, <1>18, <1>19, <1>20, <1>21, <1>22, <1>23, <1>24, <1>25,
     <1>26, <1>27, <1>28, <1>29, <1>30, <1>31, <1>32, <1>33, <1>34, <1>35, <1>36, <1>37,
     <1>38, <1>39, <1>40, <1>41
  DEF Next, Requests, MqttTask, Worker, Events, Hunter

\* Every reachable state has the type of TypeOK: the queue within its
\* capacity, the attempt counters within their bounds.
THEOREM TypeCorrect == Spec => []TypeOK
  BY TypeInit, TypeNext, PTL DEF Spec

-----------------------------------------------------------------------------
(***************************************************************************)
(* The queue and the urgent flag.                                          *)
(***************************************************************************)

\* Which steps leave the queue and the mqtt_bridge task alone.
LEMMA QueueFrame ==
  ASSUME [Next]_vars, ~RequestCheck, ~RequestEnqueue, ~RequestStopFlag,
         ~RequestStopEnqueue, ~BatteryTimer, ~Receive, ~Reboot
  PROVE  queue' = queue /\ mqtt' = mqtt
<1> USE DEF store, shared, device
<1>1. CASE Dispatch \/ Finish \/ FinishTimer
  BY <1>1 DEF Dispatch, Finish, FinishTimer
<1>2. CASE StartOpen \/ StopOpen \/ ApplyOpen \/ RefreshOpen
  BY <1>2 DEF StartOpen, StopOpen, ApplyOpen, RefreshOpen, OpenOk, OpenFail
<1>3. CASE StartGiveUp \/ StartClear \/ WritePrepare \/ WriteDuration \/ UrgentCheck
           \/ WriteArm \/ ConfirmLoop \/ ConfirmRunning \/ ConfirmOther
           \/ ConfirmTimeout \/ MarkOthersIdle \/ MarkRunning \/ StartClose
  BY <1>3 DEF StartGiveUp, StartClear, WritePrepare, WriteDuration, StartWrote,
     UrgentCheck, UrgentOr, WriteArm, ConfirmLoop, ConfirmRunning, ConfirmOther,
     ConfirmTimeout, MarkOthersIdle, MarkRunning, StartClose
<1>4. CASE StopGiveUp \/ StopClear \/ WriteStop \/ StopConfirmed \/ StopIgnore
           \/ StopTimeout \/ StopClose \/ StopMark
  BY <1>4 DEF StopGiveUp, StopClear, WriteStop, StopConfirmed, StopIgnore,
     StopTimeout, StopClose, StopMark
<1>5. CASE ApplyTransfer \/ ApplyRecord \/ ApplyClose \/ RefreshClose
  BY <1>5 DEF ApplyTransfer, ApplyRecord, ApplyClose, RefreshClose
<1>6. CASE Events \/ Hunter
  BY <1>6 DEF Events, LinkDrops, CloseCompletes, Disconnected, WifiDrops,
     RemainingTimer, Hunter, HunterNotifies, HunterExpires
<1>7. CASE UNCHANGED vars
  BY <1>7 DEF vars
<1> QED
  BY <1>1, <1>2, <1>3, <1>4, <1>5, <1>6, <1>7 DEF Next, Requests, MqttTask, Worker

\* The shape of the queue is inductive.
LEMMA QueueNext ==
  ASSUME TypeOK, QueueInv, [Next]_vars
  PROVE  QueueInv'
<1> USE DEF TypeOK, QueueInv, StopsUpFront, store, shared, device
<1>1. CASE RequestCheck
  <2>1. queue = <<>> /\ queue' = queue /\ mqtt'.at = "checked" /\ mqtt'.cmd.type # "Stop"
    BY <1>1 DEF RequestCheck, Accepting, NonStopCommand, Refresh
  <2> QED
    BY <2>1
<1>2. CASE RequestEnqueue
  <2>1. queue' = Append(queue, mqtt.cmd) /\ Len(queue) <= 1 /\ mqtt' = AtRest
    BY <1>2, QueueCapAssumption DEF RequestEnqueue, Enqueue
  <2>2. mqtt.cmd \in Command /\ mqtt.cmd.type # "Stop"
    BY <1>2 DEF RequestEnqueue
  <2> QED
    BY <2>1, <2>2 DEF AtRest
<1>3. CASE RequestStopFlag
  BY <1>3 DEF RequestStopFlag
<1>4. CASE RequestStopEnqueue
  <2>1. mqtt.cmd = NoCommand /\ mqtt.cmd.type = "Stop" /\ mqtt' = AtRest
    BY <1>4 DEF RequestStopEnqueue, NoCommand
  <2>2. CASE Len(queue) >= QueueCap
    BY <1>4, <2>1, <2>2 DEF RequestStopEnqueue, Enqueue, AtRest
  <2>3. CASE Len(queue) < QueueCap
    <3>1. queue' = <<NoCommand>> \o queue
      BY <1>4, <2>1, <2>3, QueueCapAssumption DEF RequestStopEnqueue, Enqueue
    <3>2. /\ Len(queue') = Len(queue) + 1
          /\ queue'[1] = NoCommand
          /\ \A i \in 2..Len(queue') : queue'[i] = queue[i - 1]
      BY <3>1, NoCommandType
    <3>3. ASSUME NEW i \in 1..Len(queue'), i + 2 <= Len(queue')
          PROVE  queue'[i].type = "Stop"
      <4>1. CASE i = 1
        BY <4>1, <3>2 DEF NoCommand
      <4>2. CASE i > 1
        <5>1. i - 1 \in 1..Len(queue) /\ (i - 1) + 2 <= Len(queue) /\ queue'[i] = queue[i - 1]
          BY <4>2, <3>2, <3>3
        <5> QED
          BY <5>1
      <4> QED
        BY <4>1, <4>2
    <3>4. ASSUME NEW i \in 1..Len(queue'), NEW j \in 1..Len(queue'),
                 i < j, queue'[j].type = "Stop"
          PROVE  queue'[i].type = "Stop"
      <4>1. CASE i = 1
        BY <4>1, <3>2 DEF NoCommand
      <4>2. CASE i > 1
        <5>1. /\ i - 1 \in 1..Len(queue) /\ j - 1 \in 1..Len(queue) /\ i - 1 < j - 1
              /\ queue'[i] = queue[i - 1] /\ queue'[j] = queue[j - 1]
          BY <4>2, <3>2, <3>4
        <5> QED
          BY <5>1, <3>4
      <4> QED
        BY <4>1, <4>2
    <3> QED
      BY <2>1, <3>3, <3>4 DEF AtRest
  <2> QED
    BY <2>2, <2>3, QueueCapAssumption
<1>5. CASE BatteryTimer
  <2>1. queue = <<>> /\ queue' = <<Refresh>> /\ mqtt' = mqtt
    BY <1>5, RequestType, QueueCapAssumption DEF BatteryTimer, Accepting, Enqueue
  <2> QED
    BY <2>1
<1>6. CASE Receive
  <2>1. queue # <<>> /\ queue' = Tail(queue) /\ mqtt' = mqtt
    BY <1>6 DEF Receive
  <2>2. /\ Len(queue') = Len(queue) - 1
        /\ \A i \in 1..Len(queue') : queue'[i] = queue[i + 1]
    BY <2>1
  <2> QED
    BY <2>1, <2>2
<1>7. CASE Reboot
  BY <1>7 DEF Reboot, AtRest
<1>8. CASE queue' = queue /\ mqtt' = mqtt
  BY <1>8
<1> QED
  BY <1>1, <1>2, <1>3, <1>4, <1>5, <1>6, <1>7, <1>8, QueueFrame

\* An accepted request finds room, and a full queue holds a Stop.
THEOREM QueueSafe == Spec => []QueueServes
<1>1. Init => QueueInv
  BY DEF Init, QueueInv, StopsUpFront, AtRest
<1>2. TypeOK /\ QueueInv => QueueServes
  <2> SUFFICES ASSUME TypeOK, QueueInv PROVE QueueServes
    OBVIOUS
  <2>1. AcceptedFits
    BY QueueCapAssumption DEF AcceptedFits, QueueInv, TypeOK
  <2>2. ASSUME Len(queue) = QueueCap PROVE queue[1].type = "Stop" /\ 1 \in 1..Len(queue)
    BY <2>2, QueueCapAssumption DEF QueueInv, StopsUpFront, TypeOK
  <2> QED
    BY <2>1, <2>2 DEF QueueInv, QueueServes, FullQueueHoldsStop, StopQueued
<1> QED
  BY <1>1, <1>2, TypeCorrect, QueueNext, PTL DEF Spec

\* The steps that can raise the urgent flag or take up a Stop.
LEMMA UrgentFrame ==
  ASSUME [Next]_vars, ~Receive, ~Dispatch, ~RequestStopFlag, ~RequestStopEnqueue,
         ~RequestEnqueue, ~RequestCheck, ~BatteryTimer, ~Reboot
  PROVE  (pc # "got" /\ urgent' = urgent) \/ urgent' = FALSE \/ UNCHANGED <<urgent, pc, frame>>
<1> USE DEF store, shared, device, FailSafeReset
<1>1. CASE Finish \/ FinishTimer
  BY <1>1 DEF Finish, FinishTimer
<1>2. CASE StartOpen \/ StopOpen \/ ApplyOpen \/ RefreshOpen
  BY <1>2 DEF StartOpen, StopOpen, ApplyOpen, RefreshOpen, OpenOk, OpenFail
<1>3. CASE StartGiveUp \/ StartClear \/ WritePrepare \/ WriteDuration \/ UrgentCheck
           \/ WriteArm \/ ConfirmLoop \/ ConfirmRunning \/ ConfirmOther
           \/ ConfirmTimeout \/ MarkOthersIdle \/ MarkRunning \/ StartClose
  BY <1>3 DEF StartGiveUp, StartClear, WritePrepare, WriteDuration, StartWrote,
     UrgentCheck, UrgentOr, WriteArm, ConfirmLoop, ConfirmRunning, ConfirmOther,
     ConfirmTimeout, MarkOthersIdle, MarkRunning, StartClose
<1>4. CASE StopGiveUp \/ StopClear \/ WriteStop \/ StopConfirmed \/ StopIgnore
           \/ StopTimeout \/ StopClose \/ StopMark
  BY <1>4 DEF StopGiveUp, StopClear, WriteStop, StopConfirmed, StopIgnore,
     StopTimeout, StopClose, StopMark
<1>5. CASE ApplyTransfer \/ ApplyRecord \/ ApplyClose \/ RefreshClose
  BY <1>5 DEF ApplyTransfer, ApplyRecord, ApplyClose, RefreshClose
<1>6. CASE Events \/ Hunter
  BY <1>6 DEF Events, LinkDrops, CloseCompletes, Disconnected, WifiDrops,
     RemainingTimer, Hunter, HunterNotifies, HunterExpires
<1>7. CASE UNCHANGED vars
  BY <1>7 DEF vars
<1> QED
  BY <1>1, <1>2, <1>3, <1>4, <1>5, <1>6, <1>7 DEF Next, Requests, MqttTask, Worker

\* The urgent flag stays tied to its Stop.
LEMMA UrgentNext ==
  ASSUME TypeOK, QueueInv, UrgentMeansStopPending, [Next]_vars
  PROVE  UrgentMeansStopPending'
<1> USE DEF UrgentMeansStopPending, StopQueued, TypeOK
<1>1. CASE RequestCheck
  BY <1>1 DEF RequestCheck, Accepting, shared
<1>2. CASE RequestEnqueue
  <2>1. Len(queue) <= Len(queue') /\ \A i \in 1..Len(queue) : queue'[i] = queue[i]
    BY <1>2 DEF RequestEnqueue, Enqueue
  <2> QED
    BY <1>2, <2>1 DEF RequestEnqueue
<1>3. CASE RequestStopFlag
  BY <1>3 DEF RequestStopFlag
<1>4. CASE RequestStopEnqueue
  <2>1. mqtt.cmd = NoCommand /\ NoCommand.type = "Stop"
    BY <1>4 DEF RequestStopEnqueue, QueueInv, NoCommand
  <2>2. CASE Len(queue) >= QueueCap
    <3>1. queue' = queue /\ queue[1].type = "Stop" /\ 1 \in 1..Len(queue)
      BY <1>4, <2>2, QueueCapAssumption DEF RequestStopEnqueue, Enqueue, QueueInv, StopsUpFront
    <3> QED
      BY <3>1
  <2>3. CASE Len(queue) < QueueCap
    <3>1. queue' = <<NoCommand>> \o queue
      BY <1>4, <2>1, <2>3, QueueCapAssumption DEF RequestStopEnqueue, Enqueue
    <3>2. Len(queue') = Len(queue) + 1 /\ queue'[1] = NoCommand
      BY <3>1, NoCommandType
    <3>3. 1 \in 1..Len(queue') /\ queue'[1].type = "Stop"
      BY <2>1, <3>2
    <3> QED
      BY <3>3
  <2> QED
    BY <2>2, <2>3, QueueCapAssumption
<1>5. CASE BatteryTimer
  BY <1>5 DEF BatteryTimer, Accepting
<1>6. CASE Receive
  <2>1. queue # <<>> /\ queue' = Tail(queue) /\ mqtt' = mqtt /\ urgent' = urgent
        /\ pc' = "got" /\ frame'.cmd = Head(queue) /\ pc = "idle"
    BY <1>6 DEF Receive, FrameFor
  <2>2. /\ Head(queue) = queue[1]
        /\ Len(queue') = Len(queue) - 1
        /\ \A i \in 1..Len(queue') : queue'[i] = queue[i + 1]
    BY <2>1
  <2>3. ASSUME urgent, mqtt.at # "flagged" PROVE queue[1].type = "Stop"
    BY <2>1, <2>3 DEF QueueInv, StopsUpFront
  <2> QED
    BY <2>1, <2>2, <2>3
<1>7. CASE Dispatch
  BY <1>7 DEF Dispatch
<1>8. CASE Reboot
  BY <1>8 DEF Reboot
<1>9. CASE ~(RequestCheck \/ RequestEnqueue \/ RequestStopFlag \/ RequestStopEnqueue
             \/ BatteryTimer \/ Receive \/ Dispatch \/ Reboot)
  BY <1>9, QueueFrame, UrgentFrame
<1> QED
  BY <1>1, <1>2, <1>3, <1>4, <1>5, <1>6, <1>7, <1>8, <1>9

\* The urgent flag never outlives the Stop it announces, so no later start is
\* aborted by it.
THEOREM UrgentSafe == Spec => []UrgentMeansStopPending
<1>1. Init => QueueInv /\ UrgentMeansStopPending
  BY DEF Init, QueueInv, StopsUpFront, AtRest, UrgentMeansStopPending
<1> QED
  BY <1>1, TypeCorrect, QueueNext, UrgentNext, PTL DEF Spec

-----------------------------------------------------------------------------
(***************************************************************************)
(* The valve: arms, stop sequences and the zones shown Idle.               *)
(***************************************************************************)

\* What a fail-safe reset shows of a zone is not Idle.
LEMMA FailSafeNotIdle ==
  ASSUME NEW e \in BOOLEAN, FailSafeReset(e)
  PROVE  \A z \in Zones : status'[z] # "Idle"
  BY DEF FailSafeReset, AllUnknown

\* Opening a session leaves the valve, the arm and the Idle zones, or shows no
\* zone Idle.
LEMMA OpenLeaves ==
  ASSUME NEW next, OpenOk(next) \/ OpenFail(next)
  PROVE  /\ valve' = valve /\ unattended' = unattended /\ pc' = next
         /\ status' = status \/ (\A z \in Zones : status'[z] # "Idle")
  BY FailSafeNotIdle DEF OpenOk, OpenFail, store

\* Arms are attended to, sequences know the valve, Idle zones are closed.
LEMMA ControlNext ==
  ASSUME TypeOK, ControlInv, [Next]_vars
  PROVE  ControlInv'
<1> USE DEF ControlInv, ArmInv, SequenceInv, IdleInv, TypeOK, store, shared, device
<1>1. CASE Requests
  <2>1. UNCHANGED <<pc, frame, status, inbox, valve, unattended>>
    BY <1>1 DEF Requests, RequestCheck, RequestStopFlag, BatteryTimer
  <2> QED
    BY <2>1
<1>2. CASE RequestEnqueue
  <2>1. \A z \in Zones : status'[z] = "Idle" => status[z] = "Idle"
    BY <1>2 DEF RequestEnqueue
  <2> QED
    BY <1>2, <2>1 DEF RequestEnqueue
<1>3. CASE RequestStopEnqueue
  <2>1. \A z \in Zones : status'[z] = "Idle" => status[z] = "Idle"
    BY <1>3 DEF RequestStopEnqueue
  <2> QED
    BY <1>3, <2>1 DEF RequestStopEnqueue
<1>4. CASE Receive
  BY <1>4 DEF Receive
<1>5. CASE Dispatch
  <2>1. pc' \in {"startOpen", "stopOpen", "applyOpen", "refreshOpen"}
    BY <1>5 DEF Dispatch, Frame, Command, CommandTypes
  <2> QED
    BY <1>5, <2>1 DEF Dispatch
<1>6. CASE Finish \/ FinishTimer
  BY <1>6 DEF Finish, FinishTimer
<1>7. CASE StartOpen
  <2>1. pc' \in {"startClear", "startOpen"} /\ valve' = valve /\ unattended' = unattended
        /\ (status' = status \/ \A z \in Zones : status'[z] # "Idle")
    BY <1>7, OpenLeaves DEF StartOpen
  <2> QED
    BY <1>7, <2>1 DEF StartOpen
<1>8. CASE StartGiveUp
  <2>1. \A z \in Zones : status'[z] = "Idle" => status[z] = "Idle"
    BY <1>8 DEF StartGiveUp, SetZoneError
  <2> QED
    BY <1>8, <2>1 DEF StartGiveUp
<1>9. CASE StartClear
  BY <1>9 DEF StartClear
<1>10. CASE WritePrepare
  <2>1. \A o \in WriteOutcomes("prepare") : o.acked => o.applied
    <3>1. CASE link # "up"
      BY <3>1 DEF WriteOutcomes
    <3>2. CASE link = "up"
      <4>1. "prepare" \notin IgnoredWrites
        BY IgnoredAssumption
      <4>2. WriteOutcomes("prepare")
              = [acked : {FALSE}, applied : BOOLEAN] \union [acked : {TRUE}, applied : {TRUE}]
        BY <3>2, <4>1 DEF WriteOutcomes
      <4> QED
        BY <4>2
    <3> QED
      BY <3>1, <3>2
  <2>2. PICK o \in WriteOutcomes("prepare") :
             /\ valve' = IF o.applied THEN NoZone ELSE valve
             /\ StartWrote(o.acked, "duration")
    BY <1>10 DEF WritePrepare
  <2>3. frame'.ok = FALSE /\ pc' \in {"duration", "startClose"} /\ status' = status
    BY <2>2 DEF StartWrote, Frame
  <2>4. pc' = "duration" => valve' = NoZone
    BY <2>1, <2>2 DEF StartWrote
  <2>5. valve' = valve \/ valve' = NoZone
    BY <2>2
  <2> QED
    BY <1>10, <2>3, <2>4, <2>5, NoZoneAssumption DEF WritePrepare
<1>11. CASE WriteDuration
  <2>1. PICK o \in WriteOutcomes("duration") : StartWrote(o.acked, "urgentCheck")
    BY <1>11 DEF WriteDuration
  <2>2. frame'.ok = FALSE /\ frame'.cmd = frame.cmd /\ status' = status
        /\ pc' \in {"urgentCheck", "startClose"}
    BY <2>1 DEF StartWrote, Frame
  <2> QED
    BY <1>11, <2>2 DEF WriteDuration
<1>12. CASE UrgentCheck \/ ConfirmLoop
  BY <1>12 DEF UrgentCheck, ConfirmLoop, UrgentOr, Frame
<1>13. CASE WriteArm
  <2>1. PICK o \in WriteOutcomes("arm") :
             /\ valve' = IF o.applied THEN frame.cmd.zone ELSE valve
             /\ StartWrote(o.acked, "confirm")
    BY <1>13 DEF WriteArm
  <2>2. frame'.ok = FALSE /\ frame'.cmd = frame.cmd /\ pc' \in {"confirm", "startClose"}
    BY <2>1 DEF StartWrote, Frame
  <2>3. valve' \in {NoZone, frame'.cmd.zone}
    BY <1>13, <2>1, <2>2 DEF WriteArm
  <2> QED
    BY <2>2, <2>3
<1>14. CASE ConfirmRunning \/ MarkOthersIdle
  <2>1. /\ valve' = valve /\ valve \in {NoZone, frame.cmd.zone} /\ frame'.cmd = frame.cmd
        /\ pc' \in {"markIdle", "markRunning"} /\ ~unattended'
    BY <1>14 DEF ConfirmRunning, MarkOthersIdle, Frame
  <2> QED
    BY <2>1
<1>35. CASE MarkRunning
  <2>1. \A z \in Zones : status'[z] = "Idle" => z # frame.cmd.zone
    BY <1>35 DEF MarkRunning
  <2>2. valve' = valve /\ valve \in {NoZone, frame.cmd.zone}
    BY <1>35 DEF MarkRunning
  <2>3. pc' = "startClose" /\ ~unattended'
    BY <1>35 DEF MarkRunning
  <2> QED
    BY <2>1, <2>2, <2>3, NoZoneAssumption
<1>15. CASE ConfirmOther
  BY <1>15 DEF ConfirmOther
<1>16. CASE ConfirmTimeout
  <2>1. frame'.ok = FALSE /\ pc' = "startClose"
    BY <1>16 DEF ConfirmTimeout, Frame
  <2> QED
    BY <2>1
<1>17. CASE StartClose
  <2>1. valve' = valve /\ status' = status
    BY <1>17 DEF StartClose
  <2>2. CASE frame.ok
    BY <1>17, <2>1, <2>2 DEF StartClose
  <2>3. CASE ~frame.ok
    BY <1>17, <2>1, <2>3 DEF StartClose
  <2> QED
    BY <2>2, <2>3
<1>18. CASE StopOpen
  <2>1. pc' \in {"stopClear", "stopOpen"} /\ unattended' = unattended
    BY <1>18, OpenLeaves DEF StopOpen
  <2> QED
    BY <1>18, <2>1 DEF StopOpen
<1>19. CASE StopGiveUp
  <2>1. \A z \in Zones : status'[z] # "Idle"
    BY <1>19, FailSafeNotIdle DEF StopGiveUp
  <2>2. pc' \in {"finish", "startOpen"} /\ unattended' = unattended
    BY <1>19 DEF StopGiveUp, StopDone
  <2> QED
    BY <1>19, <2>1, <2>2 DEF StopGiveUp
<1>20. CASE StopClear
  BY <1>20 DEF StopClear
<1>21. CASE WriteStop
  <2>1. valve' = valve \/ valve' = NoZone
    BY <1>21 DEF WriteStop
  <2>2. frame'.ok = FALSE /\ pc' \in {"stop2", "stopWait", "startClose", "stopClose"}
    BY <1>21 DEF WriteStop, StopReturn, Frame
  <2>3. unattended' = unattended /\ status' = status /\ inbox' = inbox
    BY <1>21 DEF WriteStop
  <2> QED
    BY <1>21, <2>1, <2>2, <2>3 DEF WriteStop
<1>22. CASE StopConfirmed
  <2>1. valve = NoZone /\ valve' = valve /\ unattended' = unattended
    BY <1>22 DEF StopConfirmed
  <2>2. pc' \in {"startClose", "stopClose"}
    BY <1>22 DEF StopConfirmed, StopReturn
  <2> QED
    BY <1>22, <2>1, <2>2, NoZoneAssumption DEF StopConfirmed
<1>23. CASE StopIgnore
  BY <1>23 DEF StopIgnore
<1>24. CASE StopTimeout
  <2>1. frame'.ok = FALSE /\ pc' \in {"startClose", "stopClose"}
    BY <1>24 DEF StopTimeout, StopReturn, Frame
  <2> QED
    BY <1>24, <2>1 DEF StopTimeout
<1>25. CASE StopClose
  <2>1. UNCHANGED <<valve, unattended, status, frame>> /\ pc = "stopClose"
        /\ pc' = IF frame.ok THEN "stopMark" ELSE "stopOpen"
    BY <1>25 DEF StopClose
  <2>2. CASE frame.ok
    BY <2>1, <2>2, NoZoneAssumption
  <2>3. CASE ~frame.ok
    BY <2>1, <2>3
  <2> QED
    BY <2>2, <2>3
<1>36. CASE StopMark
  <2>1. pc' \in {"finish", "startOpen"} /\ valve' = NoZone /\ unattended' = unattended
    BY <1>36 DEF StopMark, StopDone
  <2> QED
    BY <1>36, <2>1, NoZoneAssumption DEF StopMark
<1>26. CASE ApplyOpen \/ RefreshOpen
  <2>1. pc' \in {"apply", "refreshClose", "finish"} /\ valve' = valve /\ unattended' = unattended
        /\ (status' = status \/ \A z \in Zones : status'[z] # "Idle")
    BY <1>26, OpenLeaves DEF ApplyOpen, RefreshOpen
  <2> QED
    BY <1>26, <2>1 DEF ApplyOpen, RefreshOpen
<1>27. CASE ApplyTransfer \/ ApplyRecord \/ ApplyClose \/ RefreshClose
  BY <1>27 DEF ApplyTransfer, ApplyRecord, ApplyClose, RefreshClose
<1>28. CASE LinkDrops \/ CloseCompletes
  <2>1. FailSafeReset(TRUE) /\ UNCHANGED <<pc, frame, inbox, valve, unattended>>
    BY <1>28 DEF LinkDrops, CloseCompletes, Disconnected
  <2>2. \A z \in Zones : status'[z] # "Idle"
    BY <2>1, FailSafeNotIdle
  <2> QED
    BY <2>1, <2>2
<1>29. CASE WifiDrops
  BY <1>29, FailSafeNotIdle DEF WifiDrops
<1>30. CASE RemainingTimer
  <2>1. \A z \in Zones : status'[z] = "Idle" => status[z] = "Idle" \/ valve # z
    BY <1>30 DEF RemainingTimer
  <2> QED
    BY <1>30, <2>1 DEF RemainingTimer
<1>31. CASE HunterNotifies
  BY <1>31 DEF HunterNotifies
<1>32. CASE HunterExpires
  BY <1>32, NoZoneAssumption DEF HunterExpires
<1>33. CASE Reboot
  BY <1>33 DEF Reboot, AllUnknown
<1>34. CASE UNCHANGED vars
  BY <1>34 DEF vars
<1> QED
  BY <1>1, <1>2, <1>3, <1>4, <1>5, <1>6, <1>7, <1>8, <1>9, <1>10, <1>11, <1>12, <1>13,
     <1>14, <1>15, <1>16, <1>17, <1>18, <1>19, <1>20, <1>21, <1>22, <1>23, <1>24, <1>25,
     <1>26, <1>27, <1>28, <1>29, <1>30, <1>31, <1>32, <1>33, <1>34, <1>35, <1>36
  DEF Next, MqttTask, Worker, Events, Hunter

\* The invariants hold at boot: nothing is armed and no zone is shown Idle.
LEMMA ControlInit == Init => ControlInv
  BY DEF Init, ControlInv, ArmInv, SequenceInv, IdleInv, AllUnknown

\* When the worker rests no arm is unattended, and perform_start never arms on
\* top of an arm it has not cleaned up.
THEOREM ArmSafe == Spec => []NoUnattendedArm
<1>1. ControlInv => NoUnattendedArm
  BY DEF ControlInv, ArmInv, NoUnattendedArm
<1> QED
  BY <1>1, ControlInit, ControlNext, TypeCorrect, PTL DEF Spec

\* Between two commands a zone shown Idle is not watering on an arm of the
\* bridge, whatever was lost, dropped, retried or restarted before.
THEOREM IdleSafe == Spec => []RestingIdleIsClosed
<1>1. ControlInv => RestingIdleIsClosed
  BY DEF ControlInv, IdleInv, RestingIdleIsClosed
<1> QED
  BY <1>1, ControlInit, ControlNext, TypeCorrect, PTL DEF Spec

\* A stop sequence reports success only when no arm is open any more.
THEOREM StopSafe == Spec => StopConfirmedMeansClosed
<1> DEFINE Reports == pc = "stopWait" /\ frame'.ok /\ ~frame.ok => valve = NoZone
<1>1. ASSUME TypeOK, ControlInv, [Next]_vars PROVE [Reports]_vars
  <2> SUFFICES ASSUME pc = "stopWait", frame'.ok, ~frame.ok PROVE valve = NoZone
    OBVIOUS
  <2>1. ~(StopIgnore \/ StopTimeout)
    BY <1>1 DEF StopIgnore, StopTimeout, StopReturn, TypeOK, Frame
  <2>2. ~Reboot
    <3>1. Reboot => frame'.ok = FALSE
      BY DEF Reboot, FrameFor
    <3> QED
      BY <3>1
  <2>3. frame' # frame
    OBVIOUS
  <2>4. ~(Requests \/ MqttTask \/ Events \/ Hunter \/ UNCHANGED vars)
    BY <2>3 DEF Requests, RequestCheck, RequestStopFlag, BatteryTimer, MqttTask, RequestEnqueue,
       RequestStopEnqueue, Events, LinkDrops, CloseCompletes, Disconnected, WifiDrops,
       RemainingTimer, Hunter, HunterNotifies, HunterExpires, vars
  <2>5. Worker
    BY <1>1, <2>2, <2>4 DEF Next
  <2>6. StopConfirmed
    <3>1. ~(Receive \/ Dispatch \/ Finish \/ FinishTimer \/ StartOpen \/ StartGiveUp
            \/ StartClear \/ WritePrepare \/ WriteDuration \/ UrgentCheck \/ WriteArm)
      BY DEF Receive, Dispatch, Finish, FinishTimer, StartOpen, StartGiveUp, StartClear,
         WritePrepare, WriteDuration, UrgentCheck, UrgentOr, WriteArm
    <3>2. ~(ConfirmLoop \/ ConfirmRunning \/ ConfirmOther \/ ConfirmTimeout \/ MarkOthersIdle
            \/ MarkRunning \/ StartClose \/ StopOpen \/ StopGiveUp \/ StopClear \/ WriteStop
            \/ StopClose \/ StopMark)
      BY DEF ConfirmLoop, UrgentOr, ConfirmRunning, ConfirmOther, ConfirmTimeout, MarkOthersIdle,
         MarkRunning, StartClose, StopOpen, StopGiveUp, StopClear, WriteStop, StopClose, StopMark
    <3>3. ~(ApplyOpen \/ ApplyTransfer \/ ApplyRecord \/ ApplyClose \/ RefreshOpen \/ RefreshClose)
      BY DEF ApplyOpen, ApplyTransfer, ApplyRecord, ApplyClose, RefreshOpen, RefreshClose
    <3> QED
      BY <2>1, <2>5, <3>1, <3>2, <3>3 DEF Worker
  <2> QED
    BY <1>1, <2>6 DEF StopConfirmed, ControlInv, SequenceInv
<1> QED
  BY <1>1, ControlInit, ControlNext, TypeCorrect, PTL DEF Spec, StopConfirmedMeansClosed

=============================================================================
