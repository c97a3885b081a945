------------------------- MODULE CommandCoordinator -------------------------
(***************************************************************************)
(* The command coordinator of the bridge (src/src/command_coordinator.cpp) *)
(* with the part of the state store it drives, the tasks that call into it *)
(* and the Hunter valve at the far end of the BLE link.                    *)
(*                                                                         *)
(* Tasks and their priorities on the single core of the ESP32-C6:          *)
(*   esp_timer (22), NimBLE host (21), sys_evt (20)  preempt the others;   *)
(*   their handlers never wait for the worker, so each is one action;      *)
(*   bridge_worker (5) and mqtt_bridge (5) interleave with each other:     *)
(*   one action per blocking call of the worker and per check-then-act     *)
(*   window of either.                                                     *)
(*                                                                         *)
(* The valve, the radio and the notifications are external: what the       *)
(* Hunter may do is a nondeterministic choice.  It also waters on its own, *)
(* by the schedules that perform_apply_schedule installs.  That has no     *)
(* variable here: it may begin and end at any moment, and all the bridge   *)
(* can see of it is a countdown (HunterNotifies).                          *)
(***************************************************************************)
EXTENDS Integers, Sequences, FiniteSets

CONSTANTS Zones,          \* kZoneCount zones
          NoZone,         \* "no zone": a closed valve, a command without zone
          QueueCap,       \* xQueueCreate(8, ...)
          RequestTypes,   \* commands other than Stop that MQTT clients send
          IgnoredWrites   \* FF83 packets the device may acknowledge and ignore

(***************************************************************************)
(* Two non-stop commands can meet in the queue (see StopsUpFront), so any  *)
(* queue with room for a third behaves like the code's queue of eight.     *)
(***************************************************************************)
ASSUME QueueCapAssumption == QueueCap \in Nat /\ QueueCap >= 3
ASSUME NoZoneAssumption == NoZone \notin Zones
ASSUME RequestAssumption == RequestTypes \subseteq {"Start", "Apply", "RefreshBattery"}
ASSUME IgnoredAssumption == IgnoredWrites \subseteq {"arm", "stop"}

MaxAttempts == 2   \* bound of both retry loops: attempt < 2

CommandTypes == {"Start", "Stop", "Apply", "RefreshBattery"}
Command == [type : CommandTypes, zone : Zones \union {NoZone}]

\* ZoneRuntimeStatus; Disconnected is never assigned by the code.
Statuses == {"Idle", "Starting", "Running", "Stopping", "Error", "Unknown"}

\* What the wait loops act on: an FF8A countdown inside the accepted window and
\* an FF82 stop confirmation.  Any other notification is read and dropped, like
\* a wait that ends with none.
Notifications == {"countdown", "stopped"}

WorkerPCs == {"idle", "got",
              "startOpen", "startClear", "prepare", "duration", "urgentCheck",
              "arm", "confirm", "wait", "markIdle", "markRunning", "startClose",
              "stopOpen", "stopClear", "stop1", "stop2", "stopWait", "stopClose",
              "stopMark",
              "applyOpen", "apply", "applyRecord", "applyClose",
              "refreshOpen", "refreshClose",
              "finish", "timer"}

VARIABLES
  queue,      \* queue_, head first
  busy,       \* busy_
  urgent,     \* urgent_stop_requested_
  status,     \* zones[z].runtime_status
  stale,      \* zones[z].confirmed_state_stale
  timerOn,    \* esp_timer_is_active(remaining_timer_)
  mqtt,       \* the mqtt_bridge task inside request_*: [at, cmd]
  pc,         \* where the worker is
  frame,      \* the worker's local variables
  link,       \* "up", "closing" (terminated by the bridge) or "down"
  inbox,      \* notify_queue_
  valve,      \* external: the zone the Hunter waters on an arm, or NoZone
  unattended  \* history: an arm was sent and neither confirmed nor stopped

store  == <<status, stale, timerOn>>
shared == <<queue, busy, urgent>>
device == <<link, inbox, valve>>
vars   == <<shared, store, mqtt, pc, frame, device, unattended>>

NoCommand == [type |-> "Stop", zone |-> NoZone]
AtRest == [at |-> "rest", cmd |-> NoCommand]

\* The locals of task_loop and of the functions it is in: the command, the
\* attempts begun of either loop, who runs the stop sequence (the Stop command,
\* the cleanup after a failed start, an urgent abort of one), the result of the
\* call that returned last, and any_running.
Frame == [cmd : Command, startTry : 0..MaxAttempts, stopTry : 0..MaxAttempts,
          stopFor : {"none", "cmd", "cleanup", "abort"},
          ok : BOOLEAN, anyRunning : BOOLEAN]

FrameFor(c) == [cmd |-> c, startTry |-> 0, stopTry |-> 0, stopFor |-> "none",
                ok |-> FALSE, anyRunning |-> FALSE]

TypeOK ==
  /\ queue \in Seq(Command) /\ Len(queue) <= QueueCap
  /\ busy \in BOOLEAN /\ urgent \in BOOLEAN /\ timerOn \in BOOLEAN
  /\ status \in [Zones -> Statuses] /\ stale \in [Zones -> BOOLEAN]
  /\ mqtt \in [at : {"rest", "checked", "flagged"}, cmd : Command]
  /\ pc \in WorkerPCs /\ frame \in Frame
  /\ link \in {"up", "closing", "down"} /\ inbox \in SUBSET Notifications
  /\ valve \in Zones \union {NoZone}
  /\ unattended \in BOOLEAN

-----------------------------------------------------------------------------
(***************************************************************************)
(* The state store: what its mutators leave in the zone records.           *)
(***************************************************************************)
\* Mutant: every zone must run.
AllRunning(st) == \A z \in Zones : st[z] = "Running"

AnyRunning(st) == \E z \in Zones : st[z] = "Running"

\* mark_all_unknown
AllUnknown(isError) == [z \in Zones |-> IF isError THEN "Error" ELSE "Unknown"]
AllStale == [z \in Zones |-> TRUE]

\* fail_safe_reset: drops the urgent flag, forgets every runtime status, and
\* stops the countdown timer (no zone is Running any more).
FailSafeReset(isError) ==
  /\ urgent' = FALSE
  /\ status' = AllUnknown(isError)
  /\ stale' = AllStale
  /\ timerOn' = AnyRunning(status')

\* mark_idle_all, and the first loop of mark_running, which leaves the flags.
\* Each loop is one step: a handler between two of its writes resets every
\* zone, so it could only leave fewer zones Idle.
AllIdle == [z \in Zones |-> "Idle"]

MarkIdleAll ==
  /\ status' = AllIdle
  /\ stale' = [z \in Zones |-> FALSE]

\* Mutant: the zone record is left as it is.
SetNoZoneError(z) == UNCHANGED <<status, stale>>

\* set_zone_error
SetZoneError(z) ==
  /\ status' = [status EXCEPT ![z] = "Error"]
  /\ stale' = [stale EXCEPT ![z] = TRUE]

-----------------------------------------------------------------------------
Init ==
  /\ queue = <<>> /\ busy = FALSE /\ urgent = FALSE
  /\ status = AllUnknown(FALSE) /\ stale = AllStale      \* mark_boot_stale
  /\ timerOn = FALSE /\ mqtt = AtRest
  /\ pc = "idle" /\ frame = FrameFor(NoCommand)
  /\ link = "down" /\ inbox = {} /\ valve = NoZone
  /\ unattended = FALSE

(***************************************************************************)
(* Requests.  request_start, request_apply_schedule and                    *)
(* request_refresh_battery read busy_ and the queue length and enqueue     *)
(* later; request_stop raises the urgent flag and enqueues later.  A start *)
(* is marked in the zone record just before it is enqueued.                *)
(***************************************************************************)
\* Mutant: the queue length is not read.
AcceptingWhenNotBusy == ~busy

Accepting == ~busy /\ queue = <<>>

\* Mutants: no capacity; a stop sent to the back; a stop only if nothing waits.
EnqueueAlways(c, front) == queue' = IF front THEN <<c>> \o queue ELSE Append(queue, c)
EnqueueBack(c, front) == queue' = IF Len(queue) >= QueueCap THEN queue ELSE Append(queue, c)
EnqueueIfEmpty(c, front) == queue' = IF queue = <<>> THEN <<c>> ELSE queue

\* enqueue_command: xQueueSend and xQueueSendToFront with no wait.
Enqueue(c, front) ==
  queue' = IF Len(queue) >= QueueCap THEN queue
           ELSE IF front THEN <<c>> \o queue ELSE Append(queue, c)

Refresh == [type |-> "RefreshBattery", zone |-> NoZone]
NonStopCommand ==
  {c \in [type : {"Start", "Apply"}, zone : Zones] \union {Refresh} : c.type \in RequestTypes}

RequestCheck ==
  /\ mqtt.at = "rest" /\ Accepting
  /\ \E c \in NonStopCommand : mqtt' = [at |-> "checked", cmd |-> c]
  /\ UNCHANGED <<shared, store, pc, frame, device, unattended>>

RequestEnqueue ==
  /\ mqtt.at = "checked"
  /\ IF mqtt.cmd.type = "Start"
       THEN /\ status' = [status EXCEPT ![mqtt.cmd.zone] = "Starting"]
            /\ stale' = [stale EXCEPT ![mqtt.cmd.zone] = TRUE]
       ELSE UNCHANGED <<status, stale>>
  /\ Enqueue(mqtt.cmd, FALSE)
  /\ mqtt' = AtRest
  /\ UNCHANGED <<busy, urgent, timerOn, pc, frame, device, unattended>>

RequestStopFlag ==
  /\ mqtt.at = "rest"
  /\ urgent' = TRUE
  /\ mqtt' = [at |-> "flagged", cmd |-> NoCommand]
  /\ UNCHANGED <<queue, busy, store, pc, frame, device, unattended>>

RequestStopEnqueue ==
  /\ mqtt.at = "flagged"
  /\ status' = [z \in Zones |-> IF status[z] \in {"Running", "Starting"}
                                  THEN "Stopping" ELSE status[z]]
  /\ Enqueue(mqtt.cmd, TRUE)
  /\ mqtt' = AtRest
  /\ UNCHANGED <<busy, urgent, stale, timerOn, pc, frame, device, unattended>>

\* battery_refresh_cb runs in the esp_timer task: check and enqueue are one step.
BatteryTimer ==
  /\ Accepting
  /\ Enqueue(Refresh, FALSE)
  /\ UNCHANGED <<busy, urgent, store, mqtt, pc, frame, device, unattended>>

-----------------------------------------------------------------------------
(***************************************************************************)
(* The BLE link as the worker sees it.                                     *)
(***************************************************************************)

\* Outcomes of an acknowledged write: what the worker is told and whether the
\* device acted.  A write can be applied and its response lost; a packet of
\* IgnoredWrites can be acknowledged without effect.
WriteOutcomes(packet) ==
  IF link # "up" THEN {[acked |-> FALSE, applied |-> FALSE]}
  ELSE [acked : {FALSE}, applied : BOOLEAN]
       \union [acked : {TRUE}, applied : IF packet \in IgnoredWrites THEN BOOLEAN ELSE {TRUE}]

\* open_session and BleTransport::connect.  A connection that fails in handle
\* discovery is terminated by the bridge, and that event resets the runtime
\* state like any other; it may be the first of connect's two attempts.
OpenOk(next) ==
  /\ link = "down" /\ link' = "up" /\ inbox' = {}
  /\ UNCHANGED <<urgent, store>> \/ FailSafeReset(TRUE)
  /\ pc' = next
  /\ UNCHANGED <<queue, busy, mqtt, valve, unattended>>

OpenFail(next) ==
  /\ link' \in IF link = "down" THEN {"down", "closing"} ELSE {link}
  /\ pc' = next
  /\ UNCHANGED <<shared, store, mqtt, inbox, valve, unattended>>

\* close_session: conn_handle_ is forgotten now, the event comes later.
Close == link' = IF link = "up" THEN "closing" ELSE link

-----------------------------------------------------------------------------
(***************************************************************************)
(* task_loop                                                               *)
(***************************************************************************)
Receive ==
  /\ pc = "idle" /\ queue # <<>>
  /\ frame' = FrameFor(Head(queue)) /\ queue' = Tail(queue)
  /\ pc' = "got"
  /\ UNCHANGED <<busy, urgent, store, mqtt, device, unattended>>

\* busy_.store(true), the switch, and perform_stop's first statement.
Dispatch ==
  /\ pc = "got"
  /\ busy' = TRUE
  /\ pc' = CASE frame.cmd.type = "Start" -> "startOpen"
             [] frame.cmd.type = "Stop" -> "stopOpen"
             [] frame.cmd.type = "Apply" -> "applyOpen"
             [] frame.cmd.type = "RefreshBattery" -> "refreshOpen"
  /\ IF frame.cmd.type = "Stop"
       THEN urgent' = FALSE /\ frame' = [frame EXCEPT !.stopFor = "cmd"]
       ELSE UNCHANGED <<urgent, frame>>
  /\ UNCHANGED <<queue, store, mqtt, device, unattended>>

\* After the switch: the bridge error and save() (neither is kept here), and
\* the reading half of ensure_remaining_timer_state.
Finish ==
  /\ pc = "finish" /\ pc' = "timer"
  /\ frame' = [frame EXCEPT !.anyRunning = AnyRunning(status)]
  /\ UNCHANGED <<shared, store, mqtt, device, unattended>>

\* The acting half of ensure_remaining_timer_state, then busy_.store(false).
FinishTimer ==
  /\ pc = "timer" /\ pc' = "idle"
  /\ timerOn' = frame.anyRunning
  /\ busy' = FALSE
  /\ frame' = FrameFor(NoCommand)
  /\ UNCHANGED <<queue, urgent, status, stale, mqtt, device, unattended>>

-----------------------------------------------------------------------------
(***************************************************************************)
(* perform_start and perform_start_attempt                                 *)
(***************************************************************************)
\* Mutant: the attempt is not counted.
StartOpenUncounted ==
  /\ pc = "startOpen"
  /\ OpenOk("startClear") \/ OpenFail("startOpen")
  /\ UNCHANGED frame

StartOpen ==
  /\ pc = "startOpen" /\ frame.startTry < MaxAttempts
  /\ frame' = [frame EXCEPT !.startTry = @ + 1]
  /\ OpenOk("startClear") \/ OpenFail("startOpen")

StartGiveUp ==
  /\ pc = "startOpen" /\ frame.startTry = MaxAttempts
  /\ SetZoneError(frame.cmd.zone)
  /\ frame' = [frame EXCEPT !.ok = FALSE] /\ pc' = "finish"
  /\ UNCHANGED <<shared, timerOn, mqtt, device, unattended>>

\* clear_notifications before the first write.
StartClear ==
  /\ pc = "startClear" /\ pc' = "prepare"
  /\ inbox' = {}
  /\ UNCHANGED <<shared, store, mqtt, frame, link, valve, unattended>>

\* A start attempt whose write is not acknowledged returns false.
StartWrote(acked, next) ==
  /\ pc' = IF acked THEN next ELSE "startClose"
  /\ frame' = [frame EXCEPT !.ok = FALSE]
  /\ UNCHANGED <<shared, store, mqtt, link, inbox>>

\* The prepare packet of zone 2 is the stop packet: prepare closes the valve.
WritePrepare ==
  /\ pc = "prepare"
  /\ \E o \in WriteOutcomes("prepare") :
       /\ valve' = IF o.applied THEN NoZone ELSE valve
       /\ StartWrote(o.acked, "duration")
  /\ UNCHANGED unattended

WriteDuration ==
  /\ pc = "duration"
  /\ \E o \in WriteOutcomes("duration") : StartWrote(o.acked, "urgentCheck")
  /\ UNCHANGED <<valve, unattended>>

\* After the 500 ms delay, and at the top of the 8 second loop: an urgent stop
\* diverts the attempt into the stop sequence.
UrgentOr(here, next) ==
  /\ pc = here
  /\ IF urgent THEN pc' = "stopClear" /\ frame' = [frame EXCEPT !.stopFor = "abort"]
               ELSE pc' = next /\ UNCHANGED frame
  /\ UNCHANGED <<shared, store, mqtt, device, unattended>>

UrgentCheck == UrgentOr("urgentCheck", "arm")
ConfirmLoop == UrgentOr("confirm", "wait")

WriteArm ==
  /\ pc = "arm"
  /\ \E o \in WriteOutcomes("arm") :
       /\ valve' = IF o.applied THEN frame.cmd.zone ELSE valve
       /\ StartWrote(o.acked, "confirm")
  /\ unattended' = TRUE

\* Mutant: any notification confirms the start.
ConfirmOnAny ==
  /\ pc = "wait" /\ inbox # {}
  /\ inbox' = inbox \ {"countdown"}
  /\ frame' = [frame EXCEPT !.ok = TRUE] /\ pc' = "markIdle"
  /\ unattended' = FALSE
  /\ UNCHANGED <<shared, store, mqtt, link, valve>>

\* An FF8A countdown inside duration-3 .. duration confirms the start, whatever
\* the countdown is of.
ConfirmRunning ==
  /\ pc = "wait" /\ "countdown" \in inbox
  /\ inbox' = inbox \ {"countdown"}
  /\ frame' = [frame EXCEPT !.ok = TRUE] /\ pc' = "markIdle"
  /\ unattended' = FALSE
  /\ UNCHANGED <<shared, store, mqtt, link, valve>>

\* mark_running first writes Idle to every zone, the confirmed one too ...
MarkOthersIdle ==
  /\ pc = "markIdle" /\ pc' = "markRunning"
  /\ status' = AllIdle
  /\ UNCHANGED <<shared, stale, timerOn, mqtt, frame, device, unattended>>

\* ... and then Running to the confirmed one.
MarkRunning ==
  /\ pc = "markRunning" /\ pc' = "startClose"
  /\ status' = [status EXCEPT ![frame.cmd.zone] = "Running"]
  /\ stale' = [stale EXCEPT ![frame.cmd.zone] = FALSE]
  /\ UNCHANGED <<shared, timerOn, mqtt, frame, device, unattended>>

\* Any other notification, or none within 250 ms: back to the loop's top.
ConfirmOther ==
  /\ pc = "wait" /\ pc' = "confirm"
  /\ inbox' \in {inbox, inbox \ {"stopped"}}
  /\ UNCHANGED <<shared, store, mqtt, frame, link, valve, unattended>>

\* The deadline; an FF82 running flag without a countdown (not kept here) also
\* marks the zone.
ConfirmTimeout ==
  /\ pc \in {"confirm", "wait"} /\ pc' = "startClose"
  /\ SetZoneError(frame.cmd.zone) \/ UNCHANGED <<status, stale>>
  /\ frame' = [frame EXCEPT !.ok = FALSE]
  /\ UNCHANGED <<shared, timerOn, mqtt, device, unattended>>

\* Mutant: the next attempt without the cleanup.
StartCloseNoCleanup ==
  /\ pc = "startClose"
  /\ Close
  /\ pc' = IF frame.ok THEN "finish" ELSE "startOpen"
  /\ UNCHANGED <<shared, store, mqtt, frame, inbox, valve, unattended>>

\* close_session; a failed attempt then enters perform_stop, whose first
\* statement drops the urgent flag.
StartClose ==
  /\ pc = "startClose"
  /\ Close
  /\ IF frame.ok
       THEN pc' = "finish" /\ UNCHANGED <<urgent, frame, unattended>>
       ELSE /\ pc' = "stopOpen" /\ urgent' = FALSE /\ unattended' = FALSE
            /\ frame' = [frame EXCEPT !.stopFor = "cleanup"]
  /\ UNCHANGED <<queue, busy, store, mqtt, inbox, valve>>

-----------------------------------------------------------------------------
(***************************************************************************)
(* perform_stop and perform_stop_attempt.  perform_start calls the first   *)
(* after a failed attempt and the second when an urgent stop aborts it.    *)
(***************************************************************************)
StopOpen ==
  /\ pc = "stopOpen" /\ frame.stopTry < MaxAttempts
  /\ frame' = [frame EXCEPT !.stopTry = @ + 1]
  /\ OpenOk("stopClear") \/ OpenFail("stopOpen")

\* perform_stop returns: to the switch, or to perform_start's loop, which
\* ignores its result.
StopDone(success) ==
  IF frame.stopFor = "cmd"
    THEN pc' = "finish" /\ frame' = [frame EXCEPT !.ok = success, !.stopTry = 0]
    ELSE /\ pc' = "startOpen"
         /\ frame' = [frame EXCEPT !.ok = FALSE, !.stopTry = 0, !.stopFor = "none"]

StopGiveUp ==
  /\ pc = "stopOpen" /\ frame.stopTry = MaxAttempts
  /\ FailSafeReset(TRUE)
  /\ StopDone(FALSE)
  /\ UNCHANGED <<queue, busy, mqtt, device, unattended>>

\* Mutant: without clear_notifications.
StopNoClear ==
  /\ pc = "stopClear" /\ pc' = "stop1"
  /\ unattended' = FALSE
  /\ UNCHANGED <<shared, store, mqtt, frame, device>>

StopClear ==
  /\ pc = "stopClear" /\ pc' = "stop1"
  /\ inbox' = {} /\ unattended' = FALSE
  /\ UNCHANGED <<shared, store, mqtt, frame, link, valve>>

\* Mutant: any end of the sequence counts as a confirmed stop.
StopReturnTrusting(success) ==
  /\ pc' = IF frame.stopFor = "abort" THEN "startClose" ELSE "stopClose"
  /\ frame' = [frame EXCEPT !.ok = TRUE]

\* perform_stop_attempt returns.
StopReturn(success) ==
  /\ pc' = IF frame.stopFor = "abort" THEN "startClose" ELSE "stopClose"
  /\ frame' = [frame EXCEPT !.ok = success]

WriteStop ==
  /\ pc \in {"stop1", "stop2"}
  /\ \E o \in WriteOutcomes("stop") :
       /\ valve' = IF o.applied THEN NoZone ELSE valve
       /\ IF o.acked THEN /\ pc' = IF pc = "stop1" THEN "stop2" ELSE "stopWait"
                          /\ frame' = [frame EXCEPT !.ok = FALSE]
                     ELSE StopReturn(FALSE)
  /\ UNCHANGED <<shared, store, mqtt, link, inbox, unattended>>

\* FF82 with running_flag == 0 and payload ending in 80:00.
StopConfirmed ==
  /\ pc = "stopWait" /\ "stopped" \in inbox
  /\ inbox' = inbox \ {"stopped"}
  /\ StopReturn(TRUE)
  /\ UNCHANGED <<shared, store, mqtt, link, valve, unattended>>

StopIgnore ==
  /\ pc = "stopWait"
  /\ "countdown" \in inbox /\ inbox' = inbox \ {"countdown"}
  /\ UNCHANGED <<shared, store, mqtt, pc, frame, link, valve, unattended>>

StopTimeout ==
  /\ pc = "stopWait"
  /\ StopReturn(FALSE)
  /\ UNCHANGED <<shared, store, mqtt, device, unattended>>

\* close_session, then mark_idle_all or the next attempt.
StopClose ==
  /\ pc = "stopClose" /\ pc' = IF frame.ok THEN "stopMark" ELSE "stopOpen"
  /\ Close
  /\ UNCHANGED <<shared, store, mqtt, frame, inbox, valve, unattended>>

StopMark ==
  /\ pc = "stopMark"
  /\ MarkIdleAll /\ StopDone(TRUE)
  /\ UNCHANGED <<shared, timerOn, mqtt, device, unattended>>

-----------------------------------------------------------------------------
(***************************************************************************)
(* perform_apply_schedule (both targets; the bytes are another module's)   *)
(* and perform_refresh_battery.                                            *)
(***************************************************************************)
ApplyOpen ==
  /\ pc = "applyOpen"
  /\ OpenOk("apply") \/ OpenFail("finish")
  /\ UNCHANGED frame

\* The reads, writes and read-backs of one schedule; they match only on a link.
ApplyTransfer ==
  /\ pc = "apply"
  /\ \E match \in BOOLEAN :
       /\ match => link = "up"
       /\ frame' = [frame EXCEPT !.ok = match]
       /\ pc' = IF match THEN "applyRecord" ELSE "applyClose"
  /\ UNCHANGED <<shared, store, mqtt, device, unattended>>

\* The record after a match, whatever became of the link since the last read.
ApplyRecord ==
  /\ pc = "applyRecord" /\ pc' = "applyClose"
  /\ stale' = [stale EXCEPT ![frame.cmd.zone] = FALSE]
  /\ UNCHANGED <<shared, status, timerOn, mqtt, frame, device, unattended>>

ApplyClose ==
  /\ pc = "applyClose" /\ pc' = "finish"
  /\ Close
  /\ UNCHANGED <<shared, store, mqtt, frame, inbox, valve, unattended>>

RefreshOpen ==
  /\ pc = "refreshOpen"
  /\ OpenOk("refreshClose") \/ OpenFail("finish")
  /\ UNCHANGED frame

RefreshClose ==
  /\ pc = "refreshClose" /\ pc' = "finish"
  /\ Close /\ frame' = [frame EXCEPT !.ok = TRUE]
  /\ UNCHANGED <<shared, store, mqtt, inbox, valve, unattended>>

-----------------------------------------------------------------------------
(***************************************************************************)
(* Handlers of the higher-priority tasks.                                  *)
(***************************************************************************)

\* BLE_GAP_EVENT_DISCONNECT: for a link the peer or the radio dropped and for
\* one the bridge closed itself, on_transport_disconnect is the same.
Disconnected ==
  /\ FailSafeReset(TRUE)
  /\ link' = "down"
  /\ UNCHANGED <<queue, busy, mqtt, pc, frame, inbox, valve, unattended>>

LinkDrops == link = "up" /\ Disconnected
CloseCompletes == link = "closing" /\ Disconnected

\* wifi_event_handler, WIFI_EVENT_STA_DISCONNECTED.
WifiDrops ==
  /\ FailSafeReset(FALSE)
  /\ UNCHANGED <<queue, busy, mqtt, pc, frame, device, unattended>>

\* refresh_remaining_counts, once a second while the timer is active.  The
\* deadline was computed from a countdown the device sent earlier, so it is
\* not before the device's own.  (One counted by the Hunter's own schedule may
\* be accepted too, and then the deadline may be up to three seconds early;
\* those seconds are left out.)
RemainingTimer ==
  /\ timerOn
  /\ \E over \in SUBSET {z \in Zones : status[z] = "Running" /\ valve # z} :
       status' = [z \in Zones |-> IF z \in over THEN "Idle" ELSE status[z]]
  /\ timerOn' = AnyRunning(status')
  /\ UNCHANGED <<shared, stale, mqtt, pc, frame, device, unattended>>

(***************************************************************************)
(* The Hunter: it notifies what it does while the link is up (the queue of *)
(* 16 drops what does not fit, so nothing makes it arrive), and closes the *)
(* valve when the armed duration is over.  It counts down an arm or a run  *)
(* of its own schedules, which may be on at any time; it reports a stop    *)
(* only when no arm is open.  Outside the start and stop sessions nobody   *)
(* reads the queue and the next connect() empties it.                      *)
(***************************************************************************)
Listening == {"startClear", "prepare", "duration", "urgentCheck", "arm", "confirm",
              "wait", "stopClear", "stop1", "stop2", "stopWait"}

HunterNotifies ==
  /\ link = "up" /\ pc \in Listening
  /\ \E n \in Notifications :
       /\ n = "stopped" => valve = NoZone
       /\ inbox' = inbox \union {n}
  /\ UNCHANGED <<shared, store, mqtt, pc, frame, link, valve, unattended>>

HunterExpires ==
  /\ valve # NoZone /\ valve' = NoZone
  /\ UNCHANGED <<shared, store, mqtt, pc, frame, link, inbox, unattended>>

(***************************************************************************)
(* A power cut or the BOOT button: RAM is lost, the valve is not.  The     *)
(* records come back from NVS and mark_boot_stale overwrites what is here. *)
(***************************************************************************)
Reboot ==
  /\ queue' = <<>> /\ busy' = FALSE /\ urgent' = FALSE
  /\ status' = AllUnknown(FALSE) /\ stale' = AllStale
  /\ timerOn' = FALSE /\ mqtt' = AtRest
  /\ pc' = "idle" /\ frame' = FrameFor(NoCommand)
  /\ link' = "down" /\ inbox' = {} /\ unattended' = FALSE
  /\ UNCHANGED valve

-----------------------------------------------------------------------------
Requests == RequestCheck \/ RequestStopFlag \/ BatteryTimer
MqttTask == RequestEnqueue \/ RequestStopEnqueue

Worker ==
  \/ Receive \/ Dispatch \/ Finish \/ FinishTimer
  \/ StartOpen \/ StartGiveUp \/ StartClear \/ WritePrepare \/ WriteDuration
  \/ UrgentCheck \/ WriteArm \/ ConfirmLoop \/ ConfirmRunning \/ ConfirmOther
  \/ ConfirmTimeout \/ MarkOthersIdle \/ MarkRunning \/ StartClose
  \/ StopOpen \/ StopGiveUp \/ StopClear \/ WriteStop \/ StopConfirmed
  \/ StopIgnore \/ StopTimeout \/ StopClose \/ StopMark
  \/ ApplyOpen \/ ApplyTransfer \/ ApplyRecord \/ ApplyClose
  \/ RefreshOpen \/ RefreshClose

Events == LinkDrops \/ CloseCompletes \/ WifiDrops \/ RemainingTimer
Hunter == HunterNotifies \/ HunterExpires

Next == Requests \/ MqttTask \/ Worker \/ Events \/ Hunter \/ Reboot

Spec == Init /\ [][Next]_vars

-----------------------------------------------------------------------------
(***************************************************************************)
(* Safety.                                                                 *)
(***************************************************************************)
StopQueued == \E i \in 1..Len(queue) : queue[i].type = "Stop"

\* An urgent flag never outlives the Stop it announces: while it is up, the
\* Stop is being enqueued, is queued, or has been received and not begun.  A
\* flag left behind would abort every later start (lines 357 and 368).
UrgentMeansStopPending ==
  urgent => \/ StopQueued
            \/ mqtt.at = "flagged"
            \/ pc = "got" /\ frame.cmd.type = "Stop"

\* Every Stop overtakes what is queued and no more than two other commands
\* are: all entries but the last two are Stops, and Stops come first.
StopsUpFront ==
  /\ \A i \in 1..Len(queue) : i + 2 <= Len(queue) => queue[i].type = "Stop"
  /\ \A i, j \in 1..Len(queue) :
        i < j /\ queue[j].type = "Stop" => queue[i].type = "Stop"

\* An accepted start is never lost to a full queue, which would leave its zone
\* Starting for ever: from request_start's check on, there is room for it.
AcceptedFits == mqtt.at = "checked" => Len(queue) < QueueCap

\* A Stop that does not fit is not needed: a full queue holds one already.
FullQueueHoldsStop == Len(queue) = QueueCap => StopQueued

\* Nothing is lost that matters: Stops overtake, an accepted request finds room
\* later, and a Stop that finds none has another in front of it.
QueueServes == StopsUpFront /\ AcceptedFits /\ FullQueueHoldsStop

\* No arm is left unattended: when the worker rests, and when perform_start
\* works towards its next arm, every arm sent was confirmed by a countdown or
\* followed by a call of the stop sequence, on every path through the two
\* attempts, the cleanup and the urgent abort.  (Whether that sequence reaches
\* the Hunter is another matter: if both its connections fail the zones become
\* Error, and only the armed duration closes the valve.)
NoUnattendedArm ==
  pc \in {"idle", "got", "prepare", "duration", "urgentCheck", "arm"} => ~unattended

\* Between two commands a zone shown Idle is not watering on an arm of the
\* bridge: the claim survives lost responses, retries, failures, drops, reboots
\* and the countdown timer.  The bridge shows nothing of what the Hunter waters
\* on its own schedules, and this says nothing of it.
RestingIdleIsClosed ==
  pc = "idle" => \A z \in Zones : status[z] = "Idle" => valve # z

\* The countdown timer is on whenever the worker rests and a zone is Running,
\* whatever the handlers did to the timer in the meantime: otherwise the zone
\* would be shown Running for ever.
RestingRunningIsTimed ==
  pc = "idle" /\ (\E z \in Zones : status[z] = "Running") => timerOn

\* A failed start or stop claims nothing: when its command ends its zones are
\* neither Idle nor Running and are stale, whatever handlers came in between.
FailureClaimsNothing ==
  pc = "finish" /\ ~frame.ok =>
    \A z \in Zones : frame.cmd.type = "Stop" \/ (frame.cmd.type = "Start" /\ z = frame.cmd.zone) =>
                        status[z] \notin {"Idle", "Running"} /\ stale[z]

\* A stop sequence reports success only when no arm is open any more: what was
\* queued before it cannot confirm it (clear_notifications, line 422).
StopConfirmedMeansClosed ==
  [][pc = "stopWait" /\ frame'.ok /\ ~frame.ok => valve = NoZone]_vars

\* The report the worker has taken from the queue and acts on.
Heard ==
  CASE pc \in {"markIdle", "markRunning"} -> {"countdown"}
    [] pc \in {"stopClose", "stopMark"} /\ frame.ok -> {"stopped"}
    [] OTHER -> {}

\* A zone is shown Running only on a countdown, and Idle only on a countdown, a
\* stop or the end of a run, that the Hunter reported since the notification
\* queue was emptied and that nothing else was concluded from; every other
\* handler, failure and restart only takes claims back (ZoneClaims).
Claims == INSTANCE ZoneClaims WITH claim <- status, told <- inbox, heard <- Heard

ClaimsFollow == Claims!Spec

-----------------------------------------------------------------------------
(***************************************************************************)
(* What the documents say and the code does not do (checked to fail).      *)
(***************************************************************************)

\* "Stop requests are always treated as high priority."  A start that passes
\* the urgent check has no Stop waiting.
NoArmPastQueuedStop ==
  [][pc = "urgentCheck" /\ pc' = "arm" => ~StopQueued]_vars

\* "Stop must always be treated as high priority."  A Stop that is carried out
\* leaves no start behind it that was accepted before it and waters after it.
NoStartBehindStop ==
  [][Receive /\ Head(queue).type = "Stop" =>
       \A i \in 1..Len(queue') : queue'[i].type # "Start"]_vars

\* Only an "unexpected disconnect" clears runtime certainty: the end of the
\* bridge's own session leaves a confirmed zone as it is.
OwnCloseKeepsConfirmed ==
  [][CloseCompletes =>
       \A z \in Zones : status[z] \in {"Running", "Idle"} => status'[z] = status[z]]_vars

-----------------------------------------------------------------------------
(***************************************************************************)
(* Liveness.  Every wait of the worker has a finite timeout and every      *)
(* retry loop a bound, so the worker and the mqtt_bridge task always take  *)
(* their next step; the two validation loops end at their deadline.        *)
(***************************************************************************)
Fairness ==
  /\ WF_vars(Worker) /\ WF_vars(MqttTask)
  /\ WF_vars(ConfirmTimeout \/ StopTimeout)

FairSpec == Spec /\ Fairness

\* A queued Stop is received by the worker, or a restart has emptied the queue:
\* the command in front of it ends within its bounded attempts, and no start
\* goes on from cleanup to cleanup with the Stop waiting.
StopIsTakenUp ==
  StopQueued ~> (pc = "got" /\ frame.cmd.type = "Stop") \/ queue = <<>>

\* No command occupies the worker for ever, and none is forgotten: busy always
\* ends, and a zone marked Starting becomes something else when its start ends.
CommandsEnd ==
  /\ busy ~> ~busy
  /\ \A z \in Zones : status[z] = "Starting" ~> status[z] # "Starting"
=============================================================================
