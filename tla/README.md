# Hunter BTT201 bridge: specifications and proofs

TLA+ specifications of the ESP32-C6 firmware in `src/src` and `src/include`, checked with TLC and
proved about with TLAPS. The bridge takes commands from Home Assistant over MQTT and carries them
out on a Hunter BTT201 valve over BLE. What can go wrong is a valve that waters unseen, a Stop that
is overtaken, a state shown that the device does not have, and a schedule recorded that was never
confirmed.

`PROJECT.json` lists the components, the runs, for every checked property the mutation of the code
that breaks it, the source lines of every definition, the disagreements between code and documents,
the hazards and the theorems.

## 1. The system

| Component | State | Operations | Hard behaviour |
| --- | --- | --- | --- |
| CommandCoordinator (`command_coordinator.cpp`) | command queue of 8, `busy_`, `urgent_stop_requested_`, countdown timer | `request_*`, draft updates, the worker's start, stop, apply and refresh, `fail_safe_reset` | requests checked in one task and enqueued later; a Stop that overtakes and interrupts; nested retries; handlers that reset what the worker is writing |
| StateStore (`state_store.cpp`) | zone records in RAM and NVS | set, clear and mark functions, `save`, `mark_boot_stale` | shared by four tasks without a lock; restarts in the middle of anything |
| BleTransport (`ble_transport.cpp`) | connection, handles, one semaphore for connecting and one for GATT, notification queue | `scan_for_target`, `connect`, `discover_handles`, `read_handle`, `write_handle`, `gap_event` | answers after the timeout, links that come up after the wait for them, drops anywhere |
| HunterProtocol (`hunter_protocol.cpp`) | none | validators, packet builders, parsers | limits, OFF, one hour exactly, bytes of a notification that may be short |
| MqttBridge (`mqtt_bridge.cpp`) | work queue of 16, `connected_`, `started_`, `last_ui_error_`, the retained topics in the broker | one handler per work item, `publish_*`, `handle_zone_command` | Wi-Fi and MQTT come and go separately; every item may be dropped |
| MqttBridge: discovery and dispatch (same file) | none | `publish_discovery`, `publish_state`, `process_command`, `handle_zone_command` | a topic and a limit are spelt in three places |
| main (`main.cpp`) | | boot, Wi-Fi handler, battery timer, display task | Wi-Fi starts before the MQTT bridge exists |
| StatusDisplay (`status_display.cpp`) | panel awake, wake deadline, forced frame, BOOT and PWR keys, cached board power, the render stage in RTC memory | `init`, one pass of `render` with wake, sleep, restart | transfers that fail or are reported as failed though done; presses between a read and its write-back; crashes in the middle of a frame |

How they interact. The Wi-Fi handler (event task, priority 20), the NimBLE host (21) and esp_timer
(22) call into the coordinator from handlers that do not wait for it. The `mqtt_bridge` task and the
`bridge_worker` task both have priority 5 and are time-sliced on the only core. The coordinator
tells MqttBridge of changes by `on_state_changed`, which puts an item into its work queue; MqttBridge
calls `request_*` and `update_*` from its own task. The worker calls BleTransport and waits on
semaphores the host task gives. MqttBridge and the display read the records without a lock.

What makes each part correct:

* Coordinator: Stops overtake everything and are never left out; an arm is always confirmed or
  followed by a stop sequence; a zone shown Idle at rest is not watering on an arm of the bridge,
  and one shown Running has its countdown; a failure claims nothing; every command ends. Together: a
  zone is shown Running only on a countdown, and Idle only on a countdown, a stop or the end of a
  run, that the Hunter has reported since the notification queue was last emptied (`ZoneClaims`).
* Schedules: each part of a record, in RAM and in flash, is what the device was read back to hold,
  or is half copied; what is shown as applied and fresh stands; an apply leaves the other schedule
  alone.
* Transport: bytes that are used are those of one's own read, the arm packet waits for the answer of
  the prepare packet, handles belong to the connection, a link nobody waits for is closed.
* Protocol and drafts: no stored draft exceeds the limits; packets, blocks, times and days decode to
  what they were made of; packets and configurations are the captured ones.
* Entities: each finds its topics and its handler, and what it lets a user enter can be built.
* MqttBridge: once things settle, Home Assistant sees the bridge online and subscribed, and its
  state current unless a task is still to notify of what it wrote.
* Display: asleep it is dark, awake it shows a frame no older than the render period when a pass
  began, no press is lost, BOOT restarts only when pressed, and the stage kept over a reset tells
  whether the renderer crashed.

## 2. Modules

| Module | Models | With |
| --- | --- | --- |
| `CommandCoordinator` | the queue, the two flags, the worker's four sequences, all handlers, the countdown timer, reboots, the valve | `MCCommandCoordinator` (zone symmetry), `CommandCoordinatorProofs` |
| `ZoneClaims` | abstract: what the bridge promises about the states it shows | `CoordinatorClaimsProofs` (the coordinator implements it) |
| `ScheduleApply` | drafts and apply of a zone: flash, RAM, device | `ConfirmedSchedule` (abstract), `ScheduleApplyProofs` |
| `BleSession` | connect with two attempts, discovery, read and write on a shared semaphore, resets of the host | |
| `BleScan` | which device `connect()` picks | |
| `BleTransport` | both: a behaviour shows the steps of sessions or the steps of scans | `MCBleLink` (five advertisers), `BleTransportProofs` |
| `HunterProtocol` | validators, packets, blocks, notifications, times, days | `HunterProtocolCheck` (one input after another) |
| `ScheduleDrafts` | the draft messages of `handle_zone_command`, with parsing and validation | `MCScheduleDrafts` (texts and numbers at the edges) |
| `HomeAssistantUi` | the announced entities, the published topics, the way of a topic to its handler | |
| `UiToBytes` | the last three: a behaviour shows a client's messages, a user's gestures, or inputs of the operators | `MCUiToBytes` (values), `UiToBytesProofs` |
| `MqttBridge` | the work queue, its handlers, the flags, the client and the broker | `MqttBridgeProofs` |
| `StatusDisplay` | init, the display task, panel, keys, board power, crashes | `StatusDisplayProofs` |

**CommandCoordinator.** `pc` is the worker's place; one action runs from a blocking call to the
  next, except where a statement between them can be told apart by another task (the read of the
  urgent flag before the arm, the receive before `busy_`, the read of the records before the timer
  is switched, the Idle that `mark_running` first writes to every zone, the record of an apply,
  which follows the last read whatever has become of the link). A loop over the zones is one step: a
  handler in the middle of it only leaves fewer of them Idle. `frame` holds the locals: the command,
  both attempt counters, what a stop sequence is for (the command itself, the cleanup of a failed
  start, or an abort), its result. `mqtt` is the window between check and enqueue of a request.
  `FailSafeReset` is `fail_safe_reset` with everything it calls, and is a part of the Wi-Fi handler,
  the disconnect event and the failed open. `valve` is the zone that waters on an arm of the bridge.
  What the Hunter waters on the schedules the bridge has written to it needs no variable: the bridge
  only hears of it, as a countdown that may be notified at any time (`HunterNotifies`), and such a
  countdown may confirm a start whose arm was ignored. `unattended` remembers an arm that may have
  been applied and was neither confirmed nor followed by a stop sequence. `ClaimsFollow` is the
  refinement: the records are `claim`, what the Hunter has notified since the queue was emptied is
  `told`, and what the worker has taken out of it for the command in hand is `heard`.

**ScheduleApply.** `draft`, `record` and `saved` are the zone's drafts, its last-confirmed record
  and the copy in NVS; `device` is what the Hunter holds; `work` the locals of
  `perform_apply_schedule`. Draft updates fall between any two reads of the draft. After the last
  read-back the record is written statement by statement, as in the code: the mode, the lengths, the
  bytes of the configuration, those of the block, the stale mark, the status (`RecordMode`,
  `SetLengths`, `CopyConfig` and `EndConfig`, `CopyBlock` and `EndBlock`, `ClearStale`,
  `SetApplied`). A draft update or a fail-safe may save between any two of them and a disconnect may
  be handled there; a part of which only some bytes or only the length is written is `Torn`.
  `RecordIsConfirmed` says that it implements `ConfirmedSchedule`: an abstract record that takes
  over the device's configuration and then the block that was confirmed with it, part by part and
  torn in between; what is saved is the record of some moment, and a restart brings back what was
  saved.

**BleSession.** A session is a list of operations: discovery, battery, and those of its purpose (a
refresh, an apply, a start that runs to its end, is aborted by a Stop or is retracted after a failure,
a stop). An operation clears what it expects, empties the semaphore, calls the host, waits and checks;
each of these is a step, since the host's task has the higher priority and may give the semaphore
between any two. The host's answers (`procs`) may come when the waiter has gone. `last` records whether
the answer that ended an operation was its own and whether the semaphore was emptied with nothing
outstanding.

**BleScan and BleTransport.** An advertisement is its device's score; `heard` remembers the devices of
the scan. The sessions of BleSession scan in one step with any outcome and BleScan scans in steps: a
scan begins by clearing what it keeps and a session looks at nothing but its outcome, so
`BleTransport` lets a behaviour show one of the two.

**ScheduleDrafts and HunterProtocol.** Texts are token sequences (`<<"OFF">>`, hours-minutes-seconds,
day names), numbers what `strtoul` returns: a number below 0 stands for one near 2^32. `Offer` is
`update_timer_draft` or `update_cycling_draft`. `Block` is a builder with its validation: a draft it
refuses has `NoBlock`. The two captured blocks come from drafts that are refused (3930 s, a window of
79 minutes), so their bytes are compared with the layout alone.

**HomeAssistantUi.** An entity is a record of kind, name, state topic, attribute topic and command
topic; a topic is the tuple of its levels. `ProcessCommand` and `HandleZoneCommand` compare levels as
the code compares strings, and a topic nothing compares equal to does nothing. `gesture` is what the
user did, `asked` the request that came of it. `UiIsServed` compares the two for every entity and
looks for its topics among those `publish_state` fills.

**MqttBridge.** `todo` is what the task has still to publish of the item in hand, so other tasks act
between two publications. Of what is published only "current" or "old" is kept. `kept` are messages
the client holds while it has no session; `lost` remembers events whose last item was dropped; `owed`
are the tasks (the coordinator's, the Wi-Fi handler) that may have written records and are still to
notify of it. A command writes the records long before its notification, and an accepted apply or
refresh clears the published error text and tells nobody before the command ends.

**StatusDisplay.** Time runs in ticks of the render period; deadlines and ages are ticks left or past,
counted from the `now_ms` and the snapshot a pass is called with. What a pass itself takes is ticks
that follow it, and comes on top of the age of what is shown.
A pass of the task is cut wherever the bridge may crash or a key may be pressed to effect: between the
read of the interrupt register and its write-back, and between the parts of a frame. Any I2C or panel
transfer may fail, and one that is reported as failed may have been carried out.

## 3. Runs

| Run | Instance | Shows |
| --- | --- | --- |
| coordinator_safety | two zones, queue of 3, all request types, arm and stop may be acknowledged and ignored, the Hunter waters on its own schedules | the safety properties of section 1 and the refinement of `ZoneClaims` on every interleaving |
| coordinator_liveness | one zone, starts and stops | a queued Stop is received by the worker (or a restart empties the queue), busy and Starting end |
| coordinator_urgent_lost | as safety | **violated**: a fail-safe or a cleanup clears the urgent flag, and a start arms with a Stop queued |
| coordinator_own_close | as safety | **violated**: the end of the bridge's own session turns a confirmed zone into Error |
| coordinator_stop_overtaken | as safety | **violated**: a Stop overtakes a queued start and leaves it in the queue: the start waters after it |
| schedule_apply | two day masks, two blocks, 2 edits, 2 commands | each part of the record is confirmed or torn (`ConfirmedSchedule`), fresh and applied stands, the rest is kept |
| schedule_active_mode | same | **violated**: a draft edited during the apply sets a mode that was never confirmed |
| ble_link | sessions of all six kinds, a callback between any two statements of a primitive; five advertisers | reads and handles are one's own, so is the answer of an operation before which the semaphore was emptied with nothing outstanding, arm follows prepare, leftovers are closed, sessions end; the picked device is the best heard, no candidate is missed |
| ui_to_bytes | both schedules and zones, texts, numbers and day lists at the edges, every entity; all 128 day masks, notifications of 0 to 20 bytes, ten captures | limits, blocks, no window is ever entered; every entity is served and what it lets enter can be built; round trips, notifications, captured packets and layouts, the drafts of the captured blocks are refused. What is said of windows holds because none is entered |
| drafts_window | as above, messages only | **violated**: a user who insists does not get a cycling window |
| mqtt_settles | work queue of 2, all four kinds of message | flags and subscriptions settle, and what is published unless a task still owes a notification; all of it recovers once disturbances end |
| display | wake and board power of 2 ticks | asleep is dark, shown is fresh, presses are kept, the stage tells a crash, BOOT restarts when pressed, every wake ends |

Bounds, and why they are enough:

* `QueueCap = 3` for the coordinator's 8: `StopsUpFront` (proved for every capacity from 3) says that
  all but two entries are Stops, so a longer queue holds more Stops and nothing else.
* Two zones as in the code for safety (with symmetry); one for liveness, where symmetry is unsound
  and the progress of a command does not depend on the other zone.
* `MaxEdits = 2`, `MaxJobs = 2` in ScheduleApply: an apply, an edit before and in the middle of it, and
  a second command (an apply of the other schedule or a manual start) over what the first left. One
  zone, because the zones share neither record nor characteristic.
* Work queue of 2 for 16 in MqttBridge: it overflows, it holds two events in either order, and a
  handler that enqueues twice (the Wi-Fi loss) fits once. Longer queues only delay.
* `WakeTicks = PowerTicks = 2` in StatusDisplay: with a render period of 1 a deadline that has passed,
  one that is due and one that is not are all there; the theorems hold for every value.
* Five advertisers in the scan: the Hunter, a device with the full score, one of either partial score
  and a stranger, in every order.
* `MCUiTimes`, `MCUiDays`, `MCUiSeconds`: what an entity refuses, what it lets pass and the parser
  refuses (24:00:00), and what both accept.
* `MCTimeTexts`, `MCSeconds` hold the values where a comparison or an encoding changes: OFF, midnight,
  the last second, 24:00, the limit and one above, a day, and -1.

Deadlock is checked in every run. `TypeOK` is a run's invariant for the coordinator only: TLAPS proves
the types of the other modules for every value of the constants.

Fairness. The worker and the `mqtt_bridge` task: every wait has a finite timeout, every retry loop two
attempts, and equal-priority tasks are sliced, so weak fairness of each task as a whole is what the
scheduler gives. The wait loops of a start and a stop end at a deadline however many notifications
come, so their timeouts are weakly fair too. BleSession: a connection attempt ends, and a terminate
completes, as NimBLE's supervision timeouts make them. MqttBridge: its tasks as a whole (a queued
item, the rest of boot, a notification that is owed), and the client, which reconnects every 5 s and
notices a dead link by keepalive; `Recovers` assumes that disturbances end, not when. StatusDisplay:
the task runs, time passes however often the bridge crashes, and a panel command that is tried again
and again succeeds once. Nothing is assumed about arrivals, drops, presses or restarts.

## 4. Proofs

For every value of the constants, under the assumptions the modules name (`QueueCap >= 3`, `NoZone` is
no zone, and the like).

`CommandCoordinatorProofs`: `TypeOK` is inductive. `QueueInv` adds to `StopsUpFront` that a request
that passed its check meets at most one queued command, which is why it finds room (`QueueSafe`, with
`AcceptedFits` and `FullQueueHoldsStop`). `UrgentMeansStopPending` is inductive with it: an urgent
flag is only raised by a stop request that then enqueues (`UrgentSafe`). `ControlInv` says where the
worker can be while an arm is unattended (`ArmInv`), what a stop confirmation in the inbox is worth
and which zone can be open between prepare and the end of `mark_running` (`SequenceInv`), and where an
arm of the bridge may contradict an Idle zone (`IdleInv`). `RestingIdleIsClosed` is
not inductive without the last two: that nothing contradicts at rest depends on the stop sequence
having seen its own confirmation. From it follow `ArmSafe`, `IdleSafe` and `StopSafe`.

`CoordinatorClaimsProofs`: with `WhichInv` (what command each place of the worker serves), `MarkInv`
(the zones are marked Idle only after a confirmed stop) and `TimedInv` (a Running zone has its
countdown, except in the window the worker closes itself) every step of the coordinator is a step of
`ZoneClaims` or a stutter (`KeepsPromise`), a failure leaves its zones uncertain (`FailureSafe`) and
a resting Running zone is counted down (`TimerSafe`). `NeverTwoRunning` rests on `RunningInv`: while
the worker marks zones Idle one step before it marks one Running, no handler makes a zone Running in
between. `CommandsBounded` is the safety half of `CommandsEnd`: `StepsLeft`, made of the attempts
both retry loops have left and of the place within one, never exceeds 58, is zero exactly when the
worker rests, falls with every step of the worker on a command except a poll of a validation loop,
and is never raised by another task. What it does not say, and TLC checks, is that the steps are
taken and the polls end.

`ScheduleApplyProofs`: `LocalsInv` says what the locals are worth: what was read is still the
device's, since only the worker writes it (`ReadInv`), what is to be written differs in mode and
days only (`WriteInv`, `BlockInv`), what was read back is the device's (`BackInv`), and while the
record is written the parts that are done are the device's (`RecordingInv`, `CopiedInv`).
`KeepsTheRest` and the refinement `RecordIsConfirmed` follow; every step maps to a step of
`ConfirmedSchedule` or to a stutter. `FreshAppliedStands` does not rest on the link, which may be
gone before the mark is cleared: an apply that writes under an old "applied" ends with a status of
its own or with a restart, which marks the zone stale, and `ModeInv` (what is written selects the
schedule that is applied, or none) makes its block the one the device uses.

`UiToBytesProofs`: the stored draft is one its validator accepted, for every set of texts and
numbers, and whether a client or a user sends them (`DraftIsValid`; both only send the messages of
`AnyMessage`). So it is within the limits (`Bounded`), its block decodes to it (`BlockDecodes`, from
lemmas about div and mod in `EncodeHms` and about the bytes of `Block`), no sequence of messages
enters a cycling window (`WindowsStayOff`), and what cannot be built has a `soak_seconds` that is no
second of a day (`OnlySoakHolds`). `UiIsServed` goes along the way of a gesture: `MineForms` lists
what an entity of the zone can be, `ZoneMessage`, `PressAsks`, `DurationSets` and `SettingSets` say
where its topic ends up, `Served` is the outcome, and `EnteredShows` that the draft then shows what
was entered, for which days and times must survive a round trip (`DaysRoundTrip`, `TimeRoundTrip`).
`EnteredBuilds` needs `SoakInv`: a draft that only Home Assistant set has a small `soak_seconds`.
`MatchesCaptures` compares packets and configurations with the captured bytes and, since the builders
refuse the drafts of the two captured blocks, only the layout of a block with theirs.
`RoundTrips`, `NotificationsDecode` and `MatchesCaptures` follow from lemmas on the operators, for
every time of the day, every duration and every byte (`TimesAssumption` and the two after it say no
more than that).

`BleTransportProofs`: `LineInv` is the heart: the line of unanswered procedures never spans more
than two neighbouring operations, because a GATT failure in discovery ends the connection and one
later ends the session, the battery read excepted. `AnswerInv` says what a given semaphore and a
payload are worth to the operation that waits, and to one that has emptied the semaphore and not yet
called; `LinkInv` that handles and procedures end with their link. The proof first lists what stands
where in a script (`Scripts`, `Roles`). For the scan, `KeptIsBest` is what the handler keeps before
a target is found and `PickIsBest` what a found target is. `SessionsBounded` is the safety half of
`SessionsEnd`: `SessionLeft` starts at no more than 141, falls with every step of the worker within
a session and is changed by no callback of the host.

`MqttBridgeProofs`: what is not yet as it should be at the broker is on the task's list, queued or
owed (`BrokerInv`: subscription, availability, bridge and zones), and of every pair of opposite
events the last one is queued behind the other (`ConnInv`, `StartInv`, `OfflineInv`); with the queue
empty that leaves `FlagsSettle` and `PublishedSettles`, for every capacity.

`StatusDisplayProofs`: `FrameInv`, `StageInv` and `BootKeyInv` relate the forced frame, the stage and
the armed BOOT key to the place in the pass; all five safety properties follow for every period.

Only model-checked: all liveness (`StopIsTakenUp`, `CommandsEnd`, `LeftoverLinkIsReleased`,
`SessionsEnd`, `Recovers`, `AwakeEnds`), since fairness and ENABLED are out of the prover's reach.

## 5. What the checks found

Five disagreements are checked (`PROJECT.json`, findings). Seen while modelling and not run:

* A start that an urgent stop aborts returns the stop's result as its own, status `start_confirmed`
  (`command_coordinator.cpp:358`).
* `fail_safe_reset` keeps the command queue, against `CMD.md:68` and `ARCHITECTURE.md:93`: a start that
  was queued is carried out afterwards, watched and shown like any other.
* A countdown of the Hunter's own schedule that falls inside the window of a start confirms it although
  its arm was ignored (`command_coordinator.cpp:381`).
* `perform_apply_schedule` clears the stale mark after its last read without looking at the link
  (`command_coordinator.cpp:493`): a disconnect handled in between is forgotten, against
  `ARCHITECTURE.md:94`.
* A draft update or a fail-safe that saves while the record of an apply is written puts a length
  without its bytes, half of a copy, or a new configuration with the block of an older one into flash
  (`command_coordinator.cpp:142`, `156`, `165`, `488`), and a restart restores it.
* An accepted apply or refresh clears the error text without publishing it
  (`mqtt_bridge.cpp:772`): Home Assistant sees the old one until the command's end.
* An answer that comes between the emptying of the semaphore and the call (`ble_transport.cpp:377`,
  `379`) ends the operation that is called next.
* Two commands other than Stop can be pending, against `TEST_PLAN.md:26`.
* The last notification of a command precedes the end of `busy_`
  (`command_coordinator.cpp:244`), so the health that is published may stay busy.
* An MQTT reconnect does not clear runtime certainty, against `ARCHITECTURE.md:94`.
* A Stop or a state change that meets a full work queue is dropped (`mqtt_bridge.cpp:355`).
* A GATT operation may be issued while the answer of a timed-out one is outstanding, against the
  one-operation-at-a-time of `ARCHITECTURE.md:20` (the battery read that failed does not end its
  session), and is then ended by that answer.
* A fallback device with a full score ends the scan before the configured Hunter was heard, against
  `ARCHITECTURE.md:16`.
* `battery_updated_epoch_ms` is milliseconds since boot (`command_coordinator.cpp:291`) but is saved and
  shown as an age after a restart.
* `soak_seconds` is not validated: above a day the apply fails, 2^32-1 means OFF.
* A cycling draft is published with 0 for `run_seconds` while its entity announces a minimum of 1.
* The entities' pattern lets hours 24 to 29 pass, which the parser rejects with an error.
* The captured timer block (3930 s) and cycling window (79 min) in `src/test/fixtures` exceed the
  validators' 3600 s, and the Python script there checks encoders of its own.

## 6. Assumptions and what is left out

Of the Hunter and the libraries, which are not in the repository:

* an acknowledged prepare or duration packet is applied; an arm or stop may be acknowledged and
  ignored; prepare closes the valve (the stop packet is the prepare packet of zone 2);
* notifications come in order while the link is up and may be lost when the queue of 16 is full;
* the Hunter's own schedules may water at any time, and the bridge shows nothing of it; a stop is
  notified only while no arm of the bridge is open;
* the bridge's countdown does not end before the device's (left out: when a countdown of its own
  schedule confirmed the start, it may be up to 3 s early);
* the Hunter advertises only while unconnected; one BLE connection (`sdkconfig`);
* the MQTT client sends kept messages before newer ones (`Recovers` rests on it), sessions are clean,
  the last will precedes the next session.

CommandCoordinator takes every answer of the link for the operation's own; BleSession shows where
that does not hold. `NoUnattendedArm` is about the stop sequence being entered: when both of its
connections fail no packet leaves and only the armed duration closes the valve. `FlagsSettle`
excepts the flag of an event that was itself dropped, so it does not cover those drops.
`ShownIsFresh` counts from the start of the pass: how long a pass may take (250 ms for each I2C
transfer that times out) is not bounded. Left out: the texts of errors and statuses, the health's
busy flag, remaining seconds and the duration's value, the running flag of FF82 (a nondeterministic
zone error), the image of NVS, names, units and icons of the discovery, a boot with a refused MQTT
URI, torn reads of texts and of records, the pixels of a frame.

Not modelled: the Home Assistant package and dashboard (how Home Assistant runs waits, restarts and
`script.turn_off` is not in the repository; the entities they act on are in `HomeAssistantUi`), build
and configuration files, the vendored panel driver.

## 7. What is left

1. Composition of CommandCoordinator and MqttBridge over the sink: what Home Assistant is shown of a
   zone against the valve, with a Stop dropped by a full work queue.
2. The read-back of an apply over BleSession's shifted answers, with the bytes.
