---------------------------- MODULE ScheduleApply ----------------------------
(***************************************************************************)
(* Drafts and apply of one zone's two schedules: the draft updates of the  *)
(* mqtt_bridge task, perform_apply_schedule in the worker, the record and  *)
(* its copy in flash, and the zone's characteristics in the Hunter.  A     *)
(* manual start uses the same configuration characteristic (FF86, FF8B).   *)
(*                                                                         *)
(* The zones share no characteristic and no record, so one is modelled.    *)
(* The mqtt_bridge task and the worker have the same priority and are      *)
(* sliced: an update can fall between any two statements that read the     *)
(* draft, and a handler between any two that write the record.             *)
(***************************************************************************)
EXTENDS Naturals

CONSTANTS Days,      \* day masks
          NoDays,    \* mask 0x00
          AllDays,   \* mask 0x7F
          Blocks,    \* schedule blocks: start times, windows, run seconds
          EmptyBlock \* a block without start time or window

ASSUME DaysAssumption == {NoDays, AllDays} \subseteq Days
ASSUME BlocksAssumption == EmptyBlock \in Blocks

CONSTANT NoBlock,    \* seconds that pass validation and cannot be encoded
         NoConfig,   \* bytes whose length is not 17
         Torn        \* recorded bytes of which not all are copied

CONSTANTS MaxEdits,  \* bound: draft updates
          MaxJobs    \* bound: commands the worker takes

ASSUME NoBlockAssumption == NoBlock \notin Blocks
ASSUME TornAssumption == Torn \notin Blocks \union {NoBlock}
ASSUME BoundsAssumption == MaxEdits \in Nat /\ MaxJobs \in Nat

Targets == {"Timer", "Cycling"}

\* TimerScheduleDraft and CyclingScheduleDraft.  Only soak_seconds escapes the
\* validation, so only a cycling draft can hold what its block cannot encode.
Drafts(t) ==
  [enabled : BOOLEAN, days : Days, block : Blocks \union IF t = "Cycling" THEN {NoBlock} ELSE {}]

\* The configuration characteristic: byte 0, byte 2, byte 7 and the others.
Config == [mode : {"Disabled", "Timer", "Cycling", "Manual"},
           timerDays : Days, cyclingDays : Days, rest : {"stored", "duration"}]

ASSUME NoConfigAssumption == NoConfig \notin Config /\ Torn \notin Config \union {NoConfig}

Statuses == {"not_applied", "session_open_failed", "config_read_failed",
             "validation_failed", "readback_mismatch", "applied"}

PCs == {"idle", "open", "readConfig", "buildBlock", "buildConfig", "writeConfig",
        "writeBlock", "backConfig", "backBlock", "mismatch", "recordMode", "setLengths",
        "copyConfig", "endConfig", "copyBlock", "endBlock", "clearStale", "setApplied",
        "manual", "manualWait", "close", "finish"}

VARIABLES
  draft,    \* zone_state.timer and .cycling; every update of them is saved
  record,   \* active_schedule_mode, the last_* bytes, last_apply_status
  stale,    \* confirmed_state_stale, shared with the runtime state
  saved,    \* the record in flash
  device,   \* external: the zone's characteristics in the Hunter
  link,     \* "up", "closing" or "down"
  pc,       \* where the worker is
  work,     \* its locals
  manual,   \* history: a manual start wrote the configuration, or a manual
            \* session ended confirmed, since the last accepted apply
  edits,    \* bounding counters
  jobs

vars == <<draft, record, stale, saved, device, link, pc, work, manual, edits, jobs>>
bounds == <<edits, jobs>>

Record == [mode : {"Disabled", "Timer", "Cycling"}, config : Config \union {NoConfig, Torn},
           block : [Targets -> Blocks \union {NoBlock, Torn}], status : Statuses]

Work == [target : Targets, current : Config \union {NoConfig}, config : Config \union {NoConfig},
         block : Blocks \union {NoBlock}, back : Config \union {NoConfig}]

NoWork == [target |-> "Timer", current |-> NoConfig, config |-> NoConfig,
           block |-> NoBlock, back |-> NoConfig]

TypeOK ==
  /\ draft \in [Targets -> Drafts("Cycling")] /\ draft["Timer"] \in Drafts("Timer")
  /\ record \in Record /\ saved \in Record /\ stale \in BOOLEAN
  /\ device \in [config : Config, block : [Targets -> Blocks]]
  /\ link \in {"up", "closing", "down"} /\ pc \in PCs /\ work \in Work
  /\ manual \in BOOLEAN /\ edits \in 0..MaxEdits /\ jobs \in 0..MaxJobs

NewDraft == [enabled |-> FALSE, days |-> NoDays, block |-> EmptyBlock]
NewRecord == [mode |-> "Disabled", config |-> NoConfig, block |-> [t \in Targets |-> NoBlock],
              status |-> "not_applied"]

Init ==
  /\ draft = [t \in Targets |-> NewDraft]
  /\ record = NewRecord /\ saved = NewRecord /\ stale = TRUE
  /\ device = [config |-> [mode |-> "Disabled", timerDays |-> NoDays, cyclingDays |-> NoDays,
                           rest |-> "stored"],
               block |-> [t \in Targets |-> EmptyBlock]]
  /\ link = "down" /\ pc = "idle" /\ work = NoWork /\ manual = FALSE
  /\ edits = 0 /\ jobs = 0

-----------------------------------------------------------------------------
(***************************************************************************)
(* The protocol layer's operators on these data.                           *)
(***************************************************************************)
\* validate_timer_draft, validate_cycling_draft
Valid(d) == d.enabled => d.block # EmptyBlock

ValidDrafts(t) == {d \in Drafts(t) : Valid(d)}

ModeOf(t, d) == IF d.enabled THEN t ELSE "Disabled"

\* Mutant: a fresh configuration instead of the current one.
MutateAfresh(t, current, d) ==
  [mode |-> ModeOf(t, d), timerDays |-> d.days, cyclingDays |-> d.days, rest |-> current.rest]

\* mutate_timer_config, mutate_cycling_config: mode and days, nothing else.
Mutate(t, current, d) ==
  IF t = "Timer" THEN [current EXCEPT !.mode = ModeOf(t, d), !.timerDays = d.days]
                 ELSE [current EXCEPT !.mode = ModeOf(t, d), !.cyclingDays = d.days]

\* build_duration_packet
DurationPacket == [mode |-> "Manual", timerDays |-> AllDays, cyclingDays |-> NoDays,
                   rest |-> "duration"]

(***************************************************************************)
(* update_timer_draft and update_cycling_draft: any valid draft, and       *)
(* save() of the whole state.  (MqttBridge changes one field at a time;    *)
(* which drafts that reaches is the subject of ScheduleDrafts.)            *)
(***************************************************************************)
UpdateDraft(t) ==
  /\ edits < MaxEdits /\ edits' = edits + 1
  /\ \E d \in ValidDrafts(t) : draft' = [draft EXCEPT ![t] = d]
  /\ saved' = record
  /\ UNCHANGED <<record, stale, device, link, pc, work, manual, jobs>>

-----------------------------------------------------------------------------
(***************************************************************************)
(* perform_apply_schedule                                                  *)
(***************************************************************************)
Goto(next) == pc' = next /\ UNCHANGED <<draft, saved, device, link, work, manual, bounds>>

\* set_apply_status and the way to the end of the session.
FailWith(status, next) ==
  /\ record' = [record EXCEPT !.status = status]
  /\ UNCHANGED stale
  /\ Goto(next)

Begin ==
  /\ pc = "idle" /\ jobs < MaxJobs /\ jobs' = jobs + 1
  /\ \/ \E t \in Targets : pc' = "open" /\ work' = [NoWork EXCEPT !.target = t]
     \/ pc' = "manual" /\ UNCHANGED work
  /\ UNCHANGED <<draft, record, stale, saved, device, link, manual, edits>>

OpenSession ==
  /\ pc \in {"open", "manual"} /\ link = "down"
  /\ link' = "up"
  /\ pc' = IF pc = "open" THEN "readConfig" ELSE "manualWait"
  /\ UNCHANGED <<draft, record, stale, saved, device, work, manual, bounds>>

OpenFails ==
  \/ pc = "open" /\ FailWith("session_open_failed", "finish")
  \/ pc = "manual" /\ Goto("finish") /\ UNCHANGED <<record, stale, bounds>>

\* A read returns the value only on a link, and the late answer of an earlier
\* read (see GattClient) has another length.
ReadConfig ==
  /\ pc = "readConfig"
  /\ \/ /\ link = "up" /\ pc' = "buildBlock"
        /\ \E bytes \in {device.config, NoConfig} : work' = [work EXCEPT !.current = bytes]
        /\ UNCHANGED <<draft, record, stale, saved, device, link, manual, bounds>>
     \/ FailWith("config_read_failed", "close")

BuildBlock ==
  /\ pc = "buildBlock" /\ pc' = "buildConfig"
  /\ work' = [work EXCEPT !.block = draft[work.target].block]
  /\ UNCHANGED <<draft, record, stale, saved, device, link, manual, bounds>>

\* Every draft is valid: only the encoding of the block or the length of the
\* configuration can fail.
BuildConfig ==
  /\ pc = "buildConfig"
  /\ IF work.block = NoBlock \/ work.current = NoConfig
       THEN FailWith("validation_failed", "close")
       ELSE /\ pc' = "writeConfig"
            /\ work' = [work EXCEPT !.config = Mutate(work.target, work.current, draft[work.target])]
            /\ UNCHANGED <<draft, record, stale, saved, device, link, manual, bounds>>

\* A write is stored or ignored by the Hunter (two of the four paths are
\* inferred) and acknowledged or not.  Without the acknowledgement the &&
\* chain ends.
Written(next) == pc' \in {next, "mismatch"} /\ UNCHANGED record

WriteConfig ==
  /\ pc = "writeConfig" /\ link = "up"
  /\ \E stored \in {device.config, work.config} : device' = [device EXCEPT !.config = stored]
  /\ Written("writeBlock")
  /\ UNCHANGED <<draft, stale, saved, link, work, manual, bounds>>

WriteBlock ==
  /\ pc = "writeBlock" /\ link = "up"
  /\ \E stored \in {device.block[work.target], work.block} :
       device' = [device EXCEPT !.block[work.target] = stored]
  /\ Written("backConfig")
  /\ UNCHANGED <<draft, stale, saved, link, work, manual, bounds>>

\* A write or a read-back that fails without effect.
TransferFails ==
  /\ pc \in {"writeConfig", "writeBlock", "backConfig", "backBlock"}
  /\ Goto("mismatch") /\ UNCHANGED <<record, stale>>

ReadBackConfig ==
  /\ pc = "backConfig" /\ link = "up" /\ pc' = "backBlock"
  /\ work' = [work EXCEPT !.back = device.config]
  /\ UNCHANGED <<draft, record, stale, saved, device, link, manual, bounds>>

\* Both payload_equals, of the configuration read before and the block read now.
Matches == work.back = work.config /\ device.block[work.target] = work.block

\* The end of the last read.  From here on the worker needs no link.
ReadBackBlock ==
  /\ pc = "backBlock" /\ link = "up"
  /\ Goto(IF Matches THEN "recordMode" ELSE "mismatch") /\ UNCHANGED <<record, stale>>

Mismatch == pc = "mismatch" /\ FailWith("readback_mismatch", "close")

-----------------------------------------------------------------------------
(***************************************************************************)
(* The record after an accepted apply: eight statements on the record that *)
(* handlers and save() see between any two of them.  A copy is begun and   *)
(* ended, for it is made byte by byte.                                     *)
(***************************************************************************)
RecordStep(from, next, r) ==
  pc = from /\ record' = r /\ UNCHANGED stale /\ Goto(next)

\* active_schedule_mode is taken from the draft as it is now, not from the
\* configuration that was written.
RecordMode ==
  RecordStep("recordMode", "setLengths",
          [record EXCEPT !.mode = ModeOf(work.target, draft[work.target])])

\* last_config_len and last_*_block_len: the first time they make the bytes of
\* reset_defaults count.
SetLengths ==
  RecordStep("setLengths", "copyConfig",
          [record EXCEPT !.config = IF @ = NoConfig THEN Torn ELSE @,
                         !.block[work.target] = IF @ = NoBlock THEN Torn ELSE @])

\* Mutant: the block that the draft makes now is recorded.
CopiedFromDraft == [config |-> work.config, block |-> draft[work.target].block]

Copied == [config |-> work.config, block |-> work.block]

CopyConfig == RecordStep("copyConfig", "endConfig", [record EXCEPT !.config = Torn])

EndConfig == RecordStep("endConfig", "copyBlock", [record EXCEPT !.config = Copied.config])

CopyBlock == RecordStep("copyBlock", "endBlock", [record EXCEPT !.block[work.target] = Torn])

EndBlock == RecordStep("endBlock", "clearStale",
                    [record EXCEPT !.block[work.target] = Copied.block])

ClearStale ==
  pc = "clearStale" /\ stale' = FALSE /\ UNCHANGED record /\ Goto("setApplied")

SetApplied ==
  /\ pc = "setApplied" /\ pc' = "close"
  /\ record' = [record EXCEPT !.status = "applied"] /\ manual' = FALSE
  /\ UNCHANGED <<draft, stale, saved, device, link, work, bounds>>

RecordApplied ==
  \/ RecordMode \/ SetLengths \/ CopyConfig \/ EndConfig
  \/ CopyBlock \/ EndBlock \/ ClearStale \/ SetApplied

-----------------------------------------------------------------------------
\* A manual start or stop of this zone: the start writes the duration packet to
\* the configuration characteristic, and its confirmation (mark_running, or
\* mark_idle_all for a stop) clears the stale flag.
ManualWrite ==
  /\ pc = "manualWait" /\ link = "up"
  /\ device' = [device EXCEPT !.config = DurationPacket] /\ manual' = TRUE
  /\ UNCHANGED <<draft, record, stale, saved, link, pc, work, bounds>>

ManualEnd ==
  /\ pc = "manualWait" /\ pc' = "close"
  /\ \/ stale' = FALSE /\ manual' = TRUE
     \/ UNCHANGED <<stale, manual>>
  /\ UNCHANGED <<draft, record, saved, device, link, work, bounds>>

CloseSession ==
  /\ pc = "close" /\ pc' = "finish"
  /\ link' = IF link = "up" THEN "closing" ELSE link
  /\ UNCHANGED <<draft, record, stale, saved, device, work, manual, bounds>>

\* task_loop: save() after every command.
Finish ==
  /\ pc = "finish" /\ pc' = "idle"
  /\ saved' = record /\ work' = NoWork
  /\ UNCHANGED <<draft, record, stale, device, link, manual, bounds>>

-----------------------------------------------------------------------------
(***************************************************************************)
(* Events.  fail_safe_reset marks the zone stale and saves.                *)
(***************************************************************************)
FailSafeReset ==
  /\ stale' = TRUE /\ saved' = record
  /\ UNCHANGED <<draft, record, device, pc, work, manual, bounds>>

Disconnected == link # "down" /\ link' = "down" /\ FailSafeReset
WifiDrops == FailSafeReset /\ UNCHANGED link

\* Mutant: the flag comes back from flash as it was last set.
RebootTrusting ==
  /\ record' = saved /\ link' = "down" /\ pc' = "idle" /\ work' = NoWork
  /\ UNCHANGED <<draft, saved, device, stale, manual, bounds>>

\* The drafts and the record come back from flash; mark_boot_stale, save().
Reboot ==
  /\ record' = saved /\ stale' = TRUE
  /\ link' = "down" /\ pc' = "idle" /\ work' = NoWork
  /\ UNCHANGED <<draft, saved, device, manual, bounds>>

-----------------------------------------------------------------------------
Worker ==
  \/ Begin \/ OpenSession \/ OpenFails \/ ReadConfig \/ BuildBlock \/ BuildConfig
  \/ WriteConfig \/ WriteBlock \/ TransferFails \/ ReadBackConfig \/ ReadBackBlock
  \/ Mismatch \/ RecordApplied
  \/ ManualWrite \/ ManualEnd \/ CloseSession \/ Finish

Next == (\E t \in Targets : UpdateDraft(t)) \/ Worker \/ Disconnected \/ WifiDrops \/ Reboot

Spec == Init /\ [][Next]_vars

-----------------------------------------------------------------------------
\* The zone's record implements the abstract one: no edit, failure, drop or
\* restart in the middle of an apply puts bytes into it, or into flash, that
\* the device did not hold when they were recorded, except half of a copy.
Confirmed == INSTANCE ConfirmedSchedule WITH
  confirmed <- [config |-> record.config, block |-> record.block],
  saved <- [config |-> saved.config, block |-> saved.block]

RecordIsConfirmed == Confirmed!Spec

\* perform_apply_schedule from the first write to the status.
Applying == {"writeBlock", "backConfig", "backBlock", "mismatch", "recordMode", "setLengths",
             "copyConfig", "endConfig", "copyBlock", "endBlock", "clearStale", "setApplied"}

\* While a zone shows "applied" and is not stale, and no apply is under way, the
\* device holds the recorded configuration, and under an enabled mode the block
\* of that mode, unless a manual start has written the configuration
\* characteristic since.
FreshAppliedStands ==
  record.status = "applied" /\ ~stale /\ ~manual /\ pc \notin Applying =>
    /\ device.config = record.config
    /\ \A t \in Targets : device.config.mode = t => device.block[t] = record.block[t]

\* An apply of one schedule keeps the days of the other one and the bytes it
\* does not know, whatever happened between its read and its write.
KeepsTheRest ==
  [][pc = "writeConfig" /\ device'.config # device.config =>
       /\ device'.config.rest = device.config.rest
       /\ work.target = "Timer" => device'.config.cyclingDays = device.config.cyclingDays
       /\ work.target = "Cycling" => device'.config.timerDays = device.config.timerDays]_vars

\* "draft updates do not directly imply confirmed schedule success": the active
\* mode is the mode the device was read back to have (checked to fail).
ActiveModeIsConfirmed ==
  [][RecordMode => record'.mode = device.config.mode]_vars
=============================================================================
