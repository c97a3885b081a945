---------------------------- MODULE StatusDisplay ----------------------------
(***************************************************************************)
(* The AMOLED status display (src/src/status_display.cpp) and the task     *)
(* that polls it (status_display_task in src/src/main.cpp): when the panel *)
(* is lit, what a press of PWR or BOOT does, which frame is on it, and the *)
(* render stage that survives a reset.                                     *)
(*                                                                         *)
(* The clock runs in ticks of one second, the render period: every         *)
(* deadline is kept as the ticks that are left to it or have passed since. *)
(* The clock is the one the code reads, the now_ms of a pass: a pass takes *)
(* its snapshot, compares its deadlines and records its times with the     *)
(* now_ms of its start.  What a pass itself takes (I2C timeouts of 250 ms, *)
(* the flushes of the stripes) is seen by the next one: it is ticks        *)
(* between the two, as many as it likes.                                   *)
(*                                                                         *)
(* The buttons, the power-management unit (PMU), the I2C and SPI buses and *)
(* the panel are external: any transfer may fail, and one that fails may   *)
(* have been carried out.                                                  *)
(***************************************************************************)
EXTENDS Integers

CONSTANTS WakeTicks,   \* kDisplayWakeDurationMs
          PowerTicks   \* kBoardPowerRefreshMs

RenderTicks == 1       \* a frame at most every 1000 ms

ASSUME TicksAssumption == WakeTicks \in Nat \ {0} /\ PowerTicks \in Nat \ {0}

\* The steps of init(), of one pass of the task, and where it may end: without
\* a task (init failed, before or after the stage was dropped) or between two
\* passes.
InitPCs == {"boot", "bus", "pmu", "wakeInputs", "panelPower", "panelInit", "standby"}
RenderPCs == {"board", "stripes", "rendered"}
PassPCs == {"bootKey", "pwrRead", "pwrClear", "deadline", "period"} \union RenderPCs
PCs == InitPCs \union PassPCs \union {"noBuffer", "noTask", "sleep"}

VARIABLES
  pc,           \* where app_main or the display task is
  initialized,  \* initialized_
  awake,        \* display_awake_
  awakeLeft,    \* ticks until display_awake_until_ms_
  force,        \* force_render_
  sinceRender,  \* ticks since last_render_ms_
  stage,        \* s_last_render_stage: RTC memory, kept over a warm reset
  pmu,          \* pmu_ready_, and whether a short press raises an interrupt
  bootKey,      \* wake_inputs_ready_, boot_button_pressed_, boot_restart_armed_
  seen,         \* irq2, the interrupt bits the poll has read
  boardAge,     \* ticks since board_power_last_update_ms_
  boardOk,      \* whether the last reading of the board power succeeded
  panel,        \* external: "lit" or "dark"
  frameAge,     \* external: the age of the snapshot on the panel, at now_ms
  irq,          \* external: the PMU's interrupt register
  button,       \* external: BOOT is held down
  polled,       \* a pass has begun since the last tick
  owed,         \* history: a short press waits to wake the display
  began,        \* history: BOOT was pressed since this boot
  died          \* history: how the last boot that reached init() ended

taskVars == <<pc, polled>>
wakeVars == <<awake, awakeLeft>>
frameVars == <<force, sinceRender, frameAge>>
keyVars == <<bootKey, button, began>>
irqVars == <<irq, seen, owed>>
boardVars == <<boardAge, boardOk>>
crashVars == <<stage, died>>
vars == <<taskVars, initialized, wakeVars, frameVars, keyVars, irqVars, boardVars,
          crashVars, pmu, panel>>

FlagTypes ==
  /\ initialized \in BOOLEAN /\ awake \in BOOLEAN /\ force \in BOOLEAN
  /\ boardOk \in BOOLEAN /\ button \in BOOLEAN /\ polled \in BOOLEAN
  /\ owed \in BOOLEAN /\ began \in BOOLEAN
  /\ panel \in {"lit", "dark"}
  /\ stage \in {0, 1, 5} /\ died \in {"cold", "rendering", "elsewhere"}

TimeTypes ==
  /\ awakeLeft \in 0..WakeTicks /\ sinceRender \in 0..RenderTicks
  /\ frameAge \in 0..RenderTicks + 1 /\ boardAge \in 0..PowerTicks

KeyTypes ==
  /\ pmu \in [ready : BOOLEAN, latches : BOOLEAN]
  /\ bootKey \in [ready : BOOLEAN, pressed : BOOLEAN, armed : BOOLEAN]

IrqTypes == irq \subseteq {"short", "other"} /\ seen \subseteq {"short", "other"}

TypeOK == pc \in PCs /\ FlagTypes /\ TimeTypes /\ KeyTypes /\ IrqTypes

Init ==
  /\ pc = "boot" /\ initialized = FALSE
  /\ awake = TRUE /\ awakeLeft = WakeTicks
  /\ force = TRUE /\ sinceRender = RenderTicks /\ frameAge = RenderTicks + 1
  /\ stage \in {0, 1} /\ died = "cold"                  \* RTC_NOINIT_ATTR
  /\ pmu = [ready |-> FALSE, latches |-> FALSE]
  /\ bootKey = [ready |-> FALSE, pressed |-> FALSE, armed |-> FALSE]
  /\ irq = {} /\ seen = {} /\ boardAge = PowerTicks /\ boardOk = FALSE
  /\ panel = "dark" /\ button = FALSE /\ polled = FALSE
  /\ owed = FALSE /\ began = FALSE

-----------------------------------------------------------------------------
(***************************************************************************)
(* The panel: set_panel_enabled and what the bus makes of it.              *)
(***************************************************************************)
\* The command is reported as done only if it was carried out.
PanelCommand(enabled, ok) ==
  \/ panel' = IF enabled THEN "lit" ELSE "dark"
  \/ ~ok /\ UNCHANGED panel

-----------------------------------------------------------------------------
(***************************************************************************)
(* StatusDisplay::init, called once by app_main after the MQTT client is   *)
(* up.  A step that returns false ends it and no display task is created.  *)
(***************************************************************************)
\* Mutant: the stage of the previous boot is reported and kept.
InitStageKept ==
  /\ pc = "boot" /\ pc' = "bus"
  /\ UNCHANGED <<polled, initialized, wakeVars, frameVars, keyVars, irqVars, boardVars,
                 crashVars, pmu, panel>>

\* The transfer buffer; then the stage the previous boot left is reported and
\* dropped.  Without memory for the buffer init fails and the stage stays.
InitStage ==
  /\ pc = "boot"
  /\ \/ pc' = "bus" /\ stage' = 0
     \/ pc' = "noBuffer" /\ UNCHANGED stage
  /\ UNCHANGED <<polled, initialized, wakeVars, frameVars, keyVars, irqVars, boardVars,
                 died, pmu, panel>>

\* init_i2c_bus
InitBus ==
  /\ pc = "bus" /\ pc' \in {"pmu", "noTask"}
  /\ UNCHANGED <<polled, initialized, wakeVars, frameVars, keyVars, irqVars, boardVars,
                 crashVars, pmu, panel>>

\* init_board_power_monitor: its result is ignored.  A PMU that answers is
\* ready even when its key interrupt could not be enabled.  The pending
\* interrupts are cleared only if the enable register could be read, and the
\* clearing may fail.
InitPmu ==
  /\ pc = "pmu" /\ pc' = "wakeInputs"
  /\ \/ UNCHANGED pmu
     \/ \E latches \in BOOLEAN : pmu' = [ready |-> TRUE, latches |-> latches]
  /\ \/ UNCHANGED <<irq, owed>>
     \/ pmu'.ready /\ irq' = {} /\ owed' = FALSE
  /\ UNCHANGED <<polled, initialized, wakeVars, frameVars, keyVars, seen, boardVars,
                 crashVars, panel>>

\* Mutant: the level of the button at boot is not read.
InitWakeInputsUnread ==
  /\ pc = "wakeInputs" /\ pc' = "panelPower"
  /\ bootKey' = [bootKey EXCEPT !.ready = TRUE]
  /\ UNCHANGED <<polled, initialized, wakeVars, frameVars, button, began, irqVars, boardVars,
                 crashVars, pmu, panel>>

\* init_wake_inputs: its result is ignored too.
InitWakeInputs ==
  /\ pc = "wakeInputs" /\ pc' = "panelPower"
  /\ bootKey' \in {bootKey, [bootKey EXCEPT !.ready = TRUE, !.pressed = button]}
  /\ UNCHANGED <<polled, initialized, wakeVars, frameVars, button, began, irqVars, boardVars,
                 crashVars, pmu, panel>>

\* enable_panel_power switches the panel off and on again; a failure before
\* that leaves it as the previous boot did.
InitPanelPower ==
  /\ pc = "panelPower"
  /\ \/ pc' = "panelInit" /\ panel' = "dark"
     \/ pc' = "noTask" /\ panel' \in {panel, "dark"}
  /\ UNCHANGED <<polled, initialized, wakeVars, frameVars, keyVars, irqVars, boardVars,
                 crashVars, pmu>>

\* init_spi_bus and init_panel, which ends with the panel switched on.
InitPanel ==
  /\ pc = "panelInit"
  /\ \/ pc' = "standby" /\ panel' = "lit"
     \/ pc' = "noTask" /\ panel' \in {"lit", "dark"}
  /\ UNCHANGED <<polled, initialized, wakeVars, frameVars, keyVars, irqVars, boardVars,
                 crashVars, pmu>>

\* The rest of init: standby, or awake until 10 s after power-on if it fails
\* (that deadline may have passed already).  Then the display task.
InitStandby ==
  /\ pc = "standby" /\ pc' = "sleep" /\ polled' = FALSE
  /\ initialized' = TRUE /\ force' = TRUE /\ sinceRender' = RenderTicks
  /\ \E ok \in BOOLEAN :
       /\ PanelCommand(FALSE, ok)
       /\ awake' = ~ok
       /\ awakeLeft' \in IF ok THEN {0} ELSE 0..WakeTicks
  /\ UNCHANGED <<frameAge, keyVars, irqVars, boardVars, crashVars, pmu>>

-----------------------------------------------------------------------------
(***************************************************************************)
(* One pass of status_display_task: render(snapshot, now).  The snapshot   *)
(* and the time are taken at its start.                                    *)
(***************************************************************************)
\* The loop pauses for good once a frame could not be flushed.
BeginPass ==
  /\ pc = "sleep" /\ initialized /\ ~polled
  /\ pc' = "bootKey" /\ polled' = TRUE
  /\ UNCHANGED <<initialized, wakeVars, frameVars, keyVars, irqVars, boardVars, crashVars,
                 pmu, panel>>

\* What a reset takes with it: the RAM, and after a power cut also the RTC
\* memory, the PMU's interrupts and the panel.
ResetRam ==
  /\ pc' = "boot" /\ initialized' = FALSE /\ polled' = FALSE
  /\ awake' = TRUE /\ awakeLeft' = WakeTicks
  /\ force' = TRUE /\ sinceRender' = RenderTicks
  /\ pmu' = [ready |-> FALSE, latches |-> FALSE]
  /\ bootKey' = [ready |-> FALSE, pressed |-> FALSE, armed |-> FALSE]
  /\ seen' = {} /\ owed' = FALSE /\ began' = FALSE
  /\ boardAge' = PowerTicks /\ boardOk' = FALSE
  /\ frameAge' = RenderTicks + 1

BootReleased == bootKey.ready /\ ~button /\ bootKey.pressed /\ bootKey.armed

\* update_display_power, first half: a press arms, its release restarts.
PollBootKey ==
  /\ pc = "bootKey" /\ ~BootReleased
  /\ pc' = "pwrRead"
  /\ bootKey' = IF ~bootKey.ready THEN bootKey
                ELSE [bootKey EXCEPT !.pressed = button,
                                     !.armed = @ \/ (button /\ ~bootKey.pressed)]
  /\ UNCHANGED <<polled, initialized, wakeVars, frameVars, button, began, irqVars, boardVars,
                 crashVars, pmu, panel>>

BootRestart ==
  /\ pc = "bootKey" /\ BootReleased
  /\ ResetRam
  /\ died' = "elsewhere"
  /\ UNCHANGED <<stage, panel, irq, button>>

\* poll_power_key_wake_request: the register is read ...
PollPwrRead ==
  /\ pc = "pwrRead"
  /\ IF pmu.ready
       THEN \/ seen' = irq /\ pc' = "pwrClear"
            \/ pc' = "deadline" /\ UNCHANGED seen
       ELSE pc' = "deadline" /\ UNCHANGED seen
  /\ UNCHANGED <<polled, initialized, wakeVars, frameVars, keyVars, irq, owed, boardVars,
                 crashVars, pmu, panel>>

\* wake_display: the result of switching the panel on is not looked at.
Wake ==
  /\ awakeLeft' = WakeTicks /\ awake' = TRUE
  /\ IF awake THEN UNCHANGED <<panel, force, sinceRender>>
     ELSE /\ \E ok \in BOOLEAN : PanelCommand(TRUE, ok)
          /\ force' = TRUE /\ sinceRender' = RenderTicks

\* Mutant: every bit is cleared, read or not.
AllBits(bits) == {"short", "other"}

\* Writing a bit back clears it.
WrittenBack(bits) == bits

\* ... and the bits that were read are written back; a short press wakes the
\* display even if that fails (the next poll then finds it again).
PollPwrClear ==
  /\ pc = "pwrClear" /\ pc' = "deadline" /\ seen' = {}
  /\ irq' \in IF seen = {} THEN {irq} ELSE {irq, irq \ WrittenBack(seen)}
  /\ IF "short" \in seen THEN Wake /\ owed' = FALSE
                         ELSE UNCHANGED <<wakeVars, force, sinceRender, panel, owed>>
  /\ UNCHANGED <<polled, initialized, frameAge, keyVars, boardVars, crashVars, pmu>>

\* Mutants: the deadline is renewed while awake; asleep whatever the panel did.
SleepRenewed ==
  /\ pc = "deadline" /\ pc' = "period"
  /\ awakeLeft' = IF awake THEN WakeTicks ELSE awakeLeft
  /\ IF awake /\ awakeLeft = 0
       THEN \E ok \in BOOLEAN : PanelCommand(FALSE, ok) /\ awake' = ~ok
       ELSE UNCHANGED <<awake, panel>>
  /\ UNCHANGED <<polled, initialized, frameVars, keyVars, irqVars, boardVars, crashVars, pmu>>

SleepRegardless ==
  /\ pc = "deadline" /\ pc' = "period"
  /\ IF awake /\ awakeLeft = 0
       THEN \E ok \in BOOLEAN : PanelCommand(FALSE, ok) /\ awake' = FALSE
       ELSE UNCHANGED <<awake, panel>>
  /\ UNCHANGED <<polled, initialized, awakeLeft, frameVars, keyVars, irqVars, boardVars,
                 crashVars, pmu>>

\* update_display_power, last part, and sleep_display: asleep only if the panel
\* was switched off, else the next pass tries again.
Sleep ==
  /\ pc = "deadline" /\ pc' = "period"
  /\ IF awake /\ awakeLeft = 0
       THEN \E ok \in BOOLEAN : PanelCommand(FALSE, ok) /\ awake' = ~ok
       ELSE UNCHANGED <<awake, panel>>
  /\ UNCHANGED <<polled, initialized, awakeLeft, frameVars, keyVars, irqVars, boardVars,
                 crashVars, pmu>>

\* Mutant: the first frame of a wake stays.
FrameDueForced == awake /\ force

\* A frame is due: awake, and forced or a period after the last.  Any pass may
\* come late in its tick; one that finds nothing due polls again.
FrameDue == awake /\ (force \/ sinceRender = RenderTicks)

SkipFrame ==
  /\ pc = "period" /\ ~FrameDue /\ pc' = "sleep"
  /\ UNCHANGED <<polled, initialized, wakeVars, frameVars, keyVars, irqVars, boardVars,
                 crashVars, pmu, panel>>

BeginFrame ==
  /\ pc = "period" /\ FrameDue /\ pc' = "board"
  /\ stage' = 1
  /\ UNCHANGED <<polled, initialized, wakeVars, frameVars, keyVars, irqVars, boardVars, died,
                 pmu, panel>>

\* Mutant: the first reading is kept for ever.
BoardOnce ==
  /\ pc = "board" /\ pc' = "stripes"
  /\ IF pmu.ready /\ ~boardOk
       THEN \E ok \in BOOLEAN : boardOk' = ok /\ boardAge' = IF ok THEN 0 ELSE boardAge
       ELSE UNCHANGED boardVars
  /\ UNCHANGED <<polled, initialized, wakeVars, frameVars, keyVars, irqVars, crashVars, pmu,
                 panel>>

\* maybe_refresh_board_power: a failed reading keeps the values and their age,
\* so the next frame tries again.
RefreshBoard ==
  /\ pc = "board" /\ pc' = "stripes"
  /\ IF pmu.ready /\ boardAge = PowerTicks
       THEN \E ok \in BOOLEAN : boardOk' = ok /\ boardAge' = IF ok THEN 0 ELSE boardAge
       ELSE UNCHANGED boardVars
  /\ UNCHANGED <<polled, initialized, wakeVars, frameVars, keyVars, irqVars, crashVars, pmu,
                 panel>>

\* render_frame: the stripes of the frame, each drawn from the snapshot of the
\* pass and flushed; a flush that fails ends the frame and the display.
RenderStripes ==
  /\ pc = "stripes"
  /\ stage' = 5
  /\ \/ pc' = "rendered" /\ frameAge' = 0 /\ UNCHANGED initialized        \* the last one
     \/ pc' = "rendered" /\ initialized' = FALSE /\ UNCHANGED frameAge    \* a failed flush
  /\ UNCHANGED <<polled, wakeVars, force, sinceRender, keyVars, irqVars, boardVars, died, pmu,
                 panel>>

EndFrame ==
  /\ pc = "rendered" /\ pc' = "sleep"
  /\ force' = FALSE /\ sinceRender' = 0 /\ stage' = 0
  /\ UNCHANGED <<polled, initialized, wakeVars, frameAge, keyVars, irqVars, boardVars, died,
                 pmu, panel>>

-----------------------------------------------------------------------------
(***************************************************************************)
(* The world: time, the buttons, and the resets.                           *)
(***************************************************************************)
Minus(n) == IF n = 0 THEN 0 ELSE n - 1
Plus(n, cap) == IF n < cap THEN n + 1 ELSE n

\* Between two passes, while the task waits or the last pass went on.
Tick ==
  /\ pc \in {"sleep", "noTask", "noBuffer"}
  /\ awakeLeft' = Minus(awakeLeft)
  /\ sinceRender' = Plus(sinceRender, RenderTicks)
  /\ frameAge' = Plus(frameAge, RenderTicks + 1)
  /\ boardAge' = Plus(boardAge, PowerTicks)
  /\ polled' = FALSE
  /\ UNCHANGED <<pc, initialized, awake, force, keyVars, irqVars, boardOk, crashVars, pmu,
                 panel>>

\* Several passes fit in a tick.
PollAgain ==
  /\ pc = "sleep" /\ polled /\ polled' = FALSE
  /\ UNCHANGED <<pc, initialized, wakeVars, frameVars, keyVars, irqVars, boardVars, crashVars,
                 pmu, panel>>

\* A short press of PWR raises the PMU's interrupt if that is enabled.
PressPwr ==
  /\ pmu.latches /\ "short" \notin irq
  /\ irq' = irq \union {"short"} /\ owed' = TRUE
  /\ UNCHANGED <<taskVars, initialized, wakeVars, frameVars, keyVars, seen, boardVars,
                 crashVars, pmu, panel>>

OtherIrq ==
  /\ "other" \notin irq /\ irq' = irq \union {"other"}
  /\ UNCHANGED <<taskVars, initialized, wakeVars, frameVars, keyVars, seen, owed, boardVars,
                 crashVars, pmu, panel>>

PressBoot ==
  /\ ~button /\ button' = TRUE /\ began' = TRUE
  /\ UNCHANGED <<taskVars, initialized, wakeVars, frameVars, bootKey, irqVars, boardVars,
                 crashVars, pmu, panel>>

ReleaseBoot ==
  /\ button /\ button' = FALSE
  /\ UNCHANGED <<taskVars, initialized, wakeVars, frameVars, bootKey, began, irqVars,
                 boardVars, crashVars, pmu, panel>>

\* A panic or a watchdog: RTC memory, the PMU and the panel keep what they had.
Crash ==
  /\ ResetRam
  /\ died' = CASE pc \in {"boot", "noBuffer"} -> died
               [] pc \in RenderPCs -> "rendering"
               [] OTHER -> "elsewhere"
  /\ UNCHANGED <<stage, panel, irq, button>>

PowerCut ==
  /\ ResetRam
  /\ died' = "cold" /\ stage' \in {0, 1}
  /\ panel' = "dark" /\ irq' = {}
  /\ UNCHANGED button

-----------------------------------------------------------------------------
DisplayInit ==
  InitStage \/ InitBus \/ InitPmu \/ InitWakeInputs \/ InitPanelPower \/ InitPanel \/ InitStandby
DisplayTask ==
  \/ BeginPass \/ PollBootKey \/ BootRestart \/ PollPwrRead \/ PollPwrClear \/ Sleep
  \/ SkipFrame \/ BeginFrame \/ RefreshBoard \/ RenderStripes \/ EndFrame
World == PollAgain \/ PressPwr \/ OtherIrq \/ PressBoot \/ ReleaseBoot \/ Crash \/ PowerCut

Next == DisplayInit \/ DisplayTask \/ Tick \/ World

Spec == Init /\ [][Next]_vars

(***************************************************************************)
(* Fairness.  The task runs whenever nothing of a higher priority does and *)
(* every transfer has a timeout; time passes; and the panel is not broken  *)
(* for ever: a command that is tried again and again succeeds once.        *)
(***************************************************************************)
FairSpec ==
  /\ Spec /\ WF_vars(DisplayInit) /\ WF_vars(DisplayTask) /\ SF_vars(Tick)
  /\ SF_vars(Sleep /\ awake /\ ~awake')

-----------------------------------------------------------------------------
\* The task is polling.
Live == pc \in PassPCs \union {"sleep"} /\ initialized

\* A display that believes to be asleep is dark: it polls for no deadline any
\* more, so a panel left lit would stay so until the next press.
AsleepIsDark == Live /\ ~awake => panel = "dark"

\* After every pass that leaves the display awake the snapshot on the panel was
\* taken within the period before the pass began, or by the pass itself, and
\* the board line is not older than the refresh period unless the PMU failed to
\* answer.  How long the pass took to show it comes on top.
ShownIsFresh ==
  pc = "sleep" /\ polled /\ initialized /\ awake =>
    /\ frameAge < RenderTicks
    /\ pmu.ready /\ boardOk => boardAge < PowerTicks

\* No press of PWR is lost between the poll's read and its write-back: until
\* it wakes the display it is still in the interrupt register.
NoPressLost == owed => "short" \in irq

\* BOOT restarts the bridge only if it was pressed since this boot: a button
\* held over the reset does nothing when it is released.
RestartIsPressed == [][BootRestart => began]_vars

\* After a warm reset the stage in RTC memory says whether the last boot that
\* had dropped the stage before it ended while it drew a frame.
StageTellsCrash ==
  pc = "boot" /\ died # "cold" => (stage # 0 <=> died = "rendering")

\* Every wake ends: the display falls asleep unless PWR is pressed again, or it
\* is disabled by a failed flush.
AwakeEnds == Live /\ awake ~> ~awake \/ "short" \in irq \/ ~initialized
=============================================================================
