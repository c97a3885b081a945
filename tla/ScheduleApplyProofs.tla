------------------------- MODULE ScheduleApplyProofs -------------------------
(***************************************************************************)
(* For every set of day masks and blocks: the record of the schedules      *)
(* implements ConfirmedSchedule, an apply keeps the rest of the            *)
(* configuration it read, and a fresh "applied" is true of the device.     *)
(*                                                                         *)
(* The invariant adds to the types what the worker's locals are worth: the *)
(* configuration it read is still the device's when it writes, because     *)
(* only the worker writes, and what was read back and matched is what the  *)
(* device holds until the last statement of the record.                    *)
(***************************************************************************)
EXTENDS ScheduleApply, TLAPS

\* The configuration read is the device's, or not a configuration.
ReadInv ==
  pc \in {"buildBlock", "buildConfig"} => work.current \in {device.config, NoConfig}

\* What is about to be written differs from the device in mode and days only.
WriteInv ==
  pc = "writeConfig" =>
    /\ work.config \in Config
    /\ work.config.rest = device.config.rest
    /\ work.target = "Timer" => work.config.cyclingDays = device.config.cyclingDays
    /\ work.target = "Cycling" => work.config.timerDays = device.config.timerDays

\* The block is written after the configuration: it is one.
BlockInv ==
  pc \in {"buildConfig", "writeConfig", "writeBlock"} /\ work.block = NoBlock => pc = "buildConfig"

BackInv == pc = "backBlock" => work.back = device.config

\* The places between the accepted read-back and its status, in order.
Copying == {"copyBlock", "endBlock", "clearStale", "setApplied"}
Recording == {"recordMode", "setLengths", "copyConfig", "endConfig"} \union Copying

\* What is recorded is what the device holds.
RecordingInv ==
  pc \in Recording => /\ work.config = device.config
                      /\ work.block = device.block[work.target]

\* What is already copied, and what is torn.
CopiedInv ==
  /\ pc = "endConfig" => record.config = Torn
  /\ pc \in Copying => record.config = device.config
  /\ pc = "endBlock" => record.block[work.target] = Torn
  /\ pc \in {"clearStale", "setApplied"} => record.block[work.target] = device.block[work.target]

LocalsInv == ReadInv /\ WriteInv /\ BlockInv /\ BackInv /\ RecordingInv /\ CopiedInv

\* A valid mutation has the mode and days of the draft and the rest of the
\* configuration (mutate_timer_config, mutate_cycling_config).
LEMMA MutateKeeps ==
  ASSUME NEW t \in Targets, NEW c \in Config, NEW d \in Drafts("Cycling")
  PROVE  /\ Mutate(t, c, d) \in Config
         /\ Mutate(t, c, d).rest = c.rest
         /\ t = "Timer" => Mutate(t, c, d).cyclingDays = c.cyclingDays
         /\ t = "Cycling" => Mutate(t, c, d).timerDays = c.timerDays
BY DEF Targets, Config, Drafts, Mutate, ModeOf

\* Every variable keeps its type (the records of bridge_types.h).
LEMMA TypeStep == TypeOK /\ LocalsInv /\ [Next]_vars => TypeOK'
<1> SUFFICES ASSUME TypeOK, LocalsInv, [Next]_vars PROVE TypeOK'
  OBVIOUS
<1> USE DEF TypeOK, bounds
<1>1. ASSUME NEW t \in Targets, UpdateDraft(t) PROVE TypeOK'
  <2>1. PICK d \in Drafts(t) : draft' = [draft EXCEPT ![t] = d]
    BY <1>1 DEF UpdateDraft, ValidDrafts
  <2>2. d \in Drafts("Cycling") /\ (t = "Timer" => d \in Drafts("Timer"))
    BY <2>1 DEF Targets, Drafts
  <2>3. draft' \in [Targets -> Drafts("Cycling")] /\ draft'["Timer"] \in Drafts("Timer")
    BY <2>1, <2>2 DEF Targets
  <2>4. edits' \in 0..MaxEdits
    BY <1>1, BoundsAssumption DEF UpdateDraft
  <2> QED BY <1>1, <2>3, <2>4 DEF UpdateDraft
<1>2. CASE Begin
  <2>1. jobs' \in 0..MaxJobs
    BY <1>2, BoundsAssumption DEF Begin
  <2>2. work' \in Work
    BY <1>2 DEF Begin, Work, NoWork
  <2> QED BY <1>2, <2>1, <2>2 DEF Begin, PCs
<1>3. CASE OpenSession
  BY <1>3 DEF OpenSession, PCs
<1>4. CASE OpenFails
  BY <1>4 DEF OpenFails, FailWith, Goto, PCs, Record, Statuses
<1>5. CASE ReadConfig
  BY <1>5 DEF ReadConfig, FailWith, Goto, PCs, Record, Statuses, Work
<1>6. CASE BuildBlock
  <2>1. draft[work.target].block \in Blocks \union {NoBlock}
    BY DEF Work, Drafts
  <2> QED BY <1>6, <2>1 DEF BuildBlock, PCs, Work
<1>7. CASE BuildConfig
  <2>1. CASE work.block = NoBlock \/ work.current = NoConfig
    BY <1>7, <2>1 DEF BuildConfig, FailWith, Goto, PCs, Record, Statuses
  <2>2. CASE ~(work.block = NoBlock \/ work.current = NoConfig)
    <3>1. work.target \in Targets /\ work.current \in Config /\ draft[work.target] \in Drafts("Cycling")
      BY <2>2 DEF Work
    <3>2. Mutate(work.target, work.current, draft[work.target]) \in Config
      BY <3>1, MutateKeeps
    <3> QED BY <1>7, <2>2, <3>2 DEF BuildConfig, PCs, Work
  <2> QED BY <2>1, <2>2
<1>8. CASE WriteConfig
  <2>1. device' \in [config : Config, block : [Targets -> Blocks]]
    BY <1>8 DEF WriteConfig, LocalsInv, WriteInv
  <2> QED BY <1>8, <2>1 DEF WriteConfig, Written, PCs
<1>9. CASE WriteBlock
  <2>1. work.block \in Blocks /\ work.target \in Targets
    BY <1>9 DEF WriteBlock, LocalsInv, BlockInv, Work
  <2>2. PICK stored \in {device.block[work.target], work.block} :
           device' = [device EXCEPT !.block[work.target] = stored]
    BY <1>9 DEF WriteBlock
  <2>3. device.block[work.target] \in Blocks
    BY <2>1
  <2>4. device' \in [config : Config, block : [Targets -> Blocks]]
    BY <2>1, <2>2, <2>3
  <2> QED BY <1>9, <2>4 DEF WriteBlock, Written, PCs
<1>10. CASE TransferFails
  BY <1>10 DEF TransferFails, Goto, PCs
<1>11. CASE ReadBackConfig
  BY <1>11 DEF ReadBackConfig, PCs, Work
<1>12. CASE ReadBackBlock \/ Mismatch
  BY <1>12 DEF ReadBackBlock, Mismatch, FailWith, Goto, PCs, Record, Statuses
<1>13. CASE ManualWrite
  BY <1>13, DaysAssumption DEF ManualWrite, DurationPacket, Config
<1>14. CASE ManualEnd
  BY <1>14 DEF ManualEnd, PCs
<1>15. CASE CloseSession
  BY <1>15 DEF CloseSession, PCs
<1>16. CASE Finish
  <2>1. NoWork \in Work
    BY DEF NoWork, Work, Targets
  <2> QED BY <1>16, <2>1 DEF Finish, PCs
<1>17. CASE Disconnected \/ WifiDrops
  BY <1>17 DEF Disconnected, WifiDrops, FailSafeReset
<1>18. CASE Reboot
  <2>1. NoWork \in Work
    BY DEF NoWork, Work, Targets
  <2> QED BY <1>18, <2>1 DEF Reboot, PCs
<1>19. CASE UNCHANGED vars
  BY <1>19 DEF vars
<1>20. CASE RecordMode
  <2>1. work.target \in Targets /\ draft[work.target] \in Drafts("Cycling")
    BY DEF Work
  <2>2. ModeOf(work.target, draft[work.target]) \in {"Disabled", "Timer", "Cycling"}
    BY <2>1 DEF ModeOf, Targets
  <2> QED BY <1>20, <2>2 DEF RecordMode, RecordStep, Goto, PCs, Record
<1>21. CASE SetLengths \/ CopyConfig \/ CopyBlock
  <2>1. work.target \in Targets
    BY DEF Work
  <2>2. CASE SetLengths
    <3>1. record' \in Record
      BY <2>1, <2>2 DEF SetLengths, RecordStep, Record
    <3> QED BY <2>2, <3>1 DEF SetLengths, RecordStep, Goto, PCs
  <2>3. CASE CopyConfig
    BY <2>3 DEF CopyConfig, RecordStep, Goto, PCs, Record
  <2>4. CASE CopyBlock
    <3>1. record' \in Record
      BY <2>1, <2>4 DEF CopyBlock, RecordStep, Record
    <3> QED BY <2>4, <3>1 DEF CopyBlock, RecordStep, Goto, PCs
  <2> QED BY <1>21, <2>2, <2>3, <2>4
<1>22. CASE EndConfig \/ EndBlock
  <2>1. Copied.config \in Config \union {NoConfig} /\ Copied.block \in Blocks \union {NoBlock}
    BY DEF Copied, Work
  <2> QED BY <1>22, <2>1 DEF EndConfig, EndBlock, RecordStep, Goto, PCs, Record, Work
<1>23. CASE ClearStale \/ SetApplied
  BY <1>23 DEF ClearStale, SetApplied, Goto, PCs, Record, Statuses
<1> QED
  BY <1>1, <1>2, <1>3, <1>4, <1>5, <1>6, <1>7, <1>8, <1>9, <1>10, <1>11, <1>12, <1>13,
     <1>14, <1>15, <1>16, <1>17, <1>18, <1>19, <1>20, <1>21, <1>22, <1>23
  DEF Next, Worker, RecordApplied

\* The worker's locals stay true of the device from step to step.
LEMMA LocalsStep == TypeOK /\ LocalsInv /\ [Next]_vars => LocalsInv'
<1> SUFFICES ASSUME TypeOK, LocalsInv, [Next]_vars PROVE LocalsInv'
  OBVIOUS
<1> USE DEF LocalsInv, ReadInv, WriteInv, BlockInv, BackInv, RecordingInv, CopiedInv, Recording, Copying
<1>1. ASSUME NEW t \in Targets, UpdateDraft(t) PROVE LocalsInv'
  BY <1>1 DEF UpdateDraft
<1>2. CASE Begin \/ OpenSession \/ OpenFails \/ TransferFails \/ ManualWrite \/ ManualEnd
        \/ CloseSession \/ Finish
  BY <1>2 DEF Begin, OpenSession, OpenFails, TransferFails, FailWith, Goto, ManualWrite,
     ManualEnd, CloseSession, Finish
<1>3. CASE ReadConfig
  BY <1>3 DEF ReadConfig, FailWith, Goto, TypeOK, Work
<1>4. CASE BuildBlock
  BY <1>4 DEF BuildBlock, TypeOK, Work
<1>5. CASE BuildConfig
  <2>1. CASE work.block = NoBlock \/ work.current = NoConfig
    BY <1>5, <2>1 DEF BuildConfig, FailWith, Goto
  <2>2. CASE ~(work.block = NoBlock \/ work.current = NoConfig)
    <3> DEFINE m == Mutate(work.target, work.current, draft[work.target])
    <3>1. work.target \in Targets /\ work.current \in Config /\ draft[work.target] \in Drafts("Cycling")
      BY <2>2 DEF TypeOK, Work
    <3>2. work.current = device.config
      BY <1>5, <2>2 DEF BuildConfig
    <3>3. /\ m \in Config
          /\ m.rest = device.config.rest
          /\ work.target = "Timer" => m.cyclingDays = device.config.cyclingDays
          /\ work.target = "Cycling" => m.timerDays = device.config.timerDays
      BY <3>1, <3>2, MutateKeeps
    <3>4. /\ pc' = "writeConfig" /\ device' = device
          /\ work' = [work EXCEPT !.config = m]
      BY <1>5, <2>2 DEF BuildConfig
    <3>5. /\ work'.config = m /\ work'.target = work.target /\ work'.block = work.block
      BY <3>4 DEF TypeOK, Work
    <3> HIDE DEF m
    <3> QED BY <2>2, <3>3, <3>4, <3>5
  <2> QED BY <2>1, <2>2
<1>6. CASE WriteConfig
  BY <1>6 DEF WriteConfig, Written
<1>7. CASE WriteBlock
  BY <1>7 DEF WriteBlock, Written
<1>8. CASE ReadBackConfig
  BY <1>8 DEF ReadBackConfig, TypeOK, Work
<1>9. CASE ReadBackBlock
  BY <1>9 DEF ReadBackBlock, Matches, Goto
<1>10. CASE Mismatch \/ ClearStale \/ SetApplied
  BY <1>10 DEF Mismatch, FailWith, ClearStale, SetApplied, Goto, TypeOK, Record
<1>11. CASE RecordMode \/ SetLengths \/ CopyConfig \/ EndConfig
  BY <1>11 DEF RecordMode, SetLengths, CopyConfig, EndConfig, Copied, RecordStep, Goto,
     TypeOK, Record, Work
<1>12. CASE CopyBlock \/ EndBlock
  BY <1>12 DEF CopyBlock, EndBlock, Copied, RecordStep, Goto, TypeOK, Record, Work
<1>13. CASE Disconnected \/ WifiDrops
  BY <1>13 DEF Disconnected, WifiDrops, FailSafeReset
<1>14. CASE Reboot
  BY <1>14 DEF Reboot
<1>15. CASE UNCHANGED vars
  BY <1>15 DEF vars
<1> QED
  BY <1>1, <1>2, <1>3, <1>4, <1>5, <1>6, <1>7, <1>8, <1>9, <1>10, <1>11, <1>12, <1>13,
     <1>14, <1>15 DEF Next, Worker, RecordApplied

\* A fresh bridge and a device with no schedule.
LEMMA InitOK == Init => TypeOK /\ LocalsInv
<1> SUFFICES ASSUME Init PROVE TypeOK /\ LocalsInv
  OBVIOUS
<1>1. NewDraft \in Drafts("Timer") /\ NewDraft \in Drafts("Cycling")
  BY DaysAssumption, BlocksAssumption DEF NewDraft, Drafts
<1>2. NewRecord \in Record
  BY DEF NewRecord, Record, Statuses
<1>3. NoWork \in Work
  BY DEF NoWork, Work, Targets
<1>4. device \in [config : Config, block : [Targets -> Blocks]]
  BY DaysAssumption, BlocksAssumption DEF Init, Config
<1>5. draft \in [Targets -> Drafts("Cycling")] /\ draft["Timer"] \in Drafts("Timer")
  BY <1>1 DEF Init, Targets
<1>6. edits \in 0..MaxEdits /\ jobs \in 0..MaxJobs
  BY BoundsAssumption DEF Init
<1>7. TypeOK
  BY <1>2, <1>3, <1>4, <1>5, <1>6 DEF Init, TypeOK, PCs
<1>8. LocalsInv
  BY DEF Init, LocalsInv, ReadInv, WriteInv, BlockInv, BackInv, RecordingInv, CopiedInv,
     Recording, Copying
<1> QED BY <1>7, <1>8

\* Every reachable state is typed, with locals true of the device.
THEOREM LocalsSafe == Spec => [](TypeOK /\ LocalsInv)
<1>1. TypeOK /\ LocalsInv /\ [Next]_vars => (TypeOK /\ LocalsInv)'
  BY TypeStep, LocalsStep
<1> QED BY InitOK, <1>1, PTL DEF Spec

-----------------------------------------------------------------------------
\* perform_apply_schedule never changes the days of the other schedule or the
\* bytes it does not know.
THEOREM KeepsTheRestHolds == Spec => KeepsTheRest
<1> DEFINE Kept ==
      pc = "writeConfig" /\ device'.config # device.config =>
        /\ device'.config.rest = device.config.rest
        /\ work.target = "Timer" => device'.config.cyclingDays = device.config.cyclingDays
        /\ work.target = "Cycling" => device'.config.timerDays = device.config.timerDays
<1>1. TypeOK /\ LocalsInv /\ [Next]_vars => [Kept]_vars
  <2> SUFFICES ASSUME TypeOK, LocalsInv, Next, pc = "writeConfig",
                      device'.config # device.config
               PROVE  Kept
    OBVIOUS
  <2>1. WriteConfig
    BY DEF Next, Worker, UpdateDraft, Begin, OpenSession, OpenFails, FailWith, Goto, ReadConfig,
       BuildBlock, BuildConfig, WriteBlock, TransferFails, ReadBackConfig, ReadBackBlock,
       Mismatch, RecordApplied, RecordMode, SetLengths, CopyConfig, EndConfig, CopyBlock,
       EndBlock, RecordStep, ClearStale, SetApplied, ManualWrite, ManualEnd, CloseSession, Finish, Disconnected, WifiDrops, FailSafeReset, Reboot
  <2>2. device'.config = work.config
    BY <2>1 DEF WriteConfig, TypeOK
  <2> QED BY <2>2 DEF LocalsInv, WriteInv
<1> QED BY LocalsSafe, <1>1, PTL DEF Spec, KeepsTheRest

-----------------------------------------------------------------------------
(***************************************************************************)
(* A fresh "applied".  The old status stands while a new apply writes; it  *)
(* ends with a status of its own, or with a restart, which marks the zone  *)
(* stale.                                                                  *)
(***************************************************************************)
\* The configuration that is written selects the schedule that is applied, or none.
ModeInv ==
  pc \in {"writeConfig", "writeBlock", "backConfig", "backBlock"} \union Recording =>
    work.config.mode \in {work.target, "Disabled"}

\* A valid mutation selects its own schedule or none.
LEMMA MutateMode ==
  ASSUME NEW t \in Targets, NEW c \in Config, NEW d \in Drafts("Cycling")
  PROVE  Mutate(t, c, d).mode \in {t, "Disabled"}
BY DEF Targets, Config, Drafts, Mutate, ModeOf

LEMMA ModeStep == TypeOK /\ ModeInv /\ [Next]_vars => ModeInv'
<1> SUFFICES ASSUME TypeOK, ModeInv, [Next]_vars PROVE ModeInv'
  OBVIOUS
<1> USE DEF ModeInv, Recording, Copying
<1>1. ASSUME NEW t \in Targets, UpdateDraft(t) PROVE ModeInv'
  BY <1>1 DEF UpdateDraft
<1>2. CASE Begin \/ OpenSession \/ OpenFails \/ ReadConfig \/ BuildBlock
  BY <1>2 DEF Begin, OpenSession, OpenFails, FailWith, Goto, ReadConfig, BuildBlock
<1>3. CASE BuildConfig
  <2>1. CASE work.block = NoBlock \/ work.current = NoConfig
    BY <1>3, <2>1 DEF BuildConfig, FailWith, Goto
  <2>2. CASE ~(work.block = NoBlock \/ work.current = NoConfig)
    <3> DEFINE m == Mutate(work.target, work.current, draft[work.target])
    <3>1. work.target \in Targets /\ work.current \in Config /\ draft[work.target] \in Drafts("Cycling")
      BY <2>2 DEF TypeOK, Work
    <3>2. m.mode \in {work.target, "Disabled"}
      BY <3>1, MutateMode
    <3>3. work' = [work EXCEPT !.config = m]
      BY <1>3, <2>2 DEF BuildConfig
    <3>4. work'.config = m /\ work'.target = work.target
      BY <3>3 DEF TypeOK, Work
    <3> HIDE DEF m
    <3> QED BY <3>2, <3>4
  <2> QED BY <2>1, <2>2
<1>4. CASE WriteConfig \/ WriteBlock \/ TransferFails
  BY <1>4 DEF WriteConfig, WriteBlock, Written, TransferFails, Goto
<1>5. CASE ReadBackConfig
  BY <1>5 DEF ReadBackConfig, TypeOK, Work
<1>6. CASE ReadBackBlock \/ Mismatch \/ ManualWrite \/ ManualEnd \/ CloseSession \/ Finish
  BY <1>6 DEF ReadBackBlock, Mismatch, FailWith, Goto, ManualWrite, ManualEnd, CloseSession, Finish
<1>7. CASE Disconnected \/ WifiDrops \/ Reboot
  BY <1>7 DEF Disconnected, WifiDrops, FailSafeReset, Reboot
<1>8. CASE UNCHANGED vars
  BY <1>8 DEF vars
<1>9. CASE RecordApplied
  BY <1>9 DEF RecordApplied, RecordMode, SetLengths, CopyConfig, EndConfig, CopyBlock, EndBlock,
     RecordStep, ClearStale, SetApplied, Goto
<1> QED
  BY <1>1, <1>2, <1>3, <1>4, <1>5, <1>6, <1>7, <1>8, <1>9 DEF Next, Worker

LEMMA FreshStep ==
  TypeOK /\ LocalsInv /\ ModeInv /\ FreshAppliedStands /\ [Next]_vars => FreshAppliedStands'
<1> SUFFICES ASSUME TypeOK, LocalsInv, ModeInv, FreshAppliedStands, [Next]_vars
             PROVE  FreshAppliedStands'
  OBVIOUS
<1> USE DEF FreshAppliedStands, Applying
\* The first write: the window opens, or the chain of writes ends in it.
<1>1. CASE WriteConfig \/ WriteBlock
  BY <1>1 DEF WriteConfig, WriteBlock, Written
\* The window closes on what the device holds.
<1>2. CASE SetApplied
  <2> DEFINE t == work.target
  <2>1. /\ t \in Targets /\ work.config = device.config
        /\ record.config = device.config /\ record.block[t] = device.block[t]
        /\ work.config.mode \in {t, "Disabled"}
    BY <1>2 DEF SetApplied, LocalsInv, RecordingInv, CopiedInv, Recording, Copying, ModeInv,
       TypeOK, Work
  <2>2. record'.config = record.config /\ record'.block = record.block /\ device' = device
    BY <1>2 DEF SetApplied, TypeOK, Record
  <2>3. ASSUME NEW u \in Targets, device.config.mode = u PROVE u = t
    BY <2>1, <2>3 DEF Targets
  <2> QED BY <2>1, <2>2, <2>3
\* A failed step takes the status back, or leaves it.
<1>3. CASE OpenFails \/ ReadConfig \/ BuildConfig \/ TransferFails \/ Mismatch
  BY <1>3 DEF OpenFails, ReadConfig, BuildConfig, TransferFails, Mismatch, FailWith, Goto,
     TypeOK, Record
<1>4. CASE Begin \/ OpenSession \/ BuildBlock \/ ReadBackConfig \/ ReadBackBlock
        \/ CloseSession \/ Finish
  BY <1>4 DEF Begin, OpenSession, BuildBlock, ReadBackConfig, ReadBackBlock, Goto, CloseSession,
     Finish
<1>5. CASE ManualWrite \/ ManualEnd
  BY <1>5 DEF ManualWrite, ManualEnd
<1>6. CASE Disconnected \/ WifiDrops \/ Reboot
  BY <1>6 DEF Disconnected, WifiDrops, FailSafeReset, Reboot
<1>7. ASSUME NEW t \in Targets, UpdateDraft(t) PROVE FreshAppliedStands'
  BY <1>7 DEF UpdateDraft
<1>8. CASE UNCHANGED vars
  BY <1>8 DEF vars
<1>9. CASE RecordMode \/ SetLengths \/ CopyConfig \/ EndConfig \/ CopyBlock \/ EndBlock
        \/ ClearStale
  BY <1>9 DEF RecordMode, SetLengths, CopyConfig, EndConfig, CopyBlock, EndBlock, RecordStep,
     ClearStale, Goto
<1> QED
  BY <1>1, <1>2, <1>3, <1>4, <1>5, <1>6, <1>7, <1>8, <1>9 DEF Next, Worker, RecordApplied

\* "applied" without the stale mark, outside of an apply: the device holds the
\* recorded bytes, unless a manual start has written the configuration since
\* (perform_apply_schedule, mark_boot_stale).
THEOREM FreshAppliedHolds == Spec => []FreshAppliedStands
<1> DEFINE FreshInv == ModeInv /\ FreshAppliedStands
<1>1. Init => FreshInv
  BY DEF Init, ModeInv, Recording, Copying, FreshAppliedStands, NewRecord
<1>2. (TypeOK /\ LocalsInv) /\ FreshInv /\ [Next]_vars => FreshInv'
  BY ModeStep, FreshStep
<1>3. FreshInv => FreshAppliedStands
  OBVIOUS
<1> QED BY LocalsSafe, <1>1, <1>2, <1>3, PTL DEF Spec

-----------------------------------------------------------------------------
\* The pair of recorded bytes, as ConfirmedSchedule has it.
LEMMA RefinementStep ==
  ASSUME TypeOK, LocalsInv, [Next]_vars
  PROVE  [Confirmed!Next]_(Confirmed!vars)
<1> USE DEF Confirmed!Next, Confirmed!vars
<1>1. CASE SetLengths \/ CopyConfig \/ CopyBlock
  <2>1. work.target \in Targets /\ device' = device /\ saved' = saved
    BY <1>1 DEF SetLengths, CopyConfig, CopyBlock, RecordStep, Goto, TypeOK, Work
  <2>2. /\ record'.config \in {record.config, Torn}
        /\ \E b \in {record.block[work.target], Torn} :
             record'.block = [record.block EXCEPT ![work.target] = b]
    BY <1>1, <2>1 DEF SetLengths, CopyConfig, CopyBlock, RecordStep, Goto, TypeOK, Record
  <2>3. Confirmed!Tear(work.target)
    BY <2>1, <2>2 DEF Confirmed!Tear
  <2> QED BY <2>1, <2>3
<1>9. CASE EndConfig
  <2>1. /\ record.config = Torn /\ work.config = device.config
        /\ record' = [record EXCEPT !.config = work.config] /\ device' = device /\ saved' = saved
    BY <1>9 DEF EndConfig, Copied, RecordStep, Goto, LocalsInv, RecordingInv, CopiedInv,
       Recording, Copying
  <2>2. record'.config = device.config /\ record'.block = record.block
    BY <2>1 DEF TypeOK, Record
  <2> QED BY <2>1, <2>2 DEF Confirmed!ConfirmConfig
<1>10. CASE EndBlock
  <2> DEFINE t == work.target
  <2>1. /\ record.block[t] = Torn /\ work.block = device.block[t]
        /\ record.config = device.config
        /\ record' = [record EXCEPT !.block[t] = work.block] /\ device' = device /\ saved' = saved
    BY <1>10 DEF EndBlock, Copied, RecordStep, Goto, LocalsInv, RecordingInv, CopiedInv,
       Recording, Copying
  <2>2. record'.config = record.config /\ record'.block = [record.block EXCEPT ![t] = device.block[t]]
    BY <2>1 DEF TypeOK, Record
  <2>3. t \in Targets
    BY DEF TypeOK, Work
  <2>4. Confirmed!ConfirmBlock(t)
    BY <2>1, <2>2 DEF Confirmed!ConfirmBlock
  <2> QED BY <2>3, <2>4
<1>2. CASE Finish \/ Disconnected \/ WifiDrops
  BY <1>2 DEF Finish, Disconnected, WifiDrops, FailSafeReset, Confirmed!Save
<1>3. ASSUME NEW t \in Targets, UpdateDraft(t) PROVE Confirmed!Save
  BY <1>3 DEF UpdateDraft, Confirmed!Save
<1>4. CASE Reboot
  BY <1>4 DEF Reboot, Confirmed!Restart
<1>5. CASE WriteConfig \/ WriteBlock
  <2>1. record'.config = record.config /\ record'.block = record.block /\ saved' = saved
    BY <1>5 DEF WriteConfig, WriteBlock, Written, TypeOK, Record
  <2> QED BY <2>1 DEF Confirmed!DeviceChanges
<1>6. CASE ManualWrite
  BY <1>6 DEF ManualWrite, Confirmed!DeviceChanges
<1>7. CASE \/ Begin \/ OpenSession \/ OpenFails \/ ReadConfig \/ BuildBlock \/ BuildConfig
           \/ TransferFails \/ ReadBackConfig \/ ReadBackBlock \/ Mismatch \/ RecordMode
           \/ ClearStale \/ SetApplied \/ ManualEnd \/ CloseSession
  <2>1. /\ record'.config = record.config /\ record'.block = record.block
        /\ saved' = saved /\ device' = device
    BY <1>7 DEF Begin, OpenSession, OpenFails, FailWith, Goto, ReadConfig, BuildBlock, BuildConfig,
       TransferFails, ReadBackConfig, ReadBackBlock, Mismatch, RecordMode, RecordStep, ClearStale,
       SetApplied, ManualEnd, CloseSession, TypeOK, Record
  <2> QED BY <2>1
<1>8. CASE UNCHANGED vars
  BY <1>8 DEF vars
<1> QED
  BY <1>1, <1>2, <1>3, <1>4, <1>5, <1>6, <1>7, <1>8, <1>9, <1>10 DEF Next, Worker, RecordApplied

\* No edit, failure, lost link or restart puts bytes into the record or into
\* flash that the device did not hold when they were recorded, halves of a copy
\* excepted.
THEOREM RecordIsConfirmedHolds == Spec => RecordIsConfirmed
<1>1. Init => Confirmed!Init
  BY DEF Init, Confirmed!Init
<1>2. TypeOK /\ LocalsInv /\ [Next]_vars => [Confirmed!Next]_(Confirmed!vars)
  BY RefinementStep
<1> QED BY LocalsSafe, <1>1, <1>2, PTL DEF Spec, RecordIsConfirmed, Confirmed!Spec
=============================================================================
