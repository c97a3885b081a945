---------------------------- MODULE ScheduleDrafts ----------------------------
(***************************************************************************)
(* The manual duration and the draft of one schedule of a zone under the   *)
(* messages of its settings: every message carries one field; of a draft   *)
(* handle_zone_command makes a copy, sets that field and offers the whole  *)
(* for validation.                                                         *)
(*                                                                         *)
(* The messages are handled one by one in the mqtt_bridge task.            *)
(***************************************************************************)
EXTENDS HunterProtocol

CONSTANTS TimeTexts,  \* what is sent to a time field
          DaysTexts,  \* what is sent to the days field
          Seconds     \* what strtoul makes of what is sent to a number field

ASSUME SecondsAssumption == Seconds \subseteq Int

VARIABLES target,   \* the schedule the messages are about
          draft,    \* zone_state.timer or zone_state.cycling
          manual,   \* zone_state.manual_duration_seconds
          uiError   \* last_ui_error_ is not empty

vars == <<target, draft, manual, uiError>>

\* validate_timer_draft or validate_cycling_draft
Valid(d) == IF target = "Timer" THEN ValidTimer(d) ELSE ValidCycling(d)

NewDraft ==
  IF target = "Timer"
    THEN [enabled |-> FALSE, days |-> 0, run |-> 0, starts |-> <<Off, Off, Off, Off>>]
    ELSE [enabled |-> FALSE, days |-> 0, run |-> 0, soak |-> 0,
          start |-> <<Off, Off>>, end |-> <<Off, Off>>]

Init ==
  /\ target \in {"Timer", "Cycling"}
  /\ draft = NewDraft /\ manual = 600 /\ uiError = FALSE

-----------------------------------------------------------------------------
\* update_timer_draft, update_cycling_draft
Offer(d) ==
  /\ uiError' = ~Valid(d)
  /\ draft' = IF Valid(d) THEN d ELSE draft
  /\ UNCHANGED <<target, manual>>

Reject == uiError' = TRUE /\ UNCHANGED <<target, draft, manual>>

\* update_manual_duration: the number is kept in 16 bits.
SetDuration(seconds) ==
  IF ExceedsUnsigned(seconds, MaxWateringSeconds) THEN Reject
  ELSE manual' = seconds % 2^16 /\ uiError' = FALSE /\ UNCHANGED <<target, draft>>

SetEnabled(on) == Offer([draft EXCEPT !.enabled = on])

SetDays(text) ==
  IF DaysOk(text) THEN Offer([draft EXCEPT !.days = ParseDays(text)]) ELSE Reject

SetRun(seconds) == Offer([draft EXCEPT !.run = seconds])

SetSoak(seconds) == target = "Cycling" /\ Offer([draft EXCEPT !.soak = seconds])

SetStartTime(slot, text) ==
  /\ target = "Timer"
  /\ IF TimeOk(text) THEN Offer([draft EXCEPT !.starts[slot] = ParseTime(text)]) ELSE Reject

SetWindow(edge, slot, text) ==
  /\ target = "Cycling"
  /\ IF TimeOk(text)
       THEN Offer([draft EXCEPT ![edge] = [@ EXCEPT ![slot] = ParseTime(text)]])
       ELSE Reject

\* The messages with which a user enters the first window.
EnterStart == \E text \in TimeTexts \ {<<"OFF">>} : SetWindow("start", 1, text)
EnterEnd == \E text \in TimeTexts \ {<<"OFF">>} : SetWindow("end", 1, text)

Next ==
  \/ \E on \in BOOLEAN : SetEnabled(on)
  \/ \E text \in DaysTexts : SetDays(text)
  \/ \E s \in Seconds : SetRun(s) \/ SetSoak(s) \/ SetDuration(s)
  \/ \E text \in TimeTexts :
       \/ \E slot \in 1..4 : SetStartTime(slot, text)
       \/ \E edge \in {"start", "end"}, slot \in 1..2 : SetWindow(edge, slot, text)

Spec == Init /\ [][Next]_vars

\* Somebody keeps entering the window, until it is there.
InsistingSpec == Spec /\ WF_vars(EnterStart) /\ WF_vars(EnterEnd)

-----------------------------------------------------------------------------
\* What a schedule would have the valve do is bounded whatever was sent in
\* whatever order: the stored draft is valid, an enabled one has a time, a
\* window lies within a day and within the watering limit.
Bounded ==
  /\ Valid(draft)
  /\ manual \in 0..MaxWateringSeconds
  /\ draft.run \in 0..MaxWateringSeconds /\ draft.days \in 0..127
  /\ IF target = "Timer"
       THEN draft.enabled => \E i \in 1..4 : 0 <= draft.starts[i] /\ draft.starts[i] <= 86399
       ELSE /\ draft.enabled => \E i \in 1..2 : 0 <= draft.start[i] /\ draft.start[i] <= 86399
            /\ \A i \in 1..2 : draft.start[i] # Off =>
                 draft.end[i] - draft.start[i] \in 0..MaxWateringSeconds

\* What is built from a stored draft decodes to its seconds, or, because
\* soak_seconds is not validated, is not built at all.
DecodeHms(b) == IF b = <<255, 255, 255>> THEN Off ELSE b[1] * 3600 + b[2] * 60 + b[3]

Parts == IF target = "Timer" THEN TimerParts(draft) ELSE CyclingParts(draft)

Block == IF target = "Timer" THEN TimerBlock(draft) ELSE CyclingBlock(draft)

BlockDecodes ==
  Block # NoBlock =>
    /\ Len(Block) = IF target = "Timer" THEN 15 ELSE 18
    /\ \A i \in DOMAIN Parts :
         DecodeHms(<<Block[3 * i - 2], Block[3 * i - 1], Block[3 * i]>>) = Parts[i]

\* Only soak_seconds can keep a stored draft from being built.
OnlySoakIsUnbuildable ==
  Block = NoBlock => target = "Cycling" /\ ~SecondOfDay(draft.soak)

\* No window can be entered: each of its two messages is rejected while the
\* other end is OFF.
WindowsStayOff ==
  target = "Cycling" => \A i \in 1..2 : draft.start[i] = Off /\ draft.end[i] = Off

\* "Set Zone 2 cycling draft, apply, and confirm `applied`": a user who keeps
\* entering a window has it in the end (checked to fail).
WindowCanBeEntered == target = "Cycling" => <>(target = "Cycling" /\ draft.start[1] # Off)
=============================================================================
