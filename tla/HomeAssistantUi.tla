---------------------------- MODULE HomeAssistantUi ----------------------------
(***************************************************************************)
(* The bridge as a user of Home Assistant meets it: publish_discovery      *)
(* announces entities, every entity shows retained topics of publish_state *)
(* and sends to a command topic what Home Assistant lets the user enter,   *)
(* and process_command and handle_zone_command find the setting or the     *)
(* request a topic names.                                                  *)
(*                                                                         *)
(* A topic is the sequence of its levels below the base topic.  The state  *)
(* is that of ScheduleDrafts for one schedule of one zone; the settings of *)
(* the others go the same way.                                             *)
(***************************************************************************)
EXTENDS ScheduleDrafts

CONSTANTS UiTimes,   \* times a user may think of entering
          UiDays,    \* day lists
          UiSeconds  \* numbers

VARIABLES zone,     \* whose record ScheduleDrafts is about
          gesture,  \* what the user did last: the entity and the value
          asked     \* the request it made of the coordinator

uiVars == <<vars, zone, gesture, asked>>

Zones == {"zone1", "zone2"}
Schedules == {"timer", "cycling"}
Schedule == IF target = "Timer" THEN "timer" ELSE "cycling"

StartFields == <<"start1", "start2", "start3", "start4">>
WindowFields == [start |-> <<"start1", "start2">>, end |-> <<"end1", "end2">>]
TimeFields(s) ==
  IF s = "timer" THEN {StartFields[i] : i \in 1..4}
  ELSE {WindowFields[edge][i] : edge \in {"start", "end"}, i \in 1..2}

-----------------------------------------------------------------------------
(***************************************************************************)
(* publish_discovery.  "name" stands for the object id and the name the    *)
(* user reads.                                                             *)
(***************************************************************************)
Nowhere == <<>>

Sensor(name, state, attr) ==
  [kind |-> "sensor", name |-> name, state |-> state, attr |-> attr, cmd |-> Nowhere]
Button(name, cmd) ==
  [kind |-> "button", name |-> name, state |-> Nowhere, attr |-> Nowhere, cmd |-> cmd]
Control(kind, name, state, cmd) ==
  [kind |-> kind, name |-> name, state |-> state, attr |-> Nowhere, cmd |-> cmd]

BridgeEntities ==
  {Sensor(<<"bridge", "health">>, <<"state", "bridge", "health">>, <<"attr", "bridge">>),
   Sensor(<<"battery", "percent">>, <<"state", "battery", "percent">>, <<"attr", "bridge">>),
   Button(<<"battery", "refresh">>, <<"cmd", "battery", "refresh">>)}

ZoneEntities(z) ==
  {Button(<<z, what>>, <<"cmd", z, what>>) : what \in {"start", "stop"}}
  \union {Control("duration", <<z, "manual_duration_seconds">>,
                  <<"state", z, "manual_duration_seconds">>,
                  <<"cmd", z, "manual_duration_seconds", "set">>)}
  \union {Sensor(<<z, what>>, <<"state", z, what>>, <<"attr", z, "runtime">>) :
            what \in {"runtime_state", "remaining_seconds", "active_schedule_mode"}}

Setting(kind, z, s, field) ==
  Control(kind, <<z, s, field>>, <<"state", z, s, field>>, <<"cmd", z, s, field, "set">>)

ScheduleEntities(z, s) ==
  {Setting("switch", z, s, "enabled"), Setting("days", z, s, "days"),
   Setting("duration", z, s, "run_seconds"),
   Button(<<z, s, "apply">>, <<"cmd", z, s, "apply">>),
   Sensor(<<z, s, "apply_status">>, <<"state", z, s, "apply_status">>, <<"attr", z, s>>)}
  \union {Setting("time", z, s, field) : field \in TimeFields(s)}
  \union (IF s = "cycling" THEN {Setting("pause", z, s, "soak_seconds")} ELSE {})

Entities ==
  BridgeEntities
  \union (UNION {ZoneEntities(z) : z \in Zones})
  \union (UNION {ScheduleEntities(z, s) : z \in Zones, s \in Schedules})

\* kPattern allows the hours 24 to 29 too.
MatchesPattern(t) ==
  \/ t = <<"OFF">>
  \/ Len(t) = 3 /\ t[1] \in 0..29 /\ t[2] \in 0..59 /\ t[3] \in 0..59

\* Mutant: numbers without a limit.
NumbersUnlimited(kind) == UiSeconds

\* min and max of a number.
Numbers(kind) == UiSeconds \intersect (IF kind = "pause" THEN 0 ELSE 1)..MaxWateringSeconds

\* What Home Assistant lets the user enter.
Enterable(kind) ==
  CASE kind = "button" -> {"PRESS"}
    [] kind = "switch" -> {"ON", "OFF"}
    [] kind = "days" -> UiDays
    [] kind = "time" -> {t \in UiTimes : MatchesPattern(t)}
    [] kind \in {"duration", "pause"} -> Numbers(kind)

-----------------------------------------------------------------------------
(***************************************************************************)
(* publish_state: the topics, and what a setting's topic shows.            *)
(***************************************************************************)
BridgeTopics ==
  {<<"state", "bridge", "health">>, <<"state", "battery", "percent">>, <<"attr", "bridge">>}

ZoneTopics(z) ==
  {<<"state", z, what>> : what \in {"manual_duration_seconds", "runtime_state",
                                    "remaining_seconds", "active_schedule_mode"}}
  \union {<<"attr", z, "runtime">>}

ScheduleTopics(z, s) ==
  {<<"state", z, s, field>> : field \in
     {"enabled", "days", "run_seconds", "apply_status"} \union TimeFields(s)
     \union (IF s = "cycling" THEN {"soak_seconds"} ELSE {})}
  \union {<<"attr", z, s>>}

PublishedTopics ==
  BridgeTopics \union (UNION {ZoneTopics(z) : z \in Zones})
  \union (UNION {ScheduleTopics(z, s) : z \in Zones, s \in Schedules})

\* The payloads of zone and Schedule.
ShownDuration == manual
ShownEnabled == IF draft.enabled THEN "ON" ELSE "OFF"
ShownDays == FormatDays(draft.days)
ShownSeconds(field) == IF field = "run_seconds" THEN draft.run ELSE draft.soak
ShownTime(field) ==
  IF target = "Timer"
    THEN FormatTime(draft.starts[CHOOSE i \in 1..4 : StartFields[i] = field])
    ELSE LET edge == IF field \in {"start1", "start2"} THEN "start" ELSE "end"
         IN FormatTime(draft[edge][CHOOSE i \in 1..2 : WindowFields[edge][i] = field])

-----------------------------------------------------------------------------
(***************************************************************************)
(* process_command and handle_zone_command.                                *)
(***************************************************************************)

\* A request of the coordinator is accepted, or rejected with an error.
Ask(request) ==
  /\ asked' = request /\ uiError' \in BOOLEAN
  /\ UNCHANGED <<target, draft, manual>>

\* No comparison of topics finds the message: it is dropped without a word.
Dropped == asked' = <<>> /\ UNCHANGED vars

\* Mutant: no topic of a window's end.
SettingsNoEnds ==
  {"enabled", "days", "run_seconds"}
  \union IF target = "Timer" THEN {StartFields[slot] : slot \in 1..4}
         ELSE {"soak_seconds"} \union {WindowFields["start"][slot] : slot \in 1..2}

\* The fields of the Schedule that the handler compares with.
Settings ==
  {"enabled", "days", "run_seconds"}
  \union IF target = "Timer" THEN {StartFields[slot] : slot \in 1..4}
         ELSE {"soak_seconds"} \union {WindowFields[edge][slot] : edge \in {"start", "end"}, slot \in 1..2}

SetField(field, value) ==
  \/ field = "enabled" /\ SetEnabled(value = "ON")
  \/ field = "days" /\ SetDays(value)
  \/ field = "run_seconds" /\ SetRun(value)
  \/ field = "soak_seconds" /\ SetSoak(value)
  \/ \E slot \in 1..4 : field = StartFields[slot] /\ SetStartTime(slot, value)
  \/ \E edge \in {"start", "end"}, slot \in 1..2 :
       field = WindowFields[edge][slot] /\ SetWindow(edge, slot, value)

Requests == {<<"start">>, <<"stop">>} \union {<<s, "apply">> : s \in Schedules}

HandleZoneCommand(z, suffix, value) ==
  CASE suffix \in Requests /\ value = "PRESS" -> Ask(<<z>> \o suffix)
    [] suffix = <<"manual_duration_seconds", "set">> -> SetDuration(value) /\ asked' = <<>>
    [] suffix \in {<<Schedule, field, "set">> : field \in Settings} ->
         SetField(suffix[2], value) /\ asked' = <<>>
    [] OTHER -> Dropped

ProcessCommand(topic, value) ==
  CASE topic = <<"cmd", "battery", "refresh">> /\ value = "PRESS" -> Ask(<<"battery", "refresh">>)
    [] topic[2] \in Zones -> HandleZoneCommand(topic[2], SubSeq(topic, 3, Len(topic)), value)
    [] OTHER -> Dropped

\* The entities that act on the state kept here.
Mine(e) ==
  \/ e.kind = "button"
  \/ e.cmd # Nowhere /\ e.cmd[2] = zone /\ e.cmd[3] \in {Schedule, "manual_duration_seconds"}

Use(e, value) ==
  /\ gesture' = [entity |-> e, value |-> value]
  /\ ProcessCommand(e.cmd, value)
  /\ UNCHANGED zone

NoGesture == [entity |-> [kind |-> "none"]]

UiInit ==
  /\ Init
  /\ zone \in Zones /\ gesture = NoGesture /\ asked = <<>>

UiNext == \E e \in {e \in Entities : Mine(e)} : \E value \in Enterable(e.kind) : Use(e, value)

UiSpec == UiInit /\ [][UiNext]_uiVars

-----------------------------------------------------------------------------
\* What the entity shows once its topics are published means what was entered.
Shows(e, value) ==
  IF e.state = <<"state", zone, "manual_duration_seconds">> THEN ShownDuration = value
  ELSE CASE e.kind = "switch" -> ShownEnabled = value
         [] e.kind = "days" -> ParseDays(ShownDays) = ParseDays(value)
         [] e.kind = "time" -> ShownTime(e.state[4]) = FormatTime(ParseTime(value))
         [] e.kind \in {"duration", "pause"} -> ShownSeconds(e.state[4]) = value

\* Nothing a user does is lost between the announced topics and the handlers:
\* a button makes the request its name says, a setting shows what was entered,
\* or there is an error to see; and the entities read exactly what is
\* published (a topic is spelled in three functions, far apart).
UiIsServed ==
  /\ gesture.entity.kind # "none" /\ ~uiError =>
       IF gesture.entity.kind = "button" THEN asked = gesture.entity.name
       ELSE Shows(gesture.entity, gesture.value)
  /\ (UNION {{e.state, e.attr} : e \in Entities}) \ {Nowhere} = PublishedTopics

\* What Home Assistant lets a user enter can always be built and applied.
UiBuilds == Block # NoBlock
=============================================================================
