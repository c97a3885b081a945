-------------------------- MODULE HunterProtocolCheck --------------------------
(***************************************************************************)
(* The operators of HunterProtocol on one input after another: every mask, *)
(* times and durations at the edges, notifications of every length.        *)
(***************************************************************************)
EXTENDS HunterProtocol

CONSTANTS Times,      \* seconds of the day
          Durations,  \* manual durations
          Bytes       \* the bytes a notification is made of

\* The times and durations that are shown were accepted.
ASSUME TimesAssumption == Times \subseteq {s \in Int : SecondOfDay(s)}
ASSUME DurationsAssumption == Durations \subseteq 0..MaxWateringSeconds
ASSUME BytesAssumption == Bytes \subseteq 0..255

VARIABLE input

InputInit == input = [kind |-> "none"]

Payloads(n) ==
  {[i \in 1..n |-> IF i = n - 1 THEN a ELSE IF i = n THEN b ELSE IF i = 5 THEN flag ELSE 1] :
     a \in Bytes, b \in Bytes, flag \in Bytes}

AnyMask == \E m \in 0..127 : input' = [kind |-> "mask", mask |-> m]
AnyTime == \E s \in Times : input' = [kind |-> "time", seconds |-> s]
AnyDuration == \E d \in Durations : input' = [kind |-> "duration", seconds |-> d]
AnyNotification ==
  \E n \in 0..20 : \E p \in Payloads(n) : input' = [kind |-> "notification", payload |-> p]

\* test/fixtures/hunter_protocol_fixtures.json: what was captured of the phone
\* app, and what the code makes of the same settings.
TimerDraft == [enabled |-> TRUE, days |-> 1, run |-> 3930,
               starts |-> <<8 * 3600 + 7 * 60, Off, Off, Off>>]
CyclingDraft == [enabled |-> TRUE, days |-> 127, run |-> 10, soak |-> 7,
                 start |-> <<9 * 3600 + 11 * 60, Off>>, end |-> <<10 * 3600 + 30 * 60, Off>>]

Capture(built, captured) == [built |-> built, captured |-> captured]

PacketCaptures ==
  {Capture(PreparePacket(1, 10), <<1, 0, 1, 2, 0, 1, 2, 0, 10, 0, 0, 0>>),
   Capture(ArmPacket(1, 10),     <<1, 0, 1, 2, 1, 1, 2, 0, 10, 0, 0, 0>>),
   Capture(ArmPacket(2, 10),     <<1, 0, 2, 2, 1, 2, 2, 0, 10, 0, 0, 0>>),
   Capture(PreparePacket(2, 10), StopPacket),
   Capture(DurationPacket(60), <<4, 1, 127, 255, 255, 255, 255, 0, 255, 255, 255, 0, 1, 0, 0, 30, 0>>),
   Capture(DurationPacket(35), <<4, 1, 127, 255, 255, 255, 255, 0, 255, 255, 255, 0, 0, 35, 0, 30, 0>>)}

\* The layout of the two captured blocks.
BlockCaptures ==
  {Capture(Triplets(TimerParts(TimerDraft)),
           <<8, 7, 0, 255, 255, 255, 255, 255, 255, 255, 255, 255, 1, 5, 30>>),
   Capture(Triplets(CyclingParts(CyclingDraft)),
           <<9, 11, 0, 10, 30, 0, 255, 255, 255, 255, 255, 255, 0, 0, 10, 0, 0, 7>>)}

ConfigCaptures ==
  {Capture(MutateConfig("Timer", <<0, 1, 76, 255, 255, 255, 1, 76, 255, 255, 255, 0, 0, 2, 0, 30, 0>>,
                        TRUE, TimerDraft.days),
           <<1, 1, 1, 255, 255, 255, 1, 76, 255, 255, 255, 0, 0, 2, 0, 30, 0>>),
   Capture(MutateConfig("Cycling", <<2, 1, 127, 255, 255, 255, 1, 1, 255, 255, 255, 0, 0, 35, 0, 30, 0>>,
                        TRUE, CyclingDraft.days),
           <<2, 1, 127, 255, 255, 255, 1, 127, 255, 255, 255, 0, 0, 35, 0, 30, 0>>)}

Captures == PacketCaptures \union BlockCaptures \union ConfigCaptures

AnyCapture == \E c \in Captures : input' = [kind |-> "capture", capture |-> c]

InputNext == AnyMask \/ AnyTime \/ AnyDuration \/ AnyNotification \/ AnyCapture

InputSpec == InputInit /\ [][InputNext]_input

-----------------------------------------------------------------------------
\* What is published for a day mask or a time and sent back sets the same.
RoundTrips ==
  /\ input.kind = "mask" =>
       LET text == FormatDays(input.mask) IN DaysOk(text) /\ ParseDays(text) = input.mask
  /\ input.kind = "time" =>
       LET text == FormatTime(input.seconds) IN TimeOk(text) /\ ParseTime(text) = input.seconds

\* A countdown that starts with the minutes and seconds of the duration packet
\* reads as the duration, up to the full hour; a stop is confirmed only by a
\* payload that has a running flag, of zero, and the tail (at five bytes the
\* flag is the last byte, at six the one before).
NotificationsDecode ==
  /\ input.kind = "duration" =>
       LET packet == DurationPacket(input.seconds)
           tick == [i \in 1..16 |-> IF i \in {12, 13} THEN packet[i + 1] ELSE 0]
       IN Len(packet) = 17 /\ RemainingSeconds(tick) = input.seconds
  /\ input.kind = "notification" =>
       LET p == input.payload
           n == Len(p)
       IN StopConfirmed(p) <=> n >= 5 /\ p[5] = 0 /\ <<p[n - 1], p[n]>> = <<128, 0>>

\* The packets and configurations are built as they were captured, the stop
\* packet being the prepare packet of zone 2, and the triplets of the two blocks
\* are laid out as captured; but the blocks themselves are never built: a run of
\* 3930 seconds and a window of 79 minutes are beyond the limits (the
\* repository's test looks at lengths and single bytes).
MatchesCaptures ==
  input.kind = "capture" =>
    /\ input.capture.built = input.capture.captured
    /\ TimerBlock(TimerDraft) = NoBlock /\ CyclingBlock(CyclingDraft) = NoBlock
=============================================================================
