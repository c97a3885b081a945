---------------------------- MODULE HunterProtocol ----------------------------
(***************************************************************************)
(* hunter_protocol.cpp as operators: validation of the drafts, the packets *)
(* and blocks, the notifications, the texts of times and days.             *)
(*                                                                         *)
(* Bytes are 0..255 in sequences indexed from 1.  A std::uint32_t that is  *)
(* cast to std::int32_t is kept as the signed number it becomes: the       *)
(* values from 2^31 on are the negative ones.                              *)
(***************************************************************************)
EXTENDS Integers, Sequences, FiniteSets

MaxWateringSeconds == 3600
Off == -1
ModeByte == [Disabled |-> 0, Timer |-> 1, Cycling |-> 2]

\* Mutant: compared as a signed number.
ExceedsSigned(x, n) == x > n

\* x > n for an unsigned x.
ExceedsUnsigned(x, n) == x < 0 \/ x > n

SecondOfDay(s) == s = Off \/ (0 <= s /\ s <= 86399)

\* Mutant: the minutes of the whole day instead of the hour.
EncodeHmsWholeMinutes(s) ==
  IF s = Off THEN <<255, 255, 255>> ELSE <<s \div 3600, (s \div 60) % 256, s % 60>>

EncodeHms(s) ==
  IF s = Off THEN <<255, 255, 255>> ELSE <<s \div 3600, (s % 3600) \div 60, s % 60>>

-----------------------------------------------------------------------------
(***************************************************************************)
(* Drafts.  A timer draft has four start times, a cycling draft two        *)
(* windows [start, end].                                                   *)
(***************************************************************************)
ValidTimer(d) ==
  /\ ~ExceedsUnsigned(d.run, MaxWateringSeconds)
  /\ \A i \in 1..4 : SecondOfDay(d.starts[i])
  /\ d.enabled => \E i \in 1..4 : d.starts[i] # Off

ValidWindow(start, end) ==
  /\ (start = Off) = (end = Off)
  /\ SecondOfDay(start) /\ SecondOfDay(end)
  /\ start # Off => start <= end /\ end - start <= MaxWateringSeconds

\* Mutant: only the first window is validated.
ValidCyclingFirst(d) ==
  /\ ~ExceedsUnsigned(d.run, MaxWateringSeconds)
  /\ ValidWindow(d.start[1], d.end[1])
  /\ d.enabled => \E i \in 1..2 : d.start[i] # Off

\* Mutant: run_seconds is not looked at either.
ValidCyclingAnyRun(d) ==
  /\ \A i \in 1..2 : ValidWindow(d.start[i], d.end[i])
  /\ d.enabled => \E i \in 1..2 : d.start[i] # Off

\* soak_seconds is not looked at.
ValidCycling(d) ==
  /\ ~ExceedsUnsigned(d.run, MaxWateringSeconds)
  /\ \A i \in 1..2 : ValidWindow(d.start[i], d.end[i])
  /\ d.enabled => \E i \in 1..2 : d.start[i] # Off

\* The seconds a block encodes, in order; every one must be encodable.
TimerParts(d) == <<d.starts[1], d.starts[2], d.starts[3], d.starts[4], d.run>>
CyclingParts(d) == <<d.start[1], d.end[1], d.start[2], d.end[2], d.run, d.soak>>

Encodable(parts) == \A i \in DOMAIN parts : SecondOfDay(parts[i])

Triplets(parts) ==
  [i \in 1..(3 * Len(parts)) |-> EncodeHms(parts[((i - 1) \div 3) + 1])[((i - 1) % 3) + 1]]

\* build_timer_block and build_cycling_block validate the draft, then encode it.
NoBlock == <<>>
Built(valid, parts) == IF valid /\ Encodable(parts) THEN Triplets(parts) ELSE NoBlock
TimerBlock(d) == Built(ValidTimer(d), TimerParts(d))
CyclingBlock(d) == Built(ValidCycling(d), CyclingParts(d))

\* Mutant: both targets write the timer's day mask.
MutateConfigTimer(target, current, enabled, mask) ==
  [current EXCEPT ![1] = IF enabled THEN ModeByte[target] ELSE 0, ![3] = mask]

\* mutate_timer_config, mutate_cycling_config: bytes 0 and 2, or 0 and 7.
MutateConfig(target, current, enabled, mask) ==
  [current EXCEPT ![1] = IF enabled THEN ModeByte[target] ELSE 0,
                  ![IF target = "Timer" THEN 3 ELSE 8] = mask]

-----------------------------------------------------------------------------
(***************************************************************************)
(* Packets and notifications.                                              *)
(***************************************************************************)
ZonePacket(zone, command, hint) == <<1, 0, zone, 2, command, zone, 2, 0, hint, 0, 0, 0>>
PreparePacket(zone, hint) == ZonePacket(zone, 0, hint)
ArmPacket(zone, hint) == ZonePacket(zone, 1, hint)
StopPacket == <<1, 0, 2, 2, 0, 2, 2, 0, 10, 0, 0, 0>>

\* Of a number of seconds that is at most MaxWateringSeconds.
DurationPacket(total) ==
  <<4, 1, 127, 255, 255, 255, 255, 0, 255, 255, 255, 0, total \div 60, total % 60, 0, 30, 0>>

\* decode_ff8a_remaining_seconds, Off for no value.
RemainingSeconds(payload) ==
  IF Len(payload) # 16 \/ payload[13] > 59 THEN Off ELSE payload[12] * 60 + payload[13]

\* parse_ff82_state: the running flag is read only from five bytes on.
RunningFlag(payload) == IF Len(payload) >= 5 THEN payload[5] ELSE Off

\* Mutant: the tail alone confirms the stop.
StopConfirmedByTail(payload) ==
  LET n == Len(payload) IN n >= 2 /\ payload[n - 1] = 128 /\ payload[n] = 0

StopConfirmed(payload) ==
  LET n == Len(payload)
  IN n >= 2 /\ payload[n - 1] = 128 /\ payload[n] = 0 /\ RunningFlag(payload) = 0

-----------------------------------------------------------------------------
(***************************************************************************)
(* Texts.  A time is "OFF", the three numbers sscanf finds, or text in     *)
(* which it does not find three.  Days are the sequence of tokens between  *)
(* the commas, upper case and without blanks; ALL and NONE with blanks     *)
(* around them are other tokens, which are not days.                       *)
(***************************************************************************)
Days == <<"MON", "TUE", "WED", "THU", "FRI", "SAT", "SUN">>

TimeOk(text) ==
  \/ text = <<"OFF">>
  \/ Len(text) = 3 /\ text[1] \in 0..23 /\ text[2] \in 0..59 /\ text[3] \in 0..59

ParseTime(text) ==
  IF text = <<"OFF">> THEN Off ELSE text[1] * 3600 + text[2] * 60 + text[3]

\* Mutant: OFF is missing.
FormatTimeNoOff(s) == <<s \div 3600, (s % 3600) \div 60, s % 60>>

FormatTime(s) ==
  IF s = Off THEN <<"OFF">> ELSE <<s \div 3600, (s % 3600) \div 60, s % 60>>

\* The bits of a day mask.
Bit(i) == 2 ^ (i - 1)
HasBit(mask, i) == (mask \div Bit(i)) % 2 = 1
Mask(days) ==
  LET b(i) == IF i \in days THEN Bit(i) ELSE 0
  IN b(1) + b(2) + b(3) + b(4) + b(5) + b(6) + b(7)

DaysOk(text) ==
  \/ text \in {<<>>, <<"ALL">>, <<"NONE">>}
  \/ \A k \in DOMAIN text : text[k] = "" \/ \E i \in 1..7 : text[k] = Days[i]

ParseDays(text) ==
  IF text = <<"ALL">> THEN 127
  ELSE Mask({i \in 1..7 : \E k \in DOMAIN text : text[k] = Days[i]})

\* The days of a mask in their order.
Token(mask, i) == IF HasBit(mask, i) THEN <<Days[i]>> ELSE <<>>
Tokens(mask) ==
  Token(mask, 1) \o Token(mask, 2) \o Token(mask, 3) \o Token(mask, 4) \o Token(mask, 5)
    \o Token(mask, 6) \o Token(mask, 7)

\* Mutant: the test for all days is missing the Sunday bit.
FormatDaysSixBits(mask) ==
  IF mask = 0 THEN <<"NONE">> ELSE IF mask >= 63 THEN <<"ALL">> ELSE Tokens(mask)

FormatDays(mask) ==
  IF mask = 0 THEN <<"NONE">> ELSE IF mask = 127 THEN <<"ALL">> ELSE Tokens(mask)

=============================================================================
