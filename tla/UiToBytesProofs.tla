---------------------------- MODULE UiToBytesProofs ----------------------------
(***************************************************************************)
(* What UiToBytes promises for every set of texts, numbers, times and      *)
(* bytes: lemmas about the texts and the bytes, about the drafts, about    *)
(* the entities of Home Assistant, and then the invariants of all steps.   *)
(***************************************************************************)
EXTENDS UiToBytes, SequenceTheorems, TLAPS

(***************************************************************************)
(* Texts and bytes.                                                        *)
(***************************************************************************)
\* The tokens of a text, whatever their order.
Has(text, x) == \E k \in DOMAIN text : text[k] = x

\* A mask is the sum of the bits that are read off it.
LEMMA BitsOfMask ==
  ASSUME NEW mask \in 0..127
  PROVE  Mask({i \in 1..7 : HasBit(mask, i)}) = mask
<1> DEFINE b(i) == IF HasBit(mask, i) THEN Bit(i) ELSE 0
<1>1. /\ Bit(1) = 1 /\ Bit(2) = 2 /\ Bit(3) = 4 /\ Bit(4) = 8 /\ Bit(5) = 16
      /\ Bit(6) = 32 /\ Bit(7) = 64
  BY DEF Bit
<1>2. b(1) + b(2) + b(3) + b(4) + b(5) + b(6) + b(7) = mask
  <2>1. /\ b(1) = mask % 2
        /\ b(2) = 2 * ((mask \div 2) % 2)
        /\ b(3) = 4 * ((mask \div 4) % 2)
        /\ b(4) = 8 * ((mask \div 8) % 2)
        /\ b(5) = 16 * ((mask \div 16) % 2)
        /\ b(6) = 32 * ((mask \div 32) % 2)
        /\ b(7) = 64 * ((mask \div 64) % 2)
    <3>1. \A x \in Int : x % 2 \in {0, 1}
      BY Z3
    <3>2. ASSUME NEW i \in 1..7, NEW w \in 1..64, Bit(i) = w
          PROVE  b(i) = w * ((mask \div w) % 2)
      <4> DEFINE r == (mask \div w) % 2
      <4>1. mask \div w \in Int
        BY Z3
      <4>2. r \in {0, 1}
        BY <3>1, <4>1
      <4>3. b(i) = IF r = 1 THEN w ELSE 0
        BY <3>2 DEF HasBit
      <4> HIDE DEF r, b
      <4>4. b(i) = w * r
        BY <4>2, <4>3
      <4> QED BY <4>4 DEF r
    <3>3. mask \div 1 = mask
      BY Z3
    <3> HIDE DEF b
    <3>4. b(1) = 1 * ((mask \div 1) % 2)
      BY <1>1, <3>2
    <3> QED BY <1>1, <3>2, <3>3, <3>4
  <2> HIDE DEF b
  <2>2. mask = (mask % 2) + 2 * ((mask \div 2) % 2) + 4 * ((mask \div 4) % 2)
               + 8 * ((mask \div 8) % 2) + 16 * ((mask \div 16) % 2)
               + 32 * ((mask \div 32) % 2) + 64 * ((mask \div 64) % 2)
    BY Z3
  <2> QED BY <2>1, <2>2
<1> QED BY <1>2 DEF Mask

\* What a concatenation has.
LEMMA HasConcat ==
  ASSUME NEW S, NEW s \in Seq(S), NEW t \in Seq(S), NEW x
  PROVE  Has(s \o t, x) <=> Has(s, x) \/ Has(t, x)
<1>1. ASSUME NEW k \in DOMAIN s PROVE k \in DOMAIN (s \o t) /\ (s \o t)[k] = s[k]
  OBVIOUS
<1>2. ASSUME NEW k \in DOMAIN t
      PROVE  Len(s) + k \in DOMAIN (s \o t) /\ (s \o t)[Len(s) + k] = t[k]
  OBVIOUS
<1>3. ASSUME NEW k \in DOMAIN (s \o t), k \notin DOMAIN s
      PROVE  k - Len(s) \in DOMAIN t /\ (s \o t)[k] = t[k - Len(s)]
  <2>1. k \in 1..(Len(s) + Len(t)) /\ k > Len(s)
    BY <1>3
  <2> QED BY <2>1
<1> QED BY <1>1, <1>2, <1>3 DEF Has

DayNames == {Days[i] : i \in 1..7}

\* A text of days has the names of the days of its mask.
LEMMA TokensOfMask ==
  ASSUME NEW mask
  PROVE  /\ Tokens(mask) \in Seq(DayNames)
         /\ \A x : Has(Tokens(mask), x) <=> \E i \in 1..7 : HasBit(mask, i) /\ x = Days[i]
<1>1. ASSUME NEW i \in 1..7
      PROVE  /\ Token(mask, i) \in Seq(DayNames)
             /\ \A x : Has(Token(mask, i), x) <=> HasBit(mask, i) /\ x = Days[i]
  <2>1. Days[i] \in DayNames
    BY DEF DayNames
  <2>2. CASE HasBit(mask, i)
    BY <2>1, <2>2 DEF Token, Has
  <2>3. CASE ~HasBit(mask, i)
    BY <2>3 DEF Token, Has
  <2> QED BY <2>2, <2>3
<1> DEFINE t(i) == Token(mask, i)
<1>2. \A i \in 1..7 : t(i) \in Seq(DayNames)
  BY <1>1
<1> DEFINE t2 == t(1) \o t(2)
           t3 == t2 \o t(3)
           t4 == t3 \o t(4)
           t5 == t4 \o t(5)
           t6 == t5 \o t(6)
           t7 == t6 \o t(7)
<1>3. t7 = Tokens(mask)
  BY DEF Tokens
<1> HIDE DEF t
<1>4. /\ t2 \in Seq(DayNames) /\ t3 \in Seq(DayNames) /\ t4 \in Seq(DayNames)
      /\ t5 \in Seq(DayNames) /\ t6 \in Seq(DayNames) /\ t7 \in Seq(DayNames)
  BY <1>2
<1>5. ASSUME NEW x
      PROVE  Has(t7, x) <=> \/ Has(t(1), x) \/ Has(t(2), x) \/ Has(t(3), x) \/ Has(t(4), x)
                            \/ Has(t(5), x) \/ Has(t(6), x) \/ Has(t(7), x)
  <2>1. Has(t2, x) <=> Has(t(1), x) \/ Has(t(2), x)
    BY <1>2, HasConcat
  <2> HIDE DEF t2
  <2>2. Has(t3, x) <=> Has(t2, x) \/ Has(t(3), x)
    BY <1>2, <1>4, HasConcat
  <2> HIDE DEF t3
  <2>3. Has(t4, x) <=> Has(t3, x) \/ Has(t(4), x)
    BY <1>2, <1>4, HasConcat
  <2> HIDE DEF t4
  <2>4. Has(t5, x) <=> Has(t4, x) \/ Has(t(5), x)
    BY <1>2, <1>4, HasConcat
  <2> HIDE DEF t5
  <2>5. Has(t6, x) <=> Has(t5, x) \/ Has(t(6), x)
    BY <1>2, <1>4, HasConcat
  <2> HIDE DEF t6
  <2>6. Has(t7, x) <=> Has(t6, x) \/ Has(t(7), x)
    BY <1>2, <1>4, HasConcat
  <2> QED BY <2>1, <2>2, <2>3, <2>4, <2>5, <2>6
<1>6. ASSUME NEW x PROVE Has(t7, x) <=> \E i \in 1..7 : HasBit(mask, i) /\ x = Days[i]
  <2>1. \A i \in 1..7 : Has(t(i), x) <=> HasBit(mask, i) /\ x = Days[i]
    BY <1>1 DEF t
  <2> HIDE DEF t7
  <2> QED BY <1>5, <2>1
<1> QED BY <1>3, <1>4, <1>6

\* The days have different names, none of them one of the words for many.
LEMMA DaysDiffer ==
  /\ \A i, j \in 1..7 : Days[i] = Days[j] => i = j
  /\ \A i \in 1..7 : Days[i] \notin {"ALL", "NONE", "OFF", ""}
BY DEF Days

\* What is published for a mask sets the same mask when it is sent back
\* (format_days_csv, parse_days_csv).
LEMMA DaysRoundTrip ==
  ASSUME NEW mask \in 0..127
  PROVE  DaysOk(FormatDays(mask)) /\ ParseDays(FormatDays(mask)) = mask
<1>1. CASE mask = 0
  <2>1. FormatDays(mask) = <<"NONE">>
    BY <1>1 DEF FormatDays
  <2>2. \A i \in 1..7, k \in DOMAIN <<"NONE">> : <<"NONE">>[k] # Days[i]
    <3>1. \A k \in DOMAIN <<"NONE">> : <<"NONE">>[k] = "NONE"
      OBVIOUS
    <3> QED BY <3>1, DaysDiffer
  <2>3. ParseDays(<<"NONE">>) = Mask({})
    BY <2>2 DEF ParseDays
  <2>4. Mask({}) = 0
    BY DEF Mask
  <2> QED BY <1>1, <2>1, <2>3, <2>4 DEF DaysOk
<1>2. CASE mask = 127
  BY <1>2 DEF FormatDays, DaysOk, ParseDays
<1>3. CASE mask \notin {0, 127}
  <2> DEFINE text == Tokens(mask)
  <2>1. FormatDays(mask) = text
    BY <1>3 DEF FormatDays
  <2>2. \A x : Has(text, x) <=> \E i \in 1..7 : HasBit(mask, i) /\ x = Days[i]
    BY TokensOfMask
  <2> HIDE DEF text
  <2>3. ~Has(text, "ALL")
    BY <2>2, DaysDiffer
  <2>4. text # <<"ALL">>
    BY <2>3 DEF Has
  <2>5. \A i \in 1..7 : Has(text, Days[i]) <=> HasBit(mask, i)
    BY <2>2, DaysDiffer
  <2>6. ParseDays(text) = Mask({i \in 1..7 : HasBit(mask, i)})
    <3>1. {i \in 1..7 : \E k \in DOMAIN text : text[k] = Days[i]} = {i \in 1..7 : HasBit(mask, i)}
      BY <2>5 DEF Has
    <3> QED BY <2>4, <3>1 DEF ParseDays
  <2>7. DaysOk(text)
    <3>1. ASSUME NEW k \in DOMAIN text PROVE \E i \in 1..7 : text[k] = Days[i]
      BY <2>2 DEF Has
    <3> QED BY <3>1 DEF DaysOk
  <2> QED BY <2>1, <2>6, <2>7, BitsOfMask
<1> QED BY <1>1, <1>2, <1>3

\* Hours, minutes and seconds of a second of the day.
LEMMA HmsParts ==
  ASSUME NEW s \in Int, 0 <= s, s <= 86399
  PROVE  /\ s \div 3600 \in 0..23
         /\ (s % 3600) \div 60 \in 0..59
         /\ s % 60 \in 0..59
         /\ (s \div 3600) * 3600 + ((s % 3600) \div 60) * 60 + (s % 60) = s
<1>1. s \div 3600 \in 0..23
  BY Z3
<1>2. s % 3600 \in 0..3599
  BY Z3
<1>3. ASSUME NEW x \in 0..3599 PROVE x \div 60 \in 0..59
  BY Z3
<1>4. s % 60 \in 0..59
  BY Z3
<1>5. (s \div 3600) * 3600 + ((s % 3600) \div 60) * 60 + (s % 60) = s
  BY Z3
<1> QED BY <1>1, <1>2, <1>3, <1>4, <1>5

\* What is published for a time sets the same time when it is sent back
\* (format_time_string, parse_time_string).
LEMMA TimeRoundTrip ==
  ASSUME NEW s \in Int, SecondOfDay(s)
  PROVE  TimeOk(FormatTime(s)) /\ ParseTime(FormatTime(s)) = s
<1>1. CASE s = Off
  BY <1>1 DEF FormatTime, TimeOk, ParseTime
<1>2. CASE s # Off
  <2> DEFINE h == s \div 3600
             m == (s % 3600) \div 60
             r == s % 60
  <2>1. h \in 0..23 /\ m \in 0..59 /\ r \in 0..59 /\ h * 3600 + m * 60 + r = s
    <3>1. s \in Int /\ 0 <= s /\ s <= 86399
      BY <1>2 DEF SecondOfDay
    <3> QED BY <3>1, HmsParts
  <2>2. FormatTime(s) = <<h, m, r>>
    BY <1>2 DEF FormatTime
  <2> HIDE DEF h, m, r
  <2>3. <<h, m, r>> # <<"OFF">>
    OBVIOUS
  <2>4. TimeOk(<<h, m, r>>)
    BY <2>1 DEF TimeOk
  <2>5. ParseTime(<<h, m, r>>) = s
    BY <2>1, <2>3 DEF ParseTime
  <2> QED BY <2>2, <2>4, <2>5
<1> QED BY <1>1, <1>2

\* The minutes and seconds of a duration packet, counted down, read as the
\* duration (build_duration_packet, decode_ff8a_remaining_seconds).
LEMMA CountdownStarts ==
  ASSUME NEW d \in 0..MaxWateringSeconds, NEW tick \in [1..16 -> Int],
         tick[12] = DurationPacket(d)[13], tick[13] = DurationPacket(d)[14]
  PROVE  Len(DurationPacket(d)) = 17 /\ RemainingSeconds(tick) = d
<1>1. Len(DurationPacket(d)) = 17
  BY DEF DurationPacket
<1>2. tick[12] = d \div 60 /\ tick[13] = d % 60
  BY DEF DurationPacket
<1>3. d % 60 \in 0..59 /\ (d \div 60) * 60 + (d % 60) = d /\ d \div 60 \in Int
  <2>1. d \in Int /\ 0 <= d
    BY DEF MaxWateringSeconds
  <2> QED BY <2>1, Z3
<1>4. Len(tick) = 16
  OBVIOUS
<1>5. ~(tick[13] > 59)
  BY <1>2, <1>3
<1>6. RemainingSeconds(tick) = tick[12] * 60 + tick[13]
  BY <1>4, <1>5 DEF RemainingSeconds
<1> QED BY <1>1, <1>2, <1>3, <1>6

\* A stop is confirmed by a payload of five bytes or more with the flag at zero
\* and the tail, and by no other (parse_ff82_state).
LEMMA StopNeedsFlagAndTail ==
  ASSUME NEW p \in Seq(Int)
  PROVE  StopConfirmed(p) <=>
           /\ Len(p) >= 5 /\ p[5] = 0
           /\ <<p[Len(p) - 1], p[Len(p)]>> = <<128, 0>>
<1>1. Len(p) \in Nat
  OBVIOUS
<1>2. RunningFlag(p) = 0 <=> Len(p) >= 5 /\ p[5] = 0
  BY DEF RunningFlag, Off
<1>3. ASSUME NEW a, NEW b PROVE <<a, b>> = <<128, 0>> <=> a = 128 /\ b = 0
  OBVIOUS
<1> HIDE DEF RunningFlag
<1> QED BY <1>1, <1>2, <1>3 DEF StopConfirmed

\* Three bytes hold every second of the day and OFF.
LEMMA HmsRoundTrip ==
  ASSUME NEW s \in Int, SecondOfDay(s)
  PROVE  /\ DecodeHms(EncodeHms(s)) = s
         /\ EncodeHms(s) = <<EncodeHms(s)[1], EncodeHms(s)[2], EncodeHms(s)[3]>>
<1>1. CASE s = Off
  BY <1>1 DEF EncodeHms, DecodeHms
<1>2. CASE s # Off
  <2> DEFINE h == s \div 3600
             m == (s % 3600) \div 60
             r == s % 60
  <2>1. 0 <= s /\ s <= 86399
    BY <1>2 DEF SecondOfDay
  <2>2. h \in 0..23 /\ m \in 0..59 /\ r \in 0..59 /\ h * 3600 + m * 60 + r = s
    BY <2>1, HmsParts
  <2>4. EncodeHms(s) = <<h, m, r>>
    BY <1>2 DEF EncodeHms
  <2> HIDE DEF h, m, r
  <2>5. <<h, m, r>> # <<255, 255, 255>>
    BY <2>2
  <2>6. DecodeHms(<<h, m, r>>) = h * 3600 + m * 60 + r
    BY <2>5 DEF DecodeHms
  <2> QED BY <2>2, <2>4, <2>6
<1> QED BY <1>1, <1>2

\* The bytes of part i of a block are its three.
LEMMA BlockPart ==
  ASSUME NEW parts \in Seq(Int), NEW i \in 1..Len(parts)
  PROVE  /\ 3 * i - 2 \in 1..(3 * Len(parts)) /\ Triplets(parts)[3 * i - 2] = EncodeHms(parts[i])[1]
         /\ 3 * i - 1 \in 1..(3 * Len(parts)) /\ Triplets(parts)[3 * i - 1] = EncodeHms(parts[i])[2]
         /\ 3 * i \in 1..(3 * Len(parts)) /\ Triplets(parts)[3 * i] = EncodeHms(parts[i])[3]
<1>1. ASSUME NEW k \in 1..3
      PROVE  /\ 3 * (i - 1) + k \in 1..(3 * Len(parts))
             /\ Triplets(parts)[3 * (i - 1) + k] = EncodeHms(parts[i])[k]
  <2> DEFINE j == 3 * (i - 1) + k
  <2>1. j \in 1..(3 * Len(parts)) /\ ((j - 1) \div 3) + 1 = i /\ ((j - 1) % 3) + 1 = k
    BY Z3
  <2> HIDE DEF j
  <2>2. Triplets(parts)[j] = EncodeHms(parts[((j - 1) \div 3) + 1])[((j - 1) % 3) + 1]
    BY <2>1, Zenon DEF Triplets
  <2>3. Triplets(parts)[j] = EncodeHms(parts[i])[k]
    BY <2>1, <2>2, Zenon
  <2> QED BY <2>1, <2>3 DEF j
<1>3. 3 * (i - 1) + 1 = 3 * i - 2 /\ 3 * (i - 1) + 2 = 3 * i - 1 /\ 3 * (i - 1) + 3 = 3 * i
  OBVIOUS
<1> QED BY <1>1, <1>3

\* The part a byte of a block belongs to.
LEMMA PartOfByte ==
  ASSUME NEW n \in Nat, NEW k \in 1..(3 * n)
  PROVE  \E i \in 1..n : k = 3 * i - 2 \/ k = 3 * i - 1 \/ k = 3 * i
<1> DEFINE q == (k - 1) \div 3
<1>1. q \in 0..(n - 1) /\ (k - 1 = 3 * q \/ k - 1 = 3 * q + 1 \/ k - 1 = 3 * q + 2)
  BY Z3
<1> HIDE DEF q
<1>2. q + 1 \in 1..n /\ (k = 3 * (q + 1) - 2 \/ k = 3 * (q + 1) - 1 \/ k = 3 * (q + 1))
  BY <1>1
<1> QED BY <1>2

\* A block is the bytes of its parts in a row.
LEMMA BlockIs ==
  ASSUME NEW parts \in Seq(Int), NEW n \in Nat, Len(parts) = n, NEW bytes,
         bytes = [k \in 1..(3 * n) |-> bytes[k]],
         \A i \in 1..n : /\ bytes[3 * i - 2] = EncodeHms(parts[i])[1]
                         /\ bytes[3 * i - 1] = EncodeHms(parts[i])[2]
                         /\ bytes[3 * i] = EncodeHms(parts[i])[3]
  PROVE  Triplets(parts) = bytes
<1>1. ASSUME NEW k \in 1..(3 * n) PROVE Triplets(parts)[k] = bytes[k]
  <2>1. PICK i \in 1..n : k = 3 * i - 2 \/ k = 3 * i - 1 \/ k = 3 * i
    BY PartOfByte
  <2>2. /\ Triplets(parts)[3 * i - 2] = bytes[3 * i - 2]
        /\ Triplets(parts)[3 * i - 1] = bytes[3 * i - 1]
        /\ Triplets(parts)[3 * i] = bytes[3 * i]
    BY <2>1, BlockPart
  <2> QED BY <2>1, <2>2
<1>2. Triplets(parts) = [k \in 1..(3 * n) |-> Triplets(parts)[k]]
  BY DEF Triplets
<1> HIDE DEF Triplets
<1> QED BY <1>1, <1>2

\* The captured bytes, built.
LEMMA CapturesMatch ==
  ASSUME NEW c \in Captures
  PROVE  c.built = c.captured
<1>1. /\ PreparePacket(1, 10) = <<1, 0, 1, 2, 0, 1, 2, 0, 10, 0, 0, 0>>
      /\ ArmPacket(1, 10) = <<1, 0, 1, 2, 1, 1, 2, 0, 10, 0, 0, 0>>
      /\ ArmPacket(2, 10) = <<1, 0, 2, 2, 1, 2, 2, 0, 10, 0, 0, 0>>
      /\ PreparePacket(2, 10) = StopPacket
  BY DEF PreparePacket, ArmPacket, ZonePacket, StopPacket
<1>2. /\ DurationPacket(60)
           = <<4, 1, 127, 255, 255, 255, 255, 0, 255, 255, 255, 0, 1, 0, 0, 30, 0>>
      /\ DurationPacket(35)
           = <<4, 1, 127, 255, 255, 255, 255, 0, 255, 255, 255, 0, 0, 35, 0, 30, 0>>
  <2>1. 60 \div 60 = 1 /\ 60 % 60 = 0 /\ 35 \div 60 = 0 /\ 35 % 60 = 35
    BY Z3
  <2> QED BY <2>1 DEF DurationPacket
<1>h. /\ EncodeHms(Off) = <<255, 255, 255>>
      /\ EncodeHms(29220) = <<8, 7, 0>>
      /\ EncodeHms(3930) = <<1, 5, 30>>
      /\ EncodeHms(33060) = <<9, 11, 0>>
      /\ EncodeHms(37800) = <<10, 30, 0>>
      /\ EncodeHms(10) = <<0, 0, 10>>
      /\ EncodeHms(7) = <<0, 0, 7>>
  BY DEF EncodeHms, Off
<1>3. Triplets(TimerParts(TimerDraft))
        = <<8, 7, 0, 255, 255, 255, 255, 255, 255, 255, 255, 255, 1, 5, 30>>
  <2> DEFINE parts == <<29220, Off, Off, Off, 3930>>
  <2>1. TimerParts(TimerDraft) = parts
    <3>1. TimerDraft.run = 3930 /\ TimerDraft.starts = <<8 * 3600 + 7 * 60, Off, Off, Off>>
      BY DEF TimerDraft
    <3>2. 8 * 3600 + 7 * 60 = 29220
      OBVIOUS
    <3> QED BY <3>1, <3>2 DEF TimerParts
  <2>2. parts \in Seq(Int) /\ Len(parts) = 5
    BY DEF Off
  <2> DEFINE bytes == <<8, 7, 0, 255, 255, 255, 255, 255, 255, 255, 255, 255, 1, 5, 30>>
  <2>3. bytes = [k \in 1..(3 * 5) |-> bytes[k]]
    OBVIOUS
  <2>4. \A i \in 1..5 :
           /\ bytes[3 * i - 2] = EncodeHms(parts[i])[1]
           /\ bytes[3 * i - 1] = EncodeHms(parts[i])[2]
           /\ bytes[3 * i] = EncodeHms(parts[i])[3]
    <3> SUFFICES ASSUME NEW i \in {1, 2, 3, 4, 5}
                 PROVE /\ bytes[3 * i - 2] = EncodeHms(parts[i])[1]
                       /\ bytes[3 * i - 1] = EncodeHms(parts[i])[2]
                       /\ bytes[3 * i] = EncodeHms(parts[i])[3]
      OBVIOUS
    <3> QED BY <1>h
  <2> HIDE DEF bytes, parts
  <2>5. Triplets(parts) = bytes
    <3>1. 5 \in Nat
      OBVIOUS
    <3> QED BY <2>2, <2>3, <2>4, <3>1, BlockIs, ZenonT(60)
  <2> QED BY <2>1, <2>5 DEF bytes
<1>4. Triplets(CyclingParts(CyclingDraft))
        = <<9, 11, 0, 10, 30, 0, 255, 255, 255, 255, 255, 255, 0, 0, 10, 0, 0, 7>>
  <2> DEFINE parts == <<33060, 37800, Off, Off, 10, 7>>
             bytes == <<9, 11, 0, 10, 30, 0, 255, 255, 255, 255, 255, 255, 0, 0, 10, 0, 0, 7>>
  <2>1. CyclingParts(CyclingDraft) = parts
    <3>1. /\ CyclingDraft.run = 10 /\ CyclingDraft.soak = 7
          /\ CyclingDraft.start = <<33060, Off>> /\ CyclingDraft.end = <<37800, Off>>
      BY DEF CyclingDraft
    <3> QED BY <3>1 DEF CyclingParts
  <2>2. parts \in Seq(Int) /\ Len(parts) = 6
    BY DEF Off
  <2>3. bytes = [k \in 1..(3 * 6) |-> bytes[k]]
    OBVIOUS
  <2>4. \A i \in 1..6 :
           /\ bytes[3 * i - 2] = EncodeHms(parts[i])[1]
           /\ bytes[3 * i - 1] = EncodeHms(parts[i])[2]
           /\ bytes[3 * i] = EncodeHms(parts[i])[3]
    <3> SUFFICES ASSUME NEW i \in {1, 2, 3, 4, 5, 6}
                 PROVE /\ bytes[3 * i - 2] = EncodeHms(parts[i])[1]
                       /\ bytes[3 * i - 1] = EncodeHms(parts[i])[2]
                       /\ bytes[3 * i] = EncodeHms(parts[i])[3]
      OBVIOUS
    <3> QED BY <1>h
  <2> HIDE DEF bytes, parts
  <2>5. Triplets(parts) = bytes
    <3>1. 6 \in Nat
      OBVIOUS
    <3> QED BY <2>2, <2>3, <2>4, <3>1, BlockIs, ZenonT(60)
  <2> QED BY <2>1, <2>5 DEF bytes
<1>5. MutateConfig("Timer", <<0, 1, 76, 255, 255, 255, 1, 76, 255, 255, 255, 0, 0, 2, 0, 30, 0>>,
                   TRUE, TimerDraft.days)
       = <<1, 1, 1, 255, 255, 255, 1, 76, 255, 255, 255, 0, 0, 2, 0, 30, 0>>
  BY DEF MutateConfig, ModeByte, TimerDraft
<1>6. MutateConfig("Cycling", <<2, 1, 127, 255, 255, 255, 1, 1, 255, 255, 255, 0, 0, 35, 0, 30, 0>>,
                   TRUE, CyclingDraft.days)
       = <<2, 1, 127, 255, 255, 255, 1, 127, 255, 255, 255, 0, 0, 35, 0, 30, 0>>
  BY DEF MutateConfig, ModeByte, CyclingDraft
<1> DEFINE Same(x) == x.built = x.captured
<1>7. \A a, b : a = b => Same(Capture(a, b))
  BY DEF Capture
<1> HIDE DEF Same
<1>8. \A x \in PacketCaptures : Same(x)
  BY <1>1, <1>2, <1>7 DEF PacketCaptures
<1>9. \A x \in BlockCaptures : Same(x)
  BY <1>3, <1>4, <1>7 DEF BlockCaptures
<1>10. \A x \in ConfigCaptures : Same(x)
  <2> DEFINE t == <<0, 1, 76, 255, 255, 255, 1, 76, 255, 255, 255, 0, 0, 2, 0, 30, 0>>
             c0 == <<2, 1, 127, 255, 255, 255, 1, 1, 255, 255, 255, 0, 0, 35, 0, 30, 0>>
             t1 == <<1, 1, 1, 255, 255, 255, 1, 76, 255, 255, 255, 0, 0, 2, 0, 30, 0>>
             c1 == <<2, 1, 127, 255, 255, 255, 1, 127, 255, 255, 255, 0, 0, 35, 0, 30, 0>>
             mt == MutateConfig("Timer", t, TRUE, TimerDraft.days)
             mc == MutateConfig("Cycling", c0, TRUE, CyclingDraft.days)
  <2>1. mt = t1 /\ mc = c1
    BY <1>5, <1>6
  <2>2. ConfigCaptures = {Capture(mt, t1), Capture(mc, c1)}
    BY DEF ConfigCaptures
  <2> HIDE DEF mt, mc, t1, c1
  <2> QED BY <2>1, <2>2, <1>7
<1> QED BY <1>8, <1>9, <1>10 DEF Captures, Same

-----------------------------------------------------------------------------
(***************************************************************************)
(* Drafts.                                                                 *)
(***************************************************************************)
TimerDrafts == [enabled : BOOLEAN, days : 0..127, run : Int, starts : [1..4 -> Int]]
CyclingDrafts == [enabled : BOOLEAN, days : 0..127, run : Int, soak : Int,
                 start : [1..2 -> Int], end : [1..2 -> Int]]
Draft == IF target = "Timer" THEN TimerDrafts ELSE CyclingDrafts

\* A draft is well formed and was accepted by its validator; the manual
\* duration was accepted too.
ValidInv ==
  /\ target \in {"Timer", "Cycling"} /\ draft \in Draft /\ Valid(draft)
  /\ manual \in 0..MaxWateringSeconds

\* Parsing gives a second of the day and a set of days.
LEMMA ParseTimeType == ASSUME NEW text, TimeOk(text) PROVE ParseTime(text) \in Int
<1>1. CASE text = <<"OFF">>
  BY <1>1 DEF ParseTime, Off
<1>2. CASE text # <<"OFF">>
  <2>1. text[1] \in Int /\ text[2] \in Int /\ text[3] \in Int
    BY <1>2 DEF TimeOk
  <2>2. ParseTime(text) = text[1] * 3600 + text[2] * 60 + text[3]
    BY <1>2, <2>1 DEF ParseTime
  <2>3. text[1] * 3600 + text[2] * 60 + text[3] \in Int
    BY <2>1
  <2> QED BY <2>2, <2>3
<1> QED BY <1>1, <1>2

\* A parsed list of days is a mask of seven bits.
LEMMA ParseDaysType == ASSUME NEW text PROVE ParseDays(text) \in 0..127
<1>1. ASSUME NEW S PROVE Mask(S) \in 0..127
  BY DEF Mask, Bit
<1> QED BY <1>1 DEF ParseDays

\* Offering a well-formed draft keeps a valid one stored.
LEMMA OfferKeeps == ASSUME ValidInv, NEW d \in Draft, Offer(d) PROVE ValidInv'
<1>1. Valid(d)' <=> Valid(d)
  BY DEF Valid, Offer
<1> QED BY DEF Offer, ValidInv, Draft, Valid

\* The messages of a schedule, with any text and any number.
AnyMessage ==
  \/ \E on \in BOOLEAN : SetEnabled(on)
  \/ \E text : SetDays(text)
  \/ \E s \in Int : SetRun(s) \/ SetSoak(s) \/ SetDuration(s)
  \/ \E text : \/ \E slot \in 1..4 : SetStartTime(slot, text)
               \/ \E edge \in {"start", "end"}, slot \in 1..2 : SetWindow(edge, slot, text)

\* What any step does to a schedule.
DraftStep == AnyMessage \/ UNCHANGED <<target, draft, manual>>

\* A message is about the schedule it names.
LEMMA TargetStays == DraftStep => target' = target
BY DEF DraftStep, AnyMessage, SetEnabled, SetDays, SetRun, SetSoak, SetStartTime, SetWindow,
       SetDuration, Offer, Reject

\* A client sends such messages.
LEMMA ClientSteps == [Next]_vars => DraftStep
BY SecondsAssumption DEF Next, vars, DraftStep, AnyMessage

\* An unsigned number that does not exceed the limit is within it.
LEMMA WithinLimit ==
  ASSUME NEW x \in Int, ~ExceedsUnsigned(x, MaxWateringSeconds)
  PROVE  x \in 0..MaxWateringSeconds
BY DEF ExceedsUnsigned, MaxWateringSeconds

\* Every message keeps the stored draft well formed and valid.
LEMMA ValidStep == ASSUME ValidInv, DraftStep PROVE ValidInv'
<1> USE DEF Draft, TimerDrafts, CyclingDrafts
<1>r. Reject => ValidInv'
  BY DEF Reject, ValidInv, Valid
<1>1. ASSUME NEW on \in BOOLEAN, SetEnabled(on) PROVE ValidInv'
  <2>1. [draft EXCEPT !.enabled = on] \in Draft
    BY DEF ValidInv
  <2> QED BY <1>1, <2>1, OfferKeeps DEF SetEnabled
<1>2. ASSUME NEW text, SetDays(text) PROVE ValidInv'
  <2>1. [draft EXCEPT !.days = ParseDays(text)] \in Draft
    BY ParseDaysType DEF ValidInv
  <2> QED BY <1>2, <1>r, <2>1, OfferKeeps DEF SetDays
<1>3. ASSUME NEW s \in Int, SetRun(s) PROVE ValidInv'
  <2>1. [draft EXCEPT !.run = s] \in Draft
    BY DEF ValidInv
  <2> QED BY <1>3, <2>1, OfferKeeps DEF SetRun
<1>4. ASSUME NEW s \in Int, SetSoak(s) PROVE ValidInv'
  <2>1. [draft EXCEPT !.soak = s] \in Draft
    BY <1>4 DEF ValidInv, SetSoak
  <2> QED BY <1>4, <2>1, OfferKeeps DEF SetSoak
<1>5. ASSUME NEW text, NEW slot \in 1..4, SetStartTime(slot, text) PROVE ValidInv'
  <2>1. TimeOk(text) => [draft EXCEPT !.starts[slot] = ParseTime(text)] \in Draft
    BY <1>5, ParseTimeType DEF ValidInv, SetStartTime
  <2> QED BY <1>5, <1>r, <2>1, OfferKeeps DEF SetStartTime
<1>6. ASSUME NEW text, NEW edge \in {"start", "end"}, NEW slot \in 1..2,
             SetWindow(edge, slot, text)
      PROVE  ValidInv'
  <2> DEFINE d == [draft EXCEPT ![edge] = [@ EXCEPT ![slot] = ParseTime(text)]]
  <2>1. TimeOk(text) => d \in Draft
    <3>1. target # "Timer" /\ draft \in CyclingDrafts
      BY <1>6 DEF ValidInv, SetWindow
    <3>2. CASE edge = "start"
      BY <3>1, <3>2, ParseTimeType
    <3>3. CASE edge = "end"
      BY <3>1, <3>3, ParseTimeType
    <3> QED BY <3>2, <3>3
  <2> QED BY <1>6, <1>r, <2>1, OfferKeeps DEF SetWindow
<1>7. ASSUME NEW s \in Int, SetDuration(s) PROVE ValidInv'
  <2>1. CASE ExceedsUnsigned(s, MaxWateringSeconds)
    BY <1>7, <1>r, <2>1 DEF SetDuration
  <2>2. CASE ~ExceedsUnsigned(s, MaxWateringSeconds)
    <3>1. s \in 0..3600
      BY <2>2, WithinLimit DEF MaxWateringSeconds
    <3>2. s % 65536 = s /\ 2^16 = 65536
      BY <3>1
    <3>3. manual' \in 0..MaxWateringSeconds
      BY <1>7, <2>2, <3>1, <3>2 DEF SetDuration, MaxWateringSeconds
    <3> QED BY <1>7, <2>2, <3>3 DEF SetDuration, ValidInv, Valid
  <2> QED BY <2>1, <2>2
<1>8. CASE UNCHANGED <<target, draft, manual>>
  BY <1>8 DEF ValidInv, Valid
<1> QED BY <1>1, <1>2, <1>3, <1>4, <1>5, <1>6, <1>7, <1>8 DEF DraftStep, AnyMessage

\* The all-OFF draft of a new store is valid.
LEMMA ValidInit == Init => ValidInv
<1> SUFFICES ASSUME target \in {"Timer", "Cycling"}, draft = NewDraft, manual = 600 PROVE ValidInv
  BY DEF Init
<1>m. manual \in 0..MaxWateringSeconds
  BY DEF MaxWateringSeconds
<1>1. CASE target = "Timer"
  <2>1. draft \in TimerDrafts
    BY <1>1 DEF NewDraft, TimerDrafts, Off
  <2>2. draft.run = 0 /\ ~draft.enabled /\ \A i \in 1..4 : draft.starts[i] = Off
    BY <1>1 DEF NewDraft
  <2> QED BY <1>m, <1>1, <2>1, <2>2
          DEF ValidInv, Draft, Valid, ValidTimer, SecondOfDay, ExceedsUnsigned, MaxWateringSeconds, Off
<1>2. CASE target = "Cycling"
  <2>1. draft \in CyclingDrafts
    BY <1>2 DEF NewDraft, CyclingDrafts, Off
  <2>2. draft.run = 0 /\ ~draft.enabled /\ \A i \in 1..2 : draft.start[i] = Off /\ draft.end[i] = Off
    BY <1>2 DEF NewDraft
  <2> QED BY <1>m, <1>2, <2>1, <2>2
          DEF ValidInv, Draft, Valid, ValidCycling, ValidWindow, SecondOfDay, ExceedsUnsigned,
              MaxWateringSeconds, Off
<1> QED BY <1>1, <1>2

\* A valid draft has the valve open for at most the watering limit.
LEMMA ValidBounds == ASSUME ValidInv PROVE Bounded
<1>m. manual \in 0..MaxWateringSeconds
  BY DEF ValidInv
<1>1. CASE target = "Timer"
  <2>1. draft \in TimerDrafts /\ ValidTimer(draft)
    BY <1>1 DEF ValidInv, Draft, Valid
  <2>2. draft.run \in 0..MaxWateringSeconds /\ draft.days \in 0..127
    <3>1. ~ExceedsUnsigned(draft.run, MaxWateringSeconds)
      BY <2>1, Zenon DEF ValidTimer
    <3>2. draft.run \in Int /\ draft.days \in 0..127
      BY <2>1 DEF TimerDrafts
    <3> QED BY <3>1, <3>2, WithinLimit, Zenon
  <2>3. draft.enabled => \E i \in 1..4 : 0 <= draft.starts[i] /\ draft.starts[i] <= 86399
    BY <2>1 DEF TimerDrafts, ValidTimer, SecondOfDay, Off
  <2> QED BY <1>m, <1>1, <2>1, <2>2, <2>3 DEF Bounded, Valid
<1>2. CASE target # "Timer"
  <2>1. draft \in CyclingDrafts /\ ValidCycling(draft)
    BY <1>2 DEF ValidInv, Draft, Valid
  <2>2. draft.run \in 0..MaxWateringSeconds /\ draft.days \in 0..127
    <3>1. ~ExceedsUnsigned(draft.run, MaxWateringSeconds)
      BY <2>1, Zenon DEF ValidCycling
    <3>2. draft.run \in Int /\ draft.days \in 0..127
      BY <2>1 DEF CyclingDrafts
    <3> QED BY <3>1, <3>2, WithinLimit, Zenon
  <2>3. ASSUME NEW i \in 1..2, draft.start[i] # Off
        PROVE  /\ 0 <= draft.start[i] /\ draft.start[i] <= 86399
               /\ draft.end[i] - draft.start[i] \in 0..MaxWateringSeconds
    <3>1. draft.start[i] \in Int /\ draft.end[i] \in Int
      BY <2>1 DEF CyclingDrafts
    <3>2. ValidWindow(draft.start[i], draft.end[i])
      BY <2>1 DEF ValidCycling
    <3>3. /\ draft.start[i] <= draft.end[i] /\ draft.end[i] - draft.start[i] <= 3600
          /\ SecondOfDay(draft.start[i])
      BY <2>3, <3>2 DEF ValidWindow, MaxWateringSeconds
    <3>4. 0 <= draft.start[i] /\ draft.start[i] <= 86399
      BY <2>3, <3>3 DEF SecondOfDay
    <3>5. \A a, b \in Int : a <= b /\ b - a <= 3600 => b - a \in 0..MaxWateringSeconds
      BY DEF MaxWateringSeconds
    <3> QED BY <3>1, <3>3, <3>4, <3>5
  <2>4. draft.enabled => \E i \in 1..2 : draft.start[i] # Off
    BY <2>1 DEF ValidCycling
  <2> QED BY <1>m, <1>2, <2>1, <2>2, <2>3, <2>4 DEF Bounded, Valid
<1> QED BY <1>1, <1>2

\* No message enters a window: the end that is set first leaves a partial
\* pair, which the validator rejects.
LEMMA WindowsStep == ASSUME ValidInv, WindowsStayOff, DraftStep PROVE WindowsStayOff'
<1> SUFFICES ASSUME target = "Cycling" PROVE WindowsStayOff'
  BY TargetStays DEF WindowsStayOff
<1> USE DEF Draft, CyclingDrafts
<1>r. ASSUME draft' = draft PROVE WindowsStayOff'
  BY <1>r DEF WindowsStayOff
<1>o. ASSUME NEW d, Offer(d), d.start = draft.start, d.end = draft.end PROVE WindowsStayOff'
  BY <1>o DEF Offer, WindowsStayOff
<1>1. ASSUME NEW on \in BOOLEAN, SetEnabled(on) PROVE WindowsStayOff'
  BY <1>1, <1>o DEF SetEnabled, ValidInv
<1>2. ASSUME NEW text, SetDays(text) PROVE WindowsStayOff'
  BY <1>2, <1>o, <1>r DEF SetDays, ValidInv, Reject
<1>3. ASSUME NEW s \in Int, SetRun(s) \/ SetSoak(s) PROVE WindowsStayOff'
  BY <1>3, <1>o DEF SetRun, SetSoak, ValidInv
<1>4. ASSUME NEW text, NEW slot \in 1..4, SetStartTime(slot, text)
      PROVE  WindowsStayOff'
  BY <1>4 DEF SetStartTime
<1>5. ASSUME NEW text, NEW edge \in {"start", "end"}, NEW slot \in 1..2,
             SetWindow(edge, slot, text)
      PROVE  WindowsStayOff'
  <2> DEFINE d == [draft EXCEPT ![edge] = [@ EXCEPT ![slot] = ParseTime(text)]]
  <2>1. CASE ~TimeOk(text)
    BY <1>5, <2>1, <1>r DEF SetWindow, Reject
  <2>2. CASE TimeOk(text) /\ Valid(d)
    <3>1. draft \in CyclingDrafts /\ d.start \in [1..2 -> Int] /\ d.end \in [1..2 -> Int]
      BY <2>2, ParseTimeType DEF ValidInv
    <3>2. /\ d[edge][slot] = ParseTime(text)
          /\ \A e \in {"start", "end"}, i \in 1..2 : <<e, i>> # <<edge, slot>> => d[e][i] = Off
      BY <3>1 DEF WindowsStayOff
    <3>3. \A i \in 1..2 : (d.start[i] = Off) = (d.end[i] = Off)
      BY <2>2 DEF Valid, ValidCycling, ValidWindow
    <3>4. \A i \in 1..2 : d.start[i] = Off /\ d.end[i] = Off
      BY <3>2, <3>3
    <3> QED BY <1>5, <2>2, <3>4 DEF SetWindow, Offer, WindowsStayOff
  <2>3. CASE TimeOk(text) /\ ~Valid(d)
    BY <1>5, <2>3, <1>r DEF SetWindow, Offer
  <2> QED BY <2>1, <2>2, <2>3
<1>6. ASSUME NEW s \in Int, SetDuration(s) PROVE WindowsStayOff'
  BY <1>6, <1>r DEF SetDuration, Reject
<1>7. CASE UNCHANGED <<target, draft, manual>>
  BY <1>7, <1>r
<1> QED BY <1>1, <1>2, <1>3, <1>4, <1>5, <1>6, <1>7 DEF DraftStep, AnyMessage

\* The watering limit is a second of the day.
LEMMA LimitIsSecond ==
  ASSUME NEW x \in Int, ~ExceedsUnsigned(x, MaxWateringSeconds)
  PROVE  SecondOfDay(x)
<1>1. x \in 0..MaxWateringSeconds
  BY WithinLimit, Zenon
<1>2. 0 <= x /\ x <= 86399
  BY <1>1 DEF MaxWateringSeconds
<1> QED BY <1>2 DEF SecondOfDay

\* Everything a block holds was validated, but soak_seconds.
LEMMA ValidBuilds ==
  ASSUME ValidInv, ~Encodable(Parts)
  PROVE  target = "Cycling" /\ ~SecondOfDay(draft.soak)
<1>1. CASE target = "Timer"
  <2>1. draft \in TimerDrafts /\ ValidTimer(draft)
    BY <1>1 DEF ValidInv, Draft, Valid
  <2>2. SecondOfDay(draft.run)
    <3>1. ~ExceedsUnsigned(draft.run, MaxWateringSeconds)
      BY <2>1, Zenon DEF ValidTimer
    <3>2. draft.run \in Int
      BY <2>1 DEF TimerDrafts
    <3> QED BY <3>1, <3>2, LimitIsSecond, Zenon
  <2>4. \A i \in 1..5 : SecondOfDay(TimerParts(draft)[i])
    BY <2>1, <2>2 DEF ValidTimer, TimerParts
  <2> QED BY <1>1, <2>4 DEF Encodable, Parts, TimerParts
<1>2. CASE target = "Cycling" /\ SecondOfDay(draft.soak)
  <2>1. draft \in CyclingDrafts /\ ValidCycling(draft)
    BY <1>2 DEF ValidInv, Draft, Valid
  <2>2. SecondOfDay(draft.run)
    <3>1. ~ExceedsUnsigned(draft.run, MaxWateringSeconds)
      BY <2>1, Zenon DEF ValidCycling
    <3>2. draft.run \in Int
      BY <2>1 DEF CyclingDrafts
    <3> QED BY <3>1, <3>2, LimitIsSecond, Zenon
  <2>3. \A i \in 1..2 : SecondOfDay(draft.start[i]) /\ SecondOfDay(draft.end[i])
    BY <2>1 DEF ValidCycling, ValidWindow
  <2>5. \A i \in 1..6 : SecondOfDay(CyclingParts(draft)[i])
    BY <1>2, <2>2, <2>3 DEF CyclingParts
  <2> QED BY <1>2, <2>5 DEF Encodable, Parts, CyclingParts
<1> QED BY <1>1, <1>2 DEF ValidInv

\* A valid draft is built if its parts can be encoded.
LEMMA ValidIsBuilt ==
  ASSUME ValidInv
  PROVE  /\ Block = NoBlock => ~Encodable(Parts)
         /\ Block # NoBlock => Encodable(Parts) /\ Block = Triplets(Parts)
<1>1. target = "Timer" => ValidTimer(draft) /\ Parts = TimerParts(draft)
  BY DEF ValidInv, Valid, Parts
<1>2. target # "Timer" => ValidCycling(draft) /\ Parts = CyclingParts(draft)
  BY DEF ValidInv, Valid, Parts
<1>3. Block = IF Encodable(Parts) THEN Triplets(Parts) ELSE NoBlock
  BY <1>1, <1>2 DEF Block, TimerBlock, CyclingBlock, Built
<1>4. Triplets(Parts) # NoBlock
  <2>1. Len(Parts) \in 5..6
    BY DEF Parts, TimerParts, CyclingParts
  <2>2. 1 \in DOMAIN Triplets(Parts)
    BY <2>1 DEF Triplets
  <2>3. DOMAIN NoBlock = {}
    BY DEF NoBlock
  <2> QED BY <2>2, <2>3
<1> QED BY <1>3, <1>4

\* A block has the bytes of its parts.
LEMMA ValidDecodes == ASSUME ValidInv PROVE BlockDecodes
<1>1. Parts \in Seq(Int) /\ Len(Parts) = IF target = "Timer" THEN 5 ELSE 6
  <2>1. CASE target = "Timer"
    <3>1. draft.starts \in [1..4 -> Int] /\ draft.run \in Int
      BY <2>1 DEF ValidInv, Draft, TimerDrafts
    <3> QED BY <2>1, <3>1 DEF Parts, TimerParts
  <2>2. CASE target # "Timer"
    <3>1. /\ draft.start \in [1..2 -> Int] /\ draft.end \in [1..2 -> Int]
          /\ draft.run \in Int /\ draft.soak \in Int
      BY <2>2 DEF ValidInv, Draft, CyclingDrafts
    <3> QED BY <2>2, <3>1 DEF Parts, CyclingParts
  <2> QED BY <2>1, <2>2
<1> SUFFICES ASSUME Block # NoBlock
             PROVE  /\ Len(Block) = IF target = "Timer" THEN 15 ELSE 18
                    /\ \A i \in DOMAIN Parts :
                         DecodeHms(<<Block[3 * i - 2], Block[3 * i - 1], Block[3 * i]>>) = Parts[i]
  BY DEF BlockDecodes
<1>b. Encodable(Parts) /\ Block = Triplets(Parts)
  BY ValidIsBuilt
<1>2. Len(Triplets(Parts)) = 3 * Len(Parts)
  BY <1>1 DEF Triplets
<1>3. ASSUME NEW i \in DOMAIN Parts
      PROVE  DecodeHms(<<Triplets(Parts)[3 * i - 2], Triplets(Parts)[3 * i - 1],
                         Triplets(Parts)[3 * i]>>) = Parts[i]
  <2>1. i \in 1..Len(Parts) /\ Parts[i] \in Int /\ SecondOfDay(Parts[i])
    BY <1>1, <1>b DEF Encodable
  <2>2. <<Triplets(Parts)[3 * i - 2], Triplets(Parts)[3 * i - 1], Triplets(Parts)[3 * i]>>
          = EncodeHms(Parts[i])
    BY <1>1, <2>1, BlockPart, HmsRoundTrip
  <2> QED BY <2>1, <2>2, HmsRoundTrip
<1> QED BY <1>1, <1>b, <1>2, <1>3

-----------------------------------------------------------------------------
(***************************************************************************)
(* The entities of Home Assistant: the message of each reaches the setting *)
(* or the request that the entity is named after.                          *)
(***************************************************************************)
\* What follows the zone in a topic.
LEMMA Suffix1 ==
  ASSUME NEW topic, Len(topic) = 3, NEW c, topic[3] = c
  PROVE  SubSeq(topic, 3, Len(topic)) = <<c>>
<1> DEFINE t == SubSeq(topic, 3, 3)
           S == {c}
<1>1. \A i \in 3..3 : topic[i] \in S
  OBVIOUS
<1> HIDE DEF S
<1>2. t \in Seq(S) /\ Len(t) = 1
  BY <1>1, SubSeqProperties
<1>3. t[1] = topic[3]
  BY <1>1, SubSeqProperties
<1> HIDE DEF t
<1>4. t = <<c>>
  BY <1>2, <1>3
<1> QED BY <1>4 DEF t

LEMMA Suffix2 ==
  ASSUME NEW topic, Len(topic) = 4, NEW c, NEW d, topic[3] = c, topic[4] = d
  PROVE  SubSeq(topic, 3, Len(topic)) = <<c, d>>
<1> DEFINE t == SubSeq(topic, 3, 4)
           S == {c, d}
<1>1. \A i \in 3..4 : topic[i] \in S
  OBVIOUS
<1> HIDE DEF S
<1>2. t \in Seq(S) /\ Len(t) = 2
  BY <1>1, SubSeqProperties
<1>3. t[1] = topic[3] /\ t[2] = topic[4]
  BY <1>1, SubSeqProperties
<1> HIDE DEF t
<1>4. t = <<c, d>>
  BY <1>2, <1>3
<1> QED BY <1>4 DEF t

LEMMA Suffix3 ==
  ASSUME NEW topic, Len(topic) = 5, NEW c, NEW d, NEW e, topic[3] = c, topic[4] = d, topic[5] = e
  PROVE  SubSeq(topic, 3, Len(topic)) = <<c, d, e>>
<1> DEFINE t == SubSeq(topic, 3, 5)
           S == {c, d, e}
<1>1. \A i \in 3..5 : topic[i] \in S
  OBVIOUS
<1> HIDE DEF S
<1>2. t \in Seq(S) /\ Len(t) = 3
  BY <1>1, SubSeqProperties
<1>3. t[1] = topic[3] /\ t[2] = topic[4] /\ t[3] = topic[5]
  BY <1>1, SubSeqProperties
<1> HIDE DEF t
<1>4. t = <<c, d, e>>
  BY <1>2, <1>3
<1> QED BY <1>4 DEF t

\* A message for a zone goes to handle_zone_command.
LEMMA ZoneMessage ==
  ASSUME NEW topic, NEW value, topic[2] \in Zones, ProcessCommand(topic, value)
  PROVE  HandleZoneCommand(topic[2], SubSeq(topic, 3, Len(topic)), value)
<1>1. topic # <<"cmd", "battery", "refresh">>
  BY DEF Zones
<1> QED BY <1>1, Zenon DEF ProcessCommand

\* A pressed button is a request.
LEMMA PressAsks ==
  ASSUME NEW z, NEW suffix \in Requests, HandleZoneCommand(z, suffix, "PRESS")
  PROVE  Ask(<<z>> \o suffix)
<1>1. suffix # <<"manual_duration_seconds", "set">>
  BY DEF Requests
<1>2. suffix \notin {<<Schedule, field, "set">> : field \in Settings}
  BY DEF Requests
<1> QED BY <1>1, <1>2, Zenon DEF HandleZoneCommand

\* A manual duration is set.
LEMMA DurationSets ==
  ASSUME NEW z, NEW value, HandleZoneCommand(z, <<"manual_duration_seconds", "set">>, value)
  PROVE  SetDuration(value)
<1>1. <<"manual_duration_seconds", "set">> \notin Requests
  BY DEF Requests
<1>2. <<"manual_duration_seconds", "set">> \notin {<<Schedule, field, "set">> : field \in Settings}
  OBVIOUS
<1> QED BY <1>1, <1>2, Zenon DEF HandleZoneCommand

\* A field of the Schedule is set.
LEMMA SettingSets ==
  ASSUME NEW z, NEW field \in Settings, NEW value,
         HandleZoneCommand(z, <<Schedule, field, "set">>, value)
  PROVE  SetField(field, value)
<1>1. <<Schedule, field, "set">> \notin Requests
  BY DEF Requests
<1>2. <<Schedule, field, "set">> # <<"manual_duration_seconds", "set">>
  OBVIOUS
<1>3. <<Schedule, field, "set">> \in {<<Schedule, f, "set">> : f \in Settings}
  OBVIOUS
<1>4. <<Schedule, field, "set">>[2] = field
  OBVIOUS
<1> QED BY <1>1, <1>2, <1>3, <1>4, Zenon DEF HandleZoneCommand

\* What a user's input does to the schedule of the zone, and on which entity.
Pressed(e) ==
  /\ e.kind = "button" /\ asked' = e.name
  /\ UNCHANGED <<target, draft, manual>>

DurationEntered(e, value) ==
  /\ e.kind = "duration" /\ e.state = <<"state", zone, "manual_duration_seconds">>
  /\ value \in 0..MaxWateringSeconds /\ SetDuration(value)

Entered(e, field, value) ==
  /\ e.state = <<"state", zone, Schedule, field>>
  /\ \/ e.kind = "switch" /\ field = "enabled" /\ value \in {"ON", "OFF"} /\ SetEnabled(value = "ON")
     \/ e.kind = "days" /\ field = "days" /\ SetDays(value)
     \/ /\ e.kind = "duration" /\ field = "run_seconds"
        /\ value \in 0..MaxWateringSeconds /\ SetRun(value)
     \/ /\ e.kind = "pause" /\ field = "soak_seconds"
        /\ value \in 0..MaxWateringSeconds /\ SetSoak(value)
     \/ /\ e.kind = "time" /\ target = "Timer"
        /\ \E slot \in 1..4 : field = StartFields[slot] /\ SetStartTime(slot, value)
     \/ /\ e.kind = "time" /\ target = "Cycling"
        /\ \E edge \in {"start", "end"}, slot \in 1..2 :
             field = WindowFields[edge][slot] /\ SetWindow(edge, slot, value)

Served(e, value) ==
  Pressed(e) \/ DurationEntered(e, value) \/ \E field \in Settings : Entered(e, field, value)

\* The entities of a zone that act on the state kept here: buttons, the manual
\* duration and the settings of the Schedule.
ZoneButton(z, what) == Button(<<z, what>>, <<"cmd", z, what>>)
ApplyButton(z, s) == Button(<<z, s, "apply">>, <<"cmd", z, s, "apply">>)
Buttons ==
  {Button(<<"battery", "refresh">>, <<"cmd", "battery", "refresh">>)}
  \union {ZoneButton(z, what) : z \in Zones, what \in {"start", "stop"}}
  \union {ApplyButton(z, s) : z \in Zones, s \in Schedules}

LEMMA ZoneRequests ==
  /\ \A z, what : <<z>> \o <<what>> = <<z, what>>
  /\ \A z, s : <<z>> \o <<s, "apply">> = <<z, s, "apply">>
<1>1. ASSUME NEW z, NEW what PROVE <<z>> \o <<what>> = <<z, what>>
  <2> DEFINE a == <<z>>
             b == <<what>>
             t == a \o b
             S == {z, what}
  <2>1. a \in Seq(S) /\ Len(a) = 1 /\ a[1] = z /\ b \in Seq(S) /\ Len(b) = 1 /\ b[1] = what
    OBVIOUS
  <2> HIDE DEF a, b, S
  <2>2. t \in Seq(S) /\ Len(t) = 2 /\ t[1] = z /\ t[2] = what
    BY <2>1, ConcatProperties
  <2> HIDE DEF t
  <2>3. t = <<z, what>>
    BY <2>2
  <2> QED BY <2>3 DEF t, a, b
<1>2. ASSUME NEW z, NEW s PROVE <<z>> \o <<s, "apply">> = <<z, s, "apply">>
  <2> DEFINE a == <<z>>
             b == <<s, "apply">>
             t == a \o b
             S == {z, s, "apply"}
  <2>1. /\ a \in Seq(S) /\ Len(a) = 1 /\ a[1] = z
        /\ b \in Seq(S) /\ Len(b) = 2 /\ b[1] = s /\ b[2] = "apply"
    OBVIOUS
  <2> HIDE DEF a, b, S
  <2>a. /\ t \in Seq(S) /\ Len(t) = Len(a) + Len(b)
        /\ \A i \in 1..(Len(a) + Len(b)) : t[i] = IF i <= Len(a) THEN a[i] ELSE b[i - Len(a)]
    BY <2>1, ConcatProperties, Zenon
  <2> HIDE DEF t
  <2>2. t \in Seq(S) /\ Len(t) = 3 /\ t[1] = z /\ t[2] = s /\ t[3] = "apply"
    BY <2>1, <2>a
  <2> HIDE DEF t
  <2>3. t = <<z, s, "apply">>
    BY <2>2
  <2> QED BY <2>3 DEF t, a, b
<1> QED BY <1>1, <1>2

Mode == target \in {"Timer", "Cycling"}

LEMMA MineForms ==
  ASSUME Mode, NEW e \in Entities, Mine(e)
  PROVE  \/ e \in Buttons
         \/ e = Control("duration", <<zone, "manual_duration_seconds">>,
                        <<"state", zone, "manual_duration_seconds">>,
                        <<"cmd", zone, "manual_duration_seconds", "set">>)
            /\ zone \in Zones
         \/ e \in ScheduleEntities(zone, Schedule) /\ zone \in Zones
            /\ e.kind # "button" /\ e.cmd # Nowhere
<1>1. CASE e \in BridgeEntities
  <2>1. CASE e = Button(<<"battery", "refresh">>, <<"cmd", "battery", "refresh">>)
    BY <2>1 DEF Buttons, ZoneButton, ApplyButton
  <2>2. ASSUME NEW name, NEW state, NEW attr, e = Sensor(name, state, attr) PROVE FALSE
    BY <2>2 DEF Mine, Sensor
  <2> QED BY <1>1, <2>1, <2>2 DEF BridgeEntities
<1>2. ASSUME NEW z \in Zones, e \in ZoneEntities(z) PROVE
         \/ e \in Buttons
         \/ e = Control("duration", <<zone, "manual_duration_seconds">>,
                        <<"state", zone, "manual_duration_seconds">>,
                        <<"cmd", zone, "manual_duration_seconds", "set">>)
            /\ zone \in Zones
  <2>1. ASSUME NEW what \in {"start", "stop"}, e = Button(<<z, what>>, <<"cmd", z, what>>)
        PROVE  e \in Buttons
    BY <2>1 DEF Buttons, ZoneButton, ApplyButton
  <2>2. ASSUME NEW name, NEW state, NEW attr, e = Sensor(name, state, attr) PROVE FALSE
    BY <2>2 DEF Mine, Sensor
  <2>3. ASSUME e = Control("duration", <<z, "manual_duration_seconds">>,
                           <<"state", z, "manual_duration_seconds">>,
                           <<"cmd", z, "manual_duration_seconds", "set">>)
        PROVE  zone = z
    BY <2>3 DEF Mine, Control
  <2> QED BY <1>2, <2>1, <2>2, <2>3 DEF ZoneEntities
<1>3. ASSUME NEW z \in Zones, NEW s \in Schedules, e \in ScheduleEntities(z, s)
      PROVE  \/ e \in Buttons
             \/ /\ e \in ScheduleEntities(zone, Schedule) /\ zone \in Zones
                /\ e.kind # "button" /\ e.cmd # Nowhere
  <2>1. CASE e = Button(<<z, s, "apply">>, <<"cmd", z, s, "apply">>)
    BY <2>1 DEF Buttons, ZoneButton, ApplyButton
  <2>2. ASSUME NEW name, NEW state, NEW attr, e = Sensor(name, state, attr) PROVE FALSE
    BY <2>2 DEF Mine, Sensor
  <2>3. ASSUME NEW kind \in {"switch", "days", "duration", "time", "pause"}, NEW field,
               e = Setting(kind, z, s, field)
        PROVE  /\ zone = z /\ s = Schedule
               /\ e.kind # "button" /\ e.cmd # Nowhere
    <3>1. e.kind = kind /\ e.cmd = <<"cmd", z, s, field, "set">>
      BY <2>3 DEF Setting, Control
    <3>2. e.cmd[2] = z /\ e.cmd[3] = s /\ e.cmd # <<>>
      BY <3>1
    <3> QED BY <3>1, <3>2 DEF Mine, Nowhere, Schedules
  <2> HIDE DEF Zones, Schedules, Schedule
  <2> QED BY <1>3, <2>1, <2>2, <2>3 DEF ScheduleEntities
<1>4. \/ e \in BridgeEntities
      \/ \E z \in Zones : e \in ZoneEntities(z)
      \/ \E z \in Zones, s \in Schedules : e \in ScheduleEntities(z, s)
  <2> DEFINE zoned == {ZoneEntities(z) : z \in Zones}
             scheduled == {ScheduleEntities(z, s) : z \in Zones, s \in Schedules}
  <2> HIDE DEF BridgeEntities, ZoneEntities, ScheduleEntities, Zones, Schedules
  <2>1. ASSUME NEW S \in zoned PROVE \E z \in Zones : S = ZoneEntities(z)
    OBVIOUS
  <2>2. ASSUME NEW S \in scheduled
        PROVE  \E z \in Zones, s \in Schedules : S = ScheduleEntities(z, s)
    OBVIOUS
  <2>3. e \in BridgeEntities \/ (\E S \in zoned : e \in S) \/ (\E S \in scheduled : e \in S)
    <3>1. Entities = BridgeEntities \union (UNION zoned) \union (UNION scheduled)
      BY DEF Entities
    <3> HIDE DEF zoned, scheduled
    <3> QED BY <3>1
  <2> HIDE DEF zoned, scheduled
  <2> QED BY <2>1, <2>2, <2>3
<1> QED BY <1>1, <1>2, <1>3, <1>4, Zenon

\* The numbers of an entity are within the watering limit.
LEMMA NumberRange == ASSUME NEW kind PROVE Numbers(kind) \subseteq 0..MaxWateringSeconds
<1>1. (IF kind = "pause" THEN 0 ELSE 1) \in 0..1
  OBVIOUS
<1>2. \A low \in 0..1 : low..MaxWateringSeconds \subseteq 0..MaxWateringSeconds
  BY DEF MaxWateringSeconds
<1>3. Numbers(kind) \subseteq (IF kind = "pause" THEN 0 ELSE 1)..MaxWateringSeconds
  BY DEF Numbers
<1> QED BY <1>1, <1>2, <1>3

\* Every button makes the request it is named after.
LEMMA ButtonServed ==
  ASSUME NEW e \in Buttons, NEW value \in Enterable(e.kind), ProcessCommand(e.cmd, value)
  PROVE  Pressed(e)
<1>1. ASSUME NEW name, NEW cmd, e = Button(name, cmd)
      PROVE  e.kind = "button" /\ e.name = name /\ e.cmd = cmd /\ value = "PRESS"
  <2>1. e.kind = "button" /\ e.name = name /\ e.cmd = cmd
    BY <1>1 DEF Button
  <2> QED BY <2>1 DEF Enterable
<1>2. ASSUME NEW name, Ask(name), e.kind = "button", e.name = name PROVE Pressed(e)
  BY <1>2 DEF Ask, Pressed
<1>3. CASE e = Button(<<"battery", "refresh">>, <<"cmd", "battery", "refresh">>)
  <2>1. e.cmd = <<"cmd", "battery", "refresh">> /\ value = "PRESS"
    BY <1>1, <1>3
  <2>2. e.cmd[2] \notin Zones
    BY <2>1 DEF Zones
  <2>3. Ask(<<"battery", "refresh">>)
    BY <2>1, <2>2, Zenon DEF ProcessCommand
  <2> QED BY <1>1, <1>2, <1>3, <2>3
<1>4. ASSUME NEW z \in Zones, NEW what \in {"start", "stop"},
             e = Button(<<z, what>>, <<"cmd", z, what>>)
      PROVE  Pressed(e)
  <2>1. e.cmd = <<"cmd", z, what>> /\ e.cmd[2] = z /\ value = "PRESS"
    BY <1>1, <1>4
  <2>2. <<what>> \in Requests
    BY DEF Requests
  <2>u. Len(e.cmd) = 3 /\ e.cmd[3] = what
    BY <2>1
  <2>t. SubSeq(e.cmd, 3, Len(e.cmd)) = <<what>>
    BY <2>u, Suffix1
  <2>3. HandleZoneCommand(z, <<what>>, "PRESS")
    BY <2>1, <2>t, ZoneMessage
  <2>4. Ask(<<z, what>>)
    BY <2>2, <2>3, PressAsks, ZoneRequests
  <2> QED BY <1>1, <1>2, <1>4, <2>4
<1>5. ASSUME NEW z \in Zones, NEW s \in Schedules,
             e = Button(<<z, s, "apply">>, <<"cmd", z, s, "apply">>)
      PROVE  Pressed(e)
  <2>1. e.cmd = <<"cmd", z, s, "apply">> /\ e.cmd[2] = z /\ value = "PRESS"
    BY <1>1, <1>5
  <2>2. <<s, "apply">> \in Requests
    BY DEF Requests
  <2>u. Len(e.cmd) = 4 /\ e.cmd[3] = s /\ e.cmd[4] = "apply"
    BY <2>1
  <2>t. SubSeq(e.cmd, 3, Len(e.cmd)) = <<s, "apply">>
    BY <2>u, Suffix2
  <2>3. HandleZoneCommand(z, <<s, "apply">>, "PRESS")
    BY <2>1, <2>t, ZoneMessage
  <2>4. Ask(<<z, s, "apply">>)
    BY <2>2, <2>3, PressAsks, ZoneRequests
  <2> QED BY <1>1, <1>2, <1>5, <2>4
<1>6. \/ e = Button(<<"battery", "refresh">>, <<"cmd", "battery", "refresh">>)
      \/ \E z \in Zones, what \in {"start", "stop"} : e = Button(<<z, what>>, <<"cmd", z, what>>)
      \/ \E z \in Zones, s \in Schedules : e = Button(<<z, s, "apply">>, <<"cmd", z, s, "apply">>)
  <2> DEFINE plain == {ZoneButton(z, what) : z \in Zones, what \in {"start", "stop"}}
             apply == {ApplyButton(z, s) : z \in Zones, s \in Schedules}
  <2> HIDE DEF Zones, Schedules, Button
  <2>1. ASSUME NEW x \in plain
        PROVE  \E z \in Zones, what \in {"start", "stop"} : x = ZoneButton(z, what)
    OBVIOUS
  <2>2. ASSUME NEW x \in apply PROVE \E z \in Zones, s \in Schedules : x = ApplyButton(z, s)
    OBVIOUS
  <2>3. \/ e = Button(<<"battery", "refresh">>, <<"cmd", "battery", "refresh">>)
        \/ e \in plain \/ e \in apply
    BY DEF Buttons
  <2> HIDE DEF plain, apply
  <2> QED BY <2>1, <2>2, <2>3 DEF ZoneButton, ApplyButton
<1> QED BY <1>3, <1>4, <1>5, <1>6

\* The manual duration is entered.
LEMMA DurationServed ==
  ASSUME NEW e, zone \in Zones,
         e = Control("duration", <<zone, "manual_duration_seconds">>,
                     <<"state", zone, "manual_duration_seconds">>,
                     <<"cmd", zone, "manual_duration_seconds", "set">>),
         NEW value \in Enterable(e.kind), ProcessCommand(e.cmd, value)
  PROVE  DurationEntered(e, value)
<1>1. /\ e.kind = "duration" /\ e.state = <<"state", zone, "manual_duration_seconds">>
      /\ e.cmd = <<"cmd", zone, "manual_duration_seconds", "set">>
  BY DEF Control
<1>2. value \in Numbers("duration")
  BY <1>1 DEF Enterable
<1>3. e.cmd[2] = zone
  BY <1>1
<1>u. Len(e.cmd) = 4 /\ e.cmd[3] = "manual_duration_seconds" /\ e.cmd[4] = "set"
  BY <1>1
<1>t. SubSeq(e.cmd, 3, Len(e.cmd)) = <<"manual_duration_seconds", "set">>
  BY <1>u, Suffix2
<1>4. HandleZoneCommand(zone, <<"manual_duration_seconds", "set">>, value)
  BY <1>1, <1>3, <1>t, ZoneMessage
<1> QED BY <1>1, <1>2, <1>4, NumberRange, DurationSets DEF DurationEntered

\* A setting of the Schedule is entered.
LEMMA SettingServed ==
  ASSUME Mode, NEW e \in ScheduleEntities(zone, Schedule), zone \in Zones,
         e.kind # "button", e.cmd # Nowhere,
         NEW value \in Enterable(e.kind), ProcessCommand(e.cmd, value)
  PROVE  \E field \in Settings : Entered(e, field, value)
<1>1. ASSUME NEW kind, NEW field \in Settings, e = Setting(kind, zone, Schedule, field)
      PROVE  /\ e.kind = kind /\ e.state = <<"state", zone, Schedule, field>>
             /\ SetField(field, value)
  <2>1. /\ e.kind = kind /\ e.state = <<"state", zone, Schedule, field>>
        /\ e.cmd = <<"cmd", zone, Schedule, field, "set">>
    BY <1>1 DEF Setting, Control
  <2>2. e.cmd[2] = zone
    BY <2>1
  <2>u. Len(e.cmd) = 5 /\ e.cmd[3] = Schedule /\ e.cmd[4] = field /\ e.cmd[5] = "set"
    BY <2>1
  <2>t. SubSeq(e.cmd, 3, Len(e.cmd)) = <<Schedule, field, "set">>
    BY <2>u, Suffix3
  <2>3. HandleZoneCommand(zone, <<Schedule, field, "set">>, value)
    BY <2>1, <2>2, <2>t, ZoneMessage
  <2> QED BY <2>1, <2>3, SettingSets
<1>n. ASSUME NEW name, NEW state, NEW attr, e = Sensor(name, state, attr) PROVE FALSE
  BY <1>n DEF Sensor
<1>b. ASSUME NEW name, NEW cmd, e = Button(name, cmd) PROVE FALSE
  BY <1>b DEF Button
<1>s. {"enabled", "days", "run_seconds"} \subseteq Settings
  BY DEF Settings
<1>2. CASE e = Setting("switch", zone, Schedule, "enabled")
  <2>1. e.kind = "switch" /\ value \in {"ON", "OFF"} /\ SetField("enabled", value)
    BY <1>1, <1>2, <1>s DEF Enterable
  <2>2. SetEnabled(value = "ON")
    BY <2>1 DEF SetField, StartFields, WindowFields
  <2> QED BY <1>1, <1>2, <1>s, <2>1, <2>2 DEF Entered
<1>3. CASE e = Setting("days", zone, Schedule, "days")
  <2>1. e.kind = "days" /\ SetField("days", value)
    BY <1>1, <1>3, <1>s
  <2>2. SetDays(value)
    BY <2>1 DEF SetField, StartFields, WindowFields
  <2> QED BY <1>1, <1>3, <1>s, <2>1, <2>2 DEF Entered
<1>4. CASE e = Setting("duration", zone, Schedule, "run_seconds")
  <2>1. e.kind = "duration" /\ SetField("run_seconds", value)
    BY <1>1, <1>4, <1>s
  <2>2. SetRun(value)
    BY <2>1 DEF SetField, StartFields, WindowFields
  <2>3. value \in 0..MaxWateringSeconds
    BY <2>1, NumberRange DEF Enterable
  <2> QED BY <1>1, <1>4, <1>s, <2>1, <2>2, <2>3 DEF Entered
<1>5. CASE Schedule = "cycling" /\ e = Setting("pause", zone, Schedule, "soak_seconds")
  <2>1. "soak_seconds" \in Settings
    BY <1>5 DEF Settings, Schedule
  <2>2. e.kind = "pause" /\ SetField("soak_seconds", value)
    BY <1>1, <1>5, <2>1
  <2>3. SetSoak(value)
    BY <2>2 DEF SetField, StartFields, WindowFields
  <2>4. value \in 0..MaxWateringSeconds
    BY <2>2, NumberRange DEF Enterable
  <2> QED BY <1>1, <1>5, <2>1, <2>2, <2>3, <2>4 DEF Entered
<1>6. ASSUME NEW field \in TimeFields(Schedule), e = Setting("time", zone, Schedule, field)
      PROVE  field \in Settings /\ Entered(e, field, value)
  <2>1. CASE target = "Timer"
    <3>1. PICK slot \in 1..4 : field = StartFields[slot]
      BY <1>6, <2>1 DEF TimeFields, Schedule
    <3>2. field \in Settings
      BY <2>1, <3>1 DEF Settings
    <3>3. e.kind = "time" /\ SetField(field, value)
      BY <1>1, <1>6, <3>2
    <3>4. field \in {"start1", "start2", "start3", "start4"}
      BY <3>1 DEF StartFields
    <3>5. \E s \in 1..4 : field = StartFields[s] /\ SetStartTime(s, value)
      <4>1. ~SetWindow("start", 1, value) /\ ~SetWindow("start", 2, value)
            /\ ~SetWindow("end", 1, value) /\ ~SetWindow("end", 2, value)
        BY <2>1 DEF SetWindow
      <4>2. \A edge \in {"start", "end"}, s \in 1..2 : ~SetWindow(edge, s, value)
        BY <4>1
      <4> QED BY <3>3, <3>4, <4>2 DEF SetField
    <3> QED BY <1>1, <1>6, <2>1, <3>2, <3>3, <3>5 DEF Entered
  <2>2. CASE target = "Cycling"
    <3>1. PICK edge \in {"start", "end"}, slot \in 1..2 : field = WindowFields[edge][slot]
      BY <1>6, <2>2 DEF TimeFields, Schedule
    <3>2. field \in Settings
      BY <2>2, <3>1 DEF Settings
    <3>3. e.kind = "time" /\ SetField(field, value)
      BY <1>1, <1>6, <3>2
    <3>4. field \in {"start1", "start2", "end1", "end2"}
      BY <3>1 DEF WindowFields
    <3>5. \E ed \in {"start", "end"}, s \in 1..2 :
            field = WindowFields[ed][s] /\ SetWindow(ed, s, value)
      <4>1. \A s \in 1..4 : ~SetStartTime(s, value)
        BY <2>2 DEF SetStartTime
      <4> QED BY <3>3, <3>4, <4>1 DEF SetField
    <3> QED BY <1>1, <1>6, <2>2, <3>2, <3>3, <3>5 DEF Entered
  <2> QED BY <2>1, <2>2 DEF Mode
<1>7. \/ e = Setting("switch", zone, Schedule, "enabled")
      \/ e = Setting("days", zone, Schedule, "days")
      \/ e = Setting("duration", zone, Schedule, "run_seconds")
      \/ Schedule = "cycling" /\ e = Setting("pause", zone, Schedule, "soak_seconds")
      \/ \E field \in TimeFields(Schedule) : e = Setting("time", zone, Schedule, field)
  <2> HIDE DEF Schedule
  <2> QED BY <1>n, <1>b DEF ScheduleEntities
<1> QED BY <1>2, <1>3, <1>4, <1>5, <1>6, <1>7, <1>1, <1>s

\* What a user does with an entity is served.
LEMMA UseIsServed ==
  ASSUME Mode, NEW e \in Entities, Mine(e), NEW value \in Enterable(e.kind),
         ProcessCommand(e.cmd, value)
  PROVE  Served(e, value)
BY MineForms, ButtonServed, DurationServed, SettingServed, Zenon DEF Served

\* Without an error the offered draft is the stored one.
LEMMA Accepted ==
  ASSUME NEW d, Offer(d), ~uiError'
  PROVE  draft' = d /\ target' = target
BY DEF Offer

\* The slot that publish_state shows in a field's topic is the slot that the
\* field sets.
LEMMA StartSlot ==
  ASSUME NEW slot \in 1..4, NEW field, field = StartFields[slot]
  PROVE  (CHOOSE i \in 1..4 : StartFields[i] = field) = slot
<1>1. \A i \in 1..4 : StartFields[i] = field => i = slot
  BY DEF StartFields
<1> HIDE DEF StartFields
<1> QED BY <1>1

LEMMA WindowSlot ==
  ASSUME NEW edge \in {"start", "end"}, NEW slot \in 1..2,
         NEW field, field = WindowFields[edge][slot]
  PROVE  (CHOOSE i \in 1..2 : WindowFields[edge][i] = field) = slot
<1>1. \A i \in 1..2 : WindowFields[edge][i] = field => i = slot
  BY DEF WindowFields
<1> HIDE DEF WindowFields
<1> QED BY <1>1

LEMMA WindowEdge ==
  ASSUME NEW edge \in {"start", "end"}, NEW slot \in 1..2,
         NEW field, field = WindowFields[edge][slot]
  PROVE  edge = IF field \in {"start1", "start2"} THEN "start" ELSE "end"
BY DEF WindowFields

\* What was entered without an error is what the entity shows.
LEMMA EnteredShows ==
  ASSUME ValidInv, zone' = zone, ~uiError', NEW e, NEW field, NEW value, Entered(e, field, value)
  PROVE  Shows(e, value)' /\ e.kind # "button"
<1>d. IF target = "Timer" THEN draft \in TimerDrafts ELSE draft \in CyclingDrafts
  BY DEF ValidInv, Draft
<1>e. e.state = <<"state", zone, Schedule, field>>
  BY DEF Entered
<1>s. e.state # <<"state", zone', "manual_duration_seconds">> /\ e.state[4] = field
  BY <1>e
<1>1. CASE e.kind = "switch" /\ value \in {"ON", "OFF"} /\ SetEnabled(value = "ON")
  <2>1. draft' = [draft EXCEPT !.enabled = (value = "ON")]
    BY <1>1, Accepted DEF SetEnabled
  <2>2. draft'.enabled = (value = "ON")
    BY <2>1, <1>d DEF TimerDrafts, CyclingDrafts
  <2>3. ShownEnabled' = value
    BY <1>1, <2>2 DEF ShownEnabled
  <2> QED BY <1>s, <1>1, <2>3 DEF Shows
<1>2. CASE e.kind = "days" /\ SetDays(value)
  <2>1. DaysOk(value) /\ Offer([draft EXCEPT !.days = ParseDays(value)])
    BY <1>2 DEF SetDays, Reject
  <2>2. draft'.days = ParseDays(value)
    BY <2>1, <1>d, Accepted DEF TimerDrafts, CyclingDrafts
  <2>3. ParseDays(FormatDays(draft'.days)) = ParseDays(value)
    BY <2>2, ParseDaysType, DaysRoundTrip
  <2> QED BY <1>s, <1>2, <2>3 DEF Shows, ShownDays
<1>3. CASE e.kind = "duration" /\ field = "run_seconds" /\ SetRun(value)
  <2>1. draft' = [draft EXCEPT !.run = value]
    BY <1>3, Accepted DEF SetRun
  <2>2. draft'.run = value
    BY <2>1, <1>d DEF TimerDrafts, CyclingDrafts
  <2> QED BY <1>s, <1>3, <2>2 DEF Shows, ShownSeconds
<1>4. CASE e.kind = "pause" /\ field = "soak_seconds" /\ SetSoak(value)
  <2>1. draft' = [draft EXCEPT !.soak = value] /\ target = "Cycling"
    BY <1>4, Accepted DEF SetSoak
  <2>2. draft'.soak = value
    BY <2>1, <1>d DEF CyclingDrafts
  <2> QED BY <1>s, <1>4, <2>2 DEF Shows, ShownSeconds
<1>5. ASSUME e.kind = "time", target = "Timer", NEW slot \in 1..4,
             field = StartFields[slot], SetStartTime(slot, value)
      PROVE  Shows(e, value)'
  <2>1. TimeOk(value) /\ Offer([draft EXCEPT !.starts[slot] = ParseTime(value)])
    BY <1>5 DEF SetStartTime, Reject
  <2>2. draft' = [draft EXCEPT !.starts[slot] = ParseTime(value)] /\ target' = "Timer"
    BY <1>5, <2>1, Accepted
  <2>3. draft'.starts[slot] = ParseTime(value)
    BY <1>5, <2>2, <1>d DEF TimerDrafts
  <2>4. ShownTime(field)' = FormatTime(ParseTime(value))
    <3>1. ShownTime(field)' = FormatTime(draft'.starts[CHOOSE i \in 1..4 : StartFields[i] = field])
      BY <2>2, Zenon DEF ShownTime
    <3>2. (CHOOSE i \in 1..4 : StartFields[i] = field) = slot
      BY <1>5, StartSlot, Zenon
    <3> QED BY <2>3, <3>1, <3>2, Zenon
  <2> QED BY <1>s, <1>5, <2>4 DEF Shows
<1>6. ASSUME e.kind = "time", target = "Cycling", NEW edge \in {"start", "end"}, NEW slot \in 1..2,
             field = WindowFields[edge][slot], SetWindow(edge, slot, value)
      PROVE  Shows(e, value)'
  <2>1. TimeOk(value) /\ Offer([draft EXCEPT ![edge] = [@ EXCEPT ![slot] = ParseTime(value)]])
    BY <1>6 DEF SetWindow, Reject
  <2>2. draft' = [draft EXCEPT ![edge] = [@ EXCEPT ![slot] = ParseTime(value)]] /\ target' = "Cycling"
    BY <1>6, <2>1, Accepted
  <2>3. draft'[edge][slot] = ParseTime(value)
    BY <1>6, <2>2, <1>d DEF CyclingDrafts
  <2>4. ShownTime(field)' = FormatTime(ParseTime(value))
    <3> DEFINE shown == IF field \in {"start1", "start2"} THEN "start" ELSE "end"
    <3>1. ShownTime(field)'
            = FormatTime(draft'[shown][CHOOSE i \in 1..2 : WindowFields[shown][i] = field])
      <4>1. target' # "Timer"
        BY <2>2
      <4> QED BY <4>1, Zenon DEF ShownTime
    <3>2. shown = edge /\ (CHOOSE i \in 1..2 : WindowFields[edge][i] = field) = slot
      <4>1. edge = shown
        BY <1>6, WindowEdge, Zenon
      <4>2. (CHOOSE i \in 1..2 : WindowFields[edge][i] = field) = slot
        BY <1>6, WindowSlot, Zenon
      <4> HIDE DEF shown
      <4> QED BY <4>1, <4>2
    <3> HIDE DEF shown
    <3> QED BY <2>3, <3>1, <3>2, Zenon
  <2> QED BY <1>s, <1>6, <2>4 DEF Shows
<1> QED BY <1>1, <1>2, <1>3, <1>4, <1>5, <1>6 DEF Entered

\* The same for the manual duration.
LEMMA DurationShows ==
  ASSUME zone' = zone, ~uiError', NEW e, NEW value, DurationEntered(e, value)
  PROVE  Shows(e, value)' /\ e.kind # "button"
<1>1. value \in 0..3600 /\ SetDuration(value) /\ e.kind = "duration"
  BY DEF DurationEntered, MaxWateringSeconds
<1>2. manual' = value % 2^16
  BY <1>1 DEF SetDuration, Reject
<1>3. value % 65536 = value /\ 2^16 = 65536
  BY <1>1
<1>4. e.state = <<"state", zone', "manual_duration_seconds">>
  BY DEF DurationEntered
<1> QED BY <1>1, <1>2, <1>3, <1>4 DEF Shows, ShownDuration

\* What a user does is a step of the schedule.
LEMMA ServedSteps == ASSUME NEW e, NEW value, Served(e, value) PROVE DraftStep
<1>1. CASE Pressed(e)
  BY <1>1 DEF Pressed, DraftStep
<1>2. CASE DurationEntered(e, value)
  <2>a. value \in 0..MaxWateringSeconds
    BY <1>2 DEF DurationEntered
  <2>1. value \in Int
    BY <2>a DEF MaxWateringSeconds
  <2> QED BY <1>2, <2>1 DEF DurationEntered, DraftStep, AnyMessage
<1>3. ASSUME NEW field, Entered(e, field, value) PROVE DraftStep
  <2>1. 0..MaxWateringSeconds \subseteq Int /\ (value = "ON") \in BOOLEAN
    BY DEF MaxWateringSeconds
  <2> QED BY <1>3, <2>1 DEF Entered, DraftStep, AnyMessage
<1> QED BY <1>1, <1>2, <1>3 DEF Served

\* The soak of a schedule that is set from Home Assistant only.
SoakInv == target = "Cycling" => draft.soak \in 0..MaxWateringSeconds

LEMMA ServedSoak ==
  ASSUME ValidInv, SoakInv, NEW e, NEW value, Served(e, value)
  PROVE  SoakInv'
<1>t. target' = target
  BY ServedSteps, TargetStays
<1> SUFFICES ASSUME target = "Cycling" PROVE draft'.soak \in 0..MaxWateringSeconds
  BY <1>t DEF SoakInv
<1>d. draft \in CyclingDrafts /\ draft.soak \in 0..MaxWateringSeconds
  BY DEF ValidInv, Draft, SoakInv
<1>u. ASSUME draft' = draft PROVE draft'.soak \in 0..MaxWateringSeconds
  BY <1>u, <1>d
<1>o. ASSUME NEW d, Offer(d), d.soak \in 0..MaxWateringSeconds
      PROVE  draft'.soak \in 0..MaxWateringSeconds
  BY <1>o, <1>d DEF Offer
<1>1. CASE Pressed(e)
  BY <1>1, <1>u DEF Pressed
<1>2. CASE DurationEntered(e, value)
  BY <1>2, <1>u DEF DurationEntered, SetDuration, Reject
<1>3. ASSUME NEW field, Entered(e, field, value) PROVE draft'.soak \in 0..MaxWateringSeconds
  <2>1. CASE SetEnabled(value = "ON")
    BY <2>1, <1>d, <1>o DEF SetEnabled, CyclingDrafts
  <2>2. CASE SetDays(value)
    BY <2>2, <1>d, <1>o, <1>u DEF SetDays, CyclingDrafts, Reject
  <2>3. CASE SetRun(value)
    BY <2>3, <1>d, <1>o DEF SetRun, CyclingDrafts
  <2>4. CASE value \in 0..MaxWateringSeconds /\ SetSoak(value)
    BY <2>4, <1>d, <1>o DEF SetSoak, CyclingDrafts
  <2>5. ASSUME NEW edge \in {"start", "end"}, NEW slot \in 1..2, SetWindow(edge, slot, value)
        PROVE  draft'.soak \in 0..MaxWateringSeconds
    <3>1. [draft EXCEPT ![edge] = [@ EXCEPT ![slot] = ParseTime(value)]].soak = draft.soak
      BY <1>d DEF CyclingDrafts
    <3> QED BY <2>5, <3>1, <1>d, <1>o, <1>u DEF SetWindow, Reject
  <2> QED BY <1>3, <2>1, <2>2, <2>3, <2>4, <2>5 DEF Entered
<1> QED BY <1>1, <1>2, <1>3 DEF Served

\* The topics that the entities read are the topics that are published.
Read(E) == (UNION {{e.state, e.attr} : e \in E}) \ {Nowhere}

LEMMA TopicsMatch == Read(Entities) = PublishedTopics
<1>s. ASSUME NEW name, NEW state, NEW attr
      PROVE  Sensor(name, state, attr).state = state /\ Sensor(name, state, attr).attr = attr
  BY DEF Sensor
<1>b. ASSUME NEW name, NEW cmd
      PROVE  Button(name, cmd).state = Nowhere /\ Button(name, cmd).attr = Nowhere
  BY DEF Button
<1>c. ASSUME NEW kind, NEW name, NEW state, NEW cmd
      PROVE  /\ Control(kind, name, state, cmd).state = state
             /\ Control(kind, name, state, cmd).attr = Nowhere
  BY DEF Control
<1>1. Read(BridgeEntities) = BridgeTopics
  <2> QED BY <1>s, <1>b DEF Read, BridgeEntities, BridgeTopics, Nowhere
<1>2. ASSUME NEW z PROVE Read(ZoneEntities(z)) = ZoneTopics(z)
  <2> QED BY <1>s, <1>b, <1>c DEF Read, ZoneEntities, ZoneTopics, Nowhere
<1>3. ASSUME NEW z, NEW s \in Schedules PROVE Read(ScheduleEntities(z, s)) = ScheduleTopics(z, s)
  <2>1. ASSUME NEW t, t \in Read(ScheduleEntities(z, s)) PROVE t \in ScheduleTopics(z, s)
    <3>1. PICK e \in ScheduleEntities(z, s) : t \in {e.state, e.attr} /\ t # Nowhere
      BY <2>1 DEF Read
    <3>2. ASSUME NEW kind, NEW field, e = Setting(kind, z, s, field)
          PROVE  t = <<"state", z, s, field>>
      BY <3>1, <3>2, <1>c DEF Setting
    <3>3. CASE e = Button(<<z, s, "apply">>, <<"cmd", z, s, "apply">>)
      BY <3>1, <3>3, <1>b
    <3>4. CASE e = Sensor(<<z, s, "apply_status">>, <<"state", z, s, "apply_status">>,
                          <<"attr", z, s>>)
      BY <3>1, <3>4, <1>s DEF ScheduleTopics
    <3>5. ASSUME NEW field, t = <<"state", z, s, field>>,
                 \/ field \in {"enabled", "days", "run_seconds"} \union TimeFields(s)
                 \/ s = "cycling" /\ field = "soak_seconds"
          PROVE  t \in ScheduleTopics(z, s)
      BY <3>5 DEF ScheduleTopics
    <3> HIDE DEF Schedules
    <3>6. \/ e = Setting("switch", z, s, "enabled") \/ e = Setting("days", z, s, "days")
          \/ e = Setting("duration", z, s, "run_seconds")
          \/ e = Button(<<z, s, "apply">>, <<"cmd", z, s, "apply">>)
          \/ e = Sensor(<<z, s, "apply_status">>, <<"state", z, s, "apply_status">>,
                        <<"attr", z, s>>)
          \/ \E field \in TimeFields(s) : e = Setting("time", z, s, field)
          \/ s = "cycling" /\ e = Setting("pause", z, s, "soak_seconds")
      BY DEF ScheduleEntities
    <3> QED BY <3>2, <3>3, <3>4, <3>5, <3>6
  <2>2. ASSUME NEW e \in ScheduleEntities(z, s)
        PROVE  {e.state, e.attr} \ {Nowhere} \subseteq Read(ScheduleEntities(z, s))
    BY DEF Read
  <2>3. ASSUME NEW t, t \in ScheduleTopics(z, s) PROVE t \in Read(ScheduleEntities(z, s))
    <3>1. ASSUME NEW kind, NEW field, Setting(kind, z, s, field) \in ScheduleEntities(z, s)
          PROVE  <<"state", z, s, field>> \in Read(ScheduleEntities(z, s))
      BY <2>2, <3>1, <1>c DEF Setting, Nowhere
    <3>2. /\ <<"state", z, s, "apply_status">> \in Read(ScheduleEntities(z, s))
          /\ <<"attr", z, s>> \in Read(ScheduleEntities(z, s))
      <4> DEFINE e == Sensor(<<z, s, "apply_status">>, <<"state", z, s, "apply_status">>,
                             <<"attr", z, s>>)
      <4>1. e \in ScheduleEntities(z, s)
        BY DEF ScheduleEntities
      <4>2. e.state = <<"state", z, s, "apply_status">> /\ e.attr = <<"attr", z, s>>
        BY <1>s
      <4> HIDE DEF e
      <4> QED BY <2>2, <4>1, <4>2 DEF Nowhere
    <3>3. /\ Setting("switch", z, s, "enabled") \in ScheduleEntities(z, s)
          /\ Setting("days", z, s, "days") \in ScheduleEntities(z, s)
          /\ Setting("duration", z, s, "run_seconds") \in ScheduleEntities(z, s)
          /\ \A field \in TimeFields(s) : Setting("time", z, s, field) \in ScheduleEntities(z, s)
          /\ s = "cycling" => Setting("pause", z, s, "soak_seconds") \in ScheduleEntities(z, s)
      BY DEF ScheduleEntities
    <3> QED BY <2>3, <3>1, <3>2, <3>3 DEF ScheduleTopics
  <2> QED BY <2>1, <2>3
<1>4. ASSUME NEW t PROVE t \in Read(Entities) <=> t \in PublishedTopics
  <2> QED BY <1>1, <1>2, <1>3 DEF Read, Entities, PublishedTopics
<1> QED BY <1>4

-----------------------------------------------------------------------------
(***************************************************************************)
(* The invariants of all steps.                                            *)
(***************************************************************************)

\* Whoever acts, a schedule only takes messages.
LEMMA AllSteps == ASSUME ValidInv, [AllNext]_allVars PROVE DraftStep
<1>1. CASE Next
  BY <1>1, ClientSteps
<1>2. CASE UiNext
  <2>1. PICK e \in {e \in Entities : Mine(e)} : \E value \in Enterable(e.kind) : Use(e, value)
    BY <1>2 DEF UiNext
  <2>2. PICK value \in Enterable(e.kind) : Use(e, value)
    BY <2>1
  <2> QED BY <2>1, <2>2, UseIsServed, ServedSteps DEF Use, ValidInv, Mode
<1>3. CASE UNCHANGED uiVars
  BY <1>3 DEF uiVars, vars, DraftStep
<1> QED BY <1>1, <1>2, <1>3 DEF AllNext, allVars

\* The stored draft is always one its validator accepted.
THEOREM DraftIsValid == Spec \/ AllSpec => []ValidInv
<1>1. Init => ValidInv
  BY ValidInit
<1>2. AllInit => ValidInv
  BY ValidInit DEF AllInit, UiInit
<1>3. ValidInv /\ [Next]_vars => ValidInv'
  BY ClientSteps, ValidStep
<1>4. ValidInv /\ [AllNext]_allVars => ValidInv'
  BY AllSteps, ValidStep
<1> QED BY <1>1, <1>2, <1>3, <1>4, PTL DEF Spec, AllSpec

\* However the settings are sent, the stored draft has the valve open for at
\* most the watering limit, at times of the day.
THEOREM BoundedHolds == Spec \/ AllSpec => []Bounded
<1>1. ValidInv => Bounded
  BY ValidBounds
<1> QED BY DraftIsValid, <1>1, PTL

\* No sequence of messages enters a cycling window: the end that is set first
\* leaves a partial pair, which the validator rejects.
THEOREM WindowsStayOffHolds == Spec \/ AllSpec => []WindowsStayOff
<1>1. Init => WindowsStayOff
  BY DEF Init, WindowsStayOff, NewDraft, Off
<1>2. AllInit => WindowsStayOff
  BY <1>1 DEF AllInit, UiInit
<1>3. ValidInv /\ WindowsStayOff /\ [Next]_vars => WindowsStayOff'
  BY ClientSteps, WindowsStep
<1>4. ValidInv /\ WindowsStayOff /\ [AllNext]_allVars => WindowsStayOff'
  BY AllSteps, WindowsStep
<1> QED BY DraftIsValid, <1>1, <1>2, <1>3, <1>4, PTL DEF Spec, AllSpec

\* A stored draft that cannot be built has a soak_seconds that is no second of
\* the day: everything else was validated.
THEOREM OnlySoakHolds == Spec \/ AllSpec => []OnlySoakIsUnbuildable
<1>1. ValidInv => OnlySoakIsUnbuildable
  BY ValidBuilds, ValidIsBuilt DEF OnlySoakIsUnbuildable
<1> QED BY DraftIsValid, <1>1, PTL

\* The block that is written for a stored draft says what the draft says.
THEOREM BlockDecodesHolds == Spec \/ AllSpec => []BlockDecodes
<1>1. ValidInv => BlockDecodes
  BY ValidDecodes
<1> QED BY DraftIsValid, <1>1, PTL

-----------------------------------------------------------------------------
\* Only a user gestures; what a user enters keeps soak_seconds small.
UiInv ==
  /\ part = "ui" => SoakInv
  /\ part # "ui" => gesture = NoGesture
  /\ UiIsServed

LEMMA ServedInit == AllInit => UiInv
<1> SUFFICES ASSUME AllInit PROVE UiInv
  OBVIOUS
<1>1. gesture = NoGesture /\ draft = NewDraft
  BY DEF AllInit, UiInit, Init
<1>2. gesture.entity.kind = "none"
  BY <1>1 DEF NoGesture
<1>3. SoakInv
  BY <1>1 DEF SoakInv, NewDraft, MaxWateringSeconds
<1> QED BY <1>1, <1>2, <1>3, TopicsMatch, Zenon DEF UiInv, UiIsServed, Read

LEMMA ServedStep == ASSUME ValidInv, UiInv, [AllNext]_allVars PROVE UiInv'
<1>t. (UNION {{e.state, e.attr} : e \in Entities}) \ {Nowhere} = PublishedTopics
  BY TopicsMatch DEF Read
<1>g. ASSUME part' # "ui", gesture' = NoGesture PROVE UiInv'
  <2>1. gesture'.entity.kind = "none"
    BY <1>g DEF NoGesture
  <2> QED BY <1>g, <1>t, <2>1 DEF UiInv, UiIsServed
<1>1. CASE part = "client" /\ Next /\ UNCHANGED <<part, zone, gesture, asked, input>>
  BY <1>1, <1>g DEF UiInv
<1>2. CASE part = "ui" /\ UiNext /\ UNCHANGED <<part, input>>
  <2>1. PICK e \in {e \in Entities : Mine(e)} : \E value \in Enterable(e.kind) : Use(e, value)
    BY <1>2 DEF UiNext
  <2>2. PICK value \in Enterable(e.kind) : Use(e, value)
    BY <2>1
  <2>3. Served(e, value)
    BY <2>1, <2>2, UseIsServed DEF Use, ValidInv, Mode
  <2>4. SoakInv'
    BY <1>2, <2>3, ServedSoak DEF UiInv
  <2>5. gesture' = [entity |-> e, value |-> value] /\ zone' = zone
    BY <2>2 DEF Use
  <2>6. gesture'.entity = e /\ gesture'.value = value
    BY <2>5
  <2>7. ASSUME ~uiError'
        PROVE  IF e.kind = "button" THEN asked' = e.name ELSE Shows(e, value)'
    <3>1. CASE Pressed(e)
      BY <3>1 DEF Pressed
    <3>2. CASE DurationEntered(e, value)
      BY <2>5, <2>7, <3>2, DurationShows
    <3>3. ASSUME NEW field, Entered(e, field, value)
          PROVE  Shows(e, value)' /\ e.kind # "button"
      BY <2>5, <2>7, <3>3, EnteredShows
    <3> QED BY <2>3, <3>1, <3>2, <3>3 DEF Served
  <2>8. UiIsServed'
    <3>1. Shows(e, value)' <=> Shows(gesture.entity, gesture.value)'
      BY <2>6 DEF Shows
    <3> QED BY <1>t, <2>6, <2>7, <3>1 DEF UiIsServed
  <2> QED BY <1>2, <2>4, <2>8 DEF UiInv
<1>3. CASE UNCHANGED <<part, uiVars>>
  BY <1>3 DEF uiVars, vars, UiInv, SoakInv, UiIsServed, Shows, ShownDuration, ShownEnabled,
              ShownDays, ShownSeconds, ShownTime
<1> QED BY <1>1, <1>2, <1>3 DEF AllNext, allVars

\* What a user does at an entity is not lost on the way, and the entities read
\* what is published.
THEOREM UiIsServedHolds == AllSpec => []UiIsServed
<1>1. UiInv => UiIsServed
  BY DEF UiInv
<1> QED BY DraftIsValid, ServedInit, ServedStep, <1>1, PTL DEF AllSpec

\* What Home Assistant lets a user enter can always be built: soak_seconds, the
\* one number no validator looks at, has a maximum there.
THEOREM EnteredBuildsHolds == AllSpec => []EnteredBuilds
<1>1. ASSUME ValidInv, UiInv PROVE EnteredBuilds
  <2>1. ASSUME part = "ui", target = "Cycling" PROVE SecondOfDay(draft.soak)
    <3>1. draft.soak \in 0..MaxWateringSeconds
      BY <1>1, <2>1 DEF UiInv, SoakInv
    <3>2. \A x \in 0..MaxWateringSeconds : SecondOfDay(x)
      BY DEF SecondOfDay, MaxWateringSeconds
    <3> QED BY <3>1, <3>2
  <2> QED BY <1>1, <2>1, ValidBuilds, ValidIsBuilt DEF EnteredBuilds, UiBuilds
<1> QED BY DraftIsValid, ServedInit, ServedStep, <1>1, PTL DEF AllSpec

-----------------------------------------------------------------------------
\* An input is one of those the steps choose.
InputInv ==
  \/ input = [kind |-> "none"]
  \/ \E m \in 0..127 : input = [kind |-> "mask", mask |-> m]
  \/ \E s \in Times : input = [kind |-> "time", seconds |-> s]
  \/ \E d \in Durations : input = [kind |-> "duration", seconds |-> d]
  \/ \E n \in 0..20 : \E p \in Payloads(n) : input = [kind |-> "notification", payload |-> p]
  \/ \E c \in Captures : input = [kind |-> "capture", capture |-> c]

LEMMA InputIsKnown == AllSpec => []InputInv
<1>1. AllInit => InputInv
  BY DEF AllInit, InputInit, InputInv
<1>2. ASSUME InputInv, [AllNext]_allVars PROVE InputInv'
  <2>1. CASE input' = input
    BY <1>2, <2>1 DEF InputInv
  <2>2. CASE InputNext
    BY <2>2, Zenon DEF InputNext, InputInv, AnyMask, AnyTime, AnyDuration, AnyNotification,
                       AnyCapture
  <2> QED BY <1>2, <2>1, <2>2 DEF AllNext, allVars
<1> QED BY <1>1, <1>2, PTL DEF AllSpec

\* What is published for a day mask or a time sets the same when it is sent back.
THEOREM RoundTripsHolds == AllSpec => []RoundTrips
<1>1. ASSUME InputInv PROVE RoundTrips
  <2>1. ASSUME input.kind = "mask" PROVE input.mask \in 0..127
    BY <1>1, <2>1 DEF InputInv
  <2>2. ASSUME input.kind = "time" PROVE input.seconds \in Int /\ SecondOfDay(input.seconds)
    <3>1. input.seconds \in Times
      BY <1>1, <2>2 DEF InputInv
    <3> QED BY <3>1, TimesAssumption
  <2> QED BY <2>1, <2>2, DaysRoundTrip, TimeRoundTrip DEF RoundTrips
<1> QED BY InputIsKnown, <1>1, PTL

\* A countdown that starts with the duration's minutes and seconds reads as the
\* duration; a stop needs the flag and the tail.
THEOREM NotificationsDecodeHolds == AllSpec => []NotificationsDecode
<1>1. ASSUME InputInv PROVE NotificationsDecode
  <2>1. ASSUME input.kind = "duration"
        PROVE  /\ Len(DurationPacket(input.seconds)) = 17
               /\ RemainingSeconds([i \in 1..16 |-> IF i \in {12, 13}
                                                      THEN DurationPacket(input.seconds)[i + 1]
                                                      ELSE 0]) = input.seconds
    <3> DEFINE d == input.seconds
               tick == [i \in 1..16 |-> IF i \in {12, 13} THEN DurationPacket(d)[i + 1] ELSE 0]
    <3>1. d \in 0..MaxWateringSeconds
      <4>1. input.seconds \in Durations
        BY <1>1, <2>1 DEF InputInv
      <4> QED BY <4>1, DurationsAssumption
    <3> HIDE DEF d
    <3>2. DurationPacket(d)[13] \in Int /\ DurationPacket(d)[14] \in Int
      <4>1. d \in Int
        BY <3>1 DEF MaxWateringSeconds
      <4>2. d \div 60 \in Int /\ d % 60 \in Int
        BY <4>1
      <4> QED BY <4>2 DEF DurationPacket
    <3>3. /\ tick \in [1..16 -> Int]
          /\ tick[12] = DurationPacket(d)[13] /\ tick[13] = DurationPacket(d)[14]
      BY <3>2
    <3> HIDE DEF tick
    <3>4. Len(DurationPacket(d)) = 17 /\ RemainingSeconds(tick) = d
      BY <3>1, <3>3, CountdownStarts
    <3> QED BY <3>4 DEF d, tick
  <2>2. ASSUME input.kind = "notification"
        PROVE  LET p == input.payload
                   n == Len(p)
               IN StopConfirmed(p) <=> n >= 5 /\ p[5] = 0 /\ <<p[n - 1], p[n]>> = <<128, 0>>
    <3>1. PICK n \in 0..20 : input.payload \in Payloads(n)
      BY <1>1, <2>2 DEF InputInv
    <3>2. input.payload \in Seq(Int)
      <4> DEFINE made(a, b, flag) ==
                   [i \in 1..n |-> IF i = n - 1 THEN a ELSE IF i = n THEN b
                                   ELSE IF i = 5 THEN flag ELSE 1]
      <4>p. Payloads(n) = {made(a, b, flag) : a \in Bytes, b \in Bytes, flag \in Bytes}
        BY DEF Payloads
      <4> HIDE DEF made
      <4>1. PICK a \in Bytes, b \in Bytes, flag \in Bytes : input.payload = made(a, b, flag)
        BY <3>1, <4>p
      <4>2. a \in Int /\ b \in Int /\ flag \in Int
        BY BytesAssumption
      <4>3. input.payload \in [1..n -> Int]
        BY <4>1, <4>2 DEF made
      <4> QED BY <4>3
    <3> QED BY <3>2, StopNeedsFlagAndTail
  <2> QED BY <2>1, <2>2, Zenon DEF NotificationsDecode
<1> QED BY InputIsKnown, <1>1, PTL

\* The code makes the captured bytes; the drafts of the captured blocks it refuses.
THEOREM MatchesCapturesHolds == AllSpec => []MatchesCaptures
<1>1. ASSUME InputInv PROVE MatchesCaptures
  <2>1. ASSUME input.kind = "capture" PROVE input.capture \in Captures
    BY <1>1, <2>1 DEF InputInv
  <2>2. ExceedsUnsigned(TimerDraft.run, MaxWateringSeconds)
    BY DEF ExceedsUnsigned, TimerDraft, MaxWateringSeconds
  <2>3. ~ValidWindow(CyclingDraft.start[1], CyclingDraft.end[1])
    BY DEF ValidWindow, CyclingDraft, MaxWateringSeconds, Off
  <2>4. TimerBlock(TimerDraft) = NoBlock /\ CyclingBlock(CyclingDraft) = NoBlock
    BY <2>2, <2>3 DEF TimerBlock, CyclingBlock, Built, ValidTimer, ValidCycling
  <2> QED BY <2>1, <2>4, CapturesMatch DEF MatchesCaptures
<1> QED BY InputIsKnown, <1>1, PTL
=============================================================================
