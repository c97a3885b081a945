-------------------------- MODULE BleTransportProofs --------------------------
(***************************************************************************)
(* BleTransport, however late the Hunter and the NimBLE host answer and    *)
(* whatever devices are in range: whose answers a session goes on with,    *)
(* the freshness of its handles, the choice of a scan, and the bound on    *)
(* the steps of a session.                                                 *)
(***************************************************************************)
EXTENDS BleTransport, SequenceTheorems, TLAPS

-----------------------------------------------------------------------------
Kinds == {"service", "characteristics", "read", "write"}
Ons == {"custom", "battery", "notify82", "notify8A", "notify8F", "prepare", "duration", "arm",
        "stop", "config", "block"}
Ops == [kind : Kinds, on : Ons]

LEMMA KindsAre ==
  "service" \in Kinds /\ "characteristics" \in Kinds /\ "read" \in Kinds /\ "write" \in Kinds
BY DEF Kinds

LEMMA OpIsOp == ASSUME NEW kind \in Kinds, NEW on \in Ons PROVE Op(kind, on) \in Ops
BY DEF Op, Ops

\* Sequences of two, three, four, five and seven.
LEMMA Listed ==
  ASSUME NEW S, NEW a \in S, NEW b \in S, NEW c \in S, NEW d \in S, NEW e \in S, NEW f \in S, NEW g \in S
  PROVE  /\ <<a, b>> \in Seq(S) /\ Len(<<a, b>>) = 2
         /\ <<a, b, c, d>> \in Seq(S) /\ Len(<<a, b, c, d>>) = 4
         /\ <<a, b, c>> \in Seq(S) /\ Len(<<a, b, c>>) = 3
         /\ <<a, b, c, d, e>> \in Seq(S) /\ Len(<<a, b, c, d, e>>) = 5
         /\ <<a, b, c, d, e, f, g>> \in Seq(S) /\ Len(<<a, b, c, d, e, f, g>>) = 7
<1>1. <<a, b, c>> \in Seq(S) /\ Len(<<a, b, c>>) = 3
  OBVIOUS
<1>2. <<a, b, c, d, e>> \in Seq(S) /\ Len(<<a, b, c, d, e>>) = 5
  OBVIOUS
<1>3. <<a, b, c, d, e, f, g>> \in Seq(S) /\ Len(<<a, b, c, d, e, f, g>>) = 7
  OBVIOUS
<1>4. <<a, b>> \in Seq(S) /\ Len(<<a, b>>) = 2
  OBVIOUS
<1>5. <<a, b, c, d>> \in Seq(S) /\ Len(<<a, b, c, d>>) = 4
  OBVIOUS
<1> QED BY <1>1, <1>2, <1>3, <1>4, <1>5

\* The scripts, position by position.
LEMMA Bodies ==
  /\ DOMAIN Body = {"start", "abort", "retract", "stop", "apply", "refresh"}
  /\ Body["start"] = <<Op("write", "prepare"), Op("write", "duration"), Op("write", "arm")>>
  /\ Body["abort"] = <<Op("write", "prepare"), Op("write", "duration"), Op("write", "stop"),
                       Op("write", "stop")>>
  /\ Body["retract"] = <<Op("write", "prepare"), Op("write", "duration"), Op("write", "arm"),
                         Op("write", "stop"), Op("write", "stop")>>
  /\ Body["stop"] = <<Op("write", "stop"), Op("write", "stop")>>
  /\ Body["apply"] = <<Op("read", "config"), Op("write", "config"), Op("write", "block"),
                       Op("read", "config"), Op("read", "block")>>
  /\ Body["refresh"] = <<>>
  /\ \A j \in DOMAIN Body : Body[j] \in Seq(Ops)
  /\ Len(Body["start"]) = 3 /\ Len(Body["abort"]) = 4 /\ Len(Body["retract"]) = 5
  /\ Len(Body["stop"]) = 2 /\ Len(Body["apply"]) = 5 /\ Len(Body["refresh"]) = 0
<1> DEFINE p == Op("write", "prepare")
           d == Op("write", "duration")
           a == Op("write", "arm")
           s == Op("write", "stop")
<1> HIDE DEF p, d, a, s
<1>1. /\ DOMAIN Body = {"start", "abort", "retract", "stop", "apply", "refresh"}
      /\ Body["start"] = <<p, d, a>> /\ Body["abort"] = <<p, d, s, s>>
      /\ Body["retract"] = <<p, d, a, s, s>> /\ Body["stop"] = <<s, s>>
      /\ Body["apply"] = <<Op("read", "config"), Op("write", "config"), Op("write", "block"),
                           Op("read", "config"), Op("read", "block")>>
      /\ Body["refresh"] = <<>>
  BY DEF Body, p, d, a, s
<1>2. /\ p \in Ops /\ d \in Ops /\ a \in Ops /\ s \in Ops
      /\ Op("read", "config") \in Ops /\ Op("write", "config") \in Ops
      /\ Op("write", "block") \in Ops /\ Op("read", "block") \in Ops
  BY OpIsOp, KindsAre DEF Ons, p, d, a, s
<1>3. Body["start"] \in Seq(Ops) /\ Len(Body["start"]) = 3
  BY <1>1, <1>2, Listed
<1>4. Body["abort"] \in Seq(Ops) /\ Len(Body["abort"]) = 4
  BY <1>1, <1>2, Listed
<1>5. Body["retract"] \in Seq(Ops) /\ Len(Body["retract"]) = 5
  BY <1>1, <1>2, Listed
<1>6. Body["stop"] \in Seq(Ops) /\ Len(Body["stop"]) = 2
  BY <1>1, <1>2, Listed
<1>7. Body["apply"] \in Seq(Ops) /\ Len(Body["apply"]) = 5
  BY <1>1, <1>2, Listed
<1>8. Body["refresh"] \in Seq(Ops) /\ Len(Body["refresh"]) = 0
  BY <1>1
<1>9. \A j \in DOMAIN Body : Body[j] \in Seq(Ops)
  BY <1>1, <1>3, <1>4, <1>5, <1>6, <1>7, <1>8
<1> QED BY <1>1, <1>3, <1>4, <1>5, <1>6, <1>7, <1>8, <1>9 DEF p, d, a, s

LEMMA Discoveries ==
  /\ Discovery \in Seq(Ops) /\ Len(Discovery) = 7
  /\ \A i \in 1..7 : Discovery[i].kind # "read" /\ Discovery[i].on \notin {"arm", "prepare"}
<1>1. /\ Op("service", "custom") \in Ops /\ Op("characteristics", "custom") \in Ops
      /\ Op("service", "battery") \in Ops /\ Op("characteristics", "battery") \in Ops
      /\ Op("write", "notify82") \in Ops /\ Op("write", "notify8A") \in Ops
      /\ Op("write", "notify8F") \in Ops
  BY OpIsOp, KindsAre DEF Ons
<1>2. /\ Discovery \in Seq(Ops) /\ Len(Discovery) = 7
  BY <1>1, Listed DEF Discovery
<1>3. \A i \in 1..7 : Discovery[i].kind # "read" /\ Discovery[i].on \notin {"arm", "prepare"}
  BY DEF Discovery, Op
<1> QED BY <1>2, <1>3

\* Two sequences in a row.
LEMMA Joined ==
  ASSUME NEW a \in Seq(Ops), NEW b \in Seq(Ops)
  PROVE  /\ a \o b \in Seq(Ops) /\ Len(a \o b) = Len(a) + Len(b)
         /\ \A i \in 1..Len(a) : (a \o b)[i] = a[i]
         /\ \A i \in 1..Len(b) : (a \o b)[Len(a) + i] = b[i]
<1>1. a \o b \in Seq(Ops)
  OBVIOUS
<1>2. Len(a \o b) = Len(a) + Len(b)
  OBVIOUS
<1>3. \A i \in 1..Len(a) : (a \o b)[i] = a[i]
  OBVIOUS
<1>4. \A i \in 1..Len(b) : (a \o b)[Len(a) + i] = b[i]
  OBVIOUS
<1> QED BY <1>1, <1>2, <1>3, <1>4, Zenon

\* What a session does at its positions.
LEMMA Scripts ==
  ASSUME NEW j \in DOMAIN Body
  PROVE  /\ BatteryAt = 8 /\ Script(j) \in Seq(Ops)
         /\ Len(Script(j)) = 8 + Len(Body[j]) /\ Len(Body[j]) \in 0..5
         /\ Script(j)[8] = Battery
         /\ \A i \in 1..7 : Script(j)[i] = Discovery[i]
         /\ \A i \in 1..Len(Body[j]) : Script(j)[8 + i] = Body[j][i]
<1>1. BatteryAt = 8
  BY Discoveries DEF BatteryAt
<1>2. Battery \in Ops
  BY OpIsOp, KindsAre DEF Battery, Ons
<1>3. Body[j] \in Seq(Ops) /\ Len(Body[j]) \in 0..5
  <2>1. Body[j] \in Seq(Ops)
    BY Bodies
  <2>2. j \in {"start", "abort", "retract", "stop", "apply", "refresh"}
    BY Bodies
  <2>3. /\ Len(Body["start"]) = 3 /\ Len(Body["abort"]) = 4 /\ Len(Body["retract"]) = 5
        /\ Len(Body["stop"]) = 2 /\ Len(Body["apply"]) = 5 /\ Len(Body["refresh"]) = 0
    BY Bodies
  <2>4. Len(Body[j]) \in 0..5
    BY <2>2, <2>3
  <2> QED BY <2>1, <2>4
<1>4. <<Battery>> \in Seq(Ops) /\ Len(<<Battery>>) = 1 /\ <<Battery>>[1] = Battery
  BY <1>2
<1> DEFINE one == <<Battery>>
           first == Discovery \o one
<1> HIDE DEF one
<1>5. /\ first \in Seq(Ops) /\ Len(first) = 8 /\ first[8] = Battery
      /\ \A i \in 1..7 : first[i] = Discovery[i]
  <2>1. one \in Seq(Ops) /\ Len(one) = 1 /\ one[1] = Battery
    BY <1>4 DEF one
  <2>2. Discovery \in Seq(Ops) /\ Len(Discovery) = 7
    BY Discoveries
  <2>3. /\ first \in Seq(Ops) /\ Len(first) = Len(Discovery) + Len(one)
        /\ \A i \in 1..Len(Discovery) : first[i] = Discovery[i]
        /\ \A i \in 1..Len(one) : first[Len(Discovery) + i] = one[i]
    BY <2>1, <2>2, Joined, Zenon DEF first
  <2> HIDE DEF first
  <2> QED BY <2>1, <2>2, <2>3
<1> HIDE DEF first
<1>6. /\ first \o Body[j] \in Seq(Ops) /\ Len(first \o Body[j]) = 8 + Len(Body[j])
      /\ \A i \in 1..8 : (first \o Body[j])[i] = first[i]
      /\ \A i \in 1..Len(Body[j]) : (first \o Body[j])[8 + i] = Body[j][i]
  <2> DEFINE whole == first \o Body[j]
  <2>1. /\ whole \in Seq(Ops) /\ Len(whole) = Len(first) + Len(Body[j])
        /\ \A i \in 1..Len(first) : whole[i] = first[i]
        /\ \A i \in 1..Len(Body[j]) : whole[Len(first) + i] = Body[j][i]
    BY <1>3, <1>5, Joined, Zenon DEF whole
  <2> HIDE DEF whole
  <2>2. /\ whole \in Seq(Ops) /\ Len(whole) = 8 + Len(Body[j])
        /\ \A i \in 1..8 : whole[i] = first[i]
        /\ \A i \in 1..Len(Body[j]) : whole[8 + i] = Body[j][i]
    BY <1>5, <2>1
  <2> QED BY <2>2 DEF whole
<1>7. Script(j) = first \o Body[j]
  BY DEF Script, first, one
<1> QED BY <1>1, <1>3, <1>5, <1>6, <1>7

\* The sessions of starts and stops write, each packet at its place.
LEMMA WritesAre ==
  ASSUME NEW j \in {"start", "abort", "retract", "stop"}
  PROVE  /\ Len(Body[j]) \in 2..5
         /\ \A k \in 1..Len(Body[j]) : /\ Body[j][k].kind = "write"
                                       /\ Body[j][k].on = "arm" => k = 3
                                       /\ Body[j][k].on = "prepare" => k = 1
<1> DEFINE n == Len(Body[j])
           Fits(k) == /\ Body[j][k].kind = "write"
                      /\ Body[j][k].on = "arm" => k = 3
                      /\ Body[j][k].on = "prepare" => k = 1
<1>1. CASE j = "start"
  <2>1. n = 3
    BY <1>1, Bodies
  <2>2. \A k \in 1..3 : Fits(k)
    BY <1>1, Bodies DEF Op
  <2> HIDE DEF n, Fits
  <2>3. n \in 2..5 /\ \A k \in 1..n : Fits(k)
    BY <2>1, <2>2
  <2> QED BY <2>3 DEF n, Fits
<1>2. CASE j = "abort"
  <2>1. n = 4
    BY <1>2, Bodies
  <2>2. \A k \in 1..4 : Fits(k)
    BY <1>2, Bodies DEF Op
  <2> HIDE DEF n, Fits
  <2>3. n \in 2..5 /\ \A k \in 1..n : Fits(k)
    BY <2>1, <2>2
  <2> QED BY <2>3 DEF n, Fits
<1>3. CASE j = "retract"
  <2>1. n = 5
    BY <1>3, Bodies
  <2>2. \A k \in 1..5 : Fits(k)
    BY <1>3, Bodies DEF Op
  <2> HIDE DEF n, Fits
  <2>3. n \in 2..5 /\ \A k \in 1..n : Fits(k)
    BY <2>1, <2>2
  <2> QED BY <2>3 DEF n, Fits
<1>4. CASE j = "stop"
  <2>1. n = 2
    BY <1>4, Bodies
  <2>2. \A k \in 1..2 : Fits(k)
    BY <1>4, Bodies DEF Op
  <2> HIDE DEF n, Fits
  <2>3. n \in 2..5 /\ \A k \in 1..n : Fits(k)
    BY <2>1, <2>2
  <2> QED BY <2>3 DEF n, Fits
<1> QED BY <1>1, <1>2, <1>3, <1>4

\* What the operations of a script are, as far as the invariant asks.
LEMMA Roles ==
  ASSUME NEW j \in DOMAIN Body, NEW i \in 1..Len(Script(j))
  PROVE  /\ Len(Script(j)) \in 8..13 /\ i \in Positions /\ BatteryAt = 8
         /\ Script(j)[i] \in Operations
         /\ Script(j)[i].on = "arm" => i = 11
         /\ Script(j)[i].on = "prepare" => i = 9
         /\ Script(j)[i].kind = "read" => i >= 8
         /\ i = 8 => Script(j)[i] = Battery
         /\ Script(j)[i].kind = "read" => Script(j)[i].on \in {"battery", "config", "block"}
         /\ i > 8 /\ Script(j)[i].kind = "read" /\ Script(j)[i - 1].kind = "read"
              => Script(j)[i - 1].on # Script(j)[i].on
<1>1. /\ BatteryAt = 8 /\ Script(j) \in Seq(Ops)
      /\ Len(Script(j)) = 8 + Len(Body[j]) /\ Len(Body[j]) \in 0..5
      /\ Script(j)[8] = Battery
      /\ \A k \in 1..7 : Script(j)[k] = Discovery[k]
      /\ \A k \in 1..Len(Body[j]) : Script(j)[8 + k] = Body[j][k]
  BY Scripts
<1>2. Len(Script(j)) \in 8..13 /\ i \in Positions
  <2> DEFINE n == Len(Script(j))
             m == Len(Body[j])
  <2>1. n = 8 + m /\ m \in 0..5 /\ i \in 1..n
    BY <1>1
  <2> HIDE DEF n, m
  <2>2. n \in 8..13 /\ i \in 1..13
    BY <2>1
  <2>3. Positions = 1..13
    BY <1>1 DEF Positions
  <2> QED BY <2>2, <2>3 DEF n
<1>3. Script(j)[i] \in Operations
  BY <1>1 DEF Operations
<1>4. Battery.kind = "read" /\ Battery.on = "battery"
  BY DEF Battery, Op
<1>5. CASE i \in 1..7
  BY <1>1, <1>2, <1>3, <1>5, Discoveries
<1>6. CASE i = 8
  BY <1>1, <1>2, <1>3, <1>4, <1>6
<1>7. CASE i > 8
  <2>1. i - 8 \in 1..Len(Body[j]) /\ Script(j)[i] = Body[j][i - 8]
    BY <1>1, <1>7
  <2>2. i > 9 => i - 9 \in 1..Len(Body[j]) /\ Script(j)[i - 1] = Body[j][i - 9]
    BY <1>1, <1>7
  <2>3. CASE j \in {"start", "abort", "retract", "stop"}
    <3>1. /\ Len(Body[j]) \in 2..5
          /\ \A k \in 1..Len(Body[j]) : /\ Body[j][k].kind = "write"
                                        /\ Body[j][k].on = "arm" => k = 3
                                        /\ Body[j][k].on = "prepare" => k = 1
      BY <2>3, WritesAre
    <3>2. /\ Script(j)[i].kind = "write"
          /\ Script(j)[i].on = "arm" => i - 8 = 3
          /\ Script(j)[i].on = "prepare" => i - 8 = 1
      BY <2>1, <3>1
    <3>3. (Script(j)[i].on = "arm" => i = 11) /\ (Script(j)[i].on = "prepare" => i = 9)
      BY <1>1, <1>2, <3>2 DEF Positions
    <3> QED BY <1>1, <1>2, <1>3, <1>7, <3>2, <3>3
  <2>4. CASE j = "apply"
    <3>1. /\ Len(Body[j]) = 5
          /\ Body[j][1].kind = "read" /\ Body[j][1].on = "config"
          /\ Body[j][2].kind = "write" /\ Body[j][2].on = "config"
          /\ Body[j][3].kind = "write" /\ Body[j][3].on = "block"
          /\ Body[j][4].kind = "read" /\ Body[j][4].on = "config"
          /\ Body[j][5].kind = "read" /\ Body[j][5].on = "block"
      BY <2>4, Bodies DEF Op
    <3>2. /\ Script(j)[9].kind = "read" /\ Script(j)[9].on = "config"
          /\ Script(j)[10].kind = "write" /\ Script(j)[10].on = "config"
          /\ Script(j)[11].kind = "write" /\ Script(j)[11].on = "block"
          /\ Script(j)[12].kind = "read" /\ Script(j)[12].on = "config"
          /\ Script(j)[13].kind = "read" /\ Script(j)[13].on = "block"
      <4>1. /\ Script(j)[8 + 1] = Body[j][1] /\ Script(j)[8 + 2] = Body[j][2]
            /\ Script(j)[8 + 3] = Body[j][3] /\ Script(j)[8 + 4] = Body[j][4]
            /\ Script(j)[8 + 5] = Body[j][5]
        BY <1>1, <3>1
      <4> QED BY <3>1, <4>1
    <3>3. i = 9 \/ i = 10 \/ i = 11 \/ i = 12 \/ i = 13
      <4>1. i - 8 \in 1..5
        BY <2>1, <3>1
      <4> QED BY <4>1
    <3> QED BY <1>1, <1>2, <1>3, <1>4, <3>2, <3>3
  <2>5. CASE j = "refresh"
    BY <2>1, <2>5, Bodies
  <2> QED BY <2>3, <2>4, <2>5, Bodies
<1> QED BY <1>2, <1>5, <1>6, <1>7

-----------------------------------------------------------------------------
(***************************************************************************)
(* The invariant of a session.                                             *)
(***************************************************************************)
Issuing == {"issue", "drain", "send"}
Waiting == {"wait", "check"}
Running == pc \in Issuing \union Waiting \union {"close"}

\* The semaphore was given to the operation that waits.
Given == gattSem \/ pc = "check"
At(i) == procs[i].at

WorkerTypes ==
  /\ pc \in {"idle", "ready", "scan", "call", "connecting", "late", "issue", "drain",
            "send", "wait", "check", "close"}
  /\ job \in Jobs /\ at \in 1..Len(Script(job)) /\ attempt \in 1..2

HostTypes ==
  /\ conn \in BOOLEAN /\ synced \in BOOLEAN /\ handles \in SUBSET Services
  /\ connectSem \in BOOLEAN /\ gattSem \in BOOLEAN /\ status \in BOOLEAN
  /\ payload \in {"empty", "battery", "config", "block"}
  /\ link \in {"none", "connecting", "up", "terminating"}
  /\ procs \in Seq([at : Positions, op : Operations])
  /\ stale \in BOOLEAN /\ giver \in Positions \union {0} /\ alone \in BOOLEAN
  /\ last \in [op : Operations, ok : BOOLEAN, own : BOOLEAN, alone : BOOLEAN, used : BOOLEAN]

Types == WorkerTypes /\ HostTypes

\* Handles and procedures end with the link they belong to, and a connection
\* nobody has a session on has no procedures.
LinkInv ==
  /\ stale = FALSE
  /\ link \in {"none", "connecting"} => Len(procs) = 0 /\ handles = {}
  /\ conn => link \in {"up", "terminating"}
  /\ conn /\ pc \in {"idle", "ready", "scan"} => Len(procs) = 0
  /\ pc \in {"call", "connecting", "late"} => Len(procs) = 0

\* The line of procedures never reaches further back than one operation, and
\* one of discovery never begins with an older one outstanding.
LineInv ==
  /\ Len(procs) <= 2
  /\ \A i, k \in 1..Len(procs) : At(i) <= At(k) + 1
  /\ \A i \in 1..Len(procs) : /\ procs[i].op.on = "arm" => At(i) = 11
                              /\ procs[i].op.on = "prepare" => At(i) = 9
  /\ Running => \A i \in 1..Len(procs) : procs[i].op = Script(job)[At(i)]
  /\ pc = "close" => \A i \in 1..Len(procs) : At(i) \in {at - 1, at}
  /\ pc \in Issuing => /\ Len(procs) <= 1
                       /\ at <= 8 => Len(procs) = 0
                       /\ \A i \in 1..Len(procs) : At(i) = at - 1
  /\ pc \in Waiting =>
       /\ Len(procs) = 1 => At(1) = at
       /\ Len(procs) = 2 => At(1) = at - 1 /\ At(2) = at /\ at > 8 /\ ~Given
       /\ Given /\ at <= 8 => Len(procs) = 0

\* What an answer that was given says of the operation that is being issued, and
\* of the one that waits for it.
AnswerInv ==
  /\ pc \in {"drain", "send"} /\ Current.kind = "read" /\ at # 8 => payload # Current.on
  /\ pc = "send" =>
       /\ giver # at
       /\ gattSem => Len(procs) = 0 /\ at > 8
       /\ alone => Len(procs) = 0 /\ ~gattSem
  /\ pc \in Waiting =>
       /\ Len(procs) > 0 => giver # at
       /\ alone => Len(procs) <= 1 /\ (Given /\ status => giver = at)
       /\ Current.kind = "read" /\ at # 8 /\ payload = Current.on => giver = at

LastInv == AloneMeansOwn /\ ReadsAreOwn

SessionInv == Types /\ LinkInv /\ LineInv /\ AnswerInv /\ LastInv

-----------------------------------------------------------------------------
(***************************************************************************)
(* The scan.                                                               *)
(***************************************************************************)
\* What the handler keeps is the best of what was heard.
KeptIsBest ==
  scanPc = "scanning" /\ ~found =>
    /\ Hunter \notin heard
    /\ \A d \in heard : Scores[d] <= score
    /\ fallback # None => fallback \in heard /\ score > 0

PickIsBest ==
  found /\ scanPc \in {"scanning", "picked"} =>
    /\ peer \in heard
    /\ Hunter \in heard => peer = Hunter
    /\ peer = Hunter \/ (Scores[peer] > 0 /\ \A d \in heard : Scores[d] <= Scores[peer])

ScanInv ==
  /\ Scanner!TypeOK
  /\ active => scanPc = "scanning" /\ ~sem /\ ~found
  /\ scanPc = "picked" => found
  /\ KeptIsBest /\ PickIsBest

LEMMA ScanBegins == Scanner!Init => ScanInv
BY DEF Scanner!Init, ScanInv, Scanner!TypeOK, KeptIsBest, PickIsBest

LEMMA ScanSteps == ScanInv /\ [Scanner!Next]_scanVars => ScanInv'
<1> SUFFICES ASSUME ScanInv, [Scanner!Next]_scanVars PROVE ScanInv'
  OBVIOUS
<1>1. CASE Scanner!Start
  <2>1. /\ sem' = FALSE /\ found' = FALSE /\ fallback' = None /\ score' = 0 /\ peer' = peer
        /\ ~active
        /\ \/ scanPc' = "scanning" /\ active' = TRUE /\ heard' = {}
           \/ scanPc' = "failed" /\ active' = active /\ heard' = heard
    BY <1>1 DEF Scanner!Start, Scanner!Forget, ScanInv
  <2>2. Scanner!TypeOK'
    BY <2>1 DEF ScanInv, Scanner!TypeOK
  <2>3. KeptIsBest' /\ PickIsBest'
    BY <2>1 DEF KeptIsBest, PickIsBest
  <2> QED BY <2>1, <2>2, <2>3 DEF ScanInv
<1>2. ASSUME NEW d \in Devices, Scanner!Advertisement(d) PROVE ScanInv'
  <2>1. /\ active /\ heard' = heard \union {d} /\ UNCHANGED scanPc
        /\ scanPc = "scanning" /\ ~sem /\ ~found
        /\ Scores[d] \in 0..3 /\ \A e \in Devices : Scores[e] \in 0..3
    BY <1>2, ScoresAssumption DEF Scanner!Advertisement, ScanInv
  <2>2. CASE Scanner!Stop(d) /\ (d = Hunter \/ Scores[d] = 3)
    <3>1. Scanner!TypeOK'
      BY <2>1, <2>2 DEF Scanner!Stop, ScanInv, Scanner!TypeOK
    <3>2. PickIsBest'
      BY <2>1, <2>2 DEF Scanner!Stop, ScanInv, Scanner!TypeOK, KeptIsBest, PickIsBest
    <3> QED BY <2>1, <2>2, <3>1, <3>2 DEF Scanner!Stop, ScanInv, KeptIsBest
  <2>3. CASE Scanner!Keep(d) /\ d # Hunter
    <3>1. Scanner!TypeOK'
      BY <2>1, <2>3, NoneAssumption DEF Scanner!Keep, Scanner!Better, ScanInv, Scanner!TypeOK
    <3>2. KeptIsBest'
      BY <2>1, <2>3, NoneAssumption DEF Scanner!Keep, Scanner!Better, ScanInv, Scanner!TypeOK, KeptIsBest
    <3> QED BY <2>1, <2>3, <3>1, <3>2 DEF Scanner!Keep, ScanInv, PickIsBest
  <2> QED BY <1>2, <2>2, <2>3 DEF Scanner!Advertisement
<1>3. CASE Scanner!Complete
  BY <1>3, ScoresAssumption DEF Scanner!Complete, Scanner!TakeFallback, ScanInv, Scanner!TypeOK,
     KeptIsBest, PickIsBest
<1>4. CASE Scanner!Done
  BY <1>4, ScoresAssumption DEF Scanner!Done, Scanner!TakeFallback, ScanInv, Scanner!TypeOK,
     KeptIsBest, PickIsBest
<1>5. CASE Scanner!Timeout
  BY <1>5 DEF Scanner!Timeout, ScanInv, Scanner!TypeOK, KeptIsBest, PickIsBest
<1>6. CASE UNCHANGED scanVars
  BY <1>6 DEF scanVars, ScanInv, Scanner!TypeOK, KeptIsBest, PickIsBest
<1> QED BY <1>1, <1>2, <1>3, <1>4, <1>5, <1>6 DEF Scanner!Next

LEMMA ScanMissesNone ==
  ScanInv /\ Scanner!Done /\ scanPc' = "failed" => Hunter \notin heard /\ \A d \in heard : Scores[d] = 0
BY ScoresAssumption DEF ScanInv, Scanner!Done, Scanner!TakeFallback, Scanner!TypeOK, KeptIsBest

-----------------------------------------------------------------------------
(***************************************************************************)
(* The sessions.                                                           *)
(***************************************************************************)
Procs == [at : Positions, op : Operations]

LEMMA PositionsAre == Positions = 1..13 /\ BatteryAt = 8
<1>1. BatteryAt = 8
  BY Discoveries DEF BatteryAt
<1> QED BY <1>1 DEF Positions

\* What the operations of all scripts are.
LEMMA OperationsAre ==
  ASSUME NEW o \in Operations
  PROVE  /\ o.kind = "read" => o.on \in {"battery", "config", "block"}
         /\ o.kind = "characteristics" => o.on \in Services
<1>0. PICK j \in DOMAIN Body : o \in {Script(j)[k] : k \in DOMAIN Script(j)}
  BY DEF Operations
<1>1. PICK i \in DOMAIN Script(j) : o = Script(j)[i]
  BY <1>0
<1>2. Script(j) \in Seq(Ops) /\ DOMAIN Script(j) = 1..Len(Script(j))
  BY Scripts
<1>3. o.kind = "read" => o.on \in {"battery", "config", "block"}
  BY <1>1, <1>2, Roles
<1>4. o.kind = "characteristics" => o.on \in Services
  <2>1. CASE i \in 1..7
    <3>1. \A k \in 1..7 : Discovery[k].kind = "characteristics" => Discovery[k].on \in Services
      BY DEF Discovery, Op, Services
    <3> QED BY <1>1, <2>1, <3>1, Scripts
  <2>2. CASE i = 8
    BY <1>1, <2>2, Scripts DEF Battery, Op
  <2>3. CASE i > 8
    <3>1. i - 8 \in 1..Len(Body[j]) /\ o = Body[j][i - 8]
      BY <1>1, <1>2, <2>3, Scripts
    <3>2. \A k \in 1..Len(Body[j]) : Body[j][k].kind # "characteristics"
      <4>1. CASE j \in {"start", "abort", "retract", "stop"}
        BY <4>1, WritesAre
      <4>2. CASE j = "apply"
        <5>1. Len(Body[j]) = 5
          BY <4>2, Bodies
        <5>2. /\ Body[j][1].kind = "read" /\ Body[j][2].kind = "write" /\ Body[j][3].kind = "write"
              /\ Body[j][4].kind = "read" /\ Body[j][5].kind = "read"
          BY <4>2, Bodies DEF Op
        <5> QED BY <5>1, <5>2
      <4>3. CASE j = "refresh"
        BY <4>3, Bodies
      <4> QED BY <4>1, <4>2, <4>3, Bodies
    <3> QED BY <3>1, <3>2
  <2> QED BY <1>1, <1>2, <2>1, <2>2, <2>3
<1> QED BY <1>3, <1>4

\* A line of at most two procedures, taken from at its head and appended to.
LEMMA Line ==
  ASSUME NEW s \in Seq(Procs), Len(s) <= 2
  PROVE  /\ Len(s) \in {0, 1, 2}
         /\ (s = <<>>) = (Len(s) = 0)
         /\ \A i \in 1..Len(s) : s[i] \in Procs
         /\ s # <<>> => /\ Head(s) = s[1] /\ Tail(s) \in Seq(Procs) /\ Len(Tail(s)) = Len(s) - 1
                        /\ Len(s) = 2 => Tail(s)[1] = s[2]
<1>0. Len(s) \in {0, 1, 2}
  <2> DEFINE n == Len(s)
  <2>1. n \in Nat /\ n <= 2
    OBVIOUS
  <2> HIDE DEF n
  <2>2. n \in {0, 1, 2}
    BY <2>1
  <2> QED BY <2>2 DEF n
<1>1. \A i \in 1..Len(s) : s[i] \in Procs
  OBVIOUS
<1>2. (s = <<>>) = (Len(s) = 0)
  OBVIOUS
<1>3. s # <<>> => Head(s) = s[1]
  OBVIOUS
<1>4. s # <<>> => Tail(s) \in Seq(Procs) /\ Len(Tail(s)) = Len(s) - 1
  OBVIOUS
<1>5. s # <<>> /\ Len(s) = 2 => Tail(s)[1] = s[2]
  OBVIOUS
<1> QED BY <1>0, <1>1, <1>2, <1>3, <1>4, <1>5

LEMMA LineGrows ==
  ASSUME NEW s \in Seq(Procs), Len(s) <= 1, NEW e \in Procs
  PROVE  /\ Append(s, e) \in Seq(Procs) /\ Len(Append(s, e)) = Len(s) + 1
         /\ Append(s, e)[Len(s) + 1] = e
         /\ Len(s) = 1 => Append(s, e)[1] = s[1]
OBVIOUS

\* Numbers and roles, for every step.
LEMMA Facts ==
  ASSUME SessionInv
  PROVE  /\ job \in DOMAIN Body /\ Len(Script(job)) \in 8..13 /\ at \in 1..13 /\ at <= Len(Script(job))
         /\ Positions = 1..13 /\ BatteryAt = 8
         /\ procs \in Seq(Procs) /\ Len(procs) \in {0, 1, 2}
         /\ (procs = <<>>) = (Len(procs) = 0)
         /\ \A i \in 1..Len(procs) : At(i) \in 1..13 /\ procs[i].op \in Operations
         /\ Current \in Operations
         /\ at = 8 => Current = Battery
         /\ Current.on = "arm" => at = 11
         /\ Current.on = "prepare" => at = 9
         /\ Current.kind = "read" => at >= 8 /\ Current.on \in {"battery", "config", "block"}
<1>1. /\ procs \in Seq(Procs) /\ Len(procs) <= 2
  BY DEF SessionInv, Types, WorkerTypes, HostTypes, LineInv, Procs
<1>2. /\ Len(procs) \in {0, 1, 2} /\ (procs = <<>>) = (Len(procs) = 0)
      /\ \A i \in 1..Len(procs) : procs[i] \in Procs
  BY <1>1, Line
<1>3. job \in DOMAIN Body /\ at \in 1..Len(Script(job))
  BY JobsAssumption DEF SessionInv, Types, WorkerTypes, HostTypes
<1>4. /\ Len(Script(job)) \in 8..13
      /\ Current \in Operations
      /\ at = 8 => Current = Battery
      /\ Current.on = "arm" => at = 11
      /\ Current.on = "prepare" => at = 9
      /\ Current.kind = "read" => at >= 8 /\ Current.on \in {"battery", "config", "block"}
  BY <1>3, Roles DEF Current
<1>5. at \in 1..13 /\ at <= Len(Script(job))
  <2> DEFINE n == Len(Script(job))
  <2>1. n \in 8..13 /\ at \in 1..n
    BY <1>3, <1>4
  <2> HIDE DEF n
  <2>2. at \in 1..13 /\ at <= n
    BY <2>1
  <2> QED BY <2>2 DEF n
<1>6. \A i \in 1..Len(procs) : At(i) \in 1..13 /\ procs[i].op \in Operations
  BY <1>2, PositionsAre DEF Procs, At
<1> QED BY <1>1, <1>2, <1>3, <1>4, <1>5, <1>6, PositionsAre

LEMMA SessionBegins == Init => SessionInv
<1> SUFFICES ASSUME Init PROVE SessionInv
  OBVIOUS
<1>1. job \in DOMAIN Body /\ job \in Jobs
  BY JobsAssumption DEF Init
<1>2. Len(Script(job)) \in 8..13
  <2> DEFINE n == Len(Script(job))
             m == Len(Body[job])
  <2>1. n = 8 + m /\ m \in 0..5
    BY <1>1, Scripts
  <2> HIDE DEF n, m
  <2>2. n \in 8..13
    BY <2>1
  <2> QED BY <2>2 DEF n
<1>3. Battery \in Operations
  <2>1. 8 \in DOMAIN Script(job) /\ Script(job)[8] = Battery
    BY <1>1, <1>2, Scripts
  <2> QED BY <1>1, <2>1 DEF Operations
<1>4. procs \in Seq([at : Positions, op : Operations]) /\ Len(procs) = 0
  BY DEF Init
<1>5. 1 \in 1..Len(Script(job))
  <2> DEFINE n == Len(Script(job))
  <2>1. n \in 8..13
    BY <1>2
  <2> HIDE DEF n
  <2>2. 1 \in 1..n
    BY <2>1
  <2> QED BY <2>2 DEF n
<1>6. Types
  <2>1. job \in Jobs /\ at \in 1..Len(Script(job))
    BY <1>1, <1>5, Zenon DEF Init
  <2>2. last \in [op : Operations, ok : BOOLEAN, own : BOOLEAN, alone : BOOLEAN, used : BOOLEAN]
    BY <1>3 DEF Init
  <2>3. /\ pc \in {"idle", "ready", "scan", "call", "connecting", "late", "issue", "drain",
            "send", "wait", "check", "close"}
        /\ attempt \in 1..2 /\ handles \in SUBSET Services
        /\ payload \in {"empty", "battery", "config", "block"}
        /\ link \in {"none", "connecting", "up", "terminating"} /\ giver \in Positions \union {0}
    BY DEF Init
  <2>4. /\ conn \in BOOLEAN /\ synced \in BOOLEAN /\ connectSem \in BOOLEAN /\ gattSem \in BOOLEAN
        /\ status \in BOOLEAN /\ stale \in BOOLEAN /\ alone \in BOOLEAN
    BY DEF Init
  <2> QED BY <1>4, <2>1, <2>2, <2>3, <2>4, Zenon DEF Types, WorkerTypes, HostTypes
<1> QED BY <1>4, <1>6 DEF Init, SessionInv, LinkInv, LineInv, AnswerInv, LastInv, AloneMeansOwn,
        ReadsAreOwn, Running, Issuing, Waiting

\* The operation returns to the session.
LEMMA ReturnKeeps ==
  ASSUME SessionInv, NEW ok \in BOOLEAN, Return(ok),
         UNCHANGED <<synced, connectSem, gattSem, status, payload, procs, giver, alone>>,
         \/ pc \in {"issue", "send"} /\ ~ok
         \/ pc = "check" /\ ok = status
         \/ pc = "wait" /\ ~ok
  PROVE  SessionInv'
<1> USE Facts
<1>1. /\ last' = [op |-> Current, ok |-> ok, own |-> giver = at, alone |-> alone, used |-> ok /\ Accepts]
      /\ \/ at < 8 /\ ~ok /\ Disconnect /\ Retry
         \/ /\ at >= 8 /\ pc' = "close" /\ UNCHANGED <<job, at, attempt, conn, handles, link, stale>>
         \/ /\ at >= 8 => at # Len(Script(job)) /\ (at > 8 => ok)
            /\ at < 8 => ok
            /\ pc' = "issue" /\ at' = at + 1 /\ UNCHANGED <<job, attempt, conn, handles, link, stale>>
  BY DEF Return
<1>2. Types'
  <2>1. at' \in 1..Len(Script(job')) /\ job' \in Jobs
    <3> DEFINE n == Len(Script(job))
    <3>1. n \in 8..13 /\ at \in 1..13 /\ at <= n /\ job' = job
          /\ (at' = at \/ (at' = at + 1 /\ (at < 8 \/ at # n)))
      BY <1>1 DEF Retry
    <3> HIDE DEF n
    <3>2. at' \in 1..n
      BY <3>1
    <3>3. job' = job /\ job \in Jobs
      BY <3>1 DEF SessionInv, Types, WorkerTypes, HostTypes
    <3> QED BY <3>2, <3>3, Zenon DEF n
  <2>2. last' \in [op : Operations, ok : BOOLEAN, own : BOOLEAN, alone : BOOLEAN, used : BOOLEAN]
    <3>1. (giver = at) \in BOOLEAN /\ (ok /\ Accepts) \in BOOLEAN /\ alone \in BOOLEAN /\ Current \in Operations
      BY DEF SessionInv, Types, WorkerTypes, HostTypes
    <3> QED BY <1>1, <3>1, Zenon
  <2>3. /\ pc' \in {"idle", "ready", "scan", "call", "connecting", "late", "issue", "drain",
            "send", "wait", "check", "close"}
        /\ attempt' \in 1..2 /\ conn' \in BOOLEAN /\ handles' \in SUBSET Services
        /\ link' \in {"none", "connecting", "up", "terminating"} /\ stale' \in BOOLEAN
    <3>1. Types
      BY DEF SessionInv
    <3>2. CASE Disconnect /\ Retry
      <4>1. link' \in {"none", "connecting", "up", "terminating"}
        BY <3>1, <3>2 DEF Types, WorkerTypes, HostTypes, Disconnect
      <4>2. conn' \in BOOLEAN /\ handles' \in SUBSET Services /\ stale' \in BOOLEAN
        BY <3>2 DEF Disconnect
      <4>3. pc' \in {"scan", "idle"} /\ attempt' \in 1..2
        BY <3>1, <3>2 DEF Types, WorkerTypes, HostTypes, Retry
      <4> QED BY <4>1, <4>2, <4>3
    <3>3. CASE pc' \in {"close", "issue"} /\ UNCHANGED <<attempt, conn, handles, link, stale>>
      BY <3>1, <3>3 DEF Types, WorkerTypes, HostTypes
    <3> QED BY <1>1, <3>2, <3>3
  <2> QED BY <2>1, <2>2, <2>3 DEF SessionInv, Types, WorkerTypes, HostTypes
<1>3. LinkInv'
  BY <1>1 DEF SessionInv, LinkInv, Types, WorkerTypes, HostTypes, Disconnect, Retry
<1>4. LineInv'
  BY <1>1 DEF SessionInv, Types, WorkerTypes, HostTypes, LineInv, At, Running, Issuing, Waiting,
     Given, Disconnect, Retry
<1>5. AnswerInv'
  BY <1>1 DEF AnswerInv, Waiting, Retry
<1>6. LastInv'
  BY <1>1 DEF SessionInv, LastInv, AloneMeansOwn, ReadsAreOwn, AnswerInv, Waiting, Given, Accepts
<1> QED BY <1>2, <1>3, <1>4, <1>5, <1>6 DEF SessionInv

LEMMA Starts == ASSUME NEW j \in Jobs PROVE 1 \in 1..Len(Script(j)) /\ 8 \in 1..Len(Script(j))
<1> DEFINE n == Len(Script(j))
           m == Len(Body[j])
<1>1. n = 8 + m /\ m \in 0..5
  BY JobsAssumption, Scripts
<1> HIDE DEF n, m
<1>2. 1 \in 1..n /\ 8 \in 1..n
  BY <1>1
<1> QED BY <1>2 DEF n

\* A step of the worker outside the operations, which are not touched.
LEMMA QuietKeeps ==
  ASSUME SessionInv, UNCHANGED <<gattSem, status, payload, procs, giver, alone, last>>,
         pc' \notin {"drain", "send", "wait", "check", "close"}, pc' = "issue" => Len(procs) = 0,
         WorkerTypes', conn' \in BOOLEAN, synced' \in BOOLEAN, connectSem' \in BOOLEAN,
         handles' \in SUBSET Services, link' \in {"none", "connecting", "up", "terminating"},
         LinkInv'
  PROVE  SessionInv'
<1> USE Facts
<1>1. HostTypes'
  <2>1. HostTypes
    BY DEF SessionInv, Types
  <2>2. stale' \in BOOLEAN
    BY DEF LinkInv
  <2> QED BY <2>1, <2>2, Zenon DEF HostTypes
<1>2. LineInv'
  BY DEF SessionInv, LineInv, At, Running, Issuing, Waiting
<1>3. AnswerInv' /\ LastInv'
  BY DEF SessionInv, AnswerInv, Waiting, LastInv, AloneMeansOwn, ReadsAreOwn
<1> QED BY <1>1, <1>2, <1>3 DEF SessionInv, Types

\* A step of the host that no operation sees.
LEMMA AsideKeeps ==
  ASSUME SessionInv, UNCHANGED <<worker, gattSem, status, payload, procs, giver, alone, last, handles>>,
         conn' \in BOOLEAN, synced' \in BOOLEAN, connectSem' \in BOOLEAN,
         link' \in {"none", "connecting", "up", "terminating"}, LinkInv'
  PROVE  SessionInv'
<1> USE Facts
<1>1. Types'
  <2>1. WorkerTypes'
    BY Zenon DEF SessionInv, Types, WorkerTypes, worker
  <2>2. HostTypes'
    <3>1. HostTypes
      BY DEF SessionInv, Types
    <3>2. stale' \in BOOLEAN
      BY DEF LinkInv
    <3> QED BY <3>1, <3>2, Zenon DEF HostTypes
  <2> QED BY <2>1, <2>2 DEF Types
<1>2. LineInv'
  BY DEF SessionInv, LineInv, At, Running, Issuing, Waiting, Given, worker
<1>3. AnswerInv' /\ LastInv'
  BY DEF SessionInv, AnswerInv, Waiting, Given, LastInv, AloneMeansOwn, ReadsAreOwn, worker, Current
<1> QED BY <1>1, <1>2, <1>3 DEF SessionInv

LEMMA RetryTypes == ASSUME WorkerTypes, Retry PROVE WorkerTypes'
<1>1. pc' \in {"scan", "idle"} /\ attempt' \in 1..2
  BY DEF WorkerTypes, Retry
<1>2. job' \in Jobs /\ at' \in 1..Len(Script(job'))
  BY Zenon DEF WorkerTypes, Retry
<1> QED BY <1>1, <1>2 DEF WorkerTypes

LEMMA ConnectSteps ==
  ASSUME SessionInv, Begin \/ Ready \/ Scan \/ ConnectCall \/ ConnectDone \/ ConnectTimeout \/ ConnectLate \/ Close
  PROVE  SessionInv'
<1> USE Facts
<1>0. WorkerTypes /\ LinkInv
  BY DEF SessionInv, Types
<1>1. CASE Begin
  <2>1. WorkerTypes'
    <3>1. job' \in Jobs /\ at' \in 1..Len(Script(job'))
      BY <1>1, Starts DEF Begin
    <3> QED BY <1>1, <3>1 DEF Begin, WorkerTypes
  <2> QED BY <1>0, <1>1, <2>1, QuietKeeps DEF Begin, host, history, SessionInv, Types, HostTypes, LinkInv
<1>2. CASE Ready
  <2>1. WorkerTypes'
    <3>1. job' \in Jobs /\ at' \in 1..Len(Script(job'))
      BY <1>0, <1>2, Zenon DEF Ready, WorkerTypes
    <3> QED BY <1>0, <1>2, <3>1 DEF Ready, WorkerTypes
  <2> QED BY <1>0, <1>2, <2>1, QuietKeeps DEF Ready, host, history, SessionInv, Types, HostTypes, LinkInv
<1>3. CASE Scan
  <2>1. WorkerTypes'
    <3>1. CASE Retry
      BY <1>0, <3>1, RetryTypes
    <3>2. CASE pc' = "call" /\ UNCHANGED <<job, at, attempt>>
      <4>1. job' \in Jobs /\ at' \in 1..Len(Script(job'))
        BY <1>0, <3>2, Zenon DEF WorkerTypes
      <4> QED BY <1>0, <3>2, <4>1 DEF WorkerTypes
    <3> QED BY <1>3, <3>1, <3>2 DEF Scan
  <2> QED BY <1>0, <1>3, <2>1, QuietKeeps DEF Scan, Retry, host, history, SessionInv, Types, HostTypes, LinkInv
<1>4. CASE ConnectCall
  <2>1. WorkerTypes'
    <3>1. CASE Retry
      BY <1>0, <3>1, RetryTypes
    <3>2. CASE pc' = "connecting" /\ UNCHANGED <<job, at, attempt>>
      <4>1. job' \in Jobs /\ at' \in 1..Len(Script(job'))
        BY <1>0, <3>2, Zenon DEF WorkerTypes
      <4> QED BY <1>0, <3>2, <4>1 DEF WorkerTypes
    <3> QED BY <1>4, <3>1, <3>2 DEF ConnectCall
  <2>2. LinkInv'
    BY <1>0, <1>4 DEF ConnectCall, Retry, LinkInv
  <2> QED BY <1>4, <2>1, <2>2, QuietKeeps DEF ConnectCall, Retry, history, SessionInv, Types, HostTypes
<1>5. CASE ConnectDone
  <2>1. WorkerTypes'
    <3>1. CASE Retry
      BY <1>0, <3>1, RetryTypes
    <3>2. CASE pc' = "issue" /\ at' = 1 /\ UNCHANGED <<job, attempt>>
      <4>1. job' \in Jobs /\ at' \in 1..Len(Script(job'))
        BY <1>0, <3>2, Starts DEF WorkerTypes
      <4> QED BY <1>0, <3>2, <4>1 DEF WorkerTypes
    <3> QED BY <1>5, <3>1, <3>2 DEF ConnectDone
  <2>2. LinkInv'
    BY <1>0, <1>5 DEF ConnectDone, Retry, LinkInv
  <2> QED BY <1>0, <1>5, <2>1, <2>2, QuietKeeps DEF ConnectDone, Retry, history, SessionInv, Types, HostTypes, LinkInv
<1>6. CASE ConnectTimeout
  <2>1. WorkerTypes'
    <3>1. job' \in Jobs /\ at' \in 1..Len(Script(job'))
      BY <1>0, <1>6, Zenon DEF ConnectTimeout, WorkerTypes
    <3> QED BY <1>0, <1>6, <3>1 DEF ConnectTimeout, WorkerTypes
  <2> QED BY <1>0, <1>6, <2>1, QuietKeeps DEF ConnectTimeout, host, history, SessionInv, Types, HostTypes, LinkInv
<1>7. CASE ConnectLate
  <2>1. WorkerTypes'
    BY <1>0, <1>7, RetryTypes DEF ConnectLate
  <2>2. LinkInv'
    BY <1>0, <1>7 DEF ConnectLate, Retry, LinkInv, host
  <2> QED BY <1>7, <2>1, <2>2, QuietKeeps DEF ConnectLate, Retry, host, history, SessionInv, Types, HostTypes
<1>8. CASE Close
  <2>1. WorkerTypes'
    <3>1. job' \in Jobs /\ at' \in 1..Len(Script(job'))
      BY <1>0, <1>8, Zenon DEF Close, WorkerTypes
    <3> QED BY <1>0, <1>8, <3>1 DEF Close, WorkerTypes
  <2>2. LinkInv'
    BY <1>0, <1>8 DEF Close, Disconnect, LinkInv, host
  <2> QED BY <1>8, <2>1, <2>2, QuietKeeps DEF Close, Disconnect, host, history, SessionInv, Types, HostTypes
<1> QED BY <1>1, <1>2, <1>3, <1>4, <1>5, <1>6, <1>7, <1>8

LEMMA ReturnSteps == ASSUME SessionInv, IssueFails \/ Check \/ WaitTimeout PROVE SessionInv'
<1>1. CASE IssueFails
  BY <1>1, ReturnKeeps DEF IssueFails, host, SessionInv, Types, HostTypes
<1>2. CASE Check
  BY <1>2, ReturnKeeps DEF Check, host, SessionInv, Types, HostTypes
<1>3. CASE WaitTimeout
  BY <1>3, ReturnKeeps DEF WaitTimeout, host, SessionInv, Types, HostTypes
<1> QED BY <1>1, <1>2, <1>3

LEMMA HostAsideSteps == ASSUME SessionInv, Connected \/ ConnectFailed \/ HostSync PROVE SessionInv'
<1> USE Facts
<1>1. CASE Connected
  <2>1. LinkInv'
    BY <1>1 DEF Connected, SessionInv, LinkInv, worker
  <2> QED BY <1>1, <2>1, AsideKeeps DEF Connected, history, SessionInv, Types, HostTypes
<1>2. CASE ConnectFailed
  <2>1. LinkInv'
    BY <1>2 DEF ConnectFailed, SessionInv, LinkInv, worker
  <2> QED BY <1>2, <2>1, AsideKeeps DEF ConnectFailed, history, SessionInv, Types, HostTypes
<1>3. CASE HostSync
  <2>1. LinkInv'
    BY <1>3 DEF HostSync, SessionInv, LinkInv, worker
  <2> QED BY <1>3, <2>1, AsideKeeps DEF HostSync, history, SessionInv, Types, HostTypes
<1> QED BY <1>1, <1>2, <1>3

\* The worker on its way through a primitive: it clears, drains, takes.
LEMMA WayKeeps ==
  ASSUME SessionInv, Prepare \/ Drain \/ Take
  PROVE  SessionInv'
<1> USE Facts
<1>1. /\ UNCHANGED <<job, at, attempt, conn, handles, synced, connectSem, procs, link, stale, last>>
      /\ Current' = Current
      /\ \/ pc = "issue" /\ pc' = "drain"
         \/ pc = "drain" /\ pc' = "send"
         \/ pc = "wait" /\ pc' = "check"
  BY DEF Prepare, Drain, Take, history, Current
<1>2. Types'
  <2>1. WorkerTypes'
    <3>1. job' \in Jobs /\ at' \in 1..Len(Script(job'))
      BY <1>1, Zenon DEF SessionInv, Types, WorkerTypes
    <3> QED BY <1>1, <3>1 DEF SessionInv, Types, WorkerTypes
  <2>2. /\ gattSem' \in BOOLEAN /\ status' \in BOOLEAN /\ alone' \in BOOLEAN
        /\ payload' \in {"empty", "battery", "config", "block"}
        /\ giver' \in Positions \union {0}
    BY DEF SessionInv, Types, HostTypes, Prepare, Drain, Drained, Take, history
  <2>3. HostTypes'
    BY <1>1, <2>2 DEF SessionInv, Types, HostTypes
  <2> QED BY <2>1, <2>3 DEF Types
<1>3. LinkInv'
  BY <1>1 DEF SessionInv, LinkInv
<1>4. LineInv'
  BY <1>1 DEF SessionInv, LineInv, At, Running, Issuing, Waiting, Given, Prepare, Drain, Take
<1>5. AnswerInv'
  <2>1. CASE Prepare
    BY <1>1, <2>1 DEF AnswerInv, Waiting, Prepare
  <2>2. CASE Drain
    <3>1. alone' => Len(procs) = 0
      BY <2>2 DEF Drain
    <3>2. /\ pc' = "send" /\ gattSem' = FALSE /\ giver' = 0 /\ payload' = payload /\ pc = "drain"
      BY <2>2 DEF Drain, Drained
    <3> QED BY <1>1, <3>1, <3>2 DEF SessionInv, AnswerInv, Waiting
  <2>3. CASE Take
    <3>1. /\ pc = "wait" /\ pc' = "check" /\ gattSem
          /\ UNCHANGED <<status, payload, giver, alone>>
      BY <2>3 DEF Take, history
    <3> QED BY <1>1, <3>1 DEF SessionInv, AnswerInv, Waiting, Given
  <2> QED BY <2>1, <2>2, <2>3
<1>6. LastInv'
  BY <1>1 DEF SessionInv, LastInv, AloneMeansOwn, ReadsAreOwn
<1> QED BY <1>2, <1>3, <1>4, <1>5, <1>6 DEF SessionInv

\* An operation is called behind what is still unanswered.
LEMMA SendStep == ASSUME SessionInv, Send PROVE SessionInv'
<1> USE Facts
<1> DEFINE e == [at |-> at, op |-> Current]
           n == Len(procs)
<1>1. e \in Procs /\ e.at = at /\ e.op = Current
  BY DEF Procs
<1>2. /\ procs' = Append(procs, e) /\ pc = "send" /\ pc' = "wait" /\ conn
      /\ UNCHANGED <<job, at, attempt, conn, handles, synced, connectSem, gattSem, status, payload,
                     link, stale, giver, alone, last>>
  BY DEF Send, history
<1> HIDE DEF e
<1>3. n <= 1 /\ n \in {0, 1}
  BY <1>2 DEF SessionInv, LineInv, Issuing
<1>4. /\ procs' \in Seq(Procs) /\ Len(procs') = n + 1 /\ procs'[n + 1] = e
      /\ n = 1 => procs'[1] = procs[1]
  BY <1>1, <1>2, <1>3, LineGrows
<1>5. /\ n = 0 => Len(procs') = 1 /\ procs'[1] = e
      /\ n = 1 => Len(procs') = 2 /\ procs'[1] = procs[1] /\ procs'[2] = e
  BY <1>3, <1>4
<1>6. Types'
  <2>1. WorkerTypes'
    <3>1. job' \in Jobs /\ at' \in 1..Len(Script(job'))
      BY <1>2, Zenon DEF SessionInv, Types, WorkerTypes
    <3> QED BY <1>2, <3>1 DEF SessionInv, Types, WorkerTypes
  <2>2. HostTypes'
    BY <1>2, <1>4 DEF SessionInv, Types, HostTypes, Procs
  <2> QED BY <2>1, <2>2 DEF Types
<1>7. LinkInv'
  BY <1>2 DEF SessionInv, LinkInv
<1>8. LineInv'
  <2>1. n = 1 => At(1) = at - 1 /\ at > 8 /\ procs[1].op = Script(job)[at - 1]
    BY <1>2, <1>3 DEF SessionInv, LineInv, Running, Issuing
  <2>2. n = 1 => (procs[1].op.on = "arm" => At(1) = 11) /\ (procs[1].op.on = "prepare" => At(1) = 9)
    BY <1>3 DEF SessionInv, LineInv
  <2>3. CASE n = 0
    BY <1>1, <1>2, <1>5, <2>3 DEF SessionInv, AnswerInv, LineInv, At, Running, Issuing, Waiting, Given,
       Current
  <2>4. CASE n = 1
    <3>1. Len(procs') = 2 /\ At(1)' = at - 1 /\ At(2)' = at
      BY <1>1, <1>5, <2>1, <2>4 DEF At
    <3>2. procs'[1].op = Script(job)[at - 1] /\ procs'[2].op = Script(job)[at]
      BY <1>1, <1>5, <2>1, <2>4 DEF Current
    <3>3. /\ procs'[1].op.on = "arm" => At(1)' = 11
          /\ procs'[1].op.on = "prepare" => At(1)' = 9
      BY <1>5, <2>1, <2>2, <2>4 DEF At
    <3>4. /\ procs'[2].op.on = "arm" => At(2)' = 11
          /\ procs'[2].op.on = "prepare" => At(2)' = 9
      BY <1>1, <1>5, <2>4 DEF At
    <3> HIDE DEF n
    <3> QED BY <1>2, <2>1, <2>4, <3>1, <3>2, <3>3, <3>4
        DEF SessionInv, AnswerInv, LineInv, Running, Issuing, Waiting, Given
  <2> QED BY <1>3, <2>3, <2>4
<1>9. AnswerInv'
  <2>1. alone' => Len(procs') <= 1
    BY <1>2, <1>5 DEF SessionInv, AnswerInv
  <2>2. Current' = Current
    BY <1>2 DEF Current
  <2> QED BY <1>2, <2>1, <2>2 DEF SessionInv, AnswerInv, Waiting, Given
<1>10. LastInv'
  BY <1>2 DEF SessionInv, LastInv, AloneMeansOwn, ReadsAreOwn
<1> QED BY <1>6, <1>7, <1>8, <1>9, <1>10 DEF SessionInv

\* The oldest procedure is answered.
LEMMA AnswerStep == ASSUME SessionInv, NEW ok \in BOOLEAN, GattAnswer(ok) PROVE SessionInv'
<1> USE Facts
<1> DEFINE e == procs[1]
<1>1. /\ procs \in Seq(Procs) /\ Len(procs) <= 2 /\ procs # <<>>
      /\ procs' = Tail(procs) /\ Head(procs) = e
      /\ Len(procs') = Len(procs) - 1 /\ procs' \in Seq(Procs)
      /\ Len(procs) = 2 => procs'[1] = procs[2]
  BY Line DEF GattAnswer
<1>2. (Len(procs) = 1 \/ Len(procs) = 2) /\ e.at \in 1..13 /\ e.op \in Operations /\ e.at = At(1)
  BY <1>1 DEF At
<1> HIDE DEF e
<1>3. /\ Len(procs) = 1 => Len(procs') = 0
      /\ Len(procs) = 2 => Len(procs') = 1 /\ procs'[1] = procs[2]
  BY <1>1
<1>4. /\ giver' = At(1) /\ gattSem' = TRUE /\ status' = ok
      /\ e.op.kind # "read" => payload' = payload
      /\ e.op.kind = "read" /\ ok => payload' = e.op.on
      /\ e.op.kind = "read" /\ ~ok => payload' = "empty"
      /\ link \in {"up", "terminating"}
      /\ UNCHANGED <<worker, conn, synced, connectSem, link, stale, alone, last>>
  <2>1. /\ giver' = Head(procs).at /\ gattSem' = TRUE /\ status' = ok
        /\ link \in {"up", "terminating"}
        /\ UNCHANGED <<worker, conn, synced, connectSem, link, stale, alone, last>>
    BY DEF GattAnswer
  <2>2. payload' = IF e.op.kind # "read" THEN payload ELSE IF ok THEN e.op.on ELSE "empty"
    BY <1>1 DEF GattAnswer
  <2>3. /\ e.op.kind # "read" => payload' = payload
        /\ e.op.kind = "read" /\ ok => payload' = e.op.on
        /\ e.op.kind = "read" /\ ~ok => payload' = "empty"
    BY <2>2
  <2> QED BY <1>1, <1>2, <2>1, <2>3
<1>5. handles' \in SUBSET Services
  <2>1. \/ handles' = handles
        \/ e.op.kind = "characteristics" /\ handles' = handles \union {e.op.on}
    BY <1>1 DEF GattAnswer
  <2>2. handles \in SUBSET Services
    BY DEF SessionInv, Types, HostTypes
  <2> QED BY <1>2, <2>1, <2>2, OperationsAre
<1>6. Types'
  <2>1. WorkerTypes'
    BY <1>4, Zenon DEF SessionInv, Types, WorkerTypes, worker
  <2>2. payload' \in {"empty", "battery", "config", "block"}
    BY <1>2, <1>4, OperationsAre DEF SessionInv, Types, HostTypes
  <2>3. HostTypes'
    BY <1>1, <1>2, <1>4, <1>5, <2>2 DEF SessionInv, Types, HostTypes, Procs
  <2> QED BY <2>1, <2>3 DEF Types
<1>7. LinkInv'
  BY <1>1, <1>3, <1>4 DEF SessionInv, LinkInv, worker
<1>8. LineInv'
  <2>1. CASE Len(procs) = 1
    <3>1. Len(procs') = 0 /\ UNCHANGED <<pc, job, at>>
      BY <1>3, <1>4, <2>1 DEF worker
    <3> QED BY <3>1 DEF SessionInv, LineInv, Issuing, Waiting, Given
  <2>2. CASE Len(procs) = 2
    <3>1. Len(procs') = 1 /\ At(1)' = At(2) /\ procs'[1].op = procs[2].op /\ UNCHANGED <<pc, job, at>>
      BY <1>3, <1>4, <2>2 DEF worker, At
    <3>2. pc \notin Issuing /\ (pc \in Waiting => At(2) = at /\ at > 8)
      BY <2>2 DEF SessionInv, LineInv
    <3>3. pc = "close" => At(2) \in {at - 1, at}
      BY <2>2 DEF SessionInv, LineInv
    <3>4. /\ procs[2].op.on = "arm" => At(2) = 11
          /\ procs[2].op.on = "prepare" => At(2) = 9
          /\ Running => procs[2].op = Script(job)[At(2)]
      BY <2>2 DEF SessionInv, LineInv
    <3> QED BY <2>2, <3>1, <3>2, <3>3, <3>4 DEF LineInv, Running, Issuing, Waiting
  <2> QED BY <1>2, <2>1, <2>2
<1>9. AnswerInv'
  <2>1. Current' = Current /\ pc' = pc /\ at' = at /\ alone' = alone
    BY <1>4 DEF worker, Current
\* The answer of the operation before is not what a read asks for.
  <2>2. ASSUME pc \in Issuing \union Waiting, At(1) = at - 1, at > 8, Current.kind = "read",
               e.op.kind = "read"
        PROVE  e.op.on # Current.on
    <3>1. e.op = Script(job)[at - 1] /\ Current = Script(job)[at]
      BY <1>2, <2>2 DEF SessionInv, LineInv, Running, Current, e
    <3>2. at \in 1..Len(Script(job))
      BY DEF SessionInv, Types, WorkerTypes
    <3> QED BY <2>2, <3>1, <3>2, Roles
  <2>3. CASE pc \in Issuing
    <3>a. /\ Len(procs) <= 1 /\ (at <= 8 => Len(procs) = 0)
          /\ \A i \in 1..Len(procs) : At(i) = at - 1
      BY <2>3 DEF SessionInv, LineInv
    <3>b. Len(procs) = 1
      BY <1>1, <3>a
    <3>1. Len(procs) = 1 /\ At(1) = at - 1 /\ at > 8
      BY <3>a, <3>b
    <3>2. pc = "drain" \/ pc = "send" => (Current.kind = "read" => payload # Current.on /\ payload' # Current.on)
      BY <1>4, <2>2, <2>3, <3>1 DEF SessionInv, AnswerInv, Issuing
    <3>3. pc = "send" => ~alone
      BY <3>1 DEF SessionInv, AnswerInv
    <3> QED BY <1>3, <1>4, <2>1, <2>3, <3>1, <3>2, <3>3 DEF AnswerInv, Issuing, Waiting
  <2>4. CASE pc \in Waiting /\ Len(procs) = 1
    BY <1>3, <1>4, <2>1, <2>4 DEF SessionInv, LineInv, AnswerInv, Waiting
  <2>5. CASE pc \in Waiting /\ Len(procs) = 2
    <3>1. At(1) = at - 1 /\ At(2) = at /\ at > 8 /\ giver' = at - 1 /\ giver' # at /\ ~alone /\ giver # at
      BY <1>4, <2>5 DEF SessionInv, LineInv, AnswerInv
    <3>2. Current.kind = "read" /\ at # 8 => payload # Current.on
      BY <2>5, <3>1 DEF SessionInv, AnswerInv
    <3>3. Current.kind = "read" /\ at # 8 => payload' # Current.on
      BY <1>4, <2>2, <2>5, <3>1, <3>2
    <3> QED BY <2>1, <2>5, <3>1, <3>3 DEF AnswerInv, Waiting
  <2>6. CASE pc \notin Issuing \union Waiting
    BY <2>1, <2>6 DEF AnswerInv, Issuing, Waiting
  <2> QED BY <1>2, <2>3, <2>4, <2>5, <2>6
<1>10. LastInv'
  BY <1>4 DEF SessionInv, LastInv, AloneMeansOwn, ReadsAreOwn
<1> QED BY <1>6, <1>7, <1>8, <1>9, <1>10 DEF SessionInv

\* The connection ends, and with it what was unanswered.
LEMMA BrokenKeeps ==
  ASSUME SessionInv, HandlesReset, ProcsBroken, conn' = FALSE, link' = "none",
         synced' \in BOOLEAN, connectSem' \in BOOLEAN, UNCHANGED <<worker, alone, last>>
  PROVE  SessionInv'
<1> USE Facts
<1>1. /\ procs' = <<>> /\ Len(procs') = 0 /\ procs' \in Seq(Procs)
      /\ handles' = {} /\ stale' = FALSE
      /\ \/ procs = <<>> /\ UNCHANGED <<gattSem, status, payload, giver>>
         \/ /\ Len(procs) # 0 /\ gattSem' = TRUE /\ status' = FALSE /\ giver' = 0
            /\ payload' = IF \E i \in DOMAIN procs : procs[i].op.kind = "read" THEN "empty" ELSE payload
  <2>1. handles' = {} /\ stale' = FALSE
    BY DEF HandlesReset
  <2>2. CASE procs = <<>>
    BY <2>1, <2>2 DEF ProcsBroken
  <2>3. CASE procs # <<>>
    <3>1. Len(procs) # 0
      BY <2>3
    <3>2. /\ procs' = <<>> /\ gattSem' = TRUE /\ status' = FALSE /\ giver' = 0
          /\ payload' = IF \E i \in DOMAIN procs : procs[i].op.kind = "read" THEN "empty" ELSE payload
      BY <2>3 DEF ProcsBroken
    <3>3. Len(procs') = 0 /\ procs' \in Seq(Procs)
      BY <3>2
    <3> QED BY <2>1, <3>1, <3>2, <3>3
  <2> QED BY <2>2, <2>3
<1>2. Types'
  <2>1. WorkerTypes'
    BY Zenon DEF SessionInv, Types, WorkerTypes, worker
  <2>2. HostTypes'
    BY <1>1 DEF SessionInv, Types, HostTypes, Procs
  <2> QED BY <2>1, <2>2 DEF Types
<1>3. LinkInv' /\ LineInv'
  BY <1>1 DEF LinkInv, LineInv, At, Issuing, Waiting
<1>4. AnswerInv'
  <2>1. Current' = Current /\ pc' = pc /\ at' = at /\ alone' = alone
    BY DEF worker, Current
  <2>2. CASE procs = <<>>
    BY <1>1, <2>1, <2>2 DEF SessionInv, AnswerInv, Waiting, Given
  <2>3. CASE procs # <<>>
    <3>1. Len(procs) # 0 /\ gattSem' = TRUE /\ status' = FALSE /\ giver' = 0
      BY <1>1, <2>3
    <3>2. payload' = payload \/ payload' = "empty"
      BY <1>1
    <3>3. Current.kind = "read" => Current.on # "empty"
      OBVIOUS
    <3>4. ASSUME pc \in Waiting, Current.kind = "read" PROVE payload' = "empty"
      <4>1. PICK k \in 1..Len(procs) : procs[k].op = Current
        BY <3>1, <3>4 DEF SessionInv, LineInv, Running, Current, At
      <4> QED BY <1>1, <2>3, <3>4, <4>1
    <3>5. pc = "send" => ~alone /\ ~gattSem /\ at > 8
      BY <3>1 DEF SessionInv, AnswerInv, LineInv, Issuing
    <3> QED BY <1>1, <2>1, <3>1, <3>2, <3>3, <3>4, <3>5 DEF SessionInv, AnswerInv, Waiting
  <2> QED BY <2>2, <2>3
<1>5. LastInv'
  BY DEF SessionInv, LastInv, AloneMeansOwn, ReadsAreOwn
<1> QED BY <1>2, <1>3, <1>4, <1>5 DEF SessionInv

LEMMA LostSteps == ASSUME SessionInv, LinkLost \/ HostReset PROVE SessionInv'
<1> USE Facts
<1>1. CASE LinkLost
  BY <1>1, BrokenKeeps DEF LinkLost, SessionInv, Types, HostTypes
<1>2. CASE HostReset /\ link \in {"up", "terminating"}
  BY <1>2, BrokenKeeps DEF HostReset, SessionInv, Types, HostTypes
<1>3. CASE HostReset /\ link \notin {"up", "terminating"}
  <2>1. LinkInv'
    BY <1>3 DEF HostReset, SessionInv, LinkInv, worker, Types, HostTypes
  <2> QED BY <1>3, <2>1, AsideKeeps DEF HostReset, SessionInv, Types, HostTypes
<1> QED BY <1>1, <1>2, <1>3

LEMMA SessionSteps == SessionInv /\ [Next]_vars => SessionInv'
<1> SUFFICES ASSUME SessionInv, [Next]_vars PROVE SessionInv'
  OBVIOUS
<1>1. CASE Worker
  BY <1>1, ConnectSteps, ReturnSteps, WayKeeps, SendStep DEF Worker
<1>2. CASE Host
  BY <1>2, HostAsideSteps, AnswerStep, LostSteps DEF Host
<1>3. CASE UNCHANGED vars
  <2>1. LinkInv'
    BY <1>3 DEF vars, worker, host, SessionInv, LinkInv
  <2> QED BY <1>3, <2>1, AsideKeeps DEF vars, host, history, SessionInv, Types, HostTypes
<1> QED BY <1>1, <1>2, <1>3 DEF Next

-----------------------------------------------------------------------------
(***************************************************************************)
(* The theorems.                                                           *)
(***************************************************************************)
BleInv == SessionInv /\ ScanInv

LEMMA BleInvHolds == LinkSpec => []BleInv
<1>1. LinkInit => BleInv
  BY SessionBegins, ScanBegins DEF LinkInit, BleInv
<1>2. BleInv /\ [LinkNext]_<<part, vars, scanVars>> => BleInv'
  <2> SUFFICES ASSUME BleInv, [LinkNext]_<<part, vars, scanVars>> PROVE BleInv'
    OBVIOUS
  <2>1. [Next]_vars /\ [Scanner!Next]_scanVars
    BY DEF LinkNext
  <2> QED BY <2>1, SessionSteps, ScanSteps DEF BleInv
<1> QED BY <1>1, <1>2, PTL DEF LinkSpec

\* The types of BleSession and of BleScan: at most two procedures are ever
\* unanswered, however often a primitive of ble_transport.cpp times out.
THEOREM TypesHold == LinkSpec => []LinkTypeOK
<1>1. BleInv => LinkTypeOK
  <2> SUFFICES ASSUME BleInv PROVE TypeOK /\ Scanner!TypeOK
    BY DEF LinkTypeOK
  <2>1. SessionInv /\ Scanner!TypeOK
    BY DEF BleInv, ScanInv
  <2>2. WorkerTypes /\ HostTypes /\ Len(procs) <= 2
    BY <2>1 DEF SessionInv, Types, LineInv
  <2>3. at \in Positions
    BY <2>1, Facts
  <2> QED BY <2>1, <2>2, <2>3 DEF TypeOK, WorkerTypes, HostTypes
<1> QED BY <1>1, BleInvHolds, PTL

\* The xSemaphoreTake before every call of ble_transport.cpp: an operation before
\* which it found nothing outstanding is ended by its own answer only.
THEOREM AloneMeansOwnHolds == LinkSpec => []AloneMeansOwn
<1>1. BleInv => AloneMeansOwn
  BY DEF BleInv, SessionInv, LastInv
<1> QED BY <1>1, BleInvHolds, PTL

\* The bytes read_handle gives to an apply are those of its own read.
THEOREM ReadsAreOwnHolds == LinkSpec => []ReadsAreOwn
<1>1. BleInv => ReadsAreOwn
  BY DEF BleInv, SessionInv, LastInv
<1> QED BY <1>1, BleInvHolds, PTL

\* The arm packet of a start is never unanswered together with the prepare
\* packet: the line of procedures spans two neighbouring operations only.
THEOREM ArmAfterPrepareHolds == LinkSpec => []ArmAfterPrepare
<1>1. BleInv => ArmAfterPrepare
  <2> SUFFICES ASSUME BleInv, NEW i \in DOMAIN procs, NEW k \in DOMAIN procs,
                      procs[i].op.on = "arm", procs[k].op.on = "prepare"
               PROVE  FALSE
    BY DEF ArmAfterPrepare
  <2>1. SessionInv
    BY DEF BleInv
  <2>2. i \in 1..Len(procs) /\ k \in 1..Len(procs)
    BY <2>1, Facts
  <2> QED BY <2>1, <2>2 DEF SessionInv, LineInv, At
<1> QED BY <1>1, BleInvHolds, PTL

\* reset_connection_state_: no operation is issued with a handle that was
\* discovered on an earlier connection.
THEOREM HandlesAreFreshHolds == LinkSpec => HandlesAreFresh
<1>1. BleInv => ~stale
  BY DEF BleInv, SessionInv, LinkInv
<1>2. BleInv /\ [LinkNext]_<<part, vars, scanVars>>
        => [procs' # procs /\ pc = "send" => ~stale]_vars
  BY <1>1
<1> QED BY <1>2, BleInvHolds, PTL DEF LinkSpec, HandlesAreFresh

\* scan_for_target and gap_event: a scan that picks a peer picks the best
\* device it has heard, whatever devices advertise in whatever order.
THEOREM PeerIsBestHolds == LinkSpec => []PeerIsBest
<1>1. BleInv => PeerIsBest
  BY DEF BleInv, ScanInv, PickIsBest, PeerIsBest, Scanner!PeerIsBest
<1> QED BY <1>1, BleInvHolds, PTL

\* A scan that was ended by the host fails only if it heard no candidate.
THEOREM NoCandidateMissedHolds == LinkSpec => NoCandidateMissed
<1>1. BleInv /\ [LinkNext]_<<part, vars, scanVars>>
        => [Scanner!Done /\ scanPc' = "failed" => Hunter \notin heard /\ \A d \in heard : Scores[d] = 0]_scanVars
  BY ScanMissesNone DEF BleInv
<1> QED BY <1>1, BleInvHolds, PTL DEF LinkSpec, NoCandidateMissed, Scanner!NoCandidateMissed, Scanner!vars, scanVars
-----------------------------------------------------------------------------
(***************************************************************************)
(* Every session ends after boundedly many steps of the worker: the safety *)
(* half of SessionsEnd, which says besides that the steps are taken.       *)
(***************************************************************************)
MostSteps == 141

\* Steps left of connect()'s other attempt, if it has one.
OtherAttempt == 70 * (2 - attempt)

SessionLeft ==
  CASE pc = "idle"       -> 0
    [] pc = "close"      -> 1
    [] pc = "check"      -> 5 * (13 - at) + 2 + OtherAttempt
    [] pc = "wait"       -> 5 * (13 - at) + 3 + OtherAttempt
    [] pc = "send"       -> 5 * (13 - at) + 4 + OtherAttempt
    [] pc = "drain"      -> 5 * (13 - at) + 5 + OtherAttempt
    [] pc = "issue"      -> 5 * (13 - at) + 6 + OtherAttempt
    [] pc = "late"       -> 67 + OtherAttempt
    [] pc = "connecting" -> 68 + OtherAttempt
    [] pc = "call"       -> 69 + OtherAttempt
    [] pc = "scan"       -> 70 + OtherAttempt
    [] pc = "ready"      -> 141

BoundedSession == SessionLeft \in 0..MostSteps /\ (SessionLeft = 0 <=> pc = "idle")

\* Every step of the worker within a session brings its end nearer, and no
\* callback of the host puts it off.
Advances ==
  /\ Worker /\ ~Begin => SessionLeft' < SessionLeft
  /\ ~Worker => SessionLeft' = SessionLeft

SessionsAdvance == [][Advances]_vars

\* What the measure is built from.
LEMMA CountersAre ==
  ASSUME TypeOK
  PROVE  at \in 1..13 /\ BatteryAt = 8 /\ attempt \in 1..2 /\ OtherAttempt \in {0, 70}
<1>1. at \in 1..13 /\ BatteryAt = 8 /\ attempt \in 1..2
  BY PositionsAre DEF TypeOK
<1> QED BY <1>1 DEF OtherAttempt

LEMMA SessionBounded == ASSUME TypeOK PROVE BoundedSession
<1>1. at \in 1..13 /\ OtherAttempt \in {0, 70}
  BY CountersAre
<1>2. CASE pc \in {"idle", "close", "ready"}
  BY <1>2 DEF SessionLeft, BoundedSession, MostSteps
<1>3. CASE pc \in {"check", "wait", "send", "drain", "issue"}
  <2>1. SessionLeft \in {5 * (13 - at) + n + OtherAttempt : n \in {2, 3, 4, 5, 6}}
    BY <1>3 DEF SessionLeft
  <2> QED BY <1>1, <1>3, <2>1 DEF BoundedSession, MostSteps
<1>4. CASE pc \in {"late", "connecting", "call", "scan"}
  <2>1. SessionLeft \in {n + OtherAttempt : n \in {67, 68, 69, 70}}
    BY <1>4 DEF SessionLeft
  <2> QED BY <1>1, <1>4, <2>1 DEF BoundedSession, MostSteps
<1> QED BY <1>2, <1>3, <1>4 DEF TypeOK

\* The other attempt, or no session: nearer than any place that retries.
LEMMA RetryAdvances ==
  ASSUME TypeOK, Retry
  PROVE  SessionLeft' \in Int /\ SessionLeft' <= OtherAttempt
<1>1. attempt \in 1..2
  BY CountersAre
<1>2. CASE attempt = 1
  BY <1>2 DEF Retry, SessionLeft, OtherAttempt
<1>3. CASE attempt = 2
  <2>1. SessionLeft' = 0
    BY <1>3 DEF Retry, SessionLeft
  <2>2. OtherAttempt = 0
    BY <1>3 DEF OtherAttempt
  <2> QED BY <2>1, <2>2
<1> QED BY <1>1, <1>2, <1>3

\* An operation returned: the next one, the end, or a retry.
LEMMA ReturnAdvances ==
  ASSUME TypeOK, pc \in {"issue", "send", "wait", "check"}, NEW ok, Return(ok)
  PROVE  SessionLeft' < SessionLeft
<1>1. at \in 1..13 /\ BatteryAt = 8 /\ attempt \in 1..2 /\ OtherAttempt \in {0, 70}
  BY CountersAre
<1>2. SessionLeft \in Int /\ SessionLeft >= 5 * (13 - at) + 2 + OtherAttempt
  <2>1. SessionLeft \in {5 * (13 - at) + n + OtherAttempt : n \in {2, 3, 4, 6}}
    BY DEF SessionLeft
  <2> QED BY <1>1, <2>1
<1>3. CASE Retry
  BY <1>1, <1>2, <1>3, RetryAdvances
<1>4. CASE pc' = "close"
  BY <1>1, <1>2, <1>4 DEF SessionLeft
<1>5. CASE pc' = "issue" /\ at' = at + 1 /\ attempt' = attempt
  <2>1. SessionLeft' = 5 * (13 - (at + 1)) + 6 + OtherAttempt
    BY <1>5 DEF SessionLeft, OtherAttempt
  <2> QED BY <1>1, <1>2, <2>1
<1> QED BY <1>3, <1>4, <1>5 DEF Return

LEMMA SessionAdvances ==
  ASSUME TypeOK, Worker, ~Begin
  PROVE  SessionLeft' < SessionLeft
<1>1. at \in 1..13 /\ BatteryAt = 8 /\ attempt \in 1..2 /\ OtherAttempt \in {0, 70}
  BY CountersAre
<1>2. CASE Ready
  <2>1. CASE pc' = "idle"
    BY <1>2, <2>1 DEF Ready, SessionLeft
  <2>2. CASE pc' = "scan"
    <3>1. SessionLeft = 141 /\ SessionLeft' = 70 + OtherAttempt
      BY <1>2, <2>2 DEF Ready, SessionLeft, OtherAttempt
    <3> QED BY <1>1, <3>1
  <2> QED BY <1>2, <2>1, <2>2 DEF Ready
<1>3. CASE Retry /\ pc \in {"scan", "call", "connecting", "late"}
  <2>1. SessionLeft \in {n + OtherAttempt : n \in {67, 68, 69, 70}}
    BY <1>3 DEF SessionLeft
  <2> QED BY <1>1, <1>3, <2>1, RetryAdvances
<1>4. CASE ~Retry /\ (Scan \/ ConnectCall)
  BY <1>1, <1>4 DEF Scan, ConnectCall, SessionLeft, OtherAttempt
<1>5. CASE ~Retry /\ ConnectDone
  <2>1. pc' = "issue" /\ at' = 1 /\ attempt' = attempt /\ pc = "connecting"
    BY <1>5 DEF ConnectDone
  <2>2. SessionLeft = 68 + OtherAttempt /\ SessionLeft' = 5 * (13 - 1) + 6 + OtherAttempt
    BY <2>1 DEF SessionLeft, OtherAttempt
  <2> QED BY <1>1, <2>2
<1>6. CASE ConnectTimeout
  BY <1>1, <1>6 DEF ConnectTimeout, SessionLeft, OtherAttempt
<1>7. CASE Prepare \/ Drain \/ Send \/ Take
  <2>1. \E n \in {3, 4, 5, 6} : /\ SessionLeft = 5 * (13 - at) + n + OtherAttempt
                               /\ SessionLeft' = 5 * (13 - at) + (n - 1) + OtherAttempt
    BY <1>7 DEF Prepare, Drain, Send, Take, SessionLeft, OtherAttempt
  <2> QED BY <1>1, <2>1
<1>8. CASE IssueFails \/ Check \/ WaitTimeout
  BY <1>8, ReturnAdvances DEF IssueFails, Check, WaitTimeout
<1>9. CASE Close
  BY <1>9 DEF Close, SessionLeft
<1> QED
  BY <1>2, <1>3, <1>4, <1>5, <1>6, <1>7, <1>8, <1>9
  DEF Worker, Scan, ConnectCall, ConnectDone, ConnectLate

\* A session, with both attempts of connect() and every operation of its
\* script, ends after at most 141 steps of the worker, whatever the link, the
\* host and late answers do.
THEOREM SessionsBounded == LinkSpec => []BoundedSession /\ SessionsAdvance
<1>1. LinkTypeOK => TypeOK
  BY DEF LinkTypeOK
<1>2. ASSUME TypeOK, [LinkNext]_<<part, vars, scanVars>> PROVE [Advances]_vars
  <2>1. CASE vars' = vars
    BY <2>1
  <2>2. CASE Next
    <3>1. Worker /\ ~Begin => SessionLeft' < SessionLeft
      BY <1>2, SessionAdvances
    <3>2. ~Worker => worker' = worker
      BY <2>2 DEF Next, Host, Connected, ConnectFailed, GattAnswer, LinkLost, HostReset, HostSync
    <3>3. worker' = worker => SessionLeft' = SessionLeft
      BY DEF worker, SessionLeft, OtherAttempt
    <3> QED BY <3>1, <3>2, <3>3 DEF Advances
  <2> QED BY <1>2, <2>1, <2>2 DEF LinkNext
<1> QED BY <1>1, <1>2, SessionBounded, TypesHold, PTL DEF LinkSpec, SessionsAdvance
=============================================================================
