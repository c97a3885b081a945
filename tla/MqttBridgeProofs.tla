--------------------------- MODULE MqttBridgeProofs ---------------------------
(***************************************************************************)
(* Whatever Wi-Fi, the MQTT session, the queue and Home Assistant do, and  *)
(* however short the queue is: the flags settle, and what is published     *)
(* settles.                                                                *)
(***************************************************************************)
EXTENDS MqttBridge, SequenceTheorems, TLAPS

USE QueueAssumption, MessagesAssumption

Items == Events \union Messages

\* What is left of an item: a tail of one of the lists the handlers begin with.
All == <<"subscribe", "online", "bridge", "zones">>
AllOnline == <<"online", "bridge", "zones">>
AllState == <<"bridge", "zones">>
OnlyZones == <<"zones">>
OnlyBridge == <<"bridge">>
OnlyOffline == <<"offline">>
Rests == {<<>>, All, AllOnline, AllState, OnlyZones, OnlyBridge, OnlyOffline}

Types ==
  /\ boot \in {"wifi", "queue", "done"}
  /\ queue \in Seq(Items) /\ todo \in Rests
  /\ started \in BOOLEAN /\ connected \in BOOLEAN /\ wifi \in BOOLEAN /\ subscribed \in BOOLEAN
  /\ session \in {"off", "down", "up", "dead"}
  /\ broker \in [Topics -> Values] /\ kept \in [Topics -> Values]
  /\ owed \subseteq Tasks /\ lost \subseteq Events
  /\ "wifi" \in owed => ~wifi
  /\ session # "off" => started
  /\ started => boot = "done"

Alive == session \in {"up", "dead"}
Told == "MqttConnected" \notin lost /\ "MqttDisconnected" \notin lost

\* item is in q; every item in q has one of others behind it.
In(q, item) == \E i \in 1..Len(q) : q[i] = item
Followed(q, item, others) ==
  \A i \in 1..Len(q) : q[i] = item => \E j \in 1..Len(q) : j > i /\ q[j] \in others

Online == {"WifiOnline", "MqttConnected"}

\* connected_ is what the client believes, or an event that makes it so is the
\* last one of the session in the queue.
ConnInv ==
  Told =>
    IF Alive THEN /\ connected \/ In(queue, "MqttConnected")
                  /\ Followed(queue, "MqttDisconnected", {"MqttConnected"})
             ELSE /\ ~connected \/ In(queue, "MqttDisconnected")
                  /\ Followed(queue, "MqttConnected", {"MqttDisconnected"})

\* The item that starts the client is queued or was dropped.
StartInv == wifi /\ "WifiOnline" \notin lost => started \/ In(queue, "WifiOnline")

\* Every queued WifiOffline, and the one being handled, is followed by what
\* makes it good, once Wi-Fi is back.
OfflineInv ==
  wifi /\ "WifiOnline" \notin lost =>
    /\ Followed(queue, "WifiOffline", Online)
    /\ todo = OnlyOffline => In(queue, "WifiOnline") \/ In(queue, "MqttConnected")

\* While the client has a session, what is not as it should be at the broker is
\* on the task's list or in the queue, or a task is still to tell of it.
SubscribedInv ==
  session = "up" /\ Told =>
    \/ subscribed
    \/ todo = All
    \/ In(queue, "MqttConnected")

OnlineInv ==
  session = "up" /\ Told /\ wifi /\ "WifiOnline" \notin lost =>
    \/ In(queue, "MqttConnected") \/ In(queue, "WifiOnline")
    \/ broker["availability"] = "online" /\ todo # OnlyOffline
    \/ todo \in {All, AllOnline}

BridgeInv ==
  session = "up" /\ Told /\ "StateChanged" \notin lost =>
    \/ In(queue, "MqttConnected") \/ In(queue, "StateChanged")
    \/ broker["bridge"] = "current" \/ owed # {}
    \/ todo \notin {<<>>, OnlyZones, OnlyOffline}

ZonesInv ==
  session = "up" /\ Told /\ "StateChanged" \notin lost =>
    \/ In(queue, "MqttConnected") \/ In(queue, "StateChanged")
    \/ broker["zones"] = "current" \/ owed # {}
    \/ todo \notin {<<>>, OnlyBridge, OnlyOffline}

BrokerInv == SubscribedInv /\ OnlineInv /\ BridgeInv /\ ZonesInv

IInv == Types /\ ConnInv /\ StartInv /\ OfflineInv /\ BrokerInv

-----------------------------------------------------------------------------
\* What Append and Tail do to In and Followed.
LEMMA AppendIn ==
  ASSUME NEW q \in Seq(Items), NEW e \in Items, NEW item
  PROVE  In(Append(q, e), item) <=> In(q, item) \/ item = e
<1>1. Len(Append(q, e)) = Len(q) + 1 /\ Append(q, e)[Len(q) + 1] = e /\ Len(q) \in Nat
      /\ \A i \in 1..Len(q) : Append(q, e)[i] = q[i]
  OBVIOUS
<1> QED BY <1>1 DEF In

LEMMA AppendFollowed ==
  ASSUME NEW q \in Seq(Items), NEW e \in Items, NEW item, NEW others, e \notin others => e # item,
         Followed(q, item, others) \/ e \in others, item \notin others
  PROVE  Followed(Append(q, e), item, others)
<1>1. Len(Append(q, e)) = Len(q) + 1 /\ Append(q, e)[Len(q) + 1] = e /\ Len(q) \in Nat
      /\ \A i \in 1..Len(q) : Append(q, e)[i] = q[i]
  OBVIOUS
<1> QED BY <1>1 DEF Followed

LEMMA TailFacts ==
  ASSUME NEW q \in Seq(Items), q # <<>>
  PROVE  /\ Tail(q) \in Seq(Items) /\ Len(q) \in Nat \ {0} /\ Len(Tail(q)) = Len(q) - 1
         /\ Head(q) = q[1] /\ Head(q) \in Items /\ \A i \in 1..Len(Tail(q)) : Tail(q)[i] = q[i + 1]
OBVIOUS

LEMMA TailIn ==
  ASSUME NEW q \in Seq(Items), q # <<>>, NEW item
  PROVE  In(q, item) <=> Head(q) = item \/ In(Tail(q), item)
<1>1. ASSUME In(Tail(q), item) PROVE In(q, item)
  <2>1. PICK i \in 1..Len(Tail(q)) : Tail(q)[i] = item
    BY <1>1 DEF In
  <2>2. i + 1 \in 1..Len(q) /\ q[i + 1] = item
    BY <2>1, TailFacts
  <2> QED BY <2>2 DEF In
<1>2. ASSUME In(q, item), Head(q) # item PROVE In(Tail(q), item)
  <2>1. PICK i \in 1..Len(q) : q[i] = item
    BY <1>2 DEF In
  <2>2. i - 1 \in 1..Len(Tail(q)) /\ Tail(q)[i - 1] = item
    BY <1>2, <2>1, TailFacts
  <2> QED BY <2>2 DEF In
<1>3. Head(q) = item => In(q, item)
  BY TailFacts DEF In
<1> QED BY <1>1, <1>2, <1>3

LEMMA TailFollowed ==
  ASSUME NEW q \in Seq(Items), q # <<>>, NEW item, NEW others, Followed(q, item, others)
  PROVE  /\ Followed(Tail(q), item, others)
         /\ Head(q) = item => \E other \in others : In(Tail(q), other)
<1>1. ASSUME NEW i \in 1..Len(Tail(q)), Tail(q)[i] = item
      PROVE  \E j \in 1..Len(Tail(q)) : j > i /\ Tail(q)[j] \in others
  <2>1. i + 1 \in 1..Len(q) /\ q[i + 1] = item
    BY <1>1, TailFacts
  <2>2. PICK j \in 1..Len(q) : j > i + 1 /\ q[j] \in others
    BY <2>1 DEF Followed
  <2>3. j - 1 \in 1..Len(Tail(q)) /\ j - 1 > i /\ Tail(q)[j - 1] \in others
    BY <2>2, TailFacts
  <2> QED BY <2>3
<1>2. ASSUME Head(q) = item PROVE \E other \in others : In(Tail(q), other)
  <2>1. PICK j \in 1..Len(q) : j > 1 /\ q[j] \in others
    BY <1>2, TailFacts DEF Followed
  <2>2. j - 1 \in 1..Len(Tail(q)) /\ Tail(q)[j - 1] \in others
    BY <2>1, TailFacts
  <2> QED BY <2>2 DEF In
<1> QED BY <1>1, <1>2 DEF Followed

\* What an event does to a queue and to the account of what was dropped: it is
\* appended and makes others good, or it is dropped.
LEMMA PushEffect ==
  ASSUME Types, NEW q \in Seq(Items), NEW e \in Events
  PROVE  /\ Push(q, e) \in Seq(Items) /\ Lost(q, e) \subseteq Events
         /\ \/ Push(q, e) = Append(q, e) /\ Lost(q, e) = lost \ MakesGood(e)
            \/ Push(q, e) = q /\ Lost(q, e) = lost \union {e}
            \/ /\ Push(q, e) = q /\ Lost(q, e) = lost
               /\ \/ e = "WifiOffline"
                  \/ e = "StateChanged" /\ (boot = "wifi" \/ In(q, "StateChanged")
                                              \/ In(q, "MqttConnected"))
<1>1. e \in Items
  BY DEF Items
<1>2. CASE Room(q)
  BY <1>1, <1>2 DEF Types, Push, Lost
<1>3. CASE ~Room(q) /\ NoLoss(q, e)
  <2>1. Push(q, e) = q /\ Lost(q, e) = lost
    BY <1>3 DEF Push, Lost
  <2>2. \/ e = "WifiOffline"
        \/ e = "StateChanged" /\ (boot = "wifi" \/ In(q, "StateChanged") \/ In(q, "MqttConnected"))
    <3>1. ASSUME NEW x, "StateChanged" \in MakesGood(x) PROVE x \in {"StateChanged", "MqttConnected"}
      BY <3>1 DEF MakesGood
    <3>2. Len(q) \in Nat /\ DOMAIN q = 1..Len(q)
      OBVIOUS
    <3>3. ASSUME NEW i \in DOMAIN q, e = "StateChanged", e \in MakesGood(q[i])
          PROVE  In(q, "StateChanged") \/ In(q, "MqttConnected")
      <4>1. q[i] \in {"StateChanged", "MqttConnected"}
        BY <3>1, <3>3
      <4> QED BY <3>2, <4>1 DEF In
    <3>4. ASSUME e = "StateChanged", \E i \in DOMAIN q : e \in MakesGood(q[i])
          PROVE  In(q, "StateChanged") \/ In(q, "MqttConnected")
      BY <3>3, <3>4, Zenon
    <3>5. \/ e = "WifiOffline"
          \/ e = "StateChanged" /\ (boot = "wifi" \/ \E i \in DOMAIN q : e \in MakesGood(q[i]))
      BY <1>3, Zenon DEF NoLoss
    <3> QED BY <3>4, <3>5
  <2> QED BY <2>1, <2>2 DEF Types
<1>4. CASE ~Room(q) /\ ~NoLoss(q, e)
  BY <1>4 DEF Types, Push, Lost
<1> QED BY <1>2, <1>3, <1>4

Tracked == {"StateChanged", "WifiOnline", "MqttConnected", "MqttDisconnected"}

\* What becomes of the items the invariant is about when e is enqueued: q2 is
\* the queue afterwards and lost2 the account.
Effect(q, e, q2, lost2) ==
  /\ q2 \in Seq(Items) /\ lost2 \subseteq Events
  /\ \A x \in Tracked : In(q, x) => In(q2, x)
  /\ e \notin lost2 => \/ In(q2, e)
                       \/ e = "WifiOffline"
                       \/ e = "StateChanged" /\ (boot = "wifi" \/ In(q2, "MqttConnected"))
  /\ \A x \in lost \ lost2 : \/ x = e
                             \/ e = "MqttConnected" /\ e \notin lost2
                             \/ e = "MqttDisconnected" /\ x \in {e, "MqttConnected"}
  /\ Followed(q, "MqttDisconnected", {"MqttConnected"}) /\ e # "MqttDisconnected"
       => Followed(q2, "MqttDisconnected", {"MqttConnected"})
  /\ Followed(q, "MqttConnected", {"MqttDisconnected"}) /\ e # "MqttConnected"
       => Followed(q2, "MqttConnected", {"MqttDisconnected"})
  /\ Followed(q, "WifiOffline", Online) /\ e # "WifiOffline"
       => Followed(q2, "WifiOffline", Online)
  /\ e = "MqttConnected" /\ e \notin lost2
       => /\ Followed(q2, "MqttDisconnected", {"MqttConnected"})
          /\ Followed(q2, "WifiOffline", Online)
  /\ e = "MqttDisconnected" /\ e \notin lost2
       => Followed(q2, "MqttConnected", {"MqttDisconnected"})
  /\ e = "WifiOnline" /\ e \notin lost2 => Followed(q2, "WifiOffline", Online)

LEMMA Pushed ==
  ASSUME Types, NEW q \in Seq(Items), NEW e \in Events
  PROVE  Effect(q, e, Push(q, e), Lost(q, e))
<1> DEFINE q2 == Push(q, e)
           lost2 == Lost(q, e)
<1> HIDE DEF q2, lost2
<1>1. e \in Items /\ \A x \in lost : x \in Items
  BY DEF Items, Types
<1> SUFFICES Effect(q, e, q2, lost2)
  BY DEF q2, lost2
<1>2. CASE q2 = q /\ lost2 = lost \union {e}
  BY <1>1, <1>2 DEF Effect, Types, Tracked, Items, Events
<1>4. CASE /\ q2 = q /\ lost2 = lost
           /\ \/ e = "WifiOffline"
              \/ e = "StateChanged" /\ (boot = "wifi" \/ In(q, "StateChanged")
                                          \/ In(q, "MqttConnected"))
  BY <1>1, <1>4 DEF Effect, Types, Tracked, Items, Events
<1>3. CASE q2 = Append(q, e) /\ lost2 = lost \ MakesGood(e)
  <2>1. \A x \in Items : In(q2, x) <=> In(q, x) \/ x = e
    BY <1>1, <1>3, AppendIn
  <2>2. /\ Followed(q, "MqttDisconnected", {"MqttConnected"}) /\ e # "MqttDisconnected"
             => Followed(q2, "MqttDisconnected", {"MqttConnected"})
        /\ e = "MqttConnected" => Followed(q2, "MqttDisconnected", {"MqttConnected"})
    <3> DEFINE others == {"MqttConnected"}
    <3>1. (e \in others => e # "MqttDisconnected") /\ "MqttDisconnected" \notin others
      OBVIOUS
    <3> QED BY <1>1, <1>3, <3>1, AppendFollowed
  <2>3. /\ Followed(q, "MqttConnected", {"MqttDisconnected"}) /\ e # "MqttConnected"
             => Followed(q2, "MqttConnected", {"MqttDisconnected"})
        /\ e = "MqttDisconnected" => Followed(q2, "MqttConnected", {"MqttDisconnected"})
    <3> DEFINE others == {"MqttDisconnected"}
    <3>1. (e \in others => e # "MqttConnected") /\ "MqttConnected" \notin others
      OBVIOUS
    <3> QED BY <1>1, <1>3, <3>1, AppendFollowed
  <2>4. /\ Followed(q, "WifiOffline", Online) /\ e # "WifiOffline"
             => Followed(q2, "WifiOffline", Online)
        /\ e \in Online => Followed(q2, "WifiOffline", Online)
    <3>1. (e \in Online => e # "WifiOffline") /\ "WifiOffline" \notin Online
      BY DEF Online
    <3> QED BY <1>1, <1>3, <3>1, AppendFollowed
  <2>5. \A x \in lost \ lost2 : \/ x = e
                                \/ e = "MqttConnected" /\ e \notin lost2
                                \/ e = "MqttDisconnected" /\ x \in {e, "MqttConnected"}
    BY <1>3, <2>1 DEF MakesGood, Items, Events
  <2>6. q2 \in Seq(Items) /\ lost2 \subseteq Events
    BY <1>1, <1>3 DEF Types
  <2> QED BY <1>1, <2>1, <2>2, <2>3, <2>4, <2>5, <2>6 DEF Effect, Online, Tracked, Items, Events
<1>5. <1>2!1 \/ <1>3!1 \/ <1>4!1
  BY PushEffect DEF q2, lost2
<1> QED BY <1>2, <1>3, <1>4, <1>5

\* What the task does with the head of the queue.
Taken(q2) ==
  /\ q2 \in Seq(Items)
  /\ \A x \in Tracked : In(queue, x) => Head(queue) = x \/ In(q2, x)
  /\ Followed(queue, "MqttDisconnected", {"MqttConnected"})
       => /\ Followed(q2, "MqttDisconnected", {"MqttConnected"})
          /\ Head(queue) = "MqttDisconnected" => In(q2, "MqttConnected")
  /\ Followed(queue, "MqttConnected", {"MqttDisconnected"})
       => /\ Followed(q2, "MqttConnected", {"MqttDisconnected"})
          /\ Head(queue) = "MqttConnected" => In(q2, "MqttDisconnected")
  /\ Followed(queue, "WifiOffline", Online)
       => /\ Followed(q2, "WifiOffline", Online)
          /\ Head(queue) = "WifiOffline" => In(q2, "WifiOnline") \/ In(q2, "MqttConnected")

LEMMA Pulled ==
  ASSUME Types, queue # <<>>, NEW q2, q2 = Tail(queue)
  PROVE  Taken(q2)
<1>1. queue \in Seq(Items)
  BY DEF Types
<1>2. q2 \in Seq(Items) /\ Head(queue) \in Items
  BY <1>1, TailFacts
<1>3. \A x \in Tracked : In(queue, x) => Head(queue) = x \/ In(q2, x)
  BY <1>1, TailIn DEF Tracked, Items, Events
<1>4. \A x, others : Followed(queue, x, others) =>
        /\ Followed(q2, x, others)
        /\ Head(queue) = x => \E other \in others : In(q2, other)
  BY <1>1, TailFollowed
<1> QED BY <1>2, <1>3, <1>4 DEF Taken, Online

\* The first step of what is left of an item, and the rest.
LEMMA RestFacts ==
  /\ Head(All) = "subscribe" /\ Tail(All) = AllOnline
  /\ Head(AllOnline) = "online" /\ Tail(AllOnline) = AllState
  /\ Head(AllState) = "bridge" /\ Tail(AllState) = OnlyZones
  /\ Head(OnlyZones) = "zones" /\ Tail(OnlyZones) = <<>>
  /\ Head(OnlyBridge) = "bridge" /\ Tail(OnlyBridge) = <<>>
  /\ Head(OnlyOffline) = "offline" /\ Tail(OnlyOffline) = <<>>
<1>1. Tail(All) = AllOnline
  BY DEF All, AllOnline
<1>2. Tail(AllOnline) = AllState
  BY DEF AllOnline, AllState
<1>3. Tail(AllState) = OnlyZones
  BY DEF AllState, OnlyZones
<1>4. Tail(OnlyZones) = <<>> /\ Tail(OnlyBridge) = <<>> /\ Tail(OnlyOffline) = <<>>
  BY DEF OnlyZones, OnlyBridge, OnlyOffline
<1>5. /\ Head(All) = "subscribe" /\ Head(AllOnline) = "online" /\ Head(AllState) = "bridge"
      /\ Head(OnlyZones) = "zones" /\ Head(OnlyBridge) = "bridge" /\ Head(OnlyOffline) = "offline"
  BY DEF All, AllOnline, AllState, OnlyZones, OnlyBridge, OnlyOffline
<1> QED BY <1>1, <1>2, <1>3, <1>4, <1>5

\* They are all different.
LEMMA RestsDiffer ==
  /\ <<>> \notin {All, AllOnline, AllState, OnlyZones, OnlyBridge, OnlyOffline}
  /\ All \notin {AllOnline, AllState, OnlyZones, OnlyBridge, OnlyOffline}
  /\ AllOnline \notin {AllState, OnlyZones, OnlyBridge, OnlyOffline}
  /\ AllState \notin {OnlyZones, OnlyBridge, OnlyOffline}
  /\ OnlyZones \notin {OnlyBridge, OnlyOffline}
  /\ OnlyBridge # OnlyOffline
<1>1. /\ Len(All) = 4 /\ Len(AllOnline) = 3 /\ Len(AllState) = 2
      /\ Len(OnlyZones) = 1 /\ Len(OnlyBridge) = 1 /\ Len(OnlyOffline) = 1 /\ Len(<<>>) = 0
  BY DEF All, AllOnline, AllState, OnlyZones, OnlyBridge, OnlyOffline
<1>2. \A r \in {All, AllOnline, AllState, OnlyZones, OnlyBridge, OnlyOffline} : Len(r) # 0
  BY <1>1
<1>3. /\ \A r \in {AllOnline, AllState, OnlyZones, OnlyBridge, OnlyOffline} : Len(r) # 4
      /\ \A r \in {AllState, OnlyZones, OnlyBridge, OnlyOffline} : Len(r) # 3
      /\ \A r \in {OnlyZones, OnlyBridge, OnlyOffline} : Len(r) # 2
  BY <1>1
<1>4. OnlyZones # OnlyBridge /\ OnlyZones # OnlyOffline /\ OnlyBridge # OnlyOffline
  BY RestFacts
<1> QED BY <1>1, <1>2, <1>3, <1>4, Zenon

-----------------------------------------------------------------------------
\* A change keeps the types, and what is retained of other topics.
LEMMA ChangeFacts ==
  ASSUME Types, NEW changed \in SUBSET Topics, Change(changed)
  PROVE  /\ broker' \in [Topics -> Values] /\ kept' \in [Topics -> Values]
         /\ \A t \in Topics \ changed : broker'[t] = broker[t]
BY DEF Change, Aged, Topics, Values, Types

\* A message is no event.
LEMMA Delivered ==
  ASSUME Types, NEW message \in Messages
  PROVE  /\ Push(queue, message) \in Seq(Items)
         /\ \A x \in Tracked : In(queue, x) => In(Push(queue, message), x)
         /\ Followed(queue, "MqttDisconnected", {"MqttConnected"})
              => Followed(Push(queue, message), "MqttDisconnected", {"MqttConnected"})
         /\ Followed(queue, "MqttConnected", {"MqttDisconnected"})
              => Followed(Push(queue, message), "MqttConnected", {"MqttDisconnected"})
         /\ Followed(queue, "WifiOffline", Online)
              => Followed(Push(queue, message), "WifiOffline", Online)
<1>1. /\ message \in Items /\ queue \in Seq(Items)
      /\ message \notin Events
  BY DEF Items, Types, Kinds, Events
<1>2. \A x : In(queue, x) => In(Append(queue, message), x)
  BY <1>1, AppendIn
<1>3. \A x \in Events, others \in SUBSET Events :
        Followed(queue, x, others) /\ x \notin others => Followed(Append(queue, message), x, others)
  BY <1>1, AppendFollowed
<1>4. /\ {"MqttConnected"} \in SUBSET Events /\ {"MqttDisconnected"} \in SUBSET Events
      /\ Online \in SUBSET Events /\ "WifiOffline" \notin Online
      /\ "MqttConnected" \in Events /\ "MqttDisconnected" \in Events /\ "WifiOffline" \in Events
  BY DEF Events, Online
<1>5. Append(queue, message) \in Seq(Items)
  BY <1>1
<1> QED BY <1>1, <1>2, <1>3, <1>4, <1>5 DEF Push

LEMMA Initially == Init => IInv
<1> SUFFICES ASSUME Init PROVE IInv
  OBVIOUS
<1>1. Nothing \in [Topics -> Values] /\ Retained \in [Topics -> Values]
  BY DEF Nothing, Retained, Topics, Values
<1>2. Types
  <2>1. queue \in Seq(Items) /\ lost \subseteq Events
    BY DEF Init
  <2> QED BY <1>1, <2>1 DEF Init, Types, Rests
<1>3. Len(queue) = 0 /\ session = "off" /\ ~wifi /\ ~connected
  BY DEF Init
<1> QED BY <1>2, <1>3 DEF IInv, ConnInv, StartInv, OfflineInv, BrokerInv, SubscribedInv,
        OnlineInv, BridgeInv, ZonesInv, Alive, Followed

LEMMA InvStep == ASSUME IInv, [Next]_vars PROVE IInv'
<1> USE DEF IInv, ConnInv, StartInv, OfflineInv, BrokerInv, SubscribedInv, OnlineInv, BridgeInv,
            ZonesInv, Alive, Told
<1>1. CASE UNCHANGED vars
  BY <1>1 DEF vars, external, Types, In, Followed
<1>2. CASE Boot
  <2>1. Types'
    BY <1>2 DEF Boot, CreateQueue, CreateClient, external, Types
  <2> QED BY <1>2, <2>1 DEF Boot, CreateQueue, CreateClient, external
<1>3. CASE WifiUp
  <2>1. /\ queue' = Push(queue, "WifiOnline") /\ lost' = Lost(queue, "WifiOnline")
        /\ "WifiOnline" \in Events /\ queue \in Seq(Items)
    BY <1>3 DEF WifiUp, Enqueue, Events, Types
  <2>2. Effect(queue, "WifiOnline", queue', lost')
    BY <2>1, Pushed
  <2>3. Types'
    BY <1>3, <2>2 DEF WifiUp, Types, Effect
  <2>4. ConnInv'
    BY <1>3, <2>2, <2>3 DEF WifiUp, Effect, Tracked, Types
  <2>5. StartInv'
    BY <1>3, <2>2, <2>3 DEF WifiUp, Effect, Tracked, Types
  <2>6. OfflineInv'
    BY <1>3, <2>2, <2>3 DEF WifiUp, Effect, Tracked, Types
  <2>7. BrokerInv'
    BY <1>3, <2>2, <2>3 DEF WifiUp, Effect, Tracked, Types
  <2> QED BY <2>3, <2>4, <2>5, <2>6, <2>7
<1>4. CASE Begin
  <2>1. Types'
    BY <1>4 DEF Begin, external, Types, Tasks
  <2> QED BY <1>4, <2>1 DEF Begin, external
<1>5. CASE Tell
  <2>1. /\ queue' = Push(queue, "StateChanged") /\ lost' = Lost(queue, "StateChanged")
        /\ "StateChanged" \in Events /\ queue \in Seq(Items)
    BY <1>5 DEF Tell, Enqueue, Events, Types
  <2>2. Effect(queue, "StateChanged", queue', lost')
    BY <2>1, Pushed
  <2>3. Types'
    BY <1>5, <2>2 DEF Tell, external, Types, Effect
  <2>4. ConnInv'
    BY <1>5, <2>2, <2>3 DEF Tell, external, Effect, Tracked, Types
  <2>5. StartInv'
    BY <1>5, <2>2, <2>3 DEF Tell, external, Effect, Tracked, Types
  <2>6. OfflineInv'
    BY <1>5, <2>2, <2>3 DEF Tell, external, Effect, Tracked, Types
  <2>7. BrokerInv'
    BY <1>5, <2>2, <2>3 DEF Tell, external, Effect, Tracked, Types
  <2> QED BY <2>3, <2>4, <2>5, <2>6, <2>7
<1>6. CASE SessionUp
  <2>1. /\ queue' = Push(queue, "MqttConnected") /\ lost' = Lost(queue, "MqttConnected")
        /\ "MqttConnected" \in Events /\ queue \in Seq(Items)
    BY <1>6, TailFacts DEF SessionUp, Enqueue, Events, Types
  <2>2. Effect(queue, "MqttConnected", queue', lost')
    BY <2>1, Pushed
  <2>3. Types'
    <3>1. broker' \in [Topics -> Values] /\ kept' \in [Topics -> Values]
      BY <1>6 DEF SessionUp, Types, Nothing, Values
    <3> QED BY <1>6, <2>2, <3>1 DEF SessionUp, Types, Effect
  <2>4. ConnInv'
    BY <1>6, <2>2, <2>3 DEF SessionUp, Effect, Tracked, Types
  <2>5. StartInv'
    BY <1>6, <2>2, <2>3 DEF SessionUp, Effect, Tracked, Types
  <2>6. OfflineInv'
    BY <1>6, <2>2, <2>3 DEF SessionUp, Effect, Tracked, Types
  <2>7. BrokerInv'
    BY <1>6, <2>2, <2>3 DEF SessionUp, Effect, Tracked, Types
  <2> QED BY <2>3, <2>4, <2>5, <2>6, <2>7
<1>7. CASE Disconnected
  <2>1. /\ queue' = Push(queue, "MqttDisconnected") /\ lost' = Lost(queue, "MqttDisconnected")
        /\ "MqttDisconnected" \in Events /\ queue \in Seq(Items)
    BY <1>7, TailFacts DEF Disconnected, Enqueue, Events, Types
  <2>2. Effect(queue, "MqttDisconnected", queue', lost')
    BY <2>1, Pushed
  <2>3. Types'
    BY <1>7, <2>2 DEF Disconnected, Types, Effect
  <2>4. ConnInv'
    BY <1>7, <2>2, <2>3 DEF Disconnected, Effect, Tracked, Types
  <2>5. StartInv'
    BY <1>7, <2>2, <2>3 DEF Disconnected, Effect, Tracked, Types
  <2>6. OfflineInv'
    BY <1>7, <2>2, <2>3 DEF Disconnected, Effect, Tracked, Types
  <2>7. BrokerInv'
    BY <1>7, <2>2, <2>3 DEF Disconnected, Effect, Tracked, Types
  <2> QED BY <2>3, <2>4, <2>5, <2>6, <2>7
<1>8. CASE WifiTold
  <2> DEFINE q == Push(queue, "StateChanged")
  <2>1. Effect(queue, "StateChanged", q, lost')
    BY <1>8, Pushed DEF WifiTold, Events, Types
  <2>2. Effect(q, "WifiOffline", queue', Lost(q, "WifiOffline"))
    BY <1>8, <2>1, Pushed DEF WifiTold, Events, Effect
  <2> HIDE DEF q
  <2>3. Types'
    BY <1>8, <2>1, <2>2 DEF WifiTold, Types, Effect
  <2>4. ConnInv'
    BY <1>8, <2>1, <2>2, <2>3 DEF WifiTold, Effect, Tracked, Types
  <2>5. StartInv'
    BY <1>8, <2>1, <2>2, <2>3 DEF WifiTold, Effect, Tracked, Types
  <2>6. OfflineInv'
    BY <1>8, <2>1, <2>2, <2>3 DEF WifiTold, Effect, Tracked, Types
  <2>7. BrokerInv'
    BY <1>8, <2>1, <2>2, <2>3 DEF WifiTold, Effect, Tracked, Types
  <2> QED BY <2>3, <2>4, <2>5, <2>6, <2>7
<1>9. CASE Break
  <2>3. Types'
    BY <1>9 DEF Break, Types, Topics, Values
  <2>4. ConnInv'
    BY <1>9, <2>3 DEF Break, Types
  <2>5. StartInv'
    BY <1>9, <2>3 DEF Break, Types
  <2>6. OfflineInv'
    BY <1>9, <2>3 DEF Break, Types
  <2>7. BrokerInv'
    BY <1>9, <2>3 DEF Break, Types
  <2> QED BY <2>3, <2>4, <2>5, <2>6, <2>7
<1>10. CASE \E message \in Messages : Arrive(message)
  <2> PICK message \in Messages : Arrive(message)
    BY <1>10
  <2>3. Types'
    BY Delivered DEF Arrive, external, Types
  <2>4. ConnInv'
    BY Delivered, <2>3 DEF Arrive, external, Tracked, Types
  <2>5. StartInv'
    BY Delivered, <2>3 DEF Arrive, external, Tracked, Types
  <2>6. OfflineInv'
    BY Delivered, <2>3 DEF Arrive, external, Tracked, Types
  <2>7. BrokerInv'
    BY Delivered, <2>3 DEF Arrive, external, Tracked, Types
  <2> QED BY <2>3, <2>4, <2>5, <2>6, <2>7
<1>11. CASE Receive /\ OnChange
  <2>1. queue # <<>> /\ todo = <<>> /\ Head(queue) = "change" /\ Tail(queue) \in Seq(Items)
    BY <1>11, Pulled DEF Taken, Receive, OnChange
  <2>2. Effect(Tail(queue), "StateChanged", queue', lost')
    BY <1>11, <2>1, Pushed DEF OnChange, Events
  <2>8. broker' \in [Topics -> Values] /\ kept' \in [Topics -> Values]
    BY <1>11, ChangeFacts DEF OnChange, StateChanges, Topics
  <2>9. broker'["availability"] = broker["availability"]
    BY <1>11, ChangeFacts DEF OnChange, StateChanges, Topics
  <2>10. /\ \A x \in Tracked : In(queue, x) => In(Tail(queue), x)
         /\ Followed(queue, "MqttDisconnected", {"MqttConnected"})
              => Followed(Tail(queue), "MqttDisconnected", {"MqttConnected"})
         /\ Followed(queue, "MqttConnected", {"MqttDisconnected"})
              => Followed(Tail(queue), "MqttConnected", {"MqttDisconnected"})
         /\ Followed(queue, "WifiOffline", Online) => Followed(Tail(queue), "WifiOffline", Online)
    BY <2>1, Pulled DEF Taken, Tracked
  <2>11. todo' \in {<<>>, OnlyBridge}
    BY <1>11 DEF OnChange, IfConnected, OnlyBridge
  <2>3. Types'
    BY <1>11, <2>2, <2>8, <2>11 DEF OnChange, Types, Tasks, Rests, Effect
  <2>4. ConnInv'
    BY <1>11, <2>2, <2>3, <2>9, <2>10, <2>11, RestsDiffer DEF OnChange, Effect, Tracked, Types
  <2>5. StartInv'
    BY <1>11, <2>2, <2>3, <2>9, <2>10, <2>11, RestsDiffer DEF OnChange, Effect, Tracked, Types
  <2>6. OfflineInv'
    BY <1>11, <2>2, <2>3, <2>9, <2>10, <2>11, RestsDiffer DEF OnChange, Effect, Tracked, Types
  <2>12. (Told' => Told) /\ ("WifiOnline" \notin lost' => "WifiOnline" \notin lost)
    BY <2>2 DEF Effect, Events, Types
  <2>13. "StateChanged" \notin lost' /\ session = "up" =>
           In(queue', "StateChanged") \/ In(queue', "MqttConnected")
    BY <2>2 DEF Effect, Types
  <2>14. \A x \in Tracked : In(queue, x) => In(queue', x)
    BY <2>2, <2>10 DEF Effect
  <2>15. SubscribedInv'
    BY <1>11, <2>1, <2>12, <2>14, RestsDiffer DEF OnChange, Tracked
  <2>16. OnlineInv'
    BY <1>11, <2>1, <2>9, <2>11, <2>12, <2>14, RestsDiffer DEF OnChange, Tracked
  <2>17. BridgeInv' /\ ZonesInv'
    BY <1>11, <2>12, <2>13 DEF OnChange
  <2>7. BrokerInv'
    BY <2>15, <2>16, <2>17
  <2> QED BY <2>3, <2>4, <2>5, <2>6, <2>7
<1>24. CASE Receive /\ OnAccepted
  <2>1. Taken(queue') /\ todo = <<>>
    BY <1>24, Pulled DEF Receive, OnAccepted, Handled
  <2>2. /\ broker' \in [Topics -> Values] /\ kept' \in [Topics -> Values]
        /\ broker'["availability"] = broker["availability"]
    BY <1>24, ChangeFacts DEF OnAccepted, Topics
  <2>3. Types' /\ owed' # {}
    BY <1>24, <2>1, <2>2 DEF OnAccepted, Handled, Types, Tasks, Rests, Taken
  <2>4. ConnInv'
    BY <1>24, <2>1, <2>2, <2>3 DEF OnAccepted, Handled, Taken, Tracked, Types
  <2>5. StartInv'
    BY <1>24, <2>1, <2>2, <2>3 DEF OnAccepted, Handled, Taken, Tracked, Types
  <2>6. OfflineInv'
    BY <1>24, <2>1, <2>2, <2>3, RestsDiffer DEF OnAccepted, Handled, Taken, Tracked, Types
  <2>7. BrokerInv'
    BY <1>24, <2>1, <2>2, <2>3, RestsDiffer DEF OnAccepted, Handled, Taken, Tracked, Types
  <2> QED BY <2>3, <2>4, <2>5, <2>6, <2>7
<1>12. CASE Receive /\ OnStateChanged
  <2>1. Taken(queue') /\ todo = <<>>
    BY <1>12, Pulled DEF Receive, OnStateChanged, Handled
  <2>3. Types'
    BY <1>12, <2>1 DEF OnStateChanged, Handled, IfConnected, State, AllState, Types, Rests, Taken
  <2>4. ConnInv'
    BY <1>12, <2>1, <2>3, RestsDiffer DEF OnStateChanged, Handled, IfConnected, State, AllState, Taken, Tracked, Types
  <2>5. StartInv'
    BY <1>12, <2>1, <2>3, RestsDiffer DEF OnStateChanged, Handled, IfConnected, State, AllState, Taken, Tracked, Types
  <2>6. OfflineInv'
    BY <1>12, <2>1, <2>3, RestsDiffer DEF OnStateChanged, Handled, IfConnected, State, AllState, Taken, Tracked, Types
  <2>7. BrokerInv'
    BY <1>12, <2>1, <2>3, RestsDiffer DEF OnStateChanged, Handled, IfConnected, State, AllState, Taken, Tracked, Types
  <2> QED BY <2>3, <2>4, <2>5, <2>6, <2>7
<1>13. CASE Receive /\ OnWifiOffline
  <2>1. Taken(queue') /\ todo = <<>>
    BY <1>13, Pulled DEF Receive, OnWifiOffline, Handled
  <2>3. Types'
    BY <1>13, <2>1 DEF OnWifiOffline, Handled, IfConnected, OnlyOffline, Types, Rests, Taken
  <2>4. ConnInv'
    BY <1>13, <2>1, <2>3, RestsDiffer DEF OnWifiOffline, Handled, IfConnected, OnlyOffline, Taken, Tracked, Types
  <2>5. StartInv'
    BY <1>13, <2>1, <2>3, RestsDiffer DEF OnWifiOffline, Handled, IfConnected, OnlyOffline, Taken, Tracked, Types
  <2>6. OfflineInv'
    BY <1>13, <2>1, <2>3, RestsDiffer DEF OnWifiOffline, Handled, IfConnected, OnlyOffline, Taken, Tracked, Types
  <2>7. BrokerInv'
    BY <1>13, <2>1, <2>3, RestsDiffer DEF OnWifiOffline, Handled, IfConnected, OnlyOffline, Taken, Tracked, Types
  <2> QED BY <2>3, <2>4, <2>5, <2>6, <2>7
<1>14. CASE Receive /\ StartClient
  <2>1. Taken(queue') /\ todo = <<>>
    BY <1>14, Pulled DEF Receive, StartClient, Handled
  <2>3. Types'
    BY <1>14, <2>1 DEF StartClient, Types, Taken, Events
  <2>4. ConnInv'
    BY <1>14, <2>1, <2>3, RestsDiffer DEF StartClient, Taken, Tracked, Types
  <2>5. StartInv'
    BY <1>14, <2>1, <2>3, RestsDiffer DEF StartClient, Taken, Tracked, Types
  <2>6. OfflineInv'
    BY <1>14, <2>1, <2>3, RestsDiffer DEF StartClient, Taken, Tracked, Types
  <2>7. BrokerInv'
    BY <1>14, <2>1, <2>3, RestsDiffer DEF StartClient, Taken, Tracked, Types
  <2> QED BY <2>3, <2>4, <2>5, <2>6, <2>7
<1>15. CASE Receive /\ OnWifiOnline
  <2>1. Taken(queue') /\ todo = <<>>
    BY <1>15, Pulled DEF Receive, OnWifiOnline, Handled
  <2>3. Types'
    BY <1>15, <2>1 DEF OnWifiOnline, Handled, OnlineAgain, IfConnected, AllOnline, Types, Rests, Taken
  <2>4. ConnInv'
    BY <1>15, <2>1, <2>3, RestsDiffer DEF OnWifiOnline, Handled, OnlineAgain, IfConnected, AllOnline, Taken, Tracked, Types
  <2>5. StartInv'
    BY <1>15, <2>1, <2>3, RestsDiffer DEF OnWifiOnline, Handled, OnlineAgain, IfConnected, AllOnline, Taken, Tracked, Types
  <2>6. OfflineInv'
    BY <1>15, <2>1, <2>3, RestsDiffer DEF OnWifiOnline, Handled, OnlineAgain, IfConnected, AllOnline, Taken, Tracked, Types
  <2>7. BrokerInv'
    BY <1>15, <2>1, <2>3, RestsDiffer DEF OnWifiOnline, Handled, OnlineAgain, IfConnected, AllOnline, Taken, Tracked, Types
  <2> QED BY <2>3, <2>4, <2>5, <2>6, <2>7
<1>16. CASE Receive /\ OnMqttConnected
  <2>1. Taken(queue') /\ todo = <<>>
    BY <1>16, Pulled DEF Receive, OnMqttConnected, Handled
  <2>3. Types'
    BY <1>16, <2>1 DEF OnMqttConnected, Handled, OnConnected, All, Types, Rests, Taken
  <2>4. ConnInv'
    BY <1>16, <2>1, <2>3, RestsDiffer DEF OnMqttConnected, Handled, OnConnected, All, Taken, Tracked, Types
  <2>5. StartInv'
    BY <1>16, <2>1, <2>3, RestsDiffer DEF OnMqttConnected, Handled, OnConnected, All, Taken, Tracked, Types
  <2>6. OfflineInv'
    BY <1>16, <2>1, <2>3, RestsDiffer DEF OnMqttConnected, Handled, OnConnected, All, Taken, Tracked, Types
  <2>7. BrokerInv'
    BY <1>16, <2>1, <2>3, RestsDiffer DEF OnMqttConnected, Handled, OnConnected, All, Taken, Tracked, Types
  <2> QED BY <2>3, <2>4, <2>5, <2>6, <2>7
<1>17. CASE Receive /\ OnMqttDisconnected
  <2>1. Taken(queue') /\ todo = <<>>
    BY <1>17, Pulled DEF Receive, OnMqttDisconnected, Handled
  <2>3. Types'
    BY <1>17, <2>1 DEF OnMqttDisconnected, Handled, DisconnectedCleared, Types, Rests, Taken
  <2>4. ConnInv'
    BY <1>17, <2>1, <2>3, RestsDiffer DEF OnMqttDisconnected, Handled, DisconnectedCleared, Taken, Tracked, Types
  <2>5. StartInv'
    BY <1>17, <2>1, <2>3, RestsDiffer DEF OnMqttDisconnected, Handled, DisconnectedCleared, Taken, Tracked, Types
  <2>6. OfflineInv'
    BY <1>17, <2>1, <2>3, RestsDiffer DEF OnMqttDisconnected, Handled, DisconnectedCleared, Taken, Tracked, Types
  <2>7. BrokerInv'
    BY <1>17, <2>1, <2>3, RestsDiffer DEF OnMqttDisconnected, Handled, DisconnectedCleared, Taken, Tracked, Types
  <2> QED BY <2>3, <2>4, <2>5, <2>6, <2>7
<1>18. CASE Receive /\ OnRejected
  <2>1. Taken(queue') /\ todo = <<>>
    BY <1>18, Pulled DEF Receive, OnRejected, Handled
  <2>2. /\ broker' \in [Topics -> Values] /\ kept' \in [Topics -> Values]
        /\ broker'["availability"] = broker["availability"] /\ broker'["zones"] = broker["zones"]
    BY <1>18, ChangeFacts DEF OnRejected, Topics
  <2>3. Types'
    BY <1>18, <2>1, <2>2 DEF OnRejected, Handled, IfConnected, OnlyBridge, Types, Rests, Taken
  <2>4. ConnInv'
    BY <1>18, <2>1, <2>2, <2>3, RestsDiffer DEF OnRejected, Handled, IfConnected, OnlyBridge, Taken, Tracked, Types
  <2>5. StartInv'
    BY <1>18, <2>1, <2>2, <2>3, RestsDiffer DEF OnRejected, Handled, IfConnected, OnlyBridge, Taken, Tracked, Types
  <2>6. OfflineInv'
    BY <1>18, <2>1, <2>2, <2>3, RestsDiffer DEF OnRejected, Handled, IfConnected, OnlyBridge, Taken, Tracked, Types
  <2>7. BrokerInv'
    BY <1>18, <2>1, <2>2, <2>3, RestsDiffer DEF OnRejected, Handled, IfConnected, OnlyBridge, Taken, Tracked, Types
  <2> QED BY <2>3, <2>4, <2>5, <2>6, <2>7
<1>19. CASE Receive /\ OnHomeAssistant
  <2>1. Taken(queue') /\ todo = <<>>
    BY <1>19, Pulled DEF Receive, OnHomeAssistant, Handled
  <2>3. Types'
    BY <1>19, <2>1 DEF OnHomeAssistant, Handled, IfConnected, State, AllState, Types, Rests, Taken
  <2>4. ConnInv'
    BY <1>19, <2>1, <2>3, RestsDiffer DEF OnHomeAssistant, Handled, IfConnected, State, AllState, Taken, Tracked, Types
  <2>5. StartInv'
    BY <1>19, <2>1, <2>3, RestsDiffer DEF OnHomeAssistant, Handled, IfConnected, State, AllState, Taken, Tracked, Types
  <2>6. OfflineInv'
    BY <1>19, <2>1, <2>3, RestsDiffer DEF OnHomeAssistant, Handled, IfConnected, State, AllState, Taken, Tracked, Types
  <2>7. BrokerInv'
    BY <1>19, <2>1, <2>3, RestsDiffer DEF OnHomeAssistant, Handled, IfConnected, State, AllState, Taken, Tracked, Types
  <2> QED BY <2>3, <2>4, <2>5, <2>6, <2>7
<1>20. CASE Subscribe
  <2>1. todo = All /\ todo' = AllOnline
    BY <1>20, RestFacts DEF Subscribe, Types, Rests
  <2>3. Types'
    BY <1>20, <2>1 DEF Subscribe, Types, Rests
  <2>4. ConnInv'
    BY <1>20, <2>1, <2>3, RestsDiffer DEF Subscribe, Types
  <2>5. StartInv'
    BY <1>20, <2>1, <2>3, RestsDiffer DEF Subscribe, Types
  <2>6. OfflineInv'
    BY <1>20, <2>1, <2>3, RestsDiffer DEF Subscribe, Types
  <2>7. BrokerInv'
    BY <1>20, <2>1, <2>3, RestsDiffer DEF Subscribe, Types
  <2> QED BY <2>3, <2>4, <2>5, <2>6, <2>7
<1>21. CASE PublishNext
  <2>1. \/ todo = AllOnline /\ todo' = AllState /\ Publish("availability", "online")
        \/ todo = OnlyOffline /\ todo' = <<>> /\ Publish("availability", "offline")
        \/ todo = AllState /\ todo' = OnlyZones /\ Publish("bridge", "current")
        \/ todo = OnlyBridge /\ todo' = <<>> /\ Publish("bridge", "current")
        \/ todo = OnlyZones /\ todo' = <<>> /\ Publish("zones", "current")
    BY <1>21, RestFacts DEF PublishNext, Types, Rests
  <2>2. broker' \in [Topics -> Values] /\ kept' \in [Topics -> Values]
    BY <2>1 DEF Publish, Types, Topics, Values
  <2>3. Types'
    BY <1>21, <2>1, <2>2 DEF PublishNext, Types, Rests
  <2>4. ConnInv'
    BY <1>21, <2>1, <2>3, RestsDiffer DEF PublishNext, Publish, Types, Topics
  <2>5. StartInv'
    BY <1>21, <2>1, <2>3, RestsDiffer DEF PublishNext, Publish, Types, Topics
  <2>6. OfflineInv'
    BY <1>21, <2>1, <2>3, RestsDiffer DEF PublishNext, Publish, Types, Topics
  <2>7. BrokerInv'
    BY <1>21, <2>1, <2>3, RestsDiffer DEF PublishNext, Publish, Types, Topics
  <2> QED BY <2>3, <2>4, <2>5, <2>6, <2>7
<1>22. CASE WifiDown
  <2>1. Types'
    BY <1>22 DEF WifiDown, Types, Tasks
  <2> QED BY <1>22, <2>1 DEF WifiDown
<1>23. CASE \E task \in Tasks : Progress(task)
  <2> PICK task \in Tasks : Progress(task)
    BY <1>23
  <2>1. /\ broker' \in [Topics -> Values] /\ kept' \in [Topics -> Values]
        /\ broker'["availability"] = broker["availability"]
    BY ChangeFacts DEF Progress, StateChanges, Topics
  <2>2. Types' /\ owed' # {}
    BY <2>1 DEF Progress, Types
  <2> QED BY <2>1, <2>2 DEF Progress
<1> QED BY <1>1, <1>2, <1>3, <1>4, <1>5, <1>6, <1>7, <1>8, <1>9, <1>10, <1>11, <1>12, <1>13, <1>14,
           <1>15, <1>16, <1>17, <1>18, <1>19, <1>20, <1>21, <1>22,
           <1>23, <1>24, Zenon
        DEF Next, Worker, Disturbance, Tells, Receive

\* The queue never holds more than it can.
LEMMA QueueStep ==
  ASSUME Types, Len(queue) <= QueueCap, [Next]_vars PROVE Len(queue') <= QueueCap
<1>1. ASSUME NEW q \in Seq(Items), Len(q) <= QueueCap, NEW item \in Items
      PROVE  Push(q, item) \in Seq(Items) /\ Len(Push(q, item)) <= QueueCap
  BY <1>1 DEF Push, Room
<1>2. queue \in Seq(Items)
  BY DEF Types
<1>3. CASE queue' = queue
  BY <1>3
<1>4. CASE \E item \in Items : queue' = Push(queue, item)
  BY <1>1, <1>2, <1>4
<1>5. CASE WifiTold
  BY <1>1, <1>2, <1>5 DEF WifiTold, Items, Events
<1>6. CASE Receive
  <2>1. Tail(queue) \in Seq(Items) /\ Len(Tail(queue)) <= QueueCap
    BY <1>2, <1>6, TailFacts DEF Receive
  <2>2. queue' = Tail(queue) \/ queue' = Push(Tail(queue), "StateChanged")
    BY <1>6 DEF Receive, OnStateChanged, OnWifiOffline, StartClient, OnWifiOnline,
                OnMqttConnected, OnMqttDisconnected, OnChange, OnAccepted, OnRejected, OnHomeAssistant,
                Handled
  <2> QED BY <1>1, <2>1, <2>2 DEF Items, Events
<1>7. WifiUp \/ Tell \/ SessionUp \/ Disconnected \/ (\E message \in Messages : Arrive(message))
        => \E item \in Items : queue' = Push(queue, item)
  BY DEF WifiUp, Tell, SessionUp, Disconnected, Arrive, Enqueue, Items, Events
<1>8. Boot \/ WifiDown \/ Begin \/ (\E task \in Tasks : Progress(task)) \/ Break \/ Subscribe
        \/ PublishNext \/ UNCHANGED vars => queue' = queue
  BY DEF Boot, WifiDown, Begin, Progress, CreateQueue, CreateClient, Break, Subscribe, PublishNext, vars
<1> QED BY <1>3, <1>4, <1>5, <1>6, <1>7, <1>8 DEF Next, Worker, Disturbance, Tells

\* Types and the bound of the queue.
THEOREM TypesHold == Spec => []TypeOK
<1> DEFINE Inv == IInv /\ Len(queue) <= QueueCap
<1>1. Init => Inv
  BY Initially DEF Init
<1>2. ASSUME Inv, [Next]_vars PROVE Inv'
  BY <1>2, InvStep, QueueStep DEF IInv
<1>3. Inv => TypeOK
  <2> SUFFICES ASSUME Types, Len(queue) <= QueueCap PROVE TypeOK
    BY DEF IInv
  <2>1. todo \in Seq({"subscribe", "online", "offline", "bridge", "zones"}) /\ Len(todo) <= 4
    <3> DEFINE S == {"subscribe", "online", "offline", "bridge", "zones"}
    <3>1. All \in Seq(S) /\ Len(All) = 4
      BY DEF All
    <3>2. AllOnline \in Seq(S) /\ Len(AllOnline) = 3
      BY DEF AllOnline
    <3>3. AllState \in Seq(S) /\ Len(AllState) = 2
      BY DEF AllState
    <3>4. OnlyZones \in Seq(S) /\ Len(OnlyZones) = 1
      BY DEF OnlyZones
    <3>5. OnlyBridge \in Seq(S) /\ Len(OnlyBridge) = 1
      BY DEF OnlyBridge
    <3>6. OnlyOffline \in Seq(S) /\ Len(OnlyOffline) = 1
      BY DEF OnlyOffline
    <3>7. <<>> \in Seq(S) /\ Len(<<>>) = 0
      OBVIOUS
    <3> HIDE DEF S
    <3>8. \A r \in Rests : r \in Seq(S)
      BY <3>1, <3>2, <3>3, <3>4, <3>5, <3>6, <3>7, Zenon DEF Rests
    <3>9. \A r \in Rests : Len(r) \in {0, 1, 2, 3, 4}
      BY <3>1, <3>2, <3>3, <3>4, <3>5, <3>6, <3>7, Zenon DEF Rests
    <3>10. \A n \in {0, 1, 2, 3, 4} : n <= 4
      OBVIOUS
    <3> QED BY <3>8, <3>9, <3>10, Zenon DEF S, Types
  <2> QED BY <2>1 DEF Types, TypeOK, Items
<1> QED BY <1>1, <1>2, <1>3, PTL DEF Spec

\* When every event is handled the flags agree with the client: it was started
\* once Wi-Fi had come up, and connected_ says what it believes.
THEOREM FlagsHold == Spec => []FlagsSettle
<1>1. IInv => FlagsSettle
  BY DEF IInv, Types, ConnInv, StartInv, FlagsSettle, Settled, Told, Alive, In
<1> QED BY Initially, InvStep, <1>1, PTL DEF Spec

\* When every event is handled and none was lost, Home Assistant sees the bridge
\* online and its commands arrive, and the published state is current unless a
\* task is still to tell of a change, whatever came and went in whatever order.
THEOREM PublishedHolds == Spec => []PublishedSettles
<1>1. IInv => PublishedSettles
  <2> SUFFICES ASSUME IInv, Settled, wifi, session = "up", lost = {}
               PROVE  /\ broker.availability = "online" /\ subscribed
                      /\ owed = {} => broker.bridge = "current" /\ broker.zones = "current"
    BY DEF PublishedSettles
  <2>1. Told /\ todo = <<>> /\ \A x : ~In(queue, x)
    BY DEF Settled, Told, In
  <2>2. /\ broker["availability"] = "online" /\ subscribed
        /\ owed = {} => broker["bridge"] = "current" /\ broker["zones"] = "current"
    BY <2>1, RestsDiffer DEF IInv, BrokerInv, SubscribedInv, OnlineInv, BridgeInv, ZonesInv
  <2> QED BY <2>2
<1> QED BY Initially, InvStep, <1>1, PTL DEF Spec
=============================================================================
