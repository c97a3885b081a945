------------------------------ MODULE MqttBridge ------------------------------
(***************************************************************************)
(* MqttBridge between the Wi-Fi handler, the MQTT client, the coordinator  *)
(* and the broker.  Every event becomes an item of one bounded queue,      *)
(* which is dropped when the queue is full or not there yet; the           *)
(* mqtt_bridge task handles one item after another and publishes.          *)
(*                                                                         *)
(* What is published of the state is retained: "current" or "old" is all   *)
(* that is kept of it.  The busy flag in the bridge's health, and the      *)
(* discovery payloads, which never change, are left out.                   *)
(***************************************************************************)
EXTENDS Naturals, Sequences

CONSTANTS
  QueueCap,   \* 16 in the code
  Messages    \* those that arrive, of Kinds

\* "ha": homeassistant/status online; "change": a start, a stop or a setting,
\* which change the state at once; "apply": an apply or a battery refresh that is
\* accepted; "reject": what the coordinator or the parser refuses.
Kinds == {"ha", "change", "apply", "reject"}

ASSUME QueueAssumption == QueueCap \in Nat \ {0}
ASSUME MessagesAssumption == Messages \subseteq Kinds

Events == {"StateChanged", "WifiOffline", "WifiOnline", "MqttConnected", "MqttDisconnected"}
\* "coordinator": its worker, its timers and its disconnect callback.
Tasks == {"coordinator", "wifi"}
Topics == {"availability", "bridge", "zones"}
Values == {"none", "online", "offline", "old", "current"}
Nothing == [t \in Topics |-> "none"]
\* As an earlier run of the program left them.
Retained == [availability |-> "offline", bridge |-> "old", zones |-> "old"]

VARIABLES
  boot,       \* app_main: "wifi", then "queue" exists, then "done"
  queue,      \* work_queue_
  todo,       \* what is left of the handler the task is in
  started, connected,
  wifi,       \* external: the station has an address
  session,    \* external: the client is "off", "down", "up", or its link is "dead"
  subscribed, \* external: the broker forwards commands
  broker,     \* external: the retained messages
  kept,       \* external: what the client sends when the session is up again
  owed,       \* the tasks in a command or a handler that they will notify of
  lost        \* history: the kinds of event of which the last one was dropped

external == <<wifi, session, subscribed, broker, kept>>
vars == <<boot, queue, todo, started, connected, external, owed, lost>>

TypeOK ==
  /\ boot \in {"wifi", "queue", "done"}
  /\ queue \in Seq(Events \union Messages) /\ Len(queue) <= QueueCap
  /\ todo \in Seq({"subscribe", "online", "offline", "bridge", "zones"}) /\ Len(todo) <= 4
  /\ {started, connected, wifi, subscribed} \subseteq BOOLEAN
  /\ session \in {"off", "down", "up", "dead"}
  /\ broker \in [Topics -> Values] /\ kept \in [Topics -> Values]
  /\ owed \subseteq Tasks /\ lost \subseteq Events

Init ==
  /\ boot = "wifi" /\ queue = <<>> /\ todo = <<>>
  /\ started = FALSE /\ connected = FALSE
  /\ wifi = FALSE /\ session = "off" /\ subscribed = FALSE
  /\ broker = Retained /\ kept = Nothing /\ owed = {} /\ lost = {}

-----------------------------------------------------------------------------
(***************************************************************************)
(* enqueue_work, from any task.                                            *)
(***************************************************************************)
Room(q) == boot # "wifi" /\ Len(q) < QueueCap

Push(q, item) == IF Room(q) THEN Append(q, item) ELSE q

\* What a queued event makes good of those that were dropped before it.
MakesGood(item) ==
  CASE item = "MqttConnected" -> Events
    [] item = "MqttDisconnected" -> {"MqttConnected", "MqttDisconnected"}
    [] OTHER -> {item}

\* A dropped StateChanged is no loss while a queued item will publish anyway,
\* and a dropped WifiOffline is none at all.
NoLoss(q, item) ==
  \/ item = "WifiOffline"
  \/ item = "StateChanged" /\ (boot = "wifi" \/ \E i \in DOMAIN q : item \in MakesGood(q[i]))

Lost(q, item) ==
  CASE Room(q) -> lost \ MakesGood(item)
    [] ~Room(q) /\ NoLoss(q, item) -> lost
    [] OTHER -> lost \union {item}

Enqueue(item) == queue' = Push(queue, item) /\ lost' = Lost(queue, item)

\* What was published of changed topics is old.
Aged(retained, changed) ==
  [t \in Topics |->
    IF t \in changed /\ retained[t] = "current" THEN "old" ELSE retained[t]]
Change(changed) == broker' = Aged(broker, changed) /\ kept' = Aged(kept, changed)
StateChanges == Change({"bridge", "zones"})

-----------------------------------------------------------------------------
(***************************************************************************)
(* app_main goes on after init_wifi: mqtt_bridge.init().                   *)
(***************************************************************************)
CreateQueue ==
  /\ boot = "wifi" /\ boot' = "queue"
  /\ UNCHANGED <<queue, todo, started, connected, external, owed, lost>>

CreateClient ==
  /\ boot = "queue" /\ boot' = "done"
  /\ UNCHANGED <<queue, todo, started, connected, external, owed, lost>>

(***************************************************************************)
(* wifi_event_handler and the coordinator.                                 *)
(***************************************************************************)
\* The next event of Wi-Fi is handled after this one.
WifiUp ==
  /\ ~wifi /\ "wifi" \notin owed /\ wifi' = TRUE
  /\ Enqueue("WifiOnline")
  /\ UNCHANGED <<boot, todo, started, connected, session, subscribed, broker, kept, owed>>

\* Each failed attempt to connect raises the event again.
WifiDown ==
  /\ "wifi" \notin owed
  /\ wifi' = FALSE /\ owed' = owed \union {"wifi"}
  /\ UNCHANGED <<boot, queue, todo, started, connected, session, subscribed, broker, kept, lost>>

\* fail_safe_reset has notified its sink; then handle_wifi_offline.
WifiTold ==
  /\ "wifi" \in owed /\ owed' = owed \ {"wifi"}
  /\ queue' = Push(Push(queue, "StateChanged"), "WifiOffline")
  /\ lost' = Lost(queue, "StateChanged")
  /\ UNCHANGED <<boot, todo, started, connected, wifi, session, subscribed, broker, kept>>

\* The battery timer's command, the end of a connection, the remaining timer.
Begin ==
  /\ boot = "done" /\ owed' = owed \union {"coordinator"}
  /\ UNCHANGED <<boot, queue, todo, started, connected, external, lost>>

\* A write to the record, with the notification still to come.
Progress(task) ==
  /\ task \in owed /\ StateChanges
  /\ UNCHANGED <<boot, queue, todo, started, connected, wifi, session, subscribed, owed, lost>>

\* notify_sink at the end.  If another of them is still at it, Begin follows.
Tell ==
  /\ "coordinator" \in owed /\ owed' = owed \ {"coordinator"}
  /\ Enqueue("StateChanged")
  /\ UNCHANGED <<boot, todo, started, connected, external>>

(***************************************************************************)
(* The MQTT client and its mqtt_event_handler.                             *)
(***************************************************************************)
\* The client sends what it kept before anything newer.
SessionUp ==
  /\ session = "down" /\ wifi /\ session' = "up"
  /\ broker' = [t \in Topics |-> IF kept[t] = "none" THEN broker[t] ELSE kept[t]]
  /\ kept' = Nothing
  /\ Enqueue("MqttConnected")
  /\ UNCHANGED <<boot, todo, started, connected, wifi, subscribed, owed>>

\* The broker sends the last will and forgets the session (a clean one).
Break ==
  /\ session = "up" /\ session' = "dead"
  /\ subscribed' = FALSE /\ broker' = [broker EXCEPT !["availability"] = "offline"]
  /\ UNCHANGED <<boot, queue, todo, started, connected, wifi, kept, owed, lost>>

\* The client notices, or an attempt to connect fails.
Disconnected ==
  /\ session \in {"dead", "down"} /\ session' = "down"
  /\ Enqueue("MqttDisconnected")
  /\ UNCHANGED <<boot, todo, started, connected, wifi, subscribed, broker, kept, owed>>

Arrive(message) ==
  /\ session = "up" /\ subscribed
  /\ queue' = Push(queue, message)
  /\ UNCHANGED <<boot, todo, started, connected, external, owed, lost>>

-----------------------------------------------------------------------------
(***************************************************************************)
(* worker_loop                                                             *)
(***************************************************************************)
State == <<"bridge", "zones">>
IfConnected(steps) == IF connected THEN steps ELSE <<>>

\* Nothing but what is left of the item.
Handled(steps) ==
  /\ todo' = steps /\ queue' = Tail(queue)
  /\ UNCHANGED <<boot, wifi, session, subscribed>>

OnStateChanged ==
  /\ Head(queue) = "StateChanged"
  /\ Handled(IfConnected(State))
  /\ UNCHANGED <<started, connected, broker, kept, owed, lost>>

OnWifiOffline ==
  /\ Head(queue) = "WifiOffline"
  /\ Handled(IfConnected(<<"offline">>))
  /\ UNCHANGED <<started, connected, broker, kept, owed, lost>>

\* esp_mqtt_client_start fails while there is no client.
StartClient ==
  /\ Head(queue) = "WifiOnline" /\ ~started
  /\ started' = (boot = "done")
  /\ session' = IF boot = "done" THEN "down" ELSE session
  /\ lost' = IF boot = "done" THEN lost ELSE lost \union {"WifiOnline"}
  /\ queue' = Tail(queue)
  /\ UNCHANGED <<boot, todo, connected, wifi, subscribed, broker, kept, owed>>

\* Mutant: the state is published again, the availability is not.
OnlineAgainStateOnly == IfConnected(State)

OnlineAgain == IfConnected(<<"online", "bridge", "zones">>)

OnWifiOnline ==
  /\ Head(queue) = "WifiOnline" /\ started
  /\ Handled(OnlineAgain)
  /\ UNCHANGED <<started, connected, broker, kept, owed, lost>>

\* Mutant: the subscriptions of an earlier session are taken to last.
OnConnectedUnsubscribed == <<"online", "bridge", "zones">>

OnConnected == <<"subscribe", "online", "bridge", "zones">>

OnMqttConnected ==
  /\ Head(queue) = "MqttConnected"
  /\ connected' = TRUE
  /\ Handled(OnConnected)
  /\ UNCHANGED <<started, broker, kept, owed, lost>>

\* Mutant: a failed attempt to connect is not told from the end of a session.
DisconnectedKept == UNCHANGED connected

DisconnectedCleared == connected' = FALSE

OnMqttDisconnected ==
  /\ Head(queue) = "MqttDisconnected"
  /\ DisconnectedCleared
  /\ Handled(<<>>)
  /\ UNCHANGED <<started, broker, kept, owed, lost>>

\* notify_sink enqueues from the same task.  A start or a stop then hands its
\* command to the worker, or is refused because the worker's queue is full.
OnChange ==
  /\ Head(queue) = "change"
  /\ StateChanges
  /\ queue' = Push(Tail(queue), "StateChanged") /\ lost' = Lost(Tail(queue), "StateChanged")
  /\ todo' \in {<<>>, IfConnected(<<"bridge">>)}
  /\ owed' \in {owed, owed \union {"coordinator"}}
  /\ UNCHANGED <<boot, started, connected, wifi, session, subscribed>>

\* The error text is cleared, and nobody is told before the command's end.
OnAccepted ==
  /\ Head(queue) = "apply"
  /\ Change({"bridge"})
  /\ owed' = owed \union {"coordinator"}
  /\ Handled(<<>>)
  /\ UNCHANGED <<started, connected, lost>>

\* set_last_ui_error
OnRejected ==
  /\ Head(queue) = "reject"
  /\ Change({"bridge"})
  /\ Handled(IfConnected(<<"bridge">>))
  /\ UNCHANGED <<started, connected, owed, lost>>

OnHomeAssistant ==
  /\ Head(queue) = "ha"
  /\ Handled(IfConnected(State))
  /\ UNCHANGED <<started, connected, broker, kept, owed, lost>>

Receive ==
  /\ todo = <<>> /\ queue # <<>>
  /\ \/ OnStateChanged \/ OnWifiOffline \/ StartClient \/ OnWifiOnline
     \/ OnMqttConnected \/ OnMqttDisconnected \/ OnChange \/ OnAccepted
     \/ OnRejected \/ OnHomeAssistant

\* esp_mqtt_client_publish: to the broker; without a session the client keeps
\* the message or fails.
Publish(topic, value) ==
  \/ /\ session = "up" /\ broker' = [broker EXCEPT ![topic] = value]
     /\ UNCHANGED kept
  \/ /\ session \in {"dead", "down"} /\ kept' = [kept EXCEPT ![topic] = value]
     /\ UNCHANGED broker
  \/ session \in {"dead", "down"} /\ UNCHANGED <<broker, kept>>

Subscribe ==
  /\ todo # <<>> /\ Head(todo) = "subscribe" /\ todo' = Tail(todo)
  /\ subscribed' = (session = "up")
  /\ UNCHANGED <<boot, queue, started, connected, wifi, session, broker, kept, owed, lost>>

PublishNext ==
  /\ todo # <<>> /\ todo' = Tail(todo)
  /\ \/ Head(todo) \in {"online", "offline"} /\ Publish("availability", Head(todo))
     \/ Head(todo) \in {"bridge", "zones"} /\ Publish(Head(todo), "current")
  /\ UNCHANGED <<boot, queue, started, connected, wifi, session, subscribed, owed, lost>>

-----------------------------------------------------------------------------
Worker == Receive \/ Subscribe \/ PublishNext
Boot == CreateQueue \/ CreateClient
Disturbance ==
  \/ WifiUp \/ WifiDown \/ Break \/ Disconnected \/ Begin
  \/ \E task \in Tasks : Progress(task)
  \/ \E message \in Messages : Arrive(message)
Tells == WifiTold \/ Tell

Next == Worker \/ Boot \/ SessionUp \/ Disturbance \/ Tells

\* The client notices a dead link and tries again (keepalive,
\* reconnect_timeout_ms).
Client == SessionUp \/ (session = "dead" /\ Disconnected)

\* Fairness of the bridge's tasks as a whole: a task that is ready is run, and
\* commands and handlers end.
Fairness == WF_vars(Worker \/ Boot \/ Tells) /\ WF_vars(Client)

Spec == Init /\ [][Next]_vars
FairSpec == Spec /\ Fairness

-----------------------------------------------------------------------------
Settled == boot = "done" /\ queue = <<>> /\ todo = <<>>

\* When every event is handled, the flags agree with the client, whatever else
\* was dropped: the client runs once Wi-Fi has come up, and connected_ says
\* what the client believes.
FlagsSettle ==
  Settled =>
    /\ wifi /\ "WifiOnline" \notin lost => started
    /\ lost \intersect {"MqttConnected", "MqttDisconnected"} = {} =>
         (connected <=> session \in {"up", "dead"})

\* When every event is handled and no last one of a kind was dropped, Home
\* Assistant sees the bridge online and its commands arrive: Wi-Fi and MQTT may
\* have come and gone in any order.  What it sees of the state is current too,
\* unless a task is in a command or a handler that it will notify of: until then
\* what that task wrote, and an error text that an accepted apply or refresh has
\* cleared, are published as they were.  A dropped StateChanged behind a queued
\* one is made good by it.
PublishedSettles ==
  Settled /\ wifi /\ session = "up" /\ lost = {} =>
    /\ broker.availability = "online" /\ subscribed
    /\ owed = {} => broker.bridge = "current" /\ broker.zones = "current"

\* Once the disturbances end with Wi-Fi up and nothing lost, all of that is
\* reached.  It rests on the client, which sends what it kept before anything
\* newer (SessionUp).
Recovers ==
  (<>[][~Disturbance]_vars /\ <>[](wifi /\ lost = {})) =>
    <>[]( /\ broker = [availability |-> "online", bridge |-> "current", zones |-> "current"]
          /\ subscribed )
=============================================================================
