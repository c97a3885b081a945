------------------------------ MODULE BleSession ------------------------------
(***************************************************************************)
(* BleTransport between the worker and the NimBLE host: connect with its   *)
(* two attempts, the discovery of the handles, and the read and write      *)
(* primitives.  Each primitive issues one GATT procedure and waits for one *)
(* shared semaphore with a timeout; the host's callbacks give it, also     *)
(* when the waiter has gone.                                               *)
(*                                                                         *)
(* The host task has a higher priority than the worker on the only core:   *)
(* a callback is one action and may come between any two statements of the *)
(* worker.  A primitive is cut wherever one may come to effect: it clears  *)
(* what it expects, empties the semaphore, calls the host, waits, and only *)
(* then looks at the status.                                               *)
(* CONFIG_BT_NIMBLE_MAX_CONNECTIONS is 1 and the Hunter advertises only    *)
(* while nobody is connected to it.                                        *)
(***************************************************************************)
EXTENDS Naturals, Sequences

CONSTANTS Jobs   \* what sessions are opened for: subset of DOMAIN Body

Op(kind, on) == [kind |-> kind, on |-> on]

\* discover_handles
Discovery == <<Op("service", "custom"), Op("characteristics", "custom"),
               Op("service", "battery"), Op("characteristics", "battery"),
               Op("write", "notify82"), Op("write", "notify8A"), Op("write", "notify8F")>>

\* update_battery_from_session: the operation whose failure is ignored.
Battery == Op("read", "battery")

\* The operations of a session, in order; the first failure ends them.  A start
\* that an urgent stop interrupts, before the arm or while it waits for its
\* confirmation, writes the stop packets in its own session.
Body == LET prepare == Op("write", "prepare")
            duration == Op("write", "duration")
            arm == Op("write", "arm")
            stop == Op("write", "stop")
        IN [start   |-> <<prepare, duration, arm>>,
            abort   |-> <<prepare, duration, stop, stop>>,
            retract |-> <<prepare, duration, arm, stop, stop>>,
            stop    |-> <<stop, stop>>,
            apply   |-> <<Op("read", "config"), Op("write", "config"), Op("write", "block"),
                          Op("read", "config"), Op("read", "block")>>,
            refresh |-> <<>>]

ASSUME JobsAssumption == Jobs \subseteq DOMAIN Body

Script(job) == Discovery \o <<Battery>> \o Body[job]
BatteryAt == Len(Discovery) + 1
Positions == 1..(BatteryAt + 5)
Services == {"custom", "battery"}
Operations == UNION {{Script(j)[i] : i \in DOMAIN Script(j)} : j \in DOMAIN Body}

VARIABLES
  pc,         \* where the worker is
  job, at,    \* the session's purpose and the position in its script
  attempt,    \* of connect()
  conn,       \* conn_handle_ # 0xFFFF
  synced,     \* synced_: the host has the controller
  handles,    \* the services whose characteristic handles are set
  connectSem, gattSem,
  status,     \* last_status_ is 0
  payload,    \* last_read_payload_, by the characteristic it was read from
  link,       \* external: the connection
  procs,      \* external: unanswered GATT procedures, [at, op]
  stale,      \* history: handles are those of an earlier connection
  giver,      \* history: the position whose answer gave the semaphore last, or 0
  alone,      \* history: nothing was outstanding when the semaphore was emptied
  last        \* history: the operation that returned last

worker == <<pc, job, at, attempt>>
host == <<synced, connectSem, gattSem, status, payload, procs>>
history == <<giver, alone, last>>
vars == <<worker, conn, handles, host, link, stale, history>>

Current == Script(job)[at]

TypeOK ==
  /\ pc \in {"idle", "ready", "scan", "call", "connecting", "late", "issue", "drain",
            "send", "wait", "check", "close"}
  /\ job \in Jobs /\ at \in Positions /\ attempt \in 1..2
  /\ conn \in BOOLEAN /\ synced \in BOOLEAN /\ handles \in SUBSET Services
  /\ connectSem \in BOOLEAN /\ gattSem \in BOOLEAN /\ status \in BOOLEAN
  /\ payload \in {"empty", "battery", "config", "block"}
  /\ link \in {"none", "connecting", "up", "terminating"}
  /\ procs \in Seq([at : Positions, op : Operations]) /\ Len(procs) <= 2
  /\ stale \in BOOLEAN /\ giver \in Positions \union {0} /\ alone \in BOOLEAN
  /\ last \in [op : Operations, ok : BOOLEAN, own : BOOLEAN, alone : BOOLEAN, used : BOOLEAN]

Init ==
  /\ pc = "idle" /\ job \in Jobs /\ at = 1 /\ attempt = 1
  /\ conn = FALSE /\ synced = FALSE /\ handles = {} /\ connectSem = FALSE /\ gattSem = FALSE
  /\ status = TRUE /\ payload = "empty" /\ link = "none" /\ procs = <<>>
  /\ stale = FALSE /\ giver = 0 /\ alone = TRUE
  /\ last = [op |-> Battery, ok |-> FALSE, own |-> FALSE, alone |-> TRUE, used |-> FALSE]

-----------------------------------------------------------------------------
(***************************************************************************)
(* disconnect and connect.                                                 *)
(***************************************************************************)
\* Mutant: a link without handles is not worth a terminate.
DisconnectReadyOnly ==
  /\ link' = IF conn /\ handles # {} /\ link = "up" THEN "terminating" ELSE link
  /\ conn' = FALSE /\ handles' = {} /\ stale' = FALSE

Disconnect ==
  /\ link' = IF conn /\ link = "up" THEN "terminating" ELSE link
  /\ conn' = FALSE /\ handles' = {} /\ stale' = FALSE

\* Mutant: an attempt that failed is not counted.
RetryUncounted == pc' = "scan" /\ UNCHANGED <<job, at, attempt>>

\* The next attempt, or connect() returns false and the session is not closed.
Retry ==
  /\ IF attempt = 1 THEN pc' = "scan" /\ attempt' = 2 ELSE pc' = "idle" /\ UNCHANGED attempt
  /\ UNCHANGED <<job, at>>

\* open_session.  An existing connection is taken as it is.
Begin ==
  /\ pc = "idle"
  /\ job' \in Jobs /\ attempt' = 1 /\ at' = BatteryAt
  /\ pc' = IF conn THEN "issue" ELSE "ready"
  /\ UNCHANGED <<conn, handles, host, link, stale, history>>

\* ensure_ble_ready: wait for the host's sync, or connect() returns false.
Ready ==
  /\ pc = "ready"
  /\ pc' \in {"idle"} \union IF synced THEN {"scan"} ELSE {}
  /\ UNCHANGED <<job, at, attempt, conn, handles, host, link, stale, history>>

Scan ==
  /\ pc = "scan"
  /\ \/ synced /\ link = "none" /\ pc' = "call" /\ UNCHANGED <<job, at, attempt>>
     \/ Retry
  /\ UNCHANGED <<conn, handles, host, link, stale, history>>

\* connect_once: ble_gap_connect refuses while there is a connection.
ConnectCall ==
  /\ pc = "call" /\ connectSem' = FALSE
  /\ \/ synced /\ link = "none" /\ link' = "connecting" /\ pc' = "connecting"
        /\ UNCHANGED <<job, at, attempt>>
     \/ ~(synced /\ link = "none") /\ Retry /\ UNCHANGED link
  /\ UNCHANGED <<conn, synced, handles, gattSem, status, payload, procs, stale, history>>

ConnectDone ==
  /\ pc = "connecting" /\ connectSem /\ connectSem' = FALSE
  /\ IF conn THEN /\ pc' = "issue" /\ at' = 1 /\ handles' = {} /\ stale' = FALSE
                  /\ UNCHANGED <<job, attempt>>
             ELSE Retry /\ UNCHANGED <<handles, stale>>
  /\ UNCHANGED <<conn, link, synced, gattSem, status, payload, procs, history>>

\* The wait for connect_sem_ ends; the handle is looked at afterwards.
ConnectTimeout ==
  /\ pc = "connecting" /\ ~connectSem /\ pc' = "late"
  /\ UNCHANGED <<job, at, attempt, conn, handles, host, link, stale, history>>

ConnectLate ==
  /\ pc = "late" /\ Retry
  /\ link' = IF conn /\ link = "up" THEN "terminating" ELSE link
  /\ UNCHANGED <<conn, handles, host, stale, history>>

-----------------------------------------------------------------------------
(***************************************************************************)
(* read_handle, write_handle, discover_service_range,                      *)
(* discover_characteristics.                                               *)
(***************************************************************************)
\* read_handle and write_handle look at the connection and the handle, which
\* handle_for_uuid gives as 0 when it is not set; discovery looks at neither.
Usable ==
  \/ Current.kind \in {"service", "characteristics"}
  \/ conn /\ (IF Current.on = "battery" THEN "battery" ELSE "custom") \in handles

\* What a read returns is used only if it has the length of what was asked for
\* (mutate_*_config, payload_equals; read_battery_percent: any length but 0).
\* Mutant: any bytes will do.
AcceptsAny == Current.kind = "read" => payload # "empty"

Accepts ==
  Current.kind = "read" =>
    IF Current = Battery THEN payload # "empty" ELSE payload = Current.on

\* Where the worker goes when the current operation returns ok or not.
Return(ok) ==
  /\ last' = [op |-> Current, ok |-> ok, own |-> giver = at, alone |-> alone, used |-> ok /\ Accepts]
  /\ CASE at < BatteryAt /\ ~ok -> Disconnect /\ Retry
       [] at >= BatteryAt /\ (at = Len(Script(job)) \/ (at > BatteryAt /\ ~(ok /\ Accepts))) ->
            /\ pc' = "close"
            /\ UNCHANGED <<job, at, attempt, conn, handles, link, stale>>
       [] OTHER ->
            /\ pc' = "issue" /\ at' = at + 1
            /\ UNCHANGED <<job, attempt, conn, handles, link, stale>>

\* The checks, and the clearing of the payload and the status.
Prepare ==
  /\ pc = "issue" /\ Usable /\ pc' = "drain"
  /\ status' = TRUE /\ payload' = IF Current.kind = "read" THEN "empty" ELSE payload
  /\ UNCHANGED <<job, at, attempt, conn, handles, synced, connectSem, gattSem, procs, link,
                 stale, history>>

\* Mutant: what was given before counts.
Undrained == UNCHANGED <<gattSem, giver>>

Drained == gattSem' = FALSE /\ giver' = 0

Drain ==
  /\ pc = "drain" /\ pc' = "send"
  /\ Drained /\ alone' = (procs = <<>>)
  /\ UNCHANGED <<job, at, attempt, conn, handles, synced, connectSem, status, payload, procs,
                 link, stale, last>>

\* The ble_gattc call.
Send ==
  /\ pc = "send" /\ conn /\ synced /\ pc' = "wait"
  /\ procs' = Append(procs, [at |-> at, op |-> Current])
  /\ UNCHANGED <<job, at, attempt, conn, handles, synced, connectSem, gattSem, status, payload,
                 link, stale, history>>

\* No connection or no handle, or a call the host refuses.
IssueFails ==
  /\ (pc = "issue" /\ ~Usable) \/ pc = "send"
  /\ Return(FALSE)
  /\ UNCHANGED <<host, giver, alone>>

Take ==
  /\ pc = "wait" /\ gattSem /\ gattSem' = FALSE /\ pc' = "check"
  /\ UNCHANGED <<job, at, attempt, conn, handles, synced, connectSem, status, payload, procs,
                 link, stale, history>>

Check ==
  /\ pc = "check"
  /\ Return(status)
  /\ UNCHANGED <<host, giver, alone>>

\* Mutant: the timeout of a write is taken for its answer.
WaitTimeoutLenient ==
  /\ pc = "wait" /\ ~gattSem
  /\ Return(Current.kind = "write")
  /\ UNCHANGED <<host, giver, alone>>

WaitTimeout ==
  /\ pc = "wait" /\ ~gattSem
  /\ Return(FALSE)
  /\ UNCHANGED <<host, giver, alone>>

\* close_session
Close ==
  /\ pc = "close" /\ pc' = "idle"
  /\ Disconnect
  /\ UNCHANGED <<job, at, attempt, host, history>>

-----------------------------------------------------------------------------
(***************************************************************************)
(* The host's callbacks.                                                   *)
(***************************************************************************)
Connected ==
  /\ link = "connecting" /\ link' = "up" /\ conn' = TRUE /\ connectSem' = TRUE
  /\ stale' = (handles # {})
  /\ UNCHANGED <<worker, synced, handles, gattSem, status, payload, procs, history>>

ConnectFailed ==
  /\ link = "connecting" /\ link' = "none" /\ conn' = FALSE /\ connectSem' = TRUE
  /\ UNCHANGED <<worker, synced, handles, gattSem, status, payload, procs, stale, history>>

\* read_cb, write_cb and the discovery callbacks: the oldest procedure is
\* answered.  A failed discovery may have set some handles.
GattAnswer(ok) ==
  LET op == Head(procs).op
  IN /\ link \in {"up", "terminating"} /\ procs # <<>>
     /\ procs' = Tail(procs) /\ giver' = Head(procs).at
     /\ gattSem' = TRUE /\ status' = ok
     /\ payload' = IF op.kind # "read" THEN payload ELSE IF ok THEN op.on ELSE "empty"
     /\ handles' \in IF op.kind # "characteristics" THEN {handles}
                     ELSE {handles \union {op.on}} \union IF ok THEN {} ELSE {handles}
     /\ UNCHANGED <<worker, conn, synced, connectSem, link, stale, alone, last>>

\* Every open procedure fails, then BLE_GAP_EVENT_DISCONNECT.
ProcsBroken ==
  IF procs = <<>>
    THEN UNCHANGED <<gattSem, status, payload, procs, giver>>
    ELSE /\ gattSem' = TRUE /\ status' = FALSE /\ procs' = <<>> /\ giver' = 0
         /\ payload' = IF \E i \in DOMAIN procs : procs[i].op.kind = "read"
                         THEN "empty" ELSE payload

\* Mutant: the handles outlive the link.
HandlesKept == UNCHANGED <<handles, stale>>

HandlesReset == handles' = {} /\ stale' = FALSE

LinkLost ==
  /\ link \in {"up", "terminating"} /\ link' = "none" /\ conn' = FALSE
  /\ HandlesReset
  /\ ProcsBroken
  /\ UNCHANGED <<worker, synced, connectSem, alone, last>>

\* The controller is reset: the host ends the connection or the attempt with
\* the events above and calls on_reset.
HostReset ==
  /\ synced /\ synced' = FALSE /\ link' = "none"
  /\ IF link = "connecting"
       THEN conn' = FALSE /\ connectSem' = TRUE ELSE UNCHANGED connectSem
  /\ IF link \in {"up", "terminating"}
       THEN conn' = FALSE /\ HandlesReset /\ ProcsBroken
       ELSE /\ UNCHANGED <<handles, stale, gattSem, status, payload, procs, giver>>
            /\ link = "none" => UNCHANGED conn
  /\ UNCHANGED <<worker, alone, last>>

\* on_sync
HostSync ==
  /\ ~synced /\ synced' = TRUE
  /\ UNCHANGED <<worker, conn, handles, connectSem, gattSem, status, payload, procs, link,
                 stale, history>>

-----------------------------------------------------------------------------
Worker == Begin \/ Ready \/ Scan \/ ConnectCall \/ ConnectDone \/ ConnectTimeout \/ ConnectLate
          \/ Prepare \/ Drain \/ Send \/ IssueFails \/ Take \/ Check \/ WaitTimeout \/ Close
Host == Connected \/ ConnectFailed \/ (\E ok \in BOOLEAN : GattAnswer(ok)) \/ LinkLost
        \/ HostReset \/ HostSync

Next == Worker \/ Host

\* The worker gets the processor whenever it may run, its waits are bounded and
\* the battery timer opens a session now and then; NimBLE ends a connection
\* attempt and a terminate, with the supervision timeout at the latest.
Fairness == WF_vars(Worker) /\ WF_vars(Connected \/ ConnectFailed)
            /\ WF_vars(link = "terminating" /\ LinkLost)

Spec == Init /\ [][Next]_vars
FairSpec == Spec /\ Fairness

-----------------------------------------------------------------------------
\* An operation before which the semaphore was emptied with nothing outstanding
\* succeeds only by its own answer.  (An answer that comes between the emptying
\* and the call is one that was outstanding, and does count.)
AloneMeansOwn == last.ok /\ last.alone => last.own

\* Bytes an apply goes on with are those of its own read, also when the answer
\* of a timed-out battery read is still on its way.
ReadsAreOwn == last.used /\ last.op.kind = "read" /\ last.op # Battery => last.own

\* The arm packet is sent only after the Hunter has answered the prepare packet,
\* however the answers are shifted.
ArmAfterPrepare ==
  \A i, k \in DOMAIN procs : procs[i].op.on = "arm" => procs[k].op.on # "prepare"

\* An operation uses only handles that were discovered on this connection.
HandlesAreFresh == [][procs' # procs /\ pc = "send" => ~stale]_vars

\* A connection that came up after connect() had given up is closed again.
LeftoverLinkIsReleased == link = "up" ~> link = "none"

\* Every session ends, whatever the link, the host and the late answers do: the
\* two attempts of connect() are counted in every way one can fail.
SessionsEnd == pc # "idle" ~> pc = "idle"
=============================================================================
