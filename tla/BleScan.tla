------------------------------- MODULE BleScan -------------------------------
(***************************************************************************)
(* scan_for_target and the advertisement branch of gap_event: which device *)
(* connect() picks.  The configured address wins; otherwise a device whose *)
(* name contains the hint scores 2 and one that advertises FF80 scores 1.  *)
(***************************************************************************)
EXTENDS Naturals

CONSTANTS Devices,  \* what advertises in range
          Hunter,   \* the device with the configured address
          Scores,   \* the score of every device's advertisement, 0..3
          None      \* no device

VARIABLES
  pc,        \* "idle", "scanning", "picked" or "failed"
  active,    \* ble_gap_disc_active
  sem,       \* scan_done_sem_
  found,     \* target_found_
  fallback,  \* fallback_addr_, None while fallback_found_ is FALSE
  score,     \* fallback_score_
  peer,      \* peer_addr_
  heard      \* history: the devices heard in this scan

vars == <<pc, active, sem, found, fallback, score, peer, heard>>

TypeOK ==
  /\ pc \in {"idle", "scanning", "picked", "failed"}
  /\ active \in BOOLEAN /\ sem \in BOOLEAN /\ found \in BOOLEAN
  /\ fallback \in Devices \union {None}
  /\ score = IF fallback = None THEN 0 ELSE Scores[fallback]
  /\ peer \in Devices \union {None} /\ heard \subseteq Devices

Init ==
  /\ pc = "idle" /\ active = FALSE /\ sem = FALSE /\ found = FALSE
  /\ fallback = None /\ score = 0 /\ peer = None /\ heard = {}

\* Mutant: the score of the previous scan stays.
ForgetAddressOnly == found' = FALSE /\ fallback' = None /\ UNCHANGED score

Forget == found' = FALSE /\ fallback' = None /\ score' = 0

\* The semaphore is drained, the fields are cleared, the scan starts or not.
Start ==
  /\ pc \in {"idle", "picked", "failed"}
  /\ sem' = FALSE
  /\ Forget
  /\ \/ pc' = "scanning" /\ active' = TRUE /\ heard' = {}
     \/ pc' = "failed" /\ UNCHANGED <<active, heard>>
  /\ UNCHANGED peer

\* gap_event, BLE_GAP_EVENT_DISC: the configured address or a full score ends
\* the scan, a better candidate replaces the kept one.
Stop(d) ==
  /\ peer' = d /\ found' = TRUE /\ sem' = TRUE /\ active' = FALSE
  /\ UNCHANGED <<fallback, score>>

\* Mutant: the last candidate is kept, not the best.
BetterOrLater(d) == Scores[d] > 0

Better(d) == Scores[d] > score

Keep(d) ==
  /\ IF Better(d) THEN fallback' = d /\ score' = Scores[d] ELSE UNCHANGED <<fallback, score>>
  /\ UNCHANGED <<peer, found, sem, active>>

Advertisement(d) ==
  /\ active /\ heard' = heard \union {d}
  /\ IF d = Hunter \/ Scores[d] = 3 THEN Stop(d) ELSE Keep(d)
  /\ UNCHANGED pc

\* The kept candidate becomes the target, in the handler or in the worker.
TakeFallback ==
  IF ~found /\ fallback # None
    THEN peer' = fallback /\ found' = TRUE
    ELSE UNCHANGED <<peer, found>>

\* BLE_GAP_EVENT_DISC_COMPLETE after kScanTimeoutMs.
Complete ==
  /\ active /\ active' = FALSE /\ sem' = TRUE
  /\ TakeFallback
  /\ UNCHANGED <<pc, fallback, score, heard>>

Done ==
  /\ pc = "scanning" /\ sem /\ sem' = FALSE
  /\ TakeFallback
  /\ pc' = IF found' THEN "picked" ELSE "failed"
  /\ UNCHANGED <<active, fallback, score, heard>>

\* The wait ends before the event: the scan fails whatever was found.
Timeout ==
  /\ pc = "scanning" /\ ~sem
  /\ pc' = "failed" /\ active' = FALSE
  /\ UNCHANGED <<sem, found, fallback, score, peer, heard>>

Next == Start \/ (\E d \in Devices : Advertisement(d)) \/ Complete \/ Done \/ Timeout

Spec == Init /\ [][Next]_vars

-----------------------------------------------------------------------------
\* A successful scan picks a device heard in this scan: the configured one if
\* it was heard, otherwise one with the highest score heard, never a stranger
\* that neither has the name nor advertises FF80.
PeerIsBest ==
  pc = "picked" =>
    /\ peer \in heard
    /\ Hunter \in heard => peer = Hunter
    /\ peer = Hunter \/ (Scores[peer] > 0 /\ \A d \in heard : Scores[d] <= Scores[peer])

\* A scan that ended by itself fails only if no candidate was heard.
NoCandidateMissed ==
  [][Done /\ pc' = "failed" => Hunter \notin heard /\ \A d \in heard : Scores[d] = 0]_vars
=============================================================================
