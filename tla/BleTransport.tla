----------------------------- MODULE BleTransport -----------------------------
(***************************************************************************)
(* BleTransport: the sessions of BleSession, whose Scan is one step with   *)
(* any outcome, or the steps of that scan in BleScan.  A scan begins by    *)
(* clearing what it keeps and a session looks at its outcome only, so      *)
(* neither part sees the state of the other and each behaviour shows one   *)
(* of them.                                                                *)
(***************************************************************************)
EXTENDS BleSession

CONSTANTS Devices, Hunter, Scores, None   \* of BleScan

ASSUME ScoresAssumption == Scores \in [Devices -> 0..3]
ASSUME NoneAssumption == None \notin Devices

VARIABLES part, scanPc, active, sem, found, fallback, score, peer, heard

scanVars == <<scanPc, active, sem, found, fallback, score, peer, heard>>

Scanner == INSTANCE BleScan WITH pc <- scanPc

LinkInit == part \in {"session", "scan"} /\ Init /\ Scanner!Init

LinkNext ==
  \/ part = "session" /\ Next /\ UNCHANGED <<part, scanVars>>
  \/ part = "scan" /\ Scanner!Next /\ UNCHANGED <<part, vars>>

LinkSpec ==
  LinkInit /\ [][LinkNext]_<<part, vars, scanVars>> /\ (part = "session" => Fairness)

\* The type invariants of both.
LinkTypeOK == TypeOK /\ Scanner!TypeOK

\* A successful scan picks the best device heard in it (BleScan).
PeerIsBest == Scanner!PeerIsBest

\* A scan that ended by itself fails only if no candidate was heard (BleScan).
NoCandidateMissed == Scanner!NoCandidateMissed
=============================================================================
