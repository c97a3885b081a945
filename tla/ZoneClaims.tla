------------------------------- MODULE ZoneClaims -------------------------------
(***************************************************************************)
(* What the bridge promises about the states it shows of the zones.        *)
(*                                                                         *)
(* The Hunter reports a countdown or a stop; the bridge hears a report,    *)
(* takes it from the queue, and concludes from it: a zone becomes Running  *)
(* only on a countdown, Idle only on a countdown (of another zone), a stop *)
(* or the end of a run.  Everything else, requests, failures, lost links   *)
(* and restarts, can only take a claim back, and drop reports.             *)
(***************************************************************************)
CONSTANTS Zones

VARIABLES claim,   \* the state shown of every zone
          told,    \* the Hunter's reports not yet heard
          heard    \* the report the bridge is acting on

vars == <<claim, told, heard>>

Reports == {"countdown", "stopped"}

\* What claims nothing about the valve.
Uncertain == {"Starting", "Stopping", "Error", "Unknown"}

Init == claim = [z \in Zones |-> "Unknown"] /\ told = {} /\ heard = {}

Report ==
  /\ \E r \in Reports : told' = told \union {r}
  /\ UNCHANGED <<claim, heard>>

Hear ==
  /\ \E r \in told : told' = told \ {r} /\ heard' = {r}
  /\ UNCHANGED claim

Doubt ==
  /\ claim' \in [Zones -> Uncertain \union {"Idle", "Running"}]
  /\ \A z \in Zones : claim'[z] \in {claim[z]} \union Uncertain
  /\ told' \subseteq told /\ heard' \subseteq heard

ShowIdle ==
  /\ heard # {} /\ heard' \subseteq heard
  /\ claim' = [z \in Zones |-> "Idle"]
  /\ UNCHANGED told

ShowRunning(z) ==
  /\ heard = {"countdown"} /\ heard' = {}
  /\ claim' = [claim EXCEPT ![z] = "Running"]
  /\ UNCHANGED told

RunOver ==
  /\ \E over \in SUBSET {z \in Zones : claim[z] = "Running"} :
       claim' = [z \in Zones |-> IF z \in over THEN "Idle" ELSE claim[z]]
  /\ UNCHANGED <<told, heard>>

Next ==
  \/ Report \/ Hear \/ Doubt \/ ShowIdle \/ RunOver
  \/ \E z \in Zones : ShowRunning(z)

Spec == Init /\ [][Next]_vars
=============================================================================
