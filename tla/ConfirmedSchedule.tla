--------------------------- MODULE ConfirmedSchedule ---------------------------
(***************************************************************************)
(* What the bridge promises about the schedule record of a zone.  It takes *)
(* over the configuration and then the block of one schedule; each is torn *)
(* while it is copied, and then what the device holds.  The copy in flash  *)
(* is the record of some moment, a torn one too, and a restart goes back   *)
(* to that copy.                                                           *)
(***************************************************************************)
CONSTANTS Targets,  \* the schedules of a zone
          Torn      \* a part that is being copied

VARIABLES device,     \* external: [config, block] of the zone's characteristics
          confirmed,  \* the record in RAM, same shape
          saved       \* the record in flash

vars == <<device, confirmed, saved>>

Init == saved = confirmed

DeviceChanges == UNCHANGED <<confirmed, saved>>

Tear(t) ==
  /\ \E c \in {confirmed.config, Torn}, b \in {confirmed.block[t], Torn} :
       confirmed' = [config |-> c, block |-> [confirmed.block EXCEPT ![t] = b]]
  /\ UNCHANGED <<device, saved>>

ConfirmConfig ==
  /\ confirmed.config = Torn
  /\ confirmed' = [confirmed EXCEPT !.config = device.config]
  /\ UNCHANGED <<device, saved>>

\* A block joins the configuration it was confirmed with.
ConfirmBlock(t) ==
  /\ confirmed.block[t] = Torn /\ confirmed.config = device.config
  /\ confirmed' = [confirmed EXCEPT !.block[t] = device.block[t]]
  /\ UNCHANGED <<device, saved>>

Save == saved' = confirmed /\ UNCHANGED <<device, confirmed>>

Restart == confirmed' = saved /\ UNCHANGED <<device, saved>>

Next ==
  \/ DeviceChanges \/ ConfirmConfig \/ Save \/ Restart
  \/ \E t \in Targets : Tear(t) \/ ConfirmBlock(t)

Spec == Init /\ [][Next]_vars
=============================================================================
