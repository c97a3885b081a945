------------------------------- MODULE UiToBytes -------------------------------
(***************************************************************************)
(* From what a user or a client sends to the bytes for the Hunter, in      *)
(* three parts that share nothing but the operators: messages of any MQTT  *)
(* client (ScheduleDrafts), the entities of Home Assistant                 *)
(* (HomeAssistantUi), and the operators of HunterProtocol on one input     *)
(* after another (HunterProtocolCheck).                                    *)
(***************************************************************************)
EXTENDS HomeAssistantUi, HunterProtocolCheck

VARIABLE part

AllInit ==
  /\ part \in {"client", "ui", "protocol"} /\ UiInit /\ InputInit
  /\ part # "ui" => zone = "zone1"
  /\ part = "protocol" => target = "Timer"

AllNext ==
  \/ part = "client" /\ Next /\ UNCHANGED <<part, zone, gesture, asked, input>>
  \/ part = "ui" /\ UiNext /\ UNCHANGED <<part, input>>
  \/ part = "protocol" /\ InputNext /\ UNCHANGED <<part, uiVars>>

allVars == <<part, uiVars, input>>

AllSpec == AllInit /\ [][AllNext]_allVars

-----------------------------------------------------------------------------
\* What Home Assistant lets a user enter can always be built and applied
\* (HomeAssistantUi); what any client sends may not (OnlySoakIsUnbuildable).
EnteredBuilds == part = "ui" => UiBuilds
=============================================================================
