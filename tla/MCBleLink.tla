------------------------------ MODULE MCBleLink ------------------------------
(***************************************************************************)
(* BleTransport for TLC.  In range: the Hunter, a twin with name and       *)
(* service, one with the name only, one with the service only, and a       *)
(* stranger.                                                               *)
(***************************************************************************)
EXTENDS BleTransport

CONSTANTS hunter, twin, named, served, stranger

MCDevices == {hunter, twin, named, served, stranger}
MCScores == [d \in MCDevices |->
               CASE d \in {hunter, twin} -> 3 [] d = named -> 2
                 [] d = served -> 1 [] d = stranger -> 0]
=============================================================================
