------------------------------ MODULE MCUiToBytes ------------------------------
(***************************************************************************)
(* What a user may think of entering: what an entity refuses, what it lets *)
(* pass and the parser refuses, and what both accept.  Times, durations    *)
(* and bytes where an encoding or a comparison changes.                    *)
(***************************************************************************)
EXTENDS UiToBytes, MCScheduleDrafts

MCUiTimes == {<<"OFF">>, <<0, 0, 0>>, <<24, 0, 0>>}
MCUiDays == {<<"SUN", "MON">>, <<"ANY">>}
MCUiSeconds == {0, 3600, 86400}

MCTimes == {Off, 0, 1, 59, 60, 3599, 3600, 43200, 86340, 86399}
MCDurations == {0, 1, 59, 60, 61, 600, 3599, 3600}
MCBytes == {0, 1, 128}
=============================================================================
