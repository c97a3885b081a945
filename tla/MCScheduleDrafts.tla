--------------------------- MODULE MCScheduleDrafts ---------------------------
(***************************************************************************)
(* The texts at the edges of what is parsed, and the numbers strtoul can   *)
(* return around the limit, the day and the sign.                          *)
(***************************************************************************)
EXTENDS ScheduleDrafts
MCTimeTexts == {<<"OFF">>, <<"text">>, <<0, 0, 0>>, <<1, 0, 0>>, <<23, 59, 59>>, <<24, 0, 0>>}
MCDaysTexts == {<<>>, <<"ALL">>, <<"SUN", "", "MON">>, <<"MON", "NONE">>}
MCSeconds == {0, 3600, 3601, 86400, -1}
=============================================================================
