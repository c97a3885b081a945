------------------------ MODULE MCCommandCoordinator ------------------------
(***************************************************************************)
(* Instances of CommandCoordinator for TLC: zones are model values.        *)
(***************************************************************************)
EXTENDS CommandCoordinator, TLC

ZoneSymmetry == Permutations(Zones)
=============================================================================
