---------------------------- MODULE MCRegionMap ----------------------------
(***************************************************************************)
(* Model-checking instance of RegionMap: five block keys are enough for   *)
(* maps with three separate intervals, double coalesces and splits.       *)
(***************************************************************************)
EXTENDS RegionMap
=============================================================================
