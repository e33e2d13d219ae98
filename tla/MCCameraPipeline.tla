-------------------------- MODULE MCCameraPipeline --------------------------
(* Two cameras that are alike, and two places that are alike. *)
EXTENDS CameraPipeline, TLC

CONSTANTS front, parking, door, desk

Alike == Permutations(CAMERAS) \union Permutations(PLACES)
=============================================================================
