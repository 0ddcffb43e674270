----------------------------- MODULE MCGrowing -----------------------------
(***************************************************************************)
(* The same for runs whose caller moreover never asks for less than there  *)
(* is, nor for part of a sector, and repeats one call, as the theorems     *)
(* about image files and about a finished resize assume.                   *)
(***************************************************************************)
EXTENDS MCSensible

ASSUME GrowingAssumption == GrowsOnly /\ WholeSectorsAsked /\ MaxChanges = 0
=============================================================================
