----------------------------- MODULE MCSensible -----------------------------
(***************************************************************************)
(* The disks and requests of MCResizer for runs whose callers are sensible *)
(* in the sense of ResizerInvariants, as most theorems about Resizer       *)
(* assume: TLC evaluates that assumption before it explores the states.    *)
(***************************************************************************)
EXTENDS MCResizer

ASSUME CallersAssumption == SensibleCalls
=============================================================================
