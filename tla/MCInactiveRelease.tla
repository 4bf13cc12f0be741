-------------------------- MODULE MCInactiveRelease -------------------------
(* Instances of InactiveRelease for TLC: one connection of a loop whose      *)
(* wheel has three slots.                                                    *)
EXTENDS InactiveRelease

CONSTANT a
=============================================================================
