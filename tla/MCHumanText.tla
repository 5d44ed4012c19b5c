---------------------------- MODULE MCHumanText -----------------------------
(* Quantities for people with units so small that a count grows past the     *)
(* last suffix.                                                              *)
EXTENDS HumanText

MCTimeUnits == <<2, 6, 18, 54, 108, 324>>
=============================================================================
