----------------------------- MODULE MCBacklight -----------------------------
(* TLC instance of Backlight: a supply that fails one climb above the floor, or *)
(* anywhere later on the way to the target.                                     *)
EXTENDS Backlight

MCSupplies == {25}
MCLevels == {150}
=============================================================================
