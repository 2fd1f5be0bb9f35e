------------------------------- MODULE MCTouch -------------------------------
(***************************************************************************)
(* TLC instance of Touch: the window and the byte of the code, an idle     *)
(* time of two polls, ticks two or three polls apart, and half a stamp     *)
(* that runs over at polls five and ten.                                   *)
(***************************************************************************)
EXTENDS Touch
=============================================================================
