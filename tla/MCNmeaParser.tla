---------------------------- MODULE MCNmeaParser -----------------------------
(***************************************************************************)
(* TLC instance of NmeaParser: three satellites for a table of two, a line *)
(* buffer one unit shorter than the longest sentence, and a row that holds *)
(* two of the narrowest bars.                                              *)
(***************************************************************************)
EXTENDS NmeaParser

CONSTANTS s1, s2, s3
MCSats == {s1, s2, s3}
=============================================================================
