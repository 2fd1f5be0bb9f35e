---------------------------- MODULE MCRtcmMonitor ----------------------------
(***************************************************************************)
(* TLC instance of RtcmMonitor: every stream of ten bytes over an          *)
(* alphabet of three, cut in every way into chunks of one to four bytes.   *)
(***************************************************************************)
EXTENDS RtcmMonitor

MCByte == 0..2
=============================================================================
