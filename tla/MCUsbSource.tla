----------------------------- MODULE MCUsbSource -----------------------------
(***************************************************************************)
(* TLC instances of UsbSource: the interface numbers of the bench receiver *)
(* (RTCM3 on interface 2, NMEA on 4), a dwell of one poll and a provisioned *)
(* dwell of two.                                                           *)
(***************************************************************************)
EXTENDS UsbSource

MCCmdItfs == {2, 4}
MCChatterItfs == {4}
=============================================================================
