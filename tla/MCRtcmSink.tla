------------------------------ MODULE MCRtcmSink ------------------------------
(* TLC instance of RtcmSink: buffers of three bytes, chunks of two, so that  *)
(* every buffer overflows, and reads smaller than what is queued.            *)
EXTENDS RtcmSink
=============================================================================
