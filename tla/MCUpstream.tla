------------------------------ MODULE MCUpstream ------------------------------
(* TLC instances of Upstream: the console and the web server as callers, two *)
(* upstream_set_creds calls.                                                 *)
EXTENDS Upstream

MCNone == {}
MCFirst == {1}
MCSecond == {2}
MCBoth == {1, 2}
=============================================================================
