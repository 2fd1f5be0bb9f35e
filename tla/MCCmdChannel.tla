---------------------------- MODULE MCCmdChannel -----------------------------
(***************************************************************************)
(* TLC instances of CmdChannel: two callers, a reply shorter than the      *)
(* capture buffer, and a port that streams for ever.                       *)
(***************************************************************************)
EXTENDS CmdChannel

MCCallers == {"console", "httpd"}
=============================================================================
