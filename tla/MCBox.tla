-------------------------------- MODULE MCBox --------------------------------
(***************************************************************************)
(* TLC instance of Box: three networks, of which only one may be in range: *)
(* one with the longest name and password that work, one with both a       *)
(* character too long, and one whose name only the console can take; and   *)
(* the hardware broken in one place at a time where that matters to        *)
(* the rest; faults that cannot mask each other share an instance.         *)
(***************************************************************************)
EXTENDS Box

CONSTANTS home, field, guest

MCNets == {home, field, guest}
Sizes(a, b, c) == [n \in MCNets |-> CASE n = home -> a [] n = field -> b [] n = guest -> c]
MCSize == Sizes([ssid |-> 31, pass |-> 63], [ssid |-> 32, pass |-> 64], [ssid |-> 14, pass |-> 63])
MCFormSize == Sizes([ssid |-> 31, pass |-> 63], [ssid |-> 32, pass |-> 66], [ssid |-> 34, pass |-> 63])
MCTyped ==
  {[ssid |-> n, pass |-> n] : n \in MCNets} \cup
  {[ssid |-> field, pass |-> Blank], [ssid |-> Blank, pass |-> Blank]}
MCReachSets == {{home}, MCNets}
MCFaultSets ==
  {{}, {"bus", "caster", "c6_fail"}, {"lcd", "mdns", "httpd"}, {"touch", "ui", "nvs_stale"}, {"expander"},
   {"usb_hang"}, {"usb_fail"}, {"c6_hang"}, {"rpc"}}
=============================================================================
