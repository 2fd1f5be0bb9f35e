--------------------------------- MODULE Box ---------------------------------
(***************************************************************************)
(* The box as a whole: the order in which main/app_main.c brings the       *)
(* components up and what a faulty part of the hardware takes down with    *)
(* it, the WiFi station of main/wifi_sta.c, and the network credentials    *)
(* in NVS with the two places they are changed from, the console           *)
(* (main/debug_console.c) and the admin page (main/web_server.c).          *)
(*                                                                         *)
(* Every ESP_ERROR_CHECK that fails restarts the box, as esp_restart()     *)
(* and a power cut do: all variables but the NVS start over.               *)
(*                                                                         *)
(* The WiFi library and the C6 are external.  As wifi_sta.c relies on      *)
(* them: esp_wifi_connect() either gets an address, announced by GOT_IP,   *)
(* or ends in a DISCONNECTED event, and so does every loss of the link;    *)
(* events are handled one at a time in the order they were posted.  An     *)
(* address can still be announced behind the loss of its link.             *)
(***************************************************************************)
EXTENDS Integers, Sequences

CONSTANTS
  Nets,         \* networks; the password of a network is named as itself
  Size,         \* how many characters the name and the password of one have
  FormSize,     \* and how many once URL-encoded
  Typed,        \* the pairs of SSID and password an operator may enter
  FaultSets,    \* what may be broken, a set of subsets of Fault
  ReachSets,    \* which networks may be in range
  MaxCommands,  \* bound on commands that change something
  MaxCuts,      \* bound on power cuts
  MaxFlaps      \* bound on losses of a link the network would have kept

None == "none"       \* no such key in NVS
Blank == "blank"     \* the key holds ""
Cut == "cut"         \* what is left of a name or password that was cut short
Field == {"ssid", "pass"}
Savers == {"console", "httpd"}
Fault == {"bus", "expander", "lcd", "touch", "ui", "usb_hang", "usb_fail", "mdns",
          "c6_hang", "c6_fail", "rpc", "caster", "httpd", "nvs_stale"}

ASSUME NetAssumption == Nets \cap {None, Blank, Cut} = {}
ASSUME SizeAssumption ==
  /\ Size \in [Nets -> [Field -> Nat \ {0}]] /\ FormSize \in [Nets -> [Field -> Nat]]
  /\ \A n \in Nets, f \in Field : Size[n][f] <= FormSize[n][f]
ASSUME FaultAssumption == FaultSets \subseteq SUBSET Fault /\ ReachSets \subseteq SUBSET Nets
ASSUME BoundAssumption == MaxCommands \in Nat /\ MaxCuts \in Nat /\ MaxFlaps \in Nat

\* What may be entered: a network with its password, or with none; or nothing.
Pairs == {p \in [ssid : Nets \cup {Blank}, pass : Nets \cup {Blank}] : p.pass \in {p.ssid, Blank}}
ASSUME TypedAssumption == Typed \subseteq Pairs

\* The characters the arrays hold beside the NUL: the form's (ssid[33],
\* pass[65]), those creds_load reads into, and wifi_config's.
FormRoom == [ssid |-> 32, pass |-> 64]
LoadRoom == [ssid |-> 63, pass |-> 63]
ConfigRoom == [ssid |-> 31, pass |-> 63]

\* form_field's result is not looked at: a value too long for its array stays
\* there cut short and still encoded.
Form(v, f) == IF v = Blank \/ FormSize[v][f] <= FormRoom[f] THEN v ELSE Cut
FormPair(p) == [ssid |-> Form(p.ssid, "ssid"), pass |-> Form(p.pass, "pass")]

\* What a save may write.
Sent == Typed \cup {FormPair(p) : p \in Typed}

\* Whether what is stored as v has at most n[f] characters.
Fits(v, f, n) ==
  \/ v = Blank
  \/ v = Cut /\ FormRoom[f] <= n[f]
  \/ v \in Nets /\ Size[v][f] <= n[f]
NoConf == [ssid |-> None, pass |-> None]

VARIABLES
  faults, reach,             \* what is broken; the networks in range
  commands, cuts, flaps,     \* how much of each budget was used
  pc,                        \* app_main: the call it makes next
  up,                        \* what has been started and is running
  wpc,                       \* wifi_task: the call it makes next
  nvs,                       \* nvs_flash_init() has run
  conf,                      \* what wifi_task has loaded, then wifi_config
  link, events,              \* the station's link; events not yet handled
  s_connected, s_caster_started,     \* wifi_sta.c
  ssid, pass, admin,         \* NVS: namespaces "wifi" and "webadmin"
  spc, sval, rebooting,      \* who is saving what; reboot_task is waiting
  disturbed                  \* history: a save was cut off or overlapped

world == <<faults, reach>>
budget == <<commands, cuts, flaps>>
boot == <<pc, up>>
task == <<wpc, nvs, conf>>
station == <<link, events, s_connected, s_caster_started>>
stored == <<ssid, pass, admin, disturbed>>
savers == <<spc, sval, rebooting>>
vars == <<world, budget, boot, task, station, stored, savers>>

\* Power on, with whatever was saved before.
Init ==
  /\ faults \in FaultSets /\ reach \in ReachSets
  /\ commands = 0 /\ cuts = 0 /\ flaps = 0
  /\ pc = "console" /\ up = {}
  /\ wpc = "none" /\ nvs = FALSE /\ conf = NoConf
  /\ link = "off" /\ events = <<>> /\ s_connected = FALSE /\ s_caster_started = FALSE
  /\ \E p \in Sent \cup {NoConf} : ssid = p.ssid /\ pass = p.pass
  /\ admin \in BOOLEAN /\ disturbed = FALSE
  /\ spc = [s \in Savers |-> "idle"] /\ sval = [s \in Savers |-> NoConf]
  /\ rebooting = FALSE

Writing(s) == spc[s] = "pass"          \* between nvs_set_str of ssid and of pass

\* abort(), esp_restart() or a power cut: only the NVS survives.
Restart ==
  /\ pc' = "console" /\ up' = {}
  /\ wpc' = "none" /\ nvs' = FALSE /\ conf' = NoConf
  /\ link' = "off" /\ events' = <<>> /\ s_connected' = FALSE /\ s_caster_started' = FALSE
  /\ spc' = [s \in Savers |-> "idle"] /\ sval' = [s \in Savers |-> NoConf]
  /\ rebooting' = FALSE
  /\ disturbed' = (disturbed \/ \E s \in Savers : Writing(s))
  /\ UNCHANGED <<ssid, pass, admin>>

-----------------------------------------------------------------------------
(* app_main *)

\* Started(c): the call at pc returned with c running, and app_main goes on at
\* next.  Skipped: it returned an error that app_main logs, or nothing to run.
Started(c, next) == up' = up \cup c /\ pc' = next
Skipped(next) == up' = up /\ pc' = next

ConsoleStart == pc = "console" /\ Started({"console"}, "sink")
SinkInit == pc = "sink" /\ Started({"sink"}, "feed")
FeedStart == pc = "feed" /\ Started({"feed"}, "power")

\* board_power_init: an error of the bus is returned, an expander that does
\* not answer aborts at its first register.
BoardPowerInit ==
  /\ pc = "power"
  /\ \/ "bus" \in faults /\ Skipped("display")
     \/ faults \cap {"bus", "expander"} = {} /\ Started({"bus"}, "display")

BoardPowerAborts ==
  pc = "power" /\ "bus" \notin faults /\ "expander" \in faults /\ Restart

\* lcd_reset_expander_init needs the bus; every later error is returned too.
LcdResetExpanderInit == "bus" \in up /\ "lcd" \notin faults

\* Mutant: app_main waits for the panel.
DisplayInit_Waits == pc = "display" /\ LcdResetExpanderInit /\ Started({"panel"}, "touch")

DisplayInit ==
  /\ pc = "display"
  /\ IF LcdResetExpanderInit THEN Started({"panel"}, "touch") ELSE Skipped("usb")

\* Only the newer panel has this touch controller, or it does not answer.
TouchInit ==
  /\ pc = "touch"
  /\ IF "bus" \in up /\ "touch" \notin faults
       THEN Started({"touch"}, "backlight") ELSE Skipped("backlight")

BacklightAutoStart == pc = "backlight" /\ Started({"backlight"}, "ui")

StatusScreenStart ==
  /\ pc = "ui"
  /\ IF "ui" \notin faults THEN Started({"ui"}, "usb") ELSE Skipped("usb")

\* usb_lib_task runs usb_host_install, which may not return or may fail, and
\* then wakes usb_cdc_source_start.
UsbHostInstall ==
  /\ pc = "usb" /\ "host" \notin up /\ faults \cap {"usb_hang", "usb_fail"} = {}
  /\ Started({"host"}, "usb")

UsbHostFails == pc = "usb" /\ "usb_fail" \in faults /\ Restart

UsbCdcSourceStart == pc = "usb" /\ "host" \in up /\ Started({"cdc"}, "nmea")

NmeaSourceStart == pc = "nmea" /\ Started({"nmea"}, "mdns")

NetMdnsStart ==
  /\ pc = "mdns"
  /\ IF "mdns" \notin faults THEN Started({"mdns"}, "wifi") ELSE Skipped("wifi")

\* The last call creates wifi_task and returns.
WifiStaStart == pc = "wifi" /\ Skipped("done") /\ wpc' = "nvs"

AppMainStep ==
  \/ /\ \/ ConsoleStart \/ SinkInit \/ FeedStart \/ BoardPowerInit \/ DisplayInit
        \/ TouchInit \/ BacklightAutoStart \/ StatusScreenStart \/ UsbHostInstall
        \/ UsbCdcSourceStart \/ NmeaSourceStart \/ NetMdnsStart
     /\ UNCHANGED <<world, budget, task, station, stored, savers>>
  \/ /\ BoardPowerAborts \/ UsbHostFails
     /\ UNCHANGED <<world, budget>>
  \/ WifiStaStart /\ UNCHANGED <<world, budget, nvs, conf, station, stored, savers>>

-----------------------------------------------------------------------------
(* wifi_task *)

\* nvs_ready: an NVS written by another version, or full, is erased.
NvsReady ==
  /\ wpc = "nvs" /\ wpc' = "init" /\ nvs' = TRUE
  /\ IF "nvs_stale" \in faults
       THEN /\ faults' = faults \ {"nvs_stale"}
            /\ ssid' = None /\ pass' = None /\ admin' = FALSE
       ELSE UNCHANGED <<faults, ssid, pass, admin>>
  /\ UNCHANGED <<reach, budget, boot, conf, station, disturbed, savers>>

\* SOFT_CHECK: an error ends the task, and the box runs without WiFi.
Gone == wpc' = "gone" /\ UNCHANGED <<conf, link, events>>

\* esp_wifi_init, which does not return when the C6 does not come up, and the
\* registration of on_event.
WifiInit ==
  /\ wpc = "init" /\ "c6_hang" \notin faults
  /\ \/ wpc' = "ssid" /\ UNCHANGED <<conf, link, events>>
     \/ "c6_fail" \in faults /\ Gone

\* creds_load, one nvs_get_str at a time: a key that is missing, or longer than
\* the array it is read into, counts as no credentials, and so does a blank SSID.
LoadSsid ==
  /\ wpc = "ssid"
  /\ IF Fits(ssid, "ssid", LoadRoom)
       THEN wpc' = "pass" /\ conf' = [conf EXCEPT !.ssid = ssid] /\ UNCHANGED <<link, events>>
       ELSE Gone

LoadPass ==
  /\ wpc = "pass"
  /\ IF Fits(pass, "pass", LoadRoom) /\ conf.ssid /= Blank
       THEN wpc' = "start" /\ conf' = [conf EXCEPT !.pass = pass] /\ UNCHANGED <<link, events>>
       ELSE Gone

\* strlcpy into wifi_config: what does not fit is cut.
Copied(v, f) == IF Fits(v, f, ConfigRoom) THEN v ELSE Cut

\* set_mode, set_config and esp_wifi_start, which posts STA_START.
WifiStart ==
  /\ wpc = "start"
  /\ \/ /\ wpc' = "gone" /\ link' = "idle" /\ events' = <<"STA_START">>
        /\ conf' = [ssid |-> Copied(conf.ssid, "ssid"), pass |-> Copied(conf.pass, "pass")]
     \/ "c6_fail" \in faults /\ Gone

WifiTask ==
  \/ NvsReady
  \/ /\ WifiInit \/ LoadSsid \/ LoadPass \/ WifiStart
     /\ UNCHANGED <<world, budget, boot, nvs, s_connected, s_caster_started, stored, savers>>

-----------------------------------------------------------------------------
(* on_event, in the event task.  esp_wifi_connect()'s result is ignored: when  *)
(* the call to the C6 times out ("rpc") there is no attempt and no event.      *)

Connect ==
  \/ link' = "connecting"
  \/ "rpc" \in faults /\ link' = "idle"

OnStaStart ==
  /\ Head(events) = "STA_START" /\ Connect
  /\ UNCHANGED <<up, s_connected, s_caster_started>>

\* Mutants: no new attempt; the flag stays.
OnDisconnected_NoRetry ==
  /\ Head(events) = "STA_DISCONNECTED"
  /\ s_connected' = FALSE /\ UNCHANGED <<link, up, s_caster_started>>
OnDisconnected_KeepsFlag ==
  /\ Head(events) = "STA_DISCONNECTED"
  /\ Connect /\ UNCHANGED <<up, s_connected, s_caster_started>>

OnDisconnected ==
  /\ Head(events) = "STA_DISCONNECTED"
  /\ s_connected' = FALSE /\ Connect
  /\ UNCHANGED <<up, s_caster_started>>

\* web_server_start, the last of the three, fails alone.
StartServices ==
  {"upstream"} \cup (IF "caster" \in faults THEN {} ELSE {"caster"})
               \cup (IF "httpd" \in faults THEN {} ELSE {"web"})

OnGotIp ==
  /\ Head(events) = "GOT_IP"
  /\ s_connected' = TRUE /\ s_caster_started' = TRUE
  /\ up' = IF s_caster_started THEN up ELSE up \cup StartServices
  /\ UNCHANGED link

OnEvent ==
  /\ events /= <<>> /\ events' = Tail(events)
  /\ OnStaStart \/ OnDisconnected \/ OnGotIp
  /\ UNCHANGED <<world, budget, pc, task, stored, savers>>

-----------------------------------------------------------------------------
(* The network, external *)

Post(e) == events' = Append(events, e)
Joinable == conf.ssid \in reach /\ conf.pass = conf.ssid
Lasting == UNCHANGED <<faults, commands, cuts, boot, task, s_connected,
                       s_caster_started, stored, savers>>

Associate ==
  /\ link = "connecting" /\ Joinable /\ link' = "associated"
  /\ UNCHANGED <<events, reach, flaps>> /\ Lasting

Refuse ==
  /\ link = "connecting" /\ ~Joinable
  /\ link' = "idle" /\ Post("STA_DISCONNECTED") /\ UNCHANGED <<reach, flaps>> /\ Lasting

Lease ==
  /\ link = "associated" /\ link' = "up" /\ Post("GOT_IP")
  /\ UNCHANGED <<reach, flaps>> /\ Lasting

\* A link that is lost before its address is announced: the lease may be under
\* way ("lost"), and is then announced behind the loss.
GoDown == link' = (IF link = "associated" THEN "lost" ELSE "idle")

\* For a moment, or for good: the network may have gone out of range.
LinkLost ==
  /\ link \in {"connecting", "associated", "up"} /\ flaps < MaxFlaps
  /\ reach' \in {reach, reach \ {conf.ssid}}
  /\ GoDown /\ Post("STA_DISCONNECTED") /\ flaps' = flaps + 1 /\ Lasting

LateLease ==
  /\ link = "lost" /\ link' = "idle" /\ Post("GOT_IP")
  /\ UNCHANGED <<reach, flaps>> /\ Lasting

Attempt == Associate \/ Refuse \/ Lease
Network == Attempt \/ LinkLost \/ LateLease

-----------------------------------------------------------------------------
(* Saving credentials: wifi_save_creds and wifi_clear_creds, as the console    *)
(* task and the web server's task call them                                    *)

Command == commands < MaxCommands /\ commands' = commands + 1
Quiet == UNCHANGED <<world, cuts, flaps, boot, task, station>>

\* A save is undisturbed from its first write on, until another one writes or
\* the box goes down between its two writes.
Overlap(s) == \E t \in Savers \ {s} : Writing(t)

\* ESP_ERROR_CHECK(nvs_open(...)): before nvs_flash_init that is an abort.
OpenCreds(s, p) ==
  \/ /\ nvs /\ spc' = [spc EXCEPT ![s] = "ssid"] /\ sval' = [sval EXCEPT ![s] = p]
     /\ Quiet /\ UNCHANGED <<stored, rebooting>>
  \/ ~nvs /\ Restart /\ UNCHANGED <<world, cuts, flaps>>

SaveSsid(s) ==
  /\ spc[s] = "ssid" /\ spc' = [spc EXCEPT ![s] = "pass"]
  /\ ssid' = sval[s].ssid /\ disturbed' = Overlap(s)
  /\ Quiet /\ UNCHANGED <<commands, pass, admin, sval, rebooting>>

\* Mutant: a blank password leaves the stored one.
SavePass_KeepsOld(s) ==
  /\ Writing(s) /\ spc' = [spc EXCEPT ![s] = "saved"]
  /\ pass' = (IF sval[s].pass = Blank THEN pass ELSE sval[s].pass)
  /\ disturbed' = (disturbed \/ Overlap(s))
  /\ Quiet /\ UNCHANGED <<commands, ssid, admin, sval, rebooting>>

\* The second write and the commit.
SavePass(s) ==
  /\ Writing(s) /\ spc' = [spc EXCEPT ![s] = "saved"]
  /\ pass' = sval[s].pass /\ disturbed' = (disturbed \/ Overlap(s))
  /\ Quiet /\ UNCHANGED <<commands, ssid, admin, sval, rebooting>>

\* wifi_clear_creds: without NVS there is nothing to erase.
ClearCreds(s) ==
  /\ spc' = [spc EXCEPT ![s] = "saved"]
  /\ IF nvs THEN ssid' = None /\ pass' = None /\ disturbed' = (disturbed \/ Overlap(s))
            ELSE UNCHANGED <<ssid, pass, disturbed>>
  /\ Quiet /\ UNCHANGED <<admin, sval, rebooting>>

-----------------------------------------------------------------------------
(* The console, one command after the other *)

Prompt == "console" \in up /\ spc["console"] = "idle"

Wifiset(p) == Prompt /\ Command /\ OpenCreds("console", p)
Wifireset == Prompt /\ Command /\ ClearCreds("console")

\* wifi_set_creds and wifi_forget restart 300 ms after the save.
ConsoleRestarts ==
  spc["console"] = "saved" /\ Restart /\ UNCHANGED <<world, budget>>

\* Mutant: wifi_sta_drop calls esp_wifi_connect() as well.
Wifidrop_Reconnects ==
  /\ Prompt /\ Command /\ link \in {"connecting", "associated", "up"}
  /\ link' = "connecting" /\ Post("STA_DISCONNECTED")
  /\ UNCHANGED <<world, cuts, flaps, boot, task, s_connected, s_caster_started, stored, savers>>

\* wifi_sta_drop: esp_wifi_disconnect.
Wifidrop ==
  /\ Prompt /\ Command /\ link \in {"connecting", "associated", "up"}
  /\ GoDown /\ Post("STA_DISCONNECTED")
  /\ UNCHANGED <<world, cuts, flaps, boot, task, s_connected, s_caster_started, stored, savers>>

\* `webadmin` opens NVS as wifi_save_creds does, and stores what require_admin
\* can load, or what is too long for its arrays; `webadminreset` needs no NVS.
Webadmin ==
  /\ Prompt /\ Command
  /\ \/ nvs /\ admin' \in BOOLEAN /\ Quiet /\ UNCHANGED <<ssid, pass, disturbed, savers>>
     \/ ~nvs /\ Restart /\ UNCHANGED <<world, cuts, flaps>>

Webadminreset ==
  /\ Prompt /\ Command /\ nvs /\ admin' = FALSE
  /\ Quiet /\ UNCHANGED <<ssid, pass, disturbed, savers>>

\* `caster` starts what on_event could not.
Caster ==
  /\ Prompt /\ Command /\ up' = up \cup {"caster"}
  /\ UNCHANGED <<world, cuts, flaps, pc, task, station, stored, savers>>

Console ==
  \/ \E p \in Typed : Wifiset(p)
  \/ Wifireset \/ Wifidrop \/ Webadmin \/ Webadminreset \/ Caster

-----------------------------------------------------------------------------
(* The admin page.  The web server runs one handler at a time.                 *)

\* require_admin, for a request that carries the right password; any other is
\* answered 401 or 503 and changes nothing.
RequireAdmin == admin

Request ==
  "web" \in up /\ link = "up" /\ spc["httpd"] = "idle" /\ RequireAdmin

\* A body that does not fit body[256], or has no SSID, is answered 400.
BodyFits(p) ==
  LET encoded(v, f) == IF v = Blank THEN 0 ELSE FormSize[v][f]
  IN  Len("ssid=&pass=") + encoded(p.ssid, "ssid") + encoded(p.pass, "pass") < 256

\* A blank password field is left out of the form, and stored as "".
WifiPost(p) ==
  /\ Request /\ BodyFits(p) /\ p.ssid /= Blank
  /\ Command /\ OpenCreds("httpd", FormPair(p))
WifiPostForget == Request /\ Command /\ ClearCreds("httpd")

RebootPost ==
  /\ Request /\ Command /\ rebooting' = TRUE
  /\ Quiet /\ UNCHANGED <<stored, spc, sval>>

\* Mutant: the response is sent and nothing else.
ScheduleReboot_Forgets ==
  /\ spc["httpd"] = "saved" /\ spc' = [spc EXCEPT !["httpd"] = "idle"]
  /\ Quiet /\ UNCHANGED <<commands, stored, sval, rebooting>>

\* The response is sent, and reboot_task created.
ScheduleReboot ==
  /\ spc["httpd"] = "saved" /\ spc' = [spc EXCEPT !["httpd"] = "idle"]
  /\ rebooting' = TRUE /\ Quiet /\ UNCHANGED <<commands, stored, sval>>

\* reboot_task, 800 ms later, whatever anyone is doing then.
RebootTask == rebooting /\ Restart /\ UNCHANGED <<world, budget>>

AdminPage == (\E p \in Typed : WifiPost(p)) \/ WifiPostForget \/ RebootPost

SaveStep(s) == SaveSsid(s) \/ SavePass(s)
Saving == (\E s \in Savers : SaveStep(s)) \/ ConsoleRestarts \/ ScheduleReboot

PowerCut ==
  cuts < MaxCuts /\ cuts' = cuts + 1 /\ Restart /\ UNCHANGED <<world, commands, flaps>>

-----------------------------------------------------------------------------
Next == AppMainStep \/ WifiTask \/ OnEvent \/ Network \/ Console \/ AdminPage
        \/ Saving \/ RebootTask \/ PowerCut

Spec == Init /\ [][Next]_vars

\* Every task of the box goes on when it can, and an attempt to join ends.
Fairness ==
  /\ WF_vars(AppMainStep) /\ WF_vars(WifiTask) /\ WF_vars(OnEvent)
  /\ WF_vars(Attempt) /\ WF_vars(Saving) /\ WF_vars(RebootTask)

FairSpec == Spec /\ Fairness

-----------------------------------------------------------------------------
(* Properties *)

Services == {"console", "sink", "feed", "bus", "panel", "touch", "backlight", "ui",
             "host", "cdc", "nmea", "mdns", "caster", "upstream", "web"}
Stages == {"console", "sink", "feed", "power", "display", "touch", "backlight", "ui",
           "usb", "nmea", "mdns", "wifi", "done"}
Event == {"STA_START", "STA_DISCONNECTED", "GOT_IP"}

\* Types, and that at most three events wait: of two links, one announced and
\* one lost, and the late lease of the lost one.
TypeBoot ==
  /\ faults \in SUBSET Fault /\ reach \in SUBSET Nets
  /\ commands \in 0..MaxCommands /\ cuts \in 0..MaxCuts /\ flaps \in 0..MaxFlaps
  /\ pc \in Stages /\ up \in SUBSET Services
TypeWifi ==
  /\ wpc \in {"none", "nvs", "init", "ssid", "pass", "start", "gone"} /\ nvs \in BOOLEAN
  /\ conf \in [ssid : Nets \cup {None, Blank, Cut}, pass : Nets \cup {None, Blank, Cut}]
  /\ s_connected \in BOOLEAN /\ s_caster_started \in BOOLEAN
TypeLink ==
  /\ link \in {"off", "idle", "lost", "connecting", "associated", "up"}
  /\ events \in Seq(Event)
TypeStored ==
  /\ ssid \in Nets \cup {None, Blank, Cut} /\ pass \in Nets \cup {None, Blank, Cut}
  /\ admin \in BOOLEAN /\ disturbed \in BOOLEAN
  /\ spc \in [Savers -> {"idle", "ssid", "pass", "saved"}]
  /\ sval \in [Savers -> Sent \cup {NoConf}] /\ rebooting \in BOOLEAN
TypeOK == TypeBoot /\ TypeWifi /\ TypeLink /\ TypeStored /\ Len(events) <= 3

\* Unless a call to the C6 was lost, a station that was started is always on
\* its way to a link: wifi_sta.c has no timer that would try again, so an
\* idle link without an event to come is idle until somebody restarts the box
\* (on_event, wifi_sta.c:107-137).
NeverStranded == "rpc" \notin faults /\ events = <<>> => link \notin {"idle", "lost"}

\* The stored SSID and password are of one save, after any number of saves
\* from two sides and restarts, unless the last save was itself disturbed: cut
\* off between its two writes, or written into by another (wifi_sta.c:67-76).
StoredWhole ==
  ~disturbed /\ (\A s \in Savers : ~Writing(s)) =>
    ssid = None \/ [ssid |-> ssid, pass |-> pass] \in Sent

\* The receiver's bytes get to the monitor and the tees whatever the C6, the
\* panel, the touch controller, mDNS or the web server do, after any restarts
\* (app_main.c:101-106, 119-151).
CoreComesUp ==
  [](faults \cap {"expander", "usb_hang", "usb_fail"} = {}) =>
    <>[]({"sink", "feed", "host", "cdc"} \subseteq up)

\* The status says connected only while the link is up, or soon no longer,
\* also when a late lease is announced behind the loss (wifi_sta.c:112-121).
StatusCatchesUp ==
  ("rpc" \notin faults /\ s_connected /\ link /= "up") ~> (~s_connected \/ link = "up")

\* Credentials that are stored whole, for a network in range whose name and
\* password fit every array on the way to the station, are the ones the box
\* ends up connected with: every way to save them ends in the restart that
\* loads them (wifi_sta.c:51-59, 89-95, 186-190, web_server.c:454-486).
Sound == faults \cap {"expander", "usb_hang", "usb_fail", "c6_hang", "c6_fail", "rpc"} = {}
Usable == ssid \in reach /\ pass = ssid
GetsThrough(n) == \A f \in Field : Size[n][f] <= ConfigRoom[f]
SavedIsJoined ==
  [] Sound /\ <>[](Usable /\ GetsThrough(ssid)) =>
    <>[](s_connected /\ conf = [ssid |-> ssid, pass |-> pass])

-----------------------------------------------------------------------------
(* Why the invariants hold: the inductive invariant (BoxProofs)               *)

\* The event that makes on_event connect again is in the queue exactly while
\* the station is without a link; what it leaves behind in the queue is at most
\* one address.
Addresses(q) == \A i \in 1..Len(q) : q[i] = "GOT_IP"
OneTrigger(q, i) ==
  i \in 1..Len(q) /\ q[i] /= "GOT_IP" /\ \A j \in 1..Len(q) : j /= i => q[j] = "GOT_IP"
Failed == "rpc" \in faults /\ Addresses(events) /\ Len(events) <= 1
QueueFollowsLink ==
  /\ link = "off" => events = <<>>
  /\ link \in {"connecting", "associated"} => Addresses(events) /\ Len(events) <= 1
  /\ link = "up" => Addresses(events) /\ Len(events) <= 2
  /\ link = "lost" => OneTrigger(events, Len(events)) /\ Len(events) <= 2
  /\ link = "idle" =>
       Failed \/ \E i \in {Len(events) - 1, Len(events)} : OneTrigger(events, i) /\ Len(events) <= 3

\* A save under way that is undisturbed is the only one, and its first write is
\* the stored SSID; nobody saves before NVS is up.
SavesAreApart ==
  /\ pc /= "done" => wpc = "none"
  /\ wpc \in {"none", "nvs"} => ~nvs
  /\ ~nvs => \A s \in Savers : spc[s] \in {"idle", "saved"}
  /\ \A s \in Savers : spc[s] \in {"ssid", "pass"} => sval[s] \in Sent
  /\ ~disturbed =>
       \A s \in Savers : Writing(s) => ssid = sval[s].ssid /\ ~Overlap(s)

IInv == TypeOK /\ QueueFollowsLink /\ SavesAreApart /\ StoredWhole

-----------------------------------------------------------------------------
(* What a comment of the code says, and TLC refutes                           *)

\* wifi_sta.c:3-5 says of `wifiset` "(persists + reboots); the box then joins
\* STA on every boot".  A name of 32 characters is cut to 31 (189), and a
\* password of 64 is stored and never loaded (179).
JoinsWhateverIsSet == [] Sound /\ <>[]Usable => <>[]s_connected
=============================================================================
