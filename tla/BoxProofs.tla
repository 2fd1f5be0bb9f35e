------------------------------ MODULE BoxProofs ------------------------------
(***************************************************************************)
(* Theorems about module Box, for any networks, faults and bounds: the     *)
(* types with the bound on the event queue, that no started station is     *)
(* left without a retry, and that what is stored is of one save.           *)
(***************************************************************************)
EXTENDS Box, TLAPS

\* What a save may write: typed whole, or as the form's arrays leave it.
Word == Nets \cup {Blank, Cut}

LEMMA SentIsWords == \A p \in Sent : p = [ssid |-> p.ssid, pass |-> p.pass] /\ p.ssid \in Word /\ p.pass \in Word
<1>1. \A p \in Typed : p = [ssid |-> p.ssid, pass |-> p.pass] /\ p.ssid \in Word /\ p.pass \in Word
  BY TypedAssumption DEF Pairs, Word
<1>2. \A p \in Typed : FormPair(p).ssid \in Word /\ FormPair(p).pass \in Word
  BY <1>1 DEF FormPair, Form, Word
<1>3. \A p : FormPair(p) = [ssid |-> FormPair(p).ssid, pass |-> FormPair(p).pass] BY DEF FormPair
<1> QED BY <1>1, <1>2, <1>3 DEF Sent

\* The restart is an initial state but for the NVS, the faults and the budgets.
LEMMA InitIInv == Init => IInv
<1> SUFFICES ASSUME Init PROVE IInv OBVIOUS
<1> USE DEF Init, NoConf, None, Blank, Cut, Savers
<1>1. TypeBoot BY FaultAssumption, BoundAssumption DEF TypeBoot, Stages
<1>2. TypeWifi BY DEF TypeWifi
<1>3. TypeLink /\ Len(events) <= 3 BY DEF TypeLink
<1>4. PICK p \in Sent \cup {NoConf} : ssid = p.ssid /\ pass = p.pass OBVIOUS
<1>5. /\ ssid \in Nets \cup {None, Blank, Cut} /\ pass \in Nets \cup {None, Blank, Cut}
      /\ ssid = None \/ [ssid |-> ssid, pass |-> pass] \in Sent
  BY <1>4, SentIsWords DEF Word
<1>6. TypeStored BY <1>5 DEF TypeStored
<1>7. QueueFollowsLink BY DEF QueueFollowsLink
<1>8. SavesAreApart BY DEF SavesAreApart, Writing
<1>9. StoredWhole BY <1>5 DEF StoredWhole
<1> QED BY <1>1, <1>2, <1>3, <1>6, <1>7, <1>8, <1>9 DEF IInv, TypeOK

-----------------------------------------------------------------------------
(* The restart                                                                 *)

RestartStep ==
  /\ Restart /\ UNCHANGED world
  /\ commands' \in 0..MaxCommands /\ cuts' \in 0..MaxCuts /\ flaps' \in 0..MaxFlaps

LEMMA RestartKeeps ==
  ASSUME IInv, RestartStep
  PROVE  IInv'
<1> USE DEF IInv, TypeOK, RestartStep, Restart, world, NoConf, Savers
<1>1. TypeBoot' BY DEF TypeBoot, Stages
<1>2. TypeWifi' BY DEF TypeWifi, None
<1>3. TypeLink' /\ (Len(events) <= 3)' BY DEF TypeLink
<1>4. TypeStored' BY DEF TypeStored
<1>5. QueueFollowsLink' BY DEF QueueFollowsLink
<1>6. SavesAreApart' BY DEF SavesAreApart, Writing
<1>7. StoredWhole'
  <2>1. (\E s \in Savers : Writing(s)) => disturbed' BY DEF TypeStored
  <2>2. ~disturbed' => ~disturbed BY DEF TypeStored
  <2> QED BY <2>1, <2>2 DEF StoredWhole
<1> QED BY <1>1, <1>2, <1>3, <1>4, <1>5, <1>6, <1>7

-----------------------------------------------------------------------------
(* A step either restarts the box, which RestartKeeps is about, or it is one   *)
(* of the steps below; a property that reads none of the variables a group     *)
(* changes is disturbed by none of its members.                                *)

Booting ==
  \/ ConsoleStart \/ SinkInit \/ FeedStart \/ BoardPowerInit \/ DisplayInit
  \/ TouchInit \/ BacklightAutoStart \/ StatusScreenStart \/ UsbHostInstall
  \/ UsbCdcSourceStart \/ NmeaSourceStart \/ NetMdnsStart
BootStep == Booting /\ UNCHANGED <<world, budget, task, station, stored, savers>>
StartStep == WifiStaStart /\ UNCHANGED <<world, budget, nvs, conf, station, stored, savers>>
JoinStep ==
  /\ WifiInit \/ LoadSsid \/ LoadPass \/ WifiStart
  /\ UNCHANGED <<world, budget, boot, nvs, s_connected, s_caster_started, stored, savers>>

\* The commands and requests that begin a save or an erasure.
BeginSave == \E s \in Savers, p \in Sent :
  /\ Command /\ nvs /\ spc[s] = "idle"
  /\ spc' = [spc EXCEPT ![s] = "ssid"] /\ sval' = [sval EXCEPT ![s] = p]
  /\ Quiet /\ UNCHANGED <<stored, rebooting>>
BeginClear == \E s \in Savers : Command /\ spc[s] = "idle" /\ ClearCreds(s)
SetAdmin ==
  /\ Command /\ nvs /\ admin' \in BOOLEAN /\ Quiet /\ UNCHANGED <<ssid, pass, disturbed, savers>>
SaveWrites == \E s \in Savers : SaveStep(s)

\* Every restart leaves the world alone and stays within the bounds.
LEMMA StepCases ==
  ASSUME IInv, Next
  PROVE  \/ RestartStep
         \/ BootStep \/ StartStep \/ NvsReady \/ JoinStep \/ OnEvent \/ Network
         \/ BeginSave \/ BeginClear \/ SetAdmin \/ Wifidrop \/ Caster
         \/ RebootPost \/ SaveWrites \/ ScheduleReboot
<1> USE BoundAssumption DEF IInv, TypeOK, TypeBoot, budget, RestartStep
<1>1. CASE AppMainStep
  BY <1>1 DEF AppMainStep, BootStep, Booting, StartStep, BoardPowerAborts, UsbHostFails
<1>2. CASE WifiTask BY <1>2 DEF WifiTask, JoinStep
<1>3. CASE OnEvent \/ Network BY <1>3
<1>4. CASE Console
  <2>1. CASE \E p \in Typed : Wifiset(p)
    BY <2>1 DEF Sent, Wifiset, Prompt, OpenCreds, BeginSave, Command, Savers, world
  <2>2. CASE Wifireset BY <2>2 DEF Wifireset, Prompt, BeginClear, Savers
  <2>3. CASE Webadmin \/ Webadminreset
    <3>1. CASE nvs BY <2>3, <3>1, Zenon DEF Webadmin, Webadminreset, SetAdmin
    <3>2. CASE ~nvs
      <4>1. Command /\ Restart /\ UNCHANGED <<world, cuts, flaps>>
        BY <2>3, <3>2, Zenon DEF Webadmin, Webadminreset
      <4> QED BY <4>1 DEF Command, world
    <3> QED BY <3>1, <3>2
  <2> QED BY <1>4, <2>1, <2>2, <2>3 DEF Console
<1>5. CASE AdminPage
  <2>1. CASE \E p \in Typed : WifiPost(p)
    <3>1. PICK p \in Typed : WifiPost(p) BY <2>1
    <3>2. spc["httpd"] = "idle" /\ Command /\ OpenCreds("httpd", FormPair(p)) BY <3>1 DEF WifiPost, Request
    <3>3. FormPair(p) \in Sent BY DEF Sent
    <3> HIDE DEF FormPair
    <3> QED BY <3>2, <3>3 DEF OpenCreds, BeginSave, Command, Savers, world
  <2>2. CASE WifiPostForget BY <2>2 DEF WifiPostForget, Request, BeginClear, Savers
  <2> QED BY <1>5, <2>1, <2>2 DEF AdminPage
<1>6. CASE Saving BY <1>6 DEF Saving, SaveWrites, ConsoleRestarts
<1>7. CASE RebootTask \/ PowerCut BY <1>7 DEF RebootTask, PowerCut, world
<1> QED BY <1>1, <1>2, <1>3, <1>4, <1>5, <1>6, <1>7 DEF Next

-----------------------------------------------------------------------------
(* The event queue                                                             *)

\* What on_event takes from the queue, by where the event to reconnect is.
LEMMA TailOfQueue ==
  ASSUME TypeLink, events /= <<>>, events' = Tail(events)
  PROVE  /\ Len(events') = Len(events) - 1 /\ events' \in Seq(Event)
         /\ Addresses(events) => Addresses(events)' /\ Head(events) = "GOT_IP"
         /\ \A i \in 1..Len(events) : OneTrigger(events, i) =>
              IF i = 1 THEN Addresses(events)' /\ Head(events) /= "GOT_IP"
                       ELSE OneTrigger(events', i - 1) /\ Head(events) = "GOT_IP"
<1>1. /\ Len(events) \in Nat \ {0} /\ Head(events) = events[1]
      /\ events' \in Seq(Event) /\ Len(events') = Len(events) - 1
      /\ \A i \in 1..(Len(events) - 1) : events'[i] = events[i + 1]
  BY DEF TypeLink
<1>2. Addresses(events) => Addresses(events)' /\ Head(events) = "GOT_IP"
  BY <1>1 DEF Addresses
<1>3. ASSUME NEW i \in 1..Len(events), OneTrigger(events, i)
      PROVE  IF i = 1 THEN Addresses(events)' /\ Head(events) /= "GOT_IP"
                      ELSE OneTrigger(events', i - 1) /\ Head(events) = "GOT_IP"
  <2>1. CASE i = 1 BY <1>1, <1>3, <2>1 DEF Addresses, OneTrigger
  <2>2. CASE i /= 1 BY <1>1, <1>3, <2>2 DEF OneTrigger
  <2> QED BY <2>1, <2>2
<1> QED BY <1>1, <1>2, <1>3

\* What a post adds to it.
LEMMA PostedQueue ==
  ASSUME TypeLink, NEW e \in Event, events' = Append(events, e)
  PROVE  /\ events' \in Seq(Event) /\ Len(events') = Len(events) + 1
         /\ Addresses(events) /\ e = "GOT_IP" => Addresses(events)'
         /\ Addresses(events) /\ e /= "GOT_IP" => OneTrigger(events', Len(events'))
         /\ \A i \in 1..Len(events) :
              OneTrigger(events, i) /\ e = "GOT_IP" => OneTrigger(events', i)
  BY DEF TypeLink, Addresses, OneTrigger

LEMMA QueuePreserved ==
  ASSUME IInv, Next, ~RestartStep
  PROVE  TypeLink' /\ (Len(events) <= 3)' /\ QueueFollowsLink'
<1> USE DEF IInv, TypeOK, Event
<1>1. CASE UNCHANGED <<link, events>> /\ ("rpc" \in faults => "rpc" \in faults')
  BY <1>1 DEF TypeLink, QueueFollowsLink, Failed, OneTrigger, Addresses
<1>2. CASE link' = "idle" /\ events' = <<"STA_START">>
  <2>1. OneTrigger(events', 1) /\ Len(events') = 1 /\ events' \in Seq(Event) BY <1>2 DEF OneTrigger
  <2> QED BY <1>2, <2>1 DEF TypeLink, QueueFollowsLink
<1>3. CASE OnEvent
  <2> USE DEF TypeLink
  <2>1. events /= <<>> /\ events' = Tail(events) BY <1>3 DEF OnEvent
  <2>2. faults' = faults BY <1>3 DEF OnEvent, world
  <2>3. CASE OnGotIp
    <3>1. link' = link /\ Head(events) = "GOT_IP" BY <2>3 DEF OnGotIp
    <3>2. CASE Addresses(events) BY <2>1, <2>2, <3>1, <3>2, TailOfQueue DEF QueueFollowsLink, Failed, OneTrigger
    <3>3. CASE \E i \in 1..Len(events) : OneTrigger(events, i)
      <4>1. PICK i \in 1..Len(events) : OneTrigger(events, i) BY <3>3
      <4>2. i /= 1 /\ OneTrigger(events', i - 1) /\ Len(events') = Len(events) - 1
        BY <2>1, <3>1, <4>1, TailOfQueue
      <4>3. ~Addresses(events) /\ \A j \in 1..Len(events) : OneTrigger(events, j) => j = i
        BY <4>1 DEF OneTrigger, Addresses
      <4>4. link \in {"lost", "idle"} /\ Len(events) <= 3 /\ ~Failed
        BY <4>1, <4>3 DEF QueueFollowsLink, Failed, TypeLink
      <4>5. CASE link = "lost"
        <5>1. i = Len(events) /\ Len(events) <= 2 BY <4>3, <4>5 DEF QueueFollowsLink, OneTrigger
        <5> QED BY <2>1, <3>1, <4>2, <4>5, <5>1, TailOfQueue DEF QueueFollowsLink
      <4>6. CASE link = "idle"
        <5>1. i \in {Len(events) - 1, Len(events)}
          BY <4>3, <4>4, <4>6 DEF QueueFollowsLink, OneTrigger
        <5>2. i - 1 \in {Len(events') - 1, Len(events')} /\ Len(events') <= 3
          BY <4>2, <4>4, <5>1
        <5>3. \E k \in {Len(events') - 1, Len(events')} : OneTrigger(events', k) /\ Len(events') <= 3
          BY <4>2, <5>2
        <5>4. events' \in Seq(Event) BY <2>1, TailOfQueue
        <5> QED BY <3>1, <4>6, <5>2, <5>3, <5>4 DEF QueueFollowsLink
      <4> QED BY <4>4, <4>5, <4>6
    <3> QED BY <2>1, <3>2, <3>3 DEF QueueFollowsLink, OneTrigger, Failed
  <2>4. CASE OnStaStart \/ OnDisconnected
    <3>1. Head(events) /= "GOT_IP" /\ Connect BY <2>4 DEF OnStaStart, OnDisconnected
    <3>2. PICK i \in {Len(events) - 1, Len(events)} : OneTrigger(events, i)
      BY <2>1, <3>1, TailOfQueue DEF QueueFollowsLink, Failed
    <3>3. i = 1 /\ Len(events) <= 2
      BY <2>1, <3>1, <3>2, TailOfQueue DEF OneTrigger
    <3>4. Addresses(events)' /\ Len(events') <= 1
      BY <2>1, <3>2, <3>3, TailOfQueue
    <3> QED BY <2>1, <2>2, <3>1, <3>4, TailOfQueue DEF Connect, QueueFollowsLink, Failed
  <2> QED BY <1>3, <2>3, <2>4 DEF OnEvent
<1>4. CASE Network \/ Wifidrop
  <2> USE DEF TypeLink
  <2>1. faults' = faults BY <1>4 DEF Network, Attempt, Associate, Refuse, Lease, LinkLost, LateLease,
                             Lasting, Wifidrop, world
  <2>2. CASE Associate BY <2>1, <2>2 DEF Associate, QueueFollowsLink, Addresses
  <2>3. CASE Lease \/ LateLease
    <3>1. events' = Append(events, "GOT_IP") BY <2>3 DEF Lease, LateLease, Post
    <3>2. CASE Lease BY <2>1, <3>1, <3>2, PostedQueue DEF Lease, QueueFollowsLink
    <3>3. CASE LateLease
      <4>0. link = "lost" BY <3>3 DEF LateLease
      <4>1. OneTrigger(events, Len(events)) /\ Len(events) <= 2 /\ Len(events) \in 1..Len(events)
        BY <4>0 DEF QueueFollowsLink, OneTrigger
      <4>2. OneTrigger(events', Len(events') - 1) /\ Len(events') = Len(events) + 1 
        BY <3>1, <4>1, PostedQueue
      <4> QED BY <3>1, <3>3, <4>1, <4>2, PostedQueue DEF LateLease, QueueFollowsLink
    <3> QED BY <2>3, <3>2, <3>3
  <2>4. CASE Refuse \/ LinkLost \/ Wifidrop
    <3>1. events' = Append(events, "STA_DISCONNECTED")
      BY <2>4 DEF Refuse, LinkLost, Wifidrop, Post
    <3>2. link \in {"connecting", "associated", "up"}
      BY <2>4 DEF Refuse, LinkLost, Wifidrop
    <3>3. link' = IF link = "associated" THEN "lost" ELSE "idle"
      BY <2>4 DEF Refuse, LinkLost, Wifidrop, GoDown
    <3> QED BY <2>1, <3>1, <3>2, <3>3, PostedQueue DEF QueueFollowsLink
  <2> QED BY <1>4, <2>2, <2>3, <2>4 DEF Network, Attempt
<1>5. CASE NvsReady BY <1>5, <1>1 DEF NvsReady, station
<1>6. CASE BootStep \/ StartStep BY <1>6, <1>1 DEF BootStep, StartStep, station, world
<1>7. CASE JoinStep
  <2>1. faults' = faults BY <1>7 DEF JoinStep, world
  <2>2. UNCHANGED <<link, events>> \/ (link' = "idle" /\ events' = <<"STA_START">>)
    BY <1>7 DEF JoinStep, WifiStart, WifiInit, LoadSsid, LoadPass, Gone
  <2> QED BY <1>1, <1>2, <2>1, <2>2
<1>8. CASE BeginSave \/ BeginClear \/ SetAdmin \/ Caster \/ RebootPost \/ SaveWrites \/ ScheduleReboot
  BY <1>8, <1>1 DEF BeginSave, BeginClear, SetAdmin, Caster, RebootPost, SaveWrites, SaveStep,
       SaveSsid, SavePass, ClearCreds, ScheduleReboot, Quiet, station, world
<1> QED BY StepCases, <1>3, <1>4, <1>5, <1>6, <1>7, <1>8

-----------------------------------------------------------------------------
(* The other types                                                             *)

LEMMA TypeBootPreserved ==
  ASSUME IInv, Next, ~RestartStep
  PROVE  TypeBoot'
<1> USE BoundAssumption DEF IInv, TypeOK, TypeBoot, world, budget, boot
<1>1. CASE BootStep \/ StartStep
  <2> USE DEF Started, Skipped, Stages, Services
  <2>1. UNCHANGED <<world, budget>> BY <1>1 DEF BootStep, StartStep
  <2>2. CASE ConsoleStart \/ SinkInit \/ FeedStart \/ BoardPowerInit \/ DisplayInit
    BY <2>1, <2>2 DEF ConsoleStart, SinkInit, FeedStart, BoardPowerInit, DisplayInit
  <2>3. CASE TouchInit \/ BacklightAutoStart \/ StatusScreenStart \/ UsbHostInstall
    BY <2>1, <2>3 DEF TouchInit, BacklightAutoStart, StatusScreenStart, UsbHostInstall
  <2>4. CASE UsbCdcSourceStart \/ NmeaSourceStart \/ NetMdnsStart \/ WifiStaStart
    BY <2>1, <2>4 DEF UsbCdcSourceStart, NmeaSourceStart, NetMdnsStart, WifiStaStart
  <2> QED BY <1>1, <2>2, <2>3, <2>4 DEF BootStep, StartStep, Booting
<1>2. CASE NvsReady \/ JoinStep BY <1>2 DEF NvsReady, JoinStep
<1>3. CASE OnEvent
  BY <1>3 DEF OnEvent, OnStaStart, OnDisconnected, OnGotIp, StartServices, Services
<1>4. CASE Network
  BY <1>4 DEF Network, Attempt, Associate, Refuse, Lease, LinkLost, LateLease, Lasting
<1>5. CASE BeginSave \/ BeginClear \/ SetAdmin \/ RebootPost
  BY <1>5 DEF BeginSave, BeginClear, ClearCreds, SetAdmin, RebootPost, Command, Quiet
<1>6. CASE Wifidrop \/ Caster
  <2>1. up' \in SUBSET Services BY <1>6 DEF Wifidrop, Caster, Services
  <2> QED BY <1>6, <2>1 DEF Wifidrop, Caster, Command
<1>7. CASE SaveWrites \/ ScheduleReboot
  BY <1>7 DEF SaveWrites, SaveStep, SaveSsid, SavePass, ScheduleReboot, Quiet
<1> QED BY StepCases, <1>1, <1>2, <1>3, <1>4, <1>5, <1>6, <1>7

LEMMA TypeWifiPreserved ==
  ASSUME IInv, Next, ~RestartStep
  PROVE  TypeWifi'
<1> USE DEF IInv, TypeOK, TypeWifi, task, station
<1>1. CASE BootStep BY <1>1 DEF BootStep
<1>2. CASE StartStep BY <1>2 DEF StartStep, WifiStaStart
<1>3. CASE NvsReady BY <1>3 DEF NvsReady
<1>4. CASE JoinStep
  <2>1. \A v, f : Copied(v, f) \in {v, Cut} BY DEF Copied
  <2> QED BY <1>4, <2>1 DEF JoinStep, WifiInit, LoadSsid, LoadPass, WifiStart, Gone, TypeStored
<1>5. CASE OnEvent BY <1>5 DEF OnEvent, OnStaStart, OnDisconnected, OnGotIp
<1>6. CASE Network
  BY <1>6 DEF Network, Attempt, Associate, Refuse, Lease, LinkLost, LateLease, Lasting
<1>7. CASE BeginSave \/ BeginClear \/ SetAdmin \/ RebootPost \/ Wifidrop \/ Caster
  BY <1>7 DEF BeginSave, BeginClear, ClearCreds, SetAdmin, RebootPost, Wifidrop, Caster, Quiet
<1>8. CASE SaveWrites \/ ScheduleReboot
  BY <1>8 DEF SaveWrites, SaveStep, SaveSsid, SavePass, ScheduleReboot, Quiet
<1> QED BY StepCases, <1>1, <1>2, <1>3, <1>4, <1>5, <1>6, <1>7, <1>8

LEMMA TypeStoredPreserved ==
  ASSUME IInv, Next, ~RestartStep
  PROVE  TypeStored'
<1> USE DEF IInv, TypeOK, TypeStored, stored, savers
<1>1. CASE BootStep \/ StartStep \/ JoinStep BY <1>1 DEF BootStep, StartStep, JoinStep
<1>2. CASE NvsReady BY <1>2 DEF NvsReady
<1>3. CASE OnEvent BY <1>3 DEF OnEvent
<1>4. CASE Network
  BY <1>4 DEF Network, Attempt, Associate, Refuse, Lease, LinkLost, LateLease, Lasting
<1>5. CASE Wifidrop \/ Caster BY <1>5 DEF Wifidrop, Caster
<1>6. CASE BeginSave BY <1>6 DEF BeginSave
<1>7. CASE BeginClear BY <1>7 DEF BeginClear, ClearCreds, Overlap, Writing
<1>8. CASE SetAdmin \/ RebootPost BY <1>8 DEF SetAdmin, RebootPost
<1>9. CASE SaveWrites
  <2>1. PICK s \in Savers : SaveSsid(s) \/ SavePass(s) BY <1>9 DEF SaveWrites, SaveStep
  <2>2. sval[s] \in Sent BY <2>1 DEF SaveSsid, SavePass, Writing, SavesAreApart
  <2>3. CASE SaveSsid(s) BY <2>2, <2>3, SentIsWords DEF SaveSsid, Overlap, Word
  <2>4. CASE SavePass(s) BY <2>2, <2>4, SentIsWords DEF SavePass, Overlap, Word
  <2> QED BY <2>1, <2>3, <2>4
<1>10. CASE ScheduleReboot BY <1>10 DEF ScheduleReboot
<1> QED BY StepCases, <1>1, <1>2, <1>3, <1>4, <1>5, <1>6, <1>7, <1>8, <1>9, <1>10

-----------------------------------------------------------------------------
(* The saves                                                                   *)

LEMMA SavesPreserved ==
  ASSUME IInv, Next, ~RestartStep
  PROVE  SavesAreApart' /\ StoredWhole'
<1> USE DEF IInv, TypeOK, SavesAreApart, StoredWhole, stored, savers
<1>1. CASE BootStep
  <2>1. pc /= "done"
    BY <1>1 DEF BootStep, Booting, ConsoleStart, SinkInit, FeedStart, BoardPowerInit, DisplayInit,
         TouchInit, BacklightAutoStart, StatusScreenStart, UsbHostInstall, UsbCdcSourceStart,
         NmeaSourceStart, NetMdnsStart
  <2> QED BY <1>1, <2>1 DEF BootStep, task, Writing, Overlap
<1>2. CASE StartStep BY <1>2 DEF StartStep, WifiStaStart, Skipped, Writing, Overlap
<1>3. CASE NvsReady BY <1>3 DEF NvsReady, boot, Writing, Overlap
<1>4. CASE JoinStep
  BY <1>4 DEF JoinStep, WifiInit, LoadSsid, LoadPass, WifiStart, Gone, boot, Writing, Overlap
<1>5. CASE OnEvent BY <1>5 DEF OnEvent, task, Writing, Overlap
<1>6. CASE Network
  BY <1>6 DEF Network, Attempt, Associate, Refuse, Lease, LinkLost, LateLease, Lasting, boot, task,
       Writing, Overlap
<1>7. CASE Wifidrop \/ Caster BY <1>7 DEF Wifidrop, Caster, boot, task, Writing, Overlap
<1>8. CASE BeginSave
  BY <1>8 DEF BeginSave, Quiet, boot, task, TypeStored, Writing, Overlap
<1>9. CASE BeginClear
  <2>1. PICK s \in Savers : spc[s] = "idle" /\ ClearCreds(s) BY <1>9 DEF BeginClear
  <2>2. /\ UNCHANGED <<pc, wpc, nvs, sval>> /\ spc' = [spc EXCEPT ![s] = "saved"]
        /\ \A t \in Savers : (spc'[t] = "pass" <=> spc[t] = "pass") /\ (spc'[t] = "ssid" <=> spc[t] = "ssid")
    BY <2>1 DEF ClearCreds, Quiet, boot, task, TypeStored
  <2>3. CASE nvs
    <3>1. ssid' = None /\ disturbed' = (disturbed \/ Overlap(s)) BY <2>1, <2>3 DEF ClearCreds
    <3>2. \A t \in Savers \ {s} : Writing(t) => disturbed' BY <3>1 DEF Overlap, TypeStored
    <3>3. ~Writing(s)' BY <2>2 DEF Writing, TypeStored
    <3> QED BY <2>2, <2>3, <3>1, <3>2, <3>3 DEF TypeStored, Writing, Overlap
  <2>4. CASE ~nvs
    <3>1. UNCHANGED <<ssid, pass, disturbed>> BY <2>1, <2>4 DEF ClearCreds
    <3> QED BY <2>2, <2>4, <3>1 DEF TypeStored, Writing, Overlap
  <2> QED BY <2>3, <2>4
<1>10. CASE SetAdmin \/ RebootPost
  BY <1>10 DEF SetAdmin, RebootPost, Quiet, boot, task, Writing, Overlap
<1>11. CASE SaveWrites
  <2>1. PICK s \in Savers : SaveSsid(s) \/ SavePass(s) BY <1>11 DEF SaveWrites, SaveStep
  <2>2. UNCHANGED <<pc, wpc, nvs, sval>> /\ nvs
    BY <2>1 DEF SaveSsid, SavePass, Quiet, boot, task, Writing
  <2>3. CASE SaveSsid(s) BY <2>2, <2>3 DEF SaveSsid, TypeStored, Writing, Overlap
  <2>4. CASE SavePass(s)
    <3>1. sval[s] \in Sent BY <2>4 DEF SavePass, Writing
    <3>2. ~disturbed' => [ssid |-> ssid', pass |-> pass'] = sval[s]
      BY <2>4, <3>1, SentIsWords DEF SavePass, TypeStored, Writing
    <3>3. SavesAreApart' BY <2>2, <2>4 DEF SavePass, TypeStored, Writing, Overlap
    <3> QED BY <3>1, <3>2, <3>3
  <2> QED BY <2>1, <2>3, <2>4
<1>12. CASE ScheduleReboot
  BY <1>12 DEF ScheduleReboot, Quiet, boot, task, TypeStored, Writing, Overlap
<1> QED
  BY StepCases, <1>1, <1>2, <1>3, <1>4, <1>5, <1>6, <1>7, <1>8, <1>9, <1>10, <1>11, <1>12

-----------------------------------------------------------------------------
(* The theorems                                                                *)

\* The conjunction is kept by every step.
LEMMA StepKeeps == IInv /\ [Next]_vars => IInv'
<1> SUFFICES ASSUME IInv, [Next]_vars PROVE IInv' OBVIOUS
<1>1. CASE Next /\ ~RestartStep
  BY <1>1, QueuePreserved, TypeBootPreserved, TypeWifiPreserved, TypeStoredPreserved, SavesPreserved
     DEF IInv, TypeOK
<1>2. CASE RestartStep BY <1>2, RestartKeeps
<1>3. CASE UNCHANGED vars
  <2> USE <1>3 DEF IInv, TypeOK, vars, world, budget, boot, task, station, stored, savers
  <2>1. TypeBoot' BY DEF TypeBoot
  <2>2. TypeWifi' BY DEF TypeWifi
  <2>3. TypeLink' /\ (Len(events) <= 3)' BY DEF TypeLink
  <2>4. TypeStored' BY DEF TypeStored
  <2>5. QueueFollowsLink' BY DEF QueueFollowsLink, Failed, Addresses, OneTrigger
  <2>6. SavesAreApart' BY DEF SavesAreApart, Writing, Overlap
  <2>7. StoredWhole' BY DEF StoredWhole, Writing
  <2> QED BY <2>1, <2>2, <2>3, <2>4, <2>5, <2>6, <2>7
<1> QED BY <1>1, <1>2, <1>3

LEMMA Inductive == Spec => []IInv
<1> QED BY InitIInv, StepKeeps, PTL DEF Spec

\* The types, and that the event queue never holds more than three events.
THEOREM TypeCorrect == Spec => []TypeOK
<1>1. IInv => TypeOK BY DEF IInv
<1> QED BY <1>1, Inductive, PTL

\* The station is never left idle without an event that makes it try again,
\* whatever the network does, unless a call to the C6 was lost.
THEOREM AlwaysRetries == Spec => []NeverStranded
<1>1. IInv => NeverStranded
  <2> SUFFICES ASSUME IInv, "rpc" \notin faults, events = <<>>, link \in {"idle", "lost"}
               PROVE FALSE
    BY DEF NeverStranded
  <2> QED BY DEF IInv, QueueFollowsLink, Failed, OneTrigger
<1> QED BY <1>1, Inductive, PTL

\* What is stored is of one save, through every interleaving of two savers with
\* restarts and power cuts in between, unless the last save was disturbed.
THEOREM SavesAreWhole == Spec => []StoredWhole
<1>1. IInv => StoredWhole BY DEF IInv
<1> QED BY <1>1, Inductive, PTL
=============================================================================
