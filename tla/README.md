# A TLA+ model of tab5-caster

tab5-caster is the firmware of an RTK base box: an M5Stack Tab5 (ESP32-P4, FreeRTOS) reads RTCM3
from a Septentrio mosaic receiver over USB, serves it to rovers through a local NTRIP caster, and
pushes it to a cloud caster when there is a network. This directory holds TLA+ modules of its core
logic, TLC configurations that check them on small instances, and TLAPS proofs of what holds for
every value of the constants. All paths below are under `src/main/` unless they say otherwise.

## 1. The system

| Component | State | Operations | Talks to |
|---|---|---|---|
| USB source (`usb_cdc_source.c`) | `s_disconnected`, `s_cdc`, `s_provisioned`, `s_status`, the sweep's locals | `cdc_task` (open, provision, dwell, latch, hop), `cdc_event_cb`, `cdc_data_cb` | the CDC driver (callbacks), `rtcm_sink`, `rtcm_monitor`, `mosaic_config` |
| command channel (same file) | `s_cmd_rx`, `s_cmd_capture` | `usb_cdc_send_command`, the capture in `cdc_data_cb` | called by `cdc_task`, the console and the web server, each on its own task |
| provisioning (`mosaic_config.c`) | none | `mosaic_provision`, `provision_nmea` | called by `cdc_task`; uses the command channel |
| NMEA source (`nmea_source.c`) | `s_disconnected`, `s_st`, the line buffer | `nmea_task`, `nmea_event_cb`, `nmea_data_cb` and the parser | the same driver and device; panel, console |
| sink and tees (`rtcm_sink.c`) | three stream buffers | push / read of each, `rtcm_upstream_reset` | filled by the USB driver task and `rtcm_feed_task`; read by the feed task, the caster, `upstream.c` |
| monitor (`rtcm_monitor.c`) | reassembly buffer, raw tap, last frame, counters | `rtcm_monitor_feed`, getters | fed by `rtcm_feed_task`; read by the sweep, the backlight, the pages |
| feed task, boot (`app_main.c`) | – | `rtcm_feed_task`, boot order | everything |
| upstream client (`upstream.c`) | NVS keys, `s_st`, `s_use_v2`, `s_force_drop`, backoff | `upstream_task`, `upstream_set_creds` / `forget` / `drop` / `status` | casters; console and web server call it |
| backlight (`backlight.c`) | `s_cur`, `s_ceiling`, `s_healthy`, `s_was_streaming`, `s_manual`, `s_asleep`, `s_presleep` | `tick` at 1 Hz, `backlight_auto_start`, `backlight_manual` | reads the monitor and `touch.c`; its brightness can brown out the receiver |
| touch (`touch.c`) | `s_present`, `s_last_us`, poll history | `touch_init`, `poll_task` | read by the backlight |
| WiFi (`wifi_sta.c`) | NVS keys, `s_connected`, `s_caster_started` | `wifi_task`, `on_event`, `wifi_save_creds` … | starts caster, upstream, web server |
| web server (`web_server.c`), console (`debug_console.c`) | admin credentials | handlers, commands | call the above from tasks of their own |
| board power, display, status screen, mDNS, panel drivers | – | bring-up sequences, rendering | – |

What is hard here is the concurrency and what fails on the way: driver callbacks against `cdc_task`,
two tasks competing for one interface, a semaphore that may hold an old token, one reply buffer for
three callers, credentials written and read key by key with restarts in between, a flag that a
blocking handshake overwrites, a timer callback against the console, a 64-bit stamp on a 32-bit
processor, three bounded buffers with consumers that come and go, a bring-up in which half of the
parts may be broken. `PROJECT.json` lists each hazard at its line with the properties that address it.

What makes each component correct, in a sentence: the *source* latches the interface that streams
and gives it up only for an unplug it always notices; a *command* gets its own reply and returns; the
*NMEA parser* parses only whole sentences; the *tees* deliver in order, nothing twice, and hold nobody
up; the *monitor* counts the frames of the stream however it is cut; the *upstream client* ends in a
stream when its credentials, network and caster allow it, and never misreports; the *backlight* learns
from a brownout, holds the floor when the stream is stale and settles; *touch* keeps a panel in use
lit; the *box* brings up its core whatever else is broken and joins the network it was given last.

## 2. The modules

| Module | Models | Checked by | Proofs |
|---|---|---|---|
| `UsbSource` | USB source, provisioning's outcomes, the NMEA task, driver and cable | `MCUsbSource` | `UsbSourceProofs` |
| `CmdChannel` | `usb_cdc_send_command` and its capture, several callers | `MCCmdChannel` | `CmdChannelProofs` |
| `NmeaParser` | line buffer, sentence parser, satellite table, width of the bars | `MCNmeaParser` | `NmeaParserProofs` |
| `RtcmSink` | the three buffers, feed task, caster, `stream_loop` | `MCRtcmSink` | `RtcmSinkProofs` |
| `LossyFifo` | abstract: what a consumer of the bytes is promised | refined by `RtcmSink` three times | in `RtcmSinkProofs` |
| `RtcmMonitor` | `rtcm_monitor_feed` | `MCRtcmMonitor` | `RtcmMonitorProofs` |
| `Upstream` | upstream client and its callers, NVS, casters | `MCUpstream` | `UpstreamProofs` |
| `Backlight` | tick, `disp`, supply, receiver, idle timeout | `MCBacklight` | `PanelProofs` |
| `Touch` | `touch_init`, `poll_task`, the idle test of the tick | `MCTouch` | `PanelProofs` |
| `Box` | boot order and faults, WiFi, credentials, admin page and console | `MCBox` | `BoxProofs` |

Operators named `X_Something` beside an operator `X`, commented as mutants, are `X` with a plausible
bug; `PROJECT.json` says which property each of them breaks.

### UsbSource

`pc` walks through `cdc_task` (246-359), `npc` through `nmea_task` (nmea_source.c:167-200), `drv`
through the callback the driver task is running. `claim` says who has each interface open, `gone`
which handles still wait for their disconnect event. Each write that another task can see is a step
of its own, in the code's order; `s_cdc = NULL` and `s_provisioned = false` (166-167) are one step,
because nothing reads both. A handle is identified by its interface and owner: a new handle that
happens to get the address of an old one is not modelled. `plugs` is bounded by `MaxPlugs`, the sink's
frames by `MaxPend`; a full sink drops, as the code does. Dwells are counted in polls.

Timing enters in one place, `due`: a receiver that is streaming when a dwell begins delivers a frame
within the short dwell (it streams at 1 Hz, the dwell is 6 s), and one that has been configured
starts its output within the long dwell (15 s, the reason the comment at 312-315 gives). `HopClear`
is disabled while such a frame is due. Nothing is assumed about a receiver that is not the one the
dwell watches.

The driver is external; its contract is in the module's header. Provisioning is modelled by outcome:
a TX error, a rejection or silence (`NotProvisioned`), bytes without an ack (`AssumedApplied`) and an
ack (`Acked`). What happens inside a command is `CmdChannel`.

### CmdChannel

`cpc[c]` walks through `usb_cdc_send_command` (203-244) for each caller, `dpc` through `cdc_data_cb`
(193-201): the test of the handle, the test and creation of the buffer, the reset, the flag, the
transmission, each receive and the end are steps of their own, since the callers share everything and
take no lock. Two first calls may both create a buffer; the one that loses is leaked, as in the code.
`reading` is the buffer a receive was called with, `closed` says that a caller's copy of `s_cdc` was
closed meanwhile (its use may fail or restart the box). FreeRTOS's stream buffer is external; the
contract, with the assertion that one task at a time waits, is in the header. A chunk of bytes is
abstracted to the call that was waiting for it; how many chunks a reply has and whether the port ever
pauses is free. The acknowledgement that `mosaic_provision` looks for in a reply is a matter of
`UsbSource`'s outcomes.

### NmeaParser

The stream is cut into units, a sentence's head, a satellite's four fields, a position, a prompt; a
callback of any length is that many steps. `line` is `s_line` up to `s_linepos`. `Assemble` is the
append with its overflow (a line that does not fit is thrown away, and its rest collected as a line of
its own), `EndOfLine` parses, as `process_line` does, by what the buffer *begins* with, so that
fragments of two sentences in one buffer are parsed as the code parses them (`garbled`). Opening in
the middle of a sentence and losing the interface anywhere are `Open` and `Disconnect`; neither clears
the buffer, as in the code. `Upsert` is `sat_upsert` with the full table. The table is never aged, in
the code nor here. The counters and `last_line` are left out.

### RtcmSink and LossyFifo

Bytes are numbered in order of arrival. Each FreeRTOS stream buffer call is one step: a send queues
the prefix that fits, a receive takes the oldest bytes, a reset empties. The interior of a stream
buffer is not in the repository. `monitored`, `cast` and `sent` record what each consumer got, `mark`
and `first` where a connection started. `LossyFifo` is the promise of `rtcm_sink.h`: bytes that
arrived, in order, none twice, any of them missing; the views of the monitor, the caster and the
upstream client are each shown to implement it (`ConsumersAreFifos`), by TLC and by proof.

### RtcmMonitor

Frames are in small what RTCM3 has in large: one preamble value out of three, a length byte whose
low bits hold the payload length (0 to 2), the payload, a one-byte checksum computed from all before
it. A frame without payload exists, as in RTCM3; its type field is then read from the checksum, as
the code does. `s_lock` makes a call atomic, so an action is a whole `rtcm_monitor_feed`; the getters
copy under the lock and change nothing. `last_frame_us` is counted in bytes fed. The branch of an
oversize length (114) cannot be taken with a 10-bit length and is left out. The reference (`Starts`)
finds the frames of the whole stream by their positions, independently of the scan loop.

### Upstream

Credentials are versions: the n-th save writes version n of each key, key by key and in the code's
order (host; port and mount as one; pass), and `creds_load` reads them in the same way, so torn loads
and mixed saves happen. Host and password are taken to have fewer than 64 characters and the mount
fewer than 32: `upstreamset` takes longer ones, `creds_load` then finds no credentials, or with a
longer password an empty one (104-107), until the next save. The client follows `upstream_task`
(290-358) with the two handshakes as outcomes. A failed cycle writes its status and doubles the backoff
in one step; the code doubles after the delay, and nothing reads the value in between. So is leaving
`stream_loop` and clearing the flag (350-353): in between, for the time of a `close`, the status still
says connected, and `StatusHonest` does not speak of that. A v1 caster is assumed to answer a POST with
something that is not HTTP, as the comment at 219-220 has it. `fails` and `dropLive` are history.

### Backlight

Time is counted in ticks; `age` is the age of the last valid frame in ticks. A step of the tick ends
at each write of `s_cur` or of the panel, since the console task can run in between; `s_cur = -1`
followed by `apply` is one step. The guard of `Second` says that a receiver that streams sent a frame
within the last two ticks (1 Hz); a receiver that is down need not, and its last frame stays fresh
for three seconds, during which the tick may climb. The supply is what backlight.h describes: above
its level the receiver may drop at any time, at or below it the receiver may come back. A touch
matters only through the idle timeout, so `FingerMoves` switches `idle` freely; where `idle` comes
from is `Touch`. `s_presleep` is cleared on waking in the model; the code does not read it while awake.

### Touch

Time is counted in polls. `hist` is the byte of `poll_task` as the set of its bits that are set:
`Shifted` moves every bit up by one and loses the highest, `Recent` is the population count under the
mask of the window. `s_last_us` is a plain `int64_t` on a 32-bit processor with two cores:
the store (80) and the load (86) are two accesses each, in either order, interleaved with the other
side's; a half holds `0..Word-1`, for 2^32 us or 71 minutes. `touch_init` seeds the stamp with the
time of the boot, or finds no controller, and then nothing is polled or blanked. `dark` is the tick's
verdict; what the tick then does with `s_asleep` and the panel is in `Backlight`.

Timing enters in two places. The tick, of the higher priority, is over before the second sample after
its start (guard of `Poll`). And ticks are `TickPolls` to `TickMax` polls apart (guard of `TickStart`):
the period is a second, ten polls; a callback of the timer task that is late may bring two ticks closer
together, but not closer than two polls, and is never late by an hour. Ticks may also end for good, as
they do after `disp`. The definitions every module has are called `TInit`, `TNext`, `TSpec`, `tvars` and
`TTypeOK` here, so that `PanelProofs` can extend `Backlight` and `Touch`.

### Box

`pc` is the call `app_main` makes next (77-169), `wpc` the one of `wifi_task` (163-195), `up` what
runs. A component's start is one step with its outcomes: returned error, abort, or a call that never
returns. `faults` says what is broken, for the whole behaviour; `Fault` lists what can be. An
`ESP_ERROR_CHECK` that fails is `Restart`, which clears everything but the NVS, as `esp_restart` and
a power cut do. `on_event` handles one event of the queue per step. `wifi_save_creds` is one step per
key, from the console and from the web server, with the deferred reboot as a task of its own
(`RebootTask`). The admin gate and the commands that change something are actions.

A password is named as its network, or blank, and what was cut short is `Cut`. `Size` says how many
characters a network's name and password have, `FormSize` how many URL-encoded, and four places on
the way from the operator to the station test it. The form's arrays (`ssid[33]`, `pass[65]`) take what
fits them still encoded, and `form_field`'s result is not looked at, so a longer value is saved cut
(`Form`; that `httpd_query_key_value` leaves as much as fits is ESP-IDF's). The console takes any length
up to its line. `creds_load` reads into 64 characters, NUL included; a longer key is an error that
ends `wifi_task` as a missing one does (`Fits` in `LoadSsid`, `LoadPass`). `strlcpy` into `wifi_config`
cuts a name to 31 characters (`Copied` in `WifiStart`), so from there on `conf` is what the station joins
with. No network is named as the rest of a cut name. Admin credentials that are too long for
`require_admin`'s arrays are stored and never load: `Webadmin` leaves `admin` true or false.

The WiFi library, the C6 and the network are external; the header has the contract `on_event` relies
on (each attempt and each loss ends in an event, in order; an address may still be announced behind
the loss of its link). With the fault "rpc" a call to the C6 may be lost: `esp_wifi_connect`'s result
is ignored, so nothing tries again, and a late address can leave `s_connected` set for ever.
`NeverStranded` and `StatusCatchesUp` are therefore stated for a C6 that answers.

## 3. The runs

Twelve runs; each finishes within three minutes on two workers.

| Run | Distinct states | Shows |
|---|---|---|
| `usb_sweep` | 146 000 | no lost wakeup, a live stream is kept, an unplug is noticed, the first receiver that acks is latched |
| `cmd_channel` | 110 000 | nothing captured when nobody waits, an undisturbed reply is its own, every call returns, no overrun |
| `nmea` | 1 130 000 | only whole sentences are parsed, the table and the bars follow the sky |
| `upstream` | 311 000 | backoff schedule, honest status, settled credentials end in a stream, drops and forgets are honoured |
| `backlight` | 791 000 | ceiling, floor, `s_cur` in sync, learning below the failed level, convergence, goal reached |
| `sink` | 208 000 | order for all three consumers, freshness, no stalling |
| `monitor` | 176 000 | chunk independence, nothing held back but an unfinished frame, latest bytes and frame, table |
| `touch` | 2 850 000 | the stamp is the latest real touch; a panel in use is dark for one tick at most, and not in the first 71 minutes |
| `box` | 679 000 | the core comes up, a lost link is retried, the status catches up, stored credentials are whole and joined |
| `usb_replug_provision`, `usb_itf4_wedge`, `upstream_reprobe` | counterexamples | what a comment of the code says and the code does not do (below) |

Type invariants: those of `CmdChannel`, `NmeaParser`, `Backlight` and `Box` also bound an array, a
level or a queue and are checked by their runs as well as proved; those of `UsbSource`, `Upstream` and
`RtcmSink` are proved; those of `RtcmMonitor` and `Touch` are part of their
inductive invariants.

Bounds and why they are enough:
- *UsbSource*: two plug-ins are what it takes for a left-over token or flag to meet the next receiver;
  three interfaces are all there are; one frame in the sink suffices for a late frame; a short dwell
  of one poll and a long one of two keep both kinds apart. RTCM3 on interface 2, NMEA on 4, commands
  answered on 2 and 4 is the receiver of the bench.
- *CmdChannel*: two callers give every race of the shared flag and buffer; a capture buffer of two
  chunks runs full and a reply of two ends a call, under a port that never pauses.
- *NmeaParser*: three satellites for a table of two fill it; a sentence of up to four units does not
  fit the line of three; a row of 18 pixels is the least that `RoomAssumption` allows for two bars.
- *RtcmSink*: buffers of three bytes, chunks and reads of two, six bytes: each buffer overflows, a
  push is cut, a read leaves a rest, a link breaks in the middle of a chunk and comes back.
- *RtcmMonitor*: frames of three to five bytes, chunks of one to four, ten bytes: two frames in one
  chunk or one in several, and a false preamble before, between or inside them; a payload of two bytes
  is the shortest that makes another frame wait for the one around it, and ten bytes hold three frames
  of two types, for a table of one.
  `PARSE_BUF_LEN = 8` is the least that satisfies `RoomAssumption`, which 2048 >= 1028 + 512 does in
  the code.
- *Upstream*: two callers and two saves give every race of two saves, of a save with a load and of a
  save with the handshake of the version before. `FailsCap = 5` is where the backoff reaches 30.
- *Backlight*: a supply at 25 lies between the first two levels of the climb, so a brownout can strike
  at 30 and above: at the first climb or after several, anywhere in between. `HealthyCap = 22` stands
  for 100000; 21 seconds is the last climb. One unplug, one `disp` level (150, clamped to 100).
- *Touch*: the window and the byte of the code; an idle time of two polls and ticks two or three polls
  apart, the most that a half of five admits (`TickMax + BL_IDLE_OFF <= Word`); it runs over at polls
  five and ten of eleven, so that ticks lie before, across, between and after two carries.
- *Box*: three networks, two of them perhaps out of range: one with the longest name and password that
  get through (31 and 63 characters), one with both a character longer, and one whose name only the
  form cuts; two commands, so that one save overlaps another or
  follows it; one power cut and one lost link at any point; nine sets of faults, where faults share a
  set only if they cannot mask each other.

The runs of `RtcmMonitor`, `Touch` and `Box` have `CHECK_DEADLOCK FALSE`: the first two stop at their
bound of bytes or time, and a box whose C6 or USB host hangs stops when the commands are used up.

Fairness is weak and per task, which a FreeRTOS scheduler with these priorities gives: the driver
task, `cdc_task`, `nmea_task`, the feed task, `upstream_task`, the timer, `app_main`, `wifi_task`, the
event task, the reboot task, and a caller in the middle of a call or a save. An attempt to join ends.
A receiver told to stream does (`StartStream`, `DataCb`, `Frame`), and one that the supply sustains
comes back (`Recover`). Never assumed: that anybody plugs, unplugs, calls or touches anything, that
the network recovers, that the caster reads.

### What the code does differently from what it says

| The text | The behaviour | Seen in |
|---|---|---|
| usb_cdc_source.c:153 "reset on disconnect so a freshly-plugged receiver gets provisioned again" | an unplug during provisioning is overwritten at :301 | run `usb_replug_provision` |
| :48 "we SWEEP the three comm-interface indices until one actually streams bytes" | the sweep stops for good at interface 4 when `nmea_task` holds it | run `usb_itf4_wedge` |
| upstream.c:38 "Reset to true whenever creds change, so pointing at a new (v2) caster re-probes" | the old caster's answer switches v2 off again | run `upstream_reprobe` |
| usb_cdc_source.c:324 "handle already closed by cdc_event_cb" | the token can be older than the handle; a live handle is leaked | `UsbSource!DisconnectedMeansClosed` |
| rtcm_sink.h:26 "a FreeRTOS StreamBuffer allows only one" reader | two commands wait on `s_cmd_rx` at once, an assertion restarts the box | `CmdChannel!OneReader` |
| upstream.h:33 "No effect if not connected" | the flag stays and kills the next connection | `Upstream!DropNeedsConnection` |
| backlight.h:26 "set brightness now and stop the auto controller for the rest of the session" | `backlight_auto_start`, or a tick in flight, writes its level afterwards | `Backlight!ManualSticks` |
| backlight.c:23 "blank the panel after this long untouched" | a stamp read half old and half new blanks a panel in use for a second | `Touch!BlankedMeansUntouched` |
| rtcm_sink.c:102 "so a fresh connection starts on a current RTCM frame boundary" | the reset falls between two chunks of a frame | `RtcmSink!StartsOnFrame` |
| app_main.c:110 "Non-fatal if it fails" (board power) | an expander that does not answer aborts, again and again | `Box`, action `BoardPowerAborts` |
| wifi_sta.c:4 "(persists + reboots); the box then joins STA on every boot" | a name of 32 characters is cut, a password of 64 never loaded | `Box!JoinsWhateverIsSet` |
| web_server.c:526 "(unchanged shown blank)" | a blank password field erases the stored password | `Box`, action `WifiPost` |
| app_main.c:81 the console "survives even if USB host bring-up hangs" | a command that saves before `nvs_flash_init` aborts the box | `Box`, actions `OpenCreds`, `Webadmin` |
| debug_console.c:157 bytes are "split" between caster and monitor | the caster has a tee of its own | `ConsumersAreFifos` holds |
| status_screen.c:180 "(no receiver)" | `device_attached` is never cleared | reading the code |

A name after `!` is a definition kept at the end of its module: listed as an INVARIANT or PROPERTY in
the module's configuration, TLC refutes it. `LatchedUntilUnplug` holds in spite of the stale token: a
token is always consumed by a dwell's poll before a latch. `FreshLink` holds in spite of the frame
boundary. `SavedIsJoined` is what is left of `JoinsWhateverIsSet`: it holds up to the last length that fits
every array. `StoredWhole` exempts a save that was cut off or written into by another: nothing in the
code would notice the mixture it leaves, and the property says that nothing else makes one.
`CoreComesUp` excludes the faults "expander", "usb_hang" and "usb_fail" and fails with any
of them.

## 4. The proofs

Each proof module extends its component (`PanelProofs` two of them); the constants are arbitrary within the named assumptions of
the component, which TLC evaluates in the component's runs. Apart from facts about sequences, finite
sets and division each theorem rests on an inductive invariant with one step per action, which TLC
has checked before. Every safety invariant and action property of the passing runs is
a theorem.

Two models contain loops, the scan of the monitor and the fields of a GSV sentence, and are recursive
functions there. A recursive function is only known to the provers once it is shown to exist. The
lemmas `LeastNumber` (a set of numbers has a least one, from the library's well-founded minimum),
`StepByStep` and `Repetition` (a step that is possible from every value can be repeated N times) take
sets in place of predicates, so that they need no operator as a parameter: with them the functions
satisfy their equations, and what they compute is proved position by position, for inputs of any length.

- `UsbSourceProofs`. `CdcWakeup` alone is not inductive: after an unplug the handle is still open and
  nothing has been given yet. `EventsAccountForHandles` says that every handle open on a receiver that
  left still has its event to come, and that no event is pending on an attached one; with it each step
  of the callback hands the obligation on until the semaphore is given. `TokenIsFresh` (past the poll,
  a token means that the handle in use is gone) is inductive together with it, and gives
  `LatchedUntilUnplug` as an action property.
- `CmdChannelProofs`. `CaptureEnds` is `CaptureQuiet` for any number of callers and any sizes: behind
  a set flag there is always some call that will still clear it, although not always the one that
  set it (`CaptureInv`). `CallTypes` is `TypeOK`, whose bound on the buffers needs a count (`CallInv`):
  the buffers created and the callers about to create one are never more than the callers, since a
  caller creates one only if it found none, and past that point there always is one to work on.
  `RepliesAreRecent` counts what is old (`ReplyInv`): from the reset of an undisturbed call on, the old
  chunks it has received, those in the buffer and the one in the callback's hands add up to one at
  most. Both assume that `NoCaller`, the owner of unsolicited bytes, is not a caller.
- `NmeaParserProofs`. `ParsesSentences`: `LineIsSentence` is inductive together with the types of the
  line (`Lines`); one lemma (`ByteKeeps`) covers every unit, behind an accepted line or behind anything
  else, so an overlong or interrupted sentence never leaves a parsable rest. `TypeCorrect` and
  `TableIsCurrent`: one report leaves the entries where they are and shows what it says, or finds the
  table full (`UpsertKeeps`), and a report of another satellite does not disturb that (`StaysCurrent`);
  so it holds behind the last field, for any sentence (`GsvKeeps`, `GsvCurrent`). For `AlwaysFits`
  (`BarsFit`), the narrowest bars of a full table fit by `RoomAssumption`, and the quotient never
  exceeds what is left of the row.
- `RtcmSinkProofs`. What is further on its way is older: the invariant orders the sink, the feed
  task's chunk, both tees, the upstream's chunk and what was delivered (`Stages`), each of them rising
  in itself. From it every step of the box is a step or a stutter of `LossyFifo` for each consumer
  (`Fifos`); `Marked` (nothing queued behind a reset is older than it) gives `NothingStale`.
- `RtcmMonitorProofs`. The frames of the whole stream are characterised by `StartsAre`: a good frame
  that no earlier one covers. The scan is local: whether a frame is there depends on its own bytes
  (`FrameIsLocal`), and on what comes before only through the position where it starts. So at a
  `Boundary`, a position that no frame of the stream reaches over, the scan of the buffer finds what
  the reference finds in the stream (`ScanFinds`), and it stops at a boundary again; nothing before that
  can change when more bytes come (`Settled`). The invariant `IInv` says that the consumed part ends at
  a boundary with everything before it judged, and that the counters, the snapshot and the table are
  those of that part. It gives `CountsTheStream` (`ChunksDoNotMatter`), `DelaysNothing`
  (`HoldsOnlyUnfinished`), `ShowsTheLatest` (`LastFrameIsLatest`) and `TableAddsUp` (`TypesAddUp`), for
  every stream and every cutting. That the overflow branch is dead is part of it: less than a frame is
  held, and `RoomAssumption` leaves room for a chunk. The attempt to prove `LastFrameIsLatest` corrected
  it: with payloads of one byte, as the run had them, a frame's time is never late, but one that lies in the
  payload of a would-be frame waits until that one has failed; the bound now has the payload in it, and
  the run has payloads of two. `TapIsLatest`: the last n of a concatenation are the last n of its second
  part, preceded by the last of the first part.
- `UpstreamProofs`. `BackoffSchedule` is inductive with `TypeOK`: doubling and counting move together,
  six cases of `fails`. `StatusHonest` needs that the client has been provisioned at every step from
  the loaded keys to the stream (`LoggingIn`).
- `PanelProofs`, about `Backlight`. `WithinCeiling`, `InSync` and `FloorWhenStale` speak of the idle points of the
  tick; `MidTick` and `Places` say what holds between its writes (a nap is recorded exactly by
  `s_presleep`, an awake panel has `s_cur > 0`, a write while the stream is stale is of the floor).
  All of it is stated for `~s_manual`; `Places` says that `backlight_manual` has suspended the
  controller before it writes anything, so nothing has to be proved about that race.
  `LearnsBelow` is `LearnsFromFailure` for every supply: a brownout strikes at most one climb below
  `s_cur` (`AheadOfPanel`), and from then on each climb uses up one of the ticks that can still find
  the last frame fresh, so that what is shown and the climbs still to come stay within two steps of
  the level that failed (`NearDrop`), while the cut is three. It needs `CapAssumption`: 100000, where
  `s_healthy` stops, is not a multiple of three; at such a cap every tick would climb.
- `PanelProofs`, about `Touch`. `StampsTouches` is `ActivityIsTouch`: bit i of the byte is the sample of
  i polls ago (`BitsArePolls`), so the bits under the mask are as many as the valid samples of the window
  (`BitsCount`, a bijection), and the stamp is the last poll that saw enough of them, half by half while
  it is being stored (`StampIsTouch`). `NeverDarkTwice` is `DarkOnce`: what a tick reads are halves of
  stamps no older than the one it found (`SeenAreStamps`), and put together they lie before that one only
  if the upper half carries in between (`TornIsCarry`). Such a tick leaves behind a carry
  whose stamp the next tick finds stored (`WrongAtCarry`), and the carry after that is too far away.
  The attempt to prove `DarkOnce` corrected the model. Until then nothing bounded the time between two
  ticks from above, and a tick could follow a poll after the last. With a late second tick, or with ticks
  one poll apart, two ticks in a row can be wrong; the run had not shown it because its time ended before the second
  carry and its ticks were two polls apart. `WindowAssumption` now says how far apart ticks are, and the
  run goes past the second carry.
- `BoxProofs`. `AlwaysRetries`: exactly while the station has no link its queue holds the one event
  that makes it connect again, behind at most one stale address (`QueueFollowsLink`).
  `SavesAreWhole`: an undisturbed save between its two writes is the only one, and its first write is
  what is stored (`SavesAreApart`).

Only model-checked: all liveness (`UnplugNoticed`, `FirstAttachLatches`, `CallsReturn`,
`SettledStreams`, `DropHonoured`, `ForgottenIdles`, `Converges`, `ReachesGoal`, `NothingStallsFeed`,
`CoreComesUp`, `StatusCatchesUp`, `SavedIsJoined`), which is beyond TLAPS.

## 5. Not modelled

JSON and HTML of the web server, the decoding of a form but for the lengths, and the comparison of the
admin password; LVGL rendering and the layout of the GNSS view except its row of bars; register values
and delays of the display, touch and power bring-up; the vendored panel driver and its tables; the Zig
caster, which is not in the repository; `provision_nmea`, the topology text and `device_attached` of
the USB source, which change nothing the sweep sees. Allocation failures (a task or buffer that cannot
be created) are left out except where `Box` has a component's start fail. Other NVS errors than a
missing key, one too long for its array, an old or full partition and an NVS not yet initialised are
left out. The interior of FreeRTOS, ESP-IDF and the USB driver is external: in particular
`rtcm_upstream_reset` against a concurrent push is two atomic calls here.

## 6. The plan

Done: all modules of section 2 and the proofs of section 4. What could be added, in this order:

1. A composition of `UsbSource` and `Backlight`: the brownout loop closed through the sweep and its
   provisioning, with the convergence of the whole as its property.
2. `Backlight` with `Touch`'s stamp in place of `FingerMoves`, to carry `DarkOnce` over to the panel.
