------------------------------- MODULE Upstream -------------------------------
(***************************************************************************)
(* The cloud-upstream client (main/upstream.c) with the callers of its     *)
(* interface: the console commands upstreamset / upstreamreset /           *)
(* upstreamdrop (main/debug_console.c) and POST /admin/upstream            *)
(* (main/web_server.c), which run on tasks of their own.                   *)
(*                                                                         *)
(* Credentials are versions: the n-th upstream_set_creds writes version n  *)
(* of each key, 0 is a missing key.  NVS is external: a key is written or  *)
(* read atomically and the write is visible to every reader at once.  The  *)
(* casters are external too: the one of version n accepts a login iff all  *)
(* the credentials it is given are of version n, speaks NTRIP v2 iff       *)
(* n \in V2Casters and v1 iff n \in V1Casters.                             *)
(***************************************************************************)
EXTENDS Integers, Sequences

CONSTANTS
  Callers,      \* the tasks that call upstream_set_creds and its siblings
  V1Casters,    \* versions whose caster accepts the v1 SOURCE login
  V2Casters,    \* versions whose caster speaks NTRIP v2
  MaxSets,      \* bound on the upstream_set_creds calls
  FailsCap      \* bound of the history counter `fails`

ASSUME SetsAssumption == MaxSets \in Nat /\ FailsCap \in Nat /\ FailsCap >= 5

\* The order the keys are written and read in; "mount" stands for port and mount,
\* the keys between the one that decides on idling and the one that may miss.
Keys == <<"host", "mount", "pass">>
KeyNames == {"host", "mount", "pass"}
Version == 0..MaxSets
BACKOFF_MAX_S == 30

VARIABLES
  netOk,                     \* the way to the casters works
  nvs,                       \* the stored credentials: key -> version
  sets,                      \* upstream_set_creds calls so far
  step, ver,                 \* per caller: next key to write, version written
  s_use_v2, s_force_drop,
  connected, provisioned,    \* s_st
  pc, lk, creds, backoff,    \* upstream_task's locals
  fails,                     \* history: failed cycles since the last login
  dropLive                   \* history: upstream_drop was called on this link

stored == <<nvs, sets>>
callers == <<step, ver>>
flags == <<s_use_v2, s_force_drop>>
st == <<connected, provisioned>>
task == <<pc, lk, creds, backoff, fails>>
vars == <<netOk, stored, callers, flags, st, task, dropLive>>

NoCreds == [k \in KeyNames |-> 0]

Init ==
  /\ netOk = TRUE /\ nvs = NoCreds /\ sets = 0
  /\ step = [c \in Callers |-> 0] /\ ver = [c \in Callers |-> 0]
  /\ s_use_v2 = TRUE /\ s_force_drop = FALSE
  /\ connected = FALSE /\ provisioned = FALSE
  /\ pc = "load" /\ lk = 1 /\ creds = NoCreds /\ backoff = 1 /\ fails = 0
  /\ dropLive = FALSE

-----------------------------------------------------------------------------
NetChanges ==
  /\ netOk' = ~netOk
  /\ UNCHANGED <<stored, callers, flags, st, task, dropLive>>

(* The callers *)

SetStart(c) ==
  /\ step[c] = 0 /\ sets < MaxSets
  /\ sets' = sets + 1
  /\ step' = [step EXCEPT ![c] = 1] /\ ver' = [ver EXCEPT ![c] = sets + 1]
  /\ UNCHANGED <<netOk, nvs, flags, st, task, dropLive>>

SetKey(c) ==
  /\ step[c] \in 1..Len(Keys)
  /\ nvs' = [nvs EXCEPT ![Keys[step[c]]] = ver[c]]
  /\ step' = [step EXCEPT ![c] = @ + 1]
  /\ UNCHANGED <<netOk, sets, ver, flags, st, task, dropLive>>

\* nvs_commit, and re-probe v2 against the possibly new caster
SetDone(c) ==
  /\ step[c] = Len(Keys) + 1
  /\ s_use_v2' = TRUE
  /\ step' = [step EXCEPT ![c] = 0] /\ ver' = [ver EXCEPT ![c] = 0]
  /\ UNCHANGED <<netOk, stored, s_force_drop, st, task, dropLive>>

Forget(c) ==
  /\ step[c] = 0 /\ nvs # NoCreds
  /\ nvs' = NoCreds
  /\ UNCHANGED <<netOk, sets, callers, flags, st, task, dropLive>>

Drop(c) ==
  /\ step[c] = 0 /\ ~s_force_drop
  /\ s_force_drop' = TRUE /\ dropLive' = connected
  /\ UNCHANGED <<netOk, stored, callers, s_use_v2, st, task>>

Caller(c) == SetStart(c) \/ SetKey(c) \/ SetDone(c) \/ Forget(c) \/ Drop(c)

-----------------------------------------------------------------------------
(* upstream_task *)

\* creds_load reads one key after the other.
LoadKey ==
  /\ pc = "load" /\ lk <= Len(Keys)
  /\ creds' = [creds EXCEPT ![Keys[lk]] = nvs[Keys[lk]]] /\ lk' = lk + 1
  /\ UNCHANGED <<netOk, stored, callers, flags, st, pc, backoff, fails, dropLive>>

\* Only the password may be missing.
Provisioned_Any == TRUE     \* mutant: connects with whatever was read
Provisioned == creds["host"] # 0 /\ creds["mount"] # 0

Loaded ==
  /\ pc = "load" /\ lk = Len(Keys) + 1 /\ Provisioned
  /\ provisioned' = TRUE /\ pc' = "connect" /\ lk' = 1
  /\ UNCHANGED <<netOk, stored, callers, flags, connected, creds, backoff, fails, dropLive>>

Idle ==
  /\ pc = "load" /\ lk = Len(Keys) + 1 /\ ~Provisioned
  /\ provisioned' = FALSE /\ connected' = FALSE
  /\ pc' = "idle" /\ lk' = 1 /\ creds' = NoCreds
  /\ UNCHANGED <<netOk, stored, callers, flags, backoff, fails, dropLive>>

IdlePoll ==
  /\ pc = "idle" /\ pc' = "load"
  /\ UNCHANGED <<netOk, stored, callers, flags, st, lk, creds, backoff, fails, dropLive>>

ConnectOk ==
  /\ pc = "connect" /\ netOk
  /\ pc' = IF s_use_v2 THEN "post" ELSE "source"
  /\ UNCHANGED <<netOk, stored, callers, flags, st, lk, creds, backoff, fails, dropLive>>

Doubled == IF backoff * 2 > BACKOFF_MAX_S THEN BACKOFF_MAX_S ELSE backoff * 2

\* The three failure exits: connect, handshake and the end of a stream.
Fail ==
  /\ connected' = FALSE
  /\ backoff' = Doubled
  /\ fails' = IF fails < FailsCap THEN fails + 1 ELSE fails
  /\ pc' = "delay" /\ creds' = NoCreds /\ dropLive' = FALSE
  /\ UNCHANGED <<netOk, stored, callers, provisioned, lk>>

\* DNS, socket or connect failed.
ConnectFails == pc = "connect" /\ ~netOk /\ Fail /\ UNCHANGED flags

Whole == \A k \in KeyNames : creds[k] = creds["host"]

\* source_handshake_v2's results; a lost connection is HS_REJECTED.
PostOk ==
  /\ pc = "post" /\ netOk /\ creds["host"] \in V2Casters /\ Whole
  /\ pc' = "accepted"
  /\ UNCHANGED <<netOk, stored, callers, flags, st, lk, creds, backoff, fails, dropLive>>

PostNotV2 ==
  /\ pc = "post" /\ netOk /\ creds["host"] \notin V2Casters
  /\ pc' = "not_v2"
  /\ UNCHANGED <<netOk, stored, callers, flags, st, lk, creds, backoff, fails, dropLive>>

\* Next cycle uses v1.
\* Mutant: falls back without remembering it.
FallBack_Forgets == pc = "not_v2" /\ Fail /\ UNCHANGED flags

FallBack ==
  /\ pc = "not_v2" /\ s_use_v2' = FALSE
  /\ Fail /\ UNCHANGED s_force_drop

SourceOk ==
  /\ pc = "source" /\ netOk /\ creds["host"] \in V1Casters /\ Whole
  /\ pc' = "accepted"
  /\ UNCHANGED <<netOk, stored, callers, flags, st, lk, creds, backoff, fails, dropLive>>

\* HS_REJECTED, or source_handshake_v1 returned false
Refused ==
  /\ \/ pc = "post" /\ (netOk => creds["host"] \in V2Casters /\ ~Whole)
     \/ pc = "source" /\ (netOk => creds["host"] \notin V1Casters \/ ~Whole)
  /\ Fail /\ UNCHANGED flags

\* Mutant: the login forgets to reset the backoff.
Accepted_KeepsBackoff ==
  /\ pc = "accepted" /\ pc' = "stream"
  /\ connected' = TRUE /\ fails' = 0
  /\ UNCHANGED <<netOk, stored, callers, flags, provisioned, lk, creds, backoff, dropLive>>

Accepted ==
  /\ pc = "accepted" /\ pc' = "stream"
  /\ connected' = TRUE /\ backoff' = 1 /\ fails' = 0
  /\ UNCHANGED <<netOk, stored, callers, flags, provisioned, lk, creds, dropLive>>

\* stream_loop tests the flag before every read.
\* Mutant: the forced drop returns early and leaves the status as it was.
ForcedDrop_KeepsStatus ==
  /\ pc = "stream" /\ s_force_drop /\ s_force_drop' = FALSE
  /\ backoff' = Doubled /\ fails' = fails + 1
  /\ pc' = "delay" /\ creds' = NoCreds /\ dropLive' = FALSE
  /\ UNCHANGED <<netOk, stored, callers, connected, provisioned, lk, s_use_v2>>

\* Mutant: the flag is tested once, before the first read.
ForcedDrop_Never == FALSE /\ UNCHANGED vars

ForcedDrop ==
  /\ pc = "stream" /\ s_force_drop
  /\ s_force_drop' = FALSE
  /\ Fail /\ UNCHANGED s_use_v2

SendFails == pc = "stream" /\ ~netOk /\ Fail /\ UNCHANGED flags

\* vTaskDelay(backoff) ends.  backoff was doubled before the delay in the model
\* and after it in the code; nothing reads it in between.
Delay ==
  /\ pc = "delay" /\ pc' = "load"
  /\ UNCHANGED <<netOk, stored, callers, flags, st, lk, creds, backoff, fails, dropLive>>

UpstreamTask ==
  LoadKey \/ Loaded \/ Idle \/ IdlePoll \/ ConnectOk \/ ConnectFails \/ PostOk
    \/ PostNotV2 \/ FallBack \/ SourceOk \/ Refused \/ Accepted \/ ForcedDrop
    \/ SendFails \/ Delay

Next == NetChanges \/ (\E c \in Callers : Caller(c)) \/ UpstreamTask

Spec == Init /\ [][Next]_vars

\* The task is scheduled, and a call that has begun to save finishes.  Nobody
\* has to call anything, and the network may stay as it is.
FairSpec ==
  Spec /\ WF_vars(UpstreamTask) /\ \A c \in Callers : WF_vars(SetKey(c) \/ SetDone(c))

-----------------------------------------------------------------------------
(* Properties *)

\* Every variable keeps its type; the backoff stays within its bounds.
TypeOK ==
  /\ netOk \in BOOLEAN /\ nvs \in [KeyNames -> Version] /\ sets \in Version
  /\ step \in [Callers -> 0..4] /\ ver \in [Callers -> Version]
  /\ s_use_v2 \in BOOLEAN /\ s_force_drop \in BOOLEAN
  /\ connected \in BOOLEAN /\ provisioned \in BOOLEAN /\ dropLive \in BOOLEAN
  /\ pc \in {"load", "idle", "connect", "post", "not_v2", "source", "accepted",
             "stream", "delay"}
  /\ lk \in 1..4 /\ creds \in [KeyNames -> Version]
  /\ backoff \in 1..BACKOFF_MAX_S /\ fails \in 0..FailsCap

\* The retries follow the schedule of an exponential backoff: after n cycles
\* that ended without a login (or since the stream broke) the next wait is 2^n
\* seconds, BACKOFF_MAX_S at most; idling does not reset it, a login does.
Schedule == <<1, 2, 4, 8, 16>>
BackoffSchedule ==
  backoff = IF fails < 5 THEN Schedule[fails + 1] ELSE BACKOFF_MAX_S

\* The status never claims a link that is gone: `connected` is reported exactly
\* while the stream loop runs on an accepted socket, whichever of its exits
\* ends it, and never for a box that reports itself unprovisioned.
StatusHonest ==
  /\ connected <=> pc = "stream"
  /\ connected => provisioned

Settled(casters) ==
  /\ netOk /\ \A c \in Callers : step[c] = 0
  /\ nvs["host"] \in casters /\ \A k \in KeyNames : nvs[k] = nvs["host"]

\* "The task idles until provisioned, then connects and reconnects": once the
\* credentials are whole and stay, the network stays up and the caster accepts
\* a v1 login, the task streams again and again (for ever, unless it is told
\* to drop), through torn loads and v2 probes and whatever version came before.
SettledStreams == <>[]Settled(V1Casters) => []<>(pc = "stream")

\* A drop asked for while the link is up is honoured.
DropHonoured == (pc = "stream" /\ s_force_drop) ~> (pc # "stream")

\* Credentials erased for good end the connecting: from some point on the task
\* only idles, or holds the stream it had.
ForgottenIdles ==
  <>[](nvs = NoCreds /\ \A c \in Callers : step[c] = 0)
    => <>[](pc \in {"load", "idle", "stream"})

-----------------------------------------------------------------------------
(* Why these hold: the inductive invariant *)

\* What UpstreamProofs proves: the status is honest because the task is known to
\* be provisioned from the moment the keys are loaded.
LoggingIn == {"connect", "post", "not_v2", "source", "accepted", "stream"}
IInv ==
  TypeOK /\ BackoffSchedule /\ StatusHonest /\ (pc \in LoggingIn => provisioned)

-----------------------------------------------------------------------------
(* What the comments of the code say, and TLC refutes *)

\* upstream.h:33, upstream_drop has "No effect if not connected": a stream is
\* dropped by force only when the drop was asked for on that link.
DropNeedsConnection == [][ForcedDrop => dropLive]_vars

\* upstream.c:38, s_use_v2 is "Reset to true whenever creds change, so pointing
\* at a new (v2) caster re-probes": a caster that speaks v2 is reached once its
\* credentials are stored for good.
V2CasterReached == <>[]Settled(V2Casters) => <>(pc = "stream")
=============================================================================
