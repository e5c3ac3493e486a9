-------------------------------- MODULE Wifi --------------------------------
(***************************************************************************)
(* lumen-common's WifiService and its NmcliClient: one main loop that      *)
(* keeps a view of NetworkManager, and worker threads that block in nmcli  *)
(* and post their answers back as idle callbacks.  A line of `nmcli        *)
(* monitor` makes it poll.                                                 *)
(*                                                                         *)
(* Of what nmcli says only the radio has a value here.  The listings of    *)
(* devices and networks, read after it by the same threads and applied by  *)
(* the same callbacks, are a step of the thread without a value.           *)
(***************************************************************************)
EXTENDS Naturals, Sequences, FiniteSets

CONSTANTS
  Ssids,        \* networks
  NoSsid,       \* the empty string
  MaxChanges,   \* bound: changes NetworkManager makes by itself, and deaths of the monitor
  MaxToggles    \* bound: calls of set_radio

ASSUME ValuesAssumption == NoSsid \notin Ssids
ASSUME BoundsAssumption == MaxChanges \in Nat /\ MaxToggles \in Nat

VARIABLES
  \* NetworkManager and `nmcli monitor`
  radio,
  monitor,            \* the LineWatcher: "down", "alive", or "dead" with its end unread
  line,               \* lines of the monitor are unread
  changes,
  \* what the widgets show
  enabled, connecting_ssid, scanning,
  \* the service
  paused, poll_timer, event_timer, poll_in_flight, poll_again,
  restart,            \* the 5 s timer that starts the monitor again
  \* worker threads and what they have posted
  threads,            \* the threads that read
  power,              \* threads in set_enabled
  toggles,            \* numbers them
  connect,            \* a thread is in connect
  idles,              \* idle callbacks, in the order they were posted
  \* history
  unread,             \* no poll has begun since NetworkManager changed
  unannounced         \* the view changed and state_changed has not been emitted

worldVars  == <<radio, monitor, line, changes>>
viewVars   == <<enabled, connecting_ssid, scanning, unannounced>>
pollVars   == <<poll_in_flight, poll_again, unread>>
timerVars  == <<poll_timer, event_timer, restart>>
workerVars == <<threads, power, toggles, connect>>
vars       == <<worldVars, viewVars, pollVars, timerVars, workerVars, paused, idles>>

Readers == {"poll", "scan"}
Off     == [at |-> "off", enabled |-> FALSE]
Power   == [id: 1 .. MaxToggles, on: BOOLEAN]
Answers == [job: Readers, enabled: BOOLEAN] \union [job: {"power"}] \union [job: {"connect"}, ok: BOOLEAN]

Reading(t) == threads[t].at # "off"
Posted(j)  == {i \in 1 .. Len(idles) : idles[i].job = j}

Starts(t) == [threads EXCEPT ![t].at = "radio"]

-----------------------------------------------------------------------------
(***************************************************************************)
(* Polls and scans.                                                        *)
(***************************************************************************)
\* Mutant: a call made mid-poll is dropped.
PollBusyDropped == UNCHANGED poll_again
PollBusy == poll_again' = TRUE

PollConnection ==
  IF poll_in_flight
  THEN PollBusy /\ UNCHANGED <<poll_in_flight, unread, threads>>
  ELSE /\ poll_in_flight' = TRUE
       /\ unread' = FALSE
       /\ threads' = Starts("poll")
       /\ UNCHANGED poll_again

\* refresh_scan; "stays" says that the caller left the view unannounced.
RefreshScan(stays) ==
  IF scanning
  THEN /\ unannounced' = (unannounced \/ stays)
       /\ UNCHANGED <<scanning, threads>>
  ELSE /\ scanning' = TRUE
       /\ unannounced' = FALSE
       /\ threads' = Starts("scan")

-----------------------------------------------------------------------------
(***************************************************************************)
(* NetworkManager.                                                         *)
(***************************************************************************)
\* The state of NetworkManager differs from now on, or does not; the monitor
\* prints a line.
Becomes(r, differs) ==
  /\ radio' = r
  /\ IF differs
     THEN line' = (line \/ monitor = "alive") /\ unread' = TRUE
     ELSE UNCHANGED <<line, unread>>

NetworkManagerChanges ==
  /\ changes < MaxChanges
  /\ changes' = changes + 1
  /\ \E r \in BOOLEAN : Becomes(r, TRUE)
  /\ UNCHANGED <<monitor, viewVars, poll_in_flight, poll_again, timerVars, workerVars, paused, idles>>

MonitorDies ==
  /\ changes < MaxChanges
  /\ changes' = changes + 1
  /\ monitor = "alive"
  /\ monitor' = "dead"
  /\ UNCHANGED <<radio, line, viewVars, pollVars, timerVars, workerVars, paused, idles>>

-----------------------------------------------------------------------------
(***************************************************************************)
(* The monitor.                                                            *)
(***************************************************************************)
\* watcher.line: the debounce timer starts afresh.
Line ==
  /\ line
  /\ line' = FALSE
  /\ event_timer' = TRUE
  /\ UNCHANGED <<radio, monitor, changes, viewVars, pollVars, poll_timer, restart,
                 workerVars, paused, idles>>

EventDue ==
  /\ event_timer
  /\ event_timer' = FALSE
  /\ PollConnection
  /\ UNCHANGED <<worldVars, viewVars, poll_timer, restart, power, toggles, connect, paused, idles>>

\* Mutant: no fallback poll is started.
EndedUnpolled == UNCHANGED poll_timer
EndedPolls == poll_timer' = TRUE

\* watcher.ended, after the lines before it.
Ended ==
  /\ monitor = "dead" /\ ~line
  /\ monitor' = "down"
  /\ EndedPolls
  /\ restart' = TRUE
  /\ UNCHANGED <<radio, line, changes, viewVars, pollVars, event_timer, workerVars, paused, idles>>

RestartOnce == restart' = FALSE

\* start_watch with the watcher not running: it starts, or does not.
StartWatch ==
  /\ restart
  /\ RestartOnce
  /\ \/ /\ monitor' = "alive"
        /\ poll_timer' = FALSE
        /\ PollConnection
     \/ UNCHANGED <<monitor, poll_timer, pollVars, threads>>
  /\ UNCHANGED <<radio, line, changes, viewVars, event_timer, power, toggles,
                 connect, paused, idles>>

PollTick ==
  /\ poll_timer /\ ~paused
  /\ PollConnection
  /\ UNCHANGED <<worldVars, viewVars, timerVars, power, toggles, connect, paused, idles>>

-----------------------------------------------------------------------------
(***************************************************************************)
(* The threads that read.                                                  *)
(***************************************************************************)
readerFrame == <<worldVars, viewVars, pollVars, timerVars, power, toggles, connect, paused>>

QueryEnabled(t) ==
  /\ threads[t].at = "radio"
  /\ threads' = [threads EXCEPT ![t] = [at |-> "lists", enabled |-> radio]]
  /\ UNCHANGED <<readerFrame, idles>>

\* The listings are read, and all is posted.
ReadLists(t) ==
  /\ threads[t].at = "lists"
  /\ threads' = [threads EXCEPT ![t] = Off]
  /\ idles' = Append(idles, [job |-> t, enabled |-> threads[t].enabled])
  /\ UNCHANGED readerFrame

-----------------------------------------------------------------------------
(***************************************************************************)
(* What the widgets ask for.                                               *)
(***************************************************************************)
\* set_radio, and apply_radio with the remembered state.
ApplyRadio(on) ==
  /\ toggles < MaxToggles
  /\ toggles' = toggles + 1
  /\ enabled' = on
  /\ unannounced' = FALSE
  /\ power' = power \union {[id |-> toggles', on |-> on]}
  /\ UNCHANGED <<worldVars, connecting_ssid, scanning, pollVars, timerVars, threads, connect, paused, idles>>

\* A button, the widgets as they open, and the timer of schedule_rescan after
\* disconnect_active, forget and set_ethernet, whose commands are detached: what
\* those do is NetworkManager's.
ScanNow ==
  /\ RefreshScan(FALSE)
  /\ UNCHANGED <<worldVars, enabled, connecting_ssid, pollVars, timerVars,
                 power, toggles, connect, paused, idles>>

\* Mutant: a second attempt may start.
MayConnectAgain == TRUE
MayConnect == connecting_ssid = NoSsid

ConnectTo(s) ==
  /\ MayConnect
  /\ connecting_ssid' = s
  /\ unannounced' = FALSE
  /\ connect' = connect + 1
  /\ UNCHANGED <<worldVars, enabled, scanning, pollVars, timerVars, threads,
                 power, toggles, paused, idles>>

\* The page is mapped and unmapped.
Pause(on) ==
  /\ paused # on
  /\ paused' = on
  /\ UNCHANGED <<worldVars, viewVars, pollVars, timerVars, workerVars, idles>>

-----------------------------------------------------------------------------
(***************************************************************************)
(* The threads that command.                                               *)
(***************************************************************************)
\* set_enabled is over; the command may have failed.
PowerDone(p) ==
  /\ power' = power \ {p}
  /\ idles' = Append(idles, [job |-> "power"])
  /\ \/ Becomes(p.on, p.on # radio)
     \/ UNCHANGED <<radio, line, unread>>
  /\ UNCHANGED <<monitor, changes, viewVars, poll_in_flight, poll_again, timerVars, threads, toggles,
                 connect, paused>>

\* connect is over.
ConnectDone(ok) ==
  /\ connect > 0
  /\ ok => radio
  /\ connect' = connect - 1
  /\ idles' = Append(idles, [job |-> "connect", ok |-> ok])
  /\ IF ok THEN Becomes(radio, TRUE) ELSE UNCHANGED <<radio, line, unread>>
  /\ UNCHANGED <<monitor, changes, viewVars, poll_in_flight, poll_again, timerVars, threads, power,
                 toggles, paused>>

-----------------------------------------------------------------------------
(***************************************************************************)
(* The idle callbacks.                                                     *)
(***************************************************************************)
idleFrame == <<worldVars, timerVars, power, toggles, connect, paused>>

\* A call made mid-poll runs again before the answer is applied.  A difference
\* of the radio, or of a listing, is announced.
PollAnswered(a) ==
  /\ IF poll_again
     THEN /\ poll_again' = FALSE
          /\ unread' = FALSE
          /\ threads' = Starts("poll")
          /\ UNCHANGED poll_in_flight
     ELSE /\ poll_in_flight' = FALSE
          /\ UNCHANGED <<poll_again, unread, threads>>
  /\ enabled' = a.enabled
  /\ unannounced' \in IF a.enabled # enabled THEN {FALSE} ELSE {unannounced, FALSE}
  /\ UNCHANGED <<connecting_ssid, scanning>>

\* Mutant: the flag is not cleared.
ScanEndsNever == UNCHANGED scanning
ScanEnds == scanning' = FALSE

ScanAnswered(a) ==
  /\ enabled' = a.enabled
  /\ ScanEnds
  /\ unannounced' = FALSE
  /\ UNCHANGED <<connecting_ssid, pollVars, threads>>

PowerAnswered ==
  /\ RefreshScan(FALSE)
  /\ UNCHANGED <<enabled, connecting_ssid, pollVars>>

\* A failure is announced; a success leaves that to the scan.
ConnectAnswered(a) ==
  /\ connecting_ssid' = NoSsid
  /\ IF a.ok THEN RefreshScan(TRUE) ELSE unannounced' = FALSE /\ UNCHANGED <<scanning, threads>>
  /\ UNCHANGED <<enabled, pollVars>>

RunIdle ==
  /\ idles # <<>>
  /\ idles' = Tail(idles)
  /\ LET a == Head(idles) IN
       \/ a.job = "poll"    /\ PollAnswered(a)
       \/ a.job = "scan"    /\ ScanAnswered(a)
       \/ a.job = "power"   /\ PowerAnswered
       \/ a.job = "connect" /\ ConnectAnswered(a)
  /\ UNCHANGED idleFrame

-----------------------------------------------------------------------------
\* The constructors: WifiService re-applies a remembered state, or polls, as
\* the passive one does; then init_watch starts the monitor, whose start polls
\* (again), or the fallback poll.
Init ==
  /\ radio \in BOOLEAN
  /\ monitor \in {"down", "alive"}
  /\ line = FALSE /\ changes = 0
  /\ connecting_ssid = NoSsid /\ scanning = FALSE
  /\ paused = FALSE
  /\ poll_timer = (monitor = "down") /\ event_timer = FALSE /\ restart = FALSE
  /\ connect = 0 /\ idles = <<>> /\ unannounced = FALSE
  /\ \/ /\ enabled = TRUE /\ toggles = 0 /\ power = {}
        /\ poll_in_flight = TRUE /\ poll_again = (monitor = "alive")
     \/ /\ MaxToggles > 0 /\ toggles = 1
        /\ enabled \in BOOLEAN
        /\ power = {[id |-> 1, on |-> enabled]}
        /\ poll_in_flight = (monitor = "alive") /\ poll_again = FALSE
  /\ unread = ~poll_in_flight
  /\ threads = [t \in Readers |-> IF t = "poll" /\ poll_in_flight THEN [Off EXCEPT !.at = "radio"] ELSE Off]

Read(t) ==
  \/ QueryEnabled(t)
  \/ ReadLists(t)

Next ==
  \/ NetworkManagerChanges
  \/ MonitorDies
  \/ Line
  \/ EventDue
  \/ Ended
  \/ StartWatch
  \/ PollTick
  \/ \E t \in Readers : Read(t)
  \/ \E on \in BOOLEAN : ApplyRadio(on)
  \/ ScanNow
  \/ \E s \in Ssids : ConnectTo(s)
  \/ \E on \in BOOLEAN : Pause(on)
  \/ \E p \in power : PowerDone(p)
  \/ \E ok \in BOOLEAN : ConnectDone(ok)
  \/ RunIdle

Spec == Init /\ [][Next]_vars

\* Threads end, the main loop gets to its callbacks and timers are due.
\* Nothing makes NetworkManager change or a user act.
Fairness ==
  /\ WF_vars(Line) /\ WF_vars(EventDue) /\ WF_vars(Ended) /\ WF_vars(StartWatch) /\ WF_vars(PollTick)
  /\ \A t \in Readers : WF_vars(Read(t))
  /\ WF_vars(\E p \in power : PowerDone(p))
  /\ WF_vars(\E ok \in BOOLEAN : ConnectDone(ok))
  /\ WF_vars(RunIdle)

FairSpec == Spec /\ Fairness

-----------------------------------------------------------------------------
\* Every variable has its type, and the restart timer runs only while the
\* monitor is down.
TypeOK ==
  /\ radio \in BOOLEAN
  /\ monitor \in {"down", "alive", "dead"} /\ line \in BOOLEAN /\ changes \in 0 .. MaxChanges
  /\ enabled \in BOOLEAN /\ connecting_ssid \in Ssids \union {NoSsid} /\ scanning \in BOOLEAN
  /\ {paused, poll_timer, event_timer, poll_in_flight, poll_again, restart,
      unread, unannounced} \subseteq BOOLEAN
  /\ threads \in [Readers -> [at: {"off", "radio", "lists"}, enabled: BOOLEAN]]
  /\ power \subseteq Power /\ toggles \in 0 .. MaxToggles /\ connect \in Nat
  /\ idles \in Seq(Answers)
  /\ restart => monitor = "down"

\* What the widgets were last told differs from the view only until the scan
\* in flight tells them (wifi_service.vala:114-118, 136).
AnnouncedOrScanning == unannounced => scanning

\* A flag that keeps a second worker from starting is set exactly while the
\* one worker, or its answer, is out (wifi_service.vala:108, 136, 212): it
\* neither leaks, which would end all polling or scanning, nor lets two in;
\* and what is not announced waits for the worker that will.
FlagsOwned ==
  /\ AnnouncedOrScanning
  /\ (IF Reading("poll") THEN 1 ELSE 0) + Cardinality(Posted("poll")) = (IF poll_in_flight THEN 1 ELSE 0)
  /\ (IF Reading("scan") THEN 1 ELSE 0) + Cardinality(Posted("scan")) = (IF scanning THEN 1 ELSE 0)
  /\ connect + Cardinality(Posted("connect")) = (IF connecting_ssid # NoSsid THEN 1 ELSE 0)

\* While no poll has begun since a change one is due, and the fallback poll runs
\* exactly while the monitor does not.
ChangesAreDue ==
  /\ unread => line \/ event_timer \/ poll_again \/ monitor = "dead" \/ poll_timer
  /\ poll_again => poll_in_flight
  /\ poll_timer <=> monitor = "down"

\* No change of NetworkManager is lost (wifi_service.vala:54-86, 210-220),
\* whatever the monitor, the timers and the threads are doing.
EventsArePolled == TypeOK /\ ChangesAreDue

\* Every change is polled, unless the page is hidden for good; a scan and an
\* attempt to connect end (wifi_service.vala:115, 154-155).
Polled    == unread ~> (~unread \/ paused)
ScanOver  == scanning ~> ~scanning
ConnectOver == (connecting_ssid # NoSsid) ~> (connecting_ssid = NoSsid)
WorkEnds  == Polled /\ ScanOver /\ ConnectOver
=============================================================================
