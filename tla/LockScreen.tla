----------------------------- MODULE LockScreen -----------------------------
(***************************************************************************)
(* lumen-lockscreen: LockManager with its PAM worker, idle watcher and     *)
(* logind bridge.  The daemon is one GLib main loop, so a handler runs to  *)
(* its end before the next one; what interleaves are the handlers, the PAM *)
(* thread that answers later, the compositor, logind and the monitors.     *)
(***************************************************************************)
EXTENDS Naturals, Sequences, FiniteSets

CONSTANTS
  Monitors,               \* outputs that may be plugged in
  NoMonitor,              \* the null primary_monitor
  NoAttempt,              \* no PAM worker is running
  Strikes,                \* failures that start the backoff (3 in the code)
  SessionLockSupported,   \* GtkSessionLock.is_supported()
  IdleAvailable,          \* ext-idle-notify-v1 is bound and the timeout is not 0
  MaxLocks,               \* bound: lock requests begun in a behaviour
  BusCap                  \* bound: PrepareForSleep signals in flight

ASSUME MonitorAssumption == NoMonitor \notin Monitors
ASSUME AttemptAssumption == NoAttempt \notin [gen: Nat, epoch: Nat]
ASSUME StrikesAssumption == Strikes \in Nat \ {0}
ASSUME SwitchAssumption  == /\ SessionLockSupported \in BOOLEAN
                            /\ IdleAvailable \in BOOLEAN
ASSUME BoundAssumption   == MaxLocks \in Nat /\ BusCap \in Nat

VARIABLES
  \* LockManager
  is_locked,          \* the compositor granted the lock
  instance,           \* instance # null
  windows,            \* LockWindow of each monitor
  primary_monitor,    \* the monitor that carries the card
  monitors_handler,   \* items_changed is connected
  authenticating,     \* a PAM verdict is due
  failures,           \* failed attempts, saturated at Strikes
  lock_gen,           \* bumped by begin_lock
  backoff_id,         \* the backoff timer runs
  sleep_timeout_id,   \* the 4 s suspend timer runs
  \* LogindBridge, idle_notify.c and the PAM worker
  inhibit_fd,         \* the delay inhibitor is held
  notification,       \* idle notification: "none", "waiting" or "idled"
  attempt,            \* what the PAM worker was started for
  \* the environment
  live,               \* monitors the display lists
  epoch,              \* locks the compositor granted so far
  sleep,              \* logind: "awake", "delay" or "asleep"
  bus                 \* PrepareForSleep signals not dispatched yet

lockVars  == <<is_locked, instance, lock_gen, epoch>>
cardVars  == <<windows, primary_monitor, monitors_handler, backoff_id>>
authVars  == <<authenticating, attempt, failures>>
sleepVars == <<sleep_timeout_id, inhibit_fd>>
envVars   == <<live, sleep, bus>>
vars      == <<lockVars, cardVars, authVars, sleepVars, notification, envVars>>

(***************************************************************************)
(* A window is absent, the clock of a secondary monitor, or the card with  *)
(* its password field open (sensitive) or shut.                            *)
(***************************************************************************)
Card    == {"open", "shut"}
Surface == {"absent", "clock"} \union Card

NoWindows == [m \in Monitors |-> "absent"]
HasCard   == primary_monitor \in Monitors /\ windows[primary_monitor] \in Card

Attempts == [gen: Nat, epoch: Nat]

\* The main loop dispatches nothing while the machine sleeps.
Running == sleep # "asleep"

(***************************************************************************)
(* The delay inhibitor.  "timer" is sleep_timeout_id at the time of the    *)
(* call, which prepare_for_sleep has just set when it locks.               *)
(***************************************************************************)
\* Mutants: the guard on the timer is dropped; the timer is not started.
ReleaseSleepInhibitorAlways(timer) ==
  sleep_timeout_id' = FALSE /\ inhibit_fd' = FALSE
KeepSleepInhibitorUntimed(timer) ==
  sleep_timeout_id' = FALSE /\ UNCHANGED inhibit_fd

ReleaseSleepInhibitor(timer) ==
  /\ sleep_timeout_id' = FALSE
  /\ inhibit_fd' = (inhibit_fd /\ ~timer)

KeepSleepInhibitor(timer) ==
  /\ sleep_timeout_id' = timer
  /\ UNCHANGED inhibit_fd

(***************************************************************************)
(* Lock windows.                                                           *)
(***************************************************************************)
\* A new card inherits a running backoff or a verdict that is still due.
NewCardAlwaysOpen == "open"
NewCard == IF backoff_id \/ authenticating THEN "shut" ELSE "open"

\* Mutant: a clock that becomes the primary is not rebuilt as a card.
ReconcileMonitorsKeepsClock(list) ==
  \/ /\ list = {}
     /\ windows' = NoWindows
     /\ UNCHANGED primary_monitor
  \/ \E p \in (IF primary_monitor \in list THEN {primary_monitor} ELSE list) :
       /\ primary_monitor' = p
       /\ windows' = [m \in Monitors |->
                        IF m \notin list THEN "absent"
                        ELSE IF windows[m] # "absent" THEN windows[m]
                        ELSE IF m = p THEN NewCard ELSE "clock"]

\* One window per listed monitor, the card on the primary one.  The first
\* monitor of the list takes over when the primary is gone.
ReconcileMonitors(list) ==
  \/ /\ list = {}
     /\ windows' = NoWindows
     /\ UNCHANGED primary_monitor
  \/ \E p \in (IF primary_monitor \in list THEN {primary_monitor} ELSE list) :
       /\ primary_monitor' = p
       /\ windows' = [m \in Monitors |->
                        CASE m \notin list                   -> "absent"
                          [] m \in list /\ m # p             -> "clock"
                          [] m = p /\ windows[m] \in Card    -> windows[m]
                          [] m = p /\ windows[m] \notin Card -> NewCard]

ReleaseBookkeeping ==
  /\ monitors_handler' = FALSE
  /\ windows' = NoWindows
  /\ primary_monitor' = NoMonitor
  /\ backoff_id' = FALSE

\* idle.arm() registers a fresh notification, or none when idle is off.
ArmIdle == IF IdleAvailable THEN "waiting" ELSE "none"

(***************************************************************************)
(* Locking.                                                                *)
(***************************************************************************)
\* on_failed: the request was refused, or could not be sent.
Abort ==
  /\ ReleaseBookkeeping
  /\ instance' = FALSE
  /\ is_locked' = FALSE
  /\ UNCHANGED <<epoch, authVars>>

MayBegin == ~is_locked /\ ~instance /\ SessionLockSupported

\* Mutant: the generation is not bumped.
BeginLockSameGeneration(timer) ==
  /\ instance' = TRUE
  /\ KeepSleepInhibitor(timer)
  /\ UNCHANGED <<lock_gen, is_locked, epoch, cardVars, authVars>>

\* The request is sent, or fails inside lock() and is aborted at once.
BeginLock(timer) ==
  /\ lock_gen' = lock_gen + 1
  /\ \/ /\ instance' = TRUE
        /\ KeepSleepInhibitor(timer)
        /\ UNCHANGED <<is_locked, epoch, cardVars, authVars>>
     \/ Abort /\ ReleaseSleepInhibitor(timer)

LockNow ==
  \/ MayBegin /\ BeginLock(sleep_timeout_id)
  \/ ~MayBegin /\ UNCHANGED <<lockVars, cardVars, authVars, sleepVars>>

\* Bound: every lock begun, or that a queued suspend may begin, counts.
LockBudget ==
  lock_gen + Cardinality({i \in DOMAIN bus : bus[i]}) < MaxLocks

\* DBus Lock, lumen-lockctl lock and logind's Lock signal.
LockRequested ==
  /\ Running
  /\ LockBudget
  /\ LockNow
  /\ UNCHANGED <<notification, envVars>>

\* The compositor granted the lock: idle is disarmed and the surfaces built.
OnLocked ==
  /\ Running
  /\ instance /\ ~is_locked
  /\ is_locked' = TRUE
  /\ epoch' = epoch + 1
  /\ failures' = 0
  /\ notification' = "none"
  /\ ReconcileMonitors(live)
  /\ monitors_handler' = TRUE
  /\ ReleaseSleepInhibitor(sleep_timeout_id)
  /\ UNCHANGED <<instance, lock_gen, backoff_id, authenticating, attempt, envVars>>

OnFailed ==
  /\ Running
  /\ instance /\ ~is_locked
  /\ Abort
  /\ ReleaseSleepInhibitor(sleep_timeout_id)
  /\ UNCHANGED <<lock_gen, notification, envVars>>

(***************************************************************************)
(* Unlocking.                                                              *)
(***************************************************************************)

\* unlock() emits unlocked before it returns: on_unlocked is part of it.
OnUnlocked ==
  /\ ReleaseBookkeeping
  /\ instance' = FALSE
  /\ is_locked' = FALSE
  /\ failures' = 0
  /\ notification' = ArmIdle
  /\ UNCHANGED <<lock_gen, epoch>>

UnlockNow ==
  \/ is_locked /\ instance /\ OnUnlocked
  \/ /\ ~(is_locked /\ instance)
     /\ UNCHANGED <<lockVars, cardVars, failures, notification>>

\* DBus Unlock, lumen-lockctl unlock and logind's Unlock signal: trusted.
UnlockRequested ==
  /\ Running
  /\ UnlockNow
  /\ UNCHANGED <<authenticating, attempt, sleepVars, envVars>>

(***************************************************************************)
(* Authentication.                                                         *)
(***************************************************************************)
\* The user submits in an open field.  The worker keeps the generation.
TryAuth ==
  /\ Running
  /\ is_locked
  /\ \E m \in live : windows[m] = "open"
  /\ ~authenticating
  /\ HasCard
  /\ authenticating' = TRUE
  /\ attempt' = [gen |-> lock_gen, epoch |-> epoch]
  /\ windows' = [windows EXCEPT ![primary_monitor] = "shut"]
  /\ UNCHANGED <<lockVars, primary_monitor, monitors_handler, backoff_id,
                 failures, sleepVars, notification, envVars>>

\* Only "failures >= Strikes" is ever read, so counting stops at Strikes.
NextFailures == IF failures < Strikes THEN failures + 1 ELSE failures

OnAuthFail ==
  /\ failures' = NextFailures
  /\ \/ /\ ~HasCard
        /\ UNCHANGED <<windows, backoff_id>>
     \/ /\ HasCard
        /\ NextFailures >= Strikes
        /\ windows' = [windows EXCEPT ![primary_monitor] = "shut"]
        /\ backoff_id' = TRUE
     \/ /\ HasCard
        /\ NextFailures < Strikes
        /\ windows' = [windows EXCEPT ![primary_monitor] = "open"]
        /\ UNCHANGED backoff_id
  /\ UNCHANGED <<lockVars, primary_monitor, monitors_handler, notification>>

\* The worker's answer reaches the main loop.  Nothing but the flag changes
\* when the lock it was for is gone.
PamVerdict(ok) ==
  /\ Running
  /\ attempt # NoAttempt
  /\ authenticating' = FALSE
  /\ attempt' = NoAttempt
  /\ \/ /\ attempt.gen # lock_gen \/ ~is_locked
        /\ UNCHANGED <<lockVars, cardVars, failures, notification>>
     \/ /\ attempt.gen = lock_gen /\ is_locked
        /\ IF ok THEN UnlockNow ELSE OnAuthFail
  /\ UNCHANGED <<sleepVars, envVars>>

\* Mutant: the timer resets the count and forgets the field.
BackoffTimeoutKeepsShut ==
  /\ Running
  /\ backoff_id
  /\ backoff_id' = FALSE
  /\ failures' = 0
  /\ UNCHANGED <<lockVars, windows, primary_monitor, monitors_handler,
                 authenticating, attempt, sleepVars, notification, envVars>>

BackoffTimeout ==
  /\ Running
  /\ backoff_id
  /\ backoff_id' = FALSE
  /\ failures' = 0
  /\ windows' = IF HasCard THEN [windows EXCEPT ![primary_monitor] = "open"]
                ELSE windows
  /\ UNCHANGED <<lockVars, primary_monitor, monitors_handler, authenticating,
                 attempt, sleepVars, notification, envVars>>

(***************************************************************************)
(* Monitors, idle notification.                                            *)
(***************************************************************************)
\* Mutant: the handler is never connected.
ItemsChangedUnseen(list) ==
  /\ Running
  /\ live' = list
  /\ UNCHANGED <<lockVars, cardVars, authVars, sleepVars, notification, sleep, bus>>

ItemsChanged(list) ==
  /\ Running
  /\ live' = list
  /\ IF monitors_handler /\ instance THEN ReconcileMonitors(list)
     ELSE UNCHANGED <<windows, primary_monitor>>
  /\ UNCHANGED <<lockVars, monitors_handler, backoff_id, authVars, sleepVars,
                 notification, sleep, bus>>

Plug(m)   == m \notin live /\ ItemsChanged(live \union {m})
Unplug(m) == m \in live /\ ItemsChanged(live \ {m})

\* idled fires once; it can fire again only after resumed.
Idled ==
  /\ Running
  /\ LockBudget
  /\ notification = "waiting"
  /\ notification' = "idled"
  /\ LockNow
  /\ UNCHANGED envVars

Resumed ==
  /\ Running
  /\ notification = "idled"
  /\ notification' = "waiting"
  /\ UNCHANGED <<lockVars, cardVars, authVars, sleepVars, envVars>>

(***************************************************************************)
(* Suspend.  logind announces it, waits for the delay inhibitor (at most   *)
(* InhibitDelayMaxSec), sleeps, and announces the wake-up.                 *)
(***************************************************************************)
PrepareForSleep ==
  /\ Running
  /\ bus # <<>>
  /\ Head(bus)
  /\ bus' = Tail(bus)
  /\ \E lock_on_suspend \in BOOLEAN :
       \/ lock_on_suspend /\ MayBegin /\ BeginLock(TRUE)
       \/ /\ ~(lock_on_suspend /\ MayBegin)
          /\ IF ~instance \/ is_locked THEN ReleaseSleepInhibitor(TRUE)
                                       ELSE KeepSleepInhibitor(TRUE)
          /\ UNCHANGED <<lockVars, cardVars, authVars>>
  /\ UNCHANGED <<notification, live, sleep>>

\* logind refuses new delay inhibitors while it is already preparing.
TakeDelayInhibitor ==
  LET held == inhibit_fd /\ ~sleep_timeout_id
  IN  inhibit_fd' \in {TRUE} \union IF sleep = "delay" THEN {held} ELSE {}

WakeUp ==
  /\ Running
  /\ bus # <<>>
  /\ ~Head(bus)
  /\ bus' = Tail(bus)
  /\ sleep_timeout_id' = FALSE
  /\ TakeDelayInhibitor
  /\ UNCHANGED <<lockVars, cardVars, authVars, notification, live, sleep>>

SleepTimeout ==
  /\ Running
  /\ sleep_timeout_id
  /\ ReleaseSleepInhibitor(TRUE)
  /\ UNCHANGED <<lockVars, cardVars, authVars, notification, envVars>>

LogindSuspend ==
  /\ sleep = "awake"
  /\ LockBudget
  /\ Len(bus) + 2 <= BusCap
  /\ sleep' = "delay"
  /\ bus' = Append(bus, TRUE)
  /\ UNCHANGED <<lockVars, cardVars, authVars, sleepVars, notification, live>>

LogindSleep ==
  /\ sleep = "delay"
  /\ ~inhibit_fd
  /\ sleep' = "asleep"
  /\ UNCHANGED <<lockVars, cardVars, authVars, sleepVars, notification, live, bus>>

\* InhibitDelayMaxSec elapsed.
LogindForceSleep ==
  /\ sleep = "delay"
  /\ inhibit_fd
  /\ sleep' = "asleep"
  /\ UNCHANGED <<lockVars, cardVars, authVars, sleepVars, notification, live, bus>>

LogindResume ==
  /\ sleep = "asleep"
  /\ sleep' = "awake"
  /\ bus' = Append(bus, FALSE)
  /\ UNCHANGED <<lockVars, cardVars, authVars, sleepVars, notification, live>>

(***************************************************************************)
(* The daemon starts unlocked, with idle armed and the inhibitor taken.    *)
(***************************************************************************)
Init ==
  /\ is_locked = FALSE
  /\ instance = FALSE
  /\ lock_gen = 0
  /\ epoch = 0
  /\ windows = NoWindows
  /\ primary_monitor = NoMonitor
  /\ monitors_handler = FALSE
  /\ backoff_id = FALSE
  /\ authenticating = FALSE
  /\ attempt = NoAttempt
  /\ failures = 0
  /\ sleep_timeout_id = FALSE
  /\ inhibit_fd = TRUE
  /\ notification = ArmIdle
  /\ live \in SUBSET Monitors
  /\ sleep = "awake"
  /\ bus = <<>>

Manager ==
  \/ LockRequested
  \/ OnLocked
  \/ OnFailed
  \/ UnlockRequested
  \/ TryAuth
  \/ \E ok \in BOOLEAN : PamVerdict(ok)
  \/ BackoffTimeout
  \/ \E m \in Monitors : Plug(m) \/ Unplug(m)
  \/ Idled
  \/ Resumed
  \/ PrepareForSleep
  \/ WakeUp
  \/ SleepTimeout

Logind ==
  \/ LogindSuspend
  \/ LogindSleep
  \/ LogindForceSleep
  \/ LogindResume

Next == Manager \/ Logind

Spec == Init /\ [][Next]_vars

(***************************************************************************)
(* Fairness.  GLib dispatches a ready source sooner or later, and logind   *)
(* sleeps once nobody delays it.  Nothing is assumed of the compositor's   *)
(* answer, of the user or of the monitors.  A verdict, the backoff and the *)
(* wake-up are paused by every sleep, hence strong fairness.               *)
(***************************************************************************)
Fairness ==
  /\ SF_vars(PrepareForSleep)
  /\ SF_vars(WakeUp)
  /\ SF_vars(SleepTimeout)
  /\ SF_vars(\E ok \in BOOLEAN : PamVerdict(ok))
  /\ SF_vars(BackoffTimeout)
  /\ WF_vars(LogindSleep)
  /\ WF_vars(LogindResume)

FairSpec == Spec /\ Fairness

-----------------------------------------------------------------------------
(***************************************************************************)
(* Properties.                                                             *)
(***************************************************************************)
\* Every variable has its type; the failure count stays within the strikes.
TypeOK ==
  /\ is_locked \in BOOLEAN /\ instance \in BOOLEAN
  /\ lock_gen \in Nat /\ epoch \in Nat
  /\ windows \in [Monitors -> Surface]
  /\ primary_monitor \in Monitors \union {NoMonitor}
  /\ monitors_handler \in BOOLEAN /\ backoff_id \in BOOLEAN
  /\ authenticating \in BOOLEAN
  /\ attempt \in Attempts \union {NoAttempt}
  /\ failures \in 0 .. Strikes
  /\ sleep_timeout_id \in BOOLEAN /\ inhibit_fd \in BOOLEAN
  /\ notification \in {"none", "waiting", "idled"}
  /\ live \subseteq Monitors
  /\ sleep \in {"awake", "delay", "asleep"}
  /\ bus \in Seq(BOOLEAN)

\* The protocol wants a surface on every output: under a granted lock, after
\* any sequence of hotplugs, each monitor has exactly one window and exactly
\* one of them, the primary's, is the card a password can be typed into.
OneSurfacePerMonitor ==
  is_locked =>
    /\ \A m \in Monitors : m \in live <=> windows[m] # "absent"
    /\ \A m \in live : windows[m] \in Card <=> m = primary_monitor
    /\ live # {} => primary_monitor \in live

\* Lock windows exist only under a granted lock: none is left behind by an
\* unlock or a refused request.
NoSurfaceUnlessLocked ==
  ~is_locked => windows = NoWindows /\ ~monitors_handler /\ ~backoff_id

\* While the verdict on this lock's password is due, and while the backoff
\* runs, no card accepts input, on whatever monitor the card has moved to.
ShutWhileAnswering ==
  /\ is_locked
  /\ backoff_id \/ (attempt # NoAttempt /\ attempt.gen = lock_gen)
  => \A m \in Monitors : windows[m] # "open"

\* A password unlocks only the lock it was typed under: a verdict that comes
\* after an unlock and a new lock does not release the new one.
VerdictUnlocksItsOwnLock ==
  [][\A ok \in BOOLEAN :
       PamVerdict(ok) /\ is_locked /\ ~is_locked' => attempt.epoch = epoch]_vars

\* The suspend timer runs only while a lock request is in flight, so it never
\* drops an inhibitor nobody waits on.
TimerMeansPending == sleep_timeout_id => instance /\ ~is_locked

\* Once awake with every logind signal handled, the inhibitor for the next
\* suspend is held: no ordinary lock and no earlier suspend has spent it.
InhibitorReady == sleep = "awake" /\ bus = <<>> => inhibit_fd

\* The inhibitor is not dropped while a lock request is unanswered, except by
\* the 4 s timer or by a wake-up that is handled when the next suspend has
\* already begun.
InhibitorOutlivesRequest ==
  [][ /\ inhibit_fd /\ ~inhibit_fd'
      /\ instance' /\ ~is_locked'
      => SleepTimeout \/ (WakeUp /\ sleep = "delay") ]_vars

\* Idle auto-lock is registered exactly while the session is not locked.
IdleFollowsLock == IdleAvailable => (notification = "none" <=> is_locked)

\* The lock has its surfaces, and nothing else has.
SurfacesFollowLock == TypeOK /\ OneSurfacePerMonitor /\ NoSurfaceUnlessLocked

\* What the daemon holds of logind, of the compositor and of the main loop
\* agrees with the lock, through any number of suspends.
HoldsWhatItNeeds == TimerMeansPending /\ InhibitorReady /\ IdleFollowsLock

\* A lock is undone, and an inhibitor dropped, only by what belongs to it.
UndoneByItsOwn == VerdictUnlocksItsOwnLock /\ InhibitorOutlivesRequest

\* A compositor that never answers does not stall a suspend.
SuspendNotStalled == sleep = "delay" ~> sleep # "delay"

\* A password submitted under a lock is answered: the lock goes away, the
\* field opens again, or no monitor is left to show it.
AttemptSettles ==
  (authenticating /\ is_locked /\ attempt.gen = lock_gen)
    ~> (~is_locked \/ live = {} \/ \E m \in live : windows[m] = "open")

\* password.vala:79 "Disable input + show a working banner while PAM runs":
\* a card is shut only while PAM runs or the backoff does.
ShutOnlyWhileBusy ==
  is_locked /\ ~authenticating /\ ~backoff_id
    => \A m \in Monitors : windows[m] # "shut"

-----------------------------------------------------------------------------
(***************************************************************************)
(* The lock screen implements the session lock contract.                   *)
(***************************************************************************)
Phase ==
  IF is_locked THEN "locked" ELSE IF instance THEN "requested" ELSE "unlocked"

SL == INSTANCE SessionLock WITH
        Outputs  <- Monitors,
        phase    <- Phase,
        outputs  <- live,
        surfaces <- {m \in Monitors : windows[m] # "absent"}

\* Every behaviour of the daemon is one the contract allows.
SessionLockContract == SL!Spec
=============================================================================

