------------------------ MODULE AuthenticationProofs ------------------------
(***************************************************************************)
(* Proofs about the two programs that ask for a password: LockScreen, for  *)
(* any monitors and any number of locks and suspends, and AuthFlow, of the *)
(* polkit agent.                                                           *)
(***************************************************************************)
EXTENDS LockScreen, AuthFlow, TLAPS

-----------------------------------------------------------------------------
(***************************************************************************)
(* Type correctness.                                                       *)
(***************************************************************************)
LEMMA NoWindowsType == NoWindows \in [Monitors -> Surface]
BY DEF NoWindows, Surface

LEMMA NoFailures == 0 \in 0 .. Strikes
BY StrikesAssumption

LEMMA Dequeue ==
  ASSUME bus \in Seq(BOOLEAN), bus # <<>>
  PROVE  /\ Tail(bus) \in Seq(BOOLEAN) /\ Head(bus) \in BOOLEAN
         /\ Head(bus) = bus[1] /\ Len(Tail(bus)) = Len(bus) - 1
OBVIOUS

LEMMA EmptyLength == ASSUME NEW s, s = <<>> PROVE Len(s) = 0
OBVIOUS

\* The only signal is both the first and the last.
LEMMA OnlySignal ==
  ASSUME bus \in Seq(BOOLEAN), bus # <<>>, Tail(bus) = <<>>
  PROVE  bus[Len(bus)] = Head(bus)
<1>1. Len(Tail(bus)) = 0
  BY EmptyLength
<1>2. Len(bus) = 1
  BY <1>1, Dequeue
<1> QED
  BY <1>2, Dequeue

LEMMA Enqueue ==
  ASSUME bus \in Seq(BOOLEAN), NEW starting \in BOOLEAN
  PROVE  /\ Append(bus, starting) # <<>>
         /\ Append(bus, starting)[Len(Append(bus, starting))] = starting
OBVIOUS

\* What reconcile_monitors leaves: a window on every listed monitor and no
\* other, the card on the primary, and no card that became open by itself.
LEMMA ReconcileResult ==
  ASSUME NEW list \in SUBSET Monitors,
         windows \in [Monitors -> Surface],
         primary_monitor \in Monitors \union {NoMonitor},
         ReconcileMonitors(list)
  PROVE  /\ windows' \in [Monitors -> Surface]
         /\ primary_monitor' \in Monitors \union {NoMonitor}
         /\ \A m \in Monitors : m \in list <=> windows'[m] # "absent"
         /\ \A m \in list : windows'[m] \in Card <=> m = primary_monitor'
         /\ list # {} => primary_monitor' \in list
         /\ \A m \in Monitors :
              windows'[m] = "open" => windows[m] = "open" \/ NewCard = "open"
<1>1. CASE list = {} /\ windows' = NoWindows /\ UNCHANGED primary_monitor
  BY <1>1 DEF NoWindows, Surface, Card
<1>2. CASE ~(list = {} /\ windows' = NoWindows /\ UNCHANGED primary_monitor)
  <2>1. PICK p \in (IF primary_monitor \in list THEN {primary_monitor} ELSE list) :
          /\ primary_monitor' = p
          /\ windows' = [m \in Monitors |->
                           CASE m \notin list                   -> "absent"
                             [] m \in list /\ m # p             -> "clock"
                             [] m = p /\ windows[m] \in Card    -> windows[m]
                             [] m = p /\ windows[m] \notin Card -> NewCard]
    BY <1>2 DEF ReconcileMonitors
  <2>2. p \in list /\ p \in Monitors
    BY <2>1
  <2>3. NewCard \in Card
    BY DEF NewCard, Card
  <2>4. \A m \in Monitors :
          /\ m \notin list => windows'[m] = "absent"
          /\ m \in list /\ m # p => windows'[m] = "clock"
          /\ m = p => windows'[m] = IF windows[m] \in Card THEN windows[m] ELSE NewCard
    BY <2>1, <2>2
  <2>5. windows' \in [Monitors -> Surface]
    BY <2>1, <2>2, <2>3 DEF Surface, Card
  <2> QED
    BY <2>1, <2>2, <2>3, <2>4, <2>5 DEF Surface, Card
<1> QED
  BY <1>1, <1>2

LEMMA BeginLockTypes ==
  ASSUME TypeOK, NEW timer \in BOOLEAN, BeginLock(timer)
  PROVE  /\ is_locked' \in BOOLEAN /\ instance' \in BOOLEAN
         /\ lock_gen' \in Nat /\ epoch' \in Nat
         /\ windows' \in [Monitors -> Surface]
         /\ primary_monitor' \in Monitors \union {NoMonitor}
         /\ monitors_handler' \in BOOLEAN /\ backoff_id' \in BOOLEAN
         /\ authenticating' \in BOOLEAN
         /\ attempt' \in Attempts \union {NoAttempt}
         /\ failures' \in 0 .. Strikes
         /\ sleep_timeout_id' \in BOOLEAN /\ inhibit_fd' \in BOOLEAN
<1>1. lock_gen' \in Nat
  BY DEF TypeOK, BeginLock
<1>2. CASE /\ instance' = TRUE
           /\ KeepSleepInhibitor(timer)
           /\ UNCHANGED <<is_locked, epoch, cardVars, authVars>>
  BY <1>1, <1>2 DEF TypeOK, KeepSleepInhibitor, cardVars, authVars
<1>3. CASE Abort /\ ReleaseSleepInhibitor(timer)
  <2>1. sleep_timeout_id' \in BOOLEAN /\ inhibit_fd' \in BOOLEAN
    BY <1>3 DEF TypeOK, ReleaseSleepInhibitor
  <2> QED
    BY <1>1, <1>3, <2>1, NoWindowsType DEF TypeOK, Abort, ReleaseBookkeeping, authVars
<1> QED
  BY <1>2, <1>3 DEF BeginLock

LEMMA UnlockNowTypes ==
  ASSUME TypeOK, UnlockNow
  PROVE  /\ is_locked' \in BOOLEAN /\ instance' \in BOOLEAN
         /\ lock_gen' \in Nat /\ epoch' \in Nat
         /\ windows' \in [Monitors -> Surface]
         /\ primary_monitor' \in Monitors \union {NoMonitor}
         /\ monitors_handler' \in BOOLEAN /\ backoff_id' \in BOOLEAN
         /\ failures' \in 0 .. Strikes
         /\ notification' \in {"none", "waiting", "idled"}
BY NoWindowsType, NoFailures
   DEF TypeOK, UnlockNow, OnUnlocked, ReleaseBookkeeping, ArmIdle, lockVars, cardVars

\* Every handler keeps every variable in its type.
THEOREM TypeCorrect == Spec => []TypeOK
<1>1. Init => TypeOK
  <2> SUFFICES ASSUME Init PROVE TypeOK
    OBVIOUS
  <2>1. bus \in Seq(BOOLEAN)
    BY DEF Init
  <2>2. notification \in {"none", "waiting", "idled"}
    BY DEF Init, ArmIdle
  <2> QED
    BY <2>1, <2>2, NoWindowsType, NoFailures DEF Init, TypeOK
<1>2. ASSUME TypeOK, [Next]_vars PROVE TypeOK'
  <2> USE <1>2
  <2>1. CASE LockRequested
    BY <2>1, BeginLockTypes
       DEF TypeOK, LockRequested, LockNow, lockVars, cardVars, authVars, sleepVars, envVars
  <2>2. CASE OnLocked
    <3>1. live \in SUBSET Monitors
      BY DEF TypeOK
    <3>2. /\ windows' \in [Monitors -> Surface]
          /\ primary_monitor' \in Monitors \union {NoMonitor}
      BY <2>2, <3>1, ReconcileResult DEF TypeOK, OnLocked
    <3>3. sleep_timeout_id' \in BOOLEAN /\ inhibit_fd' \in BOOLEAN
      BY <2>2 DEF TypeOK, OnLocked, ReleaseSleepInhibitor
    <3> QED
      BY <2>2, <3>2, <3>3, NoFailures DEF TypeOK, OnLocked, envVars
  <2>3. CASE OnFailed
    <3>1. sleep_timeout_id' \in BOOLEAN /\ inhibit_fd' \in BOOLEAN
      BY <2>3 DEF TypeOK, OnFailed, ReleaseSleepInhibitor
    <3> QED
      BY <2>3, <3>1, NoWindowsType
         DEF TypeOK, OnFailed, Abort, ReleaseBookkeeping, authVars, envVars
  <2>4. CASE UnlockRequested
    BY <2>4, UnlockNowTypes DEF TypeOK, UnlockRequested, sleepVars, envVars
  <2>5. CASE TryAuth
    BY <2>5 DEF TypeOK, TryAuth, Attempts, Surface, Card, lockVars, sleepVars, envVars
  <2>6. ASSUME NEW ok \in BOOLEAN, PamVerdict(ok) PROVE TypeOK'
    <3>1. CASE attempt.gen # lock_gen \/ ~is_locked
      BY <2>6, <3>1 DEF TypeOK, PamVerdict, lockVars, cardVars, sleepVars, envVars
    <3>2. CASE attempt.gen = lock_gen /\ is_locked /\ UnlockNow
      BY <2>6, <3>2, UnlockNowTypes DEF TypeOK, PamVerdict, sleepVars, envVars
    <3>3. CASE attempt.gen = lock_gen /\ is_locked /\ OnAuthFail
      <4>1. NextFailures \in 0 .. Strikes
        BY StrikesAssumption DEF TypeOK, NextFailures
      <4> QED
        BY <2>6, <3>3, <4>1 DEF TypeOK, PamVerdict, OnAuthFail, Surface, Card,
                                lockVars, sleepVars, envVars
    <3> QED
      BY <2>6, <3>1, <3>2, <3>3 DEF PamVerdict
  <2>7. CASE BackoffTimeout
    <3>1. windows' \in [Monitors -> Surface]
      BY <2>7 DEF TypeOK, BackoffTimeout, HasCard, Surface, Card
    <3> QED
      BY <2>7, <3>1, NoFailures DEF TypeOK, BackoffTimeout, lockVars, sleepVars, envVars
  <2>8. ASSUME NEW m \in Monitors, Plug(m) \/ Unplug(m) PROVE TypeOK'
    <3>1. PICK list \in SUBSET Monitors : ItemsChanged(list)
      <4>1. CASE Plug(m)
        BY <4>1 DEF Plug, TypeOK
      <4>2. CASE Unplug(m)
        BY <4>2 DEF Unplug, TypeOK
      <4> QED
        BY <2>8, <4>1, <4>2
    <3>2. /\ windows' \in [Monitors -> Surface]
          /\ primary_monitor' \in Monitors \union {NoMonitor}
      BY <3>1, ReconcileResult DEF TypeOK, ItemsChanged
    <3> QED
      BY <3>1, <3>2 DEF TypeOK, ItemsChanged, lockVars, authVars, sleepVars
  <2>9. CASE Idled
    BY <2>9, BeginLockTypes
       DEF TypeOK, Idled, LockNow, lockVars, cardVars, authVars, sleepVars, envVars
  <2>10. CASE Resumed
    BY <2>10 DEF TypeOK, Resumed, lockVars, cardVars, authVars, sleepVars, envVars
  <2>11. CASE PrepareForSleep
    <3>1. bus' \in Seq(BOOLEAN)
      BY <2>11, Dequeue DEF TypeOK, PrepareForSleep
    <3>2. CASE BeginLock(TRUE)
      BY <2>11, <3>1, <3>2, BeginLockTypes DEF TypeOK, PrepareForSleep
    <3>3. CASE ~BeginLock(TRUE)
      <4>1. sleep_timeout_id' \in BOOLEAN /\ inhibit_fd' \in BOOLEAN
        BY <2>11, <3>3 DEF TypeOK, PrepareForSleep, ReleaseSleepInhibitor,
                           KeepSleepInhibitor
      <4> QED
        BY <2>11, <3>1, <3>3, <4>1 DEF TypeOK, PrepareForSleep, lockVars, cardVars, authVars
    <3> QED
      BY <3>2, <3>3
  <2>12. CASE WakeUp
    <3>1. bus' \in Seq(BOOLEAN)
      BY <2>12, Dequeue DEF TypeOK, WakeUp
    <3>2. inhibit_fd' \in BOOLEAN
      BY <2>12 DEF TypeOK, WakeUp, TakeDelayInhibitor
    <3> QED
      BY <2>12, <3>1, <3>2 DEF TypeOK, WakeUp, lockVars, cardVars, authVars
  <2>13. CASE SleepTimeout
    BY <2>13 DEF TypeOK, SleepTimeout, ReleaseSleepInhibitor, lockVars, cardVars,
                 authVars, envVars
  <2>14. CASE Logind
    <3>1. CASE LogindSuspend
      BY <3>1 DEF TypeOK, LogindSuspend, lockVars, cardVars, authVars, sleepVars
    <3>2. CASE LogindSleep
      BY <3>2 DEF TypeOK, LogindSleep, lockVars, cardVars, authVars, sleepVars
    <3>3. CASE LogindForceSleep
      BY <3>3 DEF TypeOK, LogindForceSleep, lockVars, cardVars, authVars, sleepVars
    <3>4. CASE LogindResume
      BY <3>4 DEF TypeOK, LogindResume, lockVars, cardVars, authVars, sleepVars
    <3> QED
      BY <2>14, <3>1, <3>2, <3>3, <3>4 DEF Logind
  <2>15. CASE UNCHANGED vars
    BY <2>15 DEF TypeOK, vars, lockVars, cardVars, authVars, sleepVars, envVars
  <2> QED
    BY <2>1, <2>2, <2>3, <2>4, <2>5, <2>6, <2>7, <2>8, <2>9, <2>10, <2>11, <2>12,
       <2>13, <2>14, <2>15 DEF Next, Manager
<1> QED
  BY <1>1, <1>2, PTL DEF Spec

-----------------------------------------------------------------------------
(***************************************************************************)
(* Surfaces.  The inductive invariant: a granted lock has its instance and *)
(* its hotplug handler, so no change of the monitors is missed under it.   *)
(***************************************************************************)
SInv ==
  /\ is_locked => instance
  /\ monitors_handler <=> is_locked
  /\ OneSurfacePerMonitor
  /\ NoSurfaceUnlessLocked

\* A refused or finished lock leaves nothing behind.
LEMMA ReleasedSurfaces ==
  ASSUME ReleaseBookkeeping, is_locked' = FALSE
  PROVE  SInv'
BY DEF SInv, OneSurfacePerMonitor, NoSurfaceUnlessLocked, ReleaseBookkeeping

LEMMA BeginLockSurfaces ==
  ASSUME SInv, MayBegin, NEW timer \in BOOLEAN, BeginLock(timer), live' = live
  PROVE  SInv'
<1>1. CASE instance' = TRUE /\ UNCHANGED <<is_locked, cardVars>>
  BY <1>1 DEF SInv, OneSurfacePerMonitor, NoSurfaceUnlessLocked, MayBegin, cardVars
<1>2. CASE Abort
  BY <1>2, ReleasedSurfaces DEF Abort
<1> QED
  BY <1>1, <1>2 DEF BeginLock

LEMMA UnlockNowSurfaces ==
  ASSUME SInv, UnlockNow, live' = live
  PROVE  SInv'
<1>1. CASE OnUnlocked
  BY <1>1, ReleasedSurfaces DEF OnUnlocked
<1>2. CASE UNCHANGED <<lockVars, cardVars>>
  BY <1>2 DEF SInv, OneSurfacePerMonitor, NoSurfaceUnlessLocked, lockVars, cardVars
<1> QED
  BY <1>1, <1>2 DEF UnlockNow

LEMMA SurfacesStep ==
  ASSUME TypeOK, SInv, [Next]_vars
  PROVE  SInv'
<1> USE DEF SInv
<1>1. ASSUME UNCHANGED <<lockVars, cardVars, live>> PROVE SInv'
  BY <1>1 DEF OneSurfacePerMonitor, NoSurfaceUnlessLocked, lockVars, cardVars
<1>2. ASSUME LockNow, live' = live PROVE SInv'
  BY <1>1, <1>2, BeginLockSurfaces DEF LockNow, TypeOK
<1>3. CASE LockRequested
  BY <1>2, <1>3 DEF LockRequested, envVars
<1>4. CASE OnLocked
  <2>1. live \in SUBSET Monitors /\ live' = live
    BY <1>4 DEF TypeOK, OnLocked, envVars
  <2>2. /\ \A m \in Monitors : m \in live <=> windows'[m] # "absent"
        /\ \A m \in live : windows'[m] \in Card <=> m = primary_monitor'
        /\ live # {} => primary_monitor' \in live
    BY <1>4, <2>1, ReconcileResult DEF TypeOK, OnLocked
  <2> QED
    BY <1>4, <2>1, <2>2 DEF OnLocked, OneSurfacePerMonitor, NoSurfaceUnlessLocked
<1>5. CASE OnFailed
  BY <1>5, ReleasedSurfaces DEF OnFailed, Abort
<1>6. CASE UnlockRequested
  BY <1>6, UnlockNowSurfaces DEF UnlockRequested, envVars
<1>7. ASSUME \* a step that only opens or shuts the card
             UNCHANGED <<lockVars, primary_monitor, monitors_handler, live>>,
             HasCard, is_locked,
             NEW field \in Card,
             windows' = [windows EXCEPT ![primary_monitor] = field]
      PROVE  SInv'
  BY <1>7 DEF TypeOK, OneSurfacePerMonitor, NoSurfaceUnlessLocked, HasCard, Card,
              lockVars
<1>8. ASSUME HasCard PROVE is_locked
  BY <1>8 DEF NoSurfaceUnlessLocked, HasCard, NoWindows, Card
<1>9. CASE TryAuth
  BY <1>7, <1>9 DEF TryAuth, Card, lockVars, envVars
<1>10. ASSUME NEW ok \in BOOLEAN, PamVerdict(ok) PROVE SInv'
  <2>1. CASE UNCHANGED <<lockVars, cardVars>>
    BY <1>1, <1>10, <2>1 DEF PamVerdict, envVars
  <2>2. CASE UnlockNow
    BY <1>10, <2>2, UnlockNowSurfaces DEF PamVerdict, envVars
  <2>3. CASE is_locked /\ OnAuthFail
    <3>1. CASE UNCHANGED <<windows, backoff_id>>
      BY <1>1, <1>10, <2>3, <3>1 DEF PamVerdict, OnAuthFail, cardVars, envVars
    <3>2. CASE /\ HasCard
               /\ \E field \in Card :
                    windows' = [windows EXCEPT ![primary_monitor] = field]
      BY <1>7, <1>10, <2>3, <3>2 DEF PamVerdict, OnAuthFail, lockVars, envVars
    <3> QED
      BY <2>3, <3>1, <3>2 DEF OnAuthFail, Card
  <2> QED
    BY <1>10, <2>1, <2>2, <2>3 DEF PamVerdict
<1>11. CASE BackoffTimeout
  <2>1. CASE HasCard
    BY <1>7, <1>8, <1>11, <2>1 DEF BackoffTimeout, Card, lockVars, envVars
  <2>2. CASE ~HasCard
    BY <1>11, <2>2 DEF BackoffTimeout, OneSurfacePerMonitor, NoSurfaceUnlessLocked,
                       lockVars, envVars
  <2> QED
    BY <2>1, <2>2
<1>12. ASSUME NEW m \in Monitors, Plug(m) \/ Unplug(m) PROVE SInv'
  <2>1. PICK list \in SUBSET Monitors : ItemsChanged(list)
    <3>1. Plug(m) => ItemsChanged(live \union {m}) /\ live \union {m} \in SUBSET Monitors
      BY DEF Plug, TypeOK
    <3>2. Unplug(m) => ItemsChanged(live \ {m}) /\ live \ {m} \in SUBSET Monitors
      BY DEF Unplug, TypeOK
    <3> QED
      BY <1>12, <3>1, <3>2
  <2>2. CASE is_locked
    <3>1. /\ \A k \in Monitors : k \in list <=> windows'[k] # "absent"
          /\ \A k \in list : windows'[k] \in Card <=> k = primary_monitor'
          /\ list # {} => primary_monitor' \in list
      BY <2>1, <2>2, ReconcileResult DEF TypeOK, ItemsChanged
    <3> QED
      BY <2>1, <2>2, <3>1 DEF ItemsChanged, OneSurfacePerMonitor, NoSurfaceUnlessLocked,
                              lockVars
  <2>3. CASE ~is_locked
    BY <2>1, <2>3 DEF ItemsChanged, OneSurfacePerMonitor, NoSurfaceUnlessLocked, lockVars
  <2> QED
    BY <2>2, <2>3
<1>13. CASE Idled
  BY <1>2, <1>13 DEF Idled, envVars
<1>14. CASE Resumed
  BY <1>1, <1>14 DEF Resumed, envVars
<1>15. CASE PrepareForSleep
  BY <1>1, <1>15, BeginLockSurfaces DEF PrepareForSleep
<1>16. CASE WakeUp
  BY <1>1, <1>16 DEF WakeUp
<1>17. CASE SleepTimeout
  BY <1>1, <1>17 DEF SleepTimeout, envVars
<1>18. CASE Logind
  BY <1>1, <1>18 DEF Logind, LogindSuspend, LogindSleep, LogindForceSleep, LogindResume
<1>19. CASE UNCHANGED vars
  BY <1>1, <1>19 DEF vars, envVars
<1> QED
  BY <1>3, <1>4, <1>5, <1>6, <1>9, <1>10, <1>11, <1>12, <1>13, <1>14, <1>15, <1>16,
     <1>17, <1>18, <1>19 DEF Next, Manager

\* Under a granted lock every monitor has its window and the card is on the
\* primary, and no window outlives the lock, after any sequence of hotplugs.
THEOREM SurfacesFollowMonitors == Spec => []SurfacesFollowLock
<1>1. Init => SInv
  BY DEF Init, SInv, OneSurfacePerMonitor, NoSurfaceUnlessLocked
<1>2. TypeOK /\ SInv /\ [Next]_vars => SInv'
  BY SurfacesStep
<1>3. TypeOK /\ SInv => SurfacesFollowLock
  BY DEF SInv, SurfacesFollowLock
<1> QED
  BY <1>1, <1>2, <1>3, TypeCorrect, PTL DEF Spec

-----------------------------------------------------------------------------
(***************************************************************************)
(* Answers.  Generations is what makes the comparison of the generation    *)
(* right: a worker of the current generation was started under the lock    *)
(* the compositor granted last, which is still held or already gone.       *)
(***************************************************************************)
Generations ==
  attempt # NoAttempt =>
    /\ attempt.gen <= lock_gen
    /\ attempt.gen = lock_gen => (instance => is_locked) /\ attempt.epoch = epoch

AInv ==
  /\ authenticating <=> attempt # NoAttempt
  /\ backoff_id => attempt = NoAttempt
  /\ Generations
  /\ ShutWhileAnswering

LEMMA AttemptFields ==
  ASSUME TypeOK, attempt # NoAttempt
  PROVE  attempt.gen \in Nat /\ attempt.epoch \in Nat
BY DEF TypeOK, Attempts

\* A lock begun now is of a later generation than any worker.
LEMMA BeginLockAnswers ==
  ASSUME TypeOK, SInv, AInv, MayBegin, NEW timer \in BOOLEAN, BeginLock(timer)
  PROVE  AInv'
<1>1. UNCHANGED authVars
  BY DEF BeginLock, Abort
<1>2. ~is_locked'
  BY DEF BeginLock, Abort, MayBegin
<1>3. lock_gen' = lock_gen + 1
  BY DEF BeginLock
<1>4. attempt # NoAttempt => attempt.gen < lock_gen'
  BY <1>3, AttemptFields DEF AInv, Generations, TypeOK
<1>5. Generations'
  BY <1>1, <1>3, <1>4, AttemptFields DEF Generations, authVars, TypeOK
<1>6. ~backoff_id'
  BY DEF BeginLock, Abort, ReleaseBookkeeping, MayBegin, SInv, NoSurfaceUnlessLocked,
         cardVars
<1> QED
  BY <1>1, <1>2, <1>5, <1>6 DEF AInv, ShutWhileAnswering, authVars

LEMMA UnlockNowAnswers ==
  ASSUME TypeOK, SInv, AInv, UnlockNow, UNCHANGED <<authenticating, attempt>>
  PROVE  AInv'
<1>1. CASE OnUnlocked
  BY <1>1 DEF AInv, Generations, ShutWhileAnswering, OnUnlocked, ReleaseBookkeeping
<1>2. CASE UNCHANGED <<lockVars, cardVars>>
  BY <1>2 DEF AInv, Generations, ShutWhileAnswering, lockVars, cardVars
<1> QED
  BY <1>1, <1>2 DEF UnlockNow

LEMMA AnswersStep ==
  ASSUME TypeOK, SInv, SInv', AInv, [Next]_vars
  PROVE  AInv'
<1> USE DEF AInv
<1>1. ASSUME UNCHANGED <<lockVars, cardVars, authenticating, attempt>> PROVE AInv'
  BY <1>1 DEF Generations, ShutWhileAnswering, lockVars, cardVars
<1>2. ASSUME LockNow PROVE AInv'
  BY <1>1, <1>2, BeginLockAnswers DEF LockNow, TypeOK, authVars
<1>3. CASE LockRequested
  BY <1>2, <1>3 DEF LockRequested
<1>4. CASE OnLocked
  <2>1. attempt # NoAttempt => attempt.gen # lock_gen
    BY <1>4 DEF OnLocked, Generations
  <2>2. Generations'
    BY <1>4, <2>1 DEF OnLocked, Generations
  <2>3. ShutWhileAnswering'
    BY <1>4, <2>1 DEF OnLocked, ShutWhileAnswering, SInv, NoSurfaceUnlessLocked
  <2>4. UNCHANGED <<authenticating, attempt, backoff_id>>
    BY <1>4 DEF OnLocked
  <2> QED
    BY <2>2, <2>3, <2>4
<1>5. CASE OnFailed
  BY <1>5 DEF OnFailed, Abort, ReleaseBookkeeping, Generations, ShutWhileAnswering, authVars
<1>6. CASE UnlockRequested
  BY <1>6, UnlockNowAnswers DEF UnlockRequested
<1>7. ASSUME is_locked, live' = live, TypeOK, HasCard,
             windows' = [windows EXCEPT ![primary_monitor] = "shut"]
      PROVE  \A m \in Monitors : windows'[m] # "open"
  BY <1>7 DEF TypeOK, SInv, OneSurfacePerMonitor, HasCard, Card
<1>8. CASE TryAuth
  <2>1. Generations'
    BY <1>8 DEF TryAuth, Generations, TypeOK, lockVars
  <2>2. ShutWhileAnswering'
    BY <1>7, <1>8 DEF TryAuth, ShutWhileAnswering, envVars
  <2>3. attempt' # NoAttempt
    BY <1>8, AttemptAssumption DEF TryAuth, TypeOK
  <2>4. ~backoff_id'
    BY <1>8 DEF TryAuth, ShutWhileAnswering, TypeOK
  <2> QED
    BY <1>8, <2>1, <2>2, <2>3, <2>4 DEF TryAuth
<1>9. ASSUME NEW ok \in BOOLEAN, PamVerdict(ok) PROVE AInv'
  <2>1. ~authenticating' /\ attempt' = NoAttempt /\ Generations'
    BY <1>9 DEF PamVerdict, Generations
  <2>2. CASE UNCHANGED <<lockVars, cardVars>>
    BY <2>1, <2>2 DEF ShutWhileAnswering, lockVars, cardVars
  <2>3. CASE OnUnlocked
    BY <2>1, <2>3 DEF ShutWhileAnswering, OnUnlocked
  <2>4. CASE is_locked /\ OnAuthFail
    <3>1. live' = live
      BY <1>9 DEF PamVerdict, envVars
    <3>2. CASE UNCHANGED <<windows, backoff_id>>
      BY <2>1, <2>4, <3>2 DEF OnAuthFail, ShutWhileAnswering, lockVars
    <3>3. CASE HasCard /\ windows' = [windows EXCEPT ![primary_monitor] = "shut"]
      BY <1>7, <2>1, <2>4, <3>1, <3>3 DEF ShutWhileAnswering
    <3>4. CASE HasCard /\ windows' = [windows EXCEPT ![primary_monitor] = "open"]
                       /\ UNCHANGED backoff_id
      <4>1. ~backoff_id
        BY <1>9 DEF PamVerdict
      <4> QED
        BY <2>1, <3>4, <4>1 DEF ShutWhileAnswering
    <3> QED
      BY <2>4, <3>2, <3>3, <3>4 DEF OnAuthFail
  <2> QED
    BY <1>9, <2>2, <2>3, <2>4 DEF PamVerdict, UnlockNow
<1>10. CASE BackoffTimeout
  BY <1>10 DEF BackoffTimeout, Generations, ShutWhileAnswering, lockVars
<1>11. ASSUME NEW m \in Monitors, Plug(m) \/ Unplug(m) PROVE AInv'
  <2>1. PICK list \in SUBSET Monitors : ItemsChanged(list)
    <3>1. Plug(m) => ItemsChanged(live \union {m}) /\ live \union {m} \in SUBSET Monitors
      BY DEF Plug, TypeOK
    <3>2. Unplug(m) => ItemsChanged(live \ {m}) /\ live \ {m} \in SUBSET Monitors
      BY DEF Unplug, TypeOK
    <3> QED
      BY <1>11, <3>1, <3>2
  <2>2. UNCHANGED <<lockVars, authVars, backoff_id>>
    BY <2>1 DEF ItemsChanged
  <2>3. Generations'
    BY <2>2 DEF Generations, lockVars, authVars
  <2>4. \A k \in Monitors :
          windows'[k] = "open" => windows[k] = "open" \/ NewCard = "open"
    BY <2>1, ReconcileResult DEF ItemsChanged, TypeOK
  <2>5. ShutWhileAnswering'
    BY <2>2, <2>4 DEF ShutWhileAnswering, NewCard, lockVars, authVars
  <2> QED
    BY <2>2, <2>3, <2>5 DEF authVars
<1>12. CASE Idled
  BY <1>2, <1>12 DEF Idled
<1>13. CASE Resumed
  BY <1>1, <1>13 DEF Resumed, authVars
<1>14. CASE PrepareForSleep
  BY <1>1, <1>14, BeginLockAnswers DEF PrepareForSleep, authVars
<1>15. CASE WakeUp
  BY <1>1, <1>15 DEF WakeUp, authVars
<1>16. CASE SleepTimeout
  BY <1>1, <1>16 DEF SleepTimeout, authVars
<1>17. CASE Logind
  BY <1>1, <1>17 DEF Logind, LogindSuspend, LogindSleep, LogindForceSleep, LogindResume,
                     authVars
<1>18. CASE UNCHANGED vars
  BY <1>1, <1>18 DEF vars, authVars
<1> QED
  BY <1>3, <1>4, <1>5, <1>6, <1>8, <1>9, <1>10, <1>11, <1>12, <1>13, <1>14, <1>15,
     <1>16, <1>17, <1>18 DEF Next, Manager

THEOREM AnswersInvariant == Spec => [](TypeOK /\ SInv /\ AInv)
<1>1. Init => SInv /\ AInv
  BY DEF Init, SInv, AInv, OneSurfacePerMonitor, NoSurfaceUnlessLocked, Generations,
         ShutWhileAnswering
<1>2. TypeOK /\ SInv /\ AInv /\ [Next]_vars => SInv' /\ AInv'
  BY SurfacesStep, AnswersStep
<1> QED
  BY <1>1, <1>2, TypeCorrect, PTL DEF Spec

\* No card accepts input while the backoff runs or the verdict on a password
\* of this lock is due, on whatever monitor the card is.
THEOREM InputShutWhileAnswering == Spec => []ShutWhileAnswering
BY AnswersInvariant, PTL DEF AInv

\* A password unlocks only the lock it was typed under.
THEOREM VerdictIsForThisLock == Spec => VerdictUnlocksItsOwnLock
<1>1. TypeOK /\ SInv /\ AInv /\ [Next]_vars
        => [\A ok \in BOOLEAN :
              PamVerdict(ok) /\ is_locked /\ ~is_locked' => attempt.epoch = epoch]_vars
  <2> SUFFICES ASSUME AInv, NEW ok \in BOOLEAN, PamVerdict(ok), is_locked, ~is_locked'
               PROVE  attempt.epoch = epoch
    OBVIOUS
  <2>1. attempt # NoAttempt /\ attempt.gen = lock_gen
    BY DEF PamVerdict, lockVars
  <2> QED
    BY <2>1 DEF AInv, Generations
<1> QED
  BY <1>1, AnswersInvariant, PTL DEF Spec, VerdictUnlocksItsOwnLock

-----------------------------------------------------------------------------
(***************************************************************************)
(* Suspend.  The last signal of an awake machine is always the wake-up,    *)
(* and an inhibitor that is spent, or about to be by the timer, has a      *)
(* wake-up ahead that takes it again.                                      *)
(***************************************************************************)
WakeUpAhead ==
  /\ sleep = "awake" /\ bus # <<>> => ~bus[Len(bus)]
  /\ ~inhibit_fd \/ sleep_timeout_id => sleep # "awake" \/ bus # <<>>

\* Without a signal or a step of logind, the inhibitor is dropped only by a
\* timer that runs, and no timer starts.
LEMMA SameSleep ==
  ASSUME WakeUpAhead, UNCHANGED <<sleep, bus>>,
         sleep_timeout_id' => sleep_timeout_id,
         ~inhibit_fd' => ~inhibit_fd \/ sleep_timeout_id
  PROVE  WakeUpAhead'
BY DEF WakeUpAhead

LEMMA BeginLockKeeps ==
  ASSUME BeginLock(sleep_timeout_id), TypeOK
  PROVE  /\ sleep_timeout_id' => sleep_timeout_id
         /\ ~inhibit_fd' => ~inhibit_fd \/ sleep_timeout_id
BY DEF BeginLock, KeepSleepInhibitor, ReleaseSleepInhibitor, TypeOK

LEMMA WakeUpAheadStep ==
  ASSUME TypeOK, WakeUpAhead, [Next]_vars
  PROVE  WakeUpAhead'
<1>1. ASSUME UNCHANGED <<sleepVars, sleep, bus>> PROVE WakeUpAhead'
  BY <1>1 DEF WakeUpAhead, sleepVars
<1>2. ASSUME LockNow, UNCHANGED <<sleep, bus>> PROVE WakeUpAhead'
  BY <1>1, <1>2, SameSleep, BeginLockKeeps DEF LockNow
<1>3. ASSUME ReleaseSleepInhibitor(sleep_timeout_id), UNCHANGED <<sleep, bus>>
      PROVE  WakeUpAhead'
  BY <1>3, SameSleep DEF ReleaseSleepInhibitor
<1>4. CASE LockRequested \/ Idled
  BY <1>2, <1>4 DEF LockRequested, Idled, envVars
<1>5. CASE OnLocked \/ OnFailed
  BY <1>3, <1>5 DEF OnLocked, OnFailed, envVars
<1>6. CASE UnlockRequested \/ TryAuth \/ BackoffTimeout \/ Resumed
  BY <1>1, <1>6 DEF UnlockRequested, TryAuth, BackoffTimeout, Resumed, envVars
<1>7. ASSUME NEW ok \in BOOLEAN, PamVerdict(ok) PROVE WakeUpAhead'
  BY <1>1, <1>7 DEF PamVerdict, envVars
<1>8. ASSUME NEW m \in Monitors, Plug(m) \/ Unplug(m) PROVE WakeUpAhead'
  BY <1>1, <1>8 DEF Plug, Unplug, ItemsChanged
<1>9. ASSUME bus # <<>>, Tail(bus) # <<>>
      PROVE  Tail(bus)[Len(Tail(bus))] = bus[Len(bus)]
  BY <1>9 DEF TypeOK
<1>10. CASE PrepareForSleep
  <2>1. sleep = "awake" => bus' # <<>>
    <3> SUFFICES ASSUME sleep = "awake", bus' = <<>> PROVE FALSE
      OBVIOUS
    <3>1. bus # <<>> /\ Head(bus) /\ Tail(bus) = <<>>
      BY <1>10 DEF PrepareForSleep
    <3>2. bus[Len(bus)] = Head(bus)
      BY <3>1, OnlySignal DEF TypeOK
    <3> QED
      BY <3>1, <3>2 DEF WakeUpAhead
  <2>2. bus' # <<>> => bus'[Len(bus')] = bus[Len(bus)] /\ bus # <<>>
    BY <1>9, <1>10 DEF PrepareForSleep
  <2>3. sleep' = sleep
    BY <1>10 DEF PrepareForSleep
  <2> QED
    BY <2>1, <2>2, <2>3 DEF WakeUpAhead
<1>11. CASE WakeUp
  <2>1. sleep' = sleep /\ ~sleep_timeout_id' /\ bus' = Tail(bus) /\ bus # <<>>
    BY <1>11 DEF WakeUp
  <2>2. sleep = "awake" => inhibit_fd'
    BY <1>11 DEF WakeUp, TakeDelayInhibitor
  <2> QED
    BY <1>9, <2>1, <2>2 DEF WakeUpAhead
<1>12. CASE SleepTimeout
  BY <1>12, SameSleep DEF SleepTimeout, ReleaseSleepInhibitor, envVars
<1>13. CASE LogindSuspend \/ LogindSleep \/ LogindForceSleep
  BY <1>13 DEF LogindSuspend, LogindSleep, LogindForceSleep, WakeUpAhead
<1>14. CASE LogindResume
  <2>1. bus' # <<>> /\ bus'[Len(bus')] = FALSE
    BY <1>14, Enqueue DEF LogindResume, TypeOK
  <2> QED
    BY <2>1 DEF WakeUpAhead
<1>15. CASE UNCHANGED vars
  BY <1>1, <1>15 DEF vars, envVars
<1> QED
  BY <1>4, <1>5, <1>6, <1>7, <1>8, <1>10, <1>11, <1>12, <1>13, <1>14, <1>15
     DEF Next, Manager, Logind

\* Once awake with every signal of logind handled, the inhibitor is held: no
\* lock and no earlier suspend, answered, refused or timed out, spends it.
THEOREM InhibitorAlwaysReady == Spec => []InhibitorReady
<1>1. Init => WakeUpAhead
  BY DEF Init, WakeUpAhead
<1>2. TypeOK /\ WakeUpAhead /\ [Next]_vars => WakeUpAhead'
  BY WakeUpAheadStep
<1>3. WakeUpAhead => InhibitorReady
  BY DEF WakeUpAhead, InhibitorReady
<1> QED
  BY <1>1, <1>2, <1>3, TypeCorrect, PTL DEF Spec

\* The inhibitor outlives an unanswered lock request, up to the 4 s timer.
THEOREM InhibitorHeldWhileRequested == Spec => InhibitorOutlivesRequest
<1> DEFINE Step == inhibit_fd /\ ~inhibit_fd' /\ instance' /\ ~is_locked'
                     => SleepTimeout \/ (WakeUp /\ sleep = "delay")
<1>1. ASSUME [Next]_vars PROVE [Step]_vars
  <2> SUFFICES ASSUME inhibit_fd, ~inhibit_fd', instance', ~is_locked', Next
               PROVE  SleepTimeout \/ (WakeUp /\ sleep = "delay")
    BY <1>1 DEF vars, sleepVars
  <2>1. ASSUME NEW timer \in BOOLEAN, BeginLock(timer) PROVE FALSE
    BY <2>1 DEF BeginLock, KeepSleepInhibitor, Abort
  <2>2. ~LockNow
    <3>1. ASSUME LockNow, MayBegin PROVE FALSE
      BY <3>1 DEF LockNow, BeginLock, KeepSleepInhibitor, Abort
    <3> QED
      BY <3>1 DEF LockNow, sleepVars
  <2>3. ~(LockRequested \/ Idled \/ OnLocked \/ OnFailed)
    BY <2>2 DEF LockRequested, Idled, OnLocked, OnFailed, Abort
  <2>4. ~(UnlockRequested \/ TryAuth \/ BackoffTimeout \/ Resumed)
    BY DEF UnlockRequested, TryAuth, BackoffTimeout, Resumed, sleepVars
  <2>5. ~\E ok \in BOOLEAN : PamVerdict(ok)
    BY DEF PamVerdict, sleepVars
  <2>6. ~\E m \in Monitors : Plug(m) \/ Unplug(m)
    BY DEF Plug, Unplug, ItemsChanged, sleepVars
  <2>7. ~PrepareForSleep
    <3> SUFFICES ASSUME PrepareForSleep PROVE FALSE
      OBVIOUS
    <3>1. ~BeginLock(TRUE)
      BY <2>1
    <3>2. /\ UNCHANGED <<instance, is_locked>>
          /\ IF ~instance \/ is_locked THEN ReleaseSleepInhibitor(TRUE)
                                       ELSE KeepSleepInhibitor(TRUE)
      BY <3>1 DEF PrepareForSleep, lockVars
    <3>3. CASE ~instance \/ is_locked
      BY <3>2, <3>3
    <3>4. CASE ~(~instance \/ is_locked)
      BY <3>2, <3>4 DEF KeepSleepInhibitor
    <3> QED
      BY <3>3, <3>4
  <2>8. ~Logind
    BY DEF Logind, LogindSuspend, LogindSleep, LogindForceSleep, LogindResume, sleepVars
  <2>9. WakeUp => sleep = "delay"
    BY DEF WakeUp, TakeDelayInhibitor
  <2> QED
    BY <2>3, <2>4, <2>5, <2>6, <2>7, <2>8, <2>9 DEF Next, Manager
<1> QED
  BY <1>1, PTL DEF Spec, InhibitorOutlivesRequest

-----------------------------------------------------------------------------
(***************************************************************************)
(* The suspend timer and the idle notification follow the lock.            *)
(***************************************************************************)
LEMMA BeginLockTimer ==
  ASSUME MayBegin, NEW timer \in BOOLEAN, BeginLock(timer)
  PROVE  /\ ~is_locked'
         /\ TimerMeansPending'
BY DEF MayBegin, BeginLock, Abort, KeepSleepInhibitor, ReleaseSleepInhibitor,
       TimerMeansPending

LEMMA TimerStep ==
  ASSUME TypeOK, SInv, TimerMeansPending, [Next]_vars
  PROVE  TimerMeansPending'
<1>1. ASSUME UNCHANGED <<lockVars, sleepVars>> PROVE TimerMeansPending'
  BY <1>1 DEF TimerMeansPending, lockVars, sleepVars
<1>2. ASSUME LockNow PROVE TimerMeansPending'
  BY <1>1, <1>2, BeginLockTimer DEF LockNow, TypeOK
<1>3. ASSUME sleep_timeout_id' = FALSE PROVE TimerMeansPending'
  BY <1>3 DEF TimerMeansPending
<1>4. CASE LockRequested \/ Idled
  BY <1>2, <1>4 DEF LockRequested, Idled
<1>5. CASE OnLocked \/ OnFailed \/ SleepTimeout
  BY <1>3, <1>5 DEF OnLocked, OnFailed, SleepTimeout, ReleaseSleepInhibitor
<1>6. ASSUME UnlockNow, UNCHANGED sleepVars PROVE TimerMeansPending'
  BY <1>1, <1>6 DEF UnlockNow, TimerMeansPending, sleepVars
<1>7. CASE UnlockRequested
  BY <1>6, <1>7 DEF UnlockRequested
<1>8. ASSUME NEW ok \in BOOLEAN, PamVerdict(ok) PROVE TimerMeansPending'
  BY <1>1, <1>6, <1>8 DEF PamVerdict, OnAuthFail
<1>9. CASE TryAuth \/ BackoffTimeout \/ Resumed
  BY <1>1, <1>9 DEF TryAuth, BackoffTimeout, Resumed
<1>10. ASSUME NEW m \in Monitors, Plug(m) \/ Unplug(m) PROVE TimerMeansPending'
  BY <1>1, <1>10 DEF Plug, Unplug, ItemsChanged
<1>11. CASE PrepareForSleep
  <2>1. CASE MayBegin /\ BeginLock(TRUE)
    BY <2>1, BeginLockTimer
  <2>2. CASE /\ IF ~instance \/ is_locked THEN ReleaseSleepInhibitor(TRUE)
                                          ELSE KeepSleepInhibitor(TRUE)
             /\ UNCHANGED lockVars
    BY <1>3, <2>2 DEF ReleaseSleepInhibitor, TimerMeansPending, lockVars
  <2> QED
    BY <1>11, <2>1, <2>2 DEF PrepareForSleep
<1>12. CASE WakeUp
  BY <1>3, <1>12 DEF WakeUp
<1>13. CASE Logind
  BY <1>1, <1>13 DEF Logind, LogindSuspend, LogindSleep, LogindForceSleep, LogindResume
<1>14. CASE UNCHANGED vars
  BY <1>1, <1>14 DEF vars
<1> QED
  BY <1>4, <1>5, <1>7, <1>8, <1>9, <1>10, <1>11, <1>12, <1>13, <1>14 DEF Next, Manager

\* The suspend timer never runs without a lock request to wait for.
THEOREM TimerOnlyWhilePending == Spec => []TimerMeansPending
<1>1. Init => TimerMeansPending
  BY DEF Init, TimerMeansPending
<1>2. TypeOK /\ SInv /\ TimerMeansPending /\ [Next]_vars => TimerMeansPending'
  BY TimerStep
<1> QED
  BY <1>1, <1>2, AnswersInvariant, PTL DEF Spec

LEMMA IdleStep ==
  ASSUME TypeOK, IdleFollowsLock, [Next]_vars
  PROVE  IdleFollowsLock'
<1> SUFFICES ASSUME IdleAvailable PROVE notification' = "none" <=> is_locked'
  BY DEF IdleFollowsLock
<1>1. notification = "none" <=> is_locked
  BY DEF IdleFollowsLock
<1>2. ASSUME LockNow PROVE is_locked' <=> is_locked
  <2>1. CASE MayBegin
    BY <1>2, <2>1, BeginLockTimer DEF LockNow, MayBegin, lockVars, TypeOK
  <2>2. CASE ~MayBegin
    BY <1>2, <2>2 DEF LockNow, lockVars
  <2> QED
    BY <2>1, <2>2
<1>3. ASSUME UnlockNow PROVE notification' = "none" <=> is_locked'
  BY <1>1, <1>3 DEF UnlockNow, OnUnlocked, ArmIdle, lockVars
<1>4. CASE LockRequested \/ Idled
  BY <1>1, <1>2, <1>4 DEF LockRequested, Idled
<1>5. CASE OnLocked \/ OnFailed
  BY <1>1, <1>5 DEF OnLocked, OnFailed, Abort
<1>6. CASE UnlockRequested
  BY <1>3, <1>6 DEF UnlockRequested
<1>7. ASSUME NEW ok \in BOOLEAN, PamVerdict(ok)
      PROVE  notification' = "none" <=> is_locked'
  BY <1>1, <1>3, <1>7 DEF PamVerdict, OnAuthFail, lockVars
<1>8. CASE TryAuth \/ BackoffTimeout \/ Resumed \/ WakeUp \/ SleepTimeout
  BY <1>1, <1>8 DEF TryAuth, BackoffTimeout, Resumed, WakeUp, SleepTimeout, lockVars
<1>9. ASSUME NEW m \in Monitors, Plug(m) \/ Unplug(m)
      PROVE  notification' = "none" <=> is_locked'
  BY <1>1, <1>9 DEF Plug, Unplug, ItemsChanged, lockVars
<1>10. CASE PrepareForSleep
  <2>1. ASSUME MayBegin, BeginLock(TRUE) PROVE ~is_locked' /\ ~is_locked
    BY <2>1, BeginLockTimer DEF MayBegin
  <2> QED
    BY <1>1, <1>10, <2>1 DEF PrepareForSleep, lockVars
<1>11. CASE Logind
  BY <1>1, <1>11 DEF Logind, LogindSuspend, LogindSleep, LogindForceSleep, LogindResume,
                     lockVars
<1>12. CASE UNCHANGED vars
  BY <1>1, <1>12 DEF vars, lockVars
<1> QED
  BY <1>4, <1>5, <1>6, <1>7, <1>8, <1>9, <1>10, <1>11, <1>12 DEF Next, Manager

\* Idle auto-lock is armed exactly while the session is not locked.
THEOREM IdleArmedWhileUnlocked == Spec => []IdleFollowsLock
<1>1. Init => IdleFollowsLock
  BY DEF Init, IdleFollowsLock, ArmIdle
<1>2. TypeOK /\ IdleFollowsLock /\ [Next]_vars => IdleFollowsLock'
  BY IdleStep
<1> QED
  BY <1>1, <1>2, TypeCorrect, PTL DEF Spec

\* What the daemon holds of logind, of the compositor and of the main loop
\* agrees with the lock, whatever locks, refusals and suspends came before.
THEOREM HoldsAlwaysWhatItNeeds == Spec => []HoldsWhatItNeeds
BY TimerOnlyWhilePending, InhibitorAlwaysReady, IdleArmedWhileUnlocked, PTL
   DEF HoldsWhatItNeeds

\* A lock is undone only by its own password or from outside, and an inhibitor
\* with a request unanswered dropped only by its timer.
THEOREM NothingElseUndoes == Spec => UndoneByItsOwn
BY VerdictIsForThisLock, InhibitorHeldWhileRequested DEF UndoneByItsOwn

-----------------------------------------------------------------------------
(***************************************************************************)
(* Refinement.  Under SInv the surfaces are a function of the phase and    *)
(* the monitors, so a step refines the contract when its change of the     *)
(* phase does.                                                             *)
(***************************************************************************)
LEMMA MappedStep ==
  ASSUME TypeOK, TypeOK', SInv, SInv',
         \/ Phase' = Phase
         \/ /\ live' = live
            /\ <<Phase, Phase'>> \in
                 {<<"unlocked", "requested">>, <<"requested", "unlocked">>,
                  <<"requested", "locked">>, <<"locked", "unlocked">>}
  PROVE  [SL!Next]_(SL!vars)
<1> DEFINE Surfaces == {m \in Monitors : windows[m] # "absent"}
<1>1. /\ Surfaces = IF Phase = "locked" THEN live ELSE {}
      /\ Surfaces' = IF Phase' = "locked" THEN live' ELSE {}
      /\ live' \in SUBSET Monitors
  <2>1. Surfaces = IF is_locked THEN live ELSE {}
    BY DEF TypeOK, SInv, OneSurfacePerMonitor, NoSurfaceUnlessLocked, NoWindows
  <2>2. Surfaces' = IF is_locked' THEN live' ELSE {}
    BY DEF TypeOK, SInv, OneSurfacePerMonitor, NoSurfaceUnlessLocked, NoWindows
  <2>3. (Phase = "locked" <=> is_locked) /\ (Phase' = "locked" <=> is_locked')
    BY DEF Phase
  <2>4. live' \in SUBSET Monitors
    BY DEF TypeOK
  <2> HIDE DEF Surfaces
  <2>5. Surfaces = IF Phase = "locked" THEN live ELSE {}
    BY <2>1, <2>3
  <2>6. Surfaces' = IF Phase' = "locked" THEN live' ELSE {}
    BY <2>2, <2>3
  <2> QED
    BY <2>4, <2>5, <2>6
<1> HIDE DEF Surfaces
<1>2. CASE Phase' = Phase
  BY <1>1, <1>2 DEF SL!Next, SL!Hotplug, Surfaces
<1>3. CASE live' = live /\ Phase = "unlocked" /\ Phase' = "requested"
  BY <1>1, <1>3 DEF SL!Next, SL!Request, Surfaces
<1>4. CASE live' = live /\ Phase = "requested" /\ Phase' = "unlocked"
  BY <1>1, <1>4 DEF SL!Next, SL!Refuse, Surfaces
<1>5. CASE live' = live /\ Phase = "requested" /\ Phase' = "locked"
  BY <1>1, <1>5 DEF SL!Next, SL!Grant, Surfaces
<1>6. CASE live' = live /\ Phase = "locked" /\ Phase' = "unlocked"
  BY <1>1, <1>6 DEF SL!Next, SL!Release, Surfaces
<1> QED
  BY <1>2, <1>3, <1>4, <1>5, <1>6

\* Handlers that touch neither the lock nor the monitors keep the phase.
LEMMA BeginLockMaps ==
  ASSUME MayBegin, NEW timer \in BOOLEAN, BeginLock(timer)
  PROVE  /\ Phase = "unlocked"
         /\ Phase' \in {"unlocked", "requested"}
BY DEF MayBegin, BeginLock, Abort, Phase

LEMMA UnlockNowMaps ==
  ASSUME UnlockNow
  PROVE  Phase' = Phase \/ (Phase = "locked" /\ Phase' = "unlocked")
BY DEF UnlockNow, OnUnlocked, Phase, lockVars

\* The lock screen is a correct client of the session lock protocol: every
\* behaviour is one of the contract.
THEOREM ImplementsSessionLock == Spec => SessionLockContract
<1>1. Init => SL!Init
  BY DEF Init, SL!Init, Phase, NoWindows
<1>2. TypeOK /\ TypeOK' /\ SInv /\ SInv' /\ [Next]_vars => [SL!Next]_(SL!vars)
  <2> SUFFICES ASSUME TypeOK, TypeOK', SInv, SInv', [Next]_vars
               PROVE  [SL!Next]_(SL!vars)
    OBVIOUS
  <2>1. ASSUME UNCHANGED lockVars PROVE [SL!Next]_(SL!vars)
    <3>1. Phase' = Phase
      BY <2>1 DEF Phase, lockVars
    <3> QED
      BY <3>1, MappedStep
  <2>2. ASSUME MayBegin, NEW timer \in BOOLEAN, BeginLock(timer), live' = live
        PROVE  [SL!Next]_(SL!vars)
    BY <2>2, BeginLockMaps, MappedStep
  <2>3. ASSUME LockNow, live' = live PROVE [SL!Next]_(SL!vars)
    BY <2>1, <2>2, <2>3 DEF LockNow, TypeOK
  <2>4. ASSUME UnlockNow, live' = live PROVE [SL!Next]_(SL!vars)
    BY <2>4, UnlockNowMaps, MappedStep
  <2>5. CASE LockRequested \/ Idled
    BY <2>3, <2>5 DEF LockRequested, Idled, envVars
  <2>6. CASE OnLocked
    <3>1. Phase = "requested" /\ Phase' = "locked" /\ live' = live
      BY <2>6 DEF OnLocked, Phase, envVars
    <3> QED
      BY <3>1, MappedStep
  <2>7. CASE OnFailed
    <3>1. Phase = "requested" /\ Phase' = "unlocked" /\ live' = live
      BY <2>7 DEF OnFailed, Abort, Phase, envVars
    <3> QED
      BY <3>1, MappedStep
  <2>8. CASE UnlockRequested
    BY <2>4, <2>8 DEF UnlockRequested, envVars
  <2>9. ASSUME NEW ok \in BOOLEAN, PamVerdict(ok) PROVE [SL!Next]_(SL!vars)
    BY <2>1, <2>4, <2>9 DEF PamVerdict, OnAuthFail, envVars
  <2>10. CASE TryAuth \/ BackoffTimeout \/ Resumed \/ WakeUp \/ SleepTimeout
    BY <2>1, <2>10 DEF TryAuth, BackoffTimeout, Resumed, WakeUp, SleepTimeout
  <2>11. CASE PrepareForSleep
    BY <2>1, <2>2, <2>11 DEF PrepareForSleep
  <2>12. ASSUME NEW m \in Monitors, Plug(m) \/ Unplug(m) PROVE [SL!Next]_(SL!vars)
    BY <2>1, <2>12 DEF Plug, Unplug, ItemsChanged
  <2>13. CASE Logind
    BY <2>1, <2>13 DEF Logind, LogindSuspend, LogindSleep, LogindForceSleep, LogindResume
  <2>14. CASE UNCHANGED vars
    BY <2>1, <2>14 DEF vars
  <2> QED
    BY <2>5, <2>6, <2>7, <2>8, <2>9, <2>10, <2>11, <2>12, <2>13, <2>14 DEF Next, Manager
<1> QED
  BY <1>1, <1>2, AnswersInvariant, PTL DEF Spec, SessionLockContract, SL!Spec

-----------------------------------------------------------------------------
(***************************************************************************)
(* AuthFlow, for any identities, any number of attempts and of passwords   *)
(* typed ahead.                                                            *)
(***************************************************************************)
LEMMA FlowBounds == MAX_ATTEMPTS \in Nat \ {0} /\ MaxQueued \in Nat
BY AttemptsAssumption

\* However many helpers fail to start, what start_session leaves is a session of
\* that identity with attempts left, or a flow that is done; a flow that was done
\* stays so.
LEMMA Outcomes ==
  ASSUME NEW n \in 0 .. MAX_ATTEMPTS, NEW over \in BOOLEAN,
         over \/ n < MAX_ATTEMPTS,
         NEW id \in Identities, NEW outcome \in Started(n, over, id)
  PROVE  /\ outcome.attempts \in 0 .. MAX_ATTEMPTS
         /\ outcome.done \in BOOLEAN
         /\ outcome.session \in Identities \union {NoSession}
         /\ over => outcome.done
         /\ ~outcome.done => outcome.session = id /\ outcome.attempts < MAX_ATTEMPTS
<1>1. CASE over
  <2>1. \/ outcome = [attempts |-> n, done |-> over, session |-> id]
        \/ outcome = [attempts |-> n, done |-> over, session |-> NoSession]
    BY <1>1 DEF Started
  <2>2. /\ outcome.attempts = n /\ outcome.done = over
        /\ outcome.session \in Identities \union {NoSession}
    BY <2>1
  <2>3. outcome.done \in BOOLEAN
    BY <2>2
  <2> QED
    BY <1>1, <2>2, <2>3
<1>2. CASE ~over
  <2>1. \/ outcome = [attempts |-> n, done |-> over, session |-> id]
        \/ \E k \in n + 1 .. MAX_ATTEMPTS :
             outcome = IF Exhausted(k)
                       THEN [attempts |-> k, done |-> TRUE, session |-> NoSession]
                       ELSE [attempts |-> k, done |-> FALSE, session |-> id]
    BY <1>2 DEF Started
  <2>2. CASE outcome = [attempts |-> n, done |-> over, session |-> id]
    BY <1>2, <2>2
  <2>3. ASSUME NEW k \in n + 1 .. MAX_ATTEMPTS,
               outcome = IF Exhausted(k)
                         THEN [attempts |-> k, done |-> TRUE, session |-> NoSession]
                         ELSE [attempts |-> k, done |-> FALSE, session |-> id]
        PROVE  /\ outcome.attempts \in 0 .. MAX_ATTEMPTS
               /\ outcome.done \in BOOLEAN
               /\ outcome.session \in Identities \union {NoSession}
               /\ ~outcome.done => outcome.session = id /\ outcome.attempts < MAX_ATTEMPTS
    <3>1. k \in 0 .. MAX_ATTEMPTS
      BY FlowBounds
    <3>2. CASE Exhausted(k)
      BY <2>3, <3>1, <3>2
    <3>3. CASE ~Exhausted(k)
      BY <2>3, <3>1, <3>3, FlowBounds DEF Exhausted
    <3> QED
      BY <3>2, <3>3
  <2> QED
    BY <1>2, <2>1, <2>2, <2>3
<1> QED
  BY <1>1, <1>2

-----------------------------------------------------------------------------
(***************************************************************************)
(* The invariant.  done is what the handlers test; that it says the same as*)
(* the answer being given is what keeps each answer the only one.          *)
(***************************************************************************)
AnsweredOnce ==
  /\ done = (phase = "answered")
  /\ (answer = "none") = ~done
  /\ user_cancelled => done
  /\ phase = "created" => session = NoSession /\ attempts = 0 /\ ~awaiting

FlowInv == GrantIsEarned /\ RequestIsServed /\ AnsweredOnce

LEMMA FlowStart ==
  ASSUME RequestInit
  PROVE  FlowInv
<1>1. RequestTypeOK
  <2>1. /\ done \in BOOLEAN /\ gained \in BOOLEAN /\ user_cancelled \in BOOLEAN
        /\ token \in BOOLEAN /\ busy \in BOOLEAN /\ awaiting \in BOOLEAN
    BY DEF RequestInit
  <2>2. attempts \in 0 .. MAX_ATTEMPTS /\ queued \in 0 .. MaxQueued
    BY FlowBounds DEF RequestInit
  <2> QED
    BY <2>1, <2>2 DEF RequestInit, RequestTypeOK
<1> QED
  BY <1>1 DEF RequestInit, FlowInv, GrantIsEarned, RequestIsServed,
              SessionIsForChosen, NeverShutWhileAsked, AnsweredOnce

\* The end of a flow, whoever ends it.
LEMMA FinishKeeps ==
  ASSUME FlowInv, NEW authorized \in BOOLEAN,
         NEW cancelled \in BOOLEAN,
         Finish(authorized, cancelled),
         UNCHANGED chosen, user_cancelled' \in BOOLEAN, token' \in BOOLEAN,
            busy' \in BOOLEAN,
         attempts' \in 0 .. MAX_ATTEMPTS,
         proved' \in Identities \union {NoSession},
         user_cancelled' => cancelled,
         authorized /\ ~cancelled => proved' = chosen
  PROVE  FlowInv'
<1>1. /\ phase' = "answered" /\ done' = TRUE /\ gained' = authorized
      /\ session' = NoSession /\ awaiting' = FALSE /\ queued' = 0
      /\ answer' = Verdict(authorized, cancelled)
  BY DEF Finish, Return
<1>2. /\ answer' \in {"granted", "denied", "cancelled"}
      /\ answer' = "granted" => authorized /\ ~cancelled
  BY <1>1 DEF Verdict
<1>3. RequestTypeOK'
  <2>1. /\ done' \in BOOLEAN /\ gained' \in BOOLEAN /\ awaiting' \in BOOLEAN
    BY <1>1
  <2>2. queued' \in 0 .. MaxQueued
    BY <1>1, FlowBounds
  <2> QED
    BY <1>1, <1>2, <2>1, <2>2 DEF FlowInv, GrantIsEarned, RequestTypeOK
<1> QED
  BY <1>1, <1>2, <1>3
     DEF FlowInv, GrantIsEarned, RequestIsServed, SessionIsForChosen,
         NeverShutWhileAsked, AnsweredOnce

\* A session started anew, or the end of the attempts.
LEMMA BecomeKeeps ==
  ASSUME FlowInv, NEW outcome, NEW cancelled \in BOOLEAN,
         phase # "answered",
         Become(outcome),
         outcome.attempts \in 0 .. MAX_ATTEMPTS, outcome.done \in BOOLEAN,
         outcome.session \in Identities \union {NoSession},
         ~outcome.done => outcome.session = chosen' /\ outcome.attempts < MAX_ATTEMPTS,
         IF outcome.done THEN Return(FALSE, cancelled)
         ELSE phase' = "waiting" /\ UNCHANGED answer,
         chosen' \in Identities, busy' \in BOOLEAN,
         UNCHANGED <<gained, user_cancelled, token, proved>>
  PROVE  FlowInv'
<1>1. /\ attempts' = outcome.attempts /\ done' = outcome.done /\ session' = outcome.session
      /\ awaiting' = FALSE /\ queued' = 0
  BY DEF Become
<1>2. ~done /\ answer = "none" /\ ~user_cancelled
  BY DEF FlowInv, AnsweredOnce
<1>5. done' \in BOOLEAN /\ awaiting' \in BOOLEAN /\ queued' \in 0 .. MaxQueued
  <2>1. awaiting' \in BOOLEAN
    BY <1>1
  <2>2. queued' \in 0 .. MaxQueued
    BY <1>1, FlowBounds
  <2> QED
    BY <1>1, <2>1, <2>2
<1>3. CASE outcome.done
  <2>1. phase' = "answered" /\ answer' \in {"denied", "cancelled"}
    BY <1>3 DEF Return, Verdict
  <2>2. RequestTypeOK'
    BY <1>1, <1>5, <2>1 DEF FlowInv, GrantIsEarned, RequestTypeOK
  <2> QED
    BY <1>1, <1>2, <1>3, <2>1, <2>2
       DEF FlowInv, GrantIsEarned, RequestIsServed, SessionIsForChosen,
           NeverShutWhileAsked, AnsweredOnce
<1>4. CASE ~outcome.done
  <2>1. phase' = "waiting" /\ answer' = "none"
    BY <1>2, <1>4
  <2>2. RequestTypeOK'
    BY <1>1, <1>5, <2>1 DEF FlowInv, GrantIsEarned, RequestTypeOK
  <2> QED
    BY <1>1, <1>2, <1>4, <2>1, <2>2
       DEF FlowInv, GrantIsEarned, RequestIsServed, SessionIsForChosen,
           NeverShutWhileAsked, AnsweredOnce
<1> QED
  BY <1>3, <1>4

-----------------------------------------------------------------------------
LEMMA RunKeeps ==
  ASSUME FlowInv, Run
  PROVE  FlowInv'
<1>1. PICK outcome \in Started(0, FALSE, chosen) :
        IF outcome.done
        THEN /\ \E again \in Started(outcome.attempts, TRUE, chosen) : Become(again)
             /\ Return(FALSE, token)
        ELSE Become(outcome) /\ phase' = "waiting" /\ UNCHANGED answer
  BY DEF Run
<1>2. chosen \in Identities /\ busy \in BOOLEAN /\ token \in BOOLEAN
  BY DEF FlowInv, GrantIsEarned, RequestTypeOK
<1>3. /\ phase = "created"
      /\ UNCHANGED <<chosen, gained, user_cancelled, token, busy, proved>>
  BY DEF Run
<1>4. /\ outcome.attempts \in 0 .. MAX_ATTEMPTS /\ outcome.done \in BOOLEAN
      /\ outcome.session \in Identities \union {NoSession}
      /\ ~outcome.done => outcome.session = chosen /\ outcome.attempts < MAX_ATTEMPTS
  <2>1. 0 \in 0 .. MAX_ATTEMPTS /\ 0 < MAX_ATTEMPTS
    BY FlowBounds
  <2>2. FALSE \in BOOLEAN
    OBVIOUS
  <2> QED
    BY <1>2, <2>1, <2>2, Outcomes
<1>5. CASE outcome.done
  <2>1. PICK again \in Started(outcome.attempts, TRUE, chosen) : Become(again)
    BY <1>1, <1>5
  <2>2. /\ again.attempts \in 0 .. MAX_ATTEMPTS /\ again.done \in BOOLEAN
        /\ again.session \in Identities \union {NoSession} /\ again.done
    BY <1>2, <1>4, Outcomes
  <2> QED
    BY <1>1, <1>2, <1>3, <1>5, <2>1, <2>2, BecomeKeeps
<1>6. CASE ~outcome.done
  BY <1>1, <1>2, <1>3, <1>4, <1>6, BecomeKeeps
<1> QED
  BY <1>5, <1>6

LEMMA RequestKeeps ==
  ASSUME FlowInv, SessionRequest
  PROVE  FlowInv'
<1>1. /\ phase = "waiting" /\ awaiting' = (queued = 0) /\ busy' = FALSE
      /\ queued' = IF queued = 0 THEN 0 ELSE queued - 1
      /\ UNCHANGED <<session, done, gained, attempts, chosen, user_cancelled, token,
                     phase, answer, proved>>
  BY DEF SessionRequest, SessionRunning, ShowPrompt, flowVars, answerVars
<1>2. queued' \in 0 .. MaxQueued
  <2>1. queued \in 0 .. MaxQueued
    BY DEF FlowInv, GrantIsEarned, RequestTypeOK
  <2> QED
    BY <1>1, <2>1, FlowBounds
<1>3. awaiting' \in BOOLEAN
  BY <1>1
<1>4. RequestTypeOK'
  BY <1>1, <1>2, <1>3 DEF FlowInv, GrantIsEarned, RequestTypeOK
<1> QED
  BY <1>1, <1>4
     DEF FlowInv, GrantIsEarned, RequestIsServed, SessionIsForChosen,
         NeverShutWhileAsked, AnsweredOnce

LEMMA SubmitKeeps ==
  ASSUME FlowInv, OnSubmit
  PROVE  FlowInv'
<1>1. /\ phase = "waiting" /\ awaiting' = FALSE /\ busy' = TRUE /\ queued < MaxQueued
      /\ queued' = IF awaiting THEN queued ELSE queued + 1
      /\ UNCHANGED <<session, done, gained, attempts, chosen, user_cancelled, token,
                     phase, answer, proved>>
  BY DEF OnSubmit, SessionRunning, flowVars, answerVars
<1>2. queued' \in 0 .. MaxQueued
  <2>1. queued \in 0 .. MaxQueued
    BY DEF FlowInv, GrantIsEarned, RequestTypeOK
  <2> QED
    BY <1>1, <2>1, FlowBounds
<1>3. RequestTypeOK'
  BY <1>1, <1>2 DEF FlowInv, GrantIsEarned, RequestTypeOK
<1> QED
  BY <1>1, <1>3
     DEF FlowInv, GrantIsEarned, RequestIsServed, SessionIsForChosen,
         NeverShutWhileAsked, AnsweredOnce

LEMMA AuthorizedKeeps ==
  ASSUME FlowInv, SessionAuthorized
  PROVE  FlowInv'
<1>1. /\ phase = "waiting" /\ proved' = session
      /\ Finish(TRUE, user_cancelled \/ token)
      /\ UNCHANGED <<attempts, chosen, user_cancelled, token, busy>>
  BY DEF SessionAuthorized, SessionRunning
<1>2. session = chosen
  BY <1>1 DEF FlowInv, RequestIsServed, SessionIsForChosen
<1>3. /\ user_cancelled \in BOOLEAN /\ token \in BOOLEAN /\ busy \in BOOLEAN
      /\ attempts \in 0 .. MAX_ATTEMPTS /\ chosen \in Identities
  BY DEF FlowInv, GrantIsEarned, RequestTypeOK
<1>4. (user_cancelled \/ token) \in BOOLEAN
  OBVIOUS
<1> QED
  BY <1>1, <1>2, <1>3, <1>4, FinishKeeps

LEMMA FailedKeeps ==
  ASSUME FlowInv, SessionFailed
  PROVE  FlowInv'
<1>1. /\ phase = "waiting" /\ busy' = FALSE
      /\ UNCHANGED <<chosen, user_cancelled, token, proved>>
  BY DEF SessionFailed, SessionRunning
<1>2. /\ user_cancelled \in BOOLEAN /\ token \in BOOLEAN
      /\ attempts \in 0 .. MAX_ATTEMPTS /\ chosen \in Identities
      /\ proved \in Identities \union {NoSession}
  BY DEF FlowInv, GrantIsEarned, RequestTypeOK
<1>3. attempts + 1 \in 0 .. MAX_ATTEMPTS
  BY <1>1, <1>2, FlowBounds DEF FlowInv, RequestIsServed, SessionIsForChosen
<1>4. (user_cancelled \/ token) \in BOOLEAN
  OBVIOUS
<1>5. CASE Exhausted(attempts + 1)
  <2>1. attempts' = attempts + 1 /\ Finish(FALSE, user_cancelled \/ token)
    BY <1>5 DEF SessionFailed
  <2> QED
    BY <1>1, <1>2, <1>3, <1>4, <2>1, FinishKeeps
<1>6. CASE ~Exhausted(attempts + 1)
  <2>1. PICK outcome \in Started(attempts + 1, FALSE, chosen) :
          /\ Become(outcome)
          /\ UNCHANGED gained
          /\ IF outcome.done THEN Return(FALSE, user_cancelled \/ token)
             ELSE UNCHANGED answerVars
    BY <1>6 DEF SessionFailed
  <2>2. attempts + 1 < MAX_ATTEMPTS
    BY <1>3, <1>6, FlowBounds DEF Exhausted
  <2>3. /\ outcome.attempts \in 0 .. MAX_ATTEMPTS /\ outcome.done \in BOOLEAN
        /\ outcome.session \in Identities \union {NoSession}
        /\ ~outcome.done => outcome.session = chosen /\ outcome.attempts < MAX_ATTEMPTS
    BY <1>2, <1>3, <2>2, Outcomes
  <2>4. IF outcome.done THEN Return(FALSE, user_cancelled \/ token)
        ELSE phase' = "waiting" /\ UNCHANGED answer
    BY <1>1, <2>1 DEF answerVars
  <2> QED
    BY <1>1, <1>2, <1>4, <2>1, <2>3, <2>4, BecomeKeeps
<1> QED
  BY <1>5, <1>6

LEMMA IdentityKeeps ==
  ASSUME FlowInv, IdentityChanged
  PROVE  FlowInv'
<1>1. PICK id \in Identities : chosen' = id /\ RestartSession(id)
  BY DEF IdentityChanged
<1>2. phase = "waiting" /\ UNCHANGED <<user_cancelled, token, proved>>
  BY DEF IdentityChanged, SessionRunning
<1>3. PICK first \in IF Exhausted(attempts + 1)
                     THEN {[attempts |-> attempts + 1, done |-> TRUE, session |-> NoSession]}
                     ELSE Started(attempts + 1, FALSE, id) :
        \E second \in Started(first.attempts, first.done, id) :
          /\ Become(second)
          /\ IF second.done THEN Return(FALSE, user_cancelled \/ token)
             ELSE UNCHANGED answerVars
  BY <1>1 DEF RestartSession
<1>4. PICK second \in Started(first.attempts, first.done, id) :
        /\ Become(second)
        /\ IF second.done THEN Return(FALSE, user_cancelled \/ token)
           ELSE UNCHANGED answerVars
  BY <1>3
<1>5. busy' = FALSE /\ UNCHANGED gained
  BY <1>1 DEF RestartSession
<1>6. attempts + 1 \in 0 .. MAX_ATTEMPTS
  BY <1>2, FlowBounds
     DEF FlowInv, GrantIsEarned, RequestTypeOK, RequestIsServed,
         SessionIsForChosen
<1>7. /\ first.attempts \in 0 .. MAX_ATTEMPTS /\ first.done \in BOOLEAN
      /\ first.done \/ first.attempts < MAX_ATTEMPTS
  <2>1. CASE Exhausted(attempts + 1)
    <3>1. first = [attempts |-> attempts + 1, done |-> TRUE, session |-> NoSession]
      BY <1>3, <2>1
    <3> QED
      BY <1>6, <3>1
  <2>2. CASE ~Exhausted(attempts + 1)
    <3>1. attempts + 1 < MAX_ATTEMPTS
      BY <1>6, <2>2, FlowBounds DEF Exhausted
    <3>2. first \in Started(attempts + 1, FALSE, id)
      BY <1>3, <2>2
    <3> QED
      BY <1>6, <3>1, <3>2, Outcomes
  <2> QED
    BY <2>1, <2>2
<1>8. /\ second.attempts \in 0 .. MAX_ATTEMPTS /\ second.done \in BOOLEAN
      /\ second.session \in Identities \union {NoSession}
      /\ ~second.done => second.session = id /\ second.attempts < MAX_ATTEMPTS
  BY <1>7, Outcomes
<1>9. IF second.done THEN Return(FALSE, user_cancelled \/ token)
      ELSE phase' = "waiting" /\ UNCHANGED answer
  BY <1>2, <1>4 DEF answerVars
<1>10. (user_cancelled \/ token) \in BOOLEAN
  OBVIOUS
<1> QED
  BY <1>1, <1>2, <1>4, <1>5, <1>8, <1>9, <1>10, BecomeKeeps

LEMMA CancelKeeps ==
  ASSUME FlowInv, DialogCancel \/ CancelAuthentication
  PROVE  FlowInv'
<1>1. /\ user_cancelled \in BOOLEAN /\ busy \in BOOLEAN /\ token \in BOOLEAN
      /\ attempts \in 0 .. MAX_ATTEMPTS /\ proved \in Identities \union {NoSession}
  BY DEF FlowInv, GrantIsEarned, RequestTypeOK
<1>2. CASE DialogCancel
  BY <1>1, <1>2, FinishKeeps DEF DialogCancel
<1>3. CASE CancelAuthentication /\ done
  <2>1. /\ token' = TRUE
        /\ UNCHANGED <<session, done, gained, attempts, awaiting, queued, phase, answer,
                       chosen, user_cancelled, busy, proved>>
    BY <1>3 DEF CancelAuthentication, flowVars, helperVars, answerVars
  <2>2. RequestTypeOK'
    BY <2>1 DEF FlowInv, GrantIsEarned, RequestTypeOK
  <2> QED
    BY <2>1, <2>2
       DEF FlowInv, GrantIsEarned, RequestIsServed, SessionIsForChosen,
           NeverShutWhileAsked, AnsweredOnce
<1>4. CASE CancelAuthentication /\ ~done
  BY <1>1, <1>4, FinishKeeps DEF CancelAuthentication
<1> QED
  BY <1>2, <1>3, <1>4

LEMMA FlowStep ==
  ASSUME FlowInv, [RequestNext]_requestVars
  PROVE  FlowInv'
<1>1. CASE UNCHANGED requestVars
  <2>1. RequestTypeOK'
    BY <1>1 DEF requestVars, flowVars, helperVars, answerVars, FlowInv,
                GrantIsEarned, RequestTypeOK
  <2> QED
    BY <1>1, <2>1
       DEF requestVars, flowVars, helperVars, answerVars, FlowInv,
           GrantIsEarned, RequestIsServed, SessionIsForChosen,
           NeverShutWhileAsked, AnsweredOnce
<1> QED
  BY <1>1, RunKeeps, RequestKeeps, SubmitKeeps, AuthorizedKeeps, FailedKeeps,
     IdentityKeeps, CancelKeeps DEF RequestNext

-----------------------------------------------------------------------------
(***************************************************************************)
(* What always holds.                                                      *)
(***************************************************************************)
LEMMA FlowAlways == RequestSpec => []FlowInv
<1>1. RequestInit => FlowInv
  BY FlowStart
<1>2. FlowInv /\ [RequestNext]_requestVars => FlowInv'
  BY FlowStep
<1> QED
  BY <1>1, <1>2, PTL DEF RequestSpec

\* Only the success of a session of the identity shown last grants a request, and
\* none that the user gave up.
THEOREM OnlyTheShownIdentityGrants == RequestSpec => []GrantIsEarned
<1>1. FlowInv => GrantIsEarned
  BY DEF FlowInv
<1> QED
  BY <1>1, FlowAlways, PTL

\* While a request waits a session of the shown identity runs, with attempts left,
\* and its dialog is open to the password the helper waits for.
THEOREM RequestsAreServed == RequestSpec => []RequestIsServed
<1>1. FlowInv => RequestIsServed
  BY DEF FlowInv
<1> QED
  BY <1>1, FlowAlways, PTL

\* A given answer is never changed, though run() may return twice, and giving up
\* is answered as that.
THEOREM AnswersStand == RequestSpec => AnswerStands
<1> DEFINE Stands == /\ phase = "answered" => answer' = answer
                     /\ (phase = "waiting" /\ user_cancelled') => answer' = "cancelled"
<1>1. FlowInv /\ [RequestNext]_requestVars => [Stands]_requestVars
  <2> SUFFICES ASSUME FlowInv, RequestNext PROVE Stands
    OBVIOUS
  <2>1. done = (phase = "answered") /\ (user_cancelled => done)
    BY DEF FlowInv, AnsweredOnce
  <2>2. CASE Run
    BY <2>2 DEF Run
  <2>3. CASE \/ SessionRequest \/ OnSubmit \/ SessionAuthorized
            \/ SessionFailed \/ IdentityChanged
    <3>1. phase = "waiting" /\ user_cancelled' = user_cancelled
      BY <2>3 DEF SessionRequest, OnSubmit, SessionAuthorized,
                  SessionFailed, IdentityChanged, SessionRunning
    <3> QED
      BY <2>1, <3>1
  <2>4. CASE DialogCancel
    BY <2>4 DEF DialogCancel, Finish, Return, Verdict
  <2>5. CASE CancelAuthentication
    BY <2>1, <2>5 DEF CancelAuthentication, answerVars
  <2> QED
    BY <2>2, <2>3, <2>4, <2>5 DEF RequestNext
<1> QED
  BY <1>1, FlowAlways, PTL DEF RequestSpec, AnswerStands
=============================================================================
