--------------------------- MODULE SettingsProofs ---------------------------
(***************************************************************************)
(* Proofs about the two parts of the system that lumen-settings shows: the *)
(* Wi-Fi service, for any networks and any number of changes, deaths of    *)
(* the monitor and toggles, and the Display page, for any outputs, modes   *)
(* and number of hotplugs.                                                 *)
(***************************************************************************)
EXTENDS Wifi, DisplayPage, FiniteSetTheorems, TLAPS

-----------------------------------------------------------------------------
(***************************************************************************)
(* Lemmas about the pieces the callbacks share.                            *)
(***************************************************************************)
Threads == [Readers -> [at: {"off", "radio", "lists"}, enabled: BOOLEAN]]

LEMMA Starting ==
  ASSUME NEW t \in Readers, threads \in Threads
  PROVE  Starts(t) \in Threads
BY DEF Starts, Threads

LEMMA Taking ==
  ASSUME idles \in Seq(Answers), idles # <<>>
  PROVE  Head(idles) \in Answers /\ Tail(idles) \in Seq(Answers)
OBVIOUS

\* A poll and a scan post the radio they read, a connection whether it stands.
LEMMA Posting ==
  ASSUME NEW a \in Answers
  PROVE  /\ a.job \in Readers => a.enabled \in BOOLEAN
         /\ a.job = "connect" => a.ok \in BOOLEAN
BY DEF Answers, Readers

\* A call of poll_connection keeps the types and leaves a poll to begin, or
\* one begun.
LEMMA Polling ==
  ASSUME PollConnection, threads \in Threads, poll_in_flight \in BOOLEAN,
         poll_again \in BOOLEAN, unread \in BOOLEAN,
         poll_again => poll_in_flight
  PROVE  /\ threads' \in Threads /\ poll_in_flight' \in BOOLEAN /\ poll_again' \in BOOLEAN /\ unread' \in BOOLEAN
         /\ unread' => poll_again'
         /\ poll_again' => poll_in_flight'
<1>1. Starts("poll") \in Threads
  BY Starting DEF Readers
<1> QED
  BY <1>1 DEF PollConnection, PollBusy

LEMMA Scanning ==
  ASSUME NEW stays \in BOOLEAN, RefreshScan(stays),
         threads \in Threads, scanning \in BOOLEAN, unannounced \in BOOLEAN
  PROVE  threads' \in Threads /\ scanning' \in BOOLEAN /\ unannounced' \in BOOLEAN
<1>1. Starts("scan") \in Threads
  BY Starting DEF Readers
<1> QED
  BY <1>1 DEF RefreshScan

\* A change of NetworkManager is unread, and has a line if there is a monitor.
LEMMA Changing ==
  ASSUME NEW r \in BOOLEAN, NEW differs \in BOOLEAN, Becomes(r, differs),
         line \in BOOLEAN, unread \in BOOLEAN
  PROVE  /\ radio' \in BOOLEAN /\ line' \in BOOLEAN /\ unread' \in BOOLEAN
         /\ line => line'
         /\ unread' => unread \/ line' \/ monitor # "alive"
BY DEF Becomes

-----------------------------------------------------------------------------
(***************************************************************************)
(* The inductive invariant.  TypeOK says that the restart timer runs only  *)
(* while the monitor is down, without which starting it again would take   *)
(* the fallback poll from a monitor that is dead and not yet ended.        *)
(***************************************************************************)
IInv == TypeOK /\ ChangesAreDue

LEMMA InitIInv == Init => IInv
<1> SUFFICES ASSUME Init PROVE IInv
  OBVIOUS
<1>1. threads \in Threads
  BY DEF Init, Threads, Readers, Off
<1>2. toggles \in 0 .. MaxToggles /\ power \subseteq Power /\ changes \in 0 .. MaxChanges
  BY BoundsAssumption DEF Init, Power
<1>3. idles \in Seq(Answers)
  BY DEF Init
<1>4. TypeOK
  BY <1>1, <1>2, <1>3 DEF Init, TypeOK, Threads
<1>5. ChangesAreDue
  BY DEF Init, ChangesAreDue
<1> QED
  BY <1>4, <1>5 DEF IInv

LEMMA NextIInv == IInv /\ [Next]_vars => IInv'
<1> SUFFICES ASSUME IInv, [Next]_vars PROVE IInv'
  OBVIOUS
<1> USE DEF IInv
<1>t. threads \in Threads
  BY DEF TypeOK, Threads
<1>1. CASE NetworkManagerChanges
  <2>1. PICK r \in BOOLEAN : Becomes(r, TRUE)
    BY <1>1 DEF NetworkManagerChanges
  <2>2. /\ radio' \in BOOLEAN /\ line' \in BOOLEAN /\ unread' \in BOOLEAN
        /\ line => line'
        /\ unread' => unread \/ line' \/ monitor # "alive"
    BY <2>1, Changing DEF TypeOK
  <2>3. changes' \in 0 .. MaxChanges
    BY <1>1, BoundsAssumption DEF NetworkManagerChanges, TypeOK
  <2>4. TypeOK'
    BY <1>1, <2>2, <2>3 DEF NetworkManagerChanges, TypeOK, viewVars, timerVars, workerVars
  <2>5. ChangesAreDue'
    BY <1>1, <2>2 DEF NetworkManagerChanges, ChangesAreDue, TypeOK, timerVars
  <2> QED
    BY <2>4, <2>5
<1>2. CASE MonitorDies
  <2>1. changes' \in 0 .. MaxChanges
    BY <1>2, BoundsAssumption DEF MonitorDies, TypeOK
  <2>2. TypeOK'
    BY <1>2, <2>1 DEF MonitorDies, TypeOK, viewVars, pollVars, timerVars, workerVars
  <2>3. ChangesAreDue'
    BY <1>2 DEF MonitorDies, ChangesAreDue, pollVars, timerVars
  <2> QED
    BY <2>2, <2>3
<1>3. CASE Line
  <2>1. TypeOK'
    BY <1>3 DEF Line, TypeOK, viewVars, pollVars, workerVars
  <2>2. ChangesAreDue'
    BY <1>3 DEF Line, ChangesAreDue, pollVars
  <2> QED
    BY <2>1, <2>2
<1>4. CASE EventDue
  <2>1. /\ threads' \in Threads /\ poll_in_flight' \in BOOLEAN /\ poll_again' \in BOOLEAN /\ unread' \in BOOLEAN
        /\ unread' => poll_again'
        /\ poll_again' => poll_in_flight'
    BY <1>4, <1>t, Polling DEF EventDue, TypeOK, ChangesAreDue
  <2>2. TypeOK'
    BY <1>4, <2>1 DEF EventDue, TypeOK, Threads, worldVars, viewVars
  <2>3. ChangesAreDue'
    BY <1>4, <2>1 DEF EventDue, ChangesAreDue, worldVars
  <2> QED
    BY <2>2, <2>3
<1>5. CASE Ended
  <2>1. TypeOK'
    BY <1>5 DEF Ended, EndedPolls, TypeOK, viewVars, pollVars, workerVars
  <2>2. ChangesAreDue'
    BY <1>5 DEF Ended, EndedPolls, ChangesAreDue, pollVars
  <2> QED
    BY <2>1, <2>2
<1>6. CASE StartWatch
  <2>1. CASE monitor' = "alive" /\ poll_timer' = FALSE /\ PollConnection
    <3>1. /\ threads' \in Threads /\ poll_in_flight' \in BOOLEAN /\ poll_again' \in BOOLEAN /\ unread' \in BOOLEAN
          /\ unread' => poll_again'
          /\ poll_again' => poll_in_flight'
      BY <2>1, <1>t, Polling DEF TypeOK, ChangesAreDue
    <3>2. TypeOK'
      BY <1>6, <2>1, <3>1 DEF StartWatch, RestartOnce, TypeOK, Threads, viewVars
    <3>3. ChangesAreDue'
      BY <2>1, <3>1 DEF ChangesAreDue
    <3> QED
      BY <3>2, <3>3
  <2>2. CASE UNCHANGED <<monitor, poll_timer, pollVars, threads>>
    <3>1. TypeOK'
      BY <1>6, <2>2 DEF StartWatch, RestartOnce, TypeOK, viewVars, pollVars
    <3>2. ChangesAreDue'
      BY <1>6, <2>2 DEF StartWatch, ChangesAreDue, pollVars
    <3> QED
      BY <3>1, <3>2
  <2> QED
    BY <1>6, <2>1, <2>2 DEF StartWatch
<1>7. CASE PollTick
  <2>1. /\ threads' \in Threads /\ poll_in_flight' \in BOOLEAN /\ poll_again' \in BOOLEAN /\ unread' \in BOOLEAN
        /\ unread' => poll_again'
        /\ poll_again' => poll_in_flight'
    BY <1>7, <1>t, Polling DEF PollTick, TypeOK, ChangesAreDue
  <2>2. TypeOK'
    BY <1>7, <2>1 DEF PollTick, TypeOK, Threads, worldVars, viewVars, timerVars
  <2>3. ChangesAreDue'
    BY <1>7, <2>1 DEF PollTick, ChangesAreDue, worldVars, timerVars
  <2> QED
    BY <2>2, <2>3
<1>8. CASE \E t \in Readers : Read(t)
  <2>1. PICK t \in Readers : QueryEnabled(t) \/ ReadLists(t)
    BY <1>8 DEF Read
  <2>2. CASE QueryEnabled(t)
    <3>1. threads' \in Threads
      BY <1>t, <2>2 DEF QueryEnabled, Threads, TypeOK
    <3>2. TypeOK'
      BY <2>2, <3>1 DEF QueryEnabled, TypeOK, Threads, readerFrame, worldVars, viewVars,
                        pollVars, timerVars
    <3>3. ChangesAreDue'
      BY <2>2 DEF QueryEnabled, ChangesAreDue, readerFrame, worldVars, pollVars, timerVars
    <3> QED
      BY <3>2, <3>3
  <2>3. CASE ReadLists(t)
    <3>1. threads' \in Threads
      BY <1>t, <2>3 DEF ReadLists, Threads, Off
    <3>2. [job |-> t, enabled |-> threads[t].enabled] \in Answers
      BY <1>t DEF Answers, Threads
    <3>3. idles' \in Seq(Answers)
      BY <2>3, <3>2 DEF ReadLists, TypeOK
    <3>4. TypeOK'
      BY <2>3, <3>1, <3>3 DEF ReadLists, TypeOK, Threads, readerFrame, worldVars, viewVars,
                              pollVars, timerVars
    <3>5. ChangesAreDue'
      BY <2>3 DEF ReadLists, ChangesAreDue, readerFrame, worldVars, pollVars, timerVars
    <3> QED
      BY <3>4, <3>5
  <2> QED
    BY <2>1, <2>2, <2>3
<1>9. CASE \E on \in BOOLEAN : ApplyRadio(on)
  <2>1. PICK on \in BOOLEAN : ApplyRadio(on)
    BY <1>9
  <2>2. toggles' \in 0 .. MaxToggles /\ toggles' \in 1 .. MaxToggles
    BY <2>1, BoundsAssumption DEF ApplyRadio, TypeOK
  <2>3. power' \subseteq Power
    BY <2>1, <2>2 DEF ApplyRadio, TypeOK, Power
  <2>4. TypeOK'
    BY <2>1, <2>2, <2>3 DEF ApplyRadio, TypeOK, worldVars, pollVars, timerVars
  <2>5. ChangesAreDue'
    BY <2>1 DEF ApplyRadio, ChangesAreDue, worldVars, pollVars, timerVars
  <2> QED
    BY <2>4, <2>5
<1>10. CASE ScanNow
  <2>1. threads' \in Threads /\ scanning' \in BOOLEAN /\ unannounced' \in BOOLEAN
    BY <1>10, <1>t, Scanning DEF ScanNow, TypeOK
  <2>2. TypeOK'
    BY <1>10, <2>1 DEF ScanNow, TypeOK, Threads, worldVars, pollVars, timerVars
  <2>3. ChangesAreDue'
    BY <1>10 DEF ScanNow, ChangesAreDue, worldVars, pollVars, timerVars
  <2> QED
    BY <2>2, <2>3
<1>11. CASE \E s \in Ssids : ConnectTo(s)
  <2>1. PICK s \in Ssids : ConnectTo(s)
    BY <1>11
  <2>2. connect' \in Nat
    BY <2>1 DEF ConnectTo, TypeOK
  <2>3. connecting_ssid' \in Ssids \union {NoSsid}
    BY <2>1 DEF ConnectTo
  <2>4. /\ UNCHANGED <<radio, monitor, line, changes, enabled, scanning, paused, poll_timer, event_timer>>
        /\ UNCHANGED <<poll_in_flight, poll_again, restart, unread, threads, power, toggles, idles>>
        /\ unannounced' = FALSE
    BY <2>1 DEF ConnectTo, worldVars, pollVars, timerVars
  <2>5. TypeOK'
    BY <2>2, <2>3, <2>4 DEF TypeOK
  <2>6. ChangesAreDue'
    BY <2>4 DEF ChangesAreDue
  <2> QED
    BY <2>5, <2>6
<1>12. CASE \E on \in BOOLEAN : Pause(on)
  <2>1. PICK on \in BOOLEAN : Pause(on)
    BY <1>12
  <2>2. TypeOK'
    BY <2>1 DEF Pause, TypeOK, worldVars, viewVars, pollVars, timerVars, workerVars
  <2>3. ChangesAreDue'
    BY <2>1 DEF Pause, ChangesAreDue, worldVars, pollVars, timerVars
  <2> QED
    BY <2>2, <2>3
<1>13. CASE \E p \in power : PowerDone(p)
  <2>1. PICK p \in power : PowerDone(p)
    BY <1>13
  <2>2. p.on \in BOOLEAN /\ (p.on # radio) \in BOOLEAN
    BY DEF TypeOK, Power
  <2>3. /\ radio' \in BOOLEAN /\ line' \in BOOLEAN /\ unread' \in BOOLEAN
        /\ line => line'
        /\ unread' => unread \/ line' \/ monitor # "alive"
    <3>1. CASE Becomes(p.on, p.on # radio)
      <4>1. radio' = p.on
        BY <3>1 DEF Becomes
      <4>2. CASE p.on # radio
        BY <2>2, <3>1, <4>1, <4>2 DEF Becomes, TypeOK
      <4>3. CASE p.on = radio
        BY <2>2, <3>1, <4>1, <4>3 DEF Becomes, TypeOK
      <4> QED
        BY <4>2, <4>3
    <3>2. CASE UNCHANGED <<radio, line, unread>>
      BY <3>2 DEF TypeOK
    <3> QED
      BY <2>1, <3>1, <3>2 DEF PowerDone
  <2>4. [job |-> "power"] \in Answers
    BY DEF Answers
  <2>5. idles' \in Seq(Answers) /\ power' \subseteq Power
    BY <2>1, <2>4 DEF PowerDone, TypeOK
  <2>6. TypeOK'
    BY <2>1, <2>3, <2>5 DEF PowerDone, TypeOK, viewVars, timerVars
  <2>7. ChangesAreDue'
    BY <2>1, <2>3 DEF PowerDone, ChangesAreDue, TypeOK, timerVars
  <2> QED
    BY <2>6, <2>7
<1>14. CASE \E ok \in BOOLEAN : ConnectDone(ok)
  <2>1. PICK ok \in BOOLEAN : ConnectDone(ok)
    BY <1>14
  <2>2. /\ radio' \in BOOLEAN /\ line' \in BOOLEAN /\ unread' \in BOOLEAN
        /\ line => line'
        /\ unread' => unread \/ line' \/ monitor # "alive"
    <3>1. CASE Becomes(radio, TRUE)
      BY <3>1 DEF Becomes, TypeOK
    <3>2. CASE UNCHANGED <<radio, line, unread>>
      BY <3>2 DEF TypeOK
    <3> QED
      BY <2>1, <3>1, <3>2 DEF ConnectDone
  <2>3. [job |-> "connect", ok |-> ok] \in Answers
    BY DEF Answers
  <2>4. idles' \in Seq(Answers) /\ connect' \in Nat
    BY <2>1, <2>3 DEF ConnectDone, TypeOK
  <2>5. TypeOK'
    BY <2>1, <2>2, <2>4 DEF ConnectDone, TypeOK, viewVars, timerVars
  <2>6. ChangesAreDue'
    BY <2>1, <2>2 DEF ConnectDone, ChangesAreDue, TypeOK, timerVars
  <2> QED
    BY <2>5, <2>6
<1>15. CASE RunIdle
  <2> DEFINE a == Head(idles)
  <2>1. a \in Answers /\ idles' \in Seq(Answers)
    BY <1>15, Taking DEF RunIdle, TypeOK
  <2>2. CASE a.job = "poll" /\ PollAnswered(a)
    <3>1. a.enabled \in BOOLEAN
      BY <2>1, <2>2, Posting DEF Readers
    <3>2. threads' \in Threads
      BY <1>t, <2>2, Starting DEF PollAnswered, Readers
    <3>3. unannounced' \in BOOLEAN
      BY <2>2 DEF PollAnswered, TypeOK
    <3>4. TypeOK'
      BY <1>15, <2>1, <2>2, <3>1, <3>2, <3>3
      DEF RunIdle, PollAnswered, TypeOK, Threads, idleFrame, worldVars, timerVars
    <3>5. ChangesAreDue'
      BY <1>15, <2>2 DEF RunIdle, PollAnswered, ChangesAreDue, idleFrame, worldVars,
                         timerVars
    <3> QED
      BY <3>4, <3>5
  <2>3. CASE a.job = "scan" /\ ScanAnswered(a)
    <3>1. a.enabled \in BOOLEAN
      BY <2>1, <2>3, Posting DEF Readers
    <3>2. TypeOK'
      BY <1>15, <2>1, <2>3, <3>1
      DEF RunIdle, ScanAnswered, ScanEnds, TypeOK, idleFrame, worldVars, timerVars, pollVars
    <3>3. ChangesAreDue'
      BY <1>15, <2>3 DEF RunIdle, ScanAnswered, ChangesAreDue, idleFrame, worldVars,
                         timerVars, pollVars
    <3> QED
      BY <3>2, <3>3
  <2>4. CASE a.job = "power" /\ PowerAnswered
    <3>1. threads' \in Threads /\ scanning' \in BOOLEAN /\ unannounced' \in BOOLEAN
      BY <2>4, <1>t, Scanning DEF PowerAnswered, TypeOK
    <3>2. TypeOK'
      BY <1>15, <2>1, <2>4, <3>1
      DEF RunIdle, PowerAnswered, TypeOK, Threads, idleFrame, worldVars, timerVars, pollVars
    <3>3. ChangesAreDue'
      BY <1>15, <2>4 DEF RunIdle, PowerAnswered, ChangesAreDue, idleFrame, worldVars,
                         timerVars, pollVars
    <3> QED
      BY <3>2, <3>3
  <2>5. CASE a.job = "connect" /\ ConnectAnswered(a)
    <3>1. threads' \in Threads /\ scanning' \in BOOLEAN /\ unannounced' \in BOOLEAN
      BY <2>5, <1>t, Scanning DEF ConnectAnswered, TypeOK
    <3>2. TypeOK'
      BY <1>15, <2>1, <2>5, <3>1
      DEF RunIdle, ConnectAnswered, TypeOK, Threads, idleFrame, worldVars, timerVars,
          pollVars
    <3>3. ChangesAreDue'
      BY <1>15, <2>5 DEF RunIdle, ConnectAnswered, ChangesAreDue, idleFrame, worldVars,
                         timerVars, pollVars
    <3> QED
      BY <3>2, <3>3
  <2> QED
    BY <1>15, <2>2, <2>3, <2>4, <2>5 DEF RunIdle
<1>16. CASE UNCHANGED vars
  <2>1. TypeOK'
    BY <1>16 DEF vars, TypeOK, worldVars, viewVars, pollVars, timerVars, workerVars
  <2>2. ChangesAreDue'
    BY <1>16 DEF vars, ChangesAreDue, worldVars, pollVars, timerVars
  <2> QED
    BY <2>1, <2>2
<1> QED
  BY <1>1, <1>2, <1>3, <1>4, <1>5, <1>6, <1>7, <1>8, <1>9, <1>10, <1>11, <1>12, <1>13,
     <1>14, <1>15, <1>16
  DEF Next

LEMMA Invariance == Spec => []IInv
BY InitIInv, NextIInv, PTL DEF Spec

-----------------------------------------------------------------------------
\* Every variable keeps its type, and the restart timer of the monitor runs
\* only while the monitor is down (wifi_service.vala:63-78).
THEOREM TypeCorrect == Spec => []TypeOK
BY Invariance, PTL DEF IInv

\* No change of NetworkManager is lost: while no poll has begun since, one is
\* due, through every order of monitor lines, polls already in flight, deaths
\* of the monitor and its restarts (wifi_service.vala:54-86, 210-220).
THEOREM NoChangeIsLost == Spec => []EventsArePolled
BY Invariance, PTL DEF IInv, EventsArePolled

-----------------------------------------------------------------------------
(***************************************************************************)
(* The flags.  That a worker and its answers are counted as one is easier  *)
(* to keep when said without counting: of the worker and an answer at most *)
(* one is out, exactly while the flag is set, and there is one answer.     *)
(***************************************************************************)
Owned(posted, works, flag) ==
  /\ flag <=> works \/ posted # {}
  /\ ~works \/ posted = {}
  /\ posted # {} => \E i : posted = {i}

PollOwned    == Owned(Posted("poll"), Reading("poll"), poll_in_flight)
ScanOwned    == Owned(Posted("scan"), Reading("scan"), scanning)
ConnectOwned == /\ connect \in {0, 1}
                /\ Owned(Posted("connect"), connect = 1, connecting_ssid # NoSsid)

OInv == PollOwned /\ ScanOwned /\ ConnectOwned /\ AnnouncedOrScanning

LEMMA Counting ==
  ASSUME NEW posted, NEW works \in BOOLEAN, NEW flag \in BOOLEAN, Owned(posted, works, flag)
  PROVE  (IF works THEN 1 ELSE 0) + Cardinality(posted) = (IF flag THEN 1 ELSE 0)
<1>1. CASE posted = {}
  BY <1>1, FS_EmptySet DEF Owned
<1>2. CASE posted # {}
  <2>1. PICK i : posted = {i}
    BY <1>2 DEF Owned
  <2>2. Cardinality(posted) = 1
    BY <2>1, FS_Singleton
  <2> QED
    BY <1>2, <2>2 DEF Owned
<1> QED
  BY <1>1, <1>2

LEMMA PostedStays == ASSUME UNCHANGED idles, NEW j PROVE Posted(j)' = Posted(j)
BY DEF Posted

LEMMA PostedGrows ==
  ASSUME idles \in Seq(Answers), NEW x \in Answers, idles' = Append(idles, x), NEW j
  PROVE  Posted(j)' = Posted(j) \union (IF x.job = j THEN {Len(idles) + 1} ELSE {})
<1>1. /\ Len(idles') = Len(idles) + 1 /\ Len(idles) \in Nat
      /\ idles'[Len(idles) + 1] = x
      /\ \A i \in 1 .. Len(idles) : idles'[i] = idles[i]
  OBVIOUS
<1>2. 1 .. Len(idles') = (1 .. Len(idles)) \union {Len(idles) + 1}
  BY <1>1
<1> QED
  BY <1>1, <1>2 DEF Posted

\* A callback takes the first answer, and with it the only one of its kind.
LEMMA PostedTaken ==
  ASSUME idles \in Seq(Answers), idles # <<>>, idles' = Tail(idles), NEW j,
         Posted(j) # {} => \E i : Posted(j) = {i}
  PROVE  /\ Head(idles).job = j => Posted(j) # {} /\ Posted(j)' = {}
         /\ Head(idles).job # j => /\ Posted(j)' = {} <=> Posted(j) = {}
                                   /\ Posted(j)' # {} => \E i : Posted(j)' = {i}
<1>1. /\ Len(idles) \in Nat /\ Len(idles) >= 1 /\ Len(idles') = Len(idles) - 1
      /\ Head(idles) = idles[1]
      /\ \A i \in 1 .. Len(idles') : idles'[i] = idles[i + 1]
  OBVIOUS
<1>2. \A i : i \in Posted(j)' <=> i \in 1 .. Len(idles') /\ i + 1 \in Posted(j)
  BY <1>1 DEF Posted
<1>3. \A i : i \in Posted(j) => i \in 1 .. Len(idles)
  BY DEF Posted
<1>4. CASE Head(idles).job = j
  <2>1. 1 \in Posted(j)
    BY <1>1, <1>4 DEF Posted
  <2>2. Posted(j) = {1}
    BY <2>1
  <2>3. ASSUME NEW i, i \in Posted(j)' PROVE FALSE
    BY <1>2, <2>2, <2>3
  <2> QED
    BY <1>4, <2>1, <2>3
<1>5. CASE Head(idles).job # j
  <2>1. 1 \notin Posted(j)
    BY <1>1, <1>5 DEF Posted
  <2>2. CASE Posted(j) = {}
    BY <1>2, <1>5, <2>2
  <2>3. CASE Posted(j) # {}
    <3>1. PICK i : Posted(j) = {i}
      BY <2>3
    <3>2. i \in 2 .. Len(idles)
      BY <1>1, <1>3, <2>1, <3>1
    <3>3. i - 1 \in Posted(j)'
      BY <1>1, <1>2, <3>1, <3>2
    <3>4. ASSUME NEW k, k \in Posted(j)' PROVE k = i - 1
      BY <1>1, <1>2, <3>1, <3>2, <3>4
    <3>5. Posted(j)' = {i - 1}
      BY <3>3, <3>4
    <3> QED
      BY <1>5, <2>3, <3>5
  <2> QED
    BY <2>2, <2>3
<1> QED
  BY <1>4, <1>5

\* What a step that leaves a kind of work alone keeps.
LEMMA QuietPoll ==
  ASSUME PollOwned, UNCHANGED <<idles, poll_in_flight>>, Reading("poll")' = Reading("poll")
  PROVE  PollOwned'
BY PostedStays DEF PollOwned, Owned

LEMMA QuietScan ==
  ASSUME ScanOwned, UNCHANGED <<idles, scanning>>, Reading("scan")' = Reading("scan")
  PROVE  ScanOwned'
BY PostedStays DEF ScanOwned, Owned

LEMMA QuietConnect ==
  ASSUME ConnectOwned, UNCHANGED <<idles, connecting_ssid, connect>>
  PROVE  ConnectOwned'
BY PostedStays DEF ConnectOwned, Owned

LEMMA Quiet ==
  ASSUME OInv, UNCHANGED <<idles, threads, poll_in_flight, scanning, connecting_ssid,
         connect>>,
         unannounced' => unannounced
  PROVE  OInv'
<1>1. Reading("poll")' = Reading("poll") /\ Reading("scan")' = Reading("scan")
  BY DEF Reading
<1> QED
  BY <1>1, QuietPoll, QuietScan, QuietConnect DEF OInv, AnnouncedOrScanning

\* A thread starts to read.
LEMMA StartsReading ==
  ASSUME threads \in Threads, NEW t \in Readers, threads' = Starts(t)
  PROVE  /\ Reading(t)'
         /\ \A other \in Readers \ {t} : Reading(other)' = Reading(other)
BY DEF Starts, Reading, Threads

\* A call of poll_connection starts the poll that is not in flight.
LEMMA PollingOwned ==
  ASSUME OInv, threads \in Threads, PollConnection, poll_in_flight \in BOOLEAN,
         UNCHANGED <<idles, scanning, connecting_ssid, connect, unannounced>>
  PROVE  OInv'
<1>1. CASE poll_in_flight
  BY <1>1, Quiet DEF PollConnection
<1>2. CASE ~poll_in_flight
  <2>1. threads' = Starts("poll") /\ poll_in_flight'
    BY <1>2 DEF PollConnection
  <2>2. Reading("poll")' /\ Reading("scan")' = Reading("scan")
    BY <2>1, StartsReading DEF Readers
  <2>3. Posted("poll")' = {}
    BY <1>2, PostedStays DEF OInv, PollOwned, Owned
  <2>4. PollOwned'
    BY <2>1, <2>2, <2>3 DEF PollOwned, Owned
  <2> QED
    BY <2>2, <2>4, QuietScan, QuietConnect DEF OInv, AnnouncedOrScanning
<1> QED
  BY <1>1, <1>2

\* What refresh_scan does of its own, whatever is posted meanwhile of other jobs.
LEMMA ScanningOwned ==
  ASSUME ScanOwned, AnnouncedOrScanning, threads \in Threads, scanning \in BOOLEAN,
         NEW stays \in BOOLEAN, RefreshScan(stays),
         Posted("scan")' = {} <=> Posted("scan") = {},
         Posted("scan")' # {} => \E i : Posted("scan")' = {i}
  PROVE  ScanOwned' /\ AnnouncedOrScanning' /\ Reading("poll")' = Reading("poll")
<1>1. CASE scanning
  <2>1. Reading("poll")' = Reading("poll") /\ Reading("scan")' = Reading("scan")
    BY <1>1 DEF RefreshScan, Reading
  <2> QED
    BY <1>1, <2>1 DEF RefreshScan, ScanOwned, Owned, AnnouncedOrScanning
<1>2. CASE ~scanning
  <2>1. threads' = Starts("scan") /\ scanning' /\ ~unannounced'
    BY <1>2 DEF RefreshScan
  <2>2. Reading("scan")' /\ Reading("poll")' = Reading("poll")
    BY <2>1, StartsReading DEF Readers
  <2> QED
    BY <1>2, <2>1, <2>2 DEF ScanOwned, Owned, AnnouncedOrScanning
<1> QED
  BY <1>1, <1>2

LEMMA InitOInv == Init => OInv
<1> SUFFICES ASSUME Init PROVE OInv
  OBVIOUS
<1>1. \A j : Posted(j) = {}
  BY DEF Init, Posted
<1>2. ~Reading("scan") /\ Reading("poll") = poll_in_flight
  BY DEF Init, Reading, Readers, Off
<1> QED
  BY <1>1, <1>2 DEF Init, OInv, PollOwned, ScanOwned, ConnectOwned, Owned,
                    AnnouncedOrScanning

\* A thread reads on, or posts its answer in place of itself.
LEMMA ReadOwned == ASSUME IInv, OInv, NEW t \in Readers, Read(t) PROVE OInv'
<1>t. threads \in Threads /\ idles \in Seq(Answers)
  BY DEF IInv, TypeOK, Threads
<1>0. UNCHANGED <<poll_in_flight, scanning, connecting_ssid, connect, unannounced>>
  BY DEF Read, QueryEnabled, ReadLists, readerFrame, viewVars, pollVars
<1>1. CASE QueryEnabled(t)
  <2>1. Reading("poll")' = Reading("poll") /\ Reading("scan")' = Reading("scan")
    BY <1>1, <1>t DEF QueryEnabled, Reading, Readers, Threads
  <2>2. UNCHANGED idles
    BY <1>1 DEF QueryEnabled
  <2> QED
    BY <1>0, <2>1, <2>2, QuietPoll, QuietScan, QuietConnect DEF OInv, AnnouncedOrScanning
<1>2. CASE ReadLists(t)
  <2> DEFINE x == [job |-> t, enabled |-> threads[t].enabled]
  <2>1. x \in Answers /\ idles' = Append(idles, x) /\ x.job = t
    BY <1>2, <1>t DEF ReadLists, Answers, Threads
  <2>2. Reading(t) /\ ~Reading(t)' /\ \A other \in Readers \ {t} : Reading(other)' = Reading(other)
    BY <1>2, <1>t DEF ReadLists, Reading, Threads, Off
  <2> HIDE DEF x
  <2>3. \A j : Posted(j)' = Posted(j) \union (IF t = j THEN {Len(idles) + 1} ELSE {})
    BY <1>t, <2>1, PostedGrows
  <2>4. Posted("connect")' = Posted("connect")
    BY <2>3 DEF Readers
  <2>5. ConnectOwned'
    BY <1>0, <2>4 DEF OInv, ConnectOwned, Owned
  <2>6. CASE t = "poll"
    <3>1. Posted("scan")' = Posted("scan") /\ Posted("poll")' = Posted("poll") \union {Len(idles) + 1}
      BY <2>3, <2>6
    <3>2. ScanOwned'
      BY <1>0, <2>2, <2>6, <3>1 DEF OInv, ScanOwned, Owned, Readers
    <3>3. PollOwned'
      BY <1>0, <2>2, <2>6, <3>1 DEF OInv, PollOwned, Owned
    <3> QED
      BY <1>0, <2>5, <3>2, <3>3 DEF OInv, AnnouncedOrScanning
  <2>7. CASE t = "scan"
    <3>1. Posted("poll")' = Posted("poll") /\ Posted("scan")' = Posted("scan") \union {Len(idles) + 1}
      BY <2>3, <2>7
    <3>2. PollOwned'
      BY <1>0, <2>2, <2>7, <3>1 DEF OInv, PollOwned, Owned, Readers
    <3>3. ScanOwned'
      BY <1>0, <2>2, <2>7, <3>1 DEF OInv, ScanOwned, Owned
    <3> QED
      BY <1>0, <2>5, <3>2, <3>3 DEF OInv, AnnouncedOrScanning
  <2> QED
    BY <2>6, <2>7 DEF Readers
<1> QED
  BY <1>1, <1>2 DEF Read

\* A thread that commands posts an answer that no flag of the readers waits for.
LEMMA DoneOwned ==
  ASSUME IInv, OInv,
         (\E p \in power : PowerDone(p)) \/ (\E ok \in BOOLEAN : ConnectDone(ok))
  PROVE  OInv'
<1>t. idles \in Seq(Answers) /\ connect \in Nat
  BY DEF IInv, TypeOK
<1>1. CASE \E p \in power : PowerDone(p)
  <2> DEFINE x == [job |-> "power"]
  <2>1. /\ idles' = Append(idles, x)
        /\ UNCHANGED <<threads, poll_in_flight, scanning, connecting_ssid, connect, unannounced>>
    BY <1>1 DEF PowerDone, viewVars
  <2>2. x \in Answers /\ x.job = "power"
    BY DEF Answers
  <2> HIDE DEF x
  <2>3. \A j \in {"poll", "scan", "connect"} : Posted(j)' = Posted(j)
    <3>1. \A j : Posted(j)' = Posted(j) \union (IF "power" = j THEN {Len(idles) + 1} ELSE {})
      BY <1>t, <2>1, <2>2, PostedGrows
    <3> QED
      BY <3>1
  <2>4. Reading("poll")' = Reading("poll") /\ Reading("scan")' = Reading("scan")
    BY <2>1 DEF Reading
  <2> QED
    BY <2>1, <2>3, <2>4 DEF OInv, PollOwned, ScanOwned, ConnectOwned, Owned,
                            AnnouncedOrScanning
<1>2. CASE \E ok \in BOOLEAN : ConnectDone(ok)
  <2>0. PICK ok \in BOOLEAN : ConnectDone(ok)
    BY <1>2
  <2> DEFINE x == [job |-> "connect", ok |-> ok]
  <2>1. /\ idles' = Append(idles, x) /\ connect > 0 /\ connect' = connect - 1
        /\ UNCHANGED <<threads, poll_in_flight, scanning, connecting_ssid, unannounced>>
    BY <2>0 DEF ConnectDone, viewVars
  <2>2. x \in Answers /\ x.job = "connect"
    BY DEF Answers
  <2> HIDE DEF x
  <2>3. /\ \A j \in {"poll", "scan"} : Posted(j)' = Posted(j)
        /\ Posted("connect")' = Posted("connect") \union {Len(idles) + 1}
    <3>1. \A j : Posted(j)' = Posted(j) \union (IF "connect" = j THEN {Len(idles) + 1} ELSE {})
      BY <1>t, <2>1, <2>2, PostedGrows
    <3> QED
      BY <3>1
  <2>4. Reading("poll")' = Reading("poll") /\ Reading("scan")' = Reading("scan")
    BY <2>1 DEF Reading
  <2>5. connect = 1 /\ connect' = 0
    BY <1>t, <2>1 DEF OInv, ConnectOwned
  <2>6. ConnectOwned'
    <3>1. Posted("connect") = {} /\ connecting_ssid # NoSsid
      BY <2>5 DEF OInv, ConnectOwned, Owned
    <3>2. Posted("connect")' = {Len(idles) + 1} /\ connecting_ssid' # NoSsid
      BY <2>1, <2>3, <3>1
    <3> QED
      BY <2>5, <3>2 DEF ConnectOwned, Owned
  <2> QED
    BY <2>1, <2>3, <2>4, <2>6 DEF OInv, PollOwned, ScanOwned, Owned, AnnouncedOrScanning
<1> QED
  BY <1>1, <1>2

\* The first answer is taken, and the worker it came from is no longer counted.
LEMMA IdleOwned == ASSUME IInv, OInv, RunIdle PROVE OInv'
<1> DEFINE a == Head(idles)
<1>1. /\ idles \in Seq(Answers) /\ threads \in Threads /\ scanning \in BOOLEAN
      /\ idles # <<>> /\ idles' = Tail(idles) /\ UNCHANGED connect
  BY DEF IInv, TypeOK, Threads, RunIdle, idleFrame
<1>2. \A j \in {"poll", "scan", "connect"} :
        /\ a.job = j => Posted(j) # {} /\ Posted(j)' = {}
        /\ a.job # j => /\ Posted(j)' = {} <=> Posted(j) = {}
                        /\ Posted(j)' # {} => \E i : Posted(j)' = {i}
  <2>1. \A j \in {"poll", "scan", "connect"} : Posted(j) # {} => \E i : Posted(j) = {i}
    BY DEF OInv, PollOwned, ScanOwned, ConnectOwned, Owned
  <2> QED
    BY <1>1, <2>1, PostedTaken
<1> HIDE DEF a
<1>3. ASSUME a.job # "poll", UNCHANGED poll_in_flight, Reading("poll")' = Reading("poll")
      PROVE  PollOwned'
  BY <1>2, <1>3 DEF OInv, PollOwned, Owned
<1>4. ASSUME a.job # "scan", UNCHANGED scanning, Reading("scan")' = Reading("scan")
      PROVE  ScanOwned'
  BY <1>2, <1>4 DEF OInv, ScanOwned, Owned
<1>5. ASSUME a.job # "connect", UNCHANGED connecting_ssid
      PROVE  ConnectOwned'
  BY <1>1, <1>2, <1>5 DEF OInv, ConnectOwned, Owned
<1>6. CASE a.job = "poll" /\ PollAnswered(a)
  <2>1. Posted("poll")' = {} /\ ~Reading("poll") /\ poll_in_flight
    BY <1>2, <1>6 DEF OInv, PollOwned, Owned
  <2>2. UNCHANGED <<connecting_ssid, scanning>> /\ (unannounced' => unannounced)
    BY <1>6 DEF PollAnswered
  <2>3. PollOwned' /\ Reading("scan")' = Reading("scan")
    <3>1. CASE poll_again
      <4>1. threads' = Starts("poll") /\ UNCHANGED poll_in_flight
        BY <1>6, <3>1 DEF PollAnswered
      <4>2. Reading("poll")' /\ Reading("scan")' = Reading("scan")
        BY <1>1, <4>1, StartsReading DEF Readers
      <4> QED
        BY <2>1, <4>1, <4>2 DEF PollOwned, Owned
    <3>2. CASE ~poll_again
      <4>1. UNCHANGED threads /\ poll_in_flight' = FALSE
        BY <1>6, <3>2 DEF PollAnswered
      <4>2. Reading("poll")' = Reading("poll") /\ Reading("scan")' = Reading("scan")
        BY <4>1 DEF Reading
      <4> QED
        BY <2>1, <4>1, <4>2 DEF PollOwned, Owned
    <3> QED
      BY <3>1, <3>2
  <2> QED
    BY <1>4, <1>5, <1>6, <2>2, <2>3 DEF OInv, AnnouncedOrScanning
<1>7. CASE a.job = "scan" /\ ScanAnswered(a)
  <2>1. /\ UNCHANGED <<connecting_ssid, poll_in_flight, threads>>
        /\ scanning' = FALSE /\ unannounced' = FALSE
    BY <1>7 DEF ScanAnswered, ScanEnds, pollVars
  <2>2. Reading("poll")' = Reading("poll") /\ Reading("scan")' = Reading("scan")
    BY <2>1 DEF Reading
  <2>3. Posted("scan")' = {} /\ ~Reading("scan")
    BY <1>2, <1>7 DEF OInv, ScanOwned, Owned
  <2>4. ScanOwned'
    BY <2>1, <2>2, <2>3 DEF ScanOwned, Owned
  <2> QED
    BY <1>3, <1>5, <1>7, <2>1, <2>2, <2>4 DEF OInv, AnnouncedOrScanning
<1>8. CASE a.job = "power" /\ PowerAnswered
  <2>1. RefreshScan(FALSE) /\ UNCHANGED <<connecting_ssid, poll_in_flight>>
    BY <1>8 DEF PowerAnswered, pollVars
  <2>2. ScanOwned' /\ AnnouncedOrScanning' /\ Reading("poll")' = Reading("poll")
    BY <1>1, <1>2, <1>8, <2>1, ScanningOwned DEF OInv
  <2> QED
    BY <1>3, <1>5, <1>8, <2>1, <2>2 DEF OInv
<1>9. CASE a.job = "connect" /\ ConnectAnswered(a)
  <2>1. connecting_ssid' = NoSsid /\ UNCHANGED poll_in_flight
    BY <1>9 DEF ConnectAnswered, pollVars
  <2>2. Posted("connect")' = {} /\ connect = 0
    BY <1>2, <1>9 DEF OInv, ConnectOwned, Owned
  <2>3. ConnectOwned'
    BY <1>1, <2>1, <2>2 DEF ConnectOwned, Owned
  <2>4. ScanOwned' /\ AnnouncedOrScanning' /\ Reading("poll")' = Reading("poll")
    <3>1. CASE RefreshScan(TRUE)
      BY <1>1, <1>2, <1>9, <3>1, ScanningOwned DEF OInv
    <3>2. CASE unannounced' = FALSE /\ UNCHANGED <<scanning, threads>>
      <4>1. Reading("poll")' = Reading("poll") /\ Reading("scan")' = Reading("scan")
        BY <3>2 DEF Reading
      <4> QED
        BY <1>4, <1>9, <3>2, <4>1 DEF AnnouncedOrScanning
    <3> QED
      BY <1>9, <3>1, <3>2 DEF ConnectAnswered
  <2> QED
    BY <1>3, <1>9, <2>1, <2>3, <2>4 DEF OInv
<1> QED
  BY <1>6, <1>7, <1>8, <1>9 DEF RunIdle, a

LEMMA NextOInv == IInv /\ OInv /\ [Next]_vars => OInv'
<1> SUFFICES ASSUME IInv, OInv, [Next]_vars PROVE OInv'
  OBVIOUS
<1>t. threads \in Threads /\ poll_in_flight \in BOOLEAN /\ scanning \in BOOLEAN
  BY DEF IInv, TypeOK, Threads
<1>1. CASE NetworkManagerChanges
  BY <1>1, Quiet DEF NetworkManagerChanges, viewVars, workerVars
<1>2. CASE MonitorDies
  BY <1>2, Quiet DEF MonitorDies, viewVars, pollVars, workerVars
<1>3. CASE Line
  BY <1>3, Quiet DEF Line, viewVars, pollVars, workerVars
<1>4. CASE EventDue
  BY <1>4, <1>t, PollingOwned DEF EventDue, viewVars
<1>5. CASE Ended
  BY <1>5, Quiet DEF Ended, viewVars, pollVars, workerVars
<1>6. CASE StartWatch
  <2>1. UNCHANGED <<idles, scanning, connecting_ssid, connect, unannounced>>
    BY <1>6 DEF StartWatch, viewVars
  <2>2. PollConnection \/ UNCHANGED <<poll_in_flight, threads>>
    BY <1>6 DEF StartWatch, pollVars
  <2> QED
    BY <1>t, <2>1, <2>2, Quiet, PollingOwned
<1>7. CASE PollTick
  BY <1>7, <1>t, PollingOwned DEF PollTick, viewVars
<1>8. CASE \E t \in Readers : Read(t)
  BY <1>8, ReadOwned
<1>9. CASE \E on \in BOOLEAN : ApplyRadio(on)
  BY <1>9, Quiet DEF ApplyRadio, pollVars
<1>10. CASE ScanNow
  <2>1. RefreshScan(FALSE) /\ UNCHANGED <<connecting_ssid, poll_in_flight, connect, idles>>
    BY <1>10 DEF ScanNow, pollVars
  <2>2. Posted("scan")' = Posted("scan")
    BY <2>1, PostedStays
  <2>3. Posted("scan")' # {} => \E i : Posted("scan")' = {i}
    BY <2>2 DEF OInv, ScanOwned, Owned
  <2>4. ScanOwned' /\ AnnouncedOrScanning' /\ Reading("poll")' = Reading("poll")
    BY <1>t, <2>1, <2>2, <2>3, ScanningOwned DEF OInv
  <2> QED
    BY <2>1, <2>4, QuietPoll, QuietConnect DEF OInv
<1>11. CASE \E s \in Ssids : ConnectTo(s)
  <2>1. PICK s \in Ssids : ConnectTo(s)
    BY <1>11
  <2>2. /\ UNCHANGED <<idles, threads, poll_in_flight, scanning>>
        /\ connecting_ssid = NoSsid /\ connecting_ssid' = s
        /\ connect' = connect + 1 /\ unannounced' = FALSE
    BY <2>1 DEF ConnectTo, MayConnect, pollVars
  <2>3. connect = 0 /\ Posted("connect") = {}
    BY <2>2 DEF OInv, ConnectOwned, Owned
  <2>4. Posted("connect")' = {} /\ connect' = 1 /\ connecting_ssid' # NoSsid
    BY <2>2, <2>3, PostedStays, ValuesAssumption
  <2>5. ConnectOwned'
    BY <2>4 DEF ConnectOwned, Owned
  <2>6. Reading("poll")' = Reading("poll") /\ Reading("scan")' = Reading("scan")
    BY <2>2 DEF Reading
  <2> QED
    BY <2>2, <2>5, <2>6, QuietPoll, QuietScan DEF OInv, AnnouncedOrScanning
<1>12. CASE \E on \in BOOLEAN : Pause(on)
  BY <1>12, Quiet DEF Pause, viewVars, pollVars, workerVars
<1>13. CASE \E p \in power : PowerDone(p)
  BY <1>13, DoneOwned
<1>14. CASE \E ok \in BOOLEAN : ConnectDone(ok)
  BY <1>14, DoneOwned
<1>15. CASE RunIdle
  BY <1>15, IdleOwned
<1>16. CASE UNCHANGED vars
  BY <1>16, Quiet DEF vars, viewVars, pollVars, workerVars
<1> QED
  BY <1>1, <1>2, <1>3, <1>4, <1>5, <1>6, <1>7, <1>8, <1>9, <1>10, <1>11, <1>12, <1>13,
     <1>14, <1>15, <1>16
  DEF Next

\* A flag that keeps a second worker from starting neither leaks nor lets two in,
\* and what is not announced waits for a scan that will (wifi_service.vala:108,
\* 114-118, 136, 212), for any number of polls, scans, toggles and attempts.
THEOREM FlagsAreOwned == Spec => []FlagsOwned
<1>1. IInv /\ OInv => FlagsOwned
  <2> SUFFICES ASSUME IInv, OInv PROVE FlagsOwned
    OBVIOUS
  <2>1. /\ Reading("poll") \in BOOLEAN /\ poll_in_flight \in BOOLEAN
        /\ Reading("scan") \in BOOLEAN /\ scanning \in BOOLEAN
        /\ (connect = 1) \in BOOLEAN /\ (connecting_ssid # NoSsid) \in BOOLEAN
    BY DEF IInv, TypeOK, Reading
  <2>2. (IF Reading("poll") THEN 1 ELSE 0) + Cardinality(Posted("poll"))
          = (IF poll_in_flight THEN 1 ELSE 0)
    BY <2>1, Counting DEF OInv, PollOwned
  <2>3. (IF Reading("scan") THEN 1 ELSE 0) + Cardinality(Posted("scan"))
          = (IF scanning THEN 1 ELSE 0)
    BY <2>1, Counting DEF OInv, ScanOwned
  <2>4. (IF connect = 1 THEN 1 ELSE 0) + Cardinality(Posted("connect"))
          = (IF connecting_ssid # NoSsid THEN 1 ELSE 0)
    BY <2>1, Counting DEF OInv, ConnectOwned
  <2>5. connect = IF connect = 1 THEN 1 ELSE 0
    BY DEF OInv, ConnectOwned
  <2> QED
    BY <2>2, <2>3, <2>4, <2>5 DEF FlagsOwned, OInv
<1> QED
  BY <1>1, InitOInv, NextOInv, Invariance, PTL DEF Spec
-----------------------------------------------------------------------------
(***************************************************************************)
(* The Display page: what the store enumerates.                            *)
(***************************************************************************)
\* SetToSeq lists a finite set, each member once.
LEMMA SetToSeqLists ==
  ASSUME NEW S, IsFiniteSet(S)
  PROVE  /\ SetToSeq(S) \in Seq(S)
         /\ Len(SetToSeq(S)) = Cardinality(S)
         /\ \A x \in S : \E i \in 1 .. Len(SetToSeq(S)) : SetToSeq(S)[i] = x
         /\ \A i, j \in 1 .. Len(SetToSeq(S)) : SetToSeq(S)[i] = SetToSeq(S)[j] => i = j
<1> DEFINE D == 1 .. Cardinality(S)
           s == SetToSeq(S)
<1>1. Cardinality(S) \in Nat /\ ExistsBijection(D, S)
  BY FS_CardinalityType
<1>2. PICK f \in [D -> S] : IsInjective(f)
  BY <1>1 DEF ExistsBijection, Bijection, Injection
<1>3. s \in [D -> S] /\ IsInjective(s)
  BY <1>2 DEF SetToSeq
<1>4. IsFiniteSet(D) /\ Cardinality(D) = Cardinality(S)
  BY <1>1, FS_Interval
<1>5. s \in Surjection(D, S)
  BY <1>3, <1>4, FS_Injection DEF Injection
<1>6. \A x \in S : \E i \in D : s[i] = x
  BY <1>5 DEF Surjection
<1>7. s \in Seq(S) /\ Len(s) = Cardinality(S) /\ DOMAIN s = D
  BY <1>1, <1>3
<1> QED
  BY <1>3, <1>6, <1>7 DEF IsInjective

EachOnce(list) == \A i, j \in DOMAIN list : list[i].name = list[j].name => i = j

\* A finite set has a finite image.
LEMMA EnumerateLists ==
  ASSUME plugged \subseteq Outputs, layout \in [Outputs -> States],
         last_mode \in [Outputs -> Modes \union {NoMode}]
  PROVE  Enumerate \in Seq(OutputInfo) /\ Names(Enumerate) = plugged /\ EachOnce(Enumerate)
<1> DEFINE Info(o) == [name |-> o, enabled |-> layout[o] # "off",
                       current_mode |-> last_mode[o]]
           S == {Info(o) : o \in plugged}
           f == [o \in plugged |-> Info(o)]
<1>1. IsFiniteSet(S)
  <2>1. IsFiniteSet(plugged)
    BY OutputsAssumption, FS_Subset
  <2>2. f \in Surjection(plugged, S)
    BY DEF Surjection
  <2> QED
    BY <2>1, <2>2, FS_Surjection
<1>2. Enumerate = SetToSeq(S)
  BY DEF Enumerate
<1>3. S \subseteq OutputInfo
  <2> SUFFICES ASSUME NEW o \in plugged PROVE Info(o) \in OutputInfo
    OBVIOUS
  <2>1. o \in Outputs /\ last_mode[o] \in Modes \union {NoMode}
    OBVIOUS
  <2>2. (layout[o] # "off") \in BOOLEAN
    OBVIOUS
  <2> QED
    BY <2>1, <2>2 DEF OutputInfo
<1>4. /\ Enumerate \in Seq(S)
      /\ \A x \in S : \E i \in DOMAIN Enumerate : Enumerate[i] = x
  <2>1. /\ SetToSeq(S) \in Seq(S)
        /\ \A x \in S : \E i \in 1 .. Len(SetToSeq(S)) : SetToSeq(S)[i] = x
    BY <1>1, SetToSeqLists
  <2> HIDE DEF S
  <2> QED
    BY <1>2, <2>1
<1>5. \A i \in DOMAIN Enumerate : Enumerate[i] \in S
  BY <1>4
<1>6. Names(Enumerate) \subseteq plugged
  BY <1>5 DEF Names
<1>8. EachOnce(Enumerate)
  <2>1. \A i, j \in 1 .. Len(SetToSeq(S)) : SetToSeq(S)[i] = SetToSeq(S)[j] => i = j
    BY <1>1, SetToSeqLists
  <2>2. DOMAIN Enumerate = 1 .. Len(SetToSeq(S))
    BY <1>1, <1>2, SetToSeqLists
  <2>3. ASSUME NEW i \in DOMAIN Enumerate, NEW j \in DOMAIN Enumerate,
               Enumerate[i].name = Enumerate[j].name
        PROVE  i = j
    <3>1. PICK o \in plugged : Enumerate[i] = Info(o)
      BY <1>5
    <3>2. PICK p \in plugged : Enumerate[j] = Info(p)
      BY <1>5
    <3>3. Enumerate[i] = Enumerate[j]
      BY <2>3, <3>1, <3>2
    <3> HIDE DEF S
    <3> QED
      BY <1>2, <2>1, <2>2, <3>3
  <2> QED
    BY <2>3 DEF EachOnce
<1>7. plugged \subseteq Names(Enumerate)
  <2> SUFFICES ASSUME NEW o \in plugged PROVE o \in Names(Enumerate)
    OBVIOUS
  <2>1. PICK i \in DOMAIN Enumerate : Enumerate[i] = Info(o)
    BY <1>4
  <2> QED
    BY <2>1 DEF Names
<1> QED
  BY <1>3, <1>4, <1>6, <1>7, <1>8

-----------------------------------------------------------------------------
(***************************************************************************)
(* The invariant: what the run checks, that no list names an output twice, *)
(* and that a page which found something enabled keeps something enabled.  *)
(***************************************************************************)
ListsSound     == EachOnce(working) /\ EachOnce(baseline)

SomethingStaysEnabled == Enabled(baseline) # {} => Enabled(working) # {}

PageInv == PageAgrees /\ ListsSound /\ SomethingStaysEnabled

LEMMA PageStart ==
  ASSUME PageInit
  PROVE  PageInv
<1>1. /\ plugged \subseteq Outputs /\ layout \in [Outputs -> States]
      /\ known = plugged /\ working = Enumerate /\ baseline = Enumerate
      /\ elsewhere = 0 /\ sel = FirstOf(working) /\ dragging = 0 /\ saved = Nothing
      /\ reload_pending = FALSE /\ countdown = FALSE /\ confirm = FALSE
      /\ apply_sensitive = FALSE
  BY DEF PageInit
<1>2. last_mode \in [Outputs -> Modes \union {NoMode}]
  <2>1. \A o \in Outputs :
          (IF layout[o] = "off" THEN NoMode ELSE layout[o]) \in Modes \union {NoMode}
    BY <1>1 DEF States
  <2> QED
    BY <2>1 DEF PageInit
<1>3. Enumerate \in Seq(OutputInfo) /\ Names(Enumerate) = plugged /\ EachOnce(Enumerate)
  BY <1>1, <1>2, EnumerateLists
<1>4. sel \in 0 .. Len(working)
  BY <1>1, <1>3 DEF FirstOf
<1>5. elsewhere \in 0 .. MaxElsewhere
  BY <1>1, ElsewhereAssumption
<1>s. ListsSound
  BY <1>1, <1>3 DEF PageInv, ListsSound, EachOnce
<1> QED
  BY <1>s, <1>1, <1>2, <1>3, <1>4, <1>5
     DEF PageInv, PageAgrees, PageTypeOK, ListsWhatIsKnown,
         CountdownIsAsked, CleanMeansBaseline,
         SomethingStaysEnabled

\* A refresh replaces the known set; if it was another one, a reload is queued.
LEMMA RefreshMarks ==
  ASSUME PageInv, Refresh
  PROVE  /\ known' \subseteq Outputs
         /\ reload_pending' \in BOOLEAN
         /\ ~reload_pending' => known' = known /\ ~reload_pending
BY DEF PageInv, PageAgrees, PageTypeOK, Refresh, OnOutputsChanged

LEMMA PumpKeeps == PageInv /\ Pump => PageInv'
<1> SUFFICES ASSUME PageInv, Pump PROVE PageInv'
  OBVIOUS
<1>1. UNCHANGED <<plugged, layout, last_mode, elsewhere, baseline, working, sel,
                  countdown, confirm, apply_sensitive, dragging, saved>>
  BY DEF Pump, compositorVars, editVars, trialVars
<1>2. Refresh
  BY DEF Pump
<1>s. ListsSound'
  BY <1>1 DEF PageInv, ListsSound, EachOnce
<1> QED
  BY <1>s, <1>1, <1>2, RefreshMarks
     DEF PageInv, PageAgrees, PageTypeOK, ListsWhatIsKnown,
         CountdownIsAsked, CleanMeansBaseline,
         SomethingStaysEnabled, Names, Enabled

\* A reload in the middle of anything starts the page anew.
LEMMA ReloadKeeps == PageInv /\ ReloadOutputs => PageInv'
<1> SUFFICES ASSUME PageInv, ReloadOutputs PROVE PageInv'
  OBVIOUS
<1>1. /\ known' = plugged /\ reload_pending' = (known # plugged)
      /\ confirm' = FALSE /\ countdown' = FALSE /\ apply_sensitive' = FALSE
      /\ baseline' = Enumerate /\ working' = Enumerate /\ sel' = FirstOf(working')
      /\ UNCHANGED <<plugged, layout, last_mode, elsewhere, dragging, saved>>
  BY DEF ReloadOutputs, EndTrialForReload, EndTrial, compositorVars
<1>2. Enumerate \in Seq(OutputInfo) /\ Names(Enumerate) = plugged /\ EachOnce(Enumerate)
  BY EnumerateLists DEF PageInv, PageAgrees, PageTypeOK
<1>3. sel' \in 0 .. Len(working')
  BY <1>1, <1>2 DEF FirstOf
<1>4. reload_pending' \in BOOLEAN
  BY <1>1
<1>s. ListsSound'
  BY <1>1, <1>2 DEF PageInv, ListsSound, EachOnce
<1> QED
  BY <1>s, <1>1, <1>2, <1>3, <1>4
     DEF PageInv, PageAgrees, PageTypeOK, ListsWhatIsKnown,
         CountdownIsAsked, CleanMeansBaseline,
         SomethingStaysEnabled, Names, Enabled

-----------------------------------------------------------------------------
\* An edit elsewhere no name, and leaves something enabled if something was.
LEMMA EditKeeps ==
  ASSUME PageInv, NEW list \in Seq(OutputInfo), Len(list) = Len(working),
         \A i \in DOMAIN working : list[i].name = working[i].name,
         Enabled(working) # {} => Enabled(list) # {},
         Edit(list)
  PROVE  PageInv'
<1>1. /\ working' = list /\ apply_sensitive' = TRUE
      /\ UNCHANGED <<plugged, layout, last_mode, elsewhere, known, reload_pending,
                     baseline, sel, countdown, confirm, dragging, saved>>
  BY DEF Edit, compositorVars
<1>2. DOMAIN list = DOMAIN working
  BY DEF PageInv, PageAgrees, PageTypeOK
<1>3. Names(list) = Names(working)
  BY <1>2 DEF Names
<1>4. EachOnce(list)
  BY <1>2 DEF PageInv, ListsSound, EachOnce
<1>s. ListsSound'
  BY <1>1, <1>4 DEF PageInv, ListsSound, EachOnce
<1> QED
  BY <1>s, <1>1, <1>3, <1>4
     DEF PageInv, PageAgrees, PageTypeOK, ListsWhatIsKnown,
         CountdownIsAsked, CleanMeansBaseline,
         SomethingStaysEnabled, Names, Enabled

\* Of more than one enabled output another one than the selected is left.
LEMMA AnotherIsEnabled ==
  ASSUME PageInv, MayDisable, NEW i \in DOMAIN working
  PROVE  \E j \in Enabled(working) : j # i
<1> SUFFICES ASSUME Enabled(working) \subseteq {i} PROVE FALSE
  OBVIOUS
<1>1. IsFiniteSet({i}) /\ Cardinality({i}) = 1
  BY FS_Singleton
<1>2. Cardinality(Enabled(working)) <= 1 /\ Cardinality(Enabled(working)) \in Nat
  BY <1>1, FS_Subset, FS_CardinalityType
<1> QED
  BY <1>2 DEF MayDisable

LEMMA ToggleKeeps == PageInv /\ ToggleEnabled => PageInv'
<1> SUFFICES ASSUME PageInv, ToggleEnabled PROVE PageInv'
  OBVIOUS
<1> DEFINE list == [working EXCEPT ![sel].enabled = ~@]
<1>1. /\ sel # 0 /\ Edit(list)
      /\ working[sel].enabled => MayDisable
  BY DEF ToggleEnabled
<1>2. working \in Seq(OutputInfo) /\ sel \in DOMAIN working
  BY <1>1 DEF PageInv, PageAgrees, PageTypeOK
<1>3. working[sel] \in OutputInfo
  BY <1>2
<1>4. [working[sel] EXCEPT !.enabled = ~@] \in OutputInfo
  BY <1>3 DEF OutputInfo
<1>5. list \in Seq(OutputInfo) /\ Len(list) = Len(working) /\ DOMAIN list = DOMAIN working
  BY <1>2, <1>4
<1>6. \A i \in DOMAIN working : /\ list[i].name = working[i].name
                                /\ i # sel => list[i] = working[i]
  <2> SUFFICES ASSUME NEW i \in DOMAIN working
               PROVE  list[i].name = working[i].name /\ (i # sel => list[i] = working[i])
    OBVIOUS
  <2>1. CASE i = sel
    BY <1>2, <1>3, <2>1 DEF OutputInfo
  <2>2. CASE i # sel
    BY <1>2, <2>2
  <2> QED
    BY <2>1, <2>2
<1>8. Enabled(list) # {}
  <2>1. CASE working[sel].enabled
    <3>1. PICK j \in Enabled(working) : j # sel
      BY <1>1, <1>2, <2>1, AnotherIsEnabled
    <3> QED
      BY <1>5, <1>6, <3>1 DEF Enabled
  <2>2. CASE ~working[sel].enabled
    <3>1. list[sel].enabled
      BY <1>2, <1>3, <2>2 DEF OutputInfo
    <3> QED
      BY <1>2, <1>5, <3>1 DEF Enabled
  <2> QED
    BY <2>1, <2>2
<1> QED
  BY <1>1, <1>5, <1>6, <1>8, EditKeeps

LEMMA RefusalKeeps == PageInv /\ ToggleRefused => PageInv'
BY EditKeeps DEF ToggleRefused, PageInv, PageAgrees, PageTypeOK

LEMMA ModeKeeps == PageInv /\ ChangeMode => PageInv'
<1> SUFFICES ASSUME PageInv, ChangeMode PROVE PageInv'
  OBVIOUS
<1>1. PICK mode \in Modes : Edit([working EXCEPT ![sel].current_mode = mode])
  BY DEF ChangeMode
<1> DEFINE list == [working EXCEPT ![sel].current_mode = mode]
<1>2. working \in Seq(OutputInfo) /\ sel \in DOMAIN working
  BY DEF PageInv, PageAgrees, PageTypeOK, ChangeMode
<1>3. working[sel] \in OutputInfo
  BY <1>2
<1>4. [working[sel] EXCEPT !.current_mode = mode] \in OutputInfo
  BY <1>3 DEF OutputInfo
<1>5. list \in Seq(OutputInfo) /\ Len(list) = Len(working) /\ DOMAIN list = DOMAIN working
  BY <1>2, <1>4
<1>6. \A i \in DOMAIN working : /\ list[i].name = working[i].name
                                /\ list[i].enabled = working[i].enabled
  <2> SUFFICES ASSUME NEW i \in DOMAIN working
               PROVE  /\ list[i].name = working[i].name
                      /\ list[i].enabled = working[i].enabled
    OBVIOUS
  <2>1. CASE i = sel
    BY <1>2, <1>3, <2>1 DEF OutputInfo
  <2>2. CASE i # sel
    BY <1>2, <2>2
  <2> QED
    BY <2>1, <2>2
<1>7. Enabled(list) = Enabled(working)
  BY <1>5, <1>6 DEF Enabled
<1> QED
  BY <1>1, <1>5, <1>6, <1>7, EditKeeps

LEMMA DragKeeps == PageInv /\ (DragBegin \/ DragUpdate \/ DragEnd) => PageInv'
<1> SUFFICES ASSUME PageInv,
DragBegin \/ DragUpdate \/ DragEnd PROVE PageInv'
  OBVIOUS
<1>1. CASE DragBegin
  <2>1. PICK i \in DOMAIN working : dragging' = i /\ sel' = i
    BY <1>1 DEF DragBegin
  <2>2. UNCHANGED <<plugged, layout, last_mode, elsewhere, known, reload_pending,
                    baseline, working, countdown, confirm, apply_sensitive, saved>>
    BY <1>1 DEF DragBegin, compositorVars, trialVars
  <2>3. sel' \in 0 .. Len(working) /\ dragging' \in Nat
    BY <2>1 DEF PageInv, PageAgrees, PageTypeOK
  <2>4. ListsSound'
    BY <2>2 DEF PageInv, ListsSound, EachOnce
  <2> QED
    BY <2>2, <2>3, <2>4
       DEF PageInv, PageAgrees, PageTypeOK, ListsWhatIsKnown,
           CountdownIsAsked, CleanMeansBaseline,
           SomethingStaysEnabled, Names, Enabled
<1>2. CASE DragUpdate
  BY <1>2, EditKeeps DEF DragUpdate, PageInv, PageAgrees, PageTypeOK
<1>3. CASE DragEnd
  <2>1. /\ dragging' = 0 /\ apply_sensitive' = TRUE
        /\ UNCHANGED <<plugged, layout, last_mode, elsewhere, known,
                       reload_pending, baseline, working, sel, countdown, confirm, saved>>
    BY <1>3 DEF DragEnd, compositorVars, editVars
  <2>2. ListsSound'
    BY <2>1 DEF PageInv, ListsSound, EachOnce
  <2> QED
    BY <2>1, <2>2
       DEF PageInv, PageAgrees, PageTypeOK, ListsWhatIsKnown,
           CountdownIsAsked, CleanMeansBaseline,
           SomethingStaysEnabled, Names, Enabled
<1> QED
  BY <1>1, <1>2, <1>3

-----------------------------------------------------------------------------
\* The profile of a list has a state for each output of it.
LEMMA ProfileStates ==
  ASSUME NEW list \in Seq(OutputInfo)
  PROVE  /\ DOMAIN Profile(list) = Names(list) /\ Names(list) \subseteq Outputs
         /\ \A o \in Names(list) : Profile(list)[o] \in States
<1>1. \A i \in DOMAIN list : /\ list[i].name \in Outputs
                             /\ Setting(list[i]) \in States
  <2> SUFFICES ASSUME NEW i \in DOMAIN list
               PROVE  list[i].name \in Outputs /\ Setting(list[i]) \in States
    OBVIOUS
  <2>1. list[i] \in OutputInfo
    OBVIOUS
  <2> QED
    BY <2>1 DEF OutputInfo, Setting, States
<1>2. Names(list) \subseteq Outputs
  BY <1>1 DEF Names
<1>3. ASSUME NEW o \in Names(list)
      PROVE  Profile(list)[o] \in States
  <2>1. \E i \in DOMAIN list : list[i].name = o
    BY DEF Names
  <2>2. (CHOOSE i \in DOMAIN list : list[i].name = o) \in DOMAIN list
    BY <2>1
  <2> QED
    BY <1>1, <2>2 DEF Profile
<1> QED
  BY <1>2, <1>3 DEF Profile

\* Whatever list is applied, the layout stays one.
LEMMA AcceptedIsLayout ==
  ASSUME PageInv, NEW list \in Seq(OutputInfo), Accepted(list) \/ Refused
  PROVE  /\ layout' \in [Outputs -> States]
         /\ last_mode' \in [Outputs -> Modes \union {NoMode}]
         /\ UNCHANGED <<plugged, elsewhere>>
<1>1. /\ layout \in [Outputs -> States] /\ last_mode \in [Outputs -> Modes \union {NoMode}]
  BY DEF PageInv, PageAgrees, PageTypeOK
<1>2. CASE Accepted(list)
  <2>1. layout' = Configured(list)
    BY <1>2 DEF Accepted
  <2>2. \A o \in Outputs : (IF o \in plugged /\ o \in Names(list) THEN Profile(list)[o]
                            ELSE layout[o]) \in States
    BY <1>1, ProfileStates
  <2>3. layout' \in [Outputs -> States]
    BY <2>1, <2>2 DEF Configured
  <2>4. \A o \in Outputs : (IF layout'[o] = "off" THEN last_mode[o] ELSE layout'[o])
                             \in Modes \union {NoMode}
    BY <1>1, <2>3 DEF States
  <2> QED
    BY <1>2, <2>3, <2>4 DEF Accepted
<1>3. CASE Refused
  BY <1>1, <1>3 DEF Refused, compositorVars
<1> QED
  BY <1>2, <1>3

LEMMA ApplyKeeps == PageInv /\ OnApply => PageInv'
<1> SUFFICES ASSUME PageInv, OnApply PROVE PageInv'
  OBVIOUS
<1>1. /\ Refresh /\ confirm' = TRUE
      /\ UNCHANGED <<baseline, working, sel, dragging, saved>>
      /\ Accepted(working) \/ Refused
      /\ countdown' \in BOOLEAN /\ apply_sensitive' \in BOOLEAN
  BY DEF OnApply, editVars, PageInv, PageAgrees, PageTypeOK
<1>2. /\ layout' \in [Outputs -> States]
      /\ last_mode' \in [Outputs -> Modes \union {NoMode}]
      /\ UNCHANGED <<plugged, elsewhere>>
  BY <1>1, AcceptedIsLayout DEF PageInv, PageAgrees, PageTypeOK
<1>s. ListsSound'
  BY <1>1 DEF PageInv, ListsSound, EachOnce
<1> QED
  BY <1>s, <1>1, <1>2, RefreshMarks
     DEF PageInv, PageAgrees, PageTypeOK, ListsWhatIsKnown,
         CountdownIsAsked, CleanMeansBaseline,
         SomethingStaysEnabled, Names, Enabled

LEMMA KeepKeeps == PageInv /\ OnKeep => PageInv'
<1> SUFFICES ASSUME PageInv, OnKeep PROVE PageInv'
  OBVIOUS
<1>1. /\ saved' = Profile(working) /\ baseline' = working
      /\ confirm' = FALSE /\ countdown' = FALSE /\ apply_sensitive' = FALSE
      /\ UNCHANGED <<plugged, layout, last_mode, elsewhere, known, reload_pending,
                     working, sel, dragging>>
  BY DEF OnKeep, EndTrial, compositorVars
<1>2. DOMAIN saved' \subseteq Outputs /\ \A o \in DOMAIN saved' : saved'[o] \in States
  BY <1>1, ProfileStates DEF PageInv, PageAgrees, PageTypeOK
<1>s. ListsSound'
  BY <1>1 DEF PageInv, ListsSound, EachOnce
<1> QED
  BY <1>s, <1>1, <1>2
     DEF PageInv, PageAgrees, PageTypeOK, ListsWhatIsKnown,
         CountdownIsAsked, CleanMeansBaseline,
         SomethingStaysEnabled, Names, Enabled

LEMMA RevertKeeps == PageInv /\ OnRevert => PageInv'
<1> SUFFICES ASSUME PageInv, OnRevert PROVE PageInv'
  OBVIOUS
<1>1. /\ Refresh /\ (Accepted(baseline) \/ Refused)
      /\ working' = baseline /\ UNCHANGED <<baseline, dragging, saved>>
      /\ sel' = IF sel > Len(baseline) THEN FirstOf(baseline) ELSE sel
      /\ confirm' = FALSE /\ countdown' = FALSE /\ apply_sensitive' = FALSE
  BY DEF OnRevert, RevertWorking, RevertSelection, EndTrial
<1>2. /\ layout' \in [Outputs -> States]
      /\ last_mode' \in [Outputs -> Modes \union {NoMode}]
      /\ UNCHANGED <<plugged, elsewhere>>
  BY <1>1, AcceptedIsLayout DEF PageInv, PageAgrees, PageTypeOK
<1>3. baseline \in Seq(OutputInfo) /\ sel \in 0 .. Len(working) /\ working \in Seq(OutputInfo)
  BY DEF PageInv, PageAgrees, PageTypeOK
<1>4. sel' \in 0 .. Len(working')
  BY <1>1, <1>3 DEF FirstOf
<1>5. PageTypeOK'
  BY <1>1, <1>2, <1>3, <1>4, RefreshMarks DEF PageInv, PageAgrees, PageTypeOK
<1>6. ListsWhatIsKnown'
  BY <1>1, RefreshMarks DEF PageInv, PageAgrees, ListsWhatIsKnown, Names
<1>s. ListsSound'
  BY <1>1 DEF PageInv, ListsSound, EachOnce
<1> QED
  BY <1>s, <1>1, <1>5, <1>6
     DEF PageInv, PageAgrees, CountdownIsAsked, CleanMeansBaseline,
         SomethingStaysEnabled,
         Enabled

-----------------------------------------------------------------------------
\* Monitors and other clients change nothing that the page keeps.
LEMMA EnvironmentKeeps ==
  ASSUME PageInv, Environment
  PROVE  PageInv'
<1>1. /\ elsewhere < MaxElsewhere /\ elsewhere' = elsewhere + 1
      /\ UNCHANGED <<known, reload_pending, baseline, working, sel, countdown, confirm,
                     apply_sensitive, dragging, saved>>
  BY DEF Environment, editVars, trialVars
<1>2. elsewhere' \in 0 .. MaxElsewhere
  BY <1>1, ElsewhereAssumption DEF PageInv, PageAgrees, PageTypeOK
<1>3. /\ plugged \subseteq Outputs /\ layout \in [Outputs -> States]
      /\ last_mode \in [Outputs -> Modes \union {NoMode}]
  BY DEF PageInv, PageAgrees, PageTypeOK
<1>4. /\ plugged' \subseteq Outputs /\ layout' \in [Outputs -> States]
      /\ last_mode' \in [Outputs -> Modes \union {NoMode}]
  <2>1. CASE Plug
    BY <1>3, <2>1 DEF Plug, States
  <2>2. CASE Unplug
    BY <1>3, <2>2 DEF Unplug, States
  <2>3. CASE ChangeElsewhere
    BY <1>3, <2>3 DEF ChangeElsewhere, Told, States
  <2> QED
    BY <2>1, <2>2, <2>3 DEF Environment
<1>s. ListsSound'
  BY <1>1 DEF PageInv, ListsSound, EachOnce
<1> QED
  BY <1>s, <1>1, <1>2, <1>4
     DEF PageInv, PageAgrees, PageTypeOK, ListsWhatIsKnown,
         CountdownIsAsked, CleanMeansBaseline,
         SomethingStaysEnabled, Names, Enabled

LEMMA PageStep ==
  ASSUME PageInv, [PageNext]_pageVars
  PROVE  PageInv'
<1>1. CASE UNCHANGED pageVars
  <2>1. ListsSound'
    BY <1>1 DEF pageVars, editVars, PageInv, ListsSound, EachOnce
  <2> QED
    BY <1>1, <2>1
     DEF pageVars, compositorVars, editVars, trialVars, PageInv,
         PageAgrees, PageTypeOK,
         ListsWhatIsKnown, CountdownIsAsked, CleanMeansBaseline,
         SomethingStaysEnabled, Names,
         Enabled
<1> QED
  BY <1>1, PumpKeeps, ReloadKeeps, ToggleKeeps, RefusalKeeps, ModeKeeps, DragKeeps,
     ApplyKeeps, KeepKeeps,
     RevertKeeps, EnvironmentKeeps DEF PageNext, Page

LEMMA PageAlways == PageSpec => []PageInv
<1>1. PageInit => PageInv
  BY PageStart
<1>2. PageInv /\ [PageNext]_pageVars => PageInv'
  BY PageStep
<1> QED
  BY <1>1, <1>2, PTL DEF PageSpec

\* Through hotplugs, edits, refusals and trials both lists of the page name the
\* outputs it knows of unless a reload is due, no countdown runs without its banner,
\* and a page without edits or a trial shows its baseline.
THEOREM PageListsAgree == PageSpec => []PageAgrees
<1>1. PageInv => PageAgrees
  BY DEF PageInv
<1> QED
  BY <1>1, PageAlways, PTL

\* A list that turns every light off has only displays that no mode lights.
LEMMA BlankList ==
  ASSUME PageInv, NEW list \in Seq(OutputInfo), EachOnce(list), Enabled(list) # {},
         layout' = Configured(list), plugged' = plugged, Lit' = {}
  PROVE  LightsNone(list)
<1> SUFFICES ASSUME NEW i \in Enabled(list), list[i].current_mode # NoMode,
                    list[i].name \in plugged
             PROVE  FALSE
  BY DEF LightsNone
<1> DEFINE o == list[i].name
           j == CHOOSE k \in DOMAIN list : list[k].name = o
<1>1. i \in DOMAIN list /\ list[i] \in OutputInfo /\ list[i].enabled
  BY DEF Enabled
<1>2. o \in Names(list) /\ o \in Outputs
  BY <1>1 DEF Names, OutputInfo
<1>3. j = i
  BY <1>1 DEF EachOnce
<1>4. Profile(list)[o] = Setting(list[i])
  BY <1>2, <1>3 DEF Profile
<1>5. layout'[o] = list[i].current_mode
  BY <1>1, <1>2, <1>4 DEF Configured, Setting
<1>6. list[i].current_mode # "off"
  <2>1. list[i].current_mode \in Modes
    BY <1>1 DEF OutputInfo
  <2> QED
    BY <2>1, NullAssumption
<1> QED
  BY <1>5, <1>6 DEF Lit

\* A page that found a display on turns the last one off only through displays
\* that are enabled without a mode (rebuild_controls and apply_all disagree there),
\* or gone: by an apply of such a list, or a revert to one that was kept.
THEOREM PageBlanksOnlyWithoutModes == PageSpec => BlanksOnlyWithoutModes
<1>1. PageInv /\ [PageNext]_pageVars => [BlankExplained]_pageVars
  <2> SUFFICES ASSUME PageInv, PageNext, Lit # {}, Lit' = {}, UNCHANGED elsewhere,
                      Enabled(baseline) # {}
               PROVE  \/ OnApply  /\ LightsNone(working)
                      \/ OnRevert /\ LightsNone(baseline)
    BY DEF BlankExplained
  <2>1. /\ working \in Seq(OutputInfo) /\ baseline \in Seq(OutputInfo)
        /\ EachOnce(working) /\ EachOnce(baseline) /\ Enabled(working) # {}
    BY DEF PageInv, PageAgrees, PageTypeOK, ListsSound, SomethingStaysEnabled
  <2>2. ~(UNCHANGED <<plugged, layout>>)
    BY DEF Lit
  <2>3. ~Environment
    BY DEF Environment, PageInv, PageAgrees, PageTypeOK
  <2>4. OnApply \/ OnRevert
    BY <2>2, <2>3 DEF PageNext, Page, Pump, ReloadOutputs, ToggleEnabled, ToggleRefused,
       ChangeMode, DragBegin, DragUpdate, DragEnd, Edit, OnKeep, compositorVars
  <2>5. CASE OnApply
    <3>1. Accepted(working)
      BY <2>2, <2>5 DEF OnApply, Refused, compositorVars
    <3> QED
      BY <2>1, <2>5, <3>1, BlankList DEF Accepted
  <2>6. CASE OnRevert
    <3>1. Accepted(baseline)
      BY <2>2, <2>6 DEF OnRevert, Refused, compositorVars
    <3> QED
      BY <2>1, <2>6, <3>1, BlankList DEF Accepted
  <2> QED
    BY <2>4, <2>5, <2>6
<1> QED
  BY <1>1, PageAlways, PTL DEF PageSpec, BlanksOnlyWithoutModes
=============================================================================
