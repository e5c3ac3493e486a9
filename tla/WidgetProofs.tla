---------------------------- MODULE WidgetProofs ----------------------------
(***************************************************************************)
(* Proofs about the two programs whose widgets follow a store.             *)
(*                                                                         *)
(* Notifications, for any action keys, threshold and number of ids:        *)
(* timers, banners and the window follow the store, and the daemon keeps   *)
(* the contract of NotificationServer.                                     *)
(*                                                                         *)
(* AppBar, for any apps, monitors and pins, any number of windows and      *)
(* hotplugs and any length of the wire: every bar shows the windows of the *)
(* store that it accepts, and the pins on file are those of the bar.  When *)
(* the wire is quiet, the store is what the compositor has and each window *)
(* is on the bar of its monitor.                                           *)
(***************************************************************************)
EXTENDS Notifications, AppBar, FiniteSetTheorems, SequenceTheorems,
        WellFoundedInduction, TLAPS

-----------------------------------------------------------------------------
(***************************************************************************)
(* What is closed first, and what a submission may be given.               *)
(***************************************************************************)
\* The least id of a cascade is one of it.
LEMMA FirstIn ==
  ASSUME NEW ids, \E id \in ids : \A other \in ids : id <= other
  PROVE  First(ids) \in ids
BY DEF First

-----------------------------------------------------------------------------
(***************************************************************************)
(* The invariant.  A new id must be one that nobody has seen; that a banner*)
(* that leaves is of no open notification needs that ids only grow.        *)
(***************************************************************************)
ClosedGone ==
  /\ closed \intersect DOMAIN store = {}
  /\ next_id <= MaxNotifications + 1

IInv == TimersOwned /\ StackFollowsStore /\ ClosedGone

LEMMA Start == Init => IInv
<1> SUFFICES ASSUME Init PROVE IInv
  OBVIOUS
<1>1. DOMAIN store = {} /\ DOMAIN by_id = {}
  BY DEF Init
<1>2. TypeOK
  <2>1. next_id = 1 /\ submits = 0
    BY DEF Init
  <2>3. visible \in BOOLEAN
    BY DEF Init
  <2>4. next_id \in Nat \ {0} /\ submits \in Nat
    BY <2>1
  <2>2. /\ timers \subseteq Timer /\ leaving \subseteq 1 .. next_id - 1
        /\ cascades \subseteq (SUBSET (1 .. next_id - 1)) \ {{}}
        /\ closed \subseteq 1 .. next_id - 1
    BY DEF Init
  <2> QED
    BY <1>1, <2>2, <2>3, <2>4 DEF TypeOK
<1>3. TimersOwned
  BY <1>2 DEF Init, TimersOwned
<1>4. StackFollowsStore
  BY <1>1 DEF Init, StackFollowsStore, BannersFollowStore, WindowFollowsBanners
<1>5. ClosedGone
  BY BoundsAssumption DEF Init, ClosedGone
<1> QED
  BY <1>3, <1>4, <1>5 DEF IInv

\* What a submission may be given.
LEMMA Contents ==
  ASSUME submits \in Nat, NEW keys \in SUBSET Keys, NEW expires \in BOOLEAN
  PROVE  /\ Content(keys, expires) \in Notification
         /\ Content(keys, expires).actions = keys
         /\ Content(keys, expires).expires = expires
         /\ expires => Content(keys, expires).expire_source = submits + 1
BY DEF Content, Notification

LEMMA ArmedOwn ==
  ASSUME submits \in Nat, NEW id \in Nat, NEW keys \in SUBSET Keys, NEW expires \in BOOLEAN,
         NEW t \in Armed(id, expires)
  PROVE  /\ t \in Timer /\ t.id = id /\ expires /\ t.source = submits + 1
BY DEF Armed, Timer

LEMMA NewKeeps ==
  ASSUME IInv, NEW keys \in SUBSET Keys, NEW expires \in BOOLEAN, SubmitNew(keys, expires)
  PROVE  IInv'
<1> DEFINE new == Content(keys, expires)
<1>1. /\ next_id <= MaxNotifications /\ next_id' = next_id + 1 /\ submits' = submits + 1
      /\ store' = With(store, next_id, new)
      /\ timers' = timers \union Armed(next_id, expires)
      /\ by_id' = With(by_id, next_id, keys)
      /\ visible' = TRUE
      /\ UNCHANGED <<leaving, cascades, closed>>
  BY DEF SubmitNew, Counted, NextId
<1>2. /\ next_id \in Nat \ {0} /\ submits \in Nat /\ next_id \notin DOMAIN store
      /\ DOMAIN by_id = DOMAIN store /\ DOMAIN store \subseteq 1 .. next_id - 1
      /\ next_id \notin leaving /\ next_id \notin closed
  BY DEF IInv, TimersOwned, TypeOK, StackFollowsStore, BannersFollowStore
<1>3. 1 .. next_id - 1 \subseteq 1 .. next_id' - 1 /\ next_id \in 1 .. next_id' - 1
  BY <1>1, <1>2
<1>4. /\ DOMAIN store' = DOMAIN store \union {next_id} /\ store'[next_id] = new
      /\ \A id \in DOMAIN store : store'[id] = store[id]
      /\ DOMAIN by_id' = DOMAIN by_id \union {next_id} /\ by_id'[next_id] = keys
      /\ \A id \in DOMAIN by_id : by_id'[id] = by_id[id]
  <2>1. store' = [i \in DOMAIN store \union {next_id} |-> IF i = next_id THEN new ELSE store[i]]
    BY <1>1 DEF With, Server!With
  <2>2. by_id' = [i \in DOMAIN by_id \union {next_id} |-> IF i = next_id THEN keys ELSE by_id[i]]
    BY <1>1 DEF With, Server!With
  <2> QED
    BY <1>2, <2>1, <2>2
<1>5. \A t \in Armed(next_id, expires) :
        t \in Timer /\ t.id = next_id /\ expires /\ t.source = submits + 1
  BY <1>2, ArmedOwn
<1>6. TypeOK'
  <2>1. timers' \subseteq Timer
    BY <1>1, <1>5 DEF IInv, TimersOwned, TypeOK
  <2>2. \A id \in DOMAIN store' : store'[id] \in Notification
    BY <1>2, <1>4, Contents DEF IInv, TimersOwned, TypeOK
  <2>3. \A id \in DOMAIN by_id' : by_id'[id] \in SUBSET Keys
    BY <1>2, <1>4 DEF IInv, TimersOwned, TypeOK
  <2>4. cascades' \subseteq (SUBSET (1 .. next_id' - 1)) \ {{}}
    BY <1>1, <1>3 DEF IInv, TimersOwned, TypeOK
  <2>5. next_id' \in Nat \ {0} /\ submits' \in Nat /\ visible' \in BOOLEAN
    BY <1>1, <1>2
  <2>6. /\ DOMAIN store' \subseteq 1 .. next_id' - 1
        /\ DOMAIN by_id' \subseteq 1 .. next_id' - 1
    BY <1>2, <1>3, <1>4
  <2>7. leaving' \subseteq 1 .. next_id' - 1 /\ closed' \subseteq 1 .. next_id' - 1
    BY <1>1, <1>3 DEF IInv, TimersOwned, TypeOK
  <2> QED
    BY <2>1, <2>2, <2>3, <2>4, <2>5, <2>6, <2>7 DEF TypeOK
<1>7. TimersOwned'
  <2>1. \A t \in timers : /\ t.id \in DOMAIN store' /\ store'[t.id].expires
                          /\ store'[t.id].expire_source = t.source
    BY <1>4 DEF IInv, TimersOwned
  <2>2. \A t \in Armed(next_id, expires) :
          /\ t.id \in DOMAIN store' /\ store'[t.id].expires
          /\ store'[t.id].expire_source = t.source
    BY <1>2, <1>4, <1>5, Contents
  <2> QED
    BY <1>1, <1>6, <2>1, <2>2 DEF TimersOwned
<1>8. StackFollowsStore'
  <2>1. \A id \in DOMAIN store' : by_id'[id] = store'[id].actions
    BY <1>2, <1>4, Contents DEF IInv, StackFollowsStore, BannersFollowStore
  <2> QED
    BY <1>1, <1>2, <1>4, <2>1
       DEF IInv, StackFollowsStore, BannersFollowStore, WindowFollowsBanners
<1>9. ClosedGone'
  BY <1>1, <1>2, <1>4, BoundsAssumption DEF IInv, ClosedGone
<1> QED
  BY <1>7, <1>8, <1>9 DEF IInv

\* A replacement owns the only timer there is of it.
LEMMA ReplaceKeeps ==
  ASSUME IInv, NEW keys \in SUBSET Keys, NEW expires \in BOOLEAN, NEW id \in DOMAIN store,
         SubmitReplace(id, keys, expires)
  PROVE  IInv'
<1> DEFINE new == Content(keys, expires)
<1>1. /\ submits' = submits + 1
      /\ store' = [store EXCEPT ![id] = new]
      /\ timers' = CancelExpire(id) \union Armed(id, expires)
      /\ UNCHANGED <<next_id, leaving, visible, cascades, closed>>
  BY DEF SubmitReplace, Counted
<1>2. by_id' = [by_id EXCEPT ![id] = keys]
  BY DEF SubmitReplace, UpdateBanner, IInv, StackFollowsStore, BannersFollowStore
<1>3. submits \in Nat /\ id \in Nat /\ DOMAIN by_id = DOMAIN store
  BY DEF IInv, TimersOwned, TypeOK, StackFollowsStore, BannersFollowStore
<1>4. /\ DOMAIN store' = DOMAIN store /\ store'[id] = new
      /\ \A other \in DOMAIN store \ {id} : store'[other] = store[other]
      /\ DOMAIN by_id' = DOMAIN by_id /\ by_id'[id] = keys
      /\ \A other \in DOMAIN by_id \ {id} : by_id'[other] = by_id[other]
  BY <1>1, <1>2, <1>3
<1>5. \A t \in CancelExpire(id) : t \in timers /\ t.id # id
  BY DEF CancelExpire, IInv, TimersOwned
<1>6. \A t \in Armed(id, expires) :
        t \in Timer /\ t.id = id /\ expires /\ t.source = submits + 1
  BY <1>3, ArmedOwn
<1>7. TypeOK'
  <2>1. timers' \subseteq Timer
    BY <1>1, <1>5, <1>6 DEF IInv, TimersOwned, TypeOK
  <2>2. \A other \in DOMAIN store' : store'[other] \in Notification
    BY <1>3, <1>4, Contents DEF IInv, TimersOwned, TypeOK
  <2>3. \A other \in DOMAIN by_id' : by_id'[other] \in SUBSET Keys
    BY <1>4 DEF IInv, TimersOwned, TypeOK
  <2> QED
    BY <1>1, <1>4, <2>1, <2>2, <2>3 DEF IInv, TimersOwned, TypeOK
<1>8. TimersOwned'
  <2>1. \A t \in CancelExpire(id) :
          /\ t.id \in DOMAIN store' /\ store'[t.id].expires
          /\ store'[t.id].expire_source = t.source
    BY <1>4, <1>5 DEF IInv, TimersOwned
  <2>2. \A t \in Armed(id, expires) :
          /\ t.id \in DOMAIN store' /\ store'[t.id].expires
          /\ store'[t.id].expire_source = t.source
    BY <1>3, <1>4, <1>6, Contents
  <2> QED
    BY <1>1, <1>7, <2>1, <2>2 DEF TimersOwned
<1>9. StackFollowsStore'
  <2>1. \A other \in DOMAIN store' : by_id'[other] = store'[other].actions
    BY <1>3, <1>4, Contents DEF IInv, StackFollowsStore, BannersFollowStore
  <2> QED
    BY <1>1, <1>4, <2>1
       DEF IInv, StackFollowsStore, BannersFollowStore, WindowFollowsBanners
<1>10. ClosedGone'
  BY <1>1, <1>4 DEF IInv, ClosedGone
<1> QED
  BY <1>8, <1>9, <1>10 DEF IInv

\* A close takes the notification out of the store, its timer with it, and its
\* banner off the stack.
LEMMA CloseKeeps ==
  ASSUME IInv, NEW id \in DOMAIN store, NEW reports,
         CloseReporting(id, reports),
         cascades' \subseteq (SUBSET (1 .. next_id - 1)) \ {{}}
  PROVE  IInv'
<1>1. /\ timers' = CancelExpire(id)
      /\ store' = Without(store, id) /\ by_id' = Without(by_id, id)
      /\ closed' = closed \union {id} /\ leaving' = leaving \union {id}
      /\ UNCHANGED <<next_id, submits, visible>>
  BY DEF CloseReporting, DismissBanner, IInv, StackFollowsStore, BannersFollowStore
<1>2. DOMAIN by_id = DOMAIN store /\ id \in 1 .. next_id - 1
  BY DEF IInv, TimersOwned, TypeOK, StackFollowsStore, BannersFollowStore
<1>3. /\ DOMAIN store' = DOMAIN store \ {id} /\ DOMAIN by_id' = DOMAIN by_id \ {id}
      /\ \A other \in DOMAIN store' :
           store'[other] = store[other] /\ by_id'[other] = by_id[other]
  <2>1. store' = [i \in DOMAIN store \ {id} |-> store[i]]
    BY <1>1 DEF Without, Server!Without
  <2>2. by_id' = [i \in DOMAIN by_id \ {id} |-> by_id[i]]
    BY <1>1 DEF Without, Server!Without
  <2> QED
    BY <1>2, <2>1, <2>2
<1>4. \A t \in timers' : t \in timers /\ t.id # id
  BY <1>1 DEF CancelExpire, IInv, TimersOwned
<1>5. TypeOK'
  <2>1. timers' \subseteq Timer
    BY <1>4 DEF IInv, TimersOwned, TypeOK
  <2>2. \A other \in DOMAIN store' : store'[other] \in Notification
    BY <1>3 DEF IInv, TimersOwned, TypeOK
  <2>3. \A other \in DOMAIN by_id' : by_id'[other] \in SUBSET Keys
    BY <1>2, <1>3 DEF IInv, TimersOwned, TypeOK
  <2>4. /\ DOMAIN store' \subseteq 1 .. next_id' - 1 /\ DOMAIN by_id' \subseteq 1 .. next_id' - 1
        /\ leaving' \subseteq 1 .. next_id' - 1 /\ closed' \subseteq 1 .. next_id' - 1
    BY <1>1, <1>2, <1>3 DEF IInv, TimersOwned, TypeOK
  <2>5. next_id' \in Nat \ {0} /\ submits' \in Nat /\ visible' \in BOOLEAN
    BY <1>1 DEF IInv, TimersOwned, TypeOK
  <2>6. cascades' \subseteq (SUBSET (1 .. next_id' - 1)) \ {{}}
    BY <1>1
  <2> QED
    BY <2>1, <2>2, <2>3, <2>4, <2>5, <2>6 DEF TypeOK
<1>6. TimersOwned'
  BY <1>3, <1>4, <1>5 DEF IInv, TimersOwned
<1>7. StackFollowsStore'
  BY <1>1, <1>2, <1>3 DEF IInv, StackFollowsStore, BannersFollowStore, WindowFollowsBanners
<1>8. ClosedGone'
  BY <1>1, <1>3 DEF IInv, ClosedGone
<1> QED
  BY <1>6, <1>7, <1>8 DEF IInv

LEMMA NothingKeeps ==
  ASSUME IInv, UNCHANGED <<managerVars, stackVars, closed>>,
         cascades' \subseteq (SUBSET (1 .. next_id - 1)) \ {{}}
  PROVE  IInv'
<1>1. UNCHANGED <<next_id, store, timers, submits, by_id, leaving, visible, closed>>
  BY DEF managerVars, stackVars
<1>2. TimersOwned'
  BY <1>1 DEF IInv, TimersOwned, TypeOK
<1> QED
  BY <1>1, <1>2
     DEF IInv, StackFollowsStore, BannersFollowStore, WindowFollowsBanners, ClosedGone

\* What is left of a cascade is one, of ids that were given.
LEMMA RemainingTyped ==
  ASSUME NEW ids \in SUBSET (1 .. next_id - 1)
  PROVE  Remaining(ids) \subseteq (SUBSET (1 .. next_id - 1)) \ {{}}
BY DEF Remaining

LEMMA CascadesTyped == IInv => cascades \subseteq (SUBSET (1 .. next_id - 1)) \ {{}}
BY DEF IInv, TimersOwned, TypeOK

\* A close of whatever id keeps the invariant, along with the cascades.
LEMMA AnyClose ==
  ASSUME IInv, NEW id, NEW reason, Close(id, reason),
         cascades' \subseteq (SUBSET (1 .. next_id - 1)) \ {{}}
  PROVE  IInv'
BY CloseKeeps, NothingKeeps DEF Close

LEMMA Step == IInv /\ [Next]_vars => IInv'
<1> SUFFICES ASSUME IInv, [Next]_vars PROVE IInv'
  OBVIOUS
<1>1. CASE Notify
  BY <1>1, NewKeeps, ReplaceKeeps DEF Notify
<1>2. CASE CloseNotification
  BY <1>2, AnyClose, CascadesTyped DEF CloseNotification
<1>3. CASE ClickCard
  BY <1>3, AnyClose, CascadesTyped DEF ClickCard
<1>4. CASE InvokeAction
  BY <1>4, CloseKeeps, NothingKeeps, CascadesTyped DEF InvokeAction
<1>5. CASE ClearAll
  <2> DEFINE ids == DOMAIN by_id
  <2>1. ids \subseteq 1 .. next_id - 1
    BY DEF IInv, TimersOwned, TypeOK
  <2>2. /\ Close(First(ids), "dismissed")
        /\ cascades' = cascades \union Remaining(ids \ {First(ids)})
    BY <1>5 DEF ClearAll
  <2>3. cascades' \subseteq (SUBSET (1 .. next_id - 1)) \ {{}}
    BY <2>1, <2>2, RemainingTyped, CascadesTyped
  <2> QED
    BY <2>2, <2>3, AnyClose
<1>6. ASSUME NEW t \in timers, Expire(t) PROVE IInv'
  <2>1. t.id \in DOMAIN store
    BY DEF IInv, TimersOwned
  <2>2. CloseReporting(t.id, <<Server!ClosedSignal(t.id, "expired")>>) /\ UNCHANGED cascades
    BY <1>6, <2>1 DEF Expire
  <2> QED
    BY <2>1, <2>2, CloseKeeps, CascadesTyped
<1>7. ASSUME NEW ids \in cascades, CascadeTick(ids) PROVE IInv'
  <2>1. ids \subseteq 1 .. next_id - 1
    BY CascadesTyped
  <2>2. Remaining(ids \ {First(ids)}) \subseteq (SUBSET (1 .. next_id - 1)) \ {{}}
    BY <2>1, RemainingTyped
  <2>3. cascades' \subseteq (SUBSET (1 .. next_id - 1)) \ {{}}
    BY <1>7, <2>2, CascadesTyped DEF CascadeTick, NextOfCascade
  <2> QED
    BY <1>7, <2>3, AnyClose DEF CascadeTick
<1>8. ASSUME NEW id \in leaving, ChildRevealed(id) PROVE IInv'
  <2>1. /\ leaving' = leaving \ {id} /\ visible' = (visible /\ ~Hides)
        /\ UNCHANGED <<next_id, store, timers, submits, by_id, cascades, closed>>
    BY <1>8 DEF ChildRevealed, managerVars
  <2>2. visible' \in BOOLEAN
    BY <2>1
  <2>3. TimersOwned'
    BY <2>1, <2>2 DEF IInv, TimersOwned, TypeOK
  <2>4. BannersFollowStore'
    BY <2>1 DEF IInv, StackFollowsStore, BannersFollowStore
  <2>5. WindowFollowsBanners'
    BY <2>1 DEF IInv, StackFollowsStore, WindowFollowsBanners, Hides
  <2>6. ClosedGone'
    BY <2>1 DEF IInv, ClosedGone
  <2> QED
    BY <2>3, <2>4, <2>5, <2>6 DEF IInv, StackFollowsStore
<1>9. CASE UNCHANGED vars
  BY <1>9, NothingKeeps, CascadesTyped DEF vars
<1> QED
  BY <1>1, <1>2, <1>3, <1>4, <1>5, <1>6, <1>7, <1>8, <1>9 DEF Next

-----------------------------------------------------------------------------
(***************************************************************************)
(* What always holds.                                                      *)
(***************************************************************************)
LEMMA Always == Spec => []IInv
BY Start, Step, PTL DEF Spec

\* Of any number of submissions, replacements and closes, each running timer is
\* the one that its open notification owns.
THEOREM TimersAreOwned == Spec => []TimersOwned
<1>1. IInv => TimersOwned
  BY DEF IInv
<1> QED
  BY <1>1, Always, PTL

\* The stack shows what is stored, with the actions it offers now, and the window
\* is up when it must be and never with nothing on it.
THEOREM StackShowsStore == Spec => []StackFollowsStore
<1>1. IInv => StackFollowsStore
  BY DEF IInv
<1> QED
  BY <1>1, Always, PTL

-----------------------------------------------------------------------------
(***************************************************************************)
(* The contract.  What is offered are the actions in the store.            *)
(***************************************************************************)
Offered == [id \in DOMAIN store |-> store[id].actions]

\* A step that opens, closes or does neither is one of the server's.
LEMMA OpensMap ==
  ASSUME NEW id \in 1 .. MaxNotifications \ closed, NEW keys \in SUBSET Keys,
         Offered' = Server!With(Offered, id, keys), signals' = <<>>, closed' = closed
  PROVE  Server!Next
BY DEF Server!Next, Server!Notify, Offered

LEMMA ClosesMap ==
  ASSUME IInv, NEW id \in DOMAIN store, NEW reason \in Reasons,
         CloseReporting(id, <<Server!ClosedSignal(id, reason)>>)
  PROVE  Server!Next
<1>1. Offered' = Server!Without(Offered, id)
  BY DEF CloseReporting, Without, Server!Without, Offered
<1>2. closed' = closed \union {id} /\ signals' = <<Server!ClosedSignal(id, reason)>>
  BY DEF CloseReporting
<1>3. id \in DOMAIN Offered
  BY DEF Offered
<1> QED
  BY <1>1, <1>2, <1>3 DEF Server!Next, Server!Close, Server!Retire, Offered

LEMMA InvokesMap ==
  ASSUME IInv, NEW id \in DOMAIN store, NEW key \in store[id].actions,
         CloseReporting(
           id, <<Server!ActionSignal(id, key), Server!ClosedSignal(id, "dismissed")>>)
  PROVE  Server!Next
<1>1. Offered' = Server!Without(Offered, id)
  BY DEF CloseReporting, Without, Server!Without, Offered
<1>2. closed' = closed \union {id}
  BY DEF CloseReporting
<1>4. signals' = <<Server!ActionSignal(id, key), Server!ClosedSignal(id, "dismissed")>>
  BY DEF CloseReporting
<1>3. id \in DOMAIN Offered /\ key \in Offered[id]
  BY DEF Offered
<1> QED
  BY <1>1, <1>2, <1>3, <1>4 DEF Server!Next, Server!Invoke, Server!Retire, Offered

LEMMA SilentMaps ==
  ASSUME UNCHANGED <<store, closed>>, signals' = <<>>
  PROVE  Server!Next
BY DEF Server!Next, Server!Silent

LEMMA CloseMaps ==
  ASSUME IInv, NEW id, NEW reason \in Reasons, Close(id, reason)
  PROVE  Server!Next
BY ClosesMap, SilentMaps DEF Close, managerVars

\* The daemon opens an id once, closes it once, and reports an action only of what
\* is open and offers it, right before the close it causes.
THEOREM KeepsTheContract == Spec => NotificationContract
<1>1. Init => Server!Init
  <2> SUFFICES ASSUME Init PROVE Server!Init
    OBVIOUS
  <2>1. store = <<>> /\ closed = {} /\ signals = <<>>
    BY DEF Init
  <2>2. Offered = <<>>
    BY <2>1 DEF Offered
  <2> QED
    BY <2>1, <2>2 DEF Server!Init, Offered
<1>2. IInv /\ [Next]_vars => [Server!Next]_(Server!vars)
  <2> SUFFICES ASSUME IInv, [Next]_vars PROVE [Server!Next]_(Server!vars)
    OBVIOUS
  <2>1. ASSUME NEW keys \in SUBSET Keys, NEW expires \in BOOLEAN, SubmitNew(keys, expires)
        PROVE  Server!Next
    <3>1. next_id \in 1 .. MaxNotifications \ closed
      BY <2>1, BoundsAssumption DEF SubmitNew, IInv, TimersOwned, TypeOK
    <3>2. submits \in Nat
      BY DEF IInv, TimersOwned, TypeOK
    <3>3. store' = [i \in DOMAIN store \union {next_id} |->
                      IF i = next_id THEN Content(keys, expires) ELSE store[i]]
      BY <2>1 DEF SubmitNew, With, Server!With
    <3>4. Offered' = Server!With(Offered, next_id, keys)
      BY <3>2, <3>3, Contents DEF Server!With, Offered
    <3> QED
      BY <2>1, <3>1, <3>4, OpensMap DEF SubmitNew, Counted
  <2>2. ASSUME NEW keys \in SUBSET Keys, NEW expires \in BOOLEAN, NEW id \in DOMAIN store,
               SubmitReplace(id, keys, expires)
        PROVE  Server!Next
    <3>1. id \in 1 .. MaxNotifications \ closed
      BY BoundsAssumption DEF IInv, TimersOwned, TypeOK, ClosedGone
    <3>2. submits \in Nat
      BY DEF IInv, TimersOwned, TypeOK
    <3>3. store' = [store EXCEPT ![id] = Content(keys, expires)]
      BY <2>2 DEF SubmitReplace
    <3>4. Offered' = Server!With(Offered, id, keys)
      BY <3>2, <3>3, Contents DEF Server!With, Offered
    <3> QED
      BY <2>2, <3>1, <3>4, OpensMap DEF SubmitReplace, Counted
  <2>3. CASE CloseNotification \/ ClickCard \/ ClearAll
    BY <2>3, CloseMaps DEF CloseNotification, ClickCard, ClearAll, Reasons
  <2>4. CASE InvokeAction
    <3>1. PICK id \in DOMAIN store : \E key \in store[id].actions :
            CloseReporting(
              id, <<Server!ActionSignal(id, key), Server!ClosedSignal(id, "dismissed")>>)
      BY <2>4 DEF InvokeAction, Clickable, IInv, StackFollowsStore, BannersFollowStore
    <3> QED
      BY <3>1, InvokesMap
  <2>5. ASSUME NEW t \in timers, Expire(t) PROVE Server!Next
    BY <2>5, ClosesMap DEF Expire, IInv, TimersOwned, Reasons
  <2>6. ASSUME NEW ids \in cascades, CascadeTick(ids) PROVE Server!Next
    BY <2>6, CloseMaps DEF CascadeTick, Reasons
  <2>7. ASSUME NEW id \in leaving, ChildRevealed(id) PROVE Server!Next
    BY <2>7, SilentMaps DEF ChildRevealed, managerVars
  <2>8. CASE UNCHANGED vars
    BY <2>8 DEF vars, managerVars, Server!vars
  <2> QED
    BY <2>1, <2>2, <2>3, <2>4, <2>5, <2>6, <2>7, <2>8 DEF Next, Notify
<1> QED
  BY <1>1, <1>2, Always, PTL DEF Spec, NotificationContract, Server!Spec

-----------------------------------------------------------------------------
(***************************************************************************)
(* Numbers and recursion.  SequencesExt and the model fold over sequences  *)
(* with recursive functions: they have a value at every place.             *)
(***************************************************************************)
\* A set of naturals with a member has a least one.
LEMMA LeastNumber ==
  ASSUME NEW T, T \subseteq Nat, T # {}
  PROVE  \E x \in T : \A y \in T : x <= y
<1> DEFINE R == {ss \in Nat \X Nat : ss[1] < ss[2]}
<1>1. IsWellFoundedOn(R, Nat)
  BY NatLessThanWellFounded DEF OpToRel
<1>2. PICK x \in T : \A y \in T : ~(<<y, x>> \in R)
  BY <1>1, WFMin
<1>3. ASSUME NEW y \in T PROVE x <= y
  <2>1. y \in Nat /\ x \in Nat /\ <<y, x>> \in Nat \X Nat
    OBVIOUS
  <2>2. y < x => <<y, x>> \in R
    BY <2>1
  <2> QED
    BY <1>2, <2>1, <2>2
<1> QED
  BY <1>3

\* A set that has 0 and, with a number below n, the next has all up to n.
LEMMA UpTo ==
  ASSUME NEW n \in Nat, NEW T, 0 \in T, \A i \in 0 .. n - 1 : i \in T => i + 1 \in T
  PROVE  0 .. n \subseteq T
<1> DEFINE Missing == (0 .. n) \ T
<1> SUFFICES ASSUME Missing # {} PROVE FALSE
  OBVIOUS
<1>1. PICK x \in Missing : \A y \in Missing : x <= y
  <2> Missing \subseteq Nat
    OBVIOUS
  <2> HIDE DEF Missing
  <2> QED
    BY LeastNumber
<1>2. x \in 1 .. n /\ x - 1 \in 0 .. n - 1
  BY <1>1
<1>3. x - 1 \in T
  BY <1>1, <1>2
<1> QED
  BY <1>2, <1>3

\* A function is defined by its value at 0 and the step to the next value.
Recursively(f, n, base, step) ==
  f[0] = base /\ \A i \in 1 .. n : f[i] = step[<<i, f[i - 1]>>]

\* A function defined by recursion on the places 1 .. n has the values it should.
LEMMA Recursion ==
  ASSUME NEW n \in Nat, NEW S, NEW base \in S, NEW step \in [(1 .. n) \X S -> S]
  PROVE  \E f \in [0 .. n -> S] : Recursively(f, n, base, step)
<1> DEFINE T == {k \in 0 .. n : \E f \in [0 .. k -> S] : Recursively(f, k, base, step)}
<1>1. 0 \in T
  <2> DEFINE f == [i \in 0 .. 0 |-> base]
  <2>1. f \in [0 .. 0 -> S] /\ Recursively(f, 0, base, step)
    BY DEF Recursively
  <2> QED
    BY <2>1
<1>2. ASSUME NEW k \in 0 .. n - 1, k \in T PROVE k + 1 \in T
  <2>1. PICK f \in [0 .. k -> S] : Recursively(f, k, base, step)
    BY <1>2
  <2> DEFINE g == [i \in 0 .. k + 1 |-> IF i = k + 1 THEN step[<<k + 1, f[k]>>] ELSE f[i]]
  <2>2. step[<<k + 1, f[k]>>] \in S
    <3>1. <<k + 1, f[k]>> \in (1 .. n) \X S
      OBVIOUS
    <3> QED
      BY <3>1
  <2>3. g \in [0 .. k + 1 -> S]
    BY <2>2
  <2>4. g[0] = base
    BY <2>1 DEF Recursively
  <2>5. ASSUME NEW i \in 1 .. k + 1 PROVE g[i] = step[<<i, g[i - 1]>>]
    <3>1. g[i - 1] = f[i - 1]
      OBVIOUS
    <3>2. CASE i = k + 1
      <4>1. g[k + 1] = step[<<k + 1, f[k]>>] /\ i - 1 = k
        BY <3>2
      <4> HIDE DEF g
      <4> QED
        BY <3>1, <3>2, <4>1
    <3>3. CASE i \in 1 .. k
      BY <2>1, <3>1, <3>3 DEF Recursively
    <3> QED
      BY <3>2, <3>3
  <2>6. Recursively(g, k + 1, base, step)
    BY <2>4, <2>5 DEF Recursively
  <2>7. k + 1 \in 0 .. n
    OBVIOUS
  <2> HIDE DEF g
  <2> QED
    BY <2>3, <2>6, <2>7
<1>3. 0 .. n \subseteq T
  <2> HIDE DEF T
  <2> QED
    BY <1>1, <1>2, UpTo
<1> QED
  BY <1>3

\* The equation that PinnedOrder's fold solves.
KeptUpTo(order, pinned, f) ==
  f = [n \in 0 .. Len(order) |->
         IF n = 0 THEN <<>>
         ELSE IF order[n] \in pinned THEN Append(f[n - 1], order[n])
         ELSE f[n - 1]]

-----------------------------------------------------------------------------
(***************************************************************************)
(* The operators on lists: SequencesExt's RemoveAt and InsertAt, and the   *)
(* model's RemoveFirst, on a list without repetition.                      *)
(***************************************************************************)
\* What RemoveAt leaves.
LEMMA RemoveAtIs ==
  ASSUME NEW S, NEW s \in Seq(S), NEW k \in 1 .. Len(s)
  PROVE  /\ RemoveAt(s, k) \in Seq(S)
         /\ Len(RemoveAt(s, k)) = Len(s) - 1
         /\ \A i \in 1 .. Len(s) - 1 : RemoveAt(s, k)[i] = IF i < k THEN s[i] ELSE s[i + 1]
<1> DEFINE front == SubSeq(s, 1, k - 1)
           back  == SubSeq(s, k + 1, Len(s))
<1>1. /\ front \in Seq(S) /\ Len(front) = k - 1
      /\ \A i \in 1 .. k - 1 : front[i] = s[i]
  OBVIOUS
<1>2. /\ back \in Seq(S) /\ Len(back) = Len(s) - k
      /\ \A i \in 1 .. Len(s) - k : back[i] = s[i + k]
  OBVIOUS
<1>3. RemoveAt(s, k) = front \o back
  BY DEF RemoveAt
<1> HIDE DEF front, back
<1>4. /\ front \o back \in Seq(S) /\ Len(front \o back) = Len(s) - 1
      /\ \A i \in 1 .. Len(s) - 1 :
           (front \o back)[i] = IF i <= k - 1 THEN front[i] ELSE back[i - (k - 1)]
  <2>1. Len(front) + Len(back) = Len(s) - 1
    BY <1>1, <1>2
  <2>2. /\ front \o back \in Seq(S) /\ Len(front \o back) = Len(front) + Len(back)
        /\ \A i \in 1 .. Len(front) + Len(back) :
             (front \o back)[i] = IF i <= Len(front) THEN front[i] ELSE back[i - Len(front)]
    BY <1>1, <1>2, ConcatProperties
  <2> QED
    BY <1>1, <2>1, <2>2
<1>5. ASSUME NEW i \in 1 .. Len(s) - 1
      PROVE  (front \o back)[i] = IF i < k THEN s[i] ELSE s[i + 1]
  <2>1. CASE i < k
    BY <1>1, <1>4, <2>1
  <2>2. CASE ~(i < k)
    <3>1. i - (k - 1) \in 1 .. Len(s) - k /\ (i - (k - 1)) + k = i + 1
      BY <2>2
    <3>2. back[i - (k - 1)] = s[i + 1]
      BY <1>2, <3>1
    <3> QED
      BY <1>4, <2>2, <3>2
  <2> QED
    BY <2>1, <2>2
<1> QED
  BY <1>3, <1>4, <1>5

\* r is s with e put in at k.
Inserted(S, s, k, e, r) ==
  /\ r \in Seq(S) /\ Len(r) = Len(s) + 1
  /\ \A i \in 1 .. Len(s) + 1 : r[i] = IF i < k THEN s[i] ELSE IF i = k THEN e ELSE s[i - 1]

\* What InsertAt gives.
LEMMA InsertAtIs ==
  ASSUME NEW S, NEW s \in Seq(S), NEW k \in 1 .. Len(s) + 1, NEW e \in S
  PROVE  Inserted(S, s, k, e, InsertAt(s, k, e))
<1> DEFINE front == SubSeq(s, 1, k - 1)
           back  == SubSeq(s, k, Len(s))
<1>1. /\ front \in Seq(S) /\ Len(front) = k - 1
      /\ \A i \in 1 .. k - 1 : front[i] = s[i]
  OBVIOUS
<1>2. /\ back \in Seq(S) /\ Len(back) = Len(s) - k + 1
      /\ \A i \in 1 .. Len(s) - k + 1 : back[i] = s[i + k - 1]
  OBVIOUS
<1>3. InsertAt(s, k, e) = (front \o <<e>>) \o back
  BY DEF InsertAt
<1> HIDE DEF front, back
<1>4. /\ front \o <<e>> \in Seq(S) /\ Len(front \o <<e>>) = k
      /\ \A i \in 1 .. k - 1 : (front \o <<e>>)[i] = s[i]
      /\ (front \o <<e>>)[k] = e
  BY <1>1
<1> DEFINE head == front \o <<e>>
<1> HIDE DEF head
<1>5. head \in Seq(S) /\ Len(head) = k /\ head[k] = e /\ \A i \in 1 .. k - 1 : head[i] = s[i]
  BY <1>4 DEF head
<1>6. /\ head \o back \in Seq(S) /\ Len(head \o back) = Len(s) + 1
      /\ \A i \in 1 .. Len(s) + 1 :
           (head \o back)[i] = IF i <= k THEN head[i] ELSE back[i - k]
  BY <1>2, <1>5, ConcatProperties
<1>7. ASSUME NEW i \in 1 .. Len(s) + 1
      PROVE  (head \o back)[i] = IF i < k THEN s[i] ELSE IF i = k THEN e ELSE s[i - 1]
  <2>1. CASE i < k
    <3>1. i <= k /\ i \in 1 .. k - 1
      BY <2>1
    <3>2. (head \o back)[i] = s[i]
      BY <1>5, <1>6, <3>1
    <3> QED
      BY <2>1, <3>2
  <2>2. CASE i = k
    <3>1. (head \o back)[i] = e
      BY <1>5, <1>6, <2>2
    <3> QED
      BY <2>2, <3>1
  <2>3. CASE i > k
    <3>1. i - k \in 1 .. Len(s) - k + 1 /\ (i - k) + k - 1 = i - 1
      BY <2>3
    <3>2. back[i - k] = s[i - 1]
      BY <1>2, <3>1
    <3>3. (head \o back)[i] = s[i - 1]
      BY <1>6, <2>3, <3>2
    <3> QED
      BY <2>3, <3>3
  <2>4. i < k \/ i = k \/ i > k
    OBVIOUS
  <2> QED
    BY <2>1, <2>2, <2>3, <2>4
<1>8. Inserted(S, s, k, e, head \o back)
  BY <1>6, <1>7 DEF Inserted
<1> QED
  BY <1>3, <1>8 DEF head

\* RemoveFirst takes one occurrence out, if there is one.
LEMMA RemoveFirstIs ==
  ASSUME NEW S, NEW s \in Seq(S), NEW e
  PROVE  \/ e \notin ToSet(s) /\ RemoveFirst(s, e) = s
         \/ \E k \in 1 .. Len(s) : s[k] = e /\ RemoveFirst(s, e) = RemoveAt(s, k)
<1>1. CASE e \notin ToSet(s)
  <2>1. ~ \E i \in 1 .. Len(s) : s[i] = e
    BY <1>1 DEF ToSet
  <2> QED
    BY <1>1, <2>1 DEF RemoveFirst
<1>2. CASE e \in ToSet(s)
  <2> DEFINE I == {i \in 1 .. Len(s) : s[i] = e}
  <2>1. I # {} /\ I \subseteq Nat
    BY <1>2 DEF ToSet
  <2>2. \E x \in I : \A y \in I : x <= y
    <3> HIDE DEF I
    <3> QED
      BY <2>1, LeastNumber
  <2>3. Min(I) \in I
    <3> HIDE DEF I
    <3> QED
      BY <2>2 DEF Min
  <2>4. SelectInSeq(s, LAMBDA v : v = e) = Min(I)
    BY <2>1 DEF SelectInSeq
  <2>5. RemoveFirst(s, e) = RemoveAt(s, Min(I))
    BY <2>1, <2>4 DEF RemoveFirst
  <2> QED
    BY <2>3, <2>5
<1> QED
  BY <1>1, <1>2

\* Of a list without duplicates it leaves the others.
LEMMA RemoveFirstResult ==
  ASSUME NEW S, NEW s \in Seq(S), NEW e
  PROVE  /\ RemoveFirst(s, e) \in Seq(S)
         /\ ToSet(RemoveFirst(s, e)) \subseteq ToSet(s)
         /\ IsInjective(s) => /\ IsInjective(RemoveFirst(s, e))
                              /\ ToSet(RemoveFirst(s, e)) = ToSet(s) \ {e}
<1>1. CASE e \notin ToSet(s) /\ RemoveFirst(s, e) = s
  BY <1>1
<1>2. ASSUME NEW k \in 1 .. Len(s), s[k] = e, RemoveFirst(s, e) = RemoveAt(s, k)
      PROVE  /\ RemoveFirst(s, e) \in Seq(S)
             /\ ToSet(RemoveFirst(s, e)) \subseteq ToSet(s)
             /\ IsInjective(s) => /\ IsInjective(RemoveFirst(s, e))
                                  /\ ToSet(RemoveFirst(s, e)) = ToSet(s) \ {e}
  <2> DEFINE r == RemoveFirst(s, e)
  <2>1. /\ r \in Seq(S) /\ Len(r) = Len(s) - 1
        /\ \A i \in 1 .. Len(s) - 1 : r[i] = IF i < k THEN s[i] ELSE s[i + 1]
    BY <1>2, RemoveAtIs
  <2> HIDE DEF r
  <2>2. DOMAIN r = 1 .. Len(s) - 1 /\ DOMAIN s = 1 .. Len(s)
    BY <2>1
  <2>3. ToSet(r) \subseteq ToSet(s)
    BY <2>1, <2>2 DEF ToSet
  <2>4. ASSUME IsInjective(s) PROVE IsInjective(r) /\ ToSet(r) = ToSet(s) \ {e}
    <3> DEFINE From(i) == IF i < k THEN i ELSE i + 1
    <3>4. \A i \in 1 .. Len(s) - 1 : From(i) \in 1 .. Len(s) /\ r[i] = s[From(i)]
      BY <2>1
    <3>5. \A i, j \in 1 .. Len(s) - 1 : From(i) = From(j) => i = j
      OBVIOUS
    <3>1. IsInjective(r)
      <4> HIDE DEF From
      <4> QED
        BY <2>2, <2>4, <3>4, <3>5 DEF IsInjective
    <3>2. e \notin ToSet(r)
      BY <1>2, <2>1, <2>2, <2>4 DEF IsInjective, ToSet
    <3>3. ASSUME NEW x \in ToSet(s), x # e PROVE x \in ToSet(r)
      <4>1. PICK i \in 1 .. Len(s) : s[i] = x
        BY <2>2 DEF ToSet
      <4>2. i # k
        BY <1>2, <3>3, <4>1
      <4>3. CASE i < k
        <5>1. i \in 1 .. Len(s) - 1 /\ r[i] = x
          BY <2>1, <4>1, <4>3
        <5> QED
          BY <2>2, <5>1 DEF ToSet
      <4>4. CASE i > k
        <5>1. i - 1 \in 1 .. Len(s) - 1 /\ r[i - 1] = x
          BY <2>1, <4>1, <4>4
        <5> QED
          BY <2>2, <5>1 DEF ToSet
      <4> QED
        BY <4>2, <4>3, <4>4
    <3> QED
      BY <2>3, <3>1, <3>2, <3>3
  <2> QED
    BY <2>1, <2>3, <2>4 DEF r
<1> QED
  BY <1>1, <1>2, RemoveFirstIs

\* InsertAt adds one member and keeps a list without repetition so.
LEMMA InsertAtResult ==
  ASSUME NEW S, NEW s \in Seq(S), NEW k \in 1 .. Len(s) + 1, NEW e \in S
  PROVE  /\ InsertAt(s, k, e) \in Seq(S)
         /\ Len(InsertAt(s, k, e)) = Len(s) + 1
         /\ ToSet(InsertAt(s, k, e)) = ToSet(s) \union {e}
         /\ IsInjective(s) /\ e \notin ToSet(s) => IsInjective(InsertAt(s, k, e))
<1> DEFINE r == InsertAt(s, k, e)
<1>1. /\ r \in Seq(S) /\ Len(r) = Len(s) + 1
      /\ \A i \in 1 .. Len(s) + 1 : r[i] = IF i < k THEN s[i] ELSE IF i = k THEN e ELSE s[i - 1]
  <2>1. Inserted(S, s, k, e, r)
    BY InsertAtIs
  <2> QED
    BY <2>1 DEF Inserted
<1> HIDE DEF r
<1>2. DOMAIN r = 1 .. Len(s) + 1 /\ DOMAIN s = 1 .. Len(s)
  BY <1>1
<1>3. ASSUME NEW x \in ToSet(r) PROVE x \in ToSet(s) \union {e}
  <2>1. PICK i \in 1 .. Len(s) + 1 : r[i] = x
    BY <1>2 DEF ToSet
  <2>2. CASE i < k
    <3>1. i \in 1 .. Len(s) /\ s[i] = x
      BY <1>1, <2>1, <2>2
    <3> QED
      BY <1>2, <3>1 DEF ToSet
  <2>3. CASE i = k
    BY <1>1, <2>1, <2>3
  <2>4. CASE i > k
    <3>1. i - 1 \in 1 .. Len(s) /\ s[i - 1] = x
      BY <1>1, <2>1, <2>4
    <3> QED
      BY <1>2, <3>1 DEF ToSet
  <2> QED
    BY <2>2, <2>3, <2>4
<1>4. ASSUME NEW x \in ToSet(s) PROVE x \in ToSet(r)
  <2>1. PICK i \in 1 .. Len(s) : s[i] = x
    BY <1>2 DEF ToSet
  <2>2. CASE i < k
    <3>1. i \in 1 .. Len(s) + 1 /\ r[i] = x
      BY <1>1, <2>1, <2>2
    <3> QED
      BY <1>2, <3>1 DEF ToSet
  <2>3. CASE i >= k
    <3>1. i + 1 \in 1 .. Len(s) + 1 /\ r[i + 1] = x
      BY <1>1, <2>1, <2>3
    <3> QED
      BY <1>2, <3>1 DEF ToSet
  <2> QED
    BY <2>2, <2>3
<1>5. e \in ToSet(r)
  <2>1. r[k] = e /\ k \in DOMAIN r
    BY <1>1, <1>2
  <2> QED
    BY <2>1 DEF ToSet
<1>6. ASSUME IsInjective(s), e \notin ToSet(s) PROVE IsInjective(r)
  <2> DEFINE From(i) == IF i < k THEN i ELSE i - 1
  <2>1. \A i \in 1 .. Len(s) + 1 : i # k => From(i) \in 1 .. Len(s) /\ r[i] = s[From(i)]
    BY <1>1
  <2>2. \A i, j \in 1 .. Len(s) + 1 : i # k /\ j # k /\ From(i) = From(j) => i = j
    OBVIOUS
  <2>3. r[k] = e /\ \A i \in 1 .. Len(s) : s[i] # e
    BY <1>1, <1>2, <1>6 DEF ToSet
  <2> HIDE DEF From
  <2> QED
    BY <1>2, <1>6, <2>1, <2>2, <2>3 DEF IsInjective
<1> QED
  BY <1>1, <1>3, <1>4, <1>5, <1>6 DEF r

\* Append adds one member and keeps a list without repetition so.
LEMMA AppendResult ==
  ASSUME NEW S, NEW s \in Seq(S), NEW e \in S
  PROVE  /\ Append(s, e) \in Seq(S)
         /\ ToSet(Append(s, e)) = ToSet(s) \union {e}
         /\ IsInjective(s) /\ e \notin ToSet(s) => IsInjective(Append(s, e))
<1> DEFINE r == Append(s, e)
<1>1. /\ r \in Seq(S) /\ DOMAIN s = 1 .. Len(s) /\ DOMAIN r = 1 .. Len(s) + 1
      /\ \A i \in 1 .. Len(s) : r[i] = s[i]
      /\ r[Len(s) + 1] = e
  OBVIOUS
<1>2. \A i \in 1 .. Len(s) + 1 : i \in 1 .. Len(s) \/ i = Len(s) + 1
  OBVIOUS
<1>3. Len(s) + 1 \in 1 .. Len(s) + 1 /\ 1 .. Len(s) \subseteq 1 .. Len(s) + 1
  OBVIOUS
<1> HIDE DEF r
<1>4. ToSet(r) = ToSet(s) \union {e}
  BY <1>1, <1>2, <1>3 DEF ToSet
<1>5. ASSUME IsInjective(s), e \notin ToSet(s) PROVE IsInjective(r)
  BY <1>1, <1>2, <1>5 DEF IsInjective, ToSet
<1> QED
  BY <1>1, <1>4, <1>5 DEF r

-----------------------------------------------------------------------------
(***************************************************************************)
(* The pins in the order of the box.                                       *)
(***************************************************************************)
\* The pinned entries of the first n.
Kept(order, pinned) == CHOOSE f : KeptUpTo(order, pinned, f)

\* PinnedOrder is the last value of the fold over the box.
LEMMA PinnedOrderIs ==
  ASSUME NEW bar
  PROVE  PinnedOrder(bar) = Kept(bar.order, bar.pinned)[Len(bar.order)]
BY DEF PinnedOrder, Kept, KeptUpTo

\* f keeps, place by place, the pinned entries of the order.
Keeps(order, pinned, f) ==
  /\ f \in [0 .. Len(order) -> Seq(Apps)]
  /\ f[0] = <<>>
  /\ \A n \in 1 .. Len(order) :
       f[n] = IF order[n] \in pinned THEN Append(f[n - 1], order[n]) ELSE f[n - 1]

\* There is such a function, so that Kept is one.
LEMMA KeptExists ==
  ASSUME NEW order \in Seq(Apps), NEW pinned
  PROVE  Keeps(order, pinned, Kept(order, pinned))
<1> DEFINE n == Len(order)
           S == Seq(Apps)
           Grown(i, v) == IF order[i] \in pinned THEN Append(v, order[i]) ELSE v
           step == [x \in (1 .. n) \X S |-> Grown(x[1], x[2])]
<1>1. n \in Nat /\ <<>> \in S /\ \A i \in 1 .. n : order[i] \in Apps
  OBVIOUS
<1>2. \A i \in 1 .. n, v \in S : Grown(i, v) \in S
  BY <1>1
<1>3. step \in [(1 .. n) \X S -> S]
  <2> HIDE DEF Grown, S
  <2> QED
    BY <1>2
<1>4. \A i \in 1 .. n, v \in S : step[<<i, v>>] = Grown(i, v)
  <2> HIDE DEF Grown, S
  <2> QED
    OBVIOUS
<1>5. PICK f \in [0 .. n -> S] : Recursively(f, n, <<>>, step)
  <2> HIDE DEF step, S, n
  <2> QED
    BY <1>1, <1>3, Recursion
<1>6. f[0] = <<>> /\ \A i \in 1 .. n : f[i] = Grown(i, f[i - 1])
  <2> HIDE DEF step, Grown, S
  <2>1. \A i \in 1 .. n : f[i - 1] \in S
    BY <1>1
  <2> QED
    BY <1>4, <1>5, <2>1 DEF Recursively
<1>7. KeptUpTo(order, pinned, f)
  <2> DEFINE g == [i \in 0 .. n |-> IF i = 0 THEN <<>> ELSE Grown(i, f[i - 1])]
  <2>1. \A i \in 0 .. n : f[i] = g[i]
    <3> HIDE DEF Grown
    <3> QED
      BY <1>1, <1>6
  <2>2. f = g
    <3> HIDE DEF Grown, S
    <3> QED
      BY <2>1
  <2> QED
    BY <2>2 DEF KeptUpTo
<1>8. ASSUME NEW h, KeptUpTo(order, pinned, h) PROVE Keeps(order, pinned, h)
  <2>7. h = [i \in 0 .. n |-> IF i = 0 THEN <<>> ELSE Grown(i, h[i - 1])]
    BY <1>8 DEF KeptUpTo
  <2>1. /\ DOMAIN h = 0 .. n
        /\ h[0] = <<>>
        /\ \A i \in 1 .. n : h[i] = Grown(i, h[i - 1])
    <3> HIDE DEF Grown
    <3>1. DOMAIN h = 0 .. n /\ 0 \in 0 .. n /\ 1 .. n \subseteq 0 .. n
      BY <1>1, <2>7
    <3>2. \A i \in 0 .. n : h[i] = IF i = 0 THEN <<>> ELSE Grown(i, h[i - 1])
      BY <2>7
    <3> QED
      BY <1>1, <3>1, <3>2
  <2>2. h = [i \in 0 .. n |-> h[i]]
    BY <2>7
  <2> DEFINE T == {i \in 0 .. n : h[i] \in S}
  <2>3. 0 \in T
    <3> HIDE DEF S
    <3> QED
      BY <1>1, <2>1
  <2>4. ASSUME NEW i \in 0 .. n - 1, i \in T PROVE i + 1 \in T
    <3>1. h[i] \in S /\ i + 1 \in 1 .. n /\ (i + 1) - 1 = i
      BY <2>4
    <3>2. h[i + 1] = Grown(i + 1, h[i])
      <4> HIDE DEF Grown
      <4> QED
        BY <2>1, <3>1
    <3>3. h[i + 1] \in S
      <4> HIDE DEF Grown, S
      <4> QED
        BY <1>2, <3>1, <3>2
    <3> QED
      BY <3>1, <3>3
  <2>5. 0 .. n \subseteq T
    <3> HIDE DEF T
    <3> QED
      BY <1>1, <2>3, <2>4, UpTo
  <2>6. h \in [0 .. n -> S]
    <3> HIDE DEF S
    <3> QED
      BY <2>2, <2>5
  <2> QED
    BY <2>1, <2>6 DEF Keeps
<1> QED
  BY <1>7, <1>8 DEF Kept

\* What is kept of a list are its pinned entries, each as often as it is there.
LEMMA KeptResult ==
  ASSUME NEW order \in Seq(Apps), NEW pinned, IsInjective(order)
  PROVE  LET k == Kept(order, pinned)[Len(order)] IN
         k \in Seq(Apps) /\ IsInjective(k) /\ ToSet(k) = ToSet(order) \intersect pinned
<1> DEFINE f == Kept(order, pinned)
           n == Len(order)
           Upto(m) == {order[i] : i \in 1 .. m}
           T == {m \in 0 .. n : IsInjective(f[m]) /\ ToSet(f[m]) = Upto(m) \intersect pinned}
<1>1. Keeps(order, pinned, f)
  BY KeptExists
<1> HIDE DEF f
<1>2. 0 \in T
  BY <1>1 DEF Keeps, IsInjective, ToSet
<1>3. ASSUME NEW m \in 0 .. n - 1, m \in T PROVE m + 1 \in T
  <2>1. m + 1 \in 1 .. n /\ (m + 1) - 1 = m /\ f[m] \in Seq(Apps) /\ order[m + 1] \in Apps
    BY <1>1 DEF Keeps
  <2>2. Upto(m + 1) = Upto(m) \union {order[m + 1]}
    <3>1. \A i \in 1 .. m + 1 : i \in 1 .. m \/ i = m + 1
      OBVIOUS
    <3> QED
      BY <3>1
  <2>3. order[m + 1] \notin Upto(m)
    BY <2>1 DEF IsInjective
  <2> DEFINE U == Upto(m)
  <2>4. IsInjective(f[m]) /\ ToSet(f[m]) = U \intersect pinned
    BY <1>3
  <2>5. CASE order[m + 1] \in pinned
    <3>1. f[m + 1] = Append(f[m], order[m + 1])
      BY <1>1, <2>1, <2>5 DEF Keeps
    <3>2. ToSet(f[m + 1]) = ToSet(f[m]) \union {order[m + 1]}
      BY <2>1, <3>1, AppendResult
    <3>3. order[m + 1] \notin ToSet(f[m])
      <4> HIDE DEF U
      <4> QED
        BY <2>3, <2>4 DEF U
    <3>4. IsInjective(f[m + 1])
      BY <2>1, <2>4, <3>1, <3>3, AppendResult
    <3>5. ToSet(f[m + 1]) = Upto(m + 1) \intersect pinned
      <4> HIDE DEF Upto
      <4> QED
        BY <2>2, <2>4, <2>5, <3>2
    <3> QED
      BY <2>1, <3>4, <3>5
  <2>6. CASE order[m + 1] \notin pinned
    <3>1. f[m + 1] = f[m]
      BY <1>1, <2>1, <2>6 DEF Keeps
    <3>5. ToSet(f[m + 1]) = Upto(m + 1) \intersect pinned
      <4> HIDE DEF Upto
      <4> QED
        BY <2>2, <2>4, <2>6, <3>1
    <3> QED
      BY <2>1, <2>4, <3>1, <3>5
  <2> QED
    BY <2>5, <2>6
<1>4. 0 .. n \subseteq T
  <2> HIDE DEF T
  <2> QED
    BY <1>2, <1>3, UpTo
<1>5. ToSet(order) = Upto(n)
  BY DEF ToSet
<1>6. n \in T /\ f[n] \in Seq(Apps)
  BY <1>1, <1>4 DEF Keeps
<1> QED
  BY <1>5, <1>6 DEF f

\* All is kept of a list of pinned entries.
LEMMA AllKept ==
  ASSUME NEW order \in Seq(Apps), NEW pinned, ToSet(order) \subseteq pinned
  PROVE  Kept(order, pinned)[Len(order)] = order
<1> DEFINE f == Kept(order, pinned)
           n == Len(order)
           T == {m \in 0 .. n : Len(f[m]) = m /\ \A i \in 1 .. m : f[m][i] = order[i]}
<1>1. Keeps(order, pinned, f)
  BY KeptExists
<1> HIDE DEF f
<1>2. 0 \in T
  BY <1>1 DEF Keeps
<1>3. ASSUME NEW m \in 0 .. n - 1, m \in T PROVE m + 1 \in T
  <2>1. m + 1 \in 1 .. n /\ (m + 1) - 1 = m /\ f[m] \in Seq(Apps) /\ order[m + 1] \in Apps
    BY <1>1 DEF Keeps
  <2>2. order[m + 1] \in pinned
    BY <2>1 DEF ToSet
  <2>3. f[m + 1] = Append(f[m], order[m + 1])
    BY <1>1, <2>1, <2>2 DEF Keeps
  <2>4. Len(f[m]) = m /\ \A i \in 1 .. m : f[m][i] = order[i]
    BY <1>3
  <2>5. Len(f[m + 1]) = m + 1 /\ \A i \in 1 .. m + 1 : f[m + 1][i] = order[i]
    BY <2>1, <2>3, <2>4
  <2> QED
    BY <2>1, <2>5
<1>4. 0 .. n \subseteq T
  <2> HIDE DEF T
  <2> QED
    BY <1>2, <1>3, UpTo
<1>5. n \in T /\ f[n] \in Seq(Apps)
  BY <1>1, <1>4 DEF Keeps
<1>6. Len(f[n]) = Len(order) /\ \A i \in 1 .. Len(order) : f[n][i] = order[i]
  BY <1>5
<1> QED
  BY <1>5, <1>6, SeqEqual DEF f

\* A new entry that is not pinned changes nothing.
LEMMA KeptOfAppend ==
  ASSUME NEW order \in Seq(Apps), NEW pinned, NEW app \in Apps, app \notin pinned
  PROVE  Kept(Append(order, app), pinned)[Len(Append(order, app))]
           = Kept(order, pinned)[Len(order)]
<1> DEFINE longer == Append(order, app)
           f == Kept(order, pinned)
           g == Kept(longer, pinned)
           n == Len(order)
           T == {m \in 0 .. n : g[m] = f[m]}
<1>1. /\ longer \in Seq(Apps) /\ Len(longer) = n + 1 /\ longer[n + 1] = app
      /\ \A i \in 1 .. n : longer[i] = order[i]
  OBVIOUS
<1> HIDE DEF longer
<1>2. Keeps(order, pinned, f) /\ Keeps(longer, pinned, g)
  BY <1>1, KeptExists
<1> HIDE DEF f, g
<1>3. 0 \in T
  BY <1>2 DEF Keeps
<1>4. ASSUME NEW m \in 0 .. n - 1, m \in T PROVE m + 1 \in T
  <2>1. m + 1 \in 1 .. n /\ m + 1 \in 1 .. n + 1 /\ (m + 1) - 1 = m /\ f[m] = g[m]
    BY <1>4
  <2>2. g[m + 1] = f[m + 1]
    BY <1>1, <1>2, <2>1 DEF Keeps
  <2> QED
    BY <2>1, <2>2
<1>5. 0 .. n \subseteq T
  <2> HIDE DEF T
  <2> QED
    BY <1>3, <1>4, UpTo
<1>6. g[n] = f[n]
  BY <1>5
<1>7. g[n + 1] = g[n]
  <2>1. n + 1 \in 1 .. n + 1 /\ (n + 1) - 1 = n
    OBVIOUS
  <2> QED
    BY <1>1, <1>2, <2>1 DEF Keeps
<1> QED
  BY <1>1, <1>6, <1>7 DEF f, g, longer

\* Nor does one that goes.
LEMMA KeptOfRemove ==
  ASSUME NEW order \in Seq(Apps), NEW pinned, NEW app \in Apps, app \notin pinned
  PROVE  Kept(RemoveFirst(order, app), pinned)[Len(RemoveFirst(order, app))]
           = Kept(order, pinned)[Len(order)]
<1> SUFFICES ASSUME NEW k \in 1 .. Len(order), order[k] = app
             PROVE  Kept(RemoveAt(order, k), pinned)[Len(RemoveAt(order, k))]
                      = Kept(order, pinned)[Len(order)]
  BY RemoveFirstIs
<1> DEFINE less == RemoveAt(order, k)
           f == Kept(order, pinned)
           g == Kept(less, pinned)
           n == Len(order)
           From(m) == IF m < k THEN m ELSE m + 1
           T == {m \in 0 .. n - 1 : g[m] = f[From(m)]}
<1>1. /\ less \in Seq(Apps) /\ Len(less) = n - 1
      /\ \A i \in 1 .. n - 1 : less[i] = order[From(i)]
  BY RemoveAtIs
<1> HIDE DEF less
<1>2. Keeps(order, pinned, f) /\ Keeps(less, pinned, g)
  BY <1>1, KeptExists
<1> HIDE DEF f, g
<1>3. f[k] = f[k - 1]
  BY <1>2 DEF Keeps
<1>4. 0 \in T
  <2>1. f[From(0)] = <<>>
    BY <1>2, <1>3 DEF Keeps
  <2>2. g[0] = <<>> /\ 0 \in 0 .. n - 1
    BY <1>2 DEF Keeps
  <2> QED
    BY <2>1, <2>2
<1>5. ASSUME NEW m \in 0 .. (n - 1) - 1, m \in T PROVE m + 1 \in T
  <2>1. m + 1 \in 1 .. n - 1 /\ (m + 1) - 1 = m
    OBVIOUS
  <2>2. g[m] = f[From(m)]
    BY <1>5
  <2>3. f[From(m + 1) - 1] = f[From(m)]
    BY <1>3
  <2>4. From(m + 1) \in 1 .. n
    OBVIOUS
  <2>5. less[m + 1] = order[From(m + 1)]
    BY <1>1, <2>1
  <2> HIDE DEF From
  <2>6. g[m + 1] = IF less[m + 1] \in pinned THEN Append(g[m], less[m + 1]) ELSE g[m]
    BY <1>1, <1>2, <2>1 DEF Keeps
  <2>7. f[From(m + 1)] = IF order[From(m + 1)] \in pinned
                         THEN Append(f[From(m)], order[From(m + 1)]) ELSE f[From(m)]
    BY <1>2, <2>3, <2>4 DEF Keeps
  <2>8. g[m + 1] = f[From(m + 1)]
    BY <2>2, <2>5, <2>6, <2>7
  <2> QED
    BY <2>1, <2>8
<1>6. 0 .. n - 1 \subseteq T
  <2> HIDE DEF T
  <2>1. n - 1 \in Nat
    OBVIOUS
  <2> QED
    BY <1>4, <1>5, <2>1, UpTo
<1>7. g[n - 1] = f[n]
  <2>1. n - 1 \in T
    BY <1>6
  <2>2. From(n - 1) = n \/ (n = k /\ From(n - 1) = n - 1)
    OBVIOUS
  <2> QED
    BY <1>3, <2>1, <2>2
<1> QED
  BY <1>1, <1>7 DEF f, g, less

-----------------------------------------------------------------------------
(***************************************************************************)
(* The box of entries, and a drag's order of them.                         *)
(***************************************************************************)
\* An order of the box: each app once.
Boxes == {o \in Seq(Apps) : IsInjective(o)}

\* reorder_child_after keeps the children.
LEMMA ReorderKeeps ==
  ASSUME NEW o \in Boxes, NEW e \in ToSet(o) \union {Gone},
         NEW prev \in (ToSet(o) \ {e}) \union {None, Gone}
  PROVE  ReorderAfter(o, e, prev) \in Boxes /\ ToSet(ReorderAfter(o, e, prev)) = ToSet(o)
<1>1. CASE e = Gone \/ prev = Gone
  BY <1>1 DEF ReorderAfter
<1>2. CASE e # Gone /\ prev # Gone
  <2> DEFINE rest == RemoveFirst(o, e)
             at == IF prev = None THEN 1 ELSE 1 + CHOOSE i \in DOMAIN rest : rest[i] = prev
  <2>1. /\ rest \in Seq(Apps) /\ IsInjective(rest) /\ ToSet(rest) = ToSet(o) \ {e}
        /\ e \in Apps
    <3>1. ToSet(o) \subseteq Apps
      BY DEF Boxes, ToSet
    <3> QED
      BY <1>2, <3>1, RemoveFirstResult DEF Boxes
  <2> HIDE DEF rest
  <2>2. at \in 1 .. Len(rest) + 1
    <3>1. CASE prev = None
      BY <2>1, <3>1
    <3>2. CASE prev # None
      <4>1. prev \in ToSet(rest)
        BY <1>2, <2>1, <3>2
      <4>2. \E i \in DOMAIN rest : rest[i] = prev
        BY <4>1 DEF ToSet
      <4>3. (CHOOSE i \in DOMAIN rest : rest[i] = prev) \in 1 .. Len(rest)
        BY <2>1, <4>2
      <4> QED
        BY <2>1, <3>2, <4>3
    <3> QED
      BY <3>1, <3>2
  <2>3. ReorderAfter(o, e, prev) = InsertAt(rest, at, e)
    BY <1>2 DEF ReorderAfter, rest
  <2> HIDE DEF at
  <2>4. /\ InsertAt(rest, at, e) \in Seq(Apps) /\ IsInjective(InsertAt(rest, at, e))
        /\ ToSet(InsertAt(rest, at, e)) = ToSet(rest) \union {e}
    BY <2>1, <2>2, InsertAtResult
  <2>5. e \in ToSet(o)
    BY <1>2
  <2> QED
    BY <2>1, <2>3, <2>4, <2>5 DEF Boxes
<1> QED
  BY <1>1, <1>2

\* What was taken down of an order: no entry twice but for those that are gone.
Distinct(t) == \A i, j \in DOMAIN t : t[i] = t[j] /\ t[i] # Gone => i = j

\* The steps of the reordering, from the box as it is to the box as it will be.
Steps(order, target, h) ==
  /\ h[0] = order
  /\ \A i \in 1 .. Len(target) :
       h[i] = ReorderAfter(h[i - 1], target[i], IF i = 1 THEN None ELSE target[i - 1])
  /\ \A i \in 0 .. Len(target) : h[i] \in Boxes /\ ToSet(h[i]) = ToSet(order)
  /\ Reordered(order, target) = h[Len(target)]

\* The reordering has such steps, each of which keeps the entries of the box.
LEMMA ReorderedSteps ==
  ASSUME NEW order \in Boxes, NEW target \in Seq(ToSet(order) \union {Gone}),
         Distinct(target)
  PROVE  \E h : Steps(order, target, h)
<1> DEFINE n == Len(target)
           S == {o \in Boxes : ToSet(o) = ToSet(order)}
           Prev(i) == IF i = 1 THEN None ELSE target[i - 1]
           Grown(i, v) == ReorderAfter(v, target[i], Prev(i))
           step == [x \in (1 .. n) \X S |-> Grown(x[1], x[2])]
           Is(h) == h = [i \in 0 .. n |-> IF i = 0 THEN order ELSE Grown(i, h[i - 1])]
<1>1. n \in Nat /\ order \in S
  OBVIOUS
<1>2. ASSUME NEW i \in 1 .. n, NEW v \in S PROVE Grown(i, v) \in S
  <2>1. target[i] \in ToSet(v) \union {Gone} /\ v \in Boxes /\ ToSet(v) = ToSet(order)
    OBVIOUS
  <2>2. Prev(i) \in (ToSet(v) \ {target[i]}) \union {None, Gone}
    <3>1. CASE i = 1
      BY <3>1
    <3>2. CASE i # 1
      <4>1. i - 1 \in 1 .. n /\ i - 1 # i
        BY <3>2
      <4>2. target[i - 1] \in ToSet(v) \union {Gone}
        BY <2>1, <4>1
      <4>3. target[i - 1] = target[i] => target[i - 1] = Gone
        BY <4>1 DEF Distinct
      <4> QED
        BY <3>2, <4>2, <4>3
    <3> QED
      BY <3>1, <3>2
  <2> HIDE DEF Prev
  <2>3. Grown(i, v) \in Boxes /\ ToSet(Grown(i, v)) = ToSet(v)
    BY <2>1, <2>2, ReorderKeeps
  <2> QED
    BY <2>1, <2>3
<1> HIDE DEF Grown, S
<1>3. step \in [(1 .. n) \X S -> S]
  BY <1>2
<1>4. \A i \in 1 .. n, v \in S : step[<<i, v>>] = Grown(i, v)
  OBVIOUS
<1>5. PICK f \in [0 .. n -> S] : Recursively(f, n, order, step)
  <2> HIDE DEF step, n
  <2> QED
    BY <1>1, <1>3, Recursion
<1>6. f[0] = order /\ \A i \in 1 .. n : f[i] = Grown(i, f[i - 1])
  <2> HIDE DEF step
  <2>1. \A i \in 1 .. n : f[i - 1] \in S
    BY <1>1
  <2> QED
    BY <1>4, <1>5, <2>1 DEF Recursively
<1>7. Is(f)
  <2> DEFINE g == [i \in 0 .. n |-> IF i = 0 THEN order ELSE Grown(i, f[i - 1])]
  <2>1. \A i \in 0 .. n : f[i] = g[i]
    BY <1>1, <1>6
  <2> QED
    BY <2>1
<1> DEFINE h == CHOOSE h : Is(h)
<1>8. Is(h)
  <2> HIDE DEF Is
  <2> QED
    BY <1>7
<1>9. Reordered(order, target) = h[n]
  BY DEF Reordered, Grown
<1> HIDE DEF h
<1>10. h[0] = order /\ \A i \in 1 .. n : h[i] = Grown(i, h[i - 1])
  BY <1>1, <1>8
<1> HIDE DEF Is
<1>11. \A i \in 0 .. n : h[i] \in S
  <2> DEFINE T == {i \in 0 .. n : h[i] \in S}
  <2>1. 0 \in T
    BY <1>1, <1>10
  <2>2. ASSUME NEW i \in 0 .. n - 1, i \in T PROVE i + 1 \in T
    <3>1. h[i] \in S /\ i + 1 \in 1 .. n /\ (i + 1) - 1 = i
      BY <2>2
    <3>2. h[i + 1] = Grown(i + 1, h[i])
      BY <1>10, <3>1
    <3> QED
      BY <1>2, <3>1, <3>2
  <2>3. 0 .. n \subseteq T
    <3> HIDE DEF T
    <3> QED
      BY <1>1, <2>1, <2>2, UpTo
  <2> QED
    BY <2>3
<1>12. Steps(order, target, h)
  BY <1>9, <1>10, <1>11 DEF Steps, Grown, S
<1> QED
  BY <1>12

\* Putting the entries in any target order keeps the entries of the box.
LEMMA ReorderedKeeps ==
  ASSUME NEW order \in Boxes, NEW target \in Seq(ToSet(order) \union {Gone}),
         Distinct(target)
  PROVE  Reordered(order, target) \in Boxes /\ ToSet(Reordered(order, target)) = ToSet(order)
<1>1. PICK h : Steps(order, target, h)
  BY ReorderedSteps
<1>2. Len(target) \in 0 .. Len(target)
  OBVIOUS
<1> QED
  BY <1>1, <1>2 DEF Steps

-----------------------------------------------------------------------------
(***************************************************************************)
(* One bar.  Each operation of the app bar keeps its tables right.         *)
(***************************************************************************)
\* The bars: their tables have the right types, the entries each once.
Lists == {ids \in Seq(Windows) : IsInjective(ids)}
Shown == UNION {[D -> Apps] : D \in SUBSET Windows}
Drags == [app : Apps \union {None, Gone}, order : Seq(Apps \union {Gone}), target : Nat]
Bars  == [only_output : Monitors \union {None}, is_tray_host : BOOLEAN, order : Boxes,
          windows : [Apps -> Lists], cycle : [Apps -> Nat], shown : Shown,
          pinned : SUBSET Apps, drag : Drags]

\* A drag is of an entry of the order it took down, which has no entry twice
\* and none that is not in the box.
DragFits(bar) ==
  bar.drag # NoDrag =>
    /\ bar.drag.app \in ToSet(bar.drag.order)
    /\ bar.drag.target \in DOMAIN bar.drag.order
    /\ Distinct(bar.drag.order)
    /\ ToSet(bar.drag.order) \subseteq ToSet(bar.order) \union {Gone}

\* The windows of the entries are those in the table of shown windows.
WindowsAgree(bar) ==
  /\ \A app \in Apps : ToSet(bar.windows[app]) = {id \in DOMAIN bar.shown : bar.shown[id] = app}
  /\ \A app \in Apps : bar.cycle[app] = 0 \/ bar.cycle[app] < Len(bar.windows[app])

\* An entry is in the box while it is pinned or has a window.
EntriesAgree(bar) ==
  ToSet(bar.order) = bar.pinned \union {app \in Apps : Open(bar, app)}

\* A bar whose tables agree with each other, whatever the store has.
GoodBar(bar) ==
  bar \in Bars /\ DragFits(bar) /\ WindowsAgree(bar) /\ EntriesAgree(bar)

\* What a handler leaves of a bar: the place it shows, and the pins that are
\* written when no drag ends.
SameBar(bar, new) ==
  /\ new.only_output = bar.only_output /\ new.is_tray_host = bar.is_tray_host
  /\ \/ Dragging(bar) /\ new.drag = NoDrag
     \/ PinnedOrder(new) = PinnedOrder(bar)

\* The table g is f with the window id in the entry app.
ShownWith(f, id, app, g) ==
  /\ g \in Shown /\ DOMAIN g = DOMAIN f \union {id} /\ g[id] = app
  /\ \A y \in DOMAIN f \ {id} : g[y] = f[y]

\* A window put in the table of shown windows.
LEMMA ExtendShown ==
  ASSUME NEW f \in Shown, NEW id \in Windows, NEW app \in Apps
  PROVE  ShownWith(f, id, app, Extend(f, id, app))
<1>1. DOMAIN f \in SUBSET Windows /\ f \in [DOMAIN f -> Apps]
  BY DEF Shown
<1>2. /\ Extend(f, id, app) \in [DOMAIN f \union {id} -> Apps]
      /\ DOMAIN f \union {id} \in SUBSET Windows
  BY <1>1 DEF Extend
<1> QED
  BY <1>2 DEF Extend, Shown, ShownWith

\* The table g is f without the window id.
ShownWithout(f, id, g) ==
  /\ g \in Shown /\ DOMAIN g = DOMAIN f \ {id}
  /\ \A y \in DOMAIN f \ {id} : g[y] = f[y]

\* A window taken out of that table.
LEMMA OmitShown ==
  ASSUME NEW f \in Shown, NEW id
  PROVE  ShownWithout(f, id, Omit(f, id))
<1>1. DOMAIN f \in SUBSET Windows /\ f \in [DOMAIN f -> Apps]
  BY DEF Shown
<1>2. /\ Omit(f, id) \in [DOMAIN f \ {id} -> Apps]
      /\ DOMAIN f \ {id} \in SUBSET Windows
  BY <1>1 DEF Omit
<1> QED
  BY <1>2 DEF Omit, Shown, ShownWithout

\* A list with members is not empty.
LEMMA EmptyList ==
  ASSUME NEW S, NEW s \in Seq(S)
  PROVE  s = <<>> <=> ToSet(s) = {}
<1>1. DOMAIN s = 1 .. Len(s)
  OBVIOUS
<1>2. ASSUME s # <<>> PROVE ToSet(s) # {}
  <2>1. Len(s) # 0
    BY <1>2
  <2>2. 1 \in DOMAIN s
    BY <1>1, <2>1
  <2> QED
    BY <2>2 DEF ToSet
<1>3. ToSet(<<>>) = {}
  BY DEF ToSet
<1> QED
  BY <1>2, <1>3

\* An added window gets its entry, at the end if it is new.
LEMMA AddedKeeps ==
  ASSUME NEW bar, GoodBar(bar), NEW id \in Windows, id \notin DOMAIN bar.shown,
         NEW t, t.app_id \in Apps
  PROVE  LET new == BarAdded(bar, id, t) IN
         /\ GoodBar(new) /\ SameBar(bar, new)
         /\ ~Accepts(bar, t) => new.shown = bar.shown
         /\ Accepts(bar, t) => new.shown = Extend(bar.shown, id, t.app_id)
<1> DEFINE new == BarAdded(bar, id, t)
           app == t.app_id
<1>1. CASE ~Accepts(bar, t)
  BY <1>1 DEF BarAdded, SameBar
<1>2. CASE Accepts(bar, t)
  <2> DEFINE ids == bar.windows[app]
  <2>1. /\ bar \in Bars /\ bar.order \in Seq(Apps) /\ IsInjective(bar.order)
        /\ ids \in Seq(Windows) /\ IsInjective(ids)
    BY DEF GoodBar, Bars, Boxes, Lists
  <2>2. id \notin ToSet(ids)
    BY DEF GoodBar, WindowsAgree
  <2>3. /\ Append(ids, id) \in Lists /\ ToSet(Append(ids, id)) = ToSet(ids) \union {id}
        /\ Len(Append(ids, id)) = Len(ids) + 1 /\ Append(ids, id) # <<>>
    BY <2>1, <2>2, AppendResult DEF Lists
  <2> DEFINE order == IF app \in ToSet(bar.order) THEN bar.order ELSE Append(bar.order, app)
  <2>4. order \in Boxes /\ ToSet(order) = ToSet(bar.order) \union {app}
    BY <2>1, AppendResult DEF Boxes
  <2> DEFINE shown == Extend(bar.shown, id, app)
  <2>5. /\ shown \in Shown /\ DOMAIN shown = DOMAIN bar.shown \union {id}
        /\ shown[id] = app /\ \A y \in DOMAIN bar.shown : shown[y] = bar.shown[y]
    <3>1. bar.shown \in Shown /\ DOMAIN bar.shown \ {id} = DOMAIN bar.shown
      BY <2>1 DEF Bars
    <3>2. ShownWith(bar.shown, id, app, shown)
      BY <3>1, ExtendShown
    <3> HIDE DEF shown
    <3> QED
      BY <3>1, <3>2 DEF ShownWith
  <2> HIDE DEF order, shown
  <2>6. new = [bar EXCEPT !.order = order, !.windows[app] = Append(ids, id), !.shown = shown]
    BY <1>2, <2>2 DEF BarAdded, order, shown
  <2>7. /\ new \in Bars
        /\ new.only_output = bar.only_output /\ new.is_tray_host = bar.is_tray_host
        /\ new.order = order /\ new.shown = shown /\ new.cycle = bar.cycle
        /\ new.pinned = bar.pinned /\ new.drag = bar.drag
        /\ new.windows = [bar.windows EXCEPT ![app] = Append(ids, id)]
    <3> HIDE DEF new
    <3> QED
      BY <2>1, <2>3, <2>4, <2>5, <2>6 DEF Bars
  <2> HIDE DEF new
  <2>8. /\ new.windows[app] = Append(ids, id)
        /\ \A a \in Apps : a # app => new.windows[a] = bar.windows[a]
    BY <2>1, <2>7 DEF Bars
  <2>9. DragFits(new)
    BY <2>4, <2>7 DEF GoodBar, DragFits
  <2>10. WindowsAgree(new)
    <3>1. ASSUME NEW a \in Apps
          PROVE  ToSet(new.windows[a]) = {i \in DOMAIN new.shown : new.shown[i] = a}
      <4>1. ToSet(bar.windows[a]) = {i \in DOMAIN bar.shown : bar.shown[i] = a}
        BY DEF GoodBar, WindowsAgree
      <4> QED
        BY <2>3, <2>5, <2>7, <2>8, <4>1
    <3>2. ASSUME NEW a \in Apps
          PROVE  new.cycle[a] = 0 \/ new.cycle[a] < Len(new.windows[a])
      <4>1. bar.cycle[a] = 0 \/ bar.cycle[a] < Len(bar.windows[a])
        BY DEF GoodBar, WindowsAgree
      <4>2. bar.cycle[a] \in Nat /\ Len(ids) \in Nat
        BY <2>1 DEF Bars
      <4> QED
        BY <2>3, <2>7, <2>8, <4>1, <4>2
    <3> QED
      BY <3>1, <3>2 DEF WindowsAgree
  <2>11. EntriesAgree(new)
    <3>1. ToSet(bar.order) = bar.pinned \union {a \in Apps : Open(bar, a)}
      BY DEF GoodBar, EntriesAgree
    <3>2. Open(new, app) /\ \A a \in Apps : a # app => (Open(new, a) <=> Open(bar, a))
      BY <2>3, <2>8 DEF Open
    <3> QED
      BY <2>4, <2>7, <3>1, <3>2 DEF EntriesAgree
  <2>12. PinnedOrder(new) = PinnedOrder(bar)
    <3>1. CASE app \in ToSet(bar.order)
      BY <2>7, <3>1, PinnedOrderIs DEF order
    <3>2. CASE app \notin ToSet(bar.order)
      <4>1. app \notin bar.pinned
        BY <3>2 DEF GoodBar, EntriesAgree
      <4>2. new.order = Append(bar.order, app)
        BY <2>7, <3>2 DEF order
      <4>3. Kept(Append(bar.order, app), bar.pinned)[Len(Append(bar.order, app))]
              = Kept(bar.order, bar.pinned)[Len(bar.order)]
        BY <2>1, <4>1, KeptOfAppend
      <4>4. PinnedOrder(new) = Kept(new.order, new.pinned)[Len(new.order)]
        BY PinnedOrderIs
      <4>5. PinnedOrder(bar) = Kept(bar.order, bar.pinned)[Len(bar.order)]
        BY PinnedOrderIs
      <4> QED
        BY <2>7, <4>2, <4>3, <4>4, <4>5
    <3> QED
      BY <3>1, <3>2
  <2> QED
    BY <1>2, <2>7, <2>9, <2>10, <2>11, <2>12 DEF GoodBar, SameBar, new, shown
<1> QED
  BY <1>1, <1>2

\* What changes the box and the drag leaves the rest of a bar.
SameTables(bar, new) ==
  /\ new.only_output = bar.only_output /\ new.is_tray_host = bar.is_tray_host
  /\ new.windows = bar.windows /\ new.cycle = bar.cycle /\ new.shown = bar.shown
  /\ new.pinned = bar.pinned

\* A list is a list of any set that has its members.
LEMMA ListOfMembers ==
  ASSUME NEW A, NEW s \in Seq(A), NEW S, ToSet(s) \subseteq S
  PROVE  s \in Seq(S)
<1>1. s = [i \in 1 .. Len(s) |-> s[i]] /\ Len(s) \in Nat
  OBVIOUS
<1>2. \A i \in 1 .. Len(s) : s[i] \in S
  BY DEF ToSet
<1> DEFINE n == Len(s)
<1>3. [i \in 1 .. n |-> s[i]] \in Seq(S)
  <2> n \in Nat /\ \A i \in 1 .. n : s[i] \in S
    BY <1>1, <1>2
  <2> HIDE DEF n
  <2> QED
    BY IsASeq
<1> QED
  BY <1>1, <1>3

\* Taking one out of a list with distinct entries leaves one that has it no
\* more, unless it stands for those that are gone.
LEMMA DistinctWithout ==
  ASSUME NEW S, NEW s \in Seq(S), Distinct(s), NEW e, e # Gone
  PROVE  /\ Distinct(RemoveFirst(s, e)) /\ e \notin ToSet(RemoveFirst(s, e))
         /\ RemoveFirst(s, e) \in Seq(S) /\ ToSet(RemoveFirst(s, e)) \subseteq ToSet(s)
         /\ e \in ToSet(s) => Len(RemoveFirst(s, e)) = Len(s) - 1
<1> DEFINE r == RemoveFirst(s, e)
<1>1. r \in Seq(S) /\ ToSet(r) \subseteq ToSet(s)
  BY RemoveFirstResult
<1>2. CASE e \notin ToSet(s) /\ r = s
  BY <1>1, <1>2
<1>3. ASSUME NEW k \in 1 .. Len(s), s[k] = e, r = RemoveAt(s, k)
      PROVE  Distinct(r) /\ e \notin ToSet(r) /\ Len(r) = Len(s) - 1
  <2> DEFINE From(i) == IF i < k THEN i ELSE i + 1
  <2>1. /\ Len(r) = Len(s) - 1 /\ DOMAIN r = 1 .. Len(s) - 1
        /\ \A i \in 1 .. Len(s) - 1 : r[i] = s[From(i)]
    BY <1>1, <1>3, RemoveAtIs
  <2>2. \A i \in 1 .. Len(s) - 1 : From(i) \in DOMAIN s /\ From(i) # k
    OBVIOUS
  <2>3. \A i, j \in 1 .. Len(s) - 1 : From(i) = From(j) => i = j
    OBVIOUS
  <2>4. k \in DOMAIN s
    OBVIOUS
  <2> HIDE DEF From, r
  <2>5. Distinct(r)
    BY <2>1, <2>2, <2>3 DEF Distinct
  <2>6. e \notin ToSet(r)
    BY <1>3, <2>1, <2>2, <2>4 DEF Distinct, ToSet
  <2> QED
    BY <2>1, <2>5, <2>6
<1> HIDE DEF r
<1>4. \/ e \notin ToSet(s) /\ r = s
      \/ \E k \in 1 .. Len(s) : s[k] = e /\ r = RemoveAt(s, k)
  BY RemoveFirstIs DEF r
<1> QED
  BY <1>1, <1>2, <1>3, <1>4 DEF r

\* A new entry keeps the entries apart.
LEMMA DistinctInsert ==
  ASSUME NEW S, NEW s \in Seq(S), Distinct(s), NEW k \in 1 .. Len(s) + 1,
         NEW e \in S, e \notin ToSet(s)
  PROVE  Distinct(InsertAt(s, k, e))
<1> DEFINE r == InsertAt(s, k, e)
           From(i) == IF i < k THEN i ELSE i - 1
<1>1. Inserted(S, s, k, e, r)
  BY InsertAtIs
<1> HIDE DEF r
<1>2. /\ DOMAIN r = 1 .. Len(s) + 1 /\ r[k] = e
      /\ \A i \in 1 .. Len(s) + 1 : i # k => r[i] = s[From(i)]
  BY <1>1 DEF Inserted
<1>3. \A i \in 1 .. Len(s) + 1 : i # k => From(i) \in DOMAIN s
  OBVIOUS
<1>4. \A i, j \in 1 .. Len(s) + 1 : i # k /\ j # k /\ From(i) = From(j) => i = j
  OBVIOUS
<1>5. \A i \in DOMAIN s : s[i] # e
  BY DEF ToSet
<1> HIDE DEF From
<1> QED
  BY <1>2, <1>3, <1>4, <1>5 DEF Distinct, r

\* A drop changes the order of the box, not what is in it.
LEMMA DroppedKeeps ==
  ASSUME NEW bar \in Bars, DragFits(bar), Dragging(bar)
  PROVE  LET new == Dropped(bar) IN
         /\ new \in Bars /\ new.drag = NoDrag /\ SameTables(bar, new)
         /\ ToSet(new.order) = ToSet(bar.order)
<1> DEFINE drag == bar.drag
           S    == ToSet(bar.order) \union {Gone}
           rest == RemoveFirst(drag.order, drag.app)
           target == InsertAt(rest, drag.target, drag.app)
           order == Reordered(bar.order, target)
<1>1. /\ bar.order \in Boxes /\ drag \in Drags
      /\ drag.order \in Seq(Apps \union {Gone}) /\ drag.app \notin {None, Gone}
  BY DEF Bars, Drags, Dragging
<1>2. drag # NoDrag
  BY DEF Dragging, NoDrag
<1>3. /\ drag.app \in ToSet(drag.order) /\ drag.target \in DOMAIN drag.order
      /\ Distinct(drag.order) /\ ToSet(drag.order) \subseteq S
  BY <1>2 DEF DragFits
<1>4. drag.order \in Seq(S)
  <2> HIDE DEF S
  <2> QED
    BY <1>1, <1>3, ListOfMembers
<1> HIDE DEF drag, S
<1>5. /\ Distinct(rest) /\ drag.app \notin ToSet(rest) /\ rest \in Seq(S)
      /\ Len(rest) = Len(drag.order) - 1
  BY <1>1, <1>3, <1>4, DistinctWithout
<1>6. drag.target \in 1 .. Len(rest) + 1 /\ drag.app \in S
  BY <1>3, <1>4, <1>5 DEF ToSet
<1> HIDE DEF rest
<1>7. target \in Seq(S) /\ Distinct(target)
  BY <1>5, <1>6, InsertAtResult, DistinctInsert
<1> HIDE DEF target
<1>8. order \in Boxes /\ ToSet(order) = ToSet(bar.order)
  BY <1>1, <1>7, ReorderedKeeps DEF S
<1> HIDE DEF order
<1>9. Dropped(bar) = [bar EXCEPT !.order = order, !.drag = NoDrag]
  BY DEF Dropped, TargetOrder, order, target, rest, drag
<1>10. NoDrag \in Drags
  BY DEF NoDrag, Drags
<1> QED
  BY <1>8, <1>9, <1>10 DEF Bars, SameTables

\* The entry goes, from the box and from what a drag took down.
LEMMA EntryRemoved ==
  ASSUME NEW bar \in Bars, DragFits(bar), NEW app \in Apps, NEW ends \in BOOLEAN
  PROVE  LET new == RemoveEntry(bar, app, ends) IN
         /\ new \in Bars /\ DragFits(new) /\ SameTables(bar, new)
         /\ ToSet(new.order) = ToSet(bar.order) \ {app}
         /\ \/ Dragging(bar) /\ new.drag = NoDrag
            \/ new.order = RemoveFirst(bar.order, app)
<1> DEFINE b == IF ends /\ Dragging(bar) /\ bar.drag.app = app THEN Dropped(bar) ELSE bar
           order == RemoveFirst(b.order, app)
           r == [b EXCEPT !.order = order]
           taken == ReplaceAll(r.drag.order, app, Gone)
           dragged == IF r.drag.app = app THEN Gone ELSE r.drag.app
           new == RemoveEntry(bar, app, ends)
<1>1. /\ b \in Bars /\ DragFits(b) /\ SameTables(bar, b) /\ ToSet(b.order) = ToSet(bar.order)
      /\ \/ Dragging(bar) /\ b.drag = NoDrag
         \/ b = bar
  BY DroppedKeeps DEF DragFits, SameTables
<1>2. new = IF r.drag = NoDrag THEN r
            ELSE [r EXCEPT !.drag.order = ReplaceAll(@, app, Gone),
                           !.drag.app = IF @ = app THEN Gone ELSE @]
  BY DEF RemoveEntry
<1> HIDE DEF b, new
<1>3. b.order \in Seq(Apps) /\ IsInjective(b.order)
  BY <1>1 DEF Bars, Boxes
<1>4. order \in Boxes /\ ToSet(order) = ToSet(b.order) \ {app}
  BY <1>3, RemoveFirstResult DEF Boxes
<1>5. r.order = order /\ r.drag = b.drag /\ r \in Bars /\ SameTables(b, r)
  BY <1>1, <1>4 DEF Bars, SameTables
<1> HIDE DEF order
<1>6. CASE r.drag = NoDrag
  <2>1. new = r
    BY <1>2, <1>6
  <2>2. DragFits(new)
    BY <1>6, <2>1 DEF DragFits
  <2> HIDE DEF r
  <2> QED
    BY <1>1, <1>4, <1>5, <1>6, <2>1, <2>2 DEF SameTables, new, order
<1>7. CASE r.drag # NoDrag
  <2> HIDE DEF r
  <2>1. new = [r EXCEPT !.drag = [@ EXCEPT !.order = taken, !.app = dragged]]
    BY <1>2, <1>7, <1>5 DEF Bars, Drags
  <2>2. /\ r.drag \in Drags /\ r.drag.order \in Seq(Apps \union {Gone})
        /\ r.drag.app \in ToSet(r.drag.order)
        /\ r.drag.target \in DOMAIN r.drag.order
        /\ Distinct(r.drag.order)
        /\ ToSet(r.drag.order) \subseteq ToSet(b.order) \union {Gone}
    BY <1>1, <1>5, <1>7 DEF DragFits, Bars, Drags
  <2>3. /\ taken \in Seq(Apps \union {Gone}) /\ DOMAIN taken = DOMAIN r.drag.order
        /\ \A i \in DOMAIN taken :
             taken[i] = IF r.drag.order[i] = app THEN Gone ELSE r.drag.order[i]
    <3> DEFINE o == r.drag.order
    <3>1. o \in Seq(Apps \union {Gone})
      BY <2>2
    <3> HIDE DEF o
    <3>2. DOMAIN o = 1 .. Len(o)
      BY <3>1
    <3> DEFINE s == ReplaceAll(o, app, Gone)
    <3>3. s = [i \in 1 .. Len(o) |-> IF o[i] = app THEN Gone ELSE o[i]]
      BY DEF ReplaceAll
    <3>4. s \in Seq(Apps \union {Gone})
      <4>1. \A i \in 1 .. Len(o) : (IF o[i] = app THEN Gone ELSE o[i]) \in Apps \union {Gone}
        BY <3>1
      <4> HIDE DEF s
      <4> QED
        BY <3>1, <3>3, <4>1, IsASeq
    <3> HIDE DEF s
    <3>5. taken = s
      BY DEF o, s
    <3> QED
      BY <3>2, <3>3, <3>4, <3>5 DEF o
  <2>4. dragged \in Apps \union {Gone, None}
    BY <2>2 DEF Drags
  <2> HIDE DEF taken, dragged
  <2>5. /\ new \in Bars /\ new.drag.order = taken /\ new.drag.app = dragged
        /\ new.drag.target = r.drag.target /\ new.order = r.order /\ SameTables(r, new)
    BY <1>5, <2>1, <2>2, <2>3, <2>4 DEF Bars, Drags, SameTables
  <2>6. dragged \in ToSet(taken)
    <3>1. PICK i \in DOMAIN r.drag.order : r.drag.order[i] = r.drag.app
      BY <2>2 DEF ToSet
    <3>2. taken[i] = dragged
      BY <2>3, <3>1 DEF dragged
    <3> QED
      BY <2>3, <3>1, <3>2 DEF ToSet
  <2>7. Distinct(taken)
    BY <2>2, <2>3 DEF Distinct
  <2>8. ToSet(taken) \subseteq ToSet(new.order) \union {Gone}
    <3>1. \A i \in DOMAIN taken : taken[i] # Gone =>
            taken[i] \in ToSet(r.drag.order) /\ taken[i] # app
      BY <2>3 DEF ToSet
    <3>2. ToSet(new.order) = ToSet(b.order) \ {app}
      BY <1>4, <1>5, <2>5
    <3> QED
      BY <2>2, <3>1, <3>2 DEF ToSet
  <2>9. DragFits(new)
    BY <2>2, <2>3, <2>5, <2>6, <2>7, <2>8 DEF DragFits
  <2>10. b = bar
    BY <1>1, <1>5, <1>7
  <2> QED
    BY <1>1, <1>4, <1>5, <2>5, <2>9, <2>10 DEF SameTables, new, order
<1> QED
  BY <1>6, <1>7

\* A window that goes takes its entry along, if it was the last of an app that
\* is not pinned.
LEMMA RemovedKeeps ==
  ASSUME NEW bar, GoodBar(bar), NEW id, NEW ends \in BOOLEAN
  PROVE  LET new == BarRemoved(bar, id, ends) IN
         GoodBar(new) /\ SameBar(bar, new) /\ ShownWithout(bar.shown, id, new.shown)
<1> DEFINE new == BarRemoved(bar, id, ends)
<1>0. bar \in Bars /\ bar.shown \in Shown /\ bar.order \in Boxes
  BY DEF GoodBar, Bars
<1>1. CASE id \notin DOMAIN bar.shown
  BY <1>0, <1>1 DEF BarRemoved, SameBar, ShownWithout
<1>2. CASE id \in DOMAIN bar.shown
  <2> DEFINE app   == bar.shown[id]
             ids   == bar.windows[app]
             left  == RemoveFirst(ids, id)
             cycle == IF bar.cycle[app] >= Len(left) THEN 0 ELSE bar.cycle[app]
             shown == Omit(bar.shown, id)
             b     == [bar EXCEPT !.windows[app] = left,
                                  !.cycle[app] = IF @ >= Len(left) THEN 0 ELSE @,
                                  !.shown = shown]
  <2>1. app \in Apps
    BY <1>0, <1>2 DEF Shown
  <2>2. ids \in Seq(Windows) /\ IsInjective(ids) /\ bar.cycle[app] \in Nat
    BY <1>0, <2>1 DEF Bars, Lists
  <2>3. left \in Lists /\ ToSet(left) = ToSet(ids) \ {id} /\ left \in Seq(Windows)
    BY <2>2, RemoveFirstResult DEF Lists
  <2>4. ShownWithout(bar.shown, id, shown)
    BY <1>0, OmitShown
  <2>5. new = IF app \notin b.pinned /\ left = <<>> THEN RemoveEntry(b, app, ends) ELSE b
    BY <1>2 DEF BarRemoved
  <2> HIDE DEF left, shown, new
  <2>6. cycle \in Nat /\ (cycle = 0 \/ cycle < Len(left))
    BY <2>2, <2>3
  <2>7. shown \in Shown
    BY <2>4 DEF ShownWithout
  <2>8. b = [bar EXCEPT !.windows[app] = left, !.cycle[app] = cycle, !.shown = shown]
    BY <1>0, <2>1 DEF Bars
  <2> HIDE DEF cycle, app
  <2>9. /\ b \in Bars /\ b.only_output = bar.only_output
        /\ b.is_tray_host = bar.is_tray_host /\ b.order = bar.order /\ b.shown = shown
        /\ b.pinned = bar.pinned /\ b.drag = bar.drag
        /\ b.windows = [bar.windows EXCEPT ![app] = left]
        /\ b.cycle = [bar.cycle EXCEPT ![app] = cycle]
    <3> HIDE DEF b
    <3> QED
      BY <1>0, <2>3, <2>6, <2>7, <2>8 DEF Bars
  <2> HIDE DEF b
  <2>10. /\ b.windows[app] = left /\ b.cycle[app] = cycle
         /\ \A a \in Apps : a # app =>
              b.windows[a] = bar.windows[a] /\ b.cycle[a] = bar.cycle[a]
    BY <1>0, <2>1, <2>9 DEF Bars
  <2>11. DragFits(b)
    BY <2>9 DEF GoodBar, DragFits
  <2>12. WindowsAgree(b)
    <3>1. ASSUME NEW a \in Apps
          PROVE  ToSet(b.windows[a]) = {i \in DOMAIN b.shown : b.shown[i] = a}
      <4>1. ToSet(bar.windows[a]) = {i \in DOMAIN bar.shown : bar.shown[i] = a}
        BY DEF GoodBar, WindowsAgree
      <4>2. a = app => ToSet(b.windows[a]) = ToSet(bar.windows[a]) \ {id}
        BY <2>3, <2>10
      <4>3. a # app => ToSet(b.windows[a]) = ToSet(bar.windows[a])
        BY <2>10
      <4>4. bar.shown[id] = app
        BY DEF app
      <4> QED
        BY <2>4, <2>9, <4>1, <4>2, <4>3, <4>4 DEF ShownWithout
    <3>2. ASSUME NEW a \in Apps
          PROVE  b.cycle[a] = 0 \/ b.cycle[a] < Len(b.windows[a])
      BY <2>6, <2>10 DEF GoodBar, WindowsAgree
    <3> QED
      BY <3>1, <3>2 DEF WindowsAgree
  <2>13. ids # <<>>
    <3>1. id \in ToSet(ids)
      BY <1>2, <2>1 DEF GoodBar, WindowsAgree, app
    <3> QED
      BY <2>2, <3>1, EmptyList
  <2>14. /\ Open(b, app) <=> left # <<>>
         /\ \A a \in Apps : a # app => (Open(b, a) <=> Open(bar, a))
         /\ Open(bar, app)
    BY <2>10, <2>13 DEF Open
  <2>15. ToSet(bar.order) = bar.pinned \union {a \in Apps : Open(bar, a)}
    BY DEF GoodBar, EntriesAgree
  <2>16. CASE app \notin b.pinned /\ left = <<>>
    <3>1. new = RemoveEntry(b, app, ends)
      BY <2>5, <2>16
    <3>2. /\ new \in Bars /\ DragFits(new) /\ SameTables(b, new)
          /\ ToSet(new.order) = ToSet(b.order) \ {app}
          /\ \/ Dragging(b) /\ new.drag = NoDrag
             \/ new.order = RemoveFirst(b.order, app)
      BY <2>1, <2>9, <2>11, <3>1, EntryRemoved
    <3>3. WindowsAgree(new)
      BY <2>12, <3>2 DEF WindowsAgree, SameTables
    <3>4. EntriesAgree(new)
      <4>1. \A a \in Apps : Open(new, a) <=> Open(b, a)
        BY <3>2 DEF SameTables, Open
      <4>2. new.pinned = bar.pinned
        BY <2>9, <3>2 DEF SameTables
      <4> QED
        BY <2>9, <2>14, <2>15, <2>16, <3>2, <4>1, <4>2 DEF EntriesAgree
    <3>5. SameBar(bar, new)
      <4>1. CASE new.order = RemoveFirst(bar.order, app)
        <5>1. bar.order \in Seq(Apps) /\ app \notin bar.pinned /\ new.pinned = bar.pinned
          BY <1>0, <2>9, <2>16, <3>2 DEF Boxes, SameTables
        <5>2. Kept(new.order, bar.pinned)[Len(new.order)]
                = Kept(bar.order, bar.pinned)[Len(bar.order)]
          BY <2>1, <4>1, <5>1, KeptOfRemove
        <5>3. PinnedOrder(new) = Kept(new.order, new.pinned)[Len(new.order)]
          BY PinnedOrderIs
        <5>4. PinnedOrder(bar) = Kept(bar.order, bar.pinned)[Len(bar.order)]
          BY PinnedOrderIs
        <5> QED
          BY <2>9, <3>2, <5>1, <5>2, <5>3, <5>4 DEF SameBar, SameTables
      <4>2. CASE Dragging(b) /\ new.drag = NoDrag
        BY <2>9, <3>2, <4>2 DEF SameBar, SameTables, Dragging
      <4> QED
        BY <2>9, <3>2, <4>1, <4>2
    <3>6. ShownWithout(bar.shown, id, new.shown)
      BY <2>4, <2>9, <3>2 DEF SameTables
    <3> QED
      BY <3>2, <3>3, <3>4, <3>5, <3>6 DEF GoodBar, new
  <2>17. CASE ~(app \notin b.pinned /\ left = <<>>)
    <3>1. new = b
      BY <2>5, <2>17
    <3>2. EntriesAgree(b)
      BY <2>1, <2>9, <2>14, <2>15, <2>17 DEF EntriesAgree
    <3>3. PinnedOrder(b) = PinnedOrder(bar)
      BY <2>9, PinnedOrderIs
    <3> QED
      BY <2>4, <2>9, <2>11, <2>12, <3>1, <3>2, <3>3 DEF GoodBar, SameBar, new
  <2> QED
    BY <2>16, <2>17
<1> QED
  BY <1>1, <1>2

\* A bar that differs in the cycle of an entry with windows.
LEMMA CycledKeeps ==
  ASSUME NEW bar, GoodBar(bar), NEW app \in Apps, Open(bar, app), NEW n \in Nat
  PROVE  LET new == [bar EXCEPT !.cycle[app] = n % Len(bar.windows[app])] IN
         GoodBar(new) /\ SameBar(bar, new) /\ new.shown = bar.shown
<1> DEFINE l == Len(bar.windows[app])
           new == [bar EXCEPT !.cycle[app] = n % l]
<1>1. bar \in Bars /\ bar.windows[app] \in Seq(Windows) /\ bar.windows[app] # <<>>
  BY DEF GoodBar, Bars, Lists, Open
<1>2. l \in Nat /\ l > 0
  BY <1>1
<1>3. n % l \in Nat /\ n % l < l
  <2> HIDE DEF l
  <2> QED
    BY <1>2
<1> DEFINE m == n % l
<1> HIDE DEF m
<1>4. m \in Nat /\ m < l /\ new = [bar EXCEPT !.cycle[app] = m]
  BY <1>3 DEF m
<1> HIDE DEF new
<1>5. /\ new \in Bars /\ new.only_output = bar.only_output
      /\ new.is_tray_host = bar.is_tray_host /\ new.order = bar.order
      /\ new.shown = bar.shown /\ new.pinned = bar.pinned /\ new.drag = bar.drag
      /\ new.windows = bar.windows /\ new.cycle = [bar.cycle EXCEPT ![app] = m]
  BY <1>1, <1>4 DEF Bars
<1>6. DragFits(new) /\ EntriesAgree(new) /\ PinnedOrder(new) = PinnedOrder(bar)
  BY <1>5, PinnedOrderIs DEF GoodBar, DragFits, EntriesAgree, Open
<1>7. WindowsAgree(new)
  <2>1. \A a \in Apps : new.cycle[a] = IF a = app THEN m ELSE bar.cycle[a]
    BY <1>1, <1>5 DEF Bars
  <2> QED
    BY <1>4, <1>5, <2>1 DEF GoodBar, WindowsAgree
<1> QED
  BY <1>4, <1>5, <1>6, <1>7 DEF GoodBar, SameBar, m, new

\* BarFocused changes no table but the cycles.
LEMMA FocusedKeeps ==
  ASSUME NEW bar, GoodBar(bar), NEW id
  PROVE  LET new == BarFocused(bar, id) IN
         GoodBar(new) /\ SameBar(bar, new) /\ new.shown = bar.shown
<1>1. CASE id \notin DOMAIN bar.shown
  BY <1>1 DEF BarFocused, SameBar
<1>2. CASE id \in DOMAIN bar.shown
  <2> DEFINE app == bar.shown[id]
             ids == bar.windows[app]
             i   == CHOOSE n \in DOMAIN ids : ids[n] = id
  <2>1. app \in Apps
    BY <1>2 DEF GoodBar, Bars, Shown
  <2>2. id \in ToSet(ids) /\ ids \in Seq(Windows)
    BY <1>2, <2>1 DEF GoodBar, Bars, Lists, WindowsAgree
  <2>3. i \in DOMAIN ids
    BY <2>2 DEF ToSet
  <2>4. i \in Nat
    BY <2>2, <2>3
  <2>5. Open(bar, app)
    BY <2>2, EmptyList DEF Open
  <2>6. BarFocused(bar, id) = [bar EXCEPT !.cycle[app] = i % Len(ids)]
    BY <1>2 DEF BarFocused
  <2> HIDE DEF i, app
  <2> QED
    BY <2>1, <2>4, <2>5, <2>6, CycledKeeps
<1> QED
  BY <1>1, <1>2

-----------------------------------------------------------------------------
(***************************************************************************)
(* The bars and the store.                                                 *)
(***************************************************************************)
\* The store: the windows with what a bar asks of them.
Stores == UNION {[D -> Toplevel] : D \in SUBSET Windows}

\* A bar shows the windows of the store it accepts, each under its app.
Follows(bar, st) ==
  /\ DOMAIN bar.shown = {id \in DOMAIN st : Accepts(bar, st[id])}
  /\ \A id \in DOMAIN bar.shown : bar.shown[id] = st[id].app_id

\* A bar that is right within itself and shows the store.
Fine(bar, st) == GoodBar(bar) /\ Follows(bar, st)

\* Whether a bar accepts a window depends on its place and the window's output.
LEMMA SameAccepts ==
  ASSUME NEW bar, NEW new, SameBar(bar, new), NEW t, NEW u, t.output = u.output
  PROVE  Accepts(new, t) <=> Accepts(bar, u)
BY DEF SameBar, Accepts

\* The store gets or changes the window id.
StoreWith(st, id, t, new) ==
  /\ new \in Stores /\ DOMAIN new = DOMAIN st \union {id} /\ new[id] = t
  /\ \A y \in DOMAIN st \ {id} : new[y] = st[y]

\* The store loses the window id.
StoreWithout(st, id, new) ==
  /\ new \in Stores /\ DOMAIN new = DOMAIN st \ {id}
  /\ \A y \in DOMAIN st \ {id} : new[y] = st[y]

\* A bar follows the store through an added window.
LEMMA AddedFollows ==
  ASSUME NEW st \in Stores, NEW id \in Windows, id \notin DOMAIN st, NEW t \in Toplevel,
         NEW new, StoreWith(st, id, t, new), NEW bar, Fine(bar, st)
  PROVE  Fine(BarAdded(bar, id, t), new) /\ SameBar(bar, BarAdded(bar, id, t))
<1> DEFINE b == BarAdded(bar, id, t)
<1>1. id \notin DOMAIN bar.shown /\ t.app_id \in Apps /\ bar.shown \in Shown
  BY DEF Fine, Follows, Toplevel, GoodBar, Bars
<1>2. /\ GoodBar(b) /\ SameBar(bar, b)
      /\ ~Accepts(bar, t) => b.shown = bar.shown
      /\ Accepts(bar, t) => b.shown = Extend(bar.shown, id, t.app_id)
  BY <1>1, AddedKeeps DEF Fine
<1> HIDE DEF b
<1>3. \A u : Accepts(b, u) <=> Accepts(bar, u)
  BY <1>2, SameAccepts
<1>4. ASSUME ~Accepts(bar, t) PROVE Fine(b, new)
  BY <1>1, <1>2, <1>3, <1>4 DEF Fine, Follows, StoreWith
<1>5. ASSUME Accepts(bar, t) PROVE Fine(b, new)
  <2>1. ShownWith(bar.shown, id, t.app_id, b.shown)
    BY <1>1, <1>2, <1>5, ExtendShown
  <2> QED
    BY <1>1, <1>2, <1>3, <1>5, <2>1 DEF Fine, Follows, StoreWith, ShownWith
<1>6. Fine(b, new) /\ SameBar(bar, b)
  BY <1>2, <1>4, <1>5
<1> QED
  BY <1>6 DEF b

\* A bar follows the store through a removed window.
LEMMA RemovedFollows ==
  ASSUME NEW st \in Stores, NEW id, NEW new, StoreWithout(st, id, new),
         NEW bar, Fine(bar, st), NEW ends \in BOOLEAN
  PROVE  Fine(BarRemoved(bar, id, ends), new) /\ SameBar(bar, BarRemoved(bar, id, ends))
<1> DEFINE b == BarRemoved(bar, id, ends)
<1>1. GoodBar(b) /\ SameBar(bar, b) /\ ShownWithout(bar.shown, id, b.shown)
  BY RemovedKeeps DEF Fine
<1> HIDE DEF b
<1>2. \A u : Accepts(b, u) <=> Accepts(bar, u)
  BY <1>1, SameAccepts
<1>3. Follows(b, new)
  BY <1>1, <1>2 DEF Fine, Follows, StoreWithout, ShownWithout
<1> QED
  BY <1>1, <1>3 DEF Fine, b

\* A bar follows the store through a window that changes its output.
LEMMA OutputFollows ==
  ASSUME NEW st \in Stores, NEW id \in DOMAIN st, NEW t \in Toplevel,
         t.app_id = st[id].app_id, NEW new, StoreWith(st, id, t, new),
         NEW bar, Fine(bar, st), NEW ends \in BOOLEAN
  PROVE  /\ Fine(BarOutputChanged(bar, id, t, ends), new)
         /\ SameBar(bar, BarOutputChanged(bar, id, t, ends))
<1> DEFINE b == BarOutputChanged(bar, id, t, ends)
<1>1. id \in Windows /\ t.app_id \in Apps /\ bar.shown \in Shown /\ GoodBar(bar)
  BY DEF Stores, Toplevel, Fine, GoodBar, Bars
<1>2. CASE bar.only_output = None
  <2>2. \A u : Accepts(bar, u)
    BY <1>2 DEF Accepts
  <2>1. b = bar
    <3>1. id \in DOMAIN bar.shown /\ Accepts(bar, t)
      BY <2>2 DEF Fine, Follows
    <3> QED
      BY <1>2, <3>1 DEF BarOutputChanged
  <2> QED
    BY <2>1, <2>2 DEF Fine, Follows, StoreWith, SameBar
<1>3. CASE bar.only_output # None /\ Accepts(bar, t) /\ id \notin DOMAIN bar.shown
  <2>1. b = BarAdded(bar, id, t)
    BY <1>3 DEF BarOutputChanged
  <2>2. GoodBar(b) /\ SameBar(bar, b) /\ b.shown = Extend(bar.shown, id, t.app_id)
    BY <1>1, <1>3, <2>1, AddedKeeps
  <2>3. ShownWith(bar.shown, id, t.app_id, b.shown)
    BY <1>1, <2>2, ExtendShown
  <2> HIDE DEF b
  <2>4. \A u : Accepts(b, u) <=> Accepts(bar, u)
    BY <2>2, SameAccepts
  <2>5. Follows(b, new)
    BY <1>3, <2>3, <2>4 DEF Fine, Follows, StoreWith, ShownWith
  <2> QED
    BY <2>2, <2>5 DEF Fine, b
<1>4. CASE bar.only_output # None /\ ~Accepts(bar, t) /\ id \in DOMAIN bar.shown
  <2>1. b = BarRemoved(bar, id, ends)
    BY <1>4 DEF BarOutputChanged
  <2>2. GoodBar(b) /\ SameBar(bar, b) /\ ShownWithout(bar.shown, id, b.shown)
    BY <1>1, <2>1, RemovedKeeps
  <2> HIDE DEF b
  <2>3. \A u : Accepts(b, u) <=> Accepts(bar, u)
    BY <2>2, SameAccepts
  <2>4. Follows(b, new)
    BY <1>4, <2>2, <2>3 DEF Fine, Follows, StoreWith, ShownWithout
  <2> QED
    BY <2>2, <2>4 DEF Fine, b
<1>5. CASE bar.only_output # None /\ (Accepts(bar, t) <=> id \in DOMAIN bar.shown)
  <2>1. b = bar
    BY <1>5 DEF BarOutputChanged
  <2>2. Follows(bar, new)
    BY <1>5 DEF Fine, Follows, StoreWith
  <2> QED
    BY <2>1, <2>2 DEF Fine, SameBar
<1> QED
  BY <1>2, <1>3, <1>4, <1>5

\* The store with another window active.
Refocused(st, new) ==
  /\ new \in Stores /\ DOMAIN new = DOMAIN st
  /\ \A id \in DOMAIN st : new[id].app_id = st[id].app_id /\ new[id].output = st[id].output

\* A bar follows the store through a change of focus.
LEMMA FocusFollows ==
  ASSUME NEW st \in Stores, NEW new, Refocused(st, new), NEW bar, Fine(bar, st), NEW id
  PROVE  Fine(BarFocused(bar, id), new) /\ SameBar(bar, BarFocused(bar, id))
<1> DEFINE b == BarFocused(bar, id)
<1>1. GoodBar(b) /\ SameBar(bar, b) /\ b.shown = bar.shown
  BY FocusedKeeps DEF Fine
<1> HIDE DEF b
<1>2. \A i \in DOMAIN st : Accepts(b, new[i]) <=> Accepts(bar, st[i])
  BY <1>1, SameAccepts DEF Refocused
<1>3. Follows(b, new)
  BY <1>1, <1>2 DEF Fine, Follows, Refocused
<1> QED
  BY <1>1, <1>3 DEF Fine, b

\* What is shown depends on no more than the table of shown windows.
LEMMA ShownFollows ==
  ASSUME NEW st \in Stores, NEW bar, Fine(bar, st), NEW new, GoodBar(new),
         new.only_output = bar.only_output, new.is_tray_host = bar.is_tray_host,
         new.shown = bar.shown
  PROVE  Fine(new, st)
<1>1. \A u : Accepts(new, u) <=> Accepts(bar, u)
  BY DEF Accepts
<1> QED
  BY <1>1 DEF Fine, Follows

\* SetToSeq lists a finite set, each member once.
Enumerates(S, s) ==
  s \in Seq(S) /\ IsInjective(s) /\ ToSet(s) = S

\* SetToSeq lists each member of a finite set once.
LEMMA SetToSeqEnumerates ==
  ASSUME NEW S, IsFiniteSet(S)
  PROVE  Enumerates(S, SetToSeq(S))
<1> DEFINE D == 1 .. Cardinality(S)
           s == SetToSeq(S)
<1>1. Cardinality(S) \in Nat /\ ExistsBijection(D, S)
  BY FS_CardinalityType
<1>2. PICK f \in [D -> S] : IsInjective(f)
  BY <1>1 DEF ExistsBijection, Bijection, Injection
<1>3. s \in [D -> S] /\ IsInjective(s)
  BY <1>2 DEF SetToSeq
<1>4. IsFiniteSet(D) /\ Cardinality(D) = Cardinality(S)
  BY <1>1, FS_Interval
<1>5. s \in Surjection(D, S)
  BY <1>3, <1>4, FS_Injection DEF Injection
<1>6. \A x \in S : \E i \in D : s[i] = x
  BY <1>5 DEF Surjection
<1>7. s \in Seq(S) /\ DOMAIN s = D
  BY <1>1, <1>3
<1> HIDE DEF s
<1>8. ToSet(s) = S
  BY <1>3, <1>6, <1>7 DEF ToSet
<1> QED
  BY <1>3, <1>7, <1>8 DEF Enumerates, s

\* A store has the windows of a finite set.
LEMMA StoresAreFinite ==
  ASSUME NEW st \in Stores
  PROVE  /\ DOMAIN st \in SUBSET Windows /\ IsFiniteSet(DOMAIN st)
         /\ st \in [DOMAIN st -> Toplevel]
<1>1. DOMAIN st \in SUBSET Windows /\ st \in [DOMAIN st -> Toplevel]
  BY DEF Stores
<1>2. IsFiniteSet(Windows)
  BY BoundAssumption, FS_Interval DEF Windows
<1> QED
  BY <1>1, <1>2, FS_Subset

\* The bar before the windows of the store are added.
EmptyBar(only_output, is_tray_host, file) ==
  [only_output |-> only_output, is_tray_host |-> is_tray_host,
   order |-> file, windows |-> [app \in Apps |-> <<>>],
   cycle |-> [app \in Apps |-> 0], shown |-> [id \in {} |-> None],
   pinned |-> ToSet(file), drag |-> NoDrag]

\* A bar with the pins of the file and no window is right.
LEMMA EmptyBarIsFine ==
  ASSUME NEW only_output \in Monitors \union {None}, NEW is_tray_host \in BOOLEAN,
         NEW file \in Boxes, NEW st, DOMAIN st = {}
  PROVE  LET bar == EmptyBar(only_output, is_tray_host, file) IN
         Fine(bar, st) /\ bar.drag = NoDrag /\ PinnedOrder(bar) = file
<1> DEFINE bar == EmptyBar(only_output, is_tray_host, file)
           shown == [id \in {} |-> None]
<1>1. <<>> \in Lists /\ NoDrag \in Drags /\ shown \in Shown /\ DOMAIN shown = {}
  <2>1. shown \in [{} -> Apps]
    OBVIOUS
  <2>2. \A e : e \notin ToSet(<<>>)
    BY DEF ToSet
  <2> QED
    BY <2>1, <2>2 DEF Lists, NoDrag, Drags, Shown, IsInjective
<1>2. file \in Seq(Apps) /\ ToSet(file) \subseteq Apps
  BY DEF Boxes, ToSet
<1> HIDE DEF shown
<1>3. /\ bar \in Bars /\ bar.order = file /\ bar.pinned = ToSet(file) /\ bar.drag = NoDrag
      /\ bar.shown = shown /\ bar.windows = [app \in Apps |-> <<>>]
      /\ bar.cycle = [app \in Apps |-> 0]
  BY <1>1, <1>2 DEF EmptyBar, Bars, shown
<1> HIDE DEF bar
<1>4. DragFits(bar)
  BY <1>3 DEF DragFits
<1>5. WindowsAgree(bar)
  BY <1>1, <1>3 DEF WindowsAgree, ToSet
<1>6. EntriesAgree(bar)
  BY <1>3 DEF EntriesAgree, Open
<1>7. Follows(bar, st)
  BY <1>1, <1>3 DEF Follows
<1>8. PinnedOrder(bar) = file
  BY <1>2, <1>3, PinnedOrderIs, AllKept
<1> QED
  BY <1>3, <1>4, <1>5, <1>6, <1>7, <1>8 DEF Fine, GoodBar, bar

\* BarAdded leaves the drag alone.
LEMMA AddedKeepsDrag ==
  ASSUME NEW bar \in Bars, NEW id, NEW t
  PROVE  BarAdded(bar, id, t).drag = bar.drag
BY DEF BarAdded, Bars

\* A new bar shows what it accepts of the store, and its pins are those on file.
NewBarOf(only_output, is_tray_host, file, st, bar) ==
  /\ Fine(bar, st) /\ bar.drag = NoDrag /\ PinnedOrder(bar) = file
  /\ bar.only_output = only_output /\ bar.is_tray_host = is_tray_host

\* A new bar, filled from the store, follows it.
LEMMA NewBarIsFine ==
  ASSUME NEW only_output \in Monitors \union {None}, NEW is_tray_host \in BOOLEAN,
         NEW file \in Boxes, NEW st \in Stores
  PROVE  NewBarOf(only_output, is_tray_host, file, st,
                  NewBar(only_output, is_tray_host, file, st))
<1> DEFINE ids == SetToSeq(DOMAIN st)
           n == Len(ids)
           base == EmptyBar(only_output, is_tray_host, file)
           Grown(i, v) == BarAdded(v, ids[i], st[ids[i]])
           Is(h) == h = [i \in 0 .. n |-> IF i = 0 THEN base ELSE Grown(i, h[i - 1])]
           Part(i) == [id \in {ids[j] : j \in 1 .. i} |-> st[id]]
           Ok(i, bar) == NewBarOf(only_output, is_tray_host, file, Part(i), bar)
<1>1. DOMAIN st \in SUBSET Windows /\ IsFiniteSet(DOMAIN st) /\ st \in [DOMAIN st -> Toplevel]
  BY StoresAreFinite
<1>2. Enumerates(DOMAIN st, ids)
  BY <1>1, SetToSeqEnumerates
<1> HIDE DEF ids
<1>3. /\ ids \in Seq(DOMAIN st) /\ IsInjective(ids) /\ ToSet(ids) = DOMAIN st
      /\ n \in Nat /\ DOMAIN ids = 1 .. n
  BY <1>2 DEF Enumerates
<1>4. NewBar(only_output, is_tray_host, file, st) = (CHOOSE h : Is(h))[n]
  BY DEF NewBar, EmptyBar, ids
<1> HIDE DEF base, Grown
<1>5. \E h : Is(h)
  <2> DEFINE T == {k \in 0 .. n : \E f : f = [i \in 0 .. k |-> IF i = 0 THEN base
                                                               ELSE Grown(i, f[i - 1])]}
  <2>1. 0 \in T
    <3> DEFINE f == [i \in 0 .. 0 |-> base]
    <3>1. f = [i \in 0 .. 0 |-> IF i = 0 THEN base ELSE Grown(i, f[i - 1])]
      OBVIOUS
    <3> HIDE DEF f
    <3> QED
      BY <1>3, <3>1
  <2>2. ASSUME NEW k \in 0 .. n - 1, k \in T PROVE k + 1 \in T
    <3>1. PICK f : f = [i \in 0 .. k |-> IF i = 0 THEN base ELSE Grown(i, f[i - 1])]
      BY <2>2
    <3> DEFINE g == [i \in 0 .. k + 1 |-> IF i = 0 THEN base ELSE Grown(i, f[i - 1])]
               r == [i \in 0 .. k + 1 |-> IF i = 0 THEN base ELSE Grown(i, g[i - 1])]
    <3>2. ASSUME NEW i \in 0 .. k PROVE f[i] = g[i]
      <4>1. f[i] = IF i = 0 THEN base ELSE Grown(i, f[i - 1])
        BY <3>1
      <4> QED
        BY <4>1
    <3>3. \A i \in 0 .. k + 1 : g[i] = r[i]
      <4>1. \A i \in 0 .. k + 1 : i # 0 => f[i - 1] = g[i - 1]
        BY <3>2
      <4> QED
        BY <4>1
    <3>4. g = r
      BY <3>3
    <3>5. k + 1 \in 0 .. n
      BY <1>3
    <3> HIDE DEF g
    <3> QED
      BY <3>4, <3>5
  <2>3. 0 .. n \subseteq T
    <3> HIDE DEF T
    <3> QED
      BY <1>3, <2>1, <2>2, UpTo
  <2>4. n \in T
    BY <1>3, <2>3
  <2> QED
    BY <2>4
<1>6. ASSUME NEW h, Is(h) PROVE Ok(n, h[n])
  <2>1. /\ h[0] = base
        /\ \A i \in 1 .. n : h[i] = Grown(i, h[i - 1])
    BY <1>3, <1>6
  <2> DEFINE T == {i \in 0 .. n : Ok(i, h[i])}
  <2>2. 0 \in T
    <3>1. DOMAIN Part(0) = {}
      OBVIOUS
    <3> HIDE DEF Part
    <3>2. /\ Fine(base, Part(0)) /\ base.drag = NoDrag /\ PinnedOrder(base) = file
          /\ base.only_output = only_output /\ base.is_tray_host = is_tray_host
      <4>1. base.only_output = only_output /\ base.is_tray_host = is_tray_host
        BY DEF base, EmptyBar
      <4> QED
        BY <3>1, <4>1, EmptyBarIsFine DEF base
    <3> QED
      BY <1>3, <2>1, <3>2 DEF NewBarOf
  <2>3. ASSUME NEW i \in 0 .. n - 1, i \in T PROVE i + 1 \in T
    <3>1. i + 1 \in 1 .. n /\ i + 1 \in 0 .. n /\ (i + 1) - 1 = i
      BY <1>3
    <3> DEFINE id == ids[i + 1]
               bar == h[i]
    <3>2. h[i + 1] = BarAdded(bar, id, st[id])
      BY <2>1, <3>1 DEF Grown
    <3>3. /\ id \in DOMAIN st /\ id \in Windows /\ st[id] \in Toplevel
      BY <1>1, <1>3, <3>1
    <3>4. id \notin DOMAIN Part(i)
      BY <1>3, <3>1 DEF IsInjective
    <3>5. Part(i) \in Stores /\ StoreWith(Part(i), id, st[id], Part(i + 1))
      <4>1. \A m \in 0 .. n : {ids[j] : j \in 1 .. m} \subseteq DOMAIN st
        BY <1>3
      <4>2. \A m \in 0 .. n : Part(m) \in Stores
        <5> SUFFICES ASSUME NEW m \in 0 .. n PROVE Part(m) \in Stores
          OBVIOUS
        <5> DEFINE D == {ids[j] : j \in 1 .. m}
        <5>1. D \in SUBSET Windows /\ \A y \in D : st[y] \in Toplevel
          BY <1>1, <4>1
        <5> HIDE DEF D
        <5>2. [y \in D |-> st[y]] \in [D -> Toplevel]
          BY <5>1
        <5> QED
          BY <5>1, <5>2 DEF Stores, D
      <4>3. {ids[j] : j \in 1 .. i + 1} = {ids[j] : j \in 1 .. i} \union {id}
        <5>1. \A j \in 1 .. i + 1 : j \in 1 .. i \/ j = i + 1
          OBVIOUS
        <5> QED
          BY <5>1
      <4> DEFINE D == {ids[j] : j \in 1 .. i}
                 E == {ids[j] : j \in 1 .. i + 1}
      <4>4. Part(i) = [y \in D |-> st[y]] /\ Part(i + 1) = [y \in E |-> st[y]]
        OBVIOUS
      <4>5. E = D \union {id}
        BY <4>3
      <4>6. Part(i) \in Stores /\ Part(i + 1) \in Stores
        <5> HIDE DEF Part
        <5> QED
          BY <3>1, <4>2
      <4> HIDE DEF D, E, Part, id
      <4> QED
        BY <4>4, <4>5, <4>6 DEF StoreWith
    <3> HIDE DEF Part, id
    <3>6. NewBarOf(only_output, is_tray_host, file, Part(i), bar)
      BY <2>3
    <3> HIDE DEF bar
    <3>7. Fine(h[i + 1], Part(i + 1)) /\ SameBar(bar, h[i + 1])
      BY <3>2, <3>3, <3>4, <3>5, <3>6, AddedFollows DEF NewBarOf
    <3>8. h[i + 1].drag = NoDrag
      BY <3>2, <3>6, AddedKeepsDrag DEF NewBarOf, Fine, GoodBar
    <3>9. ~Dragging(bar)
      BY <3>6 DEF NewBarOf, Dragging, NoDrag
    <3>10. NewBarOf(only_output, is_tray_host, file, Part(i + 1), h[i + 1])
      BY <3>6, <3>7, <3>8, <3>9 DEF NewBarOf, SameBar
    <3> QED
      BY <3>1, <3>10
  <2>4. 0 .. n \subseteq T
    <3> HIDE DEF T
    <3> QED
      BY <1>3, <2>2, <2>3, UpTo
  <2>5. n \in T
    <3> HIDE DEF T
    <3> QED
      BY <1>3, <2>4
  <2> QED
    BY <2>5
<1>7. Part(n) = st
  <2>1. {ids[j] : j \in 1 .. n} = DOMAIN st
    BY <1>3 DEF ToSet
  <2> QED
    BY <1>1, <2>1
<1>8. Is(CHOOSE h : Is(h))
  <2> HIDE DEF Is
  <2> QED
    BY <1>5
<1> DEFINE new == CHOOSE h : Is(h)
<1>9. Ok(n, new[n])
  <2> HIDE DEF Is, Ok
  <2> QED
    BY <1>6, <1>8
<1> QED
  <2> HIDE DEF Part, Is
  <2> QED
    BY <1>4, <1>7, <1>9

-----------------------------------------------------------------------------
(***************************************************************************)
(* The wire.  What a handler may rely on was settled when the compositor   *)
(* sent the event: the client has or will have the window.                 *)
(***************************************************************************)
\* The events of the wire, and those that tell a detail of a window.
Values  == Apps \union Monitors \union BOOLEAN \union {None}
Kinds   == {"toplevel", "title", "app_id", "state", "enter", "leave", "closed",
            "global", "global_remove"}
Details == {"title", "app_id", "enter", "leave"}
Events  == [kind : Kinds, window : Windows \union {None}, value : Values]

\* An event of that kind for the window comes before i, or at all.
Before(wr, i, kind, w) == \E j \in 1 .. i - 1 : wr[j].kind = kind /\ wr[j].window = w
Tells(wr, kind, w)     == \E j \in DOMAIN wr : wr[j].kind = kind /\ wr[j].window = w

\* A client that has the windows D in its list can take the event at i when it
\* comes to it: a window is told once, before its details, and closed after them.
EventFits(wr, D, n, i) ==
  LET w == wr[i].window IN
  /\ wr[i].kind \in {"toplevel", "closed"} => w \in 1 .. n
  /\ wr[i].kind = "toplevel" => w \notin D /\ ~Before(wr, i, "toplevel", w)
  /\ wr[i].kind \in Details =>
       (w \in D \/ Before(wr, i, "toplevel", w)) /\ ~Before(wr, i, "closed", w)
  /\ wr[i].kind = "app_id" => wr[i].value \in Apps
  /\ wr[i].kind = "global" => wr[i].value \in Monitors

\* The client can take the whole wire.
WireFits(wr, D, n) ==
  wr \in Seq(Events) /\ \A i \in DOMAIN wr : EventFits(wr, D, n, i)

\* The client has the window or will have it, and is not told it is closed.
Alive(wr, D, w) == (w \in D \/ Tells(wr, "toplevel", w)) /\ ~Tells(wr, "closed", w)

\* The windows in the list when the first event is handled.
After(e, D) ==
  IF e.kind = "toplevel" THEN D \union {e.window}
  ELSE IF e.kind = "closed" THEN D \ {e.window} ELSE D

LEMMA TailIs ==
  ASSUME NEW S, NEW wr \in Seq(S), wr # <<>>
  PROVE  /\ Tail(wr) \in Seq(S) /\ DOMAIN Tail(wr) = 1 .. Len(wr) - 1
         /\ \A i \in 1 .. Len(wr) - 1 : Tail(wr)[i] = wr[i + 1]
         /\ Head(wr) = wr[1] /\ DOMAIN wr = 1 .. Len(wr) /\ Len(wr) \in Nat \ {0}
<1>1. Len(wr) \in Nat /\ Len(wr) # 0
  OBVIOUS
<1> QED
  BY <1>1

\* The client can take the events that are left when it has taken the first.
LEMMA TailFits ==
  ASSUME NEW wr, NEW D, NEW n, WireFits(wr, D, n), wr # <<>>
  PROVE  /\ WireFits(Tail(wr), After(Head(wr), D), n)
         /\ \A w : Alive(wr, D, w) => Alive(Tail(wr), After(Head(wr), D), w)
<1> DEFINE t == Tail(wr)
           e == Head(wr)
           E == After(e, D)
<1>1. /\ t \in Seq(Events) /\ DOMAIN t = 1 .. Len(wr) - 1
      /\ \A i \in 1 .. Len(wr) - 1 : t[i] = wr[i + 1]
      /\ e = wr[1] /\ DOMAIN wr = 1 .. Len(wr) /\ Len(wr) \in Nat \ {0}
  BY TailIs DEF WireFits
<1> HIDE DEF t, e
<1>2. ASSUME NEW i \in DOMAIN t, NEW kind, NEW w
      PROVE  Before(wr, i + 1, kind, w) <=> (e.kind = kind /\ e.window = w) \/ Before(t, i, kind, w)
  <2>1. ASSUME Before(wr, i + 1, kind, w)
        PROVE  (e.kind = kind /\ e.window = w) \/ Before(t, i, kind, w)
    <3>1. PICK j \in 1 .. (i + 1) - 1 : wr[j].kind = kind /\ wr[j].window = w
      BY <2>1 DEF Before
    <3>2. CASE j = 1
      BY <1>1, <3>1, <3>2
    <3>3. CASE j # 1
      <4>1. j - 1 \in 1 .. i - 1 /\ j - 1 \in 1 .. Len(wr) - 1 /\ (j - 1) + 1 = j
        BY <1>1, <3>3
      <4>2. t[j - 1] = wr[j]
        BY <1>1, <4>1
      <4> QED
        BY <3>1, <4>1, <4>2 DEF Before
    <3> QED
      BY <3>2, <3>3
  <2>2. ASSUME e.kind = kind, e.window = w PROVE Before(wr, i + 1, kind, w)
    <3>1. 1 \in 1 .. (i + 1) - 1
      BY <1>1
    <3> QED
      BY <1>1, <2>2, <3>1 DEF Before
  <2>3. ASSUME Before(t, i, kind, w) PROVE Before(wr, i + 1, kind, w)
    <3>1. PICK j \in 1 .. i - 1 : t[j].kind = kind /\ t[j].window = w
      BY <2>3 DEF Before
    <3>2. j + 1 \in 1 .. (i + 1) - 1 /\ t[j] = wr[j + 1]
      BY <1>1
    <3> QED
      BY <3>1, <3>2 DEF Before
  <2> QED
    BY <2>1, <2>2, <2>3
<1>3. ASSUME NEW kind, NEW w
      PROVE  Tells(wr, kind, w) <=> (e.kind = kind /\ e.window = w) \/ Tells(t, kind, w)
  <2>1. ASSUME NEW j \in DOMAIN wr PROVE j = 1 \/ (j - 1 \in DOMAIN t /\ t[j - 1] = wr[j])
    <3>1. j # 1 => j - 1 \in 1 .. Len(wr) - 1 /\ (j - 1) + 1 = j
      BY <1>1
    <3> QED
      BY <1>1, <3>1
  <2>2. \A j \in DOMAIN t : j + 1 \in DOMAIN wr /\ wr[j + 1] = t[j]
    BY <1>1
  <2>3. 1 \in DOMAIN wr
    BY <1>1
  <2> QED
    BY <1>1, <2>1, <2>2, <2>3 DEF Tells
<1>4. ASSUME NEW i \in DOMAIN t PROVE EventFits(t, E, n, i)
  <2>1. i + 1 \in DOMAIN wr /\ t[i] = wr[i + 1]
    BY <1>1
  <2>2. EventFits(wr, D, n, i + 1)
    BY <2>1 DEF WireFits
  <2>3. \A kind, w : Before(wr, i + 1, kind, w)
                       <=> (e.kind = kind /\ e.window = w) \/ Before(t, i, kind, w)
    BY <1>2
  <2> QED
    BY <2>1, <2>2, <2>3 DEF EventFits, After
<1>5. ASSUME NEW w, Alive(wr, D, w) PROVE Alive(t, E, w)
  BY <1>3, <1>5 DEF Alive, After
<1> QED
  BY <1>1, <1>4, <1>5 DEF WireFits, t, e

\* What the compositor may add: a window that is new with its details, details
\* of those that are alive, or the end of one.
Addable(evs, wr, D, n) ==
  /\ evs \in Seq(Events)
  /\ \A i \in DOMAIN evs :
       LET w == evs[i].window IN
       /\ evs[i].kind = "toplevel" =>
            i = 1 /\ w \in 1 .. n /\ w \notin D /\ ~Tells(wr, "toplevel", w)
       /\ evs[i].kind = "closed" => i = 1 /\ Len(evs) = 1 /\ w \in 1 .. n
       /\ evs[i].kind \in Details =>
            /\ \/ w \in D
               \/ Tells(wr, "toplevel", w)
               \/ i # 1 /\ evs[1].kind = "toplevel" /\ evs[1].window = w
            /\ ~Tells(wr, "closed", w)
       /\ evs[i].kind = "app_id" => evs[i].value \in Apps
       /\ evs[i].kind = "global" => evs[i].value \in Monitors

\* What events sent after those of the wire add to it.
LEMMA ConcatTells ==
  ASSUME NEW wr \in Seq(Events), NEW evs \in Seq(Events), NEW kind, NEW w
  PROVE  Tells(wr \o evs, kind, w) <=> Tells(wr, kind, w) \/ Tells(evs, kind, w)
<1> DEFINE c == wr \o evs
<1>1. /\ c \in Seq(Events) /\ Len(c) = Len(wr) + Len(evs)
      /\ \A i \in 1 .. Len(wr) + Len(evs) :
           c[i] = IF i <= Len(wr) THEN wr[i] ELSE evs[i - Len(wr)]
  BY ConcatProperties
<1> HIDE DEF c
<1>2. /\ DOMAIN c = 1 .. Len(wr) + Len(evs) /\ DOMAIN wr = 1 .. Len(wr)
      /\ DOMAIN evs = 1 .. Len(evs) /\ Len(wr) \in Nat /\ Len(evs) \in Nat
  BY <1>1
<1>3. \A i \in DOMAIN c : \/ i \in DOMAIN wr /\ c[i] = wr[i]
                          \/ i - Len(wr) \in DOMAIN evs /\ c[i] = evs[i - Len(wr)]
  BY <1>1, <1>2
<1>4. \A i \in DOMAIN wr : i \in DOMAIN c /\ c[i] = wr[i]
  BY <1>1, <1>2
<1>5. ASSUME NEW i \in DOMAIN evs PROVE i + Len(wr) \in DOMAIN c /\ c[i + Len(wr)] = evs[i]
  <2>1. i + Len(wr) \in 1 .. Len(wr) + Len(evs) /\ (i + Len(wr)) - Len(wr) = i
        /\ ~(i + Len(wr) <= Len(wr))
    BY <1>2
  <2> QED
    BY <1>1, <1>2, <2>1
<1>6. Tells(c, kind, w) => Tells(wr, kind, w) \/ Tells(evs, kind, w)
  BY <1>3 DEF Tells
<1>7. Tells(wr, kind, w) \/ Tells(evs, kind, w) => Tells(c, kind, w)
  BY <1>4, <1>5 DEF Tells
<1> QED
  BY <1>6, <1>7 DEF c

\* Events the client can take after those of the wire may be sent.
LEMMA AddedFits ==
  ASSUME NEW wr, NEW D, NEW n \in Nat, WireFits(wr, D, n),
         NEW evs, Addable(evs, wr, D, n)
  PROVE  WireFits(wr \o evs, D, n)
<1> DEFINE c == wr \o evs
           l == Len(wr)
<1>1. /\ wr \in Seq(Events) /\ evs \in Seq(Events)
      /\ DOMAIN wr = 1 .. l /\ DOMAIN evs = 1 .. Len(evs) /\ l \in Nat /\ Len(evs) \in Nat
  BY DEF WireFits, Addable
<1>2. /\ c \in Seq(Events) /\ Len(c) = l + Len(evs)
      /\ \A i \in 1 .. l + Len(evs) : c[i] = IF i <= l THEN wr[i] ELSE evs[i - l]
  BY <1>1, ConcatProperties
<1> HIDE DEF c, l
<1>3. DOMAIN c = 1 .. l + Len(evs)
  BY <1>2
<1>4. ASSUME NEW i \in DOMAIN c, i <= l PROVE EventFits(c, D, n, i)
  <2>1. i \in DOMAIN wr /\ c[i] = wr[i]
    BY <1>1, <1>2, <1>3, <1>4
  <2>2. \A kind, w : Before(c, i, kind, w) <=> Before(wr, i, kind, w)
    <3>1. \A j \in 1 .. i - 1 : c[j] = wr[j]
      BY <1>1, <1>2, <1>3, <1>4
    <3> QED
      BY <3>1 DEF Before
  <2> QED
    BY <2>1, <2>2 DEF WireFits, EventFits
<1>5. ASSUME NEW i \in DOMAIN c, ~(i <= l) PROVE EventFits(c, D, n, i)
  <2> DEFINE k == i - l
  <2>1. k \in DOMAIN evs /\ c[i] = evs[k] /\ i = l + k
    BY <1>1, <1>2, <1>3, <1>5
  <2> HIDE DEF k
  <2>2. ASSUME NEW kind, NEW w
        PROVE  Before(c, i, kind, w) <=> Tells(wr, kind, w) \/ Before(evs, k, kind, w)
    <3>1. ASSUME NEW j \in 1 .. i - 1
          PROVE  \/ j \in DOMAIN wr /\ c[j] = wr[j]
                 \/ j - l \in 1 .. k - 1 /\ c[j] = evs[j - l]
      BY <1>1, <1>2, <1>3, <2>1
    <3>2. \A j \in DOMAIN wr : j \in 1 .. i - 1 /\ c[j] = wr[j]
      BY <1>1, <1>2, <1>3, <2>1
    <3>3. ASSUME NEW j \in 1 .. k - 1 PROVE j + l \in 1 .. i - 1 /\ c[j + l] = evs[j]
      <4>1. j + l \in 1 .. l + Len(evs) /\ ~(j + l <= l) /\ (j + l) - l = j
        BY <1>1, <2>1
      <4>2. j + l \in 1 .. i - 1
        BY <1>1, <2>1
      <4> QED
        BY <1>2, <4>1, <4>2
    <3> QED
      BY <3>1, <3>2, <3>3 DEF Before, Tells
  <2>3. /\ k = 1 => \A kind, w : ~Before(evs, k, kind, w)
        /\ k # 1 => \A kind, w : evs[1].kind = kind /\ evs[1].window = w =>
                      Before(evs, k, kind, w)
    BY <1>1, <2>1 DEF Before
  <2>4. ASSUME NEW w, Before(evs, k, "closed", w) PROVE FALSE
    <3>1. PICK j \in 1 .. k - 1 : evs[j].kind = "closed"
      BY <2>4 DEF Before
    <3>2. j \in DOMAIN evs /\ k # 1 /\ Len(evs) # 1
      BY <1>1, <2>1
    <3> QED
      BY <3>1, <3>2 DEF Addable
  <2>5. /\ evs[k].kind \in {"toplevel", "closed"} => evs[k].window \in 1 .. n
        /\ evs[k].kind = "toplevel" =>
             k = 1 /\ evs[k].window \notin D /\ ~Tells(wr, "toplevel", evs[k].window)
        /\ evs[k].kind \in Details =>
             /\ \/ evs[k].window \in D \/ Tells(wr, "toplevel", evs[k].window)
                \/ k # 1 /\ evs[1].kind = "toplevel" /\ evs[1].window = evs[k].window
             /\ ~Tells(wr, "closed", evs[k].window)
        /\ evs[k].kind = "app_id" => evs[k].value \in Apps
        /\ evs[k].kind = "global" => evs[k].value \in Monitors
    BY <2>1 DEF Addable
  <2> QED
    BY <2>1, <2>2, <2>3, <2>4, <2>5 DEF EventFits
<1> QED
  BY <1>2, <1>4, <1>5 DEF WireFits, c

\* The lists up to i, one after the other.
Joined(seqs, f, X) ==
  /\ f \in [0 .. Len(seqs) -> Seq(X)] /\ f[0] = <<>>
  /\ \A i \in 1 .. Len(seqs) : f[i] = f[i - 1] \o seqs[i]

LEMMA JoinedExists ==
  ASSUME NEW X, NEW seqs \in Seq(Seq(X))
  PROVE  \E f : Joined(seqs, f, X)
<1> DEFINE n == Len(seqs)
           S == Seq(X)
           step == [x \in (1 .. n) \X S |-> x[2] \o seqs[x[1]]]
<1>1. n \in Nat /\ <<>> \in S /\ \A i \in 1 .. n : seqs[i] \in S
  OBVIOUS
<1>2. \A v \in S, i \in 1 .. n : v \o seqs[i] \in S
  BY <1>1, ConcatProperties
<1>3. step \in [(1 .. n) \X S -> S]
  <2> HIDE DEF S
  <2> QED
    BY <1>2
<1>4. \A i \in 1 .. n, v \in S : step[<<i, v>>] = v \o seqs[i]
  <2> HIDE DEF S
  <2> QED
    OBVIOUS
<1>5. PICK f \in [0 .. n -> S] : Recursively(f, n, <<>>, step)
  <2> HIDE DEF step, n, S
  <2> QED
    BY <1>1, <1>3, Recursion
<1>6. f[0] = <<>> /\ \A i \in 1 .. n : f[i] = f[i - 1] \o seqs[i]
  <2> HIDE DEF step, S, n
  <2>1. \A i \in 1 .. n : f[i - 1] \in S
    <3> n \in Nat
      BY <1>1
    <3> QED
      OBVIOUS
  <2> QED
    BY <1>4, <1>5, <2>1 DEF Recursively
<1>7. f \in [0 .. Len(seqs) -> Seq(X)]
  BY <1>5
<1> QED
  BY <1>6, <1>7 DEF Joined

\* FlattenSeq is the last of them.
LEMMA FlattenJoins ==
  ASSUME NEW X, NEW seqs \in Seq(Seq(X)), NEW f, Joined(seqs, f, X)
  PROVE  FlattenSeq(seqs) = f[Len(seqs)]
<1> DEFINE n == Len(seqs)
           Is(h) == h = [i \in 1 .. n |-> IF i = 1 THEN seqs[i] ELSE h[i - 1] \o seqs[i]]
<1>1. n \in Nat /\ \A i \in 1 .. n : seqs[i] \in Seq(X)
  OBVIOUS
<1>2. CASE n = 0
  <2>1. seqs = <<>>
    BY <1>2
  <2> QED
    BY <1>2, <2>1 DEF FlattenSeq, Joined
<1>3. CASE n # 0
  <2>1. FlattenSeq(seqs) = (CHOOSE h : Is(h))[n]
    BY <1>3 DEF FlattenSeq
  <2>2. f[0] = <<>> /\ \A i \in 1 .. n : f[i] = f[i - 1] \o seqs[i]
    BY DEF Joined
  <2>3. f[1] = seqs[1]
    <3>1. 1 \in 1 .. n /\ 1 - 1 = 0
      BY <1>1, <1>3
    <3>2. f[1] = <<>> \o seqs[1] /\ seqs[1] \in Seq(X)
      BY <1>1, <2>2, <3>1
    <3> QED
      BY <3>2, ConcatEmptySeq
  <2> DEFINE g == [i \in 1 .. n |-> f[i]]
             r == [i \in 1 .. n |-> IF i = 1 THEN seqs[i] ELSE g[i - 1] \o seqs[i]]
  <2>4. \A i \in 1 .. n : g[i] = r[i]
    <3>1. \A i \in 1 .. n : i # 1 => f[i] = g[i - 1] \o seqs[i]
      <4>1. n \in Nat
        BY <1>1
      <4> HIDE DEF n
      <4>2. \A i \in 1 .. n : i # 1 => i - 1 \in 1 .. n
        BY <4>1
      <4>3. \A i \in 1 .. n : i # 1 => f[i - 1] = g[i - 1]
        BY <4>2
      <4> QED
        BY <2>2, <4>3
    <3> QED
      BY <2>3, <3>1
  <2>5. g = r
    BY <2>4
  <2>6. Is(g)
    <3> HIDE DEF g
    <3> QED
      BY <2>5
  <2>7. ASSUME NEW h, Is(h) PROVE h[n] = f[n]
    <3>1. \A i \in 1 .. n : h[i] = IF i = 1 THEN seqs[i] ELSE h[i - 1] \o seqs[i]
      BY <2>7
    <3> DEFINE T == {i \in 0 .. n : i # 0 => h[i] = f[i]}
    <3>2. 0 \in T
      BY <1>1
    <3>3. ASSUME NEW i \in 0 .. n - 1, i \in T PROVE i + 1 \in T
      <4>1. i + 1 \in 1 .. n /\ (i + 1) - 1 = i
        BY <1>1
      <4>2. CASE i = 0
        <5>1. h[1] = f[1] /\ i + 1 = 1 /\ i + 1 \in 0 .. n
          <6> HIDE DEF n
          <6> QED
            BY <1>1, <2>3, <3>1, <4>1, <4>2
        <5> QED
          BY <5>1
      <4>3. CASE i # 0
        <5>1. h[i] = f[i] /\ h[i + 1] = h[i] \o seqs[i + 1]
          <6>1. i # 0 => h[i] = f[i]
            BY <3>3
          <6>2. i + 1 # 1 /\ i + 1 \in 1 .. n
            BY <4>1, <4>3
          <6>3. h[i + 1] = h[(i + 1) - 1] \o seqs[i + 1]
            <7> HIDE DEF n
            <7> QED
              BY <3>1, <6>2
          <6> QED
            BY <4>1, <4>3, <6>1, <6>3
        <5>2. f[i + 1] = f[i] \o seqs[i + 1]
          <6>1. f[i + 1] = f[(i + 1) - 1] \o seqs[i + 1]
            <7> HIDE DEF n
            <7> QED
              BY <2>2, <4>1
          <6> QED
            BY <4>1, <6>1
        <5>3. h[i + 1] = f[i + 1]
          BY <5>1, <5>2
        <5> QED
          BY <4>1, <5>3
      <4> QED
        BY <4>2, <4>3
    <3>4. 0 .. n \subseteq T
      <4> HIDE DEF T
      <4> QED
        BY <1>1, <3>2, <3>3, UpTo
    <3>5. n \in T
      <4> HIDE DEF T
      <4> QED
        BY <1>1, <3>4
    <3> QED
      BY <1>3, <3>5
  <2>8. Is(CHOOSE h : Is(h))
    <3> HIDE DEF Is
    <3> QED
      BY <2>6
  <2> QED
    <3> HIDE DEF Is
    <3> QED
      BY <2>1, <2>7, <2>8
<1> QED
  BY <1>2, <1>3

\* FlattenSeq has the members of each list.
LEMMA FlattenIs ==
  ASSUME NEW X, NEW seqs \in Seq(Seq(X))
  PROVE  FlattenSeq(seqs) \in Seq(X)
<1>1. PICK f : Joined(seqs, f, X)
  BY JoinedExists
<1>2. Len(seqs) \in 0 .. Len(seqs)
  OBVIOUS
<1> QED
  BY <1>1, <1>2, FlattenJoins DEF Joined

\* The compositor's own state.
CompositorFits ==
  /\ maps \in Nat /\ maps <= MaxWindows
  /\ Mapped \subseteq 1 .. maps
  /\ apps \in [Mapped -> Apps]
  /\ places \in [Mapped -> Monitors \union {None}]
  /\ focus \in Mapped \union {None}
  /\ monitors \in Seq(Monitors)

\* What is between the compositor and the client: the client can take every
\* event, and has or will have each mapped window.
LinkFits ==
  /\ bound \in BOOLEAN
  /\ DOMAIN list \subseteq 1 .. maps
  /\ WireFits(wire, DOMAIN list, maps)
  /\ bound => \A w \in Mapped : Alive(wire, DOMAIN list, w)
  /\ ~bound => wire = <<>> /\ DOMAIN list = {}

\* A window more leaves the wire as it is.
LEMMA MoreWindows ==
  ASSUME NEW wr, NEW D, NEW m \in Nat, NEW n \in Nat, m <= n, WireFits(wr, D, m)
  PROVE  WireFits(wr, D, n)
<1>1. 1 .. m \subseteq 1 .. n
  OBVIOUS
<1> QED
  BY <1>1 DEF WireFits, EventFits

\* What is sent may be added, and tells every window that is new.
LEMMA SendFits ==
  ASSUME LinkFits, CompositorFits, NEW evs, Send(evs), UNCHANGED <<bound, list>>,
         maps' \in Nat, maps <= maps',
         bound => Addable(evs, wire, DOMAIN list, maps'),
         bound => \A w \in Mapped' :
                    /\ ~Tells(evs, "closed", w)
                    /\ \/ Alive(wire, DOMAIN list, w)
                       \/ Tells(evs, "toplevel", w) /\ ~Tells(wire, "closed", w)
  PROVE  LinkFits'
<1> DEFINE D == DOMAIN list
<1>1. D \subseteq 1 .. maps' /\ WireFits(wire, D, maps') /\ maps \in Nat
  BY MoreWindows DEF LinkFits, CompositorFits
<1>2. CASE ~bound
  <2>1. wire' = wire /\ D' = D /\ bound' = bound
    BY <1>2 DEF Send
  <2> QED
    BY <1>1, <1>2, <2>1 DEF LinkFits
<1>3. CASE bound
  <2>1. wire' = wire \o evs /\ D' = D /\ bound' = bound
    BY <1>3 DEF Send
  <2>2. WireFits(wire \o evs, D, maps')
    BY <1>1, <1>3, AddedFits
  <2>3. \A kind, w : Tells(wire \o evs, kind, w) <=> Tells(wire, kind, w) \/ Tells(evs, kind, w)
    BY <1>1, <1>3, ConcatTells DEF WireFits, Addable
  <2>4. ASSUME NEW w \in Mapped' PROVE Alive(wire \o evs, D, w)
    BY <1>3, <2>3 DEF Alive
  <2> QED
    BY <1>1, <1>3, <2>1, <2>2, <2>4 DEF LinkFits
<1> QED
  BY <1>2, <1>3

\* The events that tell nothing of a window but where it is and what it does.
Plain(wr, D) ==
  {e \in Events : /\ e.kind \in {"enter", "leave", "state", "global", "global_remove"}
                  /\ e.kind \in {"enter", "leave"} => Alive(wr, D, e.window)
                  /\ e.kind = "global" => e.value \in Monitors}

\* Such events may always be sent.
LEMMA PlainFits ==
  ASSUME NEW wr, NEW D, NEW n, NEW evs \in Seq(Plain(wr, D))
  PROVE  Addable(evs, wr, D, n) /\ \A w : ~Tells(evs, "closed", w)
<1>1. \A i \in DOMAIN evs : evs[i] \in Plain(wr, D)
  OBVIOUS
<1>2. evs \in Seq(Events)
  <2>1. ToSet(evs) \subseteq Events
    BY <1>1 DEF ToSet, Plain
  <2> QED
    BY <2>1, ListOfMembers
<1>3. \A i \in DOMAIN evs : evs[i].kind \notin {"toplevel", "closed", "title", "app_id"}
  BY <1>1 DEF Plain
<1>4. \A i \in DOMAIN evs : evs[i].kind \in Details => Alive(wr, D, evs[i].window)
  BY <1>1, <1>3 DEF Plain, Details
<1>5. \A i \in DOMAIN evs : evs[i].kind = "global" => evs[i].value \in Monitors
  BY <1>1 DEF Plain
<1>6. \A w : ~Tells(evs, "closed", w)
  BY <1>3 DEF Tells
<1>7. Addable(evs, wr, D, n)
  <2>1. ASSUME NEW i \in DOMAIN evs
        PROVE  /\ evs[i].kind \notin {"toplevel", "closed", "title", "app_id"}
               /\ evs[i].kind \in Details =>
                    /\ evs[i].window \in D \/ Tells(wr, "toplevel", evs[i].window)
                    /\ ~Tells(wr, "closed", evs[i].window)
               /\ evs[i].kind = "global" => evs[i].value \in Monitors
    BY <1>3, <1>4, <1>5 DEF Alive
  <2> QED
    BY <1>2, <2>1 DEF Addable
<1> QED
  BY <1>6, <1>7

\* The link through a step that sends such events only.
LEMMA PlainSend ==
  ASSUME LinkFits, CompositorFits, NEW evs, Send(evs), UNCHANGED <<bound, list, maps>>,
         Mapped' = Mapped, bound => evs \in Seq(Plain(wire, DOMAIN list))
  PROVE  LinkFits'
<1>1. maps \in Nat /\ maps' = maps
  BY DEF CompositorFits
<1>2. bound => \A w \in Mapped : Alive(wire, DOMAIN list, w)
  BY DEF LinkFits
<1>3. bound => Addable(evs, wire, DOMAIN list, maps') /\ \A w : ~Tells(evs, "closed", w)
  BY PlainFits
<1> QED
  BY <1>1, <1>2, <1>3, SendFits

\* The mapped windows are numbered up to maps.
LEMMA MappedWindows ==
  ASSUME CompositorFits
  PROVE  /\ Mapped \in SUBSET Windows /\ IsFiniteSet(Mapped) /\ maps \in Nat
         /\ DOMAIN places = Mapped /\ 1 .. maps \subseteq Windows
<1>1. IsFiniteSet(Windows)
  BY BoundAssumption, FS_Interval DEF Windows
<1>2. 1 .. maps \subseteq Windows
  BY BoundAssumption DEF CompositorFits, Windows
<1> QED
  BY <1>1, <1>2, FS_Subset DEF CompositorFits

\* A window's home is a monitor or none.
LEMMA MonitorsListed ==
  ASSUME CompositorFits, NEW m \in Homes(monitors)
  PROVE  m \in Monitors \union {None}
BY DEF CompositorFits, Homes, ToSet

\* What a monitor or a move sends of a window that is alive.
LEMMA MoveEvents ==
  ASSUME CompositorFits, NEW w \in Mapped, NEW D, Alive(wire, D, w),
         NEW m \in Monitors \union {None}
  PROVE  Leaves(w) \o Enters(w, m) \in Seq(Plain(wire, D))
<1>1. w \in Windows /\ places[w] \in Monitors \union {None}
  BY MappedWindows DEF CompositorFits
<1>2. Leaves(w) \in Seq(Plain(wire, D))
  <2>1. places[w] # None => Event("leave", w, places[w]) \in Plain(wire, D)
    BY <1>1 DEF Event, Plain, Events, Kinds, Values
  <2> QED
    BY <2>1 DEF Leaves
<1>3. Enters(w, m) \in Seq(Plain(wire, D))
  <2>1. m # None => Event("enter", w, m) \in Plain(wire, D)
    BY <1>1 DEF Event, Plain, Events, Kinds, Values
  <2> QED
    BY <2>1 DEF Enters
<1> QED
  BY <1>2, <1>3, ConcatProperties

\* The events of a hotplug are plain.
LEMMA GlobalEvents ==
  ASSUME NEW D, NEW m \in Monitors
  PROVE  /\ <<Event("global", None, m)>> \in Seq(Plain(wire, D))
         /\ <<Event("global_remove", None, m)>> \in Seq(Plain(wire, D))
<1>1. /\ Event("global", None, m) \in Plain(wire, D)
      /\ Event("global_remove", None, m) \in Plain(wire, D)
  BY DEF Event, Plain, Events, Kinds, Values
<1> QED
  BY <1>1

\* A mapped window is told to the client before anything about it.
LEMMA MapWindowFits ==
  ASSUME CompositorFits, LinkFits, NEW app \in Apps, NEW m \in Homes(monitors),
         MapWindow(app, m)
  PROVE  CompositorFits' /\ LinkFits'
<1> DEFINE w == maps + 1
           D == DOMAIN list
<1>1. /\ w \in Windows /\ maps' = w /\ apps' = Extend(apps, w, app)
      /\ places' = Extend(places, w, m)
      /\ UNCHANGED <<focus, monitors, bound, list>>
  BY DEF MapWindow, clientVars
<1>2. maps \in Nat /\ w \in Nat /\ w <= MaxWindows /\ w \notin 1 .. maps
  BY <1>1, MappedWindows, BoundAssumption DEF Windows
<1>3. m \in Monitors \union {None}
  BY MonitorsListed
<1>4. CompositorFits'
  <2>1. DOMAIN apps' = Mapped \union {w} /\ Mapped' = DOMAIN apps'
    BY <1>1 DEF Extend, Mapped
  <2>2. apps' \in [Mapped \union {w} -> Apps]
    BY <1>1 DEF CompositorFits, Extend, Mapped
  <2>3. places' \in [Mapped \union {w} -> Monitors \union {None}]
    BY <1>1, <1>3, MappedWindows DEF CompositorFits, Extend
  <2>4. Mapped \union {w} \subseteq 1 .. w
    BY <1>2 DEF CompositorFits
  <2> QED
    BY <1>1, <1>2, <2>1, <2>2, <2>3, <2>4 DEF CompositorFits
<1>5. PICK names \in {<<"title", "app_id">>, <<"app_id", "title">>} :
        Send(<<Event("toplevel", w, None), Event(names[1], w, app),
               Event(names[2], w, app)>> \o Enters(w, m))
  BY DEF MapWindow
<1> DEFINE three == <<Event("toplevel", w, None), Event(names[1], w, app),
                      Event(names[2], w, app)>>
           evs == three \o Enters(w, m)
<1>6. /\ evs \in Seq(Events) /\ DOMAIN evs = 1 .. Len(evs) /\ Len(evs) \in Nat \ {0}
      /\ evs[1].kind = "toplevel"
      /\ \A i \in DOMAIN evs :
           /\ evs[i].window = w /\ evs[i].kind \in Details \union {"toplevel"}
           /\ evs[i].kind = "toplevel" => i = 1
           /\ evs[i].kind = "app_id" => evs[i].value \in Apps
  <2>1. /\ names[1] \in {"title", "app_id"} /\ names[2] \in {"title", "app_id"}
    BY <1>5
  <2> DEFINE n1 == names[1]
             n2 == names[2]
  <2> HIDE DEF n1, n2
  <2>2. n1 \in {"title", "app_id"} /\ n2 \in {"title", "app_id"}
    BY <2>1 DEF n1, n2
  <2> DEFINE e1 == Event("toplevel", w, None)
             e2 == Event(n1, w, app)
             e3 == Event(n2, w, app)
             e4 == Event("enter", w, m)
  <2>3. /\ e1 \in Events /\ e2 \in Events /\ e3 \in Events
        /\ e1.kind = "toplevel" /\ e2.kind \in {"title", "app_id"}
        /\ e3.kind \in {"title", "app_id"}
        /\ e1.window = w /\ e2.window = w /\ e3.window = w
        /\ e2.value \in Apps /\ e3.value \in Apps
    BY <1>1, <2>2 DEF Event, Events, Kinds, Values
  <2>4. m # None => e4 \in Events /\ e4.kind = "enter" /\ e4.window = w
    BY <1>1, <1>3 DEF Event, Events, Kinds, Values
  <2>5. three = <<e1, e2, e3>> /\ Enters(w, m) = IF m = None THEN <<>> ELSE <<e4>>
    BY DEF Enters, n1, n2
  <2> HIDE DEF e1, e2, e3, e4, three
  <2> DEFINE more == Enters(w, m)
  <2>6. /\ three \in Seq(Events) /\ Len(three) = 3
        /\ three[1] = e1 /\ three[2] = e2 /\ three[3] = e3
    BY <2>3, <2>5
  <2>7. /\ more \in Seq(Events) /\ Len(more) \in Nat
        /\ \A i \in 1 .. Len(more) : more[i].kind = "enter" /\ more[i].window = w
    <3>0. more = IF m = None THEN <<>> ELSE <<e4>>
      BY <2>5
    <3> HIDE DEF more
    <3>1. CASE m = None
      <4>1. more = <<>> /\ <<>> \in Seq(Events) /\ Len(<<>>) = 0
        BY <3>0, <3>1
      <4>2. \A i \in 1 .. 0 : FALSE
        OBVIOUS
      <4> QED
        BY <4>1, <4>2
    <3>2. CASE m # None
      <4>1. more = <<e4>> /\ e4 \in Events /\ e4.kind = "enter" /\ e4.window = w
        BY <2>4, <3>0, <3>2
      <4>2. <<e4>> \in Seq(Events) /\ Len(<<e4>>) = 1 /\ <<e4>>[1] = e4
        BY <4>1
      <4>3. \A i \in 1 .. 1 : i = 1
        OBVIOUS
      <4> QED
        BY <4>1, <4>2, <4>3
    <3> QED
      BY <3>1, <3>2
  <2> HIDE DEF more
  <2>8. /\ evs \in Seq(Events) /\ Len(evs) = 3 + Len(more)
        /\ \A i \in 1 .. 3 + Len(more) : evs[i] = IF i <= 3 THEN three[i] ELSE more[i - 3]
    <3> DEFINE c == three \o more
    <3>1. /\ c \in Seq(Events) /\ Len(c) = Len(three) + Len(more)
          /\ \A i \in 1 .. Len(three) + Len(more) :
               c[i] = IF i <= Len(three) THEN three[i] ELSE more[i - Len(three)]
      BY <2>6, <2>7, ConcatProperties
    <3> HIDE DEF c
    <3>2. evs = c
      BY DEF c, more
    <3> HIDE DEF evs
    <3> QED
      BY <2>6, <3>1, <3>2
  <2> HIDE DEF evs
  <2>9. DOMAIN evs = 1 .. Len(evs) /\ Len(evs) \in Nat \ {0} /\ evs[1] = e1
    BY <2>6, <2>7, <2>8
  <2>10. \A i \in DOMAIN evs : \/ i = 1 /\ evs[i] = e1
                               \/ i = 2 /\ evs[i] = e2
                               \/ i = 3 /\ evs[i] = e3
                               \/ i - 3 \in 1 .. Len(more) /\ evs[i] = more[i - 3]
    BY <2>6, <2>7, <2>8, <2>9
  <2> QED
    BY <2>3, <2>7, <2>8, <2>9, <2>10 DEF Details
<1> HIDE DEF evs, three
<1>7. Send(evs)
  BY <1>5 DEF evs, three
<1>8. /\ w \notin D /\ ~Tells(wire, "toplevel", w) /\ ~Tells(wire, "closed", w)
  <2>1. \A i \in DOMAIN wire : wire[i].kind \in {"toplevel", "closed"} =>
          wire[i].window \in 1 .. maps
    BY DEF LinkFits, WireFits, EventFits
  <2>2. w \notin D
    BY <1>2 DEF LinkFits
  <2> HIDE DEF w
  <2> QED
    BY <1>2, <2>1, <2>2 DEF Tells
<1>9. Addable(evs, wire, D, maps')
  <2>1. w \in 1 .. maps'
    BY <1>1, <1>2
  <2>2. \A i \in DOMAIN evs : evs[i].kind \notin {"closed", "global"}
    BY <1>6 DEF Details
  <2>3. ASSUME NEW i \in DOMAIN evs, evs[i].kind \in Details PROVE i # 1
    BY <1>6, <2>3 DEF Details
  <2> HIDE DEF w
  <2>4. 1 \in DOMAIN evs
    BY <1>6
  <2> QED
    BY <1>6, <1>8, <2>1, <2>2, <2>3, <2>4 DEF Addable
<1>10. ~Tells(evs, "closed", w) /\ Tells(evs, "toplevel", w) /\ \A v : ~Tells(evs, "closed", v)
  <2>1. 1 \in DOMAIN evs
    BY <1>6
  <2> QED
    BY <1>6, <2>1 DEF Tells, Details
<1>11. Mapped' = Mapped \union {w}
  BY <1>1 DEF Extend, Mapped
<1>12. bound => \A v \in Mapped : Alive(wire, D, v)
  BY DEF LinkFits
<1>13. maps <= maps' /\ maps' \in Nat /\ UNCHANGED <<bound, list>>
  BY <1>1, <1>2
<1>14. \A v \in Mapped' : bound => /\ ~Tells(evs, "closed", v)
                                   /\ \/ Alive(wire, D, v)
                                      \/ Tells(evs, "toplevel", v) /\ ~Tells(wire, "closed", v)
  <2> HIDE DEF w
  <2> QED
    BY <1>8, <1>10, <1>11, <1>12
<1>15. LinkFits'
  <2> HIDE DEF w
  <2> QED
    BY <1>7, <1>9, <1>13, <1>14, SendFits
<1> QED
  BY <1>4, <1>15

\* A window that closes is told as closed after everything about it.
LEMMA UnmapFits ==
  ASSUME CompositorFits, LinkFits, NEW w \in Mapped, Unmap(w)
  PROVE  CompositorFits' /\ LinkFits'
<1> DEFINE evs == <<Event("closed", w, None)>>
           D   == DOMAIN list
<1>1. /\ apps' = Omit(apps, w) /\ places' = Omit(places, w) /\ Send(evs)
      /\ focus' = IF focus = w THEN None ELSE focus
      /\ UNCHANGED <<monitors, maps, bound, list>>
  BY DEF Unmap, clientVars
<1>2. Mapped' = Mapped \ {w}
  BY <1>1 DEF Omit, Mapped
<1>3. CompositorFits'
  <2>1. apps' \in [Mapped \ {w} -> Apps]
    BY <1>1 DEF CompositorFits, Omit, Mapped
  <2>2. places' \in [Mapped \ {w} -> Monitors \union {None}]
    BY <1>1, MappedWindows DEF CompositorFits, Omit
  <2> QED
    BY <1>1, <1>2, <2>1, <2>2 DEF CompositorFits
<1>4. w \in Windows /\ w \in 1 .. maps /\ maps \in Nat
  BY MappedWindows DEF CompositorFits
<1>5. /\ evs \in Seq(Events) /\ Len(evs) = 1 /\ DOMAIN evs = {1}
      /\ evs[1].kind = "closed" /\ evs[1].window = w
  <2> DEFINE e == Event("closed", w, None)
  <2>1. e \in Events /\ e.kind = "closed" /\ e.window = w
    BY <1>4 DEF Event, Events, Kinds, Values
  <2> HIDE DEF e
  <2>2. <<e>> \in Seq(Events) /\ Len(<<e>>) = 1 /\ DOMAIN <<e>> = {1} /\ <<e>>[1] = e
    BY <2>1
  <2> QED
    BY <2>1, <2>2 DEF e
<1> HIDE DEF evs
<1>6. Addable(evs, wire, D, maps)
  BY <1>4, <1>5 DEF Addable, Details
<1>7. \A v : ~Tells(evs, "closed", v) \/ v = w
  BY <1>5 DEF Tells
<1>8. bound => \A v \in Mapped : Alive(wire, D, v)
  BY DEF LinkFits
<1>9. LinkFits'
  <2>1. maps' = maps /\ maps <= maps'
    BY <1>1, <1>4
  <2> QED
    BY <1>1, <1>2, <1>4, <1>6, <1>7, <1>8, <2>1, SendFits
<1> QED
  BY <1>3, <1>9

\* A change of focus is told for windows the client has or will have.
LEMMA FocusFits ==
  ASSUME CompositorFits, LinkFits, NEW w \in Mapped \union {None}, Focus(w)
  PROVE  CompositorFits' /\ LinkFits'
<1> DEFINE off == IF focus = None THEN <<>> ELSE <<Event("state", focus, FALSE)>>
           on  == IF w = None THEN <<>> ELSE <<Event("state", w, TRUE)>>
           S   == Seq(Plain(wire, DOMAIN list))
<1>1. /\ focus' = w /\ (Send(off \o on) \/ Send(on \o off))
      /\ UNCHANGED <<apps, places, monitors, maps, bound, list>>
  BY DEF Focus, clientVars
<1>2. focus' = w
  BY DEF Focus
<1>3. ASSUME NEW v \in Mapped, NEW b \in BOOLEAN
      PROVE  <<Event("state", v, b)>> \in S
  <2>1. v \in Windows
    BY MappedWindows
  <2>2. Event("state", v, b) \in Plain(wire, DOMAIN list)
    BY <2>1 DEF Event, Plain, Events, Kinds, Values
  <2> QED
    BY <2>2
<1>4. off \in S
  <2>1. focus # None => focus \in Mapped
    BY DEF CompositorFits
  <2> HIDE DEF S
  <2>2. <<>> \in S
    BY DEF S
  <2> QED
    BY <1>3, <2>1, <2>2
<1>5. on \in S
  <2> HIDE DEF S
  <2>2. <<>> \in S
    BY DEF S
  <2> QED
    BY <1>3, <2>2
<1> HIDE DEF off, on
<1>6. off \o on \in S /\ on \o off \in S
  BY <1>4, <1>5, ConcatProperties
<1>7. Mapped' = Mapped /\ UNCHANGED <<bound, list, maps, apps, places, monitors>>
  BY <1>1 DEF Mapped
<1>8. LinkFits'
  BY <1>1, <1>6, <1>7, PlainSend
<1>9. CompositorFits'
  BY <1>2, <1>7 DEF CompositorFits
<1> QED
  BY <1>8, <1>9

\* A window that takes another app_id is one the client has or will have.
LEMMA RenameFits ==
  ASSUME CompositorFits, LinkFits, NEW w \in Mapped, NEW app \in Apps, Rename(w, app)
  PROVE  CompositorFits' /\ LinkFits'
<1> DEFINE e   == Event("app_id", w, app)
           evs == <<e>>
           D   == DOMAIN list
<1>1. /\ bound /\ apps' = [apps EXCEPT ![w] = app] /\ Send(evs)
      /\ UNCHANGED <<places, focus, monitors, maps, bound, list>>
  BY DEF Rename, clientVars
<1>2. Mapped' = Mapped /\ CompositorFits'
  BY <1>1 DEF CompositorFits, Mapped
<1>3. e.kind = "app_id" /\ e.window = w /\ e.value = app /\ e \in Events
  BY MappedWindows DEF Event, Events, Kinds, Values
<1> HIDE DEF e
<1>4. evs \in Seq(Events) /\ Len(evs) = 1 /\ DOMAIN evs = {1} /\ evs[1] = e
  BY <1>3
<1> HIDE DEF evs
<1>5. \A v \in Mapped : Alive(wire, D, v)
  BY <1>1 DEF LinkFits
<1>6. Addable(evs, wire, D, maps)
  BY <1>3, <1>4, <1>5 DEF Addable, Alive, Details
<1>7. \A v : ~Tells(evs, "closed", v)
  BY <1>3, <1>4 DEF Tells
<1>8. maps \in Nat /\ maps' = maps /\ maps <= maps'
  BY <1>1 DEF CompositorFits
<1>9. LinkFits'
  BY <1>1, <1>2, <1>5, <1>6, <1>7, <1>8, SendFits
<1> QED
  BY <1>2, <1>9

\* A moved window is one the client has or will have.
LEMMA MoveWindowFits ==
  ASSUME CompositorFits, LinkFits, NEW w \in Mapped, NEW m \in ToSet(monitors),
         MoveWindow(w, m)
  PROVE  CompositorFits' /\ LinkFits'
<1> DEFINE evs == Leaves(w) \o Enters(w, m)
           D == DOMAIN list
<1>1. /\ places' = [places EXCEPT ![w] = m] /\ Send(evs)
      /\ UNCHANGED <<apps, focus, monitors, maps, bound, list>>
  BY DEF MoveWindow, clientVars
<1>2. m \in Monitors
  BY DEF CompositorFits, ToSet
<1>3. bound => evs \in Seq(Plain(wire, D))
  BY <1>2, MoveEvents DEF LinkFits
<1> HIDE DEF evs
<1>4. Mapped' = Mapped
  BY <1>1 DEF Mapped
<1>5. LinkFits'
  BY <1>1, <1>3, <1>4, PlainSend
<1>6. CompositorFits'
  <2>1. places' \in [Mapped -> Monitors \union {None}]
    BY <1>1, <1>2 DEF CompositorFits
  <2> QED
    BY <1>1, <1>4, <2>1 DEF CompositorFits
<1> QED
  BY <1>5, <1>6

\* The compositor and the wire through a monitor that comes.
LEMMA PlugFits ==
  ASSUME CompositorFits, LinkFits, NEW m \in Monitors, Plug(m)
  PROVE  CompositorFits' /\ LinkFits'
<1> DEFINE homeless == SetToSeq({w \in Mapped : places[w] = None})
           enters   == [i \in DOMAIN homeless |-> Event("enter", homeless[i], m)]
           first    == <<Event("global", None, m)>>
           D == DOMAIN list
<1>1. /\ monitors' = Append(monitors, m) /\ Send(first \o enters)
      /\ places' = [w \in Mapped |-> IF places[w] = None THEN m ELSE places[w]]
      /\ UNCHANGED <<apps, focus, maps, bound, list>>
  BY DEF Plug, clientVars
<1>2. bound => first \o enters \in Seq(Plain(wire, D))
  <2> SUFFICES ASSUME bound PROVE first \o enters \in Seq(Plain(wire, D))
    OBVIOUS
  <2> DEFINE S == {w \in Mapped : places[w] = None}
  <2>1. IsFiniteSet(S) /\ S \subseteq Mapped
    BY MappedWindows, FS_Subset
  <2>2. homeless \in Seq(S)
    <3> HIDE DEF S
    <3>1. Enumerates(S, SetToSeq(S))
      BY <2>1, SetToSeqEnumerates
    <3> QED
      BY <3>1 DEF Enumerates, S
  <2> HIDE DEF homeless, S
  <2>3. \A w \in Mapped : Event("enter", w, m) \in Plain(wire, D)
    <3> SUFFICES ASSUME NEW w \in Mapped PROVE Event("enter", w, m) \in Plain(wire, D)
      OBVIOUS
    <3>1. w \in Windows /\ Alive(wire, D, w)
      BY MappedWindows DEF LinkFits
    <3> QED
      BY <3>1 DEF Event, Plain, Events, Kinds, Values
  <2>4. Len(homeless) \in Nat /\ DOMAIN homeless = 1 .. Len(homeless)
        /\ \A i \in DOMAIN homeless : homeless[i] \in Mapped
    BY <2>1, <2>2
  <2>5. enters \in Seq(Plain(wire, D))
    <3> DEFINE n == Len(homeless)
               e(i) == Event("enter", homeless[i], m)
    <3>1. n \in Nat /\ \A i \in 1 .. n : e(i) \in Plain(wire, D)
      BY <2>3, <2>4
    <3>2. enters = [i \in 1 .. n |-> e(i)]
      BY <2>4
    <3> HIDE DEF n, e
    <3>3. [i \in 1 .. n |-> e(i)] \in Seq(Plain(wire, D))
      BY <3>1, IsASeq
    <3> QED
      BY <3>2, <3>3
  <2>6. first \in Seq(Plain(wire, D))
    BY GlobalEvents
  <2> HIDE DEF enters, first
  <2> QED
    BY <2>5, <2>6, ConcatProperties
<1> HIDE DEF first, enters
<1>3. Mapped' = Mapped
  BY <1>1 DEF Mapped
<1>4. LinkFits'
  BY <1>1, <1>2, <1>3, PlainSend
<1>5. CompositorFits'
  <2>1. places' \in [Mapped -> Monitors \union {None}]
    BY <1>1 DEF CompositorFits
  <2>2. monitors' \in Seq(Monitors)
    BY <1>1 DEF CompositorFits
  <2> QED
    BY <1>1, <1>3, <2>1, <2>2 DEF CompositorFits
<1> QED
  BY <1>4, <1>5

\* The compositor and the wire through a monitor that goes.
LEMMA UnplugFits ==
  ASSUME CompositorFits, LinkFits, NEW m \in ToSet(monitors), Unplug(m)
  PROVE  CompositorFits' /\ LinkFits'
<1> DEFINE rest  == RemoveFirst(monitors, m)
           moved == SetToSeq({w \in Mapped : places[w] = m})
           last  == <<Event("global_remove", None, m)>>
           moves(home) == [i \in DOMAIN moved |-> Leaves(moved[i]) \o Enters(moved[i], home)]
           D == DOMAIN list
<1>1. /\ monitors' = rest /\ UNCHANGED <<apps, focus, maps, bound, list>>
  BY DEF Unplug, clientVars
<1>2. PICK home \in Homes(rest) :
        /\ places' = [w \in Mapped |-> IF places[w] = m THEN home ELSE places[w]]
        /\ Send(FlattenSeq(moves(home)) \o last)
  BY DEF Unplug
<1>3. rest \in Seq(Monitors) /\ m \in Monitors
  BY RemoveFirstResult DEF CompositorFits, ToSet
<1> HIDE DEF rest
<1>4. home \in Monitors \union {None}
  BY <1>3 DEF Homes, ToSet
<1> DEFINE f == moves(home)
           evs == FlattenSeq(f) \o last
<1>5. bound => evs \in Seq(Plain(wire, D))
  <2> SUFFICES ASSUME bound PROVE evs \in Seq(Plain(wire, D))
    OBVIOUS
  <2> DEFINE S == {w \in Mapped : places[w] = m}
             P == Seq(Plain(wire, D))
  <2>1. IsFiniteSet(S) /\ S \subseteq Mapped
    BY MappedWindows, FS_Subset
  <2>2. moved \in Seq(S)
    <3> HIDE DEF S
    <3>1. Enumerates(S, SetToSeq(S))
      BY <2>1, SetToSeqEnumerates
    <3> QED
      BY <3>1 DEF Enumerates, S
  <2> HIDE DEF moved, S
  <2>3. ASSUME NEW w \in Mapped PROVE Leaves(w) \o Enters(w, home) \in P
    BY <1>4, MoveEvents DEF LinkFits
  <2>4. Len(moved) \in Nat /\ DOMAIN moved = 1 .. Len(moved)
        /\ \A i \in DOMAIN moved : moved[i] \in Mapped
    BY <2>1, <2>2
  <2>5. f \in Seq(P)
    <3> DEFINE n == Len(moved)
               e(i) == Leaves(moved[i]) \o Enters(moved[i], home)
    <3> HIDE DEF P
    <3>1. n \in Nat /\ \A i \in 1 .. n : e(i) \in P
      BY <2>3, <2>4
    <3>2. f = [i \in 1 .. n |-> e(i)]
      BY <2>4
    <3> HIDE DEF n, e, f
    <3>3. [i \in 1 .. n |-> e(i)] \in Seq(P)
      BY <3>1, IsASeq
    <3> QED
      BY <3>2, <3>3
  <2> HIDE DEF f
  <2>6. FlattenSeq(f) \in P
    BY <2>5, FlattenIs
  <2>7. last \in P
    BY <1>3, GlobalEvents
  <2> HIDE DEF last
  <2> QED
    BY <2>6, <2>7, ConcatProperties
<1>6. Send(evs)
  BY <1>2
<1> HIDE DEF evs, f, moves
<1>7. Mapped' = Mapped
  BY <1>1 DEF Mapped
<1>8. LinkFits'
  BY <1>1, <1>5, <1>6, <1>7, PlainSend
<1>9. CompositorFits'
  <2>1. places' \in [Mapped -> Monitors \union {None}]
    BY <1>2, <1>4 DEF CompositorFits
  <2> QED
    BY <1>1, <1>3, <1>7, <2>1 DEF CompositorFits
<1> QED
  BY <1>8, <1>9

\* Every step of the compositor keeps what the client may rely on.
LEMMA CompositorStep ==
  ASSUME CompositorFits, LinkFits, Compositor
  PROVE  CompositorFits' /\ LinkFits' /\ UNCHANGED clientVars
<1>1. ASSUME NEW app \in Apps, NEW m \in Homes(monitors), MapWindow(app, m)
      PROVE  CompositorFits' /\ LinkFits' /\ UNCHANGED clientVars
  BY <1>1, MapWindowFits DEF MapWindow
<1>2. ASSUME NEW w \in Mapped, Unmap(w)
      PROVE  CompositorFits' /\ LinkFits' /\ UNCHANGED clientVars
  BY <1>2, UnmapFits DEF Unmap
<1>3. ASSUME NEW w \in Mapped \union {None}, Focus(w)
      PROVE  CompositorFits' /\ LinkFits' /\ UNCHANGED clientVars
  BY <1>3, FocusFits DEF Focus
<1>4. ASSUME NEW w \in Mapped, NEW m \in ToSet(monitors), MoveWindow(w, m)
      PROVE  CompositorFits' /\ LinkFits' /\ UNCHANGED clientVars
  BY <1>4, MoveWindowFits DEF MoveWindow
<1>5. ASSUME NEW m \in Monitors, Plug(m)
      PROVE  CompositorFits' /\ LinkFits' /\ UNCHANGED clientVars
  BY <1>5, PlugFits DEF Plug
<1>6. ASSUME NEW m \in ToSet(monitors), Unplug(m)
      PROVE  CompositorFits' /\ LinkFits' /\ UNCHANGED clientVars
  BY <1>6, UnplugFits DEF Unplug
<1>7. ASSUME NEW w \in Mapped, NEW app \in Apps, Rename(w, app)
      PROVE  CompositorFits' /\ LinkFits' /\ UNCHANGED clientVars
  BY <1>7, RenameFits DEF Rename
<1> QED
  BY <1>1, <1>2, <1>3, <1>4, <1>5, <1>6, <1>7 DEF Compositor

-----------------------------------------------------------------------------
(***************************************************************************)
(* The invariant of the panel, handler by handler.                         *)
(***************************************************************************)
\* The client's list of windows and of outputs.
Entries == [app_id : Apps \union {None}, title : Values, output : Monitors \union {None},
            activated : Values, announced : BOOLEAN]

ListFits ==
  /\ \A w \in DOMAIN list : list[w] \in Entries
  /\ outputs \in Seq(Monitors)

\* The store has the windows that are announced.
StoreFits ==
  /\ toplevels \in Stores
  /\ DOMAIN toplevels = {w \in DOMAIN list : list[w].announced}

\* Every bar follows the store, and the pins on file are those of the one bar.
BarsFine(bs, st, file) ==
  /\ \A i \in DOMAIN bs : Fine(bs[i], st)
  /\ file \in Boxes
  /\ Len(bs) \in Nat /\ DOMAIN bs = 1 .. Len(bs)
  /\ Len(bs) = 1 => file = PinnedOrder(bs[1])

\* The inductive invariant.
PanelInv ==
  /\ CompositorFits
  /\ LinkFits
  /\ ListFits
  /\ StoreFits
  /\ BarsFine(bars, toplevels, pins_file)

\* The pins that are saved have each app once.
LEMMA PinnedOrderIsBox ==
  ASSUME NEW bar \in Bars
  PROVE  PinnedOrder(bar) \in Boxes
<1>1. bar.order \in Seq(Apps) /\ IsInjective(bar.order)
  BY DEF Bars, Boxes
<1>2. LET k == Kept(bar.order, bar.pinned)[Len(bar.order)] IN
      k \in Seq(Apps) /\ IsInjective(k)
  BY <1>1, KeptResult
<1> QED
  BY <1>2, PinnedOrderIs DEF Boxes

\* What is saved when the bars change is a list of pins.
LEMMA SavedIsBox ==
  ASSUME NEW file \in Boxes, NEW before, NEW after,
         \A i \in DOMAIN before : after[i] \in Bars
  PROVE  SavedBy(file, before, after) \in Boxes
<1> DEFINE ended == {i \in DOMAIN before : Dragging(before[i]) /\ after[i].drag = NoDrag}
<1>1. CASE ended = {}
  BY <1>1 DEF SavedBy
<1>2. CASE ended # {}
  <2>1. (CHOOSE i \in ended : TRUE) \in ended
    BY <1>2
  <2>2. SavedBy(file, before, after) = PinnedOrder(after[CHOOSE i \in ended : TRUE])
    BY <1>2 DEF SavedBy
  <2> QED
    BY <2>1, <2>2, PinnedOrderIsBox
<1> QED
  BY <1>1, <1>2

\* A list made with DOMAIN 1 .. n has length n.
LEMMA LengthIs ==
  ASSUME NEW n \in Nat, NEW s, s = [i \in 1 .. n |-> s[i]]
  PROVE  Len(s) = n /\ DOMAIN s = 1 .. n
<1> DEFINE S == {s[i] : i \in 1 .. n}
<1>1. \A i \in 1 .. n : s[i] \in S
  OBVIOUS
<1> HIDE DEF S
<1>2. s \in [1 .. n -> S]
  BY <1>1
<1> QED
  BY <1>2

\* Each bar takes the change: what is saved are the pins of a bar whose drag ends.
LEMMA EachBarIsFine ==
  ASSUME NEW bs, NEW st, NEW file, BarsFine(bs, st, file), NEW new, NEW after,
         new = [i \in DOMAIN bs |-> new[i]],
         \A i \in DOMAIN bs : Fine(new[i], after) /\ SameBar(bs[i], new[i])
  PROVE  BarsFine(new, after, SavedBy(file, bs, new))
<1>1. /\ Len(bs) \in Nat /\ DOMAIN bs = 1 .. Len(bs) /\ file \in Boxes
      /\ Len(bs) = 1 => file = PinnedOrder(bs[1])
  BY DEF BarsFine
<1>2. Len(new) = Len(bs) /\ DOMAIN new = DOMAIN bs
  BY <1>1, LengthIs
<1>3. SavedBy(file, bs, new) \in Boxes
  BY <1>1, SavedIsBox DEF Fine, GoodBar
<1>4. ASSUME Len(bs) = 1 PROVE SavedBy(file, bs, new) = PinnedOrder(new[1])
  <2> DEFINE ended == {i \in DOMAIN bs : Dragging(bs[i]) /\ new[i].drag = NoDrag}
  <2>1. DOMAIN bs = {1}
    BY <1>1, <1>4
  <2>2. CASE ended = {}
    <3>1. PinnedOrder(new[1]) = PinnedOrder(bs[1])
      BY <2>1, <2>2 DEF SameBar
    <3> QED
      BY <1>1, <1>4, <2>2, <3>1 DEF SavedBy
  <2>3. CASE ended # {}
    <3>1. (CHOOSE i \in ended : TRUE) = 1
      BY <2>1, <2>3
    <3> QED
      BY <2>3, <3>1 DEF SavedBy
  <2> QED
    BY <2>2, <2>3
<1> QED
  BY <1>1, <1>2, <1>3, <1>4 DEF BarsFine

\* The first event, as the client finds it.
LEMMA HeadFits ==
  ASSUME CompositorFits, LinkFits, wire # <<>>
  PROVE  LET e == Head(wire) IN
         /\ e \in Events
         /\ e.kind = "toplevel" => e.window \in Windows /\ e.window \notin DOMAIN list
         /\ e.kind \in Details => e.window \in DOMAIN list /\ e.window \in Windows
         /\ e.kind = "app_id" => e.value \in Apps
         /\ e.kind = "global" => e.value \in Monitors
<1>1. wire \in Seq(Events) /\ 1 \in DOMAIN wire /\ Head(wire) = wire[1] /\ wire[1] \in Events
  BY TailIs DEF LinkFits, WireFits
<1>2. EventFits(wire, DOMAIN list, maps, 1)
  BY <1>1 DEF LinkFits, WireFits
<1>3. \A kind, w : ~Before(wire, 1, kind, w)
  BY DEF Before
<1>4. 1 .. maps \subseteq Windows /\ DOMAIN list \subseteq 1 .. maps
  BY MappedWindows DEF LinkFits
<1> QED
  BY <1>1, <1>2, <1>3, <1>4 DEF EventFits

\* What is left to take when the head of the wire is dispatched.
LEMMA DispatchFits ==
  ASSUME CompositorFits, LinkFits, NEW kind, Dispatch(kind),
         DOMAIN list' = After(Head(wire), DOMAIN list)
  PROVE  CompositorFits' /\ LinkFits'
<1> DEFINE D == DOMAIN list
           e == Head(wire)
<1>1. /\ bound /\ wire # <<>> /\ wire' = Tail(wire) /\ bound' = bound
      /\ UNCHANGED <<apps, named, places, focus, monitors, maps, changes>>
  BY DEF Dispatch, compositorVars
<1>2. CompositorFits' /\ Mapped' = Mapped
  BY <1>1 DEF CompositorFits, Mapped
<1>3. /\ WireFits(Tail(wire), After(e, D), maps)
      /\ \A w : Alive(wire, D, w) => Alive(Tail(wire), After(e, D), w)
  BY <1>1, TailFits DEF LinkFits
<1>4. After(e, D) \subseteq 1 .. maps
  <2>1. e.kind = "toplevel" => e.window \in 1 .. maps
    <3>1. 1 \in DOMAIN wire /\ e = wire[1]
      BY <1>1, TailIs DEF LinkFits, WireFits
    <3> QED
      BY <3>1 DEF LinkFits, WireFits, EventFits
  <2> QED
    BY <2>1 DEF After, LinkFits
<1> HIDE DEF e
<1>5. LinkFits'
  BY <1>1, <1>2, <1>3, <1>4 DEF LinkFits, e
<1> QED
  BY <1>2, <1>5

\* A window is announced, or it is not the time yet.
LEMMA OnNewFits ==
  ASSUME PanelInv, NEW w \in DOMAIN list, NEW e \in Entries,
         e.announced = list[w].announced, e.app_id = list[w].app_id \/ e.app_id \in Apps,
         list' = [list EXCEPT ![w] = Announced(e)], outputs' = outputs, OnNew(w)
  PROVE  ListFits' /\ StoreFits' /\ BarsFine(bars', toplevels', pins_file')
<1> DEFINE a == Announced(e)
<1>1. /\ a \in Entries /\ a.app_id = e.app_id
      /\ a.announced <=> list[w].announced \/ (e.app_id # None /\ e.title # None)
  BY DEF Announced, Entries
<1>2. /\ DOMAIN list' = DOMAIN list /\ list'[w] = a
      /\ \A v \in DOMAIN list \ {w} : list'[v] = list[v]
  OBVIOUS
<1>3. ListFits'
  BY <1>1, <1>2 DEF PanelInv, ListFits
<1>4. w \in Windows
  BY MappedWindows DEF PanelInv, LinkFits
<1>5. CASE list'[w].announced /\ ~list[w].announced
  <2> DEFINE t == [app_id |-> a.app_id, activated |-> FALSE, output |-> None]
  <2>1. /\ toplevels' = Extend(toplevels, w, t)
        /\ bars' = [i \in DOMAIN bars |-> BarAdded(bars[i], w, t)]
        /\ pins_file' = SavedBy(pins_file, bars, bars')
    BY <1>2, <1>5 DEF OnNew, EachBar
  <2>2. t \in Toplevel
    BY <1>1, <1>2, <1>5 DEF Entries, Toplevel
  <2> HIDE DEF t
  <2>3. w \notin DOMAIN toplevels /\ toplevels \in Stores
    BY <1>5 DEF PanelInv, StoreFits
  <2>4. StoreWith(toplevels, w, t, toplevels')
    <3>1. DOMAIN toplevels \in SUBSET Windows /\ toplevels \in [DOMAIN toplevels -> Toplevel]
      BY <2>3, StoresAreFinite
    <3>2. /\ Extend(toplevels, w, t) \in [DOMAIN toplevels \union {w} -> Toplevel]
          /\ DOMAIN toplevels \union {w} \in SUBSET Windows
      BY <1>4, <2>2, <3>1 DEF Extend
    <3> QED
      BY <2>1, <3>2 DEF StoreWith, Stores, Extend
  <2>5. ASSUME NEW i \in DOMAIN bars
        PROVE  Fine(bars'[i], toplevels') /\ SameBar(bars[i], bars'[i])
    <3>1. Fine(bars[i], toplevels)
      BY DEF PanelInv, BarsFine
    <3>2. bars'[i] = BarAdded(bars[i], w, t)
      BY <2>1
    <3> QED
      BY <1>4, <2>2, <2>3, <2>4, <3>1, <3>2, AddedFollows
  <2>6. BarsFine(bars', toplevels', pins_file')
    <3>1. bars' = [i \in DOMAIN bars |-> bars'[i]]
      BY <2>1
    <3>2. BarsFine(bars, toplevels, pins_file)
      BY DEF PanelInv
    <3> QED
      BY <2>1, <2>5, <3>1, <3>2, EachBarIsFine
  <2>7. StoreFits'
    BY <1>2, <1>5, <2>4 DEF PanelInv, StoreFits, StoreWith
  <2> QED
    BY <1>3, <2>6, <2>7
<1>6. CASE ~(list'[w].announced /\ ~list[w].announced)
  <2>1. UNCHANGED <<toplevels, bars, pins_file>>
    BY <1>6 DEF OnNew, barVars
  <2>2. \A v \in DOMAIN list : list'[v].announced <=> list[v].announced
    BY <1>1, <1>2, <1>6 DEF PanelInv, ListFits, Entries
  <2>3. StoreFits'
    BY <1>2, <2>1, <2>2 DEF PanelInv, StoreFits
  <2> QED
    BY <1>3, <2>1, <2>3 DEF PanelInv
<1> QED
  BY <1>5, <1>6

\* The client hears of a new window: no bar has it yet.
LEMMA OnToplevelFits ==
  ASSUME PanelInv, OnToplevel
  PROVE  PanelInv'
<1> DEFINE e == Head(wire)
           w == e.window
<1>1. /\ wire # <<>> /\ e.kind = "toplevel" /\ Dispatch("toplevel")
      /\ list' = Extend(list, w, NewWindow)
      /\ UNCHANGED <<outputs, toplevels, bars, pins_file>>
  BY DEF OnToplevel, Dispatch, barVars
<1>2. w \in Windows /\ w \notin DOMAIN list
  BY <1>1, HeadFits DEF PanelInv
<1>3. /\ DOMAIN list' = DOMAIN list \union {w} /\ list'[w] = NewWindow
      /\ \A v \in DOMAIN list : list'[v] = list[v]
  BY <1>1, <1>2 DEF Extend
<1>4. CompositorFits' /\ LinkFits'
  <2>1. DOMAIN list' = After(e, DOMAIN list)
    BY <1>1, <1>3 DEF After
  <2> QED
    BY <1>1, <2>1, DispatchFits DEF PanelInv
<1>5. NewWindow \in Entries /\ NewWindow.announced = FALSE
  BY DEF NewWindow, Entries, Values
<1>6. ListFits' /\ StoreFits'
  BY <1>1, <1>3, <1>5 DEF PanelInv, ListFits, StoreFits
<1> QED
  BY <1>1, <1>4, <1>6 DEF PanelInv

\* A title announces the window or changes nothing a bar shows.
LEMMA OnTitleFits ==
  ASSUME PanelInv, OnTitle
  PROVE  PanelInv'
<1> DEFINE w == Head(wire).window
           v == Head(wire).value
           e == [list[w] EXCEPT !.title = v]
<1>1. /\ wire # <<>> /\ Head(wire).kind = "title" /\ Dispatch("title")
      /\ list' = SetTitle(w, v) /\ OnNew(w) /\ outputs' = outputs
  BY DEF OnTitle, Dispatch
<1>2. w \in DOMAIN list /\ w \in Windows /\ Head(wire) \in Events
  BY <1>1, HeadFits DEF PanelInv, Details
<1>3. list' = [list EXCEPT ![w] = Announced(e)]
  BY <1>1, <1>2 DEF SetTitle
<1>4. e \in Entries /\ e.announced = list[w].announced /\ e.app_id = list[w].app_id
  BY <1>2 DEF PanelInv, ListFits, Entries, Events
<1> HIDE DEF w, v, e
<1>5. ListFits' /\ StoreFits' /\ BarsFine(bars', toplevels', pins_file')
  BY <1>1, <1>2, <1>3, <1>4, OnNewFits
<1>6. CompositorFits' /\ LinkFits'
  <2>1. DOMAIN list' = After(Head(wire), DOMAIN list)
    BY <1>1, <1>3 DEF After
  <2> QED
    BY <1>1, <2>1, DispatchFits DEF PanelInv
<1> QED
  BY <1>5, <1>6 DEF PanelInv

\* An app id announces the window.
LEMMA OnAppIdFits ==
  ASSUME PanelInv, OnAppId
  PROVE  PanelInv'
<1> DEFINE w == Head(wire).window
           v == Head(wire).value
           e == [list[w] EXCEPT !.app_id = v]
<1>1. /\ wire # <<>> /\ Head(wire).kind = "app_id" /\ Dispatch("app_id")
      /\ list' = SetAppId(w, v) /\ OnNew(w) /\ outputs' = outputs
  BY DEF OnAppId, Dispatch
<1>2. w \in DOMAIN list /\ w \in Windows /\ v \in Apps
  BY <1>1, HeadFits DEF PanelInv, Details
<1>3. list' = [list EXCEPT ![w] = Announced(e)]
  BY <1>1, <1>2 DEF SetAppId
<1>4. e \in Entries /\ e.announced = list[w].announced /\ e.app_id \in Apps
  BY <1>2 DEF PanelInv, ListFits, Entries
<1> HIDE DEF w, v, e
<1>5. ListFits' /\ StoreFits' /\ BarsFine(bars', toplevels', pins_file')
  BY <1>1, <1>2, <1>3, <1>4, OnNewFits
<1>6. CompositorFits' /\ LinkFits'
  <2>1. DOMAIN list' = After(Head(wire), DOMAIN list)
    BY <1>1, <1>3 DEF After
  <2> QED
    BY <1>1, <2>1, DispatchFits DEF PanelInv
<1> QED
  BY <1>5, <1>6 DEF PanelInv

\* The bars through the callback for the focused window.
LEMMA OnFocusFits ==
  ASSUME PanelInv, NEW id, OnFocus(id)
  PROVE  toplevels' \in Stores /\ DOMAIN toplevels' = DOMAIN toplevels
         /\ BarsFine(bars', toplevels', pins_file')
<1>1. /\ toplevels' = [k \in DOMAIN toplevels |-> [toplevels[k] EXCEPT !.activated = (k = id)]]
      /\ bars' = [i \in DOMAIN bars |-> BarFocused(bars[i], id)]
      /\ pins_file' = SavedBy(pins_file, bars, bars')
  BY DEF OnFocus, EachBar
<1>2. Refocused(toplevels, toplevels')
  <2> DEFINE t(k) == [toplevels[k] EXCEPT !.activated = (k = id)]
  <2>1. DOMAIN toplevels \in SUBSET Windows /\ toplevels \in [DOMAIN toplevels -> Toplevel]
    BY StoresAreFinite DEF PanelInv, StoreFits
  <2>2. ASSUME NEW k \in DOMAIN toplevels
        PROVE  /\ t(k) \in Toplevel /\ t(k).app_id = toplevels[k].app_id
               /\ t(k).output = toplevels[k].output
    <3>1. toplevels[k] \in Toplevel
      BY <2>1
    <3>2. (k = id) \in BOOLEAN
      OBVIOUS
    <3> DEFINE b == (k = id)
    <3>3. t(k) = [toplevels[k] EXCEPT !.activated = b]
      OBVIOUS
    <3> HIDE DEF b, t
    <3>4. b \in BOOLEAN
      BY DEF b
    <3> QED
      BY <3>1, <3>3, <3>4 DEF Toplevel
  <2> HIDE DEF t
  <2>3. toplevels' = [k \in DOMAIN toplevels |-> t(k)]
    BY <1>1 DEF t
  <2>4. toplevels' \in [DOMAIN toplevels -> Toplevel]
    BY <2>2, <2>3
  <2> QED
    BY <2>1, <2>2, <2>3, <2>4 DEF Refocused, Stores
<1>3. ASSUME NEW i \in DOMAIN bars
      PROVE  Fine(bars'[i], toplevels') /\ SameBar(bars[i], bars'[i])
  <2>1. Fine(bars[i], toplevels) /\ toplevels \in Stores
    BY DEF PanelInv, BarsFine, StoreFits
  <2>2. bars'[i] = BarFocused(bars[i], id)
    BY <1>1
  <2> QED
    BY <1>2, <2>1, <2>2, FocusFollows
<1>4. BarsFine(bars', toplevels', pins_file')
  <2>1. bars' = [i \in DOMAIN bars |-> bars'[i]]
    BY <1>1
  <2>2. BarsFine(bars, toplevels, pins_file)
    BY DEF PanelInv
  <2> QED
    BY <1>1, <1>3, <2>1, <2>2, EachBarIsFine
<1> QED
  BY <1>2, <1>4 DEF Refocused

\* The bars through a state event.
LEMMA OnStateFits ==
  ASSUME PanelInv, OnState
  PROVE  PanelInv'
<1> DEFINE w == Head(wire).window
           v == Head(wire).value
<1>1. /\ wire # <<>> /\ Head(wire).kind = "state" /\ Dispatch("state")
      /\ list' = [list EXCEPT ![w].activated = v] /\ outputs' = outputs
      /\ \/ UNCHANGED barVars
         \/ \E id : OnFocus(id)
  BY DEF OnState, Dispatch
<1>2. v \in Values
  BY <1>1, HeadFits DEF PanelInv, Events
<1> HIDE DEF w, v
<1>3. /\ DOMAIN list' = DOMAIN list
      /\ \A x \in DOMAIN list : list'[x] \in Entries /\ list'[x].announced = list[x].announced
  BY <1>1, <1>2 DEF PanelInv, ListFits, Entries
<1>4. CompositorFits' /\ LinkFits'
  <2>1. DOMAIN list' = After(Head(wire), DOMAIN list)
    BY <1>1, <1>3 DEF After
  <2> QED
    BY <1>1, <2>1, DispatchFits DEF PanelInv
<1>5. ListFits'
  BY <1>1, <1>3 DEF PanelInv, ListFits
<1>6. /\ toplevels' \in Stores /\ DOMAIN toplevels' = DOMAIN toplevels
      /\ BarsFine(bars', toplevels', pins_file')
  BY <1>1, OnFocusFits DEF barVars, PanelInv, StoreFits
<1>7. StoreFits'
  BY <1>3, <1>6 DEF PanelInv, StoreFits
<1> QED
  BY <1>4, <1>5, <1>6, <1>7 DEF PanelInv

\* The bars through the callback for a window's output.
LEMMA OnOutputFits ==
  ASSUME PanelInv, NEW w \in DOMAIN toplevels, NEW entered \in BOOLEAN,
         list'[w].output \in Monitors \union {None}, OnOutput(w, entered)
  PROVE  toplevels' \in Stores /\ DOMAIN toplevels' = DOMAIN toplevels
         /\ BarsFine(bars', toplevels', pins_file')
<1> DEFINE o == Output(toplevels[w], list'[w].output, entered)
           t == [toplevels[w] EXCEPT !.output = o]
<1>1. /\ toplevels' = [toplevels EXCEPT ![w].output = o]
  BY DEF OnOutput
<1>2. PICK ends \in BOOLEAN :
        /\ bars' = [i \in DOMAIN bars |-> BarOutputChanged(bars[i], w, toplevels'[w], ends)]
        /\ pins_file' = SavedBy(pins_file, bars, bars')
  BY DEF OnOutput, EachBar
<1>3. /\ DOMAIN toplevels \in SUBSET Windows /\ toplevels \in [DOMAIN toplevels -> Toplevel]
      /\ toplevels \in Stores
  BY StoresAreFinite DEF PanelInv, StoreFits
<1>4. o \in Monitors \union {None}
  BY <1>3 DEF Output, Toplevel
<1> HIDE DEF o
<1>5. t \in Toplevel /\ t.app_id = toplevels[w].app_id
  BY <1>3, <1>4 DEF Toplevel
<1>6. toplevels' = [toplevels EXCEPT ![w] = t]
  BY <1>1
<1> HIDE DEF t
<1>7. StoreWith(toplevels, w, t, toplevels')
  <2>1. toplevels' \in [DOMAIN toplevels -> Toplevel]
    BY <1>3, <1>5, <1>6
  <2> QED
    BY <1>3, <1>6, <2>1 DEF StoreWith, Stores
<1>8. ASSUME NEW i \in DOMAIN bars
      PROVE  Fine(bars'[i], toplevels') /\ SameBar(bars[i], bars'[i])
  <2>1. Fine(bars[i], toplevels)
    BY DEF PanelInv, BarsFine
  <2>2. bars'[i] = BarOutputChanged(bars[i], w, t, ends)
    BY <1>2, <1>7 DEF StoreWith
  <2> QED
    BY <1>3, <1>5, <1>7, <2>1, <2>2, OutputFollows
<1>9. BarsFine(bars', toplevels', pins_file')
  <2>1. bars' = [i \in DOMAIN bars |-> bars'[i]]
    BY <1>2
  <2>2. BarsFine(bars, toplevels, pins_file)
    BY DEF PanelInv
  <2> QED
    BY <1>2, <1>8, <2>1, <2>2, EachBarIsFine
<1> QED
  BY <1>7, <1>9 DEF StoreWith

\* The bars through an enter or a leave event.
LEMMA OutputEventFits ==
  ASSUME PanelInv, NEW kind \in {"enter", "leave"}, NEW entered \in BOOLEAN,
         OutputEvent(kind, entered)
  PROVE  PanelInv'
<1> DEFINE w == Head(wire).window
           m == Head(wire).value
           D == DOMAIN list
<1>1. /\ wire # <<>> /\ Head(wire).kind = kind /\ Dispatch(kind) /\ outputs' = outputs
      /\ \/ Known(m) /\ list' = SetOutput(w, m, entered)
         \/ ~Known(m) /\ list' = list
      /\ IF Known(m) /\ OutputCallback(w, m, entered)
           THEN OnOutput(w, entered)
           ELSE UNCHANGED <<toplevels, bars, pins_file>>
  BY DEF OutputEvent, Dispatch, barVars
<1>2. w \in D
  BY <1>1, HeadFits DEF PanelInv, Details
<1> HIDE DEF w, m
<1>3. Known(m) => m \in Monitors
  BY DEF Known, PanelInv, ListFits, ToSet
<1>4. /\ DOMAIN list' = D
      /\ \A x \in D : list'[x] \in Entries /\ list'[x].announced = list[x].announced
  <2>1. \A x \in D : list[x] \in Entries
    BY DEF PanelInv, ListFits
  <2>2. CASE list' = list
    BY <2>1, <2>2
  <2>3. CASE Known(m) /\ list' = SetOutput(w, m, entered)
    <3> DEFINE o == IF entered THEN m ELSE IF list[w].output = m THEN None ELSE list[w].output
    <3>1. o \in Monitors \union {None}
      BY <1>2, <1>3, <2>1, <2>3 DEF Entries
    <3>2. list' = [list EXCEPT ![w] = [list[w] EXCEPT !.output = o]]
      BY <1>2, <2>3 DEF SetOutput
    <3> HIDE DEF o
    <3>3. [list[w] EXCEPT !.output = o] \in Entries
          /\ [list[w] EXCEPT !.output = o].announced = list[w].announced
      BY <1>2, <2>1, <3>1 DEF Entries
    <3> QED
      BY <1>2, <2>1, <3>2, <3>3
  <2> QED
    BY <1>1, <2>2, <2>3
<1>5. CompositorFits' /\ LinkFits'
  <2>1. DOMAIN list' = After(Head(wire), DOMAIN list)
    BY <1>1, <1>4 DEF After
  <2> QED
    BY <1>1, <2>1, DispatchFits DEF PanelInv
<1>6. ListFits'
  BY <1>1, <1>4 DEF PanelInv, ListFits
<1>7. /\ toplevels' \in Stores /\ DOMAIN toplevels' = DOMAIN toplevels
      /\ BarsFine(bars', toplevels', pins_file')
  <2>1. CASE Known(m) /\ OutputCallback(w, m, entered)
    <3>1. list[w].announced /\ OnOutput(w, entered)
      BY <1>1, <2>1 DEF OutputCallback
    <3>2. w \in DOMAIN toplevels
      BY <1>2, <3>1 DEF PanelInv, StoreFits
    <3>3. list'[w].output \in Monitors \union {None}
      BY <1>2, <1>4 DEF Entries
    <3> QED
      BY <3>1, <3>2, <3>3, OnOutputFits
  <2>2. CASE ~(Known(m) /\ OutputCallback(w, m, entered))
    BY <1>1, <2>2 DEF PanelInv, StoreFits
  <2> QED
    BY <2>1, <2>2
<1>8. StoreFits'
  BY <1>4, <1>7 DEF PanelInv, StoreFits
<1> QED
  BY <1>5, <1>6, <1>7, <1>8 DEF PanelInv

\* The bars through a closed window.
LEMMA OnClosedFits ==
  ASSUME PanelInv, OnClosed
  PROVE  PanelInv'
<1> DEFINE w == Head(wire).window
           D == DOMAIN list
<1>1. /\ wire # <<>> /\ Head(wire).kind = "closed" /\ Dispatch("closed")
      /\ list' = Omit(list, w) /\ outputs' = outputs
      /\ \/ /\ toplevels' = Omit(toplevels, w)
            /\ \E ends \in BOOLEAN : EachBar(LAMBDA bar : BarRemoved(bar, w, ends))
         \/ ~list[w].announced /\ UNCHANGED <<toplevels, bars, pins_file>>
  BY DEF OnClosed, Dispatch, barVars
<1> HIDE DEF w
<1>2. DOMAIN list' = D \ {w} /\ \A x \in D \ {w} : list'[x] = list[x]
  BY <1>1 DEF Omit
<1>3. CompositorFits' /\ LinkFits'
  <2>1. DOMAIN list' = After(Head(wire), DOMAIN list)
    BY <1>1, <1>2 DEF After, w
  <2> QED
    BY <1>1, <2>1, DispatchFits DEF PanelInv
<1>4. ListFits'
  BY <1>1, <1>2 DEF PanelInv, ListFits
<1>5. CASE /\ toplevels' = Omit(toplevels, w)
           /\ \E ends \in BOOLEAN : EachBar(LAMBDA bar : BarRemoved(bar, w, ends))
  <2>1. PICK ends \in BOOLEAN :
          /\ bars' = [i \in DOMAIN bars |-> BarRemoved(bars[i], w, ends)]
          /\ pins_file' = SavedBy(pins_file, bars, bars')
    BY <1>5 DEF EachBar
  <2>2. /\ DOMAIN toplevels \in SUBSET Windows /\ toplevels \in [DOMAIN toplevels -> Toplevel]
        /\ toplevels \in Stores
    BY StoresAreFinite DEF PanelInv, StoreFits
  <2>3. StoreWithout(toplevels, w, toplevels')
    <3>1. /\ Omit(toplevels, w) \in [DOMAIN toplevels \ {w} -> Toplevel]
          /\ DOMAIN toplevels \ {w} \in SUBSET Windows
      BY <2>2 DEF Omit
    <3> QED
      BY <1>5, <3>1 DEF StoreWithout, Stores, Omit
  <2>4. ASSUME NEW i \in DOMAIN bars
        PROVE  Fine(bars'[i], toplevels') /\ SameBar(bars[i], bars'[i])
    <3>1. Fine(bars[i], toplevels)
      BY DEF PanelInv, BarsFine
    <3>2. bars'[i] = BarRemoved(bars[i], w, ends)
      BY <2>1
    <3> QED
      BY <2>2, <2>3, <3>1, <3>2, RemovedFollows
  <2>5. BarsFine(bars', toplevels', pins_file')
    <3>1. bars' = [i \in DOMAIN bars |-> bars'[i]]
      BY <2>1
    <3>2. BarsFine(bars, toplevels, pins_file)
      BY DEF PanelInv
    <3> QED
      BY <2>1, <2>4, <3>1, <3>2, EachBarIsFine
  <2>6. StoreFits'
    BY <1>2, <2>3 DEF PanelInv, StoreFits, StoreWithout
  <2> QED
    BY <1>3, <1>4, <2>5, <2>6 DEF PanelInv
<1>6. CASE ~list[w].announced /\ UNCHANGED <<toplevels, bars, pins_file>>
  <2>1. StoreFits'
    BY <1>2, <1>6 DEF PanelInv, StoreFits
  <2> QED
    BY <1>3, <1>4, <1>6, <2>1 DEF PanelInv
<1> QED
  BY <1>1, <1>5, <1>6

\* The panels as they are built follow the store.
LEMMA BuiltIsFine ==
  ASSUME NEW ms \in Seq(Monitors), NEW file \in Boxes, NEW st \in Stores
  PROVE  BarsFine(BuildWindows(ms, file, st), st, file)
<1> DEFINE bs == BuildWindows(ms, file, st)
<1>1. CASE ~MultiMonitor \/ ms = <<>>
  <2> DEFINE bar == NewBar(None, TRUE, file, st)
  <2>1. bs = <<bar>>
    BY <1>1 DEF BuildWindows
  <2>2. Fine(bar, st) /\ PinnedOrder(bar) = file
    <3>1. NewBarOf(None, TRUE, file, st, bar)
      BY NewBarIsFine, Zenon
    <3> QED
      BY <3>1, Zenon DEF NewBarOf
  <2> HIDE DEF bar, bs
  <2>3. Len(bs) = 1 /\ DOMAIN bs = 1 .. 1 /\ bs[1] = bar /\ \A i \in 1 .. 1 : i = 1
    BY <2>1
  <2>4. BarsFine(bs, st, file)
    BY <2>2, <2>3 DEF BarsFine
  <2> QED
    BY <2>4 DEF bs
<1>2. CASE ~(~MultiMonitor \/ ms = <<>>)
  <2> DEFINE bar(i) == NewBar(IF PerMonitorApps THEN ms[i] ELSE None, i = 1, file, st)
             n == Len(ms)
  <2>1. bs = [i \in 1 .. n |-> bar(i)] /\ n \in Nat
    BY <1>2 DEF BuildWindows
  <2>2. ASSUME NEW i \in 1 .. n PROVE Fine(bar(i), st) /\ PinnedOrder(bar(i)) = file
    <3> DEFINE on  == IF PerMonitorApps THEN ms[i] ELSE None
               one == (i = 1)
    <3>1. on \in Monitors \union {None} /\ one \in BOOLEAN
      OBVIOUS
    <3> HIDE DEF on, one
    <3>2. bar(i) = NewBar(on, one, file, st)
      BY DEF on, one
    <3> HIDE DEF bar
    <3>3. NewBarOf(on, one, file, st, NewBar(on, one, file, st))
      BY <3>1, NewBarIsFine, Zenon
    <3> QED
      BY <3>2, <3>3, Zenon DEF NewBarOf
  <2> HIDE DEF bar, bs, n
  <2>3. bs = [i \in 1 .. n |-> bs[i]] /\ \A i \in 1 .. n : bs[i] = bar(i)
    BY <2>1
  <2>4. Len(bs) = n /\ DOMAIN bs = 1 .. n
    BY <2>1, <2>3, LengthIs
  <2>5. n = 1 => bs[1] = bar(1) /\ PinnedOrder(bar(1)) = file
    BY <2>1, <2>2, <2>3
  <2>6. BarsFine(bs, st, file)
    BY <2>1, <2>2, <2>3, <2>4, <2>5 DEF BarsFine
  <2> QED
    BY <2>6 DEF bs
<1> QED
  BY <1>1, <1>2

\* The bars built anew for the monitors follow the store.
LEMMA RebuildFits ==
  ASSUME PanelInv, NEW ms \in Seq(Monitors), NEW ends \in BOOLEAN,
         RebuildWindows(ms, ends), toplevels' = toplevels
  PROVE  BarsFine(bars', toplevels', pins_file')
<1> DEFINE left == [i \in DOMAIN bars |->
                      IF ends /\ Dragging(bars[i]) THEN Dropped(bars[i]) ELSE bars[i]]
           file == SavedBy(pins_file, bars, left)
<1>1. BarsFine(bars, toplevels, pins_file) /\ toplevels \in Stores
  BY DEF PanelInv, StoreFits
<1>2. CASE MultiMonitor
  <2>1. bars' = BuildWindows(ms, file, toplevels) /\ pins_file' = file
    BY <1>2 DEF RebuildWindows
  <2>2. \A i \in DOMAIN bars : left[i] \in Bars
    <3> SUFFICES ASSUME NEW i \in DOMAIN bars PROVE left[i] \in Bars
      OBVIOUS
    <3>1. bars[i] \in Bars /\ DragFits(bars[i])
      BY <1>1 DEF BarsFine, Fine, GoodBar
    <3>2. Dragging(bars[i]) => Dropped(bars[i]) \in Bars
      BY <3>1, DroppedKeeps
    <3> QED
      BY <3>1, <3>2
  <2> HIDE DEF left
  <2>3. file \in Boxes
    BY <1>1, <2>2, SavedIsBox DEF BarsFine
  <2> HIDE DEF file
  <2> QED
    BY <1>1, <2>1, <2>3, BuiltIsFine
<1>3. CASE ~MultiMonitor
  <2>1. UNCHANGED <<bars, pins_file>>
    BY <1>3 DEF RebuildWindows
  <2> QED
    BY <1>1, <2>1
<1> QED
  BY <1>2, <1>3

\* The bars through a monitor that comes or goes.
LEMMA OnGlobalFits ==
  ASSUME PanelInv, OnGlobal \/ OnGlobalRemove
  PROVE  PanelInv'
<1>1. /\ wire # <<>> /\ Head(wire).kind \in {"global", "global_remove"}
      /\ Dispatch("global") \/ Dispatch("global_remove")
      /\ list' = list /\ toplevels' = toplevels
      /\ \E ends \in BOOLEAN : RebuildWindows(outputs', ends)
  BY DEF OnGlobal, OnGlobalRemove, Dispatch
<1>2. outputs' \in Seq(Monitors)
  <2>1. CASE OnGlobal
    <3>1. Head(wire).value \in Monitors /\ outputs' = Append(outputs, Head(wire).value)
      BY <2>1, HeadFits DEF OnGlobal, Dispatch, PanelInv
    <3> QED
      BY <3>1 DEF PanelInv, ListFits
  <2>2. CASE OnGlobalRemove
    <3>1. outputs' = RemoveFirst(outputs, Head(wire).value)
      BY <2>2 DEF OnGlobalRemove
    <3> QED
      BY <3>1, RemoveFirstResult DEF PanelInv, ListFits
  <2> QED
    BY <2>1, <2>2
<1>3. CompositorFits' /\ LinkFits'
  <2>1. DOMAIN list' = After(Head(wire), DOMAIN list)
    BY <1>1 DEF After
  <2> QED
    BY <1>1, <2>1, DispatchFits DEF PanelInv
<1>4. ListFits' /\ StoreFits'
  BY <1>1, <1>2 DEF PanelInv, ListFits, StoreFits
<1>5. BarsFine(bars', toplevels', pins_file')
  BY <1>1, <1>2, RebuildFits
<1> QED
  BY <1>3, <1>4, <1>5 DEF PanelInv

\* The first bars follow the store of the windows that are told at the start.
LEMMA BindFits ==
  ASSUME PanelInv, Bind
  PROVE  PanelInv'
<1> DEFINE entry(w) == [app_id |-> apps[w], title |-> apps[w], output |-> places[w],
                        activated |-> (w = focus), announced |-> TRUE]
           t(w) == [app_id |-> apps[w], activated |-> (w = focus), output |-> places[w]]
<1>1. /\ ~bound /\ bound' = TRUE /\ outputs' = monitors
      /\ list' = [w \in Mapped |-> entry(w)]
      /\ toplevels' = [w \in Mapped |-> t(w)]
      /\ bars' = BuildWindows(monitors, pins_file, toplevels')
      /\ UNCHANGED <<apps, places, focus, monitors, maps, wire, pins_file>>
  BY DEF Bind, compositorVars
<1>2. ASSUME NEW w \in Mapped
      PROVE  entry(w) \in Entries /\ entry(w).announced = TRUE /\ t(w) \in Toplevel
  <2> DEFINE b == (w = focus)
  <2>1. b \in BOOLEAN
    OBVIOUS
  <2> HIDE DEF b
  <2>2. apps[w] \in Apps /\ places[w] \in Monitors \union {None}
    BY DEF PanelInv, CompositorFits
  <2>3. /\ [app_id |-> apps[w], title |-> apps[w], output |-> places[w],
            activated |-> b, announced |-> TRUE] \in Entries
        /\ [app_id |-> apps[w], activated |-> b, output |-> places[w]] \in Toplevel
    BY <2>1, <2>2 DEF Entries, Values, Toplevel
  <2> QED
    BY <2>3 DEF b
<1> HIDE DEF entry, t
<1>3. Mapped \in SUBSET Windows /\ Mapped' = Mapped
  BY <1>1, MappedWindows DEF PanelInv, Mapped
<1>4. CompositorFits'
  BY <1>1, <1>3 DEF PanelInv, CompositorFits
<1>5. DOMAIN list' = Mapped /\ \A w \in Mapped : list'[w] \in Entries /\ list'[w].announced
  BY <1>1, <1>2
<1>6. LinkFits'
  <2>1. wire' = <<>> /\ bound' = TRUE
    BY <1>1 DEF PanelInv, LinkFits
  <2>2. DOMAIN list' \subseteq 1 .. maps'
    BY <1>1, <1>5 DEF PanelInv, CompositorFits
  <2>3. WireFits(<<>>, DOMAIN list', maps')
    BY DEF WireFits
  <2>4. \A w \in Mapped : Alive(<<>>, DOMAIN list', w)
    BY <1>5 DEF Alive, Tells
  <2> QED
    BY <1>3, <2>1, <2>2, <2>3, <2>4 DEF LinkFits
<1>7. ListFits'
  BY <1>1, <1>5 DEF PanelInv, CompositorFits, ListFits
<1>8. toplevels' \in Stores /\ DOMAIN toplevels' = Mapped
  <2>1. toplevels' \in [Mapped -> Toplevel]
    BY <1>1, <1>2
  <2> QED
    BY <1>3, <2>1 DEF Stores
<1>9. StoreFits'
  BY <1>5, <1>8 DEF StoreFits
<1>10. BarsFine(bars', toplevels', pins_file')
  BY <1>1, <1>8, BuiltIsFine DEF PanelInv, CompositorFits, BarsFine
<1> QED
  BY <1>4, <1>6, <1>7, <1>9, <1>10 DEF PanelInv

\* What the user does changes one bar and the pins on file.
LEMMA OnBarFits ==
  ASSUME PanelInv, NEW i \in DOMAIN bars, NEW bar, Fine(bar, toplevels),
         NEW file \in Boxes, Len(bars) = 1 => file = PinnedOrder(bar), OnBar(i, bar, file)
  PROVE  PanelInv'
<1>1. /\ bars' = [bars EXCEPT ![i] = bar] /\ pins_file' = file
      /\ UNCHANGED <<apps, named, places, focus, monitors, maps, changes, wire, bound, list, outputs,
                     toplevels>>
  BY DEF OnBar, compositorVars, clientVars
<1>2. CompositorFits' /\ LinkFits' /\ ListFits' /\ StoreFits'
  BY <1>1 DEF PanelInv, CompositorFits, LinkFits, ListFits, StoreFits, Mapped
<1>3. BarsFine(bars, toplevels, pins_file)
  BY DEF PanelInv
<1>4. BarsFine(bars', toplevels', pins_file')
  <2>1. Len(bars) \in Nat /\ DOMAIN bars = 1 .. Len(bars)
    BY <1>3 DEF BarsFine
  <2> DEFINE n == Len(bars)
             new == [j \in 1 .. n |-> IF j = i THEN bar ELSE bars[j]]
  <2>2. bars' = new
    BY <1>1, <2>1
  <2>3. Len(new) = n /\ DOMAIN new = 1 .. n
    <3> DEFINE s == new
    <3>1. s = [j \in 1 .. n |-> s[j]]
      OBVIOUS
    <3> HIDE DEF s, n
    <3>2. Len(s) = n /\ DOMAIN s = 1 .. n
      BY <2>1, <3>1, LengthIs DEF n
    <3> QED
      BY <3>2 DEF s
  <2>4. \A j \in 1 .. n : new[j] = bar \/ new[j] = bars[j]
    OBVIOUS
  <2>5. n = 1 => new[1] = bar
    <3>1. n = 1 => i = 1
      BY <2>1
    <3> QED
      BY <3>1
  <2> HIDE DEF new
  <2> QED
    BY <1>1, <1>3, <2>1, <2>2, <2>3, <2>4, <2>5 DEF BarsFine
<1> QED
  BY <1>2, <1>4 DEF PanelInv

\* A click moves a cycle.
LEMMA ClickFits ==
  ASSUME PanelInv, NEW i \in DOMAIN bars, NEW app \in Apps, Click(i, app)
  PROVE  PanelInv'
<1> DEFINE bar == bars[i]
           n   == bar.cycle[app] + 1
           new == [bar EXCEPT !.cycle[app] = n % Len(bar.windows[app])]
<1>1. /\ Fine(bar, toplevels) /\ GoodBar(bar) /\ bar \in Bars
      /\ Open(bar, app) /\ ~Dragging(bar)
  BY DEF PanelInv, BarsFine, Fine, GoodBar, Click, Begins
<1>2. n \in Nat
  BY <1>1 DEF Bars
<1>3. OnBar(i, new, pins_file)
  BY <1>1 DEF Click, Bars
<1> HIDE DEF n, bar
<1>4. GoodBar(new) /\ SameBar(bar, new) /\ new.shown = bar.shown
  BY <1>1, <1>2, CycledKeeps
<1> HIDE DEF new
<1>5. Fine(new, toplevels) /\ PinnedOrder(new) = PinnedOrder(bar)
  BY <1>1, <1>4, ShownFollows DEF SameBar, PanelInv, StoreFits
<1>6. pins_file \in Boxes /\ (Len(bars) = 1 => pins_file = PinnedOrder(bar))
  <2>1. BarsFine(bars, toplevels, pins_file)
    BY DEF PanelInv
  <2>2. Len(bars) = 1 => i = 1
    BY <2>1 DEF BarsFine
  <2> QED
    BY <2>1, <2>2 DEF BarsFine, bar
<1> QED
  BY <1>3, <1>5, <1>6, OnBarFits

\* A pin set or cleared keeps the entry of an app with windows.
LEMMA TogglePinFits ==
  ASSUME PanelInv, NEW i \in DOMAIN bars, NEW app \in ToSet(bars[i].order), TogglePin(i,
         app)
  PROVE  PanelInv'
<1> DEFINE old    == bars[i]
           pinned == IF app \in old.pinned THEN old.pinned \ {app}
                     ELSE old.pinned \union {app}
           bar    == [old EXCEPT !.pinned = pinned]
           new    == IF app \notin bar.pinned /\ ~Open(bar, app)
                       THEN RemoveEntry(bar, app, FALSE) ELSE bar
<1>1. Fine(old, toplevels) /\ GoodBar(old) /\ old \in Bars /\ ~Dragging(old)
  BY DEF PanelInv, BarsFine, Fine, GoodBar, TogglePin, Begins
<1>2. OnBar(i, new, PinnedOrder(bar))
  BY DEF TogglePin
<1>3. app \in ToSet(old.order)
  OBVIOUS
<1> HIDE DEF old
<1>4. app \in Apps /\ pinned \in SUBSET Apps
  BY <1>1, <1>3 DEF Bars, Boxes, ToSet
<1> HIDE DEF pinned
<1>5. /\ bar \in Bars /\ bar.only_output = old.only_output
      /\ bar.is_tray_host = old.is_tray_host /\ bar.order = old.order
      /\ bar.windows = old.windows /\ bar.cycle = old.cycle /\ bar.shown = old.shown
      /\ bar.pinned = pinned /\ bar.drag = old.drag
  BY <1>1, <1>4 DEF Bars
<1> HIDE DEF bar
<1>6. DragFits(bar) /\ WindowsAgree(bar) /\ ~Dragging(bar)
  BY <1>1, <1>5 DEF GoodBar, DragFits, WindowsAgree, Dragging
<1>7. /\ ToSet(old.order) = old.pinned \union {a \in Apps : Open(old, a)}
      /\ \A a \in Apps : Open(bar, a) <=> Open(old, a)
  BY <1>1, <1>5 DEF GoodBar, EntriesAgree, Open
<1>8. /\ GoodBar(new) /\ new.only_output = old.only_output
      /\ new.is_tray_host = old.is_tray_host /\ new.shown = old.shown
      /\ PinnedOrder(new) = PinnedOrder(bar)
  <2>1. CASE app \notin bar.pinned /\ ~Open(bar, app)
    <3>1. new = RemoveEntry(bar, app, FALSE)
      BY <2>1
    <3> HIDE DEF new
    <3>2. /\ new \in Bars /\ DragFits(new) /\ SameTables(bar, new)
          /\ ToSet(new.order) = ToSet(bar.order) \ {app}
          /\ \/ Dragging(bar) /\ new.drag = NoDrag
             \/ new.order = RemoveFirst(bar.order, app)
      <4> DEFINE ends == FALSE
      <4>1. ends \in BOOLEAN /\ new = RemoveEntry(bar, app, ends)
        BY <3>1
      <4> HIDE DEF ends
      <4> QED
        BY <1>4, <1>5, <1>6, <4>1, EntryRemoved
    <3>3. WindowsAgree(new)
      BY <1>6, <3>2 DEF WindowsAgree, SameTables
    <3>4. EntriesAgree(new)
      <4>1. \A a \in Apps : Open(new, a) <=> Open(bar, a)
        BY <3>2 DEF SameTables, Open
      <4>2. new.pinned = pinned
        BY <1>5, <3>2 DEF SameTables
      <4>3. pinned = old.pinned \ {app}
        BY <1>5, <2>1 DEF pinned
      <4> QED
        BY <1>4, <1>5, <1>7, <2>1, <3>2, <4>1, <4>2, <4>3 DEF EntriesAgree
    <3>5. PinnedOrder(new) = PinnedOrder(bar)
      <4>1. new.order = RemoveFirst(bar.order, app) /\ new.pinned = bar.pinned
        BY <1>6, <3>2 DEF SameTables
      <4>2. bar.order \in Seq(Apps)
        BY <1>5 DEF Bars, Boxes
      <4>3. Kept(new.order, bar.pinned)[Len(new.order)]
              = Kept(bar.order, bar.pinned)[Len(bar.order)]
        BY <1>4, <2>1, <4>1, <4>2, KeptOfRemove
      <4>4. PinnedOrder(new) = Kept(new.order, new.pinned)[Len(new.order)]
        BY PinnedOrderIs
      <4>5. PinnedOrder(bar) = Kept(bar.order, bar.pinned)[Len(bar.order)]
        BY PinnedOrderIs
      <4> QED
        BY <4>1, <4>3, <4>4, <4>5
    <3> QED
      BY <1>5, <3>2, <3>3, <3>4, <3>5 DEF GoodBar, SameTables
  <2>2. CASE ~(app \notin bar.pinned /\ ~Open(bar, app))
    <3>1. new = bar
      BY <2>2
    <3> HIDE DEF new
    <3>2. EntriesAgree(bar)
      BY <1>3, <1>4, <1>5, <1>7, <2>2 DEF EntriesAgree, pinned
    <3> QED
      BY <1>5, <1>6, <3>1, <3>2 DEF GoodBar
  <2> QED
    BY <2>1, <2>2
<1> HIDE DEF new
<1>9. Fine(new, toplevels)
  BY <1>1, <1>8, ShownFollows DEF PanelInv, StoreFits
<1>10. PinnedOrder(bar) \in Boxes
  BY <1>5, PinnedOrderIsBox
<1> QED
  BY <1>2, <1>8, <1>9, <1>10, OnBarFits

\* A drag starts from the order that the box has.
LEMMA DragStartedFits ==
  ASSUME PanelInv, NEW i \in DOMAIN bars, NEW app \in ToSet(bars[i].order),
         DragStarted(i, app)
  PROVE  PanelInv'
<1> DEFINE bar   == bars[i]
           order == bar.order
           at    == CHOOSE n \in DOMAIN order : order[n] = app
           drag  == [app |-> app, order |-> order, target |-> at]
           new   == [bar EXCEPT !.drag = drag]
<1>1. Fine(bar, toplevels) /\ GoodBar(bar) /\ bar \in Bars
  BY DEF PanelInv, BarsFine, Fine, GoodBar
<1>2. OnBar(i, new, pins_file)
  BY DEF DragStarted
<1>3. app \in ToSet(order)
  OBVIOUS
<1> HIDE DEF bar
<1>4. order \in Seq(Apps) /\ IsInjective(order)
  BY <1>1 DEF Bars, Boxes
<1>5. at \in DOMAIN order /\ app \in Apps
  BY <1>3, <1>4 DEF ToSet
<1>6. at \in Nat /\ order \in Seq(Apps \union {Gone})
  BY <1>4, <1>5
<1> HIDE DEF at
<1>7. drag \in Drags /\ drag.app = app /\ drag.order = order /\ drag.target = at
  BY <1>5, <1>6 DEF Drags
<1>8. Distinct(order)
  BY <1>4 DEF Distinct, IsInjective
<1> HIDE DEF drag
<1>9. /\ new \in Bars /\ new.only_output = bar.only_output
      /\ new.is_tray_host = bar.is_tray_host /\ new.order = order
      /\ new.windows = bar.windows /\ new.cycle = bar.cycle /\ new.shown = bar.shown
      /\ new.pinned = bar.pinned /\ new.drag = drag
  BY <1>1, <1>7 DEF Bars
<1> HIDE DEF new
<1>10. GoodBar(new) /\ PinnedOrder(new) = PinnedOrder(bar)
  <2>1. DragFits(new)
    BY <1>3, <1>5, <1>7, <1>8, <1>9 DEF DragFits
  <2>2. WindowsAgree(new) /\ EntriesAgree(new)
    BY <1>1, <1>9 DEF GoodBar, WindowsAgree, EntriesAgree, Open
  <2> QED
    BY <1>9, <2>1, <2>2, PinnedOrderIs DEF GoodBar
<1>11. Fine(new, toplevels)
  BY <1>1, <1>9, <1>10, ShownFollows DEF PanelInv, StoreFits
<1>12. pins_file \in Boxes /\ (Len(bars) = 1 => pins_file = PinnedOrder(bar))
  <2>1. BarsFine(bars, toplevels, pins_file)
    BY DEF PanelInv
  <2>2. Len(bars) = 1 => i = 1
    BY <2>1 DEF BarsFine
  <2> QED
    BY <2>1, <2>2 DEF BarsFine, bar
<1> QED
  BY <1>2, <1>10, <1>11, <1>12, OnBarFits

\* A drag over another entry only moves its target.
LEMMA DragMovedFits ==
  ASSUME PanelInv, NEW i \in DOMAIN bars, NEW target \in DOMAIN bars[i].drag.order,
         DragMoved(i, target)
  PROVE  PanelInv'
<1> DEFINE bar  == bars[i]
           drag == [bar.drag EXCEPT !.target = target]
           new  == [bar EXCEPT !.drag = drag]
<1>1. Fine(bar, toplevels) /\ GoodBar(bar) /\ bar \in Bars /\ Dragging(bar)
  BY DEF PanelInv, BarsFine, Fine, GoodBar, DragMoved
<1>2. OnBar(i, new, pins_file)
  BY DEF DragMoved
<1>3. target \in DOMAIN bar.drag.order
  OBVIOUS
<1> HIDE DEF bar
<1>4. bar.drag \in Drags /\ bar.drag # NoDrag
  BY <1>1 DEF Bars, Dragging, NoDrag
<1>5. target \in Nat
  <2>1. bar.drag.order \in Seq(Apps \union {Gone})
    BY <1>4 DEF Drags
  <2> QED
    BY <1>3, <2>1
<1>6. /\ drag \in Drags /\ drag.app = bar.drag.app /\ drag.order = bar.drag.order
      /\ drag.target = target
  BY <1>4, <1>5 DEF Drags
<1> HIDE DEF drag
<1>7. /\ new \in Bars /\ new.only_output = bar.only_output
      /\ new.is_tray_host = bar.is_tray_host /\ new.order = bar.order
      /\ new.windows = bar.windows /\ new.cycle = bar.cycle /\ new.shown = bar.shown
      /\ new.pinned = bar.pinned /\ new.drag = drag
  BY <1>1, <1>6 DEF Bars
<1> HIDE DEF new
<1>8. GoodBar(new) /\ PinnedOrder(new) = PinnedOrder(bar)
  <2>1. DragFits(new)
    BY <1>1, <1>3, <1>4, <1>6, <1>7 DEF GoodBar, DragFits
  <2>2. WindowsAgree(new) /\ EntriesAgree(new)
    BY <1>1, <1>7 DEF GoodBar, WindowsAgree, EntriesAgree, Open
  <2> QED
    BY <1>7, <2>1, <2>2, PinnedOrderIs DEF GoodBar
<1>9. Fine(new, toplevels)
  BY <1>1, <1>7, <1>8, ShownFollows DEF PanelInv, StoreFits
<1>10. pins_file \in Boxes /\ (Len(bars) = 1 => pins_file = PinnedOrder(bar))
  <2>1. BarsFine(bars, toplevels, pins_file)
    BY DEF PanelInv
  <2>2. Len(bars) = 1 => i = 1
    BY <2>1 DEF BarsFine
  <2> QED
    BY <2>1, <2>2 DEF BarsFine, bar
<1> QED
  BY <1>2, <1>8, <1>9, <1>10, OnBarFits

\* A drop puts the box in a new order of the same entries.
LEMMA DragDroppedFits ==
  ASSUME PanelInv, NEW i \in DOMAIN bars, DragDropped(i)
  PROVE  PanelInv'
<1> DEFINE bar == bars[i]
           new == Dropped(bar)
<1>1. Fine(bar, toplevels) /\ GoodBar(bar) /\ bar \in Bars /\ Dragging(bar)
  BY DEF PanelInv, BarsFine, Fine, GoodBar, DragDropped
<1>2. OnBar(i, new, PinnedOrder(new))
  BY DEF DragDropped
<1> HIDE DEF bar
<1>3. /\ new \in Bars /\ new.drag = NoDrag /\ SameTables(bar, new)
      /\ ToSet(new.order) = ToSet(bar.order)
  BY <1>1, DroppedKeeps DEF GoodBar
<1> HIDE DEF new
<1>4. GoodBar(new)
  BY <1>1, <1>3 DEF GoodBar, DragFits, WindowsAgree, EntriesAgree, Open, SameTables
<1>5. Fine(new, toplevels)
  BY <1>1, <1>3, <1>4, ShownFollows DEF PanelInv, StoreFits, SameTables
<1>6. PinnedOrder(new) \in Boxes
  BY <1>3, PinnedOrderIsBox
<1> QED
  BY <1>2, <1>5, <1>6, OnBarFits

-----------------------------------------------------------------------------
(***************************************************************************)
(* The theorem.                                                            *)
(***************************************************************************)
\* The invariant holds when the panel starts.
LEMMA PanelStarts ==
  PanelInit => PanelInv
<1> SUFFICES ASSUME PanelInit PROVE PanelInv
  OBVIOUS
<1>1. /\ DOMAIN apps = {} /\ DOMAIN places = {} /\ DOMAIN list = {} /\ DOMAIN toplevels = {}
      /\ apps = [w \in {} |-> None] /\ places = [w \in {} |-> None]
      /\ toplevels = [w \in {} |-> None]
      /\ focus = None /\ maps = 0 /\ wire = <<>> /\ bound = FALSE /\ outputs = <<>>
      /\ bars = <<>> /\ pins_file \in SavedPins
  BY DEF PanelInit
<1>2. monitors \in Seq(Monitors)
  <2>1. monitors \in UNION {[1 .. m -> Monitors] : m \in 0 .. 2}
    BY DEF PanelInit, SeqOf
  <2>2. PICK m \in 0 .. 2 : monitors \in [1 .. m -> Monitors]
    BY <2>1
  <2> QED
    BY <2>2
<1>3. CompositorFits
  <2>1. apps \in [{} -> Apps] /\ places \in [{} -> Monitors \union {None}]
    BY <1>1
  <2> QED
    BY <1>1, <1>2, <2>1, BoundAssumption DEF CompositorFits, Mapped
<1>4. LinkFits
  <2>1. Len(wire) = 0 /\ wire \in Seq(Events)
    BY <1>1
  <2>2. WireFits(wire, {}, 0)
    BY <2>1 DEF WireFits
  <2>3. DOMAIN list \subseteq 1 .. maps /\ bound \in BOOLEAN
    BY <1>1
  <2>4. WireFits(wire, DOMAIN list, maps)
    BY <2>2, <1>1
  <2> QED
    BY <1>1, <2>3, <2>4 DEF LinkFits
<1>5. ListFits
  BY <1>1 DEF ListFits
<1>6. StoreFits
  <2>1. toplevels \in [{} -> Toplevel]
    BY <1>1
  <2> QED
    BY <1>1, <2>1 DEF StoreFits, Stores
<1>7. BarsFine(bars, toplevels, pins_file)
  <2>1. pins_file \in Boxes
    BY <1>1, PinsAssumption DEF Boxes
  <2>2. Len(bars) = 0 /\ DOMAIN bars = 1 .. 0 /\ \A i \in 1 .. 0 : FALSE
    BY <1>1
  <2> QED
    BY <2>1, <2>2 DEF BarsFine
<1> QED
  BY <1>3, <1>4, <1>5, <1>6, <1>7 DEF PanelInv

\* The invariant is about the panel's variables only.
LEMMA PanelStays ==
  ASSUME PanelInv, UNCHANGED panelVars
  PROVE  PanelInv'
<1>1. UNCHANGED <<apps, places, focus, monitors, maps, wire, bound, list, outputs,
                  toplevels, bars, pins_file>>
  BY DEF panelVars, compositorVars, clientVars, barVars
<1> QED
  BY <1>1 DEF PanelInv, CompositorFits, LinkFits, ListFits, StoreFits, Mapped

\* The user's actions keep the invariant.
LEMMA UserKeeps ==
  ASSUME PanelInv, User
  PROVE  PanelInv'
<1>1. PICK i \in DOMAIN bars :
        \/ \E app \in ToSet(bars[i].order) :
             Click(i, app) \/ TogglePin(i, app) \/ DragStarted(i, app)
        \/ \E target \in DOMAIN bars[i].drag.order : DragMoved(i, target)
        \/ DragDropped(i)
  BY DEF User
<1>2. ToSet(bars[i].order) \subseteq Apps
  <2>1. bars[i].order \in Seq(Apps)
    BY DEF PanelInv, BarsFine, Fine, GoodBar, Bars, Boxes
  <2> QED
    BY <2>1 DEF ToSet
<1> QED
  BY <1>1, <1>2, ClickFits, TogglePinFits, DragStartedFits, DragMovedFits, DragDroppedFits

\* Every step keeps the invariant.
LEMMA PanelKeeps ==
  ASSUME PanelInv, [PanelNext]_panelVars
  PROVE  PanelInv'
<1>1. CASE Compositor /\ UNCHANGED <<barVars, acts>>
  <2>1. CompositorFits' /\ LinkFits' /\ UNCHANGED <<list, outputs, toplevels, bars, pins_file>>
    BY <1>1, CompositorStep DEF PanelInv, clientVars, barVars
  <2> QED
    BY <2>1 DEF PanelInv, ListFits, StoreFits
<1>2. CASE Bind
  BY <1>2, BindFits
<1>3. CASE Handle
  <2>1. CASE OnToplevel \/ OnTitle \/ OnAppId \/ OnState \/ OnClosed
    BY <2>1, OnToplevelFits, OnTitleFits, OnAppIdFits, OnStateFits, OnClosedFits
  <2>2. CASE OnOutputEnter \/ OnOutputLeave
    <3>1. OutputEvent("enter", TRUE) \/ OutputEvent("leave", FALSE)
      BY <2>2 DEF OnOutputEnter, OnOutputLeave
    <3>2. OutputEvent("enter", TRUE) => PanelInv'
      BY OutputEventFits, Zenon
    <3>3. OutputEvent("leave", FALSE) => PanelInv'
      BY OutputEventFits, Zenon
    <3> QED
      BY <3>1, <3>2, <3>3
  <2>3. CASE OnGlobal \/ OnGlobalRemove
    BY <2>3, OnGlobalFits
  <2> QED
    BY <1>3, <2>1, <2>2, <2>3 DEF Handle
<1>4. CASE User
  BY <1>4, UserKeeps
<1>5. CASE UNCHANGED panelVars
  BY <1>5, PanelStays
<1> QED
  BY <1>1, <1>2, <1>3, <1>4, <1>5 DEF PanelNext

\* The invariant implies that the bars follow the store.
LEMMA PanelFollows ==
  PanelInv => BarsFollowStore
<1> SUFFICES ASSUME PanelInv PROVE BarsFollowStore
  OBVIOUS
<1>1. BarsFine(bars, toplevels, pins_file) /\ StoreFits
  BY DEF PanelInv
<1>2. ASSUME NEW i \in DOMAIN bars
      PROVE  BarTypeOK(bars[i]) /\ BarFollowsStore(bars[i])
  <2> DEFINE bar == bars[i]
  <2>1. bar \in Bars /\ DragFits(bar) /\ WindowsAgree(bar) /\ EntriesAgree(bar)
        /\ Follows(bar, toplevels)
    BY <1>1 DEF BarsFine, Fine, GoodBar
  <2> HIDE DEF bar
  <2>2. /\ bar.only_output \in Monitors \union {None} /\ bar.is_tray_host \in BOOLEAN
        /\ bar.order \in Seq(Apps) /\ IsInjective(bar.order)
        /\ bar.windows \in [Apps -> Seq(Windows)]
        /\ \A app \in Apps : IsInjective(bar.windows[app])
        /\ bar.drag.order \in Seq(Apps \union {Gone})
    BY <2>1 DEF Bars, Boxes, Lists, Drags
  <2>3. bar.pinned \subseteq ToSet(bar.order)
    BY <2>1 DEF EntriesAgree
  <2>4. bar.drag # NoDrag => bar.drag.target \in DOMAIN bar.drag.order
    BY <2>1 DEF DragFits
  <2>5. BarTypeOK(bar)
    BY <2>1, <2>2, <2>3, <2>4 DEF BarTypeOK, WindowsAgree, Follows
  <2>6. BarFollowsStore(bar)
    BY <2>1, <2>2 DEF BarFollowsStore, WindowsAgree, EntriesAgree, Follows
  <2> QED
    BY <2>5, <2>6 DEF bar
<1>3. /\ DOMAIN toplevels = {w \in DOMAIN list : list[w].announced}
      /\ \A w \in DOMAIN toplevels : toplevels[w] \in Toplevel
  BY <1>1, StoresAreFinite DEF StoreFits
<1>4. pins_file \in Seq(Apps) /\ PinsSaved
  BY <1>1 DEF BarsFine, Boxes, PinsSaved
<1> QED
  BY <1>2, <1>3, <1>4 DEF BarsFollowStore, PanelTypeOK

\* Whatever is announced, moved, pinned, dragged or rebuilt, every bar has
\* exactly the windows it accepts and the pins on file are the panel's.
THEOREM BarsFollowTheStore == PanelSpec => []BarsFollowStore
<1>1. PanelInv /\ [PanelNext]_panelVars => PanelInv'
  BY PanelKeeps
<1> QED
  BY PanelStarts, <1>1, PanelFollows, PTL DEF PanelSpec

-----------------------------------------------------------------------------
(***************************************************************************)
(* What the client holds.  An event takes it from one state to the next,   *)
(* and the events on the wire one after the other from what it holds to    *)
(* what the compositor has.                                                *)
(***************************************************************************)
\* The app_id of a window in the list, and the one it is in the store with or, until
\* it is announced, would be.
Names(latest, first) == [latest |-> latest, first |-> first]

\* What the client holds at a moment: the names and the output of each window, those
\* with a title, announced, active in the list and active in the store, the outputs.
Held(app, out, titled, told, on, active, outs) ==
  [app |-> app, out |-> out, titled |-> titled, told |-> told, on |-> on,
   active |-> active, outs |-> outs]

\* The event e takes the client from p to q.
Leads(e, p, q) ==
  LET w == e.window IN
  /\ e \in Events
  /\ e.kind = "toplevel" =>
       /\ w \notin DOMAIN p.app
       /\ q = Held(Extend(p.app, w, Names(None, None)), Extend(p.out, w, None), p.titled,
                   p.told, p.on, p.active, p.outs)
  /\ e.kind = "title" =>
       /\ w \in DOMAIN p.app /\ e.value # None
       /\ q = Held(p.app, p.out, p.titled \union {w},
                   IF p.app[w].latest # None THEN p.told \union {w} ELSE p.told,
                   p.on, p.active, p.outs)
  /\ e.kind = "app_id" =>
       /\ w \in DOMAIN p.app /\ e.value \in Apps
       /\ q = Held([p.app EXCEPT ![w] =
                      Names(e.value, IF w \in p.told THEN p.app[w].first ELSE e.value)],
                   p.out, p.titled,
                   IF w \in p.titled THEN p.told \union {w} ELSE p.told,
                   p.on, p.active, p.outs)
  /\ e.kind = "state" =>
       /\ w \in p.told
       /\ \/ e.value = TRUE /\ w \notin p.on
             /\ q = Held(p.app, p.out, p.titled, p.told, p.on \union {w}, {w}, p.outs)
          \/ e.value = FALSE /\ w \in p.on
             /\ q = Held(p.app, p.out, p.titled, p.told, p.on \ {w},
                         IF p.on = {w} THEN {} ELSE p.active, p.outs)
  /\ e.kind = "enter" =>
       /\ w \in p.told /\ e.value \in ToSet(p.outs)
       /\ q = Held(p.app, [p.out EXCEPT ![w] = e.value], p.titled, p.told, p.on,
                   p.active, p.outs)
  /\ e.kind = "leave" =>
       /\ w \in p.told /\ e.value \in ToSet(p.outs) /\ p.out[w] = e.value
       /\ q = Held(p.app, [p.out EXCEPT ![w] = None], p.titled, p.told, p.on,
                   p.active, p.outs)
  /\ e.kind = "closed" =>
       /\ w \in p.told
       /\ q = Held(Omit(p.app, w), Omit(p.out, w), p.titled \ {w}, p.told \ {w},
                   p.on \ {w}, p.active \ {w}, p.outs)
  /\ e.kind = "global" =>
       q = Held(p.app, p.out, p.titled, p.told, p.on, p.active, Append(p.outs, e.value))
  /\ e.kind = "global_remove" =>
       q = Held(p.app, p.out, p.titled, p.told, p.on, p.active,
                RemoveFirst(p.outs, e.value))

\* The events take it there one after the other.
Journey(p, evs, q) ==
  \E r : /\ r[0] = p /\ r[Len(evs)] = q
         /\ \A i \in 1 .. Len(evs) : Leads(evs[i], r[i - 1], r[i])

\* With nothing on the way the journey is over.
LEMMA NoJourney ==
  ASSUME NEW p, NEW q
  PROVE  Journey(p, <<>>, q) <=> p = q
<1>1. Len(<<>>) = 0 /\ 1 .. 0 = {}
  OBVIOUS
<1>2. ASSUME p = q PROVE Journey(p, <<>>, q)
  <2> DEFINE r == [i \in {0} |-> p]
  <2>1. r[0] = p /\ r[Len(<<>>)] = q /\ \A i \in 1 .. Len(<<>>) : Leads(<<>>[i], r[i - 1], r[i])
    BY <1>1, <1>2
  <2> HIDE DEF r
  <2> QED
    BY <2>1 DEF Journey
<1>3. ASSUME Journey(p, <<>>, q) PROVE p = q
  BY <1>1, <1>3 DEF Journey
<1> QED
  BY <1>2, <1>3

\* A journey of one event.
LEMMA OneEvent ==
  ASSUME NEW p, NEW q, NEW e, Leads(e, p, q)
  PROVE  Journey(p, <<e>>, q) /\ <<e>> \in Seq(Events)
<1> DEFINE r == [i \in 0 .. 1 |-> IF i = 0 THEN p ELSE q]
<1>1. r[0] = p /\ r[1] = q /\ Len(<<e>>) = 1 /\ <<e>>[1] = e
  OBVIOUS
<1> HIDE DEF r
<1>2. \A i \in 1 .. Len(<<e>>) : Leads(<<e>>[i], r[i - 1], r[i])
  <2>1. \A i \in 1 .. Len(<<e>>) : i = 1 /\ i - 1 = 0
    BY <1>1
  <2> QED
    BY <1>1, <2>1
<1>3. e \in Events
  BY DEF Leads
<1> QED
  BY <1>1, <1>2, <1>3 DEF Journey

\* What is sent behind the wire is dispatched after it.
LEMMA JourneyOn ==
  ASSUME NEW p, NEW q, NEW s, NEW a \in Seq(Events), NEW b \in Seq(Events),
         Journey(p, a, q), Journey(q, b, s)
  PROVE  Journey(p, a \o b, s) /\ a \o b \in Seq(Events)
<1>1. PICK r : /\ r[0] = p /\ r[Len(a)] = q
               /\ \A i \in 1 .. Len(a) : Leads(a[i], r[i - 1], r[i])
  BY DEF Journey
<1>2. PICK t : /\ t[0] = q /\ t[Len(b)] = s
               /\ \A i \in 1 .. Len(b) : Leads(b[i], t[i - 1], t[i])
  BY DEF Journey
<1> DEFINE c == a \o b
           m == Len(a)
           n == Len(b)
           u == [i \in 0 .. m + n |-> IF i <= m THEN r[i] ELSE t[i - m]]
<1>3. /\ m \in Nat /\ n \in Nat /\ c \in Seq(Events) /\ Len(c) = m + n
      /\ \A i \in 1 .. m + n : c[i] = IF i <= m THEN a[i] ELSE b[i - m]
  BY ConcatProperties
<1>4. \A i \in 0 .. m : u[i] = r[i]
  BY <1>3
<1>5. \A i \in m .. m + n : u[i] = t[i - m]
  <2>1. u[m] = r[m] /\ t[m - m] = q
    BY <1>2, <1>3
  <2>2. \A i \in m .. m + n : i # m => u[i] = t[i - m]
    BY <1>3
  <2> QED
    BY <1>1, <2>1, <2>2
<1> HIDE DEF u, c
<1>6. \A i \in 1 .. m + n : Leads(c[i], u[i - 1], u[i])
  <2>1. ASSUME NEW i \in 1 .. m + n, i <= m PROVE Leads(c[i], u[i - 1], u[i])
    <3>1. i \in 1 .. m /\ i \in 0 .. m /\ i - 1 \in 0 .. m
      BY <1>3, <2>1
    <3> QED
      BY <1>1, <1>3, <1>4, <2>1, <3>1
  <2>2. ASSUME NEW i \in 1 .. m + n, ~(i <= m) PROVE Leads(c[i], u[i - 1], u[i])
    <3>1. /\ i - m \in 1 .. n /\ i \in m .. m + n /\ i - 1 \in m .. m + n
          /\ (i - 1) - m = (i - m) - 1
      BY <1>3, <2>2
    <3> QED
      BY <1>2, <1>3, <1>5, <2>2, <3>1
  <2> QED
    BY <2>1, <2>2
<1>7. u[0] = p /\ u[Len(c)] = s
  <2>1. 0 \in 0 .. m /\ m + n \in m .. m + n /\ (m + n) - m = n
    BY <1>3
  <2> QED
    BY <1>1, <1>2, <1>3, <1>4, <1>5, <2>1
<1>8. Journey(p, c, s)
  BY <1>3, <1>6, <1>7 DEF Journey
<1> QED
  BY <1>3, <1>8 DEF c

\* Dispatching an event is the first step of the journey.
LEMMA FirstStep ==
  ASSUME NEW p, NEW q, NEW wr \in Seq(Events), wr # <<>>, Journey(p, wr, q)
  PROVE  \E n : Leads(Head(wr), p, n) /\ Journey(n, Tail(wr), q)
<1>1. PICK r : /\ r[0] = p /\ r[Len(wr)] = q
               /\ \A i \in 1 .. Len(wr) : Leads(wr[i], r[i - 1], r[i])
  BY DEF Journey
<1> DEFINE t == Tail(wr)
           m == Len(t)
           u == [i \in 0 .. m |-> r[i + 1]]
<1>2. /\ Len(wr) \in Nat \ {0} /\ m = Len(wr) - 1 /\ Head(wr) = wr[1]
      /\ \A i \in 1 .. m : t[i] = wr[i + 1]
  BY TailIs
<1>3. u[0] = r[1] /\ u[m] = q /\ \A i \in 0 .. m : u[i] = r[i + 1]
  BY <1>1, <1>2
<1> HIDE DEF u, t
<1>4. ASSUME NEW i \in 1 .. m PROVE Leads(t[i], u[i - 1], u[i])
  <2>1. i + 1 \in 1 .. Len(wr) /\ i - 1 \in 0 .. m /\ i \in 0 .. m /\ (i + 1) - 1 = i
        /\ (i - 1) + 1 = i
    BY <1>2
  <2>2. u[i - 1] = r[i] /\ u[i] = r[i + 1]
    BY <1>3, <2>1
  <2>3. Leads(wr[i + 1], r[i], r[i + 1])
    BY <1>1, <2>1
  <2> QED
    BY <1>2, <2>2, <2>3
<1>5. Journey(r[1], t, q)
  BY <1>3, <1>4 DEF Journey
<1>6. Leads(Head(wr), p, r[1])
  <2>1. 1 \in 1 .. Len(wr) /\ 1 - 1 = 0
    BY <1>2
  <2> QED
    BY <1>1, <1>2, <2>1
<1> QED
  BY <1>5, <1>6 DEF t

\* A journey for each list is one for all of them together.
LEMMA JourneyOfAll ==
  ASSUME NEW seqs \in Seq(Seq(Events)), NEW r,
         \A i \in 1 .. Len(seqs) : Journey(r[i - 1], seqs[i], r[i])
  PROVE  /\ Journey(r[0], FlattenSeq(seqs), r[Len(seqs)])
         /\ FlattenSeq(seqs) \in Seq(Events)
<1> DEFINE n == Len(seqs)
<1>1. n \in Nat /\ \A i \in 1 .. n : seqs[i] \in Seq(Events)
  OBVIOUS
<1>2. PICK f : Joined(seqs, f, Events)
  BY JoinedExists
<1>3. /\ f \in [0 .. n -> Seq(Events)] /\ f[0] = <<>>
      /\ \A i \in 1 .. n : f[i] = f[i - 1] \o seqs[i]
  BY <1>2 DEF Joined
<1> HIDE DEF n
<1> DEFINE T == {i \in 0 .. n : Journey(r[0], f[i], r[i])}
<1>4. 0 \in T
  BY <1>1, <1>3, NoJourney
<1>5. ASSUME NEW i \in 0 .. n - 1, i \in T PROVE i + 1 \in T
  <2>1. i + 1 \in 1 .. n /\ i + 1 \in 0 .. n /\ i \in 0 .. n /\ (i + 1) - 1 = i
    BY <1>1
  <2>2. /\ f[i + 1] = f[i] \o seqs[i + 1] /\ f[i] \in Seq(Events)
        /\ seqs[i + 1] \in Seq(Events)
    <3>1. f[i + 1] = f[(i + 1) - 1] \o seqs[i + 1]
      BY <1>3, <2>1
    <3> QED
      BY <1>1, <1>3, <2>1, <3>1
  <2>3. Journey(r[i], seqs[i + 1], r[i + 1])
    <3>1. Journey(r[(i + 1) - 1], seqs[i + 1], r[i + 1])
      BY <2>1 DEF n
    <3> QED
      BY <2>1, <3>1
  <2>4. Journey(r[0], f[i], r[i])
    BY <1>5
  <2>5. Journey(r[0], f[i] \o seqs[i + 1], r[i + 1])
    BY <2>2, <2>3, <2>4, JourneyOn
  <2>6. Journey(r[0], f[i + 1], r[i + 1])
    BY <2>2, <2>5
  <2> QED
    BY <2>1, <2>6
<1>6. 0 .. n \subseteq T
  <2> HIDE DEF T
  <2> QED
    BY <1>1, <1>4, <1>5, UpTo
<1>7. n \in 0 .. n /\ n \in T
  <2>1. n \in 0 .. n
    BY <1>1
  <2> HIDE DEF T
  <2> QED
    BY <1>6, <2>1
<1>8. FlattenSeq(seqs) = f[n]
  BY <1>2, FlattenJoins DEF n
<1> QED
  BY <1>3, <1>7, <1>8 DEF n

\* What the client should hold: the compositor's own state.
Focused == {w \in Mapped : w = focus}
Called  == [w \in Mapped |-> Names(apps[w], named[w])]
Goal    == Held(Called, places, Mapped, Mapped, Focused, Focused, monitors)

\* A mapped window has a name, and one that is renamed is so after Bind.
NamedFits == DOMAIN named = Mapped /\ (~bound => named = apps)

\* The names stay, or one comes or goes.
LEMMA CalledChanges ==
  /\ apps' = apps /\ named' = named => Called' = Called
  /\ NamedFits => \A w, app :
       /\ apps' = Extend(apps, w, app) /\ named' = Extend(named, w, app)
            => Called' = Extend(Called, w, Names(app, app))
       /\ apps' = Omit(apps, w) /\ named' = Omit(named, w) => Called' = Omit(Called, w)
<1>1. apps' = apps /\ named' = named => Called' = Called
  BY DEF Called, Mapped
<1>2. ASSUME NamedFits, NEW w, NEW app, apps' = Extend(apps, w, app),
             named' = Extend(named, w, app)
      PROVE  Called' = Extend(Called, w, Names(app, app))
  <2> DEFINE N(l, f) == Names(l, f)
  <2>1. Mapped' = Mapped \union {w} /\ DOMAIN named = Mapped
    BY <1>2 DEF Mapped, Extend, NamedFits
  <2>2. \A x \in Mapped \union {w} :
          /\ apps'[x] = (IF x = w THEN app ELSE apps[x])
          /\ named'[x] = (IF x = w THEN app ELSE named[x])
    BY <1>2, <2>1 DEF Extend, Mapped
  <2>3. Called' = [x \in Mapped \union {w} |-> N(apps'[x], named'[x])]
    BY <2>1 DEF Called
  <2>4. Called = [x \in Mapped |-> N(apps[x], named[x])]
    BY DEF Called
  <2> HIDE DEF N
  <2>5. Called' = Extend(Called, w, N(app, app))
    BY <2>2, <2>3, <2>4 DEF Extend
  <2> QED
    BY <2>5 DEF N
<1>3. ASSUME NamedFits, NEW w, apps' = Omit(apps, w), named' = Omit(named, w)
      PROVE  Called' = Omit(Called, w)
  <2> DEFINE N(l, f) == Names(l, f)
  <2>1. Mapped' = Mapped \ {w} /\ DOMAIN named = Mapped
    BY <1>3 DEF Mapped, Omit, NamedFits
  <2>2. \A x \in Mapped \ {w} : apps'[x] = apps[x] /\ named'[x] = named[x]
    BY <1>3, <2>1 DEF Omit, Mapped
  <2>3. Called' = [x \in Mapped \ {w} |-> N(apps'[x], named'[x])]
    BY <2>1 DEF Called
  <2>4. Called = [x \in Mapped |-> N(apps[x], named[x])]
    BY DEF Called
  <2> HIDE DEF N
  <2> QED
    BY <2>2, <2>3, <2>4 DEF Omit
<1> QED
  BY <1>1, <1>2, <1>3

\* A window is on a monitor that is there, and on none only when there is none.
Homed ==
  /\ IsInjective(monitors)
  /\ \A w \in Mapped : places[w] \in Homes(monitors)

\* What an event of each kind does, for those the compositor sends.
LEMMA Entering ==
  ASSUME NEW w \in Windows, NEW m \in Monitors, NEW p, w \in p.told, m \in ToSet(p.outs)
  PROVE  Leads(Event("enter", w, m), p,
               Held(p.app, [p.out EXCEPT ![w] = m], p.titled, p.told, p.on, p.active,
                    p.outs))
<1> DEFINE e == Event("enter", w, m)
<1>1. e.kind = "enter" /\ e.window = w /\ e.value = m /\ e \in Events
  BY DEF Event, Events, Kinds, Values
<1> HIDE DEF e
<1>2. Leads(e, p, Held(p.app, [p.out EXCEPT ![w] = m], p.titled, p.told, p.on, p.active,
                       p.outs))
  BY <1>1 DEF Leads
<1> QED
  BY <1>2 DEF e

\* It leaves the one it is on.
LEMMA Leaving ==
  ASSUME NEW w \in Windows, NEW m \in Monitors, NEW p, w \in p.told, m \in ToSet(p.outs),
         p.out[w] = m
  PROVE  Leads(Event("leave", w, m), p,
               Held(p.app, [p.out EXCEPT ![w] = None], p.titled, p.told, p.on, p.active,
                    p.outs))
<1> DEFINE e == Event("leave", w, m)
<1>1. e.kind = "leave" /\ e.window = w /\ e.value = m /\ e \in Events
  BY DEF Event, Events, Kinds, Values
<1> HIDE DEF e
<1>2. Leads(e, p, Held(p.app, [p.out EXCEPT ![w] = None], p.titled, p.told, p.on, p.active,
                       p.outs))
  BY <1>1 DEF Leads
<1> QED
  BY <1>2 DEF e

\* The parts of what is held.
LEMMA HeldIs ==
  ASSUME NEW app, NEW out, NEW titled, NEW told, NEW on, NEW active, NEW outs
  PROVE  LET p == Held(app, out, titled, told, on, active, outs) IN
         /\ p.app = app /\ p.out = out /\ p.titled = titled /\ p.told = told
         /\ p.on = on /\ p.active = active /\ p.outs = outs
BY DEF Held

\* Activating and deactivating.
LEMMA Lighting ==
  ASSUME NEW w \in Windows, NEW p, w \in p.told, w \notin p.on
  PROVE  Leads(Event("state", w, TRUE), p,
               Held(p.app, p.out, p.titled, p.told, p.on \union {w}, {w}, p.outs))
<1> DEFINE e == Event("state", w, TRUE)
<1>1. e.kind = "state" /\ e.window = w /\ e.value = TRUE /\ e \in Events
  BY DEF Event, Events, Kinds, Values
<1> HIDE DEF e
<1>2. Leads(e, p, Held(p.app, p.out, p.titled, p.told, p.on \union {w}, {w}, p.outs))
  BY <1>1 DEF Leads
<1> QED
  BY <1>2 DEF e

\* The store's active window goes only with the last that is activated.
LEMMA Dimming ==
  ASSUME NEW w \in Windows, NEW p, w \in p.told, w \in p.on
  PROVE  Leads(Event("state", w, FALSE), p,
               Held(p.app, p.out, p.titled, p.told, p.on \ {w},
                    IF p.on = {w} THEN {} ELSE p.active, p.outs))
<1> DEFINE e == Event("state", w, FALSE)
<1>1. e.kind = "state" /\ e.window = w /\ e.value = FALSE /\ e \in Events
  BY DEF Event, Events, Kinds, Values
<1> HIDE DEF e
<1>2. Leads(e, p, Held(p.app, p.out, p.titled, p.told, p.on \ {w},
                       IF p.on = {w} THEN {} ELSE p.active, p.outs))
  BY <1>1 DEF Leads
<1> QED
  BY <1>2 DEF e

\* A window that appears, with its names in either order.
LEMMA Appearing ==
  ASSUME NEW w \in Windows, NEW app \in Apps, NEW p, w \notin DOMAIN p.app,
         w \notin p.titled, w \notin p.told,
         NEW names \in {<<"title", "app_id">>, <<"app_id", "title">>}
  PROVE  LET evs == <<Event("toplevel", w, None), Event(names[1], w, app),
                      Event(names[2], w, app)>> IN
         /\ evs \in Seq(Events)
         /\ Journey(p, evs, Held(Extend(p.app, w, Names(app, app)), Extend(p.out, w, None),
                                 p.titled \union {w}, p.told \union {w}, p.on, p.active,
                                 p.outs))
<1> DEFINE e1 == Event("toplevel", w, None)
           e2 == Event(names[1], w, app)
           e3 == Event(names[2], w, app)
           A  == Extend(p.app, w, Names(None, None))
           N  == Names(app, app)
           B  == Extend(p.out, w, None)
           p1 == Held(A, B, p.titled, p.told, p.on, p.active, p.outs)
           q  == Held(Extend(p.app, w, N), B, p.titled \union {w}, p.told \union {w},
                      p.on, p.active, p.outs)
<1>1. /\ e1.kind = "toplevel" /\ e1.window = w /\ e1 \in Events
      /\ e2.kind = names[1] /\ e2.window = w /\ e2.value = app /\ e2 \in Events
      /\ e3.kind = names[2] /\ e3.window = w /\ e3.value = app /\ e3 \in Events
  BY DEF Event, Events, Kinds, Values
<1>2. app # None
  BY NoneAssumption
<1>3. w \in DOMAIN A /\ A[w].latest = None /\ [A EXCEPT ![w] = N] = Extend(p.app, w, N)
  <2> DEFINE O == Names(None, None)
  <2>1. A = [x \in DOMAIN p.app \union {w} |-> IF x = w THEN O ELSE p.app[x]]
    BY DEF Extend
  <2>2. O.latest = None
    BY DEF Names
  <2> HIDE DEF O, N, A
  <2> QED
    BY <2>1, <2>2 DEF Extend
<1>4. Extend(p.app, w, N)[w].latest = app /\ w \in DOMAIN Extend(p.app, w, N)
  <2>1. N.latest = app
    BY DEF Names
  <2> HIDE DEF N
  <2> QED
    BY <2>1 DEF Extend
<1> HIDE DEF e1, e2, e3, A, B, N
<1>5. Leads(e1, p, p1)
  BY <1>1 DEF Leads, A, B
<1>6. \E p2 : Leads(e2, p1, p2) /\ Leads(e3, p2, q)
  <2>1. /\ p1.app = A /\ p1.out = B /\ p1.titled = p.titled /\ p1.told = p.told
        /\ p1.on = p.on /\ p1.active = p.active /\ p1.outs = p.outs
    BY HeldIs
  <2> HIDE DEF p1
  <2>2. CASE names = <<"title", "app_id">>
    <3> DEFINE p2 == Held(A, B, p.titled \union {w}, p.told, p.on, p.active, p.outs)
    <3>1. /\ p2.app = A /\ p2.out = B /\ p2.titled = p.titled \union {w}
          /\ p2.told = p.told /\ p2.on = p.on /\ p2.active = p.active /\ p2.outs = p.outs
      BY HeldIs
    <3>2. Leads(e2, p1, p2)
      BY <1>1, <1>2, <1>3, <2>1, <2>2 DEF Leads
    <3> HIDE DEF p2
    <3>3. Leads(e3, p2, q)
      BY <1>1, <1>2, <1>3, <2>2, <3>1 DEF Leads, N
    <3> QED
      BY <3>2, <3>3
  <2>3. CASE names = <<"app_id", "title">>
    <3> DEFINE F == Extend(p.app, w, N)
               p2 == Held(F, B, p.titled, p.told, p.on, p.active, p.outs)
    <3> HIDE DEF F
    <3>1. /\ p2.app = F /\ p2.out = B /\ p2.titled = p.titled
          /\ p2.told = p.told /\ p2.on = p.on /\ p2.active = p.active /\ p2.outs = p.outs
      BY HeldIs
    <3>2. Leads(e2, p1, p2)
      BY <1>1, <1>2, <1>3, <2>1, <2>3 DEF Leads, F, N
    <3> HIDE DEF p2
    <3>3. Leads(e3, p2, q)
      BY <1>1, <1>2, <1>4, <2>3, <3>1 DEF Leads, F
    <3> QED
      BY <3>2, <3>3
  <2> QED
    BY <2>2, <2>3
<1> HIDE DEF p1, q
<1>7. PICK p2 : Leads(e2, p1, p2) /\ Leads(e3, p2, q)
  BY <1>6
<1> DEFINE evs == <<e1, e2, e3>>
           r == [i \in 0 .. 3 |-> IF i = 0 THEN p ELSE IF i = 1 THEN p1 ELSE
                                  IF i = 2 THEN p2 ELSE q]
<1>8. /\ Len(evs) = 3 /\ evs[1] = e1 /\ evs[2] = e2 /\ evs[3] = e3 /\ evs \in Seq(Events)
      /\ r[0] = p /\ r[1] = p1 /\ r[2] = p2 /\ r[3] = q
  BY <1>1
<1> HIDE DEF evs, r
<1>9. ASSUME NEW i \in 1 .. 3 PROVE Leads(evs[i], r[i - 1], r[i])
  <2>1. (i = 1 /\ i - 1 = 0) \/ (i = 2 /\ i - 1 = 1) \/ (i = 3 /\ i - 1 = 2)
    OBVIOUS
  <2> QED
    BY <1>5, <1>7, <1>8, <2>1
<1>10. Journey(p, evs, q) /\ evs \in Seq(Events)
  BY <1>8, <1>9 DEF Journey
<1> QED
  BY <1>10 DEF evs, e1, e2, e3, q, B, N

-----------------------------------------------------------------------------
(***************************************************************************)
(* The compositor.  What each step sends takes the client from the old     *)
(* goal to the new one.                                                    *)
(***************************************************************************)
\* The journey goes on from the compositor's state to its next.
Onward == \E evs \in Seq(Events) : Send(evs) /\ Journey(Goal, evs, Goal')

\* A window that appears, with the monitor it is on.
LEMMA MapOnward ==
  ASSUME CompositorFits, Homed, NamedFits, NEW app \in Apps, NEW m \in Homes(monitors),
         MapWindow(app, m)
  PROVE  Onward /\ Homed'
<1> DEFINE w == maps + 1
           N == Names(app, app)
<1>1. /\ w \in Windows /\ Called' = Extend(Called, w, N) /\ places' = Extend(places, w, m)
      /\ focus' = focus /\ monitors' = monitors /\ Mapped' = Mapped \union {w}
  <2>1. /\ apps' = Extend(apps, w, app) /\ named' = Extend(named, w, app)
        /\ w \in Windows /\ places' = Extend(places, w, m)
        /\ focus' = focus /\ monitors' = monitors
    BY DEF MapWindow
  <2>2. Called' = Extend(Called, w, N)
    BY <2>1, CalledChanges
  <2> QED
    BY <2>1, <2>2 DEF Mapped, Extend
<1>2. PICK names \in {<<"title", "app_id">>, <<"app_id", "title">>} :
        Send(<<Event("toplevel", w, None), Event(names[1], w, app),
               Event(names[2], w, app)>> \o Enters(w, m))
  BY DEF MapWindow
<1>3. w \notin Mapped /\ w # focus /\ Mapped' = Mapped \union {w}
  <2>1. w \notin Mapped
    BY DEF CompositorFits
  <2>2. focus \in Mapped \union {None} /\ w # None
    BY NoneAssumption DEF CompositorFits
  <2> QED
    BY <1>1, <2>1, <2>2
<1>4. m \in Monitors \union {None}
  BY MonitorsListed
<1> HIDE DEF w
<1>5. Focused' = Focused
  BY <1>1, <1>3 DEF Focused
<1> DEFINE evs == <<Event("toplevel", w, None), Event(names[1], w, app),
                    Event(names[2], w, app)>>
           q == Held(Extend(Called, w, N), Extend(places, w, None), Mapped', Mapped',
                     Focused, Focused, monitors)
<1>6. evs \in Seq(Events) /\ Journey(Goal, evs, q)
  <2> DEFINE p == Goal
  <2>1. /\ p.app = Called /\ p.out = places /\ p.titled = Mapped /\ p.told = Mapped
        /\ p.on = Focused /\ p.active = Focused /\ p.outs = monitors
    BY HeldIs DEF Goal
  <2> HIDE DEF p
  <2>2. w \notin DOMAIN p.app /\ w \notin p.titled /\ w \notin p.told
    BY <1>3, <2>1 DEF Called
  <2>3. evs \in Seq(Events)
        /\ Journey(p, evs, Held(Extend(p.app, w, N), Extend(p.out, w, None),
                                p.titled \union {w}, p.told \union {w}, p.on, p.active,
                                p.outs))
    BY <1>1, <2>2, Appearing
  <2>4. q = Held(Extend(p.app, w, N), Extend(p.out, w, None),
                 p.titled \union {w}, p.told \union {w}, p.on, p.active, p.outs)
    BY <1>3, <2>1
  <2> HIDE DEF q, evs
  <2>5. Journey(p, evs, q)
    BY <2>3, <2>4
  <2> QED
    BY <2>3, <2>5 DEF p
<1>7. Enters(w, m) \in Seq(Events) /\ Journey(q, Enters(w, m), Goal')
  <2> DEFINE g == Goal'
  <2>1. g = Held(Extend(Called, w, N), Extend(places, w, m), Mapped', Mapped', Focused,
                 Focused, monitors)
    BY <1>1, <1>5 DEF Goal
  <2> HIDE DEF g
  <2>2. CASE m = None
    <3>1. Enters(w, m) = <<>> /\ g = q
      BY <2>1, <2>2 DEF Enters
    <3>2. Journey(q, <<>>, g)
      BY <3>1, NoJourney
    <3> QED
      BY <3>1, <3>2 DEF g
  <2>3. CASE m # None
    <3>1. m \in Monitors /\ m \in ToSet(monitors)
      BY <1>4, <2>3 DEF Homes
    <3>2. /\ q.app = Extend(Called, w, N) /\ q.out = Extend(places, w, None)
          /\ q.titled = Mapped' /\ q.told = Mapped'
          /\ q.on = Focused /\ q.active = Focused /\ q.outs = monitors
      BY HeldIs
    <3> HIDE DEF q
    <3>3. Leads(Event("enter", w, m), q,
                Held(q.app, [q.out EXCEPT ![w] = m], q.titled, q.told, q.on, q.active,
                     q.outs))
      BY <1>1, <1>3, <3>1, <3>2, Entering
    <3>4. [q.out EXCEPT ![w] = m] = Extend(places, w, m)
      BY <3>2 DEF Extend
    <3>5. Leads(Event("enter", w, m), q, g)
      BY <2>1, <3>2, <3>3, <3>4
    <3>6. Enters(w, m) = <<Event("enter", w, m)>>
      BY <2>3 DEF Enters
    <3> QED
      BY <3>5, <3>6, OneEvent DEF g
  <2> QED
    BY <2>2, <2>3
<1>8. evs \o Enters(w, m) \in Seq(Events) /\ Journey(Goal, evs \o Enters(w, m), Goal')
  <2> DEFINE g == Goal'
  <2> HIDE DEF g, evs, q
  <2>1. Journey(q, Enters(w, m), g)
    BY <1>7 DEF g
  <2>2. evs \o Enters(w, m) \in Seq(Events) /\ Journey(Goal, evs \o Enters(w, m), g)
    BY <1>6, <1>7, <2>1, JourneyOn
  <2> QED
    BY <2>2 DEF g
<1>9. Onward
  BY <1>2, <1>8 DEF Onward
<1>10. Homed'
  <2>1. \A x \in Mapped' : places'[x] = IF x = w THEN m ELSE places[x]
    <3>1. DOMAIN places = Mapped
      BY DEF CompositorFits
    <3> QED
      BY <1>1, <1>3, <3>1 DEF Extend
  <2>2. \A x \in Mapped' : places'[x] \in Homes(monitors)
    BY <1>3, <2>1 DEF Homed
  <2> QED
    BY <1>1, <2>2 DEF Homed
<1> QED
  BY <1>9, <1>10

\* Steps that leave the monitors where they are.
LEMMA MoveOnward ==
  ASSUME CompositorFits, Homed, NEW w \in Mapped, NEW m \in ToSet(monitors), MoveWindow(w,
         m)
  PROVE  Onward /\ Homed'
<1>1. /\ apps' = apps /\ places' = [places EXCEPT ![w] = m] /\ Called' = Called
      /\ focus' = focus /\ monitors' = monitors /\ Send(Leaves(w) \o Enters(w, m))
  BY CalledChanges DEF MoveWindow
<1>2. w \in Windows /\ m \in Monitors /\ m # None /\ DOMAIN places = Mapped
  <2>1. m \in Monitors
    BY DEF CompositorFits, ToSet
  <2> QED
    BY <2>1, MappedWindows, NoneAssumption DEF CompositorFits
<1>3. places[w] \in ToSet(monitors) /\ places[w] \in Monitors /\ places[w] # None
  <2>1. monitors # <<>>
    BY DEF ToSet
  <2>2. places[w] \in ToSet(monitors)
    BY <2>1 DEF Homed, Homes
  <2> QED
    BY <2>2, NoneAssumption DEF CompositorFits, ToSet
<1>4. Mapped' = Mapped /\ Focused' = Focused
  BY <1>1 DEF Mapped, Focused
<1> DEFINE g == Goal'
           p == Goal
           q == Held(Called, [places EXCEPT ![w] = None], Mapped, Mapped, Focused, Focused,
                     monitors)
<1>5. g = Held(Called, [places EXCEPT ![w] = m], Mapped, Mapped, Focused, Focused, monitors)
  BY <1>1, <1>4 DEF Goal
<1>6. /\ p.app = Called /\ p.out = places /\ p.titled = Mapped /\ p.told = Mapped
      /\ p.on = Focused /\ p.active = Focused /\ p.outs = monitors
  BY HeldIs DEF Goal
<1>7. /\ q.app = Called /\ q.out = [places EXCEPT ![w] = None] /\ q.titled = Mapped
      /\ q.told = Mapped /\ q.on = Focused /\ q.active = Focused /\ q.outs = monitors
  BY HeldIs
<1> HIDE DEF g, p
<1>8. Leads(Event("leave", w, places[w]), p, q)
  <2>1. Leads(Event("leave", w, places[w]), p,
              Held(p.app, [p.out EXCEPT ![w] = None], p.titled, p.told, p.on, p.active,
                   p.outs))
    BY <1>2, <1>3, <1>6, Leaving
  <2> QED
    BY <1>6, <2>1
<1> HIDE DEF q
<1>9. Leads(Event("enter", w, m), q, g)
  <2>1. Leads(Event("enter", w, m), q,
              Held(q.app, [q.out EXCEPT ![w] = m], q.titled, q.told, q.on, q.active,
                   q.outs))
    BY <1>2, <1>7, Entering
  <2>2. [q.out EXCEPT ![w] = m] = [places EXCEPT ![w] = m]
    BY <1>7
  <2> QED
    BY <1>5, <1>7, <2>1, <2>2
<1>10. Leaves(w) = <<Event("leave", w, places[w])>> /\ Enters(w, m) = <<Event("enter", w, m)>>
  BY <1>2, <1>3 DEF Leaves, Enters
<1>11. Leaves(w) \o Enters(w, m) \in Seq(Events) /\ Journey(p, Leaves(w) \o Enters(w, m), g)
  <2> DEFINE a == <<Event("leave", w, places[w])>>
             b == <<Event("enter", w, m)>>
  <2>1. Journey(p, a, q) /\ a \in Seq(Events)
    BY <1>8, OneEvent
  <2>2. Journey(q, b, g) /\ b \in Seq(Events)
    BY <1>9, OneEvent
  <2> HIDE DEF a, b
  <2>3. Journey(p, a \o b, g) /\ a \o b \in Seq(Events)
    BY <2>1, <2>2, JourneyOn
  <2>4. Leaves(w) = a /\ Enters(w, m) = b
    BY <1>10 DEF a, b
  <2> QED
    BY <2>3, <2>4
<1>12. Onward
  BY <1>1, <1>11 DEF Onward, p, g
<1>13. Homed'
  <2>1. m \in Homes(monitors)
    BY DEF Homes, ToSet
  <2>2. \A x \in Mapped : places'[x] \in Homes(monitors)
    BY <1>1, <1>2, <2>1 DEF Homed
  <2> QED
    BY <1>1, <1>4, <2>2 DEF Homed
<1> QED
  BY <1>12, <1>13

\* A window that closes is gone from every part at once.
LEMMA UnmapOnward ==
  ASSUME CompositorFits, Homed, NamedFits, NEW w \in Mapped, Unmap(w)
  PROVE  Onward /\ Homed'
<1>1. /\ apps' = Omit(apps, w) /\ places' = Omit(places, w) /\ monitors' = monitors
      /\ focus' = (IF focus = w THEN None ELSE focus) /\ Send(<<Event("closed", w, None)>>)
      /\ Called' = Omit(Called, w)
  BY CalledChanges DEF Unmap
<1>2. w \in Windows /\ DOMAIN places = Mapped
  BY MappedWindows DEF CompositorFits
<1>3. Mapped' = Mapped \ {w} /\ Focused' = Focused \ {w}
  <2>1. Mapped' = Mapped \ {w}
    BY <1>1 DEF Mapped, Omit
  <2>2. \A x \in Mapped : x # None
    BY MappedWindows, NoneAssumption DEF Windows
  <2> QED
    BY <1>1, <2>1, <2>2 DEF Focused
<1> DEFINE g == Goal'
           p == Goal
           e == Event("closed", w, None)
<1>4. g = Held(Omit(Called, w), Omit(places, w), Mapped \ {w}, Mapped \ {w}, Focused \ {w},
               Focused \ {w}, monitors)
  BY <1>1, <1>3 DEF Goal
<1>5. /\ p.app = Called /\ p.out = places /\ p.titled = Mapped /\ p.told = Mapped
      /\ p.on = Focused /\ p.active = Focused /\ p.outs = monitors
  BY HeldIs DEF Goal
<1>6. e.kind = "closed" /\ e.window = w /\ e \in Events
  BY <1>2 DEF Event, Events, Kinds, Values
<1> HIDE DEF g, p, e
<1>7. Leads(e, p, g)
  BY <1>4, <1>5, <1>6 DEF Leads
<1>8. Onward
  BY <1>1, <1>7, OneEvent DEF Onward, p, g, e
<1>9. Homed'
  BY <1>1, <1>2, <1>3 DEF Homed, Omit
<1> QED
  BY <1>8, <1>9

\* A window that takes another app_id keeps the one it was announced with.
LEMMA RenameOnward ==
  ASSUME CompositorFits, Homed, NamedFits, NEW w \in Mapped, NEW app \in Apps,
         Rename(w, app)
  PROVE  Onward /\ Homed'
<1> DEFINE g == Goal'
           p == Goal
           e == Event("app_id", w, app)
           N == Names(app, named[w])
<1>1. /\ apps' = [apps EXCEPT ![w] = app] /\ named' = named /\ places' = places
      /\ focus' = focus /\ monitors' = monitors /\ Send(<<e>>)
  BY DEF Rename
<1>2. w \in Windows /\ DOMAIN apps = Mapped /\ DOMAIN Called = Mapped
  BY MappedWindows DEF Mapped, Called
<1>3. Mapped' = Mapped /\ Focused' = Focused
  BY <1>1 DEF Mapped, Focused
<1>4. Called' = [Called EXCEPT ![w] = N] /\ Called[w].first = named[w]
  <2> DEFINE C(l, f) == Names(l, f)
  <2>1. /\ Called' = [x \in Mapped |-> C(apps'[x], named[x])]
        /\ Called = [x \in Mapped |-> C(apps[x], named[x])]
    BY <1>1, <1>3 DEF Called
  <2>2. C(apps[w], named[w]).first = named[w] /\ N = C(app, named[w])
    BY DEF Names
  <2>3. \A x \in Mapped : apps'[x] = (IF x = w THEN app ELSE apps[x])
    BY <1>1, <1>2
  <2> HIDE DEF C, N
  <2> QED
    BY <2>1, <2>2, <2>3
<1>5. g = Held([Called EXCEPT ![w] = N], places, Mapped, Mapped, Focused, Focused, monitors)
  BY <1>1, <1>3, <1>4 DEF Goal
<1>6. /\ p.app = Called /\ p.out = places /\ p.titled = Mapped /\ p.told = Mapped
      /\ p.on = Focused /\ p.active = Focused /\ p.outs = monitors
  BY HeldIs DEF Goal
<1>7. e.kind = "app_id" /\ e.window = w /\ e.value = app /\ e \in Events
  BY <1>2 DEF Event, Events, Kinds, Values
<1>8. Mapped \union {w} = Mapped
  OBVIOUS
<1> HIDE DEF g, p, e
<1>9. Leads(e, p, g)
  BY <1>2, <1>4, <1>5, <1>6, <1>7, <1>8 DEF Leads
<1>10. Onward
  BY <1>1, <1>9, OneEvent DEF Onward, p, g
<1>11. Homed'
  BY <1>1, <1>3 DEF Homed
<1> QED
  BY <1>10, <1>11

\* The old and the new window are told in either order, and the store ends with the new
\* one: a window that is deactivated last counts only if no other is active.
LEMMA FocusOnward ==
  ASSUME CompositorFits, Homed, NEW w \in Mapped \union {None}, Focus(w)
  PROVE  Onward /\ Homed'
<1> DEFINE off == IF focus = None THEN <<>> ELSE <<Event("state", focus, FALSE)>>
           on  == IF w = None THEN <<>> ELSE <<Event("state", w, TRUE)>>
           p == Goal
           g == Goal'
<1>1. /\ w # focus /\ focus' = w /\ apps' = apps /\ places' = places /\ monitors' = monitors
      /\ Send(off \o on) \/ Send(on \o off)
      /\ Called' = Called
  BY CalledChanges DEF Focus
<1>2. /\ Mapped' = Mapped /\ focus \in Mapped \union {None}
      /\ \A x \in Mapped : x \in Windows /\ x # None
  BY <1>1, MappedWindows, NoneAssumption DEF Mapped, CompositorFits, Windows
<1> DEFINE F == IF focus = None THEN {} ELSE {focus}
           W == IF w = None THEN {} ELSE {w}
           S(on_, act) == Held(Called, places, Mapped, Mapped, on_, act, monitors)
<1>3. Focused = F /\ Focused' = W
  BY <1>1, <1>2 DEF Focused
<1>4. p = S(F, F) /\ g = S(W, W)
  BY <1>1, <1>2, <1>3 DEF Goal
<1>5. \A o, a : LET s == S(o, a) IN
         /\ s.app = Called /\ s.out = places /\ s.titled = Mapped /\ s.told = Mapped
         /\ s.on = o /\ s.active = a /\ s.outs = monitors
  BY HeldIs
<1> HIDE DEF p, g, S
<1>6. ASSUME NEW o, NEW a, w # None, w \notin o
      PROVE  Leads(Event("state", w, TRUE), S(o, a), S(o \union {w}, {w}))
  <2> DEFINE s == S(o, a)
  <2>1. /\ s.app = Called /\ s.out = places /\ s.titled = Mapped /\ s.told = Mapped
        /\ s.on = o /\ s.active = a /\ s.outs = monitors
    BY <1>5
  <2> HIDE DEF s
  <2>2. w \in Windows /\ w \in s.told /\ w \notin s.on
    BY <1>2, <1>6, <2>1
  <2>3. Leads(Event("state", w, TRUE), s,
              Held(s.app, s.out, s.titled, s.told, s.on \union {w}, {w}, s.outs))
    BY <2>2, Lighting
  <2> QED
    BY <2>1, <2>3 DEF s, S
<1>7. ASSUME NEW o, NEW a, focus # None, focus \in o
      PROVE  Leads(Event("state", focus, FALSE), S(o, a),
                   S(o \ {focus}, IF o = {focus} THEN {} ELSE a))
  <2> DEFINE s == S(o, a)
  <2>1. /\ s.app = Called /\ s.out = places /\ s.titled = Mapped /\ s.told = Mapped
        /\ s.on = o /\ s.active = a /\ s.outs = monitors
    BY <1>5
  <2> HIDE DEF s
  <2>2. focus \in Windows /\ focus \in s.told /\ focus \in s.on
    BY <1>2, <1>7, <2>1
  <2>3. Leads(Event("state", focus, FALSE), s,
              Held(s.app, s.out, s.titled, s.told, s.on \ {focus},
                   IF s.on = {focus} THEN {} ELSE s.active, s.outs))
    BY <2>2, Dimming
  <2> QED
    BY <2>1, <2>3 DEF s, S
<1>8. off \in Seq(Events) /\ on \in Seq(Events)
  <2>1. ASSUME w # None PROVE Event("state", w, TRUE) \in Events
    BY <1>2, <2>1 DEF Event, Events, Kinds, Values
  <2>2. ASSUME focus # None PROVE Event("state", focus, FALSE) \in Events
    BY <1>2, <2>2 DEF Event, Events, Kinds, Values
  <2>3. on \in Seq(Events)
    <3>1. CASE w = None
      BY <3>1
    <3>2. CASE w # None
      <4> DEFINE e == Event("state", w, TRUE)
      <4>1. on = <<e>> /\ e \in Events
        BY <2>1, <3>2
      <4> HIDE DEF e, on
      <4> QED
        BY <4>1
    <3> QED
      BY <3>1, <3>2
  <2>4. off \in Seq(Events)
    <3>1. CASE focus = None
      BY <3>1
    <3>2. CASE focus # None
      <4> DEFINE e == Event("state", focus, FALSE)
      <4>1. off = <<e>> /\ e \in Events
        BY <2>2, <3>2
      <4> HIDE DEF e, off
      <4> QED
        BY <4>1
    <3> QED
      BY <3>1, <3>2
  <2> QED
    BY <2>3, <2>4
<1>9. Journey(p, off \o on, g) /\ off \o on \in Seq(Events)
  <2>1. Journey(S(F, F), off, S({}, {}))
    <3>1. CASE focus = None
      BY <3>1, NoJourney
    <3>2. CASE focus # None
      <4>1. Leads(Event("state", focus, FALSE), S(F, F), S({}, {}))
        <5>1. F = {focus} /\ F \ {focus} = {}
          BY <3>2
        <5>2. Leads(Event("state", focus, FALSE), S(F, F),
                    S(F \ {focus}, IF F = {focus} THEN {} ELSE F))
          BY <1>7, <3>2, <5>1
        <5> HIDE DEF F
        <5> QED
          BY <5>1, <5>2
      <4> QED
        BY <3>2, <4>1, OneEvent
    <3> QED
      BY <3>1, <3>2
  <2>2. Journey(S({}, {}), on, S(W, W))
    <3>1. CASE w = None
      BY <3>1, NoJourney
    <3>2. CASE w # None
      <4>1. W = {w} /\ {} \union {w} = {w}
        BY <3>2
      <4>2. Leads(Event("state", w, TRUE), S({}, {}), S({} \union {w}, {w}))
        BY <1>6, <3>2
      <4> HIDE DEF W
      <4>3. Leads(Event("state", w, TRUE), S({}, {}), S(W, W))
        BY <4>1, <4>2
      <4> QED
        BY <3>2, <4>3, OneEvent
    <3> QED
      BY <3>1, <3>2
  <2> HIDE DEF off, on, F, W
  <2> QED
    BY <1>4, <1>8, <2>1, <2>2, JourneyOn
<1>10. Journey(p, on \o off, g) /\ on \o off \in Seq(Events)
  <2> DEFINE M == F \union W
             A == IF w = None THEN F ELSE {w}
  <2>1. Journey(S(F, F), on, S(M, A))
    <3>1. CASE w = None
      <4>1. M = F /\ A = F /\ on = <<>>
        BY <3>1
      <4> HIDE DEF M, A, on, F
      <4> QED
        BY <4>1, NoJourney
    <3>2. CASE w # None
      <4>1. W = {w} /\ M = F \union {w} /\ A = {w} /\ w \notin F /\ on = <<Event("state", w, TRUE)>>
        BY <1>1, <3>2
      <4> HIDE DEF W, F, M, A, on
      <4>2. Leads(Event("state", w, TRUE), S(F, F), S(M, A))
        BY <1>6, <3>2, <4>1
      <4> QED
        BY <4>1, <4>2, OneEvent
    <3> QED
      BY <3>1, <3>2
  <2>2. Journey(S(M, A), off, S(W, W))
    <3>1. CASE focus = None
      <4>1. F = {} /\ M = W /\ A = W /\ off = <<>>
        BY <1>1, <3>1
      <4> HIDE DEF M, A, off, F, W
      <4> QED
        BY <4>1, NoJourney
    <3>2. CASE focus # None
      <4>1. /\ focus \in M /\ M \ {focus} = W
            /\ (IF M = {focus} THEN {} ELSE A) = W
            /\ off = <<Event("state", focus, FALSE)>>
        <5>1. off = <<Event("state", focus, FALSE)>> /\ focus \in M
          BY <3>2
        <5>2. M \ {focus} = W
          BY <1>1, <3>2
        <5>3. (IF M = {focus} THEN {} ELSE A) = W
          <6>1. CASE w = None
            <7>1. M = {focus} /\ W = {}
              BY <3>2, <6>1
            <7> HIDE DEF M, W, A
            <7> QED
              BY <7>1
          <6>2. CASE w # None
            <7>1. w \in M /\ w # focus /\ A = {w} /\ W = {w}
              BY <1>1, <6>2
            <7> HIDE DEF M, W, A
            <7> QED
              BY <7>1
          <6> QED
            BY <6>1, <6>2
        <5> HIDE DEF M, W, A, off
        <5> QED
          BY <5>1, <5>2, <5>3
      <4> HIDE DEF W, F, M, A, off
      <4>2. Leads(Event("state", focus, FALSE), S(M, A), S(W, W))
        BY <1>7, <3>2, <4>1
      <4> QED
        BY <4>1, <4>2, OneEvent
    <3> QED
      BY <3>1, <3>2
  <2> HIDE DEF off, on, F, W, M, A
  <2> QED
    BY <1>4, <1>8, <2>1, <2>2, JourneyOn
<1>11. Onward
  <2> HIDE DEF off, on
  <2> QED
    BY <1>1, <1>9, <1>10 DEF Onward, p, g
<1>12. Homed'
  BY <1>1, <1>2 DEF Homed
<1> QED
  BY <1>11, <1>12

\* The places when the windows of s up to k have gone to m.
Shifted(s, k, m) == [x \in Mapped |-> IF \E i \in 1 .. k : s[i] = x THEN m ELSE places[x]]

\* The client with the windows there.
HeldWith(out, outs) == Held(Called, out, Mapped, Mapped, Focused, Focused, outs)

\* Each window of the list goes once.
LEMMA Shifting ==
  ASSUME CompositorFits, NEW s \in Seq(Mapped), IsInjective(s), NEW m
  PROVE  /\ Shifted(s, 0, m) = places
         /\ Shifted(s, Len(s), m) = [x \in Mapped |-> IF x \in ToSet(s) THEN m ELSE places[x]]
         /\ \A k \in 1 .. Len(s) :
              /\ s[k] \in Mapped
              /\ Shifted(s, k - 1, m)[s[k]] = places[s[k]]
              /\ Shifted(s, k, m) = [Shifted(s, k - 1, m) EXCEPT ![s[k]] = m]
<1>1. Len(s) \in Nat /\ DOMAIN s = 1 .. Len(s) /\ \A k \in 1 .. Len(s) : s[k] \in Mapped
  OBVIOUS
<1>2. Shifted(s, 0, m) = places
  <2>1. \A i \in 1 .. 0 : FALSE
    OBVIOUS
  <2>2. places = [x \in Mapped |-> places[x]]
    BY DEF CompositorFits
  <2> QED
    BY <2>1, <2>2 DEF Shifted
<1>3. Shifted(s, Len(s), m) = [x \in Mapped |-> IF x \in ToSet(s) THEN m ELSE places[x]]
  BY <1>1 DEF Shifted, ToSet
<1>4. ASSUME NEW k \in 1 .. Len(s)
      PROVE  /\ Shifted(s, k - 1, m)[s[k]] = places[s[k]]
             /\ Shifted(s, k, m) = [Shifted(s, k - 1, m) EXCEPT ![s[k]] = m]
  <2>1. \A i \in 1 .. k - 1 : s[i] # s[k]
    BY <1>1 DEF IsInjective
  <2>2. \A x : (\E i \in 1 .. k : s[i] = x) <=> x = s[k] \/ \E i \in 1 .. k - 1 : s[i] = x
    BY <1>1
  <2>3. s[k] \in Mapped
    BY <1>1
  <2> QED
    BY <2>1, <2>2, <2>3 DEF Shifted
<1> QED
  BY <1>1, <1>2, <1>3, <1>4

\* The windows of a set in some order.
LEMMA WindowsListed ==
  ASSUME CompositorFits, NEW S, S \subseteq Mapped
  PROVE  /\ SetToSeq(S) \in Seq(Mapped) /\ IsInjective(SetToSeq(S))
         /\ ToSet(SetToSeq(S)) = S
<1>1. IsFiniteSet(S)
  BY MappedWindows, FS_Subset
<1>2. Enumerates(S, SetToSeq(S))
  BY <1>1, SetToSeqEnumerates
<1> QED
  BY <1>2 DEF Enumerates

\* The parts of what is held when the windows are at out.
LEMMA HeldWithIs ==
  ASSUME NEW out, NEW outs
  PROVE  LET p == HeldWith(out, outs) IN
         /\ p.app = Called /\ p.out = out /\ p.titled = Mapped /\ p.told = Mapped
         /\ p.on = Focused /\ p.active = Focused /\ p.outs = outs
         /\ p = Held(p.app, out, p.titled, p.told, p.on, p.active, outs)
BY DEF Held, HeldWith

\* One window enters a monitor where the others are at out.
LEMMA EnteringOne ==
  ASSUME CompositorFits, NEW w \in Mapped, NEW m \in Monitors, NEW out, NEW outs,
         m \in ToSet(outs)
  PROVE  Leads(Event("enter", w, m), HeldWith(out, outs),
               HeldWith([out EXCEPT ![w] = m], outs))
<1> DEFINE p == HeldWith(out, outs)
<1>1. /\ p.app = Called /\ p.out = out /\ p.titled = Mapped /\ p.told = Mapped
      /\ p.on = Focused /\ p.active = Focused /\ p.outs = outs
  BY HeldWithIs
<1> HIDE DEF p
<1>2. w \in Windows
  BY MappedWindows
<1>3. Leads(Event("enter", w, m), p,
            Held(p.app, [p.out EXCEPT ![w] = m], p.titled, p.told, p.on, p.active, p.outs))
  BY <1>1, <1>2, Entering
<1> QED
  BY <1>1, <1>3 DEF p, HeldWith

\* One window leaves it.
LEMMA LeavingOne ==
  ASSUME CompositorFits, NEW w \in Mapped, NEW m \in Monitors, NEW out, NEW outs,
         m \in ToSet(outs), out[w] = m
  PROVE  Leads(Event("leave", w, m), HeldWith(out, outs),
               HeldWith([out EXCEPT ![w] = None], outs))
<1> DEFINE p == HeldWith(out, outs)
<1>1. /\ p.app = Called /\ p.out = out /\ p.titled = Mapped /\ p.told = Mapped
      /\ p.on = Focused /\ p.active = Focused /\ p.outs = outs
  BY HeldWithIs
<1> HIDE DEF p
<1>2. w \in Windows
  BY MappedWindows
<1>3. Leads(Event("leave", w, m), p,
            Held(p.app, [p.out EXCEPT ![w] = None], p.titled, p.told, p.on, p.active, p.outs))
  BY <1>1, <1>2, Leaving
<1> QED
  BY <1>1, <1>3 DEF p, HeldWith

\* A monitor comes or goes.
LEMMA ComingAndGoing ==
  ASSUME NEW m \in Monitors, NEW out, NEW outs
  PROVE  /\ Leads(Event("global", None, m), HeldWith(out, outs),
                  HeldWith(out, Append(outs, m)))
         /\ Leads(Event("global_remove", None, m), HeldWith(out, outs),
                  HeldWith(out, RemoveFirst(outs, m)))
<1> DEFINE p == HeldWith(out, outs)
           e == Event("global", None, m)
           f == Event("global_remove", None, m)
<1>1. /\ p.app = Called /\ p.out = out /\ p.titled = Mapped /\ p.told = Mapped
      /\ p.on = Focused /\ p.active = Focused /\ p.outs = outs
  BY HeldWithIs
<1>2. /\ e.kind = "global" /\ e.value = m /\ e \in Events
      /\ f.kind = "global_remove" /\ f.value = m /\ f \in Events
  BY DEF Event, Events, Kinds, Values
<1> HIDE DEF p, e, f
<1>3. Leads(e, p, Held(p.app, p.out, p.titled, p.told, p.on, p.active, Append(p.outs, m)))
  BY <1>2 DEF Leads
<1>4. Leads(f, p, Held(p.app, p.out, p.titled, p.told, p.on, p.active, RemoveFirst(p.outs, m)))
  BY <1>2 DEF Leads
<1> QED
  BY <1>1, <1>3, <1>4 DEF p, e, f, HeldWith

\* Windows go to a monitor one by one.
LEMMA EnteringAll ==
  ASSUME CompositorFits, NEW s \in Seq(Mapped), IsInjective(s), NEW m \in Monitors,
         NEW outs,
         m \in ToSet(outs)
  PROVE  LET evs == [i \in DOMAIN s |-> Event("enter", s[i], m)] IN
         /\ evs \in Seq(Events)
         /\ Journey(HeldWith(places, outs), evs, HeldWith(Shifted(s, Len(s), m), outs))
<1> DEFINE n == Len(s)
           e(i) == Event("enter", s[i], m)
           evs == [i \in DOMAIN s |-> e(i)]
           r == [i \in 0 .. n |-> HeldWith(Shifted(s, i, m), outs)]
<1>1. n \in Nat /\ DOMAIN s = 1 .. n /\ \A i \in 1 .. n : s[i] \in Mapped
  OBVIOUS
<1>2. \A i \in 1 .. n : e(i) \in Events
  BY <1>1, MappedWindows DEF Event, Events, Kinds, Values
<1> HIDE DEF e, n
<1>3. evs = [i \in 1 .. n |-> e(i)]
  BY <1>1
<1>4. [i \in 1 .. n |-> e(i)] \in Seq(Events)
  BY <1>1, <1>2, IsASeq
<1>5. evs \in Seq(Events) /\ Len(evs) = n /\ \A i \in 1 .. n : evs[i] = e(i)
  BY <1>1, <1>3, <1>4
<1> HIDE DEF evs
<1>6. \A i \in 0 .. n : r[i] = HeldWith(Shifted(s, i, m), outs)
  OBVIOUS
<1> HIDE DEF r
<1>7. ASSUME NEW i \in 1 .. n PROVE Leads(evs[i], r[i - 1], r[i])
  <2>1. i - 1 \in 0 .. n /\ i \in 0 .. n
    BY <1>1
  <2>2. Shifted(s, i, m) = [Shifted(s, i - 1, m) EXCEPT ![s[i]] = m]
    BY <1>1, Shifting DEF n
  <2>3. Leads(Event("enter", s[i], m), HeldWith(Shifted(s, i - 1, m), outs),
              HeldWith([Shifted(s, i - 1, m) EXCEPT ![s[i]] = m], outs))
    BY <1>1, EnteringOne
  <2>4. evs[i] = Event("enter", s[i], m)
    BY <1>5 DEF e
  <2> QED
    BY <1>6, <2>1, <2>2, <2>3, <2>4
<1>8. r[0] = HeldWith(places, outs) /\ r[n] = HeldWith(Shifted(s, n, m), outs)
  <2>1. 0 \in 0 .. n /\ n \in 0 .. n
    BY <1>1
  <2>2. Shifted(s, 0, m) = places
    BY Shifting
  <2> QED
    BY <1>6, <2>1, <2>2
<1>9. Journey(HeldWith(places, outs), evs, HeldWith(Shifted(s, n, m), outs))
  BY <1>5, <1>7, <1>8 DEF Journey
<1> QED
  BY <1>5, <1>9 DEF evs, e, n

\* The monitor comes before the windows that enter it.
LEMMA PlugOnward ==
  ASSUME CompositorFits, Homed, NEW m \in Monitors, Plug(m)
  PROVE  Onward /\ Homed'
<1> DEFINE S == {w \in Mapped : places[w] = None}
           s == SetToSeq(S)
           first == <<Event("global", None, m)>>
           rest == [i \in DOMAIN s |-> Event("enter", s[i], m)]
           outs == Append(monitors, m)
<1>1. /\ m \notin ToSet(monitors) /\ monitors' = outs
      /\ places' = [w \in Mapped |-> IF places[w] = None THEN m ELSE places[w]]
      /\ apps' = apps /\ Called' = Called /\ focus' = focus /\ Send(first \o rest)
  BY CalledChanges DEF Plug
<1>2. s \in Seq(Mapped) /\ IsInjective(s) /\ ToSet(s) = S
  BY WindowsListed
<1>3. /\ outs \in Seq(Monitors) /\ ToSet(outs) = ToSet(monitors) \union {m}
      /\ IsInjective(outs)
  BY <1>1, AppendResult DEF CompositorFits, Homed
<1>4. Mapped' = Mapped /\ Focused' = Focused
  BY <1>1 DEF Mapped, Focused
<1>5. Shifted(s, Len(s), m) = places'
  BY <1>1, <1>2, Shifting
<1> HIDE DEF s, outs
<1>6. rest \in Seq(Events) /\ Journey(HeldWith(places, outs), rest, HeldWith(places', outs))
  <2>1. m \in ToSet(outs)
    BY <1>3
  <2> QED
    BY <1>2, <1>5, <2>1, EnteringAll
<1> HIDE DEF rest
<1>7. first \in Seq(Events) /\ Journey(HeldWith(places, monitors), first, HeldWith(places, outs))
  BY ComingAndGoing, OneEvent DEF outs
<1> HIDE DEF first
<1>8. first \o rest \in Seq(Events)
      /\ Journey(HeldWith(places, monitors), first \o rest, HeldWith(places', outs))
  BY <1>6, <1>7, JourneyOn
<1>9. HeldWith(places, monitors) = Goal /\ HeldWith(places', outs) = Goal'
  BY <1>1, <1>4 DEF HeldWith, Goal
<1>10. Onward
  BY <1>1, <1>8, <1>9 DEF Onward
<1>11. Homed'
  <2>1. Homes(outs) = ToSet(outs)
    <3>1. outs # <<>>
      BY <1>3 DEF ToSet
    <3> QED
      BY <3>1 DEF Homes
  <2>2. ASSUME NEW x \in Mapped PROVE places'[x] \in ToSet(outs)
    <3>1. places[x] \in ToSet(monitors) \union {None}
      BY DEF Homed, Homes
    <3> QED
      BY <1>1, <1>3, <3>1
  <2> QED
    BY <1>1, <1>3, <1>4, <2>1, <2>2 DEF Homed
<1> QED
  BY <1>10, <1>11

\* One window leaves the monitor that goes.
LEMMA ShiftingOne ==
  ASSUME CompositorFits, NEW w \in Mapped, places[w] \in Monitors,
         NEW home \in Monitors \union {None}, NEW outs, places[w] \in ToSet(outs),
         home # None => home \in ToSet(outs), NEW out, out \in [Mapped -> Monitors \union {None}],
         out[w] = places[w]
  PROVE  LET evs == Leaves(w) \o Enters(w, home) IN
         /\ evs \in Seq(Events)
         /\ Journey(HeldWith(out, outs), evs, HeldWith([out EXCEPT ![w] = home], outs))
<1> DEFINE a == <<Event("leave", w, places[w])>>
           p == HeldWith(out, outs)
           q == HeldWith([out EXCEPT ![w] = None], outs)
           g == HeldWith([out EXCEPT ![w] = home], outs)
<1>1. Leaves(w) = a
  BY NoneAssumption DEF Leaves
<1>2. Journey(p, a, q) /\ a \in Seq(Events)
  BY LeavingOne, OneEvent
<1>3. Journey(q, Enters(w, home), g) /\ Enters(w, home) \in Seq(Events)
  <2>1. CASE home = None
    <3>1. Enters(w, home) = <<>> /\ q = g
      BY <2>1 DEF Enters
    <3> HIDE DEF q, g
    <3> QED
      BY <3>1, NoJourney
  <2>2. CASE home # None
    <3> DEFINE b == <<Event("enter", w, home)>>
               h == HeldWith([[out EXCEPT ![w] = None] EXCEPT ![w] = home], outs)
    <3>1. Journey(q, b, h) /\ b \in Seq(Events)
      BY <2>2, EnteringOne, OneEvent
    <3>2. [[out EXCEPT ![w] = None] EXCEPT ![w] = home] = [out EXCEPT ![w] = home]
      OBVIOUS
    <3>3. h = g /\ Enters(w, home) = b
      BY <2>2, <3>2 DEF Enters
    <3> HIDE DEF q, g, h, b
    <3> QED
      BY <3>1, <3>3
  <2> QED
    BY <2>1, <2>2
<1> HIDE DEF a, p, q, g
<1>4. Journey(p, a \o Enters(w, home), g) /\ a \o Enters(w, home) \in Seq(Events)
  BY <1>2, <1>3, JourneyOn
<1> QED
  BY <1>1, <1>4 DEF p, g

\* The windows leave before the monitor does.
LEMMA UnplugOnward ==
  ASSUME CompositorFits, Homed, NEW m \in ToSet(monitors), Unplug(m)
  PROVE  Onward /\ Homed'
<1> DEFINE S == {w \in Mapped : places[w] = m}
           s == SetToSeq(S)
           n == Len(s)
           rest == RemoveFirst(monitors, m)
           last == <<Event("global_remove", None, m)>>
           moves(home) == [i \in DOMAIN s |-> Leaves(s[i]) \o Enters(s[i], home)]
<1>1. monitors' = rest /\ apps' = apps /\ Called' = Called /\ focus' = focus
  BY CalledChanges DEF Unplug
<1>2. PICK home \in Homes(rest) :
        /\ places' = [w \in Mapped |-> IF places[w] = m THEN home ELSE places[w]]
        /\ Send(FlattenSeq(moves(home)) \o last)
  BY DEF Unplug
<1>3. s \in Seq(Mapped) /\ IsInjective(s) /\ ToSet(s) = S
  BY WindowsListed
<1>4. /\ m \in Monitors /\ rest \in Seq(Monitors) /\ IsInjective(rest)
      /\ ToSet(rest) = ToSet(monitors) \ {m}
  BY RemoveFirstResult DEF CompositorFits, Homed, ToSet
<1>5. Mapped' = Mapped /\ Focused' = Focused
  BY <1>1 DEF Mapped, Focused
<1>6. Shifted(s, n, home) = places'
  BY <1>2, <1>3, Shifting
<1>7. home \in Monitors \union {None} /\ (home # None => home \in ToSet(monitors))
  <2>1. ToSet(rest) \subseteq Monitors
    BY <1>4 DEF ToSet
  <2> HIDE DEF rest
  <2> QED
    BY <1>4, <2>1 DEF Homes
<1>8. n \in Nat /\ DOMAIN s = 1 .. n /\ \A i \in 1 .. n : s[i] \in Mapped /\ places[s[i]] = m
  <2>1. n \in Nat /\ DOMAIN s = 1 .. n
    BY <1>3
  <2>2. \A i \in 1 .. n : s[i] \in ToSet(s)
    BY <2>1 DEF ToSet
  <2> HIDE DEF s
  <2> QED
    BY <1>3, <2>1, <2>2
<1> HIDE DEF s, rest, n
<1> DEFINE seqs == moves(home)
           r == [i \in 0 .. n |-> HeldWith(Shifted(s, i, home), monitors)]
           e(i) == Leaves(s[i]) \o Enters(s[i], home)
<1>9. ASSUME NEW i \in 1 .. n
      PROVE  /\ e(i) \in Seq(Events)
             /\ Journey(HeldWith(Shifted(s, i - 1, home), monitors), e(i),
                        HeldWith(Shifted(s, i, home), monitors))
  <2> DEFINE out == Shifted(s, i - 1, home)
  <2>1. s[i] \in Mapped /\ out[s[i]] = places[s[i]] /\ places[s[i]] = m
        /\ Shifted(s, i, home) = [out EXCEPT ![s[i]] = home]
    <3>1. home \in Monitors \union {None} /\ i \in 1 .. Len(s)
      BY <1>7 DEF n
    <3>2. /\ s[i] \in Mapped /\ Shifted(s, i - 1, home)[s[i]] = places[s[i]]
          /\ Shifted(s, i, home) = [Shifted(s, i - 1, home) EXCEPT ![s[i]] = home]
      <4>1. \A k \in 1 .. Len(s) :
              /\ s[k] \in Mapped
              /\ Shifted(s, k - 1, home)[s[k]] = places[s[k]]
              /\ Shifted(s, k, home) = [Shifted(s, k - 1, home) EXCEPT ![s[k]] = home]
        BY <1>3, Shifting
      <4> QED
        BY <3>1, <4>1
    <3> QED
      BY <1>8, <3>2
  <2>2. out \in [Mapped -> Monitors \union {None}]
    BY <1>7 DEF Shifted, CompositorFits
  <2> HIDE DEF out
  <2>3. /\ e(i) \in Seq(Events)
        /\ Journey(HeldWith(out, monitors), e(i),
                   HeldWith([out EXCEPT ![s[i]] = home], monitors))
    BY <1>4, <1>7, <2>1, <2>2, ShiftingOne
  <2> HIDE DEF e
  <2> QED
    BY <2>1, <2>3 DEF out
<1>10. seqs \in Seq(Seq(Events)) /\ Len(seqs) = n /\ \A i \in 1 .. n : seqs[i] = e(i)
  <2> HIDE DEF e
  <2>1. seqs = [i \in 1 .. n |-> e(i)]
    BY <1>8 DEF e
  <2> HIDE DEF seqs
  <2>2. [i \in 1 .. n |-> e(i)] \in Seq(Seq(Events))
    BY <1>8, <1>9, IsASeq
  <2>3. seqs \in Seq(Seq(Events)) /\ \A i \in 1 .. n : seqs[i] = e(i)
    BY <2>1, <2>2
  <2>4. seqs = [i \in 1 .. n |-> seqs[i]]
    BY <2>1
  <2>5. Len(seqs) = n
    BY <1>8, <2>4, LengthIs
  <2> QED
    BY <2>3, <2>5
<1> HIDE DEF seqs, e
<1>11. \A i \in 0 .. n : r[i] = HeldWith(Shifted(s, i, home), monitors)
  OBVIOUS
<1> HIDE DEF r
<1>12. ASSUME NEW i \in 1 .. Len(seqs) PROVE Journey(r[i - 1], seqs[i], r[i])
  <2>1. i \in 1 .. n /\ i - 1 \in 0 .. n /\ i \in 0 .. n
    BY <1>8, <1>10
  <2> QED
    BY <1>9, <1>10, <1>11, <2>1
<1>13. FlattenSeq(seqs) \in Seq(Events) /\ Journey(r[0], FlattenSeq(seqs), r[n])
  <2>1. Journey(r[0], FlattenSeq(seqs), r[Len(seqs)]) /\ FlattenSeq(seqs) \in Seq(Events)
    BY <1>10, <1>12, JourneyOfAll
  <2> QED
    BY <1>10, <2>1
<1>14. r[0] = HeldWith(places, monitors) /\ r[n] = HeldWith(places', monitors)
  <2>1. 0 \in 0 .. n /\ n \in 0 .. n
    BY <1>8
  <2>2. Shifted(s, 0, home) = places
    BY <1>3, Shifting
  <2> QED
    BY <1>6, <1>11, <2>1, <2>2
<1>15. last \in Seq(Events)
       /\ Journey(HeldWith(places', monitors), last, HeldWith(places', rest))
  BY <1>4, ComingAndGoing, OneEvent DEF rest
<1> HIDE DEF last
<1> DEFINE evs == FlattenSeq(seqs) \o last
<1>16. evs \in Seq(Events) /\ Journey(HeldWith(places, monitors), evs, HeldWith(places', rest))
  BY <1>13, <1>14, <1>15, JourneyOn
<1>17. HeldWith(places, monitors) = Goal /\ HeldWith(places', rest) = Goal'
  BY <1>1, <1>5 DEF HeldWith, Goal
<1>18. Send(evs)
  BY <1>2 DEF seqs
<1>19. Onward
  <2> HIDE DEF evs
  <2> QED
    BY <1>16, <1>17, <1>18 DEF Onward
<1>20. Homed'
  <2>1. ASSUME NEW x \in Mapped PROVE places'[x] \in Homes(rest)
    <3>1. monitors # <<>>
      BY DEF ToSet
    <3>2. places[x] \in ToSet(monitors)
      BY <3>1 DEF Homed, Homes
    <3>3. CASE places[x] = m
      BY <1>2, <3>3
    <3>4. CASE places[x] # m
      <4>1. places[x] \in ToSet(rest)
        BY <1>4, <3>2, <3>4
      <4>2. rest # <<>>
        BY <4>1 DEF ToSet
      <4> QED
        BY <1>2, <3>4, <4>1, <4>2 DEF Homes
    <3> QED
      BY <3>3, <3>4
  <2> QED
    BY <1>1, <1>4, <1>5, <2>1 DEF Homed
<1> QED
  BY <1>19, <1>20

-----------------------------------------------------------------------------
(***************************************************************************)
(* The bars stay in their places unless the outputs change, and then they  *)
(* are built on the new ones.                                              *)
(***************************************************************************)
\* Every step of the compositor.
LEMMA CompositorOnward ==
  ASSUME CompositorFits, Homed, NamedFits, Compositor
  PROVE  Onward /\ Homed'
<1>1. ASSUME NEW app \in Apps, NEW m \in Homes(monitors), MapWindow(app, m)
      PROVE  Onward /\ Homed'
  BY <1>1, MapOnward
<1>2. ASSUME NEW w \in Mapped, Unmap(w) PROVE Onward /\ Homed'
  BY <1>2, UnmapOnward
<1>3. ASSUME NEW w \in Mapped \union {None}, Focus(w) PROVE Onward /\ Homed'
  BY <1>3, FocusOnward
<1>4. ASSUME NEW w \in Mapped, NEW m \in ToSet(monitors), MoveWindow(w, m)
      PROVE  Onward /\ Homed'
  BY <1>4, MoveOnward
<1>5. ASSUME NEW m \in Monitors, Plug(m) PROVE Onward /\ Homed'
  BY <1>5, PlugOnward
<1>6. ASSUME NEW m \in ToSet(monitors), Unplug(m) PROVE Onward /\ Homed'
  BY <1>6, UnplugOnward
<1>7. ASSUME NEW w \in Mapped, NEW app \in Apps, Rename(w, app) PROVE Onward /\ Homed'
  BY <1>7, RenameOnward
<1> QED
  BY <1>1, <1>2, <1>3, <1>4, <1>5, <1>6, <1>7 DEF Compositor

\* The compositor keeps the name of each window it has.
LEMMA CompositorNames ==
  ASSUME CompositorFits, NamedFits, Compositor
  PROVE  NamedFits'
<1>1. ASSUME NEW app \in Apps, NEW m \in Homes(monitors), MapWindow(app, m)
      PROVE  NamedFits'
  BY <1>1 DEF MapWindow, NamedFits, Mapped, Extend, clientVars
<1>2. ASSUME NEW w \in Mapped, Unmap(w) PROVE NamedFits'
  BY <1>2 DEF Unmap, NamedFits, Mapped, Omit, clientVars
<1>3. ASSUME NEW w \in Mapped, NEW app \in Apps, Rename(w, app) PROVE NamedFits'
  BY <1>3 DEF Rename, NamedFits, Mapped, clientVars
<1>4. ASSUME UNCHANGED <<apps, named, bound>> PROVE NamedFits'
  BY <1>4 DEF NamedFits, Mapped
<1>5. ASSUME NEW w \in Mapped \union {None}, Focus(w) PROVE NamedFits'
  BY <1>4, <1>5 DEF Focus, clientVars
<1>6. ASSUME NEW w \in Mapped, NEW m \in ToSet(monitors), MoveWindow(w, m) PROVE NamedFits'
  BY <1>4, <1>6 DEF MoveWindow, clientVars
<1>7. ASSUME NEW m \in Monitors, Plug(m) PROVE NamedFits'
  BY <1>4, <1>7 DEF Plug, clientVars
<1>8. ASSUME NEW m \in ToSet(monitors), Unplug(m) PROVE NamedFits'
  BY <1>4, <1>8 DEF Unplug, clientVars
<1> QED
  BY <1>1, <1>2, <1>3, <1>5, <1>6, <1>7, <1>8 DEF Compositor

\* What the client holds now.
Titled    == {w \in DOMAIN list : list[w].title # None}
Told      == {w \in DOMAIN list : list[w].announced}
Activated == {w \in DOMAIN list : list[w].activated = TRUE}
Active    == {w \in DOMAIN toplevels : toplevels[w].activated = TRUE}
Heard     == [w \in DOMAIN list |->
                Names(list[w].app_id, IF list[w].announced THEN toplevels[w].app_id
                                      ELSE list[w].app_id)]
Now == Held(Heard, [w \in DOMAIN list |-> list[w].output],
            Titled, Told, Activated, Active, outputs)

\* The store has the output that the list has, except that a leave does not reach it.
StoreMirrors ==
  /\ \A w \in DOMAIN list :
       /\ list[w].activated \in BOOLEAN
       /\ list[w].announced \/ list[w].output = None
       /\ list[w].announced => list[w].app_id # None
  /\ \A w \in DOMAIN toplevels :
       list[w].output = None \/ toplevels[w].output = list[w].output

\* The bars stand on the outputs, one on each or one for all.
BarsPlaced(bs, ms) ==
  IF ~MultiMonitor \/ ms = <<>> THEN Len(bs) = 1 /\ bs[1].only_output = None
  ELSE /\ Len(bs) = Len(ms)
       /\ \A i \in 1 .. Len(ms) : bs[i].only_output = IF PerMonitorApps THEN ms[i] ELSE None

\* The bars have changed, but not where they stand.
SamePlaces(bs, new) ==
  /\ Len(new) = Len(bs) /\ DOMAIN new = DOMAIN bs
  /\ \A i \in DOMAIN bs : new[i].only_output = bs[i].only_output

\* Bars that keep their places are placed as before.
LEMMA StillPlaced ==
  ASSUME NEW bs, NEW new, NEW ms, BarsPlaced(bs, ms), SamePlaces(bs, new),
         Len(bs) \in Nat, DOMAIN bs = 1 .. Len(bs)
  PROVE  BarsPlaced(new, ms)
<1>1. CASE ~MultiMonitor \/ ms = <<>>
  BY <1>1 DEF BarsPlaced, SamePlaces
<1>2. CASE ~(~MultiMonitor \/ ms = <<>>)
  BY <1>2 DEF BarsPlaced, SamePlaces
<1> QED
  BY <1>1, <1>2

\* A change that every bar takes moves none of them.
LEMMA EachBarInPlace ==
  ASSUME NEW new, DOMAIN bars = 1 .. Len(bars), Len(bars) \in Nat,
         new = [i \in DOMAIN bars |-> new[i]],
         \A i \in DOMAIN bars : SameBar(bars[i], new[i])
  PROVE  SamePlaces(bars, new)
<1>1. Len(new) = Len(bars) /\ DOMAIN new = DOMAIN bars
  BY LengthIs
<1> QED
  BY <1>1 DEF SamePlaces, SameBar

\* The handlers of a window leave every bar where it is.
LEMMA OnNewInPlace ==
  ASSUME PanelInv, NEW w \in DOMAIN list, list'[w].announced => list'[w].app_id \in Apps,
         OnNew(w)
  PROVE  SamePlaces(bars, bars')
<1>1. DOMAIN bars = 1 .. Len(bars) /\ Len(bars) \in Nat
      /\ \A i \in DOMAIN bars : GoodBar(bars[i]) /\ Follows(bars[i], toplevels)
  BY DEF PanelInv, BarsFine, Fine
<1>2. CASE list'[w].announced /\ ~list[w].announced
  <2> DEFINE t == [app_id |-> list'[w].app_id, activated |-> FALSE, output |-> None]
  <2>1. bars' = [i \in DOMAIN bars |-> BarAdded(bars[i], w, t)] /\ t.app_id \in Apps
    BY <1>2 DEF OnNew, EachBar
  <2> HIDE DEF t
  <2>2. w \notin DOMAIN toplevels /\ w \in Windows
    BY <1>2, MappedWindows DEF PanelInv, StoreFits, LinkFits
  <2>3. \A i \in DOMAIN bars : SameBar(bars[i], BarAdded(bars[i], w, t))
    BY <1>1, <2>1, <2>2, AddedKeeps DEF Follows
  <2>4. bars' = [i \in DOMAIN bars |-> bars'[i]] /\ \A i \in DOMAIN bars : SameBar(bars[i], bars'[i])
    BY <2>1, <2>3
  <2> QED
    BY <1>1, <2>4, EachBarInPlace
<1>3. CASE ~(list'[w].announced /\ ~list[w].announced)
  BY <1>3 DEF OnNew, barVars, SamePlaces
<1> QED
  BY <1>2, <1>3

\* The callback for the focus.
LEMMA OnFocusInPlace ==
  ASSUME PanelInv, NEW id, OnFocus(id)
  PROVE  SamePlaces(bars, bars')
<1>1. DOMAIN bars = 1 .. Len(bars) /\ Len(bars) \in Nat
      /\ \A i \in DOMAIN bars : GoodBar(bars[i])
  BY DEF PanelInv, BarsFine, Fine
<1>2. bars' = [i \in DOMAIN bars |-> BarFocused(bars[i], id)]
  BY DEF OnFocus, EachBar
<1>3. bars' = [i \in DOMAIN bars |-> bars'[i]] /\ \A i \in DOMAIN bars : SameBar(bars[i], bars'[i])
  BY <1>1, <1>2, FocusedKeeps
<1> QED
  BY <1>1, <1>3, EachBarInPlace

\* The callback for an output.
LEMMA OnOutputInPlace ==
  ASSUME PanelInv, NEW w \in DOMAIN toplevels, NEW entered \in BOOLEAN, OnOutput(w, entered)
  PROVE  SamePlaces(bars, bars')
<1> DEFINE t == toplevels'[w]
<1>1. DOMAIN bars = 1 .. Len(bars) /\ Len(bars) \in Nat
      /\ \A i \in DOMAIN bars : GoodBar(bars[i])
  BY DEF PanelInv, BarsFine, Fine
<1>2. PICK ends \in BOOLEAN : bars' = [i \in DOMAIN bars |-> BarOutputChanged(bars[i], w, t, ends)]
  BY DEF OnOutput, EachBar
<1>3. w \in Windows /\ t.app_id \in Apps
  <2>1. DOMAIN toplevels \in SUBSET Windows /\ toplevels[w] \in Toplevel
    BY StoresAreFinite DEF PanelInv, StoreFits
  <2>2. t = [toplevels[w] EXCEPT !.output = Output(toplevels[w], list'[w].output, entered)]
    BY DEF OnOutput
  <2> QED
    BY <2>1, <2>2 DEF Toplevel
<1> HIDE DEF t
<1>4. ASSUME NEW i \in DOMAIN bars PROVE SameBar(bars[i], BarOutputChanged(bars[i], w, t, ends))
  <2> DEFINE bar == bars[i]
             new == BarOutputChanged(bar, w, t, ends)
  <2>1. GoodBar(bar)
    BY <1>1
  <2> HIDE DEF bar
  <2>2. \/ new = bar
        \/ w \notin DOMAIN bar.shown /\ new = BarAdded(bar, w, t)
        \/ new = BarRemoved(bar, w, ends)
    BY DEF BarOutputChanged
  <2> HIDE DEF new
  <2>3. SameBar(bar, bar)
    BY DEF SameBar
  <2>4. SameBar(bar, new)
    BY <1>3, <2>1, <2>2, <2>3, AddedKeeps, RemovedKeeps
  <2> QED
    BY <2>4 DEF new, bar
<1>5. bars' = [i \in DOMAIN bars |-> bars'[i]] /\ \A i \in DOMAIN bars : SameBar(bars[i], bars'[i])
  BY <1>2, <1>4
<1> QED
  BY <1>1, <1>5, EachBarInPlace

\* The callback for a closed window.
LEMMA OnClosedInPlace ==
  ASSUME PanelInv, OnClosed
  PROVE  SamePlaces(bars, bars')
<1> DEFINE w == Head(wire).window
<1>1. DOMAIN bars = 1 .. Len(bars) /\ Len(bars) \in Nat
      /\ \A i \in DOMAIN bars : GoodBar(bars[i])
  BY DEF PanelInv, BarsFine, Fine
<1>2. \/ \E ends \in BOOLEAN : bars' = [i \in DOMAIN bars |-> BarRemoved(bars[i], w, ends)]
      \/ bars' = bars
  BY DEF OnClosed, EachBar, barVars
<1>3. CASE bars' = bars
  BY <1>3 DEF SamePlaces
<1>4. CASE \E ends \in BOOLEAN : bars' = [i \in DOMAIN bars |-> BarRemoved(bars[i], w, ends)]
  <2>1. PICK ends \in BOOLEAN : bars' = [i \in DOMAIN bars |-> BarRemoved(bars[i], w, ends)]
    BY <1>4
  <2>2. bars' = [i \in DOMAIN bars |-> bars'[i]] /\ \A i \in DOMAIN bars : SameBar(bars[i], bars'[i])
    BY <1>1, <2>1, RemovedKeeps
  <2> QED
    BY <1>1, <2>2, EachBarInPlace
<1> QED
  BY <1>2, <1>3, <1>4

\* The panels are built one on each output, or one for all.
LEMMA BuiltInPlace ==
  ASSUME NEW ms \in Seq(Monitors), NEW file \in Boxes, NEW st \in Stores
  PROVE  BarsPlaced(BuildWindows(ms, file, st), ms)
<1> DEFINE bs == BuildWindows(ms, file, st)
<1>1. CASE ~MultiMonitor \/ ms = <<>>
  <2> DEFINE bar == NewBar(None, TRUE, file, st)
  <2>1. bs = <<bar>>
    BY <1>1 DEF BuildWindows
  <2>2. bar.only_output = None
    <3>1. NewBarOf(None, TRUE, file, st, bar)
      BY NewBarIsFine, Zenon
    <3> QED
      BY <3>1, Zenon DEF NewBarOf
  <2> HIDE DEF bar, bs
  <2>3. Len(bs) = 1 /\ bs[1] = bar
    BY <2>1
  <2>4. BarsPlaced(bs, ms)
    BY <1>1, <2>2, <2>3 DEF BarsPlaced
  <2> QED
    BY <2>4 DEF bs
<1>2. CASE ~(~MultiMonitor \/ ms = <<>>)
  <2> DEFINE on(i)  == IF PerMonitorApps THEN ms[i] ELSE None
             bar(i) == NewBar(on(i), i = 1, file, st)
             n == Len(ms)
  <2>1. bs = [i \in 1 .. n |-> bar(i)] /\ n \in Nat
    BY <1>2 DEF BuildWindows
  <2>2. ASSUME NEW i \in 1 .. n PROVE bar(i).only_output = on(i)
    <3> DEFINE o   == on(i)
               one == (i = 1)
    <3>1. o \in Monitors \union {None} /\ one \in BOOLEAN
      OBVIOUS
    <3> HIDE DEF one, on
    <3>2. bar(i) = NewBar(o, one, file, st)
      BY DEF one
    <3> HIDE DEF bar, o
    <3>3. NewBarOf(o, one, file, st, NewBar(o, one, file, st))
      BY <3>1, NewBarIsFine, Zenon
    <3>4. bar(i).only_output = o
      BY <3>2, <3>3, Zenon DEF NewBarOf
    <3> QED
      BY <3>4 DEF o
  <2> HIDE DEF bar, bs, n
  <2>3. bs = [i \in 1 .. n |-> bs[i]] /\ \A i \in 1 .. n : bs[i] = bar(i)
    BY <2>1
  <2>4. Len(bs) = n
    BY <2>1, <2>3, LengthIs
  <2>5. BarsPlaced(bs, ms)
    BY <1>2, <2>2, <2>3, <2>4 DEF BarsPlaced, n
  <2> QED
    BY <2>5 DEF bs
<1> QED
  BY <1>1, <1>2

\* A rebuild puts the bars on the outputs there are.
LEMMA RebuildInPlace ==
  ASSUME PanelInv, NEW ms \in Seq(Monitors), NEW ends \in BOOLEAN,
         RebuildWindows(ms, ends), BarsPlaced(bars, outputs)
  PROVE  BarsPlaced(bars', ms)
<1> DEFINE left == [i \in DOMAIN bars |->
                      IF ends /\ Dragging(bars[i]) THEN Dropped(bars[i]) ELSE bars[i]]
           file == SavedBy(pins_file, bars, left)
<1>1. BarsFine(bars, toplevels, pins_file) /\ toplevels \in Stores
  BY DEF PanelInv, StoreFits
<1>2. CASE MultiMonitor
  <2>1. bars' = BuildWindows(ms, file, toplevels)
    BY <1>2 DEF RebuildWindows
  <2>2. \A i \in DOMAIN bars : left[i] \in Bars
    <3> SUFFICES ASSUME NEW i \in DOMAIN bars PROVE left[i] \in Bars
      OBVIOUS
    <3>1. bars[i] \in Bars /\ DragFits(bars[i])
      BY <1>1 DEF BarsFine, Fine, GoodBar
    <3>2. Dragging(bars[i]) => Dropped(bars[i]) \in Bars
      BY <3>1, DroppedKeeps
    <3> QED
      BY <3>1, <3>2
  <2> HIDE DEF left
  <2>3. file \in Boxes
    BY <1>1, <2>2, SavedIsBox DEF BarsFine
  <2> HIDE DEF file
  <2> QED
    BY <1>1, <2>1, <2>3, BuiltInPlace
<1>3. CASE ~MultiMonitor
  BY <1>3 DEF RebuildWindows, BarsPlaced
<1> QED
  BY <1>2, <1>3

\* The user moves no bar.
LEMMA OnBarInPlace ==
  ASSUME PanelInv, NEW i \in DOMAIN bars, NEW bar, bar.only_output = bars[i].only_output,
         NEW file, OnBar(i, bar, file)
  PROVE  SamePlaces(bars, bars')
<1> DEFINE n == Len(bars)
<1>1. DOMAIN bars = 1 .. n /\ n \in Nat
  BY DEF PanelInv, BarsFine
<1> HIDE DEF n
<1>2. bars' = [bars EXCEPT ![i] = bar]
  BY DEF OnBar
<1>3. bars' = [j \in 1 .. n |-> bars'[j]]
  BY <1>1, <1>2
<1>4. Len(bars') = n /\ DOMAIN bars' = 1 .. n
  BY <1>1, <1>3, LengthIs
<1>5. \A j \in 1 .. n : bars'[j].only_output = bars[j].only_output
  BY <1>1, <1>2
<1> QED
  BY <1>1, <1>4, <1>5 DEF SamePlaces, n

\* A click, a pin and a drag change one bar and nothing else that is shown.
LEMMA UserInPlace ==
  ASSUME PanelInv, User
  PROVE  /\ SamePlaces(bars, bars')
         /\ UNCHANGED <<compositorVars, wire, clientVars, toplevels>>
<1>1. PICK i \in DOMAIN bars :
        \/ \E app \in ToSet(bars[i].order) :
             Click(i, app) \/ TogglePin(i, app) \/ DragStarted(i, app)
        \/ \E target \in DOMAIN bars[i].drag.order : DragMoved(i, target)
        \/ DragDropped(i)
  BY DEF User
<1>2. GoodBar(bars[i]) /\ bars[i] \in Bars /\ bars[i].order \in Seq(Apps)
  BY DEF PanelInv, BarsFine, Fine, GoodBar, Bars, Boxes
<1>3. ToSet(bars[i].order) \subseteq Apps
  BY <1>2 DEF ToSet
<1>4. \E bar, file : OnBar(i, bar, file) /\ bar.only_output = bars[i].only_output
  <2> DEFINE old == bars[i]
  <2>1. ASSUME NEW app \in Apps, Click(i, app)
        PROVE  \E bar, file : OnBar(i, bar, file) /\ bar.only_output = bars[i].only_output
    <3>1. OnBar(i, [bars[i] EXCEPT !.cycle[app] = (@ + 1) % Len(bars[i].windows[app])],
                pins_file)
      BY <2>1 DEF Click
    <3>2. [bars[i] EXCEPT !.cycle[app] = (@ + 1) % Len(bars[i].windows[app])].only_output
            = bars[i].only_output
      BY <1>2 DEF Bars
    <3> QED
      BY <3>1, <3>2
  <2>2. ASSUME NEW app \in Apps, TogglePin(i, app)
        PROVE  \E bar, file : OnBar(i, bar, file) /\ bar.only_output = bars[i].only_output
    <3> DEFINE pinned == IF app \in old.pinned THEN old.pinned \ {app}
                         ELSE old.pinned \union {app}
               bar == [old EXCEPT !.pinned = pinned]
               new == IF app \notin bar.pinned /\ ~Open(bar, app)
                        THEN RemoveEntry(bar, app, FALSE) ELSE bar
    <3>1. OnBar(i, new, PinnedOrder(bar))
      BY <2>2 DEF TogglePin
    <3>2. bar \in Bars /\ DragFits(bar) /\ bar.only_output = old.only_output
      <4>1. pinned \in SUBSET Apps
        BY <1>2, <2>2 DEF Bars
      <4> HIDE DEF pinned
      <4>2. bar \in Bars /\ bar.only_output = old.only_output /\ bar.drag = old.drag
            /\ bar.order = old.order
        BY <1>2, <4>1 DEF Bars
      <4> HIDE DEF bar, old
      <4>3. GoodBar(old)
        BY <1>2 DEF old
      <4> QED
        BY <4>2, <4>3 DEF GoodBar, DragFits
    <3> HIDE DEF bar
    <3>3. new.only_output = bar.only_output
      <4> DEFINE ends == FALSE
                 less == RemoveEntry(bar, app, ends)
      <4>1. ends \in BOOLEAN /\ (new = less \/ new = bar)
        OBVIOUS
      <4> HIDE DEF ends, new
      <4>2. SameTables(bar, less)
        BY <2>2, <3>2, <4>1, EntryRemoved
      <4> QED
        BY <4>1, <4>2 DEF SameTables
    <3> HIDE DEF new
    <3> QED
      BY <3>1, <3>2, <3>3
  <2>3. ASSUME NEW app \in Apps, DragStarted(i, app)
        PROVE  \E bar, file : OnBar(i, bar, file) /\ bar.only_output = bars[i].only_output
    <3>1. PICK drag : OnBar(i, [bars[i] EXCEPT !.drag = drag], pins_file)
      BY <2>3 DEF DragStarted
    <3>2. [bars[i] EXCEPT !.drag = drag].only_output = bars[i].only_output
      BY <1>2 DEF Bars
    <3> QED
      BY <3>1, <3>2
  <2>4. ASSUME NEW target, DragMoved(i, target)
        PROVE  \E bar, file : OnBar(i, bar, file) /\ bar.only_output = bars[i].only_output
    <3>1. OnBar(i, [bars[i] EXCEPT !.drag.target = target], pins_file)
      BY <2>4 DEF DragMoved
    <3>2. [bars[i] EXCEPT !.drag.target = target].only_output = bars[i].only_output
      BY <1>2 DEF Bars
    <3> QED
      BY <3>1, <3>2
  <2>5. ASSUME DragDropped(i)
        PROVE  \E bar, file : OnBar(i, bar, file) /\ bar.only_output = bars[i].only_output
    <3>1. OnBar(i, Dropped(bars[i]), PinnedOrder(Dropped(bars[i]))) /\ Dragging(bars[i])
      BY <2>5 DEF DragDropped
    <3>2. Dropped(bars[i]).only_output = bars[i].only_output
      BY <1>2, <3>1, DroppedKeeps DEF GoodBar, SameTables
    <3> QED
      BY <3>1, <3>2
  <2> QED
    BY <1>1, <1>3, <2>1, <2>2, <2>3, <2>4, <2>5
<1>5. PICK bar, file : OnBar(i, bar, file) /\ bar.only_output = bars[i].only_output
  BY <1>4
<1> QED
  BY <1>5, OnBarInPlace DEF OnBar

-----------------------------------------------------------------------------
(***************************************************************************)
(* The handlers.  Each takes the client the step that its event calls for. *)
(***************************************************************************)
\* What is on the way takes the client from what it holds to what it should hold.
Underway == Journey(Now, wire, Goal)

\* The inductive invariant.
ShownInv ==
  /\ PanelInv
  /\ Homed
  /\ NamedFits
  /\ StoreMirrors
  /\ bound => Underway /\ BarsPlaced(bars, outputs)

\* The parts of what the client holds now.
LEMMA NowIs ==
  /\ Now.app = Heard /\ DOMAIN Now.app = DOMAIN list
  /\ Now.out = [w \in DOMAIN list |-> list[w].output]
  /\ Now.titled = Titled /\ Now.told = Told /\ Now.on = Activated
  /\ Now.active = Active /\ Now.outs = outputs
BY HeldIs DEF Now, Heard

\* The names stay as long as the list and the store keep theirs.
LEMMA HeardStays ==
  ASSUME DOMAIN list' = DOMAIN list,
         \A x \in DOMAIN list : /\ list'[x].app_id = list[x].app_id
                                /\ list'[x].announced = list[x].announced
                                /\ list[x].announced =>
                                     toplevels'[x].app_id = toplevels[x].app_id
  PROVE  Heard' = Heard
<1> DEFINE C(l, f) == Names(l, f)
           first(x) == IF list[x].announced THEN toplevels[x].app_id ELSE list[x].app_id
           first2(x) == IF list'[x].announced THEN toplevels'[x].app_id ELSE list'[x].app_id
<1>1. /\ Heard  = [x \in DOMAIN list |-> C(list[x].app_id, first(x))]
      /\ Heard' = [x \in DOMAIN list |-> C(list'[x].app_id, first2(x))]
  BY DEF Heard
<1>2. \A x \in DOMAIN list : first(x) = first2(x)
  OBVIOUS
<1> HIDE DEF C, first, first2
<1> QED
  BY <1>1, <1>2

\* A dispatched event takes the client a step on, if its handler does what it says.
LEMMA OneStepOn ==
  ASSUME ShownInv, NEW kind, Dispatch(kind)
  PROVE  /\ bound /\ bound' /\ Homed' /\ NamedFits'
         /\ \E n : /\ Leads(Head(wire), Now, n) /\ Head(wire).kind = kind
                   /\ Now' = n => Underway'
<1>1. /\ bound /\ wire # <<>> /\ Head(wire).kind = kind /\ wire' = Tail(wire)
      /\ UNCHANGED <<apps, named, places, focus, monitors, bound>>
  BY DEF Dispatch, compositorVars
<1>2. wire \in Seq(Events) /\ Journey(Now, wire, Goal)
  BY <1>1 DEF ShownInv, PanelInv, LinkFits, WireFits, Underway
<1>3. PICK n : Leads(Head(wire), Now, n) /\ Journey(n, Tail(wire), Goal)
  BY <1>1, <1>2, FirstStep
<1>4. Goal' = Goal /\ Homed' /\ NamedFits'
  BY <1>1 DEF Goal, Called, Focused, Mapped, ShownInv, Homed, NamedFits
<1>5. Now' = n => Underway'
  BY <1>1, <1>3, <1>4 DEF Underway
<1> QED
  BY <1>1, <1>3, <1>4, <1>5

\* The bars stay where they are when the outputs do.
LEMMA StayPlaced ==
  ASSUME ShownInv, bound, SamePlaces(bars, bars'), outputs' = outputs
  PROVE  BarsPlaced(bars', outputs')
<1>1. BarsPlaced(bars, outputs) /\ Len(bars) \in Nat /\ DOMAIN bars = 1 .. Len(bars)
  BY DEF ShownInv, PanelInv, BarsFine
<1> QED
  BY <1>1, StillPlaced

\* A window that is new has no name, no output and no focus.
LEMMA OnToplevelMirrors ==
  ASSUME ShownInv, OnToplevel
  PROVE  ShownInv'
<1> DEFINE w == Head(wire).window
<1>1. /\ Dispatch("toplevel") /\ list' = Extend(list, w, NewWindow)
      /\ UNCHANGED <<outputs, toplevels, bars>>
  BY DEF OnToplevel, barVars
<1>2. PICK n : /\ Leads(Head(wire), Now, n) /\ Head(wire).kind = "toplevel"
               /\ Now' = n => Underway'
  BY <1>1, OneStepOn
<1>3. /\ w \notin DOMAIN Now.app
      /\ n = Held(Extend(Now.app, w, Names(None, None)), Extend(Now.out, w, None),
                  Now.titled, Now.told, Now.on, Now.active, Now.outs)
  BY <1>2 DEF Leads
<1> HIDE DEF w
<1>4. w \notin DOMAIN list
  BY <1>3, NowIs
<1>5. /\ DOMAIN list' = DOMAIN list \union {w}
      /\ list'[w].app_id = None /\ list'[w].title = None /\ list'[w].output = None
      /\ list'[w].announced = FALSE /\ list'[w].activated = FALSE
      /\ \A x \in DOMAIN list : list'[x] = list[x]
  BY <1>1, <1>4 DEF Extend, NewWindow
<1>6. Heard' = Extend(Now.app, w, Names(None, None))
  <2> DEFINE C(x) == Names(list[x].app_id, IF list[x].announced THEN toplevels[x].app_id
                                          ELSE list[x].app_id)
             N == Names(None, None)
  <2>1. Now.app = [x \in DOMAIN list |-> C(x)]
    BY NowIs DEF Heard
  <2>2. Heard' = [x \in DOMAIN list \union {w} |-> IF x = w THEN N ELSE C(x)]
    BY <1>1, <1>4, <1>5 DEF Heard
  <2> HIDE DEF C, N
  <2>3. Heard' = Extend(Now.app, w, N)
    BY <1>4, <2>1, <2>2 DEF Extend
  <2> QED
    BY <2>3 DEF N
<1>7. [x \in DOMAIN list' |-> list'[x].output] = Extend(Now.out, w, None)
  <2>1. Now.out = [x \in DOMAIN list |-> list[x].output]
    BY NowIs
  <2> QED
    BY <1>4, <1>5, <2>1 DEF Extend
<1>8. /\ Titled' = Now.titled /\ Told' = Now.told /\ Activated' = Now.on
      /\ Active' = Now.active /\ outputs' = Now.outs
  BY <1>1, <1>4, <1>5, NowIs DEF Titled, Told, Activated, Active
<1>9. Now' = n
  BY <1>3, <1>6, <1>7, <1>8 DEF Now
<1>10. StoreMirrors'
  <2>1. DOMAIN toplevels \subseteq DOMAIN list
    BY DEF ShownInv, PanelInv, StoreFits
  <2> QED
    BY <1>1, <1>4, <1>5, <2>1 DEF ShownInv, StoreMirrors
<1>11. SamePlaces(bars, bars')
  BY <1>1 DEF SamePlaces
<1>12. PanelInv'
  BY OnToplevelFits DEF ShownInv
<1>13. bound /\ Homed' /\ NamedFits'
  BY <1>1, OneStepOn
<1> QED
  BY <1>1, <1>2, <1>9, <1>10, <1>11, <1>12, <1>13, StayPlaced DEF ShownInv

\* A name of a window arrives, and with it the window in the store.
LEMMA NamedMirrors ==
  ASSUME ShownInv, NEW w \in DOMAIN list, NEW e, e \in Entries,
         list' = [list EXCEPT ![w] = Announced(e)],
         e.announced = list[w].announced, e.output = list[w].output,
         e.activated = list[w].activated,
         e.announced => e.app_id # None,
         OnNew(w)
  PROVE  /\ StoreMirrors' /\ Active' = Active /\ Activated' = Activated
         /\ Titled' = IF e.title # None THEN Titled \union {w} ELSE Titled \ {w}
         /\ Told' = IF e.app_id # None /\ e.title # None THEN Told \union {w} ELSE Told
         /\ Heard' = [Now.app EXCEPT ![w] =
           Names(e.app_id, IF w \in Told THEN Now.app[w].first ELSE e.app_id)]
         /\ [x \in DOMAIN list' |-> list'[x].output] = Now.out
<1> DEFINE a == Announced(e)
<1>1. /\ a.app_id = e.app_id /\ a.title = e.title /\ a.output = list[w].output
      /\ a.activated = list[w].activated /\ a.announced \in BOOLEAN
      /\ a.announced <=> list[w].announced \/ (e.app_id # None /\ e.title # None)
  BY DEF Announced, Entries
<1> HIDE DEF a
<1>2. /\ DOMAIN list' = DOMAIN list /\ list'[w] = a
      /\ \A x \in DOMAIN list \ {w} : list'[x] = list[x]
  BY DEF a
<1>3. /\ \A x \in DOMAIN list : list[x].activated \in BOOLEAN
      /\ \A x \in DOMAIN list : list[x].announced \/ list[x].output = None
      /\ \A x \in DOMAIN list : list[x].announced => list[x].app_id # None
      /\ \A x \in DOMAIN toplevels :
           list[x].output = None \/ toplevels[x].output = list[x].output
      /\ DOMAIN toplevels = {x \in DOMAIN list : list[x].announced}
  BY DEF ShownInv, StoreMirrors, PanelInv, StoreFits
<1>4. /\ StoreMirrors' /\ Active' = Active
      /\ \A x \in DOMAIN toplevels : toplevels'[x] = toplevels[x]
      /\ a.announced /\ ~list[w].announced => toplevels'[w].app_id = a.app_id
  <2>1. CASE list'[w].announced /\ ~list[w].announced
    <3> DEFINE t == [app_id |-> a.app_id, activated |-> FALSE, output |-> None]
    <3>1. toplevels' = Extend(toplevels, w, t)
      BY <1>2, <2>1 DEF OnNew
    <3>2. t.app_id = a.app_id /\ t.activated = FALSE /\ t.output = None
      OBVIOUS
    <3> HIDE DEF t
    <3>3. /\ DOMAIN toplevels' = DOMAIN toplevels \union {w} /\ toplevels'[w] = t
          /\ w \notin DOMAIN toplevels
          /\ \A x \in DOMAIN toplevels : toplevels'[x] = toplevels[x]
      BY <1>3, <2>1, <3>1 DEF Extend
    <3>4. list[w].output = None
      BY <1>3, <2>1
    <3>5. StoreMirrors'
      BY <1>1, <1>2, <1>3, <3>2, <3>3, <3>4 DEF StoreMirrors
    <3>6. Active' = Active
      BY <3>2, <3>3 DEF Active
    <3> QED
      BY <3>2, <3>3, <3>5, <3>6
  <2>2. CASE ~(list'[w].announced /\ ~list[w].announced)
    <3>1. toplevels' = toplevels
      BY <2>2 DEF OnNew, barVars
    <3>2. a.announced \/ list[w].output = None
      BY <1>1, <1>3
    <3>3. StoreMirrors'
      BY <1>1, <1>2, <1>3, <3>1, <3>2 DEF StoreMirrors
    <3> QED
      BY <1>2, <2>2, <3>1, <3>3 DEF Active
  <2> QED
    BY <2>1, <2>2
<1>5. /\ Activated' = Activated
      /\ Titled' = IF e.title # None THEN Titled \union {w} ELSE Titled \ {w}
  BY <1>1, <1>2 DEF Activated, Titled
<1>6. Told' = IF e.app_id # None /\ e.title # None THEN Told \union {w} ELSE Told
  BY <1>1, <1>2 DEF Told
<1>7. Heard' = [Now.app EXCEPT ![w] =
                  Names(e.app_id, IF w \in Told THEN Now.app[w].first ELSE e.app_id)]
  <2> DEFINE N(l, f) == Names(l, f)
             first(x)  == IF list[x].announced THEN toplevels[x].app_id ELSE list[x].app_id
             first2(x) == IF list'[x].announced THEN toplevels'[x].app_id
                          ELSE list'[x].app_id
  <2>1. /\ Now.app = [x \in DOMAIN list |-> N(list[x].app_id, first(x))]
        /\ Heard' = [x \in DOMAIN list |-> N(list'[x].app_id, first2(x))]
    BY <1>2, NowIs DEF Heard
  <2>2. \A x \in DOMAIN list \ {w} : list'[x].app_id = list[x].app_id /\ first2(x) = first(x)
    BY <1>2, <1>3, <1>4
  <2>3. list'[w].app_id = e.app_id
        /\ first2(w) = IF w \in Told THEN first(w) ELSE e.app_id
    BY <1>1, <1>2, <1>3, <1>4 DEF Told
  <2>4. N(list[w].app_id, first(w)).first = first(w)
    BY DEF Names
  <2> HIDE DEF N, first, first2
  <2>5. Now.app[w].first = first(w)
    BY <2>1, <2>4
  <2>6. Heard' = [Now.app EXCEPT ![w] =
                    N(e.app_id, IF w \in Told THEN Now.app[w].first ELSE e.app_id)]
    BY <2>1, <2>2, <2>3, <2>5
  <2> QED
    BY <2>6 DEF N
<1>8. [x \in DOMAIN list' |-> list'[x].output] = Now.out
  <2>1. Now.out = [x \in DOMAIN list |-> list[x].output]
    BY NowIs
  <2> QED
    BY <1>1, <1>2, <2>1
<1> QED
  BY <1>4, <1>5, <1>6, <1>7, <1>8

\* The title arrives first or last.
LEMMA OnTitleMirrors ==
  ASSUME ShownInv, OnTitle
  PROVE  ShownInv'
<1> DEFINE w == Head(wire).window
           v == Head(wire).value
           e == [list[w] EXCEPT !.title = v]
<1>1. /\ Dispatch("title") /\ list' = SetTitle(w, v) /\ OnNew(w) /\ outputs' = outputs
  BY DEF OnTitle
<1>2. PICK n : /\ Leads(Head(wire), Now, n) /\ Head(wire).kind = "title"
               /\ Now' = n => Underway'
  BY <1>1, OneStepOn
<1>3. /\ w \in DOMAIN Now.app /\ v # None /\ Head(wire) \in Events
      /\ n = Held(Now.app, Now.out, Now.titled \union {w},
                  IF Now.app[w].latest # None THEN Now.told \union {w} ELSE Now.told,
                  Now.on, Now.active, Now.outs)
  BY <1>2 DEF Leads
<1>4. /\ w \in DOMAIN list /\ Now.app[w].latest = list[w].app_id /\ list[w] \in Entries
      /\ Now.app[w] = Names(list[w].app_id, IF w \in Told THEN Now.app[w].first
                                            ELSE list[w].app_id)
  <2>1. w \in DOMAIN list /\ list[w] \in Entries
    BY <1>3, NowIs DEF ShownInv, PanelInv, ListFits
  <2> DEFINE f == IF list[w].announced THEN toplevels[w].app_id ELSE list[w].app_id
             l == list[w].app_id
  <2>2. Now.app[w] = Names(l, f)
    BY <2>1, NowIs DEF Heard
  <2>3. w \in Told \/ f = l
    BY <2>1 DEF Told
  <2> HIDE DEF f
  <2>4. Names(l, f).latest = l /\ Names(l, f).first = f
    BY DEF Names
  <2> QED
    BY <2>1, <2>2, <2>3, <2>4
<1>5. list' = [list EXCEPT ![w] = Announced(e)]
  BY <1>1, <1>4 DEF SetTitle
<1>6. /\ e \in Entries /\ e.announced = list[w].announced /\ e.output = list[w].output
      /\ e.activated = list[w].activated /\ e.app_id = list[w].app_id /\ e.title = v
  BY <1>3, <1>4 DEF Entries, Events
<1>0. DOMAIN Now.app = DOMAIN list
  BY NowIs
<1> HIDE DEF w, v, e
<1>7. /\ StoreMirrors' /\ Active' = Active /\ Activated' = Activated
      /\ Titled' = IF e.title # None THEN Titled \union {w} ELSE Titled \ {w}
      /\ Told' = IF e.app_id # None /\ e.title # None THEN Told \union {w} ELSE Told
      /\ Heard' = [Now.app EXCEPT ![w] =
           Names(e.app_id, IF w \in Told THEN Now.app[w].first ELSE e.app_id)]
      /\ [x \in DOMAIN list' |-> list'[x].output] = Now.out
  <2>1. list[w].announced => list[w].app_id # None
    BY <1>4 DEF ShownInv, StoreMirrors
  <2> QED
    BY <1>1, <1>4, <1>5, <1>6, <2>1, NamedMirrors
<1>8. Heard' = Now.app
  <2>1. Now.app = [x \in DOMAIN Now.app |-> Now.app[x]]
    BY NowIs DEF Heard
  <2>2. Heard' = [Now.app EXCEPT ![w] = Now.app[w]]
    BY <1>4, <1>6, <1>7
  <2> QED
    BY <2>1, <2>2
<1>9. /\ Titled' = Now.titled \union {w}
      /\ Told' = IF Now.app[w].latest # None THEN Now.told \union {w} ELSE Now.told
      /\ Activated' = Now.on /\ Active' = Now.active /\ outputs' = Now.outs
  BY <1>1, <1>3, <1>4, <1>6, <1>7, NowIs
<1>10. Now' = n
  BY <1>3, <1>7, <1>8, <1>9 DEF Now
<1>11. SamePlaces(bars, bars')
  <2>1. list'[w].announced => list'[w].app_id \in Apps
    BY <1>4, <1>5, <1>6 DEF Announced, Entries, ShownInv, StoreMirrors
  <2> QED
    BY <1>1, <1>4, <2>1, OnNewInPlace DEF ShownInv
<1>12. PanelInv'
  BY OnTitleFits DEF ShownInv
<1>13. bound /\ Homed' /\ NamedFits'
  BY <1>1, OneStepOn
<1> QED
  BY <1>1, <1>2, <1>7, <1>10, <1>11, <1>12, <1>13, StayPlaced DEF ShownInv

\* The app id arrives first or last, or again later.
LEMMA OnAppIdMirrors ==
  ASSUME ShownInv, OnAppId
  PROVE  ShownInv'
<1> DEFINE w == Head(wire).window
           v == Head(wire).value
           e == [list[w] EXCEPT !.app_id = v]
<1>1. /\ Dispatch("app_id") /\ list' = SetAppId(w, v) /\ OnNew(w) /\ outputs' = outputs
  BY DEF OnAppId
<1>2. PICK n : /\ Leads(Head(wire), Now, n) /\ Head(wire).kind = "app_id"
               /\ Now' = n => Underway'
  BY <1>1, OneStepOn
<1>3. /\ w \in DOMAIN Now.app /\ v \in Apps
      /\ n = Held([Now.app EXCEPT ![w] =
                     Names(v, IF w \in Now.told THEN Now.app[w].first ELSE v)],
                  Now.out, Now.titled,
                  IF w \in Now.titled THEN Now.told \union {w} ELSE Now.told,
                  Now.on, Now.active, Now.outs)
  BY <1>2 DEF Leads
<1>4. w \in DOMAIN list /\ list[w] \in Entries /\ v # None
  BY <1>3, NowIs, NoneAssumption DEF ShownInv, PanelInv, ListFits
<1>5. list' = [list EXCEPT ![w] = Announced(e)]
  BY <1>1, <1>4 DEF SetAppId
<1>6. /\ e \in Entries /\ e.announced = list[w].announced /\ e.output = list[w].output
      /\ e.activated = list[w].activated /\ e.app_id = v /\ e.title = list[w].title
  BY <1>3, <1>4 DEF Entries
<1> HIDE DEF w, v, e
<1>7. /\ StoreMirrors' /\ Active' = Active /\ Activated' = Activated
      /\ Titled' = IF e.title # None THEN Titled \union {w} ELSE Titled \ {w}
      /\ Told' = IF e.app_id # None /\ e.title # None THEN Told \union {w} ELSE Told
      /\ Heard' = [Now.app EXCEPT ![w] =
           Names(e.app_id, IF w \in Told THEN Now.app[w].first ELSE e.app_id)]
      /\ [x \in DOMAIN list' |-> list'[x].output] = Now.out
  BY <1>1, <1>4, <1>5, <1>6, NamedMirrors
<1>8. Titled' = Titled /\ (w \in Titled <=> list[w].title # None)
  BY <1>4, <1>6, <1>7 DEF Titled
<1>9. /\ Titled' = Now.titled
      /\ Told' = IF w \in Now.titled THEN Now.told \union {w} ELSE Now.told
      /\ Activated' = Now.on /\ Active' = Now.active /\ outputs' = Now.outs
  BY <1>1, <1>4, <1>6, <1>7, <1>8, NowIs
<1>10. Now' = n
  <2>1. Now.told = Told
    BY NowIs
  <2> QED
    BY <1>3, <1>6, <1>7, <1>9, <2>1 DEF Now
<1>11. SamePlaces(bars, bars')
  <2>1. list'[w].app_id \in Apps
    BY <1>3, <1>4, <1>5, <1>6 DEF Announced, Entries
  <2> QED
    BY <1>1, <1>4, <2>1, OnNewInPlace DEF ShownInv
<1>12. PanelInv'
  BY OnAppIdFits DEF ShownInv
<1>13. bound /\ Homed' /\ NamedFits'
  BY <1>1, OneStepOn
<1> QED
  BY <1>1, <1>2, <1>7, <1>10, <1>11, <1>12, <1>13, StayPlaced DEF ShownInv

\* A state changes, and the store with it when the callback is made.
LEMMA FocusedMirrors ==
  ASSUME ShownInv, NEW id, OnFocus(id)
  PROVE  /\ DOMAIN toplevels' = DOMAIN toplevels
         /\ \A x \in DOMAIN toplevels : /\ toplevels'[x].app_id = toplevels[x].app_id
                                        /\ toplevels'[x].output = toplevels[x].output
         /\ Active' = DOMAIN toplevels \intersect {id}
<1> DEFINE t(k) == [toplevels[k] EXCEPT !.activated = (k = id)]
<1>1. toplevels' = [k \in DOMAIN toplevels |-> t(k)]
  BY DEF OnFocus
<1>2. ASSUME NEW k \in DOMAIN toplevels
      PROVE  /\ t(k).app_id = toplevels[k].app_id /\ t(k).output = toplevels[k].output
             /\ t(k).activated = TRUE <=> k = id
  <2>1. toplevels[k] \in Toplevel
    BY StoresAreFinite DEF ShownInv, PanelInv, StoreFits
  <2> DEFINE b == (k = id)
             u == [toplevels[k] EXCEPT !.activated = b]
  <2>2. b = TRUE <=> k = id
    OBVIOUS
  <2>3. t(k) = u
    OBVIOUS
  <2> HIDE DEF b, t
  <2>4. u.app_id = toplevels[k].app_id /\ u.output = toplevels[k].output /\ u.activated = b
    BY <2>1 DEF Toplevel
  <2> QED
    BY <2>2, <2>3, <2>4
<1> HIDE DEF t
<1> QED
  BY <1>1, <1>2 DEF Active

\* The store's active window follows the list's: the sentinel comes when none is left.
LEMMA OnStateMirrors ==
  ASSUME ShownInv, OnState
  PROVE  ShownInv'
<1> DEFINE w == Head(wire).window
           v == Head(wire).value
<1>1. /\ Dispatch("state") /\ list' = [list EXCEPT ![w].activated = v] /\ outputs' = outputs
      /\ \/ FocusCallback(w, v) = {} /\ UNCHANGED barVars
         \/ \E id \in FocusCallback(w, v) : OnFocus(id)
  BY DEF OnState
<1>2. PICK n : /\ Leads(Head(wire), Now, n) /\ Head(wire).kind = "state"
               /\ Now' = n => Underway'
  BY <1>1, OneStepOn
<1>3. /\ w \in Now.told
      /\ \/ v = TRUE /\ w \notin Now.on
            /\ n = Held(Now.app, Now.out, Now.titled, Now.told, Now.on \union {w}, {w},
                        Now.outs)
         \/ v = FALSE /\ w \in Now.on
            /\ n = Held(Now.app, Now.out, Now.titled, Now.told, Now.on \ {w},
                        IF Now.on = {w} THEN {} ELSE Now.active, Now.outs)
  BY <1>2 DEF Leads
<1> HIDE DEF w, v
<1>4. /\ w \in DOMAIN list /\ list[w].announced /\ w \in DOMAIN toplevels
      /\ w \in Windows /\ v \in BOOLEAN
  BY <1>3, NowIs, MappedWindows DEF ShownInv, PanelInv, StoreFits, LinkFits, Told
<1>5. \A x \in DOMAIN list : list[x] \in Entries /\ list[x].activated \in BOOLEAN
  BY DEF ShownInv, PanelInv, ListFits, StoreMirrors
<1>6. /\ DOMAIN list' = DOMAIN list
      /\ \A x \in DOMAIN list : /\ list'[x].app_id = list[x].app_id
                                /\ list'[x].title = list[x].title
                                /\ list'[x].output = list[x].output
                                /\ list'[x].announced = list[x].announced
                                /\ list'[x].activated = IF x = w THEN v ELSE list[x].activated
  BY <1>1, <1>4, <1>5 DEF Entries
<1>7. /\ [x \in DOMAIN list' |-> list'[x].output] = Now.out
      /\ Titled' = Now.titled /\ Told' = Now.told /\ outputs' = Now.outs
  BY <1>1, <1>6, NowIs DEF Titled, Told
<1>8. Activated' = IF v = TRUE THEN Activated \union {w} ELSE Activated \ {w}
  BY <1>4, <1>6 DEF Activated
<1>9. /\ DOMAIN toplevels' = DOMAIN toplevels
      /\ \A x \in DOMAIN toplevels : /\ toplevels'[x].app_id = toplevels[x].app_id
                                     /\ toplevels'[x].output = toplevels[x].output
  BY <1>1, FocusedMirrors DEF barVars
<1>0. Heard' = Now.app
  BY <1>6, <1>9, HeardStays, NowIs DEF ShownInv, PanelInv, StoreFits
<1>10. StoreMirrors'
  <2>1. DOMAIN toplevels \subseteq DOMAIN list
    BY DEF ShownInv, PanelInv, StoreFits
  <2> QED
    BY <1>4, <1>6, <1>9, <2>1 DEF ShownInv, StoreMirrors
<1>11. Now' = n
  <2>1. CASE v = TRUE /\ w \notin Now.on
    <3>1. list[w].activated # v
      BY <1>4, <1>5, <2>1, NowIs DEF Activated
    <3>2. FocusCallback(w, v) = {w}
      BY <1>4, <2>1, <3>1 DEF FocusCallback
    <3>3. OnFocus(w)
      BY <1>1, <3>2
    <3>4. Active' = {w}
      BY <1>4, <3>3, FocusedMirrors
    <3>5. Activated' = Now.on \union {w}
      BY <1>8, <2>1, NowIs
    <3> QED
      BY <1>0, <1>3, <1>7, <2>1, <3>4, <3>5 DEF Now
  <2>2. CASE v = FALSE /\ w \in Now.on
    <3>1. list[w].activated # v
      BY <1>4, <1>5, <2>2, NowIs DEF Activated
    <3>2. Activated' = Now.on \ {w}
      BY <1>8, <2>2, NowIs
    <3>3. (\E other \in DOMAIN list \ {w} : list[other].activated) <=> Now.on # {w}
      <4>1. \A x \in DOMAIN list : list[x].activated <=> x \in Activated
        BY <1>5 DEF Activated
      <4>2. Activated \subseteq DOMAIN list
        BY DEF Activated
      <4> QED
        BY <2>2, <4>1, <4>2, NowIs
    <3>4. CASE Now.on # {w}
      <4>1. FocusCallback(w, v) = {}
        BY <1>4, <2>2, <3>1, <3>3, <3>4 DEF FocusCallback
      <4>2. Active' = Now.active
        BY <1>1, <4>1, NowIs DEF barVars, Active
      <4> QED
        BY <1>0, <1>3, <1>7, <2>2, <3>2, <3>4, <4>2 DEF Now
    <3>5. CASE Now.on = {w}
      <4>1. FocusCallback(w, v) = {None}
        BY <1>4, <2>2, <3>1, <3>3, <3>5 DEF FocusCallback
      <4>2. OnFocus(None)
        BY <1>1, <4>1
      <4>3. None \notin DOMAIN toplevels
        <5>1. DOMAIN toplevels \in SUBSET Windows
          BY StoresAreFinite DEF ShownInv, PanelInv, StoreFits
        <5> QED
          BY <5>1, NoneAssumption DEF Windows
      <4>4. Active' = {}
        BY <4>2, <4>3, FocusedMirrors
      <4> QED
        BY <1>0, <1>3, <1>7, <2>2, <3>2, <3>5, <4>4 DEF Now
    <3> QED
      BY <3>4, <3>5
  <2> QED
    BY <1>3, <2>1, <2>2
<1>12. SamePlaces(bars, bars')
  <2>1. CASE UNCHANGED barVars
    BY <2>1 DEF barVars, SamePlaces
  <2>2. CASE \E id : OnFocus(id)
    BY <2>2, OnFocusInPlace DEF ShownInv
  <2> QED
    BY <1>1, <2>1, <2>2
<1>13. PanelInv'
  BY OnStateFits DEF ShownInv
<1>14. bound /\ Homed' /\ NamedFits'
  BY <1>1, OneStepOn
<1> QED
  BY <1>1, <1>2, <1>10, <1>11, <1>12, <1>13, <1>14, StayPlaced DEF ShownInv

\* A window enters or leaves an output that is known.
LEMMA OutputEventMirrors ==
  ASSUME ShownInv, NEW kind \in {"enter", "leave"}, NEW entered \in BOOLEAN,
         entered <=> kind = "enter", OutputEvent(kind, entered)
  PROVE  ShownInv'
<1> DEFINE w == Head(wire).window
           m == Head(wire).value
           o == IF entered THEN m ELSE None
<1>1. /\ Dispatch(kind) /\ outputs' = outputs
      /\ \/ Known(m) /\ list' = SetOutput(w, m, entered)
         \/ ~Known(m) /\ list' = list
      /\ IF Known(m) /\ OutputCallback(w, m, entered)
           THEN OnOutput(w, entered)
           ELSE UNCHANGED <<toplevels, bars, pins_file>>
  BY DEF OutputEvent, barVars
<1>2. PICK n : /\ Leads(Head(wire), Now, n) /\ Head(wire).kind = kind
               /\ Now' = n => Underway'
  BY <1>1, OneStepOn
<1>3. /\ w \in Now.told /\ m \in ToSet(Now.outs)
      /\ kind = "leave" => Now.out[w] = m
      /\ n = Held(Now.app, [Now.out EXCEPT ![w] = o], Now.titled, Now.told, Now.on,
                  Now.active, Now.outs)
  BY <1>2 DEF Leads
<1> HIDE DEF w, m
<1>4. /\ w \in DOMAIN list /\ list[w].announced /\ w \in DOMAIN toplevels
      /\ Known(m) /\ m \in Monitors
      /\ kind = "leave" => list[w].output = m
  BY <1>3, NowIs DEF ShownInv, PanelInv, StoreFits, ListFits, Told, Known, ToSet
<1>5. /\ OutputCallback(w, m, entered) /\ OnOutput(w, entered)
      /\ list' = [list EXCEPT ![w].output = o]
  <2>1. OutputCallback(w, m, entered)
    BY <1>4 DEF OutputCallback
  <2>2. list' = SetOutput(w, m, entered) /\ OnOutput(w, entered)
    BY <1>1, <1>4, <2>1
  <2> QED
    BY <1>4, <2>1, <2>2 DEF SetOutput
<1>6. \A x \in DOMAIN list : list[x] \in Entries
  BY DEF ShownInv, PanelInv, ListFits
<1>7. o \in Monitors \union {None} /\ (o = None <=> ~entered) /\ (entered => o = m)
  BY <1>4, NoneAssumption
<1> HIDE DEF o
<1>8. /\ DOMAIN list' = DOMAIN list
      /\ \A x \in DOMAIN list : /\ list'[x].app_id = list[x].app_id
                                /\ list'[x].title = list[x].title
                                /\ list'[x].activated = list[x].activated
                                /\ list'[x].announced = list[x].announced
                                /\ list'[x].output = IF x = w THEN o ELSE list[x].output
  BY <1>4, <1>5, <1>6 DEF Entries
<1>9. /\ Titled' = Now.titled /\ Told' = Now.told /\ Activated' = Now.on
      /\ outputs' = Now.outs
  BY <1>1, <1>8, NowIs DEF Titled, Told, Activated
<1>10. [x \in DOMAIN list' |-> list'[x].output] = [Now.out EXCEPT ![w] = o]
  <2>1. Now.out = [x \in DOMAIN list |-> list[x].output]
    BY NowIs
  <2> QED
    BY <1>8, <2>1
<1>11. /\ DOMAIN toplevels' = DOMAIN toplevels
       /\ \A x \in DOMAIN toplevels :
            /\ toplevels'[x].app_id = toplevels[x].app_id
            /\ toplevels'[x].activated = toplevels[x].activated
            /\ x # w => toplevels'[x].output = toplevels[x].output
       /\ entered => toplevels'[w].output = o
  <2>1. toplevels[w] \in Toplevel
    BY <1>4, StoresAreFinite DEF ShownInv, PanelInv, StoreFits
  <2>2. toplevels' = [toplevels EXCEPT ![w].output =
                        Output(toplevels[w], list'[w].output, entered)]
    BY <1>5 DEF OnOutput
  <2>3. entered => Output(toplevels[w], list'[w].output, entered) = o
    BY <1>4, <1>8 DEF Output
  <2> QED
    BY <1>4, <2>1, <2>2, <2>3 DEF Toplevel
<1>12. Active' = Now.active
  BY <1>11, NowIs DEF Active
<1>0. Heard' = Now.app
  BY <1>8, <1>11, HeardStays, NowIs DEF ShownInv, PanelInv, StoreFits
<1>13. Now' = n
  BY <1>0, <1>3, <1>9, <1>10, <1>12 DEF Now
<1>14. StoreMirrors'
  <2>1. DOMAIN toplevels \subseteq DOMAIN list
    BY DEF ShownInv, PanelInv, StoreFits
  <2> QED
    BY <1>4, <1>7, <1>8, <1>11, <2>1 DEF ShownInv, StoreMirrors
<1>15. SamePlaces(bars, bars')
  BY <1>4, <1>5, OnOutputInPlace DEF ShownInv
<1>16. PanelInv'
  BY OutputEventFits DEF ShownInv
<1>17. bound /\ Homed' /\ NamedFits'
  BY <1>1, OneStepOn
<1> QED
  BY <1>1, <1>2, <1>13, <1>14, <1>15, <1>16, <1>17, StayPlaced DEF ShownInv

\* A closed window leaves the list and the store together.
LEMMA OnClosedMirrors ==
  ASSUME ShownInv, OnClosed
  PROVE  ShownInv'
<1> DEFINE w == Head(wire).window
<1>1. /\ Dispatch("closed") /\ list' = Omit(list, w) /\ outputs' = outputs
      /\ \/ list[w].announced /\ toplevels' = Omit(toplevels, w)
         \/ ~list[w].announced
  BY DEF OnClosed
<1>2. PICK n : /\ Leads(Head(wire), Now, n) /\ Head(wire).kind = "closed"
               /\ Now' = n => Underway'
  BY <1>1, OneStepOn
<1>3. /\ w \in Now.told
      /\ n = Held(Omit(Now.app, w), Omit(Now.out, w), Now.titled \ {w}, Now.told \ {w},
                  Now.on \ {w}, Now.active \ {w}, Now.outs)
  BY <1>2 DEF Leads
<1> HIDE DEF w
<1>4. /\ DOMAIN list' = DOMAIN list \ {w} /\ \A x \in DOMAIN list \ {w} : list'[x] = list[x]
      /\ DOMAIN toplevels' = DOMAIN toplevels \ {w}
      /\ \A x \in DOMAIN toplevels \ {w} : toplevels'[x] = toplevels[x]
  BY <1>1, <1>3, NowIs DEF Told, Omit
<1>5. /\ Heard' = Omit(Now.app, w)
      /\ [x \in DOMAIN list' |-> list'[x].output] = Omit(Now.out, w)
  <2> DEFINE C(l, f) == Names(l, f)
             first(x)  == IF list[x].announced THEN toplevels[x].app_id ELSE list[x].app_id
             first2(x) == IF list'[x].announced THEN toplevels'[x].app_id
                          ELSE list'[x].app_id
  <2>1. /\ Now.app = [x \in DOMAIN list |-> C(list[x].app_id, first(x))]
        /\ Heard' = [x \in DOMAIN list' |-> C(list'[x].app_id, first2(x))]
        /\ Now.out = [x \in DOMAIN list |-> list[x].output]
    BY NowIs DEF Heard
  <2>2. \A x \in DOMAIN list \ {w} : list'[x] = list[x] /\ first2(x) = first(x)
    BY <1>4 DEF ShownInv, PanelInv, StoreFits
  <2> HIDE DEF C, first, first2
  <2> QED
    BY <1>4, <2>1, <2>2 DEF Omit
<1>6. /\ Titled' = Now.titled \ {w} /\ Told' = Now.told \ {w} /\ Activated' = Now.on \ {w}
      /\ Active' = Now.active \ {w} /\ outputs' = Now.outs
  BY <1>1, <1>4, NowIs DEF Titled, Told, Activated, Active
<1>7. Now' = n
  BY <1>3, <1>5, <1>6 DEF Now
<1>8. StoreMirrors'
  <2>1. DOMAIN toplevels \subseteq DOMAIN list
    BY DEF ShownInv, PanelInv, StoreFits
  <2> QED
    BY <1>4, <2>1 DEF ShownInv, StoreMirrors
<1>9. SamePlaces(bars, bars')
  BY OnClosedInPlace DEF ShownInv
<1>10. PanelInv'
  BY OnClosedFits DEF ShownInv
<1>11. bound /\ Homed' /\ NamedFits'
  BY <1>1, OneStepOn
<1> QED
  BY <1>1, <1>2, <1>7, <1>8, <1>9, <1>10, <1>11, StayPlaced DEF ShownInv

\* A monitor comes or goes, and the bars are built again.
LEMMA OnGlobalMirrors ==
  ASSUME ShownInv, OnGlobal \/ OnGlobalRemove
  PROVE  ShownInv'
<1> DEFINE m == Head(wire).value
<1>1. PICK kind \in {"global", "global_remove"} :
        /\ Dispatch(kind) /\ list' = list /\ toplevels' = toplevels
        /\ outputs' = IF kind = "global" THEN Append(outputs, m) ELSE RemoveFirst(outputs, m)
        /\ \E ends \in BOOLEAN : RebuildWindows(outputs', ends)
  <2>1. CASE OnGlobal
    <3> DEFINE kind == "global"
    <3>1. /\ kind \in {"global", "global_remove"} /\ kind = "global" /\ Dispatch(kind)
          /\ list' = list /\ toplevels' = toplevels /\ outputs' = Append(outputs, m)
          /\ \E ends \in BOOLEAN : RebuildWindows(outputs', ends)
      BY <2>1 DEF OnGlobal
    <3> HIDE DEF kind
    <3> QED
      BY <3>1
  <2>2. CASE OnGlobalRemove
    <3> DEFINE kind == "global_remove"
    <3>1. /\ kind \in {"global", "global_remove"} /\ kind # "global" /\ Dispatch(kind)
          /\ list' = list /\ toplevels' = toplevels /\ outputs' = RemoveFirst(outputs, m)
          /\ \E ends \in BOOLEAN : RebuildWindows(outputs', ends)
      BY <2>2 DEF OnGlobalRemove
    <3> HIDE DEF kind
    <3> QED
      BY <3>1
  <2> QED
    BY <2>1, <2>2
<1>2. PICK n : /\ Leads(Head(wire), Now, n) /\ Head(wire).kind = kind
               /\ Now' = n => Underway'
  BY <1>1, OneStepOn
<1>3. n = Held(Now.app, Now.out, Now.titled, Now.told, Now.on, Now.active,
               IF kind = "global" THEN Append(Now.outs, m) ELSE RemoveFirst(Now.outs, m))
  BY <1>2 DEF Leads
<1> HIDE DEF m
<1>4. /\ Heard' = Now.app
      /\ [x \in DOMAIN list' |-> list'[x].output] = Now.out
      /\ Titled' = Now.titled /\ Told' = Now.told /\ Activated' = Now.on
      /\ Active' = Now.active
  BY <1>1, HeardStays, NowIs DEF Titled, Told, Activated, Active
<1>5. outputs' = IF kind = "global" THEN Append(Now.outs, m) ELSE RemoveFirst(Now.outs, m)
  BY <1>1, NowIs
<1>6. Now' = n
  BY <1>3, <1>4, <1>5 DEF Now
<1>7. StoreMirrors'
  BY <1>1 DEF ShownInv, StoreMirrors
<1>8. PanelInv'
  BY OnGlobalFits DEF ShownInv
<1>9. bound /\ Homed' /\ NamedFits'
  BY <1>1, OneStepOn
<1>10. BarsPlaced(bars', outputs')
  <2>1. outputs' \in Seq(Monitors)
    BY <1>8 DEF PanelInv, ListFits
  <2> QED
    BY <1>1, <1>9, <2>1, RebuildInPlace DEF ShownInv
<1> QED
  BY <1>2, <1>6, <1>7, <1>8, <1>9, <1>10 DEF ShownInv

\* At the start the client is told all there is.
LEMMA BindMirrors ==
  ASSUME ShownInv, Bind
  PROVE  ShownInv'
<1> DEFINE entry(w) == [app_id |-> apps[w], title |-> apps[w], output |-> places[w],
                        activated |-> (w = focus), announced |-> TRUE]
           t(w) == [app_id |-> apps[w], activated |-> (w = focus), output |-> places[w]]
<1>1. /\ ~bound /\ bound' = TRUE /\ outputs' = monitors
      /\ list' = [w \in Mapped |-> entry(w)]
      /\ toplevels' = [w \in Mapped |-> t(w)]
      /\ bars' = BuildWindows(monitors, pins_file, toplevels')
      /\ UNCHANGED <<apps, named, places, focus, monitors, maps, wire, pins_file>>
  BY DEF Bind, compositorVars
<1>2. ASSUME NEW w \in Mapped
      PROVE  /\ entry(w).app_id = apps[w] /\ entry(w).title # None
             /\ entry(w).output = places[w] /\ entry(w).announced = TRUE
             /\ entry(w).activated \in BOOLEAN /\ (entry(w).activated = TRUE <=> w = focus)
             /\ t(w).app_id = apps[w] /\ t(w).output = places[w]
             /\ t(w).activated = TRUE <=> w = focus
  <2> DEFINE b == (w = focus)
  <2>1. b \in BOOLEAN /\ (b = TRUE <=> w = focus)
    OBVIOUS
  <2> HIDE DEF b
  <2>2. entry(w) = [app_id |-> apps[w], title |-> apps[w], output |-> places[w],
                    activated |-> b, announced |-> TRUE]
        /\ t(w) = [app_id |-> apps[w], activated |-> b, output |-> places[w]]
    BY DEF b
  <2>3. apps[w] # None
    BY NoneAssumption DEF ShownInv, PanelInv, CompositorFits
  <2> HIDE DEF entry, t
  <2> QED
    BY <2>1, <2>2, <2>3
<1> HIDE DEF entry, t
<1>3. /\ DOMAIN list' = Mapped /\ DOMAIN toplevels' = Mapped
      /\ \A w \in Mapped :
           /\ list'[w].app_id = apps[w] /\ list'[w].title # None
           /\ list'[w].output = places[w] /\ list'[w].announced = TRUE
           /\ list'[w].activated \in BOOLEAN /\ (list'[w].activated = TRUE <=> w = focus)
           /\ toplevels'[w].app_id = apps[w] /\ toplevels'[w].output = places[w]
           /\ (toplevels'[w].activated = TRUE <=> w = focus)
  <2>1. \A w \in Mapped : list'[w] = entry(w) /\ toplevels'[w] = t(w)
    BY <1>1
  <2> QED
    BY <1>1, <1>2, <2>1
<1>13. Heard' = Called
  <2> DEFINE C(l, f) == Names(l, f)
             f2(w) == IF list'[w].announced THEN toplevels'[w].app_id ELSE list'[w].app_id
  <2>1. /\ Heard' = [w \in Mapped |-> C(list'[w].app_id, f2(w))]
        /\ Called = [w \in Mapped |-> C(apps[w], apps[w])]
    BY <1>1, <1>3 DEF Heard, Called, ShownInv, NamedFits
  <2>2. \A w \in Mapped : list'[w].app_id = apps[w] /\ f2(w) = apps[w]
    BY <1>3
  <2> HIDE DEF C, f2
  <2> QED
    BY <2>1, <2>2
<1>4. [w \in DOMAIN list' |-> list'[w].output] = places
  <2>1. apps \in [Mapped -> Apps] /\ places \in [Mapped -> Monitors \union {None}]
    BY DEF ShownInv, PanelInv, CompositorFits
  <2> QED
    BY <1>3, <2>1
<1>5. /\ Titled' = Mapped /\ Told' = Mapped /\ Activated' = Focused /\ Active' = Focused
  BY <1>3 DEF Titled, Told, Activated, Active, Focused
<1>6. Goal' = Goal /\ Homed' /\ NamedFits'
  BY <1>1 DEF Goal, Called, Focused, Mapped, ShownInv, Homed, NamedFits
<1>7. Now' = Goal
  BY <1>1, <1>4, <1>5, <1>13 DEF Now, Goal
<1>8. wire' = <<>>
  BY <1>1 DEF ShownInv, PanelInv, LinkFits
<1>9. Underway'
  <2>1. Journey(Goal, <<>>, Goal)
    BY NoJourney
  <2> QED
    BY <1>6, <1>7, <1>8, <2>1 DEF Underway
<1>10. StoreMirrors'
  <2>1. \A w \in Mapped : apps[w] # None
    BY NoneAssumption DEF ShownInv, PanelInv, CompositorFits
  <2> QED
    BY <1>3, <2>1 DEF StoreMirrors
<1>11. PanelInv'
  BY BindFits DEF ShownInv
<1>12. BarsPlaced(bars', outputs')
  BY <1>1, <1>11, BuiltInPlace DEF ShownInv, PanelInv, CompositorFits, BarsFine, StoreFits
<1> QED
  BY <1>6, <1>9, <1>10, <1>11, <1>12 DEF ShownInv

-----------------------------------------------------------------------------
(***************************************************************************)
(* The theorem.                                                            *)
(***************************************************************************)
\* A step of the compositor makes the way longer, and moves its end.
LEMMA CompositorMirrors ==
  ASSUME ShownInv, Compositor, UNCHANGED barVars, PanelInv'
  PROVE  ShownInv'
<1>1. CompositorFits /\ LinkFits /\ Homed /\ NamedFits
  BY DEF ShownInv, PanelInv
<1>2. UNCHANGED <<bound, list, outputs, toplevels, bars>>
  BY <1>1, CompositorStep DEF clientVars, barVars
<1>3. PICK evs \in Seq(Events) : Send(evs) /\ Journey(Goal, evs, Goal')
  BY <1>1, CompositorOnward DEF Onward
<1>4. Homed' /\ NamedFits'
  BY <1>1, CompositorOnward, CompositorNames
<1>5. Now' = Now
  BY <1>2 DEF Now, Heard, Titled, Told, Activated, Active
<1>6. StoreMirrors'
  BY <1>2 DEF ShownInv, StoreMirrors
<1>7. ASSUME bound PROVE Underway'
  <2>1. wire' = wire \o evs /\ wire \in Seq(Events)
    BY <1>1, <1>3, <1>7 DEF Send, LinkFits, WireFits
  <2>2. Journey(Now, wire, Goal)
    BY <1>7 DEF ShownInv, Underway
  <2> DEFINE g == Goal'
  <2>3. Journey(Goal, evs, g)
    BY <1>3
  <2> HIDE DEF g
  <2>4. Journey(Now, wire \o evs, g)
    BY <2>1, <2>2, <2>3, JourneyOn
  <2>5. Journey(Now', wire', g)
    BY <1>5, <2>1, <2>4
  <2> QED
    BY <2>5 DEF Underway, g
<1>8. bound' => Underway' /\ BarsPlaced(bars', outputs')
  BY <1>2, <1>7 DEF ShownInv
<1> QED
  BY <1>4, <1>6, <1>8 DEF ShownInv

\* What leaves the windows and the wire as they are, and each bar in its place.
LEMMA OthersMirror ==
  ASSUME ShownInv, UNCHANGED <<compositorVars, wire, clientVars, toplevels>>,
         SamePlaces(bars, bars'), PanelInv'
  PROVE  ShownInv'
<1>1. UNCHANGED <<apps, named, places, focus, monitors, wire, bound, list, outputs,
                  toplevels>>
  BY DEF compositorVars, clientVars
<1>2. Homed' /\ NamedFits' /\ StoreMirrors'
  BY <1>1 DEF ShownInv, Homed, Mapped, NamedFits, StoreMirrors
<1>3. Now' = Now /\ Goal' = Goal
  BY <1>1 DEF Now, Heard, Titled, Told, Activated, Active, Goal, Called, Focused, Mapped
<1>4. bound => Underway'
  BY <1>1, <1>3 DEF ShownInv, Underway
<1>5. bound => BarsPlaced(bars', outputs')
  BY <1>1, StayPlaced
<1> QED
  BY <1>1, <1>2, <1>4, <1>5 DEF ShownInv

\* The invariant holds when the panel starts.
LEMMA ShownStarts ==
  PanelInit => ShownInv
<1> SUFFICES ASSUME PanelInit PROVE ShownInv
  OBVIOUS
<1>1. PanelInv
  BY PanelStarts
<1>2. DOMAIN apps = {} /\ DOMAIN list = {} /\ DOMAIN toplevels = {} /\ bound = FALSE
  BY DEF PanelInit
<1>3. Homed /\ NamedFits /\ StoreMirrors
  BY <1>2 DEF PanelInit, Homed, Mapped, NamedFits, StoreMirrors
<1> QED
  BY <1>1, <1>2, <1>3 DEF ShownInv

\* Every step keeps the invariant.
LEMMA ShownKeeps ==
  ASSUME ShownInv, [PanelNext]_panelVars
  PROVE  ShownInv'
<1>0. PanelInv'
  BY PanelKeeps DEF ShownInv
<1>1. CASE Compositor /\ UNCHANGED <<barVars, acts>>
  BY <1>0, <1>1, CompositorMirrors
<1>2. CASE Bind
  BY <1>2, BindMirrors
<1>3. CASE Handle
  <2>1. CASE OnToplevel \/ OnTitle \/ OnAppId \/ OnState \/ OnClosed
    BY <2>1, OnToplevelMirrors, OnTitleMirrors, OnAppIdMirrors, OnStateMirrors,
       OnClosedMirrors
  <2>2. CASE OnOutputEnter
    <3> DEFINE kind == "enter"
               entered == TRUE
    <3>1. /\ OutputEvent(kind, entered) /\ kind \in {"enter", "leave"}
          /\ entered \in BOOLEAN /\ (entered <=> kind = "enter")
      BY <2>2 DEF OnOutputEnter
    <3> HIDE DEF kind, entered
    <3> QED
      BY <3>1, OutputEventMirrors
  <2>3. CASE OnOutputLeave
    <3> DEFINE kind == "leave"
               entered == FALSE
    <3>1. /\ OutputEvent(kind, entered) /\ kind \in {"enter", "leave"}
          /\ entered \in BOOLEAN /\ (entered <=> kind = "enter")
      BY <2>3 DEF OnOutputLeave
    <3> HIDE DEF kind, entered
    <3> QED
      BY <3>1, OutputEventMirrors
  <2>4. CASE OnGlobal \/ OnGlobalRemove
    BY <2>4, OnGlobalMirrors
  <2> QED
    BY <1>3, <2>1, <2>2, <2>3, <2>4 DEF Handle
<1>4. CASE User
  BY <1>0, <1>4, UserInPlace, OthersMirror DEF ShownInv
<1>5. CASE UNCHANGED panelVars
  <2>1. /\ UNCHANGED <<compositorVars, wire, clientVars, toplevels>> /\ bars' = bars
    BY <1>5 DEF panelVars, barVars
  <2>2. SamePlaces(bars, bars')
    BY <2>1 DEF SamePlaces
  <2> QED
    BY <1>0, <2>1, <2>2, OthersMirror
<1> QED
  BY <1>1, <1>2, <1>3, <1>4, <1>5 DEF PanelNext

\* When the journey is over the bars show the windows where they are.
LEMMA ShownAtLast ==
  ShownInv => ShownWhereItIs
<1> SUFFICES ASSUME ShownInv, bound, wire = <<>> PROVE ShownWhereItIs
  BY DEF ShownWhereItIs
<1>1. Now = Goal
  BY NoJourney DEF ShownInv, Underway
<1>2. /\ Heard = Called
      /\ [w \in DOMAIN list |-> list[w].output] = places
      /\ Told = Mapped /\ Active = Focused /\ outputs = monitors
  <2>1. /\ Goal.app = Called /\ Goal.out = places /\ Goal.told = Mapped
        /\ Goal.active = Focused /\ Goal.outs = monitors
    BY HeldIs DEF Goal
  <2> QED
    BY <1>1, <2>1, NowIs
<1>3. DOMAIN toplevels = Mapped /\ DOMAIN list = Mapped
  <2>1. DOMAIN list = Mapped
    BY <1>2 DEF Heard, Called
  <2> QED
    BY <1>2, <2>1 DEF ShownInv, PanelInv, StoreFits, Told
<1>4. ASSUME NEW w \in Mapped
      PROVE  /\ toplevels[w].app_id = named[w] /\ list[w].app_id = apps[w]
             /\ toplevels[w].activated = (w = focus)
             /\ places[w] = None \/ toplevels[w].output = places[w]
  <2>1. list[w].output = places[w]
    BY <1>2, <1>3
  <2>2. list[w].output = None \/ toplevels[w].output = list[w].output
    BY <1>3 DEF ShownInv, StoreMirrors
  <2>4. toplevels[w].app_id = named[w] /\ list[w].app_id = apps[w]
    <3>1. list[w].announced
      BY <1>2 DEF Told
    <3>2. Heard[w] = Names(list[w].app_id, toplevels[w].app_id)
      BY <1>3, <3>1 DEF Heard
    <3>3. Called[w] = Names(apps[w], named[w])
      BY DEF Called
    <3>4. Names(list[w].app_id, toplevels[w].app_id) = Names(apps[w], named[w])
      BY <1>2, <3>2, <3>3
    <3> QED
      BY <3>4 DEF Names
  <2>3. toplevels[w].activated = (w = focus)
    <3> DEFINE a == toplevels[w].activated
               b == (w = focus)
    <3>1. a = TRUE <=> w = focus
      BY <1>2, <1>3 DEF Active, Focused
    <3>2. a \in BOOLEAN
      BY <1>3, StoresAreFinite DEF ShownInv, PanelInv, StoreFits, Toplevel
    <3>3. b \in BOOLEAN /\ (b = TRUE <=> w = focus)
      OBVIOUS
    <3> HIDE DEF a, b
    <3>4. a = b
      BY <3>1, <3>2, <3>3
    <3> QED
      BY <3>4 DEF a, b
  <2> QED
    BY <2>1, <2>2, <2>3, <2>4
<1>5. \A i \in DOMAIN bars :
        DOMAIN bars[i].shown = {w \in Mapped : Accepts(bars[i], toplevels[w])}
  BY <1>3 DEF ShownInv, PanelInv, BarsFine, Fine, Follows
<1>6. BarsPlaced(bars, monitors) /\ DOMAIN bars = 1 .. Len(bars) /\ Len(bars) \in Nat
  BY <1>2 DEF ShownInv, PanelInv, BarsFine
<1>7. /\ monitors \in Seq(Monitors) /\ \A w \in Mapped : places[w] \in Homes(monitors)
      /\ \A i \in DOMAIN monitors : monitors[i] # None /\ monitors # <<>>
  BY NoneAssumption DEF ShownInv, PanelInv, CompositorFits, Homed
<1>8. ASSUME MultiMonitor, NEW i \in DOMAIN bars, NEW w \in Mapped, i \in DOMAIN monitors
      PROVE  w \in DOMAIN bars[i].shown <=> ~PerMonitorApps \/ monitors[i] = places[w]
  <2>1. bars[i].only_output = IF PerMonitorApps THEN monitors[i] ELSE None
    BY <1>6, <1>7, <1>8 DEF BarsPlaced
  <2>2. places[w] # None
    <3>1. \A m \in ToSet(monitors) : m # None
      BY <1>7 DEF ToSet
    <3> QED
      BY <1>7, <1>8, <3>1 DEF Homes
  <2>3. toplevels[w].output = places[w]
    BY <1>4, <2>2
  <2>4. w \in DOMAIN bars[i].shown <=> Accepts(bars[i], toplevels[w])
    BY <1>5
  <2> QED
    BY <1>7, <1>8, <2>1, <2>2, <2>3, <2>4 DEF Accepts
<1>9. MultiMonitor /\ monitors # <<>> => Len(bars) = Len(monitors)
  BY <1>6 DEF BarsPlaced
<1>10. ASSUME monitors = <<>>, NEW i \in DOMAIN bars PROVE DOMAIN bars[i].shown = Mapped
  <2>1. bars[i].only_output = None
    BY <1>6, <1>10 DEF BarsPlaced
  <2> QED
    BY <1>5, <2>1 DEF Accepts
<1> QED
  BY <1>3, <1>4, <1>8, <1>9, <1>10 DEF ShownWhereItIs

\* When nothing is on the way, the panel shows the windows the compositor has,
\* each on the bar of its monitor, and as active the one with the focus.  Its entry
\* is that of the app_id the window was announced with, whatever app_id it took later.
THEOREM PanelShowsWhereItIs == PanelSpec => []ShownWhereItIs
<1>1. ShownInv /\ [PanelNext]_panelVars => ShownInv'
  BY ShownKeeps
<1> QED
  BY ShownStarts, <1>1, ShownAtLast, PTL DEF PanelSpec

-----------------------------------------------------------------------------
(***************************************************************************)
(* The order of the box.  A drop puts each entry behind the one before it  *)
(* in the order taken down at the start of the drag; what stands before    *)
(* what after each of these steps gives the order they end in.             *)
(***************************************************************************)
\* Entries of the box stand in one order or the other, not in both.
LEMMA StandsTotal ==
  ASSUME NEW s \in Boxes, NEW x \in ToSet(s), NEW y \in ToSet(s)
  PROVE  /\ x # y => StandsBefore(s, x, y) \/ StandsBefore(s, y, x)
         /\ StandsBefore(s, x, y) => x # y /\ ~StandsBefore(s, y, x)
<1>1. DOMAIN s = 1 .. Len(s) /\ Len(s) \in Nat /\ IsInjective(s)
  BY DEF Boxes
<1>2. ASSUME x # y PROVE StandsBefore(s, x, y) \/ StandsBefore(s, y, x)
  <2>1. PICK i, j \in DOMAIN s : s[i] = x /\ s[j] = y
    BY DEF ToSet
  <2>2. i < j \/ j < i
    BY <1>1, <1>2, <2>1
  <2> QED
    BY <2>1, <2>2 DEF StandsBefore
<1>3. ASSUME StandsBefore(s, x, y) PROVE x # y /\ ~StandsBefore(s, y, x)
  <2>1. PICK i, j \in DOMAIN s : i < j /\ s[i] = x /\ s[j] = y
    BY <1>3 DEF StandsBefore
  <2>2. i # j /\ i \in Nat /\ j \in Nat
    BY <1>1, <2>1
  <2>3. x # y
    BY <1>1, <2>1, <2>2 DEF IsInjective
  <2>4. ASSUME StandsBefore(s, y, x) PROVE FALSE
    <3>1. PICK k, l \in DOMAIN s : k < l /\ s[k] = y /\ s[l] = x
      BY <2>4 DEF StandsBefore
    <3>2. k = j /\ l = i
      BY <1>1, <2>1, <3>1 DEF IsInjective
    <3> QED
      BY <1>1, <2>1, <3>1, <3>2
  <2> QED
    BY <2>3, <2>4
<1> QED
  BY <1>2, <1>3

\* Who stands before another is in the list.
LEMMA StandsIn ==
  ASSUME NEW s, NEW x, NEW y, StandsBefore(s, x, y)
  PROVE  x \in ToSet(s) /\ y \in ToSet(s)
BY DEF StandsBefore, ToSet

\* Taking one entry out leaves the others in their order.
LEMMA RemoveFirstOrder ==
  ASSUME NEW s \in Boxes, NEW e, NEW x, NEW y, x # e, y # e, StandsBefore(s, x, y)
  PROVE  StandsBefore(RemoveFirst(s, e), x, y)
<1>1. s \in Seq(Apps) /\ DOMAIN s = 1 .. Len(s) /\ Len(s) \in Nat
  BY DEF Boxes
<1>2. CASE RemoveFirst(s, e) = s
  BY <1>2
<1>3. ASSUME NEW k \in 1 .. Len(s), s[k] = e, RemoveFirst(s, e) = RemoveAt(s, k)
      PROVE  StandsBefore(RemoveFirst(s, e), x, y)
  <2> DEFINE r == RemoveAt(s, k)
             To(i) == IF i < k THEN i ELSE i - 1
  <2>1. /\ r \in Seq(Apps) /\ Len(r) = Len(s) - 1
        /\ \A i \in 1 .. Len(s) - 1 : r[i] = IF i < k THEN s[i] ELSE s[i + 1]
    BY <1>1, RemoveAtIs
  <2> HIDE DEF r
  <2>2. DOMAIN r = 1 .. Len(s) - 1
    BY <2>1
  <2>3. PICK i, j \in DOMAIN s : i < j /\ s[i] = x /\ s[j] = y
    BY DEF StandsBefore
  <2>4. i # k /\ j # k
    BY <1>3, <2>3
  <2>5. /\ To(i) \in 1 .. Len(s) - 1 /\ To(j) \in 1 .. Len(s) - 1 /\ To(i) < To(j)
    BY <1>1, <2>3, <2>4
  <2>6. r[To(i)] = s[i]
    BY <1>1, <2>1, <2>4, <2>5
  <2>7. r[To(j)] = s[j]
    BY <1>1, <2>1, <2>4, <2>5
  <2> HIDE DEF To
  <2>8. StandsBefore(r, x, y)
    BY <2>2, <2>3, <2>5, <2>6, <2>7 DEF StandsBefore
  <2> QED
    BY <1>3, <2>8 DEF r
<1> QED
  BY <1>1, <1>2, <1>3, RemoveFirstIs

\* A new entry stands behind all there are, which stay in their order.
LEMMA AppendOrder ==
  ASSUME NEW s \in Boxes, NEW e, NEW x \in ToSet(s), NEW y
  PROVE  /\ StandsBefore(s, x, y) => StandsBefore(Append(s, e), x, y)
         /\ StandsBefore(Append(s, e), x, e)
<1> DEFINE r == Append(s, e)
<1>1. s \in Seq(Apps) /\ DOMAIN s = 1 .. Len(s) /\ Len(s) \in Nat
  BY DEF Boxes
<1>2. /\ DOMAIN r = 1 .. Len(s) + 1 /\ r[Len(s) + 1] = e
      /\ \A i \in 1 .. Len(s) : r[i] = s[i]
  BY <1>1
<1> HIDE DEF r
<1>3. \A i \in 1 .. Len(s) : i \in 1 .. Len(s) + 1 /\ i < Len(s) + 1
  BY <1>1
<1>4. Len(s) + 1 \in 1 .. Len(s) + 1
  BY <1>1
<1>5. PICK i \in DOMAIN s : s[i] = x
  BY DEF ToSet
<1>6. StandsBefore(r, x, e)
  BY <1>1, <1>2, <1>3, <1>4, <1>5 DEF StandsBefore
<1>7. ASSUME StandsBefore(s, x, y) PROVE StandsBefore(r, x, y)
  BY <1>1, <1>2, <1>3, <1>7 DEF StandsBefore
<1> QED
  BY <1>6, <1>7 DEF r

\* What reorder_child_after does to the order: the others stay as they are, and
\* the entry is at the head, or right behind the one it is to follow.
Moved(o, e, prev, r) ==
  /\ \A x, y \in ToSet(o) \ {e} : StandsBefore(o, x, y) => StandsBefore(r, x, y)
  /\ prev = None => \A y \in ToSet(o) \ {e} : StandsBefore(r, e, y)
  /\ prev # None =>
       /\ StandsBefore(r, prev, e)
       /\ \A x \in ToSet(o) \ {e} : StandsBefore(o, x, prev) => StandsBefore(r, x, e)
       /\ \A y \in ToSet(o) \ {e} : StandsBefore(o, prev, y) => StandsBefore(r, e, y)

\* reorder_child_after does so.
LEMMA ReorderMoves ==
  ASSUME NEW o \in Boxes, NEW e \in ToSet(o), NEW prev \in (ToSet(o) \ {e}) \union {None}
  PROVE  Moved(o, e, prev, ReorderAfter(o, e, prev))
<1> DEFINE rest == RemoveFirst(o, e)
           at == IF prev = None THEN 1 ELSE 1 + CHOOSE i \in DOMAIN rest : rest[i] = prev
           r == ReorderAfter(o, e, prev)
<1>1. o \in Seq(Apps) /\ IsInjective(o) /\ ToSet(o) \subseteq Apps /\ e \in Apps
  BY DEF Boxes, ToSet
<1>2. e # Gone /\ prev # Gone /\ None \notin Apps
  BY <1>1, GoneAssumption, NoneAssumption
<1>3. r = InsertAt(rest, at, e)
  BY <1>2 DEF ReorderAfter
<1>4. rest \in Seq(Apps) /\ IsInjective(rest) /\ ToSet(rest) = ToSet(o) \ {e}
  BY <1>1, RemoveFirstResult
<1>5. \A x, y \in ToSet(o) \ {e} : StandsBefore(o, x, y) => StandsBefore(rest, x, y)
  BY RemoveFirstOrder
<1> HIDE DEF rest
<1>6. DOMAIN rest = 1 .. Len(rest) /\ Len(rest) \in Nat
  BY <1>4
<1>7. prev # None => at - 1 \in 1 .. Len(rest) /\ rest[at - 1] = prev /\ at \in Nat
  <2> SUFFICES ASSUME prev # None
               PROVE  at - 1 \in 1 .. Len(rest) /\ rest[at - 1] = prev /\ at \in Nat
    OBVIOUS
  <2> DEFINE p == CHOOSE i \in DOMAIN rest : rest[i] = prev
  <2>1. \E i \in DOMAIN rest : rest[i] = prev
    BY <1>4 DEF ToSet
  <2>2. p \in DOMAIN rest /\ rest[p] = prev
    BY <2>1
  <2>3. at = 1 + p
    OBVIOUS
  <2> HIDE DEF p, at
  <2> QED
    BY <1>6, <2>2, <2>3
<1>8. prev = None => at = 1
  OBVIOUS
<1> HIDE DEF at
<1>9. at \in 1 .. Len(rest) + 1
  BY <1>6, <1>7, <1>8
<1>10. Inserted(Apps, rest, at, e, r)
  BY <1>1, <1>3, <1>4, <1>9, InsertAtIs
<1> HIDE DEF r
<1> DEFINE To(i) == IF i < at THEN i ELSE i + 1
<1>11. /\ DOMAIN r = 1 .. Len(rest) + 1 /\ r[at] = e
       /\ \A i \in 1 .. Len(rest) : To(i) \in DOMAIN r /\ r[To(i)] = rest[i]
  <2>1. DOMAIN r = 1 .. Len(rest) + 1 /\ r[at] = e
    BY <1>6, <1>9, <1>10 DEF Inserted
  <2>2. ASSUME NEW i \in 1 .. Len(rest) PROVE To(i) \in DOMAIN r /\ r[To(i)] = rest[i]
    <3>1. To(i) \in 1 .. Len(rest) + 1
      BY <1>6
    <3>2. CASE i < at
      BY <1>9, <1>10, <2>1, <3>1, <3>2 DEF Inserted
    <3>3. CASE ~(i < at)
      <4>1. ~(i + 1 < at) /\ i + 1 # at /\ (i + 1) - 1 = i
        BY <1>9, <3>3
      <4> QED
        BY <1>10, <2>1, <3>1, <3>3, <4>1 DEF Inserted
    <3> QED
      BY <3>2, <3>3
  <2> QED
    BY <2>1, <2>2
<1>12. \A i, j \in 1 .. Len(rest) : i < j => To(i) < To(j)
  BY <1>9
<1>13. \A i \in 1 .. Len(rest) : i < at => To(i) < at
  BY <1>9
<1>14. \A i \in 1 .. Len(rest) : ~(i < at) => at < To(i)
  BY <1>9
<1> HIDE DEF To
<1>15. \A x, y \in ToSet(o) \ {e} : StandsBefore(o, x, y) => StandsBefore(r, x, y)
  <2> SUFFICES ASSUME NEW x, NEW y, StandsBefore(rest, x, y) PROVE StandsBefore(r, x, y)
    BY <1>5
  <2> QED
    BY <1>6, <1>11, <1>12 DEF StandsBefore
<1>16. prev = None => \A y \in ToSet(o) \ {e} : StandsBefore(r, e, y)
  <2> SUFFICES ASSUME prev = None, NEW y \in ToSet(rest) PROVE StandsBefore(r, e, y)
    BY <1>4
  <2>1. PICK j \in 1 .. Len(rest) : rest[j] = y
    BY <1>6 DEF ToSet
  <2>2. at < To(j)
    BY <1>8, <1>14
  <2>3. at \in DOMAIN r
    BY <1>9, <1>11
  <2> QED
    BY <1>11, <2>1, <2>2, <2>3 DEF StandsBefore
<1>17. ASSUME prev # None
       PROVE  /\ StandsBefore(r, prev, e)
              /\ \A x \in ToSet(o) \ {e} : StandsBefore(o, x, prev) => StandsBefore(r, x, e)
              /\ \A y \in ToSet(o) \ {e} : StandsBefore(o, prev, y) => StandsBefore(r, e, y)
  <2> DEFINE p == at - 1
  <2>1. p \in 1 .. Len(rest) /\ rest[p] = prev /\ p < at /\ prev \in ToSet(o) \ {e}
    BY <1>7, <1>17
  <2>2. \A i \in 1 .. Len(rest) : p < i => ~(i < at)
    BY <1>7, <1>17
  <2>3. \A i \in 1 .. Len(rest) : i < p => i < at
    BY <1>7, <1>17
  <2>4. at \in DOMAIN r
    BY <1>9, <1>11
  <2> HIDE DEF p
  <2>5. StandsBefore(r, prev, e)
    BY <1>11, <1>13, <2>1, <2>4 DEF StandsBefore
  <2>6. ASSUME NEW x \in ToSet(o) \ {e}, StandsBefore(o, x, prev) PROVE StandsBefore(r, x, e)
    <3>1. PICK i, j \in 1 .. Len(rest) : i < j /\ rest[i] = x /\ rest[j] = prev
      BY <1>5, <1>6, <2>1, <2>6 DEF StandsBefore
    <3>2. j = p
      BY <1>4, <1>6, <2>1, <3>1 DEF IsInjective
    <3> QED
      BY <1>11, <1>13, <2>3, <2>4, <3>1, <3>2 DEF StandsBefore
  <2>7. ASSUME NEW y \in ToSet(o) \ {e}, StandsBefore(o, prev, y) PROVE StandsBefore(r, e, y)
    <3>1. PICK i, j \in 1 .. Len(rest) : i < j /\ rest[i] = prev /\ rest[j] = y
      BY <1>5, <1>6, <2>1, <2>7 DEF StandsBefore
    <3>2. i = p
      BY <1>4, <1>6, <2>1, <3>1 DEF IsInjective
    <3> QED
      BY <1>11, <1>14, <2>2, <2>4, <3>1, <3>2 DEF StandsBefore
  <2> QED
    BY <2>5, <2>6, <2>7
<1>18. Moved(o, e, prev, r)
  BY <1>15, <1>16, <1>17 DEF Moved
<1> QED
  BY <1>18 DEF r

\* The order o after n steps towards the target: newcomers keep their order, and
\* those of the target stand before them; the first n of the target stand in its
\* order; and those up to the first gone stand before all that are not placed yet.
Lined(order, target, n, o) ==
  LET newcomers == ToSet(order) \ ToSet(target) IN
  /\ \A x, y \in newcomers : StandsBefore(order, x, y) => StandsBefore(o, x, y)
  /\ \A x \in ToSet(target) \ {Gone}, y \in newcomers : StandsBefore(o, x, y)
  /\ \A i, j \in 1 .. n :
       i < j /\ Gone \notin {target[i], target[j]} => StandsBefore(o, target[i], target[j])
  /\ \A i \in 1 .. n, j \in n + 1 .. Len(target) :
       target[j] # Gone /\ (\A k \in 1 .. i : target[k] # Gone)
         => StandsBefore(o, target[i], target[j])

\* A step that places an entry.
LEMMA PlacedLined ==
  ASSUME NEW order \in Boxes, NEW target \in Seq(ToSet(order) \union {Gone}),
         IsInjective(target), NEW n \in 1 .. Len(target), NEW o \in Boxes,
         ToSet(o) = ToSet(order), Lined(order, target, n - 1, o),
         target[n] # Gone, n = 1 \/ target[n - 1] # Gone,
         NEW r, Moved(o, target[n], IF n = 1 THEN None ELSE target[n - 1], r)
  PROVE  Lined(order, target, n, r)
<1> DEFINE newcomers == ToSet(order) \ ToSet(target)
           e == target[n]
           p == target[n - 1]
<1>1. /\ DOMAIN target = 1 .. Len(target) /\ Len(target) \in Nat
      /\ \A i \in 1 .. Len(target) : target[i] \in ToSet(target)
      /\ \A i \in 1 .. Len(target) : target[i] # Gone => target[i] \in ToSet(o)
      /\ \A i, j \in 1 .. Len(target) : target[i] = target[j] => i = j
  <2>1. DOMAIN target = 1 .. Len(target) /\ Len(target) \in Nat
    OBVIOUS
  <2>2. \A i \in 1 .. Len(target) : target[i] \in ToSet(order) \union {Gone}
    OBVIOUS
  <2>3. \A i \in 1 .. Len(target) : target[i] \in ToSet(target)
    BY <2>1 DEF ToSet
  <2> QED
    BY <2>1, <2>2, <2>3 DEF IsInjective
<1>2. /\ \A x, y \in newcomers : StandsBefore(order, x, y) => StandsBefore(o, x, y)
      /\ \A x \in ToSet(target) \ {Gone}, y \in newcomers : StandsBefore(o, x, y)
  BY DEF Lined
<1>3. \A i, j \in 1 .. n - 1 :
        i < j /\ target[i] # Gone /\ target[j] # Gone => StandsBefore(o, target[i], target[j])
  BY DEF Lined
<1>4. \A i \in 1 .. n - 1, j \in n .. Len(target) :
        target[j] # Gone /\ (\A k \in 1 .. i : target[k] # Gone)
          => StandsBefore(o, target[i], target[j])
  BY DEF Lined
<1>5. /\ \A x, y \in ToSet(o) \ {e} : StandsBefore(o, x, y) => StandsBefore(r, x, y)
      /\ n = 1 => \A y \in ToSet(o) \ {e} : StandsBefore(r, e, y)
      /\ n # 1 =>
           /\ StandsBefore(r, p, e)
           /\ \A x \in ToSet(o) \ {e} : StandsBefore(o, x, p) => StandsBefore(r, x, e)
           /\ \A y \in ToSet(o) \ {e} : StandsBefore(o, p, y) => StandsBefore(r, e, y)
  <2>1. CASE n = 1
    BY <2>1 DEF Moved
  <2>2. CASE n # 1
    <3>1. n - 1 \in 1 .. Len(target) /\ p # Gone
      BY <2>2
    <3>2. p \in ToSet(o)
      BY <1>1, <3>1
    <3>3. p # None
      <4>1. ToSet(o) \subseteq Apps
        BY DEF Boxes, ToSet
      <4> QED
        BY <3>2, <4>1, NoneAssumption
    <3>4. Moved(o, e, p, r)
      BY <2>2
    <3> HIDE DEF e, p
    <3> QED
      BY <2>2, <3>3, <3>4 DEF Moved
  <2> QED
    BY <2>1, <2>2
<1>6. n # 1 => n - 1 \in 1 .. n - 1 /\ n - 1 \in 1 .. Len(target) /\ p # Gone
  OBVIOUS
<1>7. e \in ToSet(o) /\ e \in ToSet(target)
  BY <1>1
<1> DEFINE New(x) == x \in newcomers
<1>8. \A x : New(x) => x \in ToSet(o) \ {e}
  BY <1>7
<1>9. \A x, y \in newcomers : StandsBefore(order, x, y) => StandsBefore(r, x, y)
  <2> HIDE DEF e, newcomers
  <2> QED
    BY <1>2, <1>5, <1>8
<1>10. ASSUME NEW x \in ToSet(target) \ {Gone}, NEW y \in newcomers
       PROVE  StandsBefore(r, x, y)
  <2>1. x \in ToSet(o) /\ y \in ToSet(o) \ {e} /\ StandsBefore(o, x, y)
    <3>1. ToSet(target) \subseteq ToSet(order) \union {Gone}
      BY DEF ToSet
    <3>2. StandsBefore(o, x, y)
      BY <1>2
    <3> QED
      BY <1>8, <1>10, <3>1, <3>2
  <2>2. CASE x # e
    BY <1>5, <2>1, <2>2
  <2>3. CASE x = e /\ n = 1
    BY <1>5, <2>1, <2>3
  <2>4. CASE x = e /\ n # 1
    <3>1. p \in ToSet(target) \ {Gone}
      BY <1>1, <1>6, <2>4
    <3>2. StandsBefore(o, p, y)
      BY <1>2, <3>1
    <3> QED
      BY <1>5, <2>1, <2>4, <3>2
  <2> QED
    BY <2>2, <2>3, <2>4
<1>11. ASSUME NEW i \in 1 .. n, NEW j \in 1 .. n, i < j, target[i] # Gone, target[j] # Gone
       PROVE  StandsBefore(r, target[i], target[j])
  <2>1. i \in 1 .. n - 1 /\ i \in 1 .. Len(target) /\ j \in 1 .. Len(target) /\ i # n
    BY <1>1, <1>11
  <2>2. target[i] \in ToSet(o) \ {e}
    BY <1>1, <1>11, <2>1
  <2>3. CASE j # n
    <3>1. j \in 1 .. n - 1
      BY <1>1, <2>1, <2>3
    <3>2. target[j] \in ToSet(o) \ {e}
      BY <1>1, <1>11, <2>1, <2>3
    <3>3. StandsBefore(o, target[i], target[j])
      BY <1>3, <1>11, <2>1, <3>1
    <3> QED
      BY <1>5, <2>2, <3>2, <3>3
  <2>4. CASE j = n
    <3>1. n # 1
      BY <2>1
    <3>2. CASE i = n - 1
      BY <1>5, <2>4, <3>1, <3>2
    <3>3. CASE i # n - 1
      <4>1. i < n - 1 /\ n - 1 \in 1 .. n - 1
        BY <1>1, <2>1, <3>1, <3>3
      <4>2. StandsBefore(o, target[i], p)
        BY <1>3, <1>6, <1>11, <2>1, <3>1, <4>1
      <4> QED
        BY <1>5, <2>2, <2>4, <3>1, <4>2
    <3> QED
      BY <3>2, <3>3
  <2> QED
    BY <2>3, <2>4
<1>12. ASSUME NEW i \in 1 .. n, NEW j \in n + 1 .. Len(target), target[j] # Gone,
              \A k \in 1 .. i : target[k] # Gone
       PROVE  StandsBefore(r, target[i], target[j])
  <2>1. /\ i \in 1 .. Len(target) /\ j \in 1 .. Len(target) /\ j # n /\ j \in n .. Len(target)
        /\ i \in 1 .. i
    BY <1>1
  <2>2. target[j] \in ToSet(o) \ {e} /\ target[i] # Gone
    BY <1>1, <1>12, <2>1
  <2>3. CASE i # n
    <3>1. i \in 1 .. n - 1
      BY <1>1, <2>3
    <3>2. StandsBefore(o, target[i], target[j])
      BY <1>4, <1>12, <2>1, <3>1
    <3>3. target[i] \in ToSet(o) \ {e}
      BY <1>1, <2>1, <2>2, <2>3
    <3> QED
      BY <1>5, <2>2, <3>2, <3>3
  <2>4. CASE i = n /\ n = 1
    BY <1>5, <2>2, <2>4
  <2>5. CASE i = n /\ n # 1
    <3>1. \A k \in 1 .. n - 1 : k \in 1 .. i
      BY <1>1, <2>5
    <3>2. StandsBefore(o, p, target[j])
      BY <1>4, <1>6, <1>12, <2>1, <2>5, <3>1
    <3> QED
      BY <1>5, <2>2, <2>5, <3>2
  <2> QED
    BY <2>3, <2>4, <2>5
<1> QED
  BY <1>9, <1>10, <1>11, <1>12 DEF Lined

\* A step past a place whose entry is gone, or that has such a place before it.
LEMMA SkippedLined ==
  ASSUME NEW order \in Boxes, NEW target \in Seq(ToSet(order) \union {Gone}),
         IsInjective(target), NEW n \in 1 .. Len(target), NEW o,
         Lined(order, target, n - 1, o),
         target[n] = Gone \/ (n # 1 /\ target[n - 1] = Gone)
  PROVE  Lined(order, target, n, o)
<1>1. /\ DOMAIN target = 1 .. Len(target) /\ Len(target) \in Nat
      /\ \A i, j \in 1 .. Len(target) : target[i] = target[j] => i = j
  BY DEF IsInjective
<1>2. \A i, j \in 1 .. n - 1 :
        i < j /\ target[i] # Gone /\ target[j] # Gone => StandsBefore(o, target[i], target[j])
  BY DEF Lined
<1>3. \A i \in 1 .. n - 1, j \in n .. Len(target) :
        target[j] # Gone /\ (\A k \in 1 .. i : target[k] # Gone)
          => StandsBefore(o, target[i], target[j])
  BY DEF Lined
<1>4. ASSUME NEW i \in 1 .. n, NEW j \in 1 .. n, i < j, target[i] # Gone, target[j] # Gone
      PROVE  StandsBefore(o, target[i], target[j])
  <2>1. i \in 1 .. n - 1
    BY <1>1, <1>4
  <2>2. CASE j # n
    <3>1. j \in 1 .. n - 1
      BY <1>1, <2>2
    <3> QED
      BY <1>2, <1>4, <2>1, <3>1
  <2>3. CASE j = n
    <3>1. n # 1 /\ target[n - 1] = Gone /\ n - 1 \in 1 .. Len(target) /\ n \in n .. Len(target)
      BY <1>1, <1>4, <2>1, <2>3
    <3>2. i # n - 1
      BY <1>4, <3>1
    <3>3. \A k \in 1 .. i : k \in 1 .. Len(target) /\ k # n - 1
      BY <1>1, <2>1, <3>2
    <3>4. \A k \in 1 .. i : target[k] # Gone
      BY <1>1, <3>1, <3>3
    <3> QED
      BY <1>3, <1>4, <2>1, <2>3, <3>1, <3>4
  <2> QED
    BY <2>2, <2>3
<1>5. ASSUME NEW i \in 1 .. n, NEW j \in n + 1 .. Len(target), target[j] # Gone,
             \A k \in 1 .. i : target[k] # Gone
      PROVE  StandsBefore(o, target[i], target[j])
  <2>1. i # n
    <3> SUFFICES ASSUME i = n PROVE FALSE
      OBVIOUS
    <3>1. n \in 1 .. i /\ (n # 1 => n - 1 \in 1 .. i)
      BY <1>1
    <3> QED
      BY <1>5, <3>1
  <2>2. i \in 1 .. n - 1 /\ j \in n .. Len(target)
    BY <1>1, <2>1
  <2> QED
    BY <1>3, <1>5, <2>2
<1>6. LET newcomers == ToSet(order) \ ToSet(target) IN
      /\ \A x, y \in newcomers : StandsBefore(order, x, y) => StandsBefore(o, x, y)
      /\ \A x \in ToSet(target) \ {Gone}, y \in newcomers : StandsBefore(o, x, y)
  BY DEF Lined
<1> QED
  BY <1>4, <1>5, <1>6 DEF Lined

\* After the last step the box is in the target's order, if no newcomer stood
\* before an entry of the target.
LEMMA ReorderedLined ==
  ASSUME NEW order \in Boxes, NEW target \in Seq(ToSet(order) \union {Gone}),
         IsInjective(target),
         \A x \in ToSet(target) \ {Gone}, y \in ToSet(order) \ ToSet(target) :
           StandsBefore(order, x, y)
  PROVE  Lined(order, target, Len(target), Reordered(order, target))
<1> DEFINE n == Len(target)
<1>1. n \in Nat /\ DOMAIN target = 1 .. n /\ Distinct(target)
  BY DEF IsInjective, Distinct
<1>2. PICK h : Steps(order, target, h)
  BY <1>1, ReorderedSteps
<1> DEFINE T == {i \in 0 .. n : Lined(order, target, i, h[i])}
<1>3. 0 \in T
  <2>1. h[0] = order
    BY <1>2 DEF Steps
  <2>2. Lined(order, target, 0, order)
    BY DEF Lined
  <2> QED
    BY <1>1, <2>1, <2>2
<1>4. ASSUME NEW i \in 0 .. n - 1, i \in T PROVE i + 1 \in T
  <2> DEFINE m == i + 1
             prev == IF m = 1 THEN None ELSE target[m - 1]
  <2>1. m \in 1 .. n /\ m - 1 = i
    BY <1>1
  <2>2. /\ h[i] \in Boxes /\ ToSet(h[i]) = ToSet(order)
        /\ h[m] = ReorderAfter(h[i], target[m], prev)
    <3>1. i \in 0 .. n
      BY <1>1
    <3> QED
      BY <1>2, <2>1, <3>1 DEF Steps
  <2>3. Lined(order, target, m - 1, h[i])
    BY <1>4, <2>1
  <2> HIDE DEF m
  <2>4. CASE target[m] = Gone \/ (m # 1 /\ target[m - 1] = Gone)
    <3>1. h[m] = h[i]
      BY <2>2, <2>4 DEF ReorderAfter
    <3>2. Lined(order, target, m, h[i])
      BY <2>1, <2>3, <2>4, SkippedLined
    <3> QED
      BY <2>1, <3>1, <3>2 DEF m
  <2>5. CASE target[m] # Gone /\ (m = 1 \/ target[m - 1] # Gone)
    <3>1. target[m] \in ToSet(h[i])
      BY <1>1, <2>1, <2>2, <2>5
    <3>2. prev \in (ToSet(h[i]) \ {target[m]}) \union {None}
      <4>1. CASE m = 1
        BY <4>1
      <4>2. CASE m # 1
        <5>1. m - 1 \in 1 .. n /\ m - 1 # m
          BY <1>1, <2>1, <4>2
        <5>2. target[m - 1] # target[m]
          BY <1>1, <2>1, <5>1 DEF IsInjective
        <5>3. target[m - 1] \in ToSet(order) \union {Gone}
          BY <1>1, <5>1
        <5> QED
          BY <2>2, <2>5, <4>2, <5>2, <5>3
      <4> QED
        BY <4>1, <4>2
    <3>3. Moved(h[i], target[m], prev, h[m])
      <4> HIDE DEF prev
      <4> QED
        BY <2>2, <3>1, <3>2, ReorderMoves
    <3>4. Lined(order, target, m, h[m])
      BY <2>1, <2>2, <2>3, <2>5, <3>3, PlacedLined
    <3> QED
      BY <2>1, <3>4 DEF m
  <2> QED
    BY <2>4, <2>5
<1>5. 0 .. n \subseteq T
  <2> HIDE DEF T, n
  <2> QED
    BY <1>1, <1>3, <1>4, UpTo
<1>6. n \in T
  BY <1>1, <1>5
<1> QED
  BY <1>2, <1>6 DEF Steps

\* What a drag has taken down stands before what came to the box meanwhile.
NewcomersLast(bar) ==
  \A x \in ToSet(bar.drag.order) \ {Gone}, y \in ToSet(bar.order) \ ToSet(bar.drag.order) :
    StandsBefore(bar.order, x, y)

\* A drop leaves the box in the order it should.
LEMMA DroppedMovesOne ==
  ASSUME NEW bar \in Bars, DragFits(bar), Dragging(bar), NewcomersLast(bar),
         IsInjective(bar.drag.order)
  PROVE  MovesOne(bar, Dropped(bar).order)
<1> DEFINE drag   == bar.drag
           old    == bar.order
           taken  == ToSet(drag.order)
           S      == ToSet(old) \union {Gone}
           others == RemoveFirst(drag.order, drag.app)
           lined  == SubSeq(others, 1, drag.target - 1) \o <<drag.app>>
                       \o SubSeq(others, drag.target, Len(others))
           box    == Reordered(old, lined)
<1>1. /\ old \in Boxes /\ drag \in Drags /\ ToSet(old) \subseteq Apps
      /\ drag.order \in Seq(Apps \union {Gone}) /\ drag.app \notin {None, Gone}
  BY DEF Bars, Boxes, Drags, Dragging, ToSet
<1>2. drag # NoDrag
  BY DEF Dragging, NoDrag
<1>3. /\ drag.app \in taken /\ drag.target \in DOMAIN drag.order /\ Distinct(drag.order)
      /\ taken \subseteq S /\ IsInjective(drag.order)
  BY <1>2 DEF DragFits
<1>4. drag.order \in Seq(S)
  <2> HIDE DEF S
  <2> QED
    BY <1>1, <1>3, ListOfMembers
<1>5. \A x \in taken \ {Gone}, y \in ToSet(old) \ taken : StandsBefore(old, x, y)
  BY DEF NewcomersLast
<1>6. lined = TargetOrder(drag)
  BY DEF TargetOrder, InsertAt
<1>7. Dropped(bar).order = box
  <2>1. Dropped(bar) = [bar EXCEPT !.order = Reordered(old, TargetOrder(drag)),
                                   !.drag = NoDrag]
    BY DEF Dropped
  <2> HIDE DEF lined
  <2> QED
    BY <1>6, <2>1 DEF Bars
<1> HIDE DEF drag, S
<1>8. /\ others \in Seq(S) /\ IsInjective(others) /\ ToSet(others) = taken \ {drag.app}
      /\ Len(others) = Len(drag.order) - 1
  <2> DEFINE d == drag.order
             a == drag.app
  <2>1. d \in Seq(S) /\ IsInjective(d) /\ Distinct(d) /\ a # Gone /\ a \in ToSet(d)
    BY <1>1, <1>3, <1>4
  <2> HIDE DEF d, a
  <2>2. /\ RemoveFirst(d, a) \in Seq(S) /\ IsInjective(RemoveFirst(d, a))
        /\ ToSet(RemoveFirst(d, a)) = ToSet(d) \ {a}
    BY <2>1, RemoveFirstResult
  <2>3. Len(RemoveFirst(d, a)) = Len(d) - 1
    BY <2>1, DistinctWithout
  <2> QED
    BY <2>2, <2>3 DEF d, a
<1>9. drag.target \in 1 .. Len(others) + 1 /\ drag.app \in S
  BY <1>3, <1>4, <1>8
<1> HIDE DEF lined
<1>10. lined = InsertAt(others, drag.target, drag.app)
  BY <1>6 DEF TargetOrder
<1> HIDE DEF others
<1>11. lined \in Seq(S) /\ IsInjective(lined) /\ ToSet(lined) = taken
  <2>1. drag.app \notin ToSet(others)
    BY <1>8
  <2> DEFINE k == drag.target
             a == drag.app
  <2>2. k \in 1 .. Len(others) + 1 /\ a \in S /\ a \notin ToSet(others)
    BY <1>9, <2>1
  <2> HIDE DEF k, a
  <2>3. /\ InsertAt(others, k, a) \in Seq(S) /\ IsInjective(InsertAt(others, k, a))
        /\ ToSet(InsertAt(others, k, a)) = ToSet(others) \union {a}
    BY <1>8, <2>2, InsertAtResult
  <2> QED
    BY <1>3, <1>8, <1>10, <2>3 DEF k, a
<1> HIDE DEF taken
<1>12. Distinct(lined)
  BY <1>11 DEF Distinct, IsInjective
<1>13. box \in Boxes /\ ToSet(box) = ToSet(old)
  BY <1>1, <1>11, <1>12, ReorderedKeeps DEF S
<1>14. Lined(old, lined, Len(lined), box)
  BY <1>1, <1>5, <1>11, ReorderedLined DEF S
<1> HIDE DEF box
<1> DEFINE newcomers == ToSet(old) \ taken
           Should(x, y) ==
             \/ StandsBefore(lined, x, y)
             \/ x \notin newcomers /\ y \in newcomers
             \/ {x, y} \subseteq newcomers /\ StandsBefore(old, x, y)
<1>15. ASSUME NEW x \in ToSet(box), NEW y \in ToSet(box), Should(x, y)
       PROVE  StandsBefore(box, x, y)
  <2>1. x # Gone /\ y # Gone
    BY <1>1, <1>13, GoneAssumption
  <2>2. CASE StandsBefore(lined, x, y)
    <3>1. PICK i, j \in DOMAIN lined : i < j /\ lined[i] = x /\ lined[j] = y
      BY <2>2 DEF StandsBefore
    <3>2. DOMAIN lined = 1 .. Len(lined)
      BY <1>11
    <3> QED
      BY <1>14, <2>1, <3>1, <3>2 DEF Lined
  <2>3. CASE x \notin newcomers /\ y \in newcomers
    <3>1. x \in ToSet(lined) \ {Gone} /\ y \in ToSet(old) \ ToSet(lined)
      BY <1>11, <1>13, <2>1, <2>3
    <3> QED
      BY <1>14, <3>1 DEF Lined
  <2>4. CASE {x, y} \subseteq newcomers /\ StandsBefore(old, x, y)
    BY <1>11, <1>14, <2>4 DEF Lined
  <2> QED
    BY <1>15, <2>2, <2>3, <2>4
<1>16. ASSUME NEW x \in ToSet(box), NEW y \in ToSet(box), x # y
       PROVE  Should(x, y) \/ Should(y, x)
  <2>1. CASE x \in newcomers /\ y \in newcomers
    BY <1>1, <1>13, <1>16, <2>1, StandsTotal
  <2>2. CASE (x \in newcomers) # (y \in newcomers)
    BY <2>2
  <2>3. CASE x \notin newcomers /\ y \notin newcomers
    <3>1. x \in ToSet(lined) /\ y \in ToSet(lined)
      BY <1>11, <1>13, <2>3
    <3>2. DOMAIN lined = 1 .. Len(lined)
      BY <1>11
    <3>3. PICK i, j \in DOMAIN lined : lined[i] = x /\ lined[j] = y
      BY <3>1 DEF ToSet
    <3>4. i < j \/ j < i
      BY <1>16, <3>2, <3>3
    <3>5. StandsBefore(lined, x, y) \/ StandsBefore(lined, y, x)
      BY <3>3, <3>4 DEF StandsBefore
    <3> QED
      BY <3>5
  <2> QED
    BY <2>1, <2>2, <2>3
<1>17. ASSUME NEW x \in ToSet(box), NEW y \in ToSet(box)
       PROVE  StandsBefore(box, x, y) <=> Should(x, y)
  <2>1. StandsBefore(box, x, y) => x # y /\ ~StandsBefore(box, y, x)
    BY <1>13, StandsTotal
  <2> HIDE DEF Should
  <2> QED
    BY <1>15, <1>16, <2>1
<1>18. MovesOne(bar, box)
  <2>1. IsInjective(box)
    BY <1>13 DEF Boxes
  <2> QED
    BY <1>13, <1>17, <2>1 DEF MovesOne, lined, others, drag, taken
<1> QED
  BY <1>7, <1>18

-----------------------------------------------------------------------------
(***************************************************************************)
(* What comes to the box under a drag comes last, and stays there.         *)
(***************************************************************************)
\* Without a drag there are no newcomers to speak of.
LEMMA NoDragLast ==
  ASSUME NEW bar, bar.drag = NoDrag
  PROVE  NewcomersLast(bar)
<1>1. bar.drag.order = <<>>
  BY DEF NoDrag
<1>2. ToSet(<<>>) = {}
  BY DEF ToSet
<1> QED
  BY <1>1, <1>2 DEF NewcomersLast

\* What changes neither the box nor the order taken down keeps the newcomers last.
LEMMA SameLast ==
  ASSUME NEW bar, NEW new, NewcomersLast(bar), new.order = bar.order,
         new.drag.order = bar.drag.order
  PROVE  NewcomersLast(new)
BY DEF NewcomersLast

\* A new entry comes last.
LEMMA AddedLast ==
  ASSUME NEW bar, GoodBar(bar), NewcomersLast(bar), NEW id, NEW t, t.app_id \in Apps
  PROVE  NewcomersLast(BarAdded(bar, id, t))
<1> DEFINE new == BarAdded(bar, id, t)
           app == t.app_id
           taken == bar.drag.order
<1>1. bar \in Bars /\ bar.order \in Boxes
  BY DEF GoodBar, Bars
<1>2. ToSet(taken) \subseteq ToSet(bar.order) \union {Gone}
  <2>1. CASE bar.drag = NoDrag
    <3>1. taken = <<>> /\ ToSet(<<>>) = {}
      BY <2>1 DEF NoDrag, ToSet
    <3> QED
      BY <3>1
  <2>2. CASE bar.drag # NoDrag
    BY <2>2 DEF GoodBar, DragFits
  <2> QED
    BY <2>1, <2>2
<1>3. new.drag = bar.drag /\ (new.order = bar.order \/ (new.order = Append(bar.order, app)))
  BY <1>1 DEF BarAdded, Bars
<1> HIDE DEF new
<1>4. CASE new.order = bar.order
  BY <1>3, <1>4, SameLast DEF new
<1>5. CASE new.order = Append(bar.order, app)
  <2>1. bar.order \in Seq(Apps)
    BY <1>1 DEF Boxes
  <2>2. ToSet(new.order) = ToSet(bar.order) \union {app}
    BY <1>5, <2>1, AppendResult
  <2>3. ASSUME NEW x \in ToSet(taken) \ {Gone}, NEW y \in ToSet(new.order) \ ToSet(taken)
        PROVE  StandsBefore(new.order, x, y)
    <3>1. x \in ToSet(bar.order)
      BY <1>2
    <3>2. CASE y \in ToSet(bar.order)
      <4>1. StandsBefore(bar.order, x, y)
        BY <3>2 DEF NewcomersLast
      <4> QED
        BY <1>1, <1>5, <3>1, <4>1, AppendOrder
    <3>3. CASE y = app
      BY <1>1, <1>5, <3>1, <3>3, AppendOrder
    <3> QED
      BY <2>2, <3>2, <3>3
  <2>4. NewcomersLast(new)
    BY <1>3, <2>3 DEF NewcomersLast
  <2> QED
    BY <2>4 DEF new
<1> QED
  BY <1>3, <1>4, <1>5

\* An entry that goes was before the newcomers, or is none of them.
LEMMA EntryRemovedLast ==
  ASSUME NEW bar \in Bars, DragFits(bar), NewcomersLast(bar), NEW app \in Apps,
         NEW ends \in BOOLEAN
  PROVE  NewcomersLast(RemoveEntry(bar, app, ends))
<1> DEFINE new == RemoveEntry(bar, app, ends)
           taken == bar.drag.order
<1>1. CASE new.drag = NoDrag
  BY <1>1, NoDragLast
<1>2. CASE new.drag # NoDrag
  <2> DEFINE b == IF ends /\ Dragging(bar) /\ bar.drag.app = app THEN Dropped(bar) ELSE bar
             r == [b EXCEPT !.order = RemoveFirst(@, app)]
  <2>1. new = IF r.drag = NoDrag THEN r
              ELSE [r EXCEPT !.drag.order = ReplaceAll(@, app, Gone),
                             !.drag.app = IF @ = app THEN Gone ELSE @]
    BY DEF RemoveEntry
  <2> HIDE DEF new
  <2>2. r.drag # NoDrag
    BY <1>2, <2>1
  <2>3. b = bar
    <3>1. Dragging(bar) => Dropped(bar).drag = NoDrag /\ Dropped(bar) \in Bars
      BY DroppedKeeps
    <3>2. b \in Bars
      BY <3>1
    <3>3. r.drag = b.drag
      <4> HIDE DEF b
      <4> QED
        BY <3>2 DEF Bars
    <3> QED
      BY <2>2, <3>1, <3>3
  <2>4. r = [bar EXCEPT !.order = RemoveFirst(bar.order, app)]
    BY <2>3
  <2> HIDE DEF b, r
  <2>5. r.drag = bar.drag /\ r.order = RemoveFirst(bar.order, app)
        /\ bar.drag \in Drags /\ bar.order \in Boxes
    BY <2>4 DEF Bars
  <2> DEFINE left == RemoveFirst(bar.order, app)
             less == ReplaceAll(taken, app, Gone)
             dragged == IF r.drag.app = app THEN Gone ELSE r.drag.app
  <2>6. new.order = left /\ new.drag.order = less
    <3>1. new = [r EXCEPT !.drag.order = less, !.drag.app = dragged]
      BY <2>1, <2>2, <2>5
    <3> HIDE DEF less, dragged, left
    <3>2. r = [bar EXCEPT !.order = left]
      BY <2>4 DEF left
    <3> QED
      BY <2>5, <3>1, <3>2 DEF Bars, Drags
  <2>7. /\ taken \in Seq(Apps \union {Gone}) /\ DOMAIN taken = 1 .. Len(taken)
        /\ less = [i \in 1 .. Len(taken) |-> IF taken[i] = app THEN Gone ELSE taken[i]]
    BY <2>5 DEF ReplaceAll, Drags
  <2> HIDE DEF taken
  <2>8. ToSet(less) \subseteq (ToSet(taken) \ {app}) \union {Gone}
    BY <2>7, GoneAssumption DEF ToSet
  <2>9. ToSet(taken) \ {app} \subseteq ToSet(less)
    <3> SUFFICES ASSUME NEW i \in 1 .. Len(taken), taken[i] # app PROVE taken[i] \in ToSet(less)
      BY <2>7 DEF ToSet
    <3>1. DOMAIN less = 1 .. Len(taken) /\ less[i] = taken[i]
      BY <2>7
    <3> QED
      BY <3>1 DEF ToSet
  <2> HIDE DEF less
  <2>10. ToSet(left) = ToSet(bar.order) \ {app}
    <3>1. bar.order \in Seq(Apps) /\ IsInjective(bar.order)
      BY <2>5 DEF Boxes
    <3> QED
      BY <3>1, RemoveFirstResult
  <2>11. ASSUME NEW x \in ToSet(less) \ {Gone}, NEW y \in ToSet(left) \ ToSet(less)
         PROVE  StandsBefore(left, x, y)
    <3>1. x \in ToSet(taken) \ {Gone} /\ x # app
      BY <2>8
    <3>2. y \in ToSet(bar.order) \ ToSet(taken) /\ y # app
      BY <2>9, <2>10
    <3>3. StandsBefore(bar.order, x, y)
      BY <3>1, <3>2 DEF NewcomersLast, taken
    <3> QED
      BY <2>5, <3>1, <3>2, <3>3, RemoveFirstOrder
  <2>12. NewcomersLast(new)
    BY <2>6, <2>11 DEF NewcomersLast
  <2> QED
    BY <2>12 DEF new
<1> QED
  BY <1>1, <1>2

\* A window that goes.
LEMMA RemovedLast ==
  ASSUME NEW bar, GoodBar(bar), NewcomersLast(bar), NEW id, NEW ends \in BOOLEAN
  PROVE  NewcomersLast(BarRemoved(bar, id, ends))
<1> DEFINE new == BarRemoved(bar, id, ends)
<1>0. bar \in Bars /\ bar.shown \in Shown /\ bar.drag \in Drags
  BY DEF GoodBar, Bars
<1>1. CASE id \notin DOMAIN bar.shown
  BY <1>1 DEF BarRemoved
<1>2. CASE id \in DOMAIN bar.shown
  <2> DEFINE app   == bar.shown[id]
             left  == RemoveFirst(bar.windows[app], id)
             cycle == IF bar.cycle[app] >= Len(left) THEN 0 ELSE bar.cycle[app]
             shown == Omit(bar.shown, id)
             b     == [bar EXCEPT !.windows[app] = left,
                                  !.cycle[app] = IF @ >= Len(left) THEN 0 ELSE @,
                                  !.shown = shown]
  <2>1. app \in Apps
    BY <1>0, <1>2 DEF Shown
  <2>2. bar.windows[app] \in Seq(Windows) /\ IsInjective(bar.windows[app])
        /\ bar.cycle[app] \in Nat
    BY <1>0, <2>1 DEF Bars, Lists
  <2>3. left \in Lists
    BY <2>2, RemoveFirstResult DEF Lists
  <2>4. shown \in Shown
    BY <1>0, OmitShown DEF ShownWithout
  <2>5. new = IF app \notin b.pinned /\ left = <<>> THEN RemoveEntry(b, app, ends) ELSE b
    BY <1>2 DEF BarRemoved
  <2>6. cycle \in Nat
    BY <2>2
  <2> HIDE DEF left, shown, new
  <2>7. b = [bar EXCEPT !.windows[app] = left, !.cycle[app] = cycle, !.shown = shown]
    BY <1>0, <2>1 DEF Bars
  <2> HIDE DEF cycle, app
  <2>8. b \in Bars /\ b.order = bar.order /\ b.drag = bar.drag
    <3> HIDE DEF b
    <3> QED
      BY <1>0, <2>3, <2>4, <2>6, <2>7 DEF Bars
  <2> HIDE DEF b
  <2>9. DragFits(b) /\ NewcomersLast(b)
    BY <2>8, SameLast DEF GoodBar, DragFits
  <2>10. NewcomersLast(new)
    BY <2>1, <2>5, <2>8, <2>9, EntryRemovedLast
  <2> QED
    BY <2>10 DEF new
<1> QED
  BY <1>1, <1>2

\* A focus changes a cycle only.
LEMMA FocusedLast ==
  ASSUME NEW bar \in Bars, NewcomersLast(bar), NEW id
  PROVE  NewcomersLast(BarFocused(bar, id))
<1>1. BarFocused(bar, id).order = bar.order /\ BarFocused(bar, id).drag = bar.drag
  BY DEF BarFocused, Bars
<1> QED
  BY <1>1, SameLast

\* A window that changes monitors comes, goes or stays.
LEMMA OutputLast ==
  ASSUME NEW bar, GoodBar(bar), NewcomersLast(bar), NEW id, NEW t, t.app_id \in Apps,
         NEW ends \in BOOLEAN
  PROVE  NewcomersLast(BarOutputChanged(bar, id, t, ends))
<1> DEFINE new == BarOutputChanged(bar, id, t, ends)
<1>1. new = bar \/ new = BarAdded(bar, id, t) \/ new = BarRemoved(bar, id, ends)
  BY DEF BarOutputChanged
<1> HIDE DEF new
<1>2. NewcomersLast(new)
  BY <1>1, AddedLast, RemovedLast
<1> QED
  BY <1>2 DEF new

\* On every bar.
BarsLast(bs) == \A i \in DOMAIN bs : NewcomersLast(bs[i])

\* The inductive invariant: there are no bars before the panel starts, and no
\* newcomer is before an entry of the order taken down.
DropInv == PanelInv /\ (~bound => bars = <<>>) /\ BarsLast(bars)

\* A window that is announced comes last.
LEMMA OnNewLast ==
  ASSUME PanelInv, PanelInv', BarsLast(bars), NEW w, OnNew(w)
  PROVE  BarsLast(bars')
<1>1. CASE list'[w].announced /\ ~list[w].announced
  <2> DEFINE t == [app_id |-> list'[w].app_id, activated |-> FALSE, output |-> None]
  <2>1. toplevels' = Extend(toplevels, w, t)
        /\ bars' = [i \in DOMAIN bars |-> BarAdded(bars[i], w, t)]
    BY <1>1 DEF OnNew, EachBar
  <2>2. t.app_id \in Apps
    <3> HIDE DEF t
    <3>1. w \in DOMAIN toplevels' /\ toplevels'[w] = t
      BY <2>1 DEF Extend
    <3>2. \A x \in DOMAIN toplevels' : toplevels'[x] \in Toplevel
      BY StoresAreFinite DEF PanelInv, StoreFits
    <3> QED
      BY <3>1, <3>2 DEF Toplevel
  <2> HIDE DEF t
  <2>3. \A i \in DOMAIN bars : GoodBar(bars[i]) /\ NewcomersLast(bars[i])
    BY DEF PanelInv, BarsFine, Fine, BarsLast
  <2>4. \A i \in DOMAIN bars : NewcomersLast(BarAdded(bars[i], w, t))
    BY <2>2, <2>3, AddedLast
  <2> QED
    BY <2>1, <2>4 DEF BarsLast
<1>2. CASE ~(list'[w].announced /\ ~list[w].announced)
  BY <1>2 DEF OnNew, barVars
<1> QED
  BY <1>1, <1>2

\* The callback for the focus.
LEMMA OnFocusLast ==
  ASSUME PanelInv, BarsLast(bars), NEW id, OnFocus(id)
  PROVE  BarsLast(bars')
<1>1. bars' = [i \in DOMAIN bars |-> BarFocused(bars[i], id)]
  BY DEF OnFocus, EachBar
<1>2. \A i \in DOMAIN bars : bars[i] \in Bars /\ NewcomersLast(bars[i])
  BY DEF PanelInv, BarsFine, Fine, GoodBar, BarsLast
<1>3. \A i \in DOMAIN bars : NewcomersLast(BarFocused(bars[i], id))
  BY <1>2, FocusedLast
<1> QED
  BY <1>1, <1>3 DEF BarsLast

\* The callback for an output.
LEMMA OnOutputLast ==
  ASSUME PanelInv, PanelInv', BarsLast(bars), NEW w \in DOMAIN toplevels,
         NEW entered \in BOOLEAN, OnOutput(w, entered)
  PROVE  BarsLast(bars')
<1> DEFINE t == toplevels'[w]
<1>1. PICK ends \in BOOLEAN : bars' = [i \in DOMAIN bars |-> BarOutputChanged(bars[i], w, t, ends)]
  BY DEF OnOutput, EachBar
<1>2. t.app_id \in Apps
  <2>1. DOMAIN toplevels' = DOMAIN toplevels
    BY DEF OnOutput
  <2>2. \A x \in DOMAIN toplevels' : toplevels'[x] \in Toplevel
    BY StoresAreFinite DEF PanelInv, StoreFits
  <2> QED
    BY <2>1, <2>2 DEF Toplevel
<1> HIDE DEF t
<1>3. \A i \in DOMAIN bars : GoodBar(bars[i]) /\ NewcomersLast(bars[i])
  BY DEF PanelInv, BarsFine, Fine, BarsLast
<1>4. \A i \in DOMAIN bars : NewcomersLast(BarOutputChanged(bars[i], w, t, ends))
  BY <1>2, <1>3, OutputLast
<1> QED
  BY <1>1, <1>4 DEF BarsLast

\* Panels that are built have no drag.
LEMMA BuiltLast ==
  ASSUME NEW ms \in Seq(Monitors), NEW file \in Boxes, NEW st \in Stores
  PROVE  BarsLast(BuildWindows(ms, file, st))
<1> DEFINE bs == BuildWindows(ms, file, st)
<1>1. CASE ~MultiMonitor \/ ms = <<>>
  <2> DEFINE bar == NewBar(None, TRUE, file, st)
  <2>1. bs = <<bar>>
    BY <1>1 DEF BuildWindows
  <2>2. bar.drag = NoDrag
    <3>1. NewBarOf(None, TRUE, file, st, bar)
      BY NewBarIsFine, Zenon
    <3> QED
      BY <3>1, Zenon DEF NewBarOf
  <2> HIDE DEF bar, bs
  <2>3. DOMAIN bs = {1} /\ bs[1] = bar
    BY <2>1
  <2>4. BarsLast(bs)
    BY <2>2, <2>3, NoDragLast DEF BarsLast
  <2> QED
    BY <2>4 DEF bs
<1>2. CASE ~(~MultiMonitor \/ ms = <<>>)
  <2> DEFINE on(i)  == IF PerMonitorApps THEN ms[i] ELSE None
             bar(i) == NewBar(on(i), i = 1, file, st)
             n == Len(ms)
  <2>1. bs = [i \in 1 .. n |-> bar(i)] /\ n \in Nat
    BY <1>2 DEF BuildWindows
  <2>2. ASSUME NEW i \in 1 .. n PROVE bar(i).drag = NoDrag
    <3> DEFINE o   == on(i)
               one == (i = 1)
    <3>1. o \in Monitors \union {None} /\ one \in BOOLEAN
      OBVIOUS
    <3> HIDE DEF one, on
    <3>2. bar(i) = NewBar(o, one, file, st)
      BY DEF one
    <3> HIDE DEF bar, o
    <3>3. NewBarOf(o, one, file, st, NewBar(o, one, file, st))
      BY <3>1, NewBarIsFine, Zenon
    <3> QED
      BY <3>2, <3>3, Zenon DEF NewBarOf
  <2> HIDE DEF bar, bs, n
  <2>3. DOMAIN bs = 1 .. n /\ \A i \in 1 .. n : bs[i] = bar(i)
    BY <2>1
  <2>4. BarsLast(bs)
    BY <2>2, <2>3, NoDragLast DEF BarsLast
  <2> QED
    BY <2>4 DEF bs
<1> QED
  BY <1>1, <1>2

\* So have those of a rebuild.
LEMMA RebuildLast ==
  ASSUME PanelInv, BarsLast(bars), NEW ms \in Seq(Monitors), NEW ends \in BOOLEAN,
         RebuildWindows(ms, ends)
  PROVE  BarsLast(bars')
<1> DEFINE left == [i \in DOMAIN bars |->
                      IF ends /\ Dragging(bars[i]) THEN Dropped(bars[i]) ELSE bars[i]]
           file == SavedBy(pins_file, bars, left)
<1>1. BarsFine(bars, toplevels, pins_file) /\ toplevels \in Stores
  BY DEF PanelInv, StoreFits
<1>2. CASE MultiMonitor
  <2>1. bars' = BuildWindows(ms, file, toplevels)
    BY <1>2 DEF RebuildWindows
  <2>2. \A i \in DOMAIN bars : left[i] \in Bars
    <3> SUFFICES ASSUME NEW i \in DOMAIN bars PROVE left[i] \in Bars
      OBVIOUS
    <3>1. bars[i] \in Bars /\ DragFits(bars[i])
      BY <1>1 DEF BarsFine, Fine, GoodBar
    <3>2. Dragging(bars[i]) => Dropped(bars[i]) \in Bars
      BY <3>1, DroppedKeeps
    <3> QED
      BY <3>1, <3>2
  <2> HIDE DEF left
  <2>3. file \in Boxes
    BY <1>1, <2>2, SavedIsBox DEF BarsFine
  <2> HIDE DEF file
  <2> QED
    BY <1>1, <2>1, <2>3, BuiltLast
<1>3. CASE ~MultiMonitor
  BY <1>3 DEF RebuildWindows
<1> QED
  BY <1>2, <1>3

\* Every handler keeps the newcomers last.
LEMMA HandleLast ==
  ASSUME PanelInv, PanelInv', BarsLast(bars), Handle
  PROVE  BarsLast(bars')
<1>1. CASE OnToplevel
  BY <1>1 DEF OnToplevel, barVars
<1>2. CASE OnTitle \/ OnAppId
  <2>1. OnNew(Head(wire).window)
    BY <1>2 DEF OnTitle, OnAppId
  <2> QED
    BY <2>1, OnNewLast
<1>3. CASE OnState
  <2>1. bars' = bars \/ \E id \in FocusCallback(Head(wire).window, Head(wire).value) : OnFocus(id)
    BY <1>3 DEF OnState, barVars
  <2> QED
    BY <2>1, OnFocusLast
<1>4. ASSUME NEW kind \in {"enter", "leave"}, NEW entered \in BOOLEAN,
             OutputEvent(kind, entered)
      PROVE  BarsLast(bars')
  <2> DEFINE w == Head(wire).window
  <2>1. CASE bars' = bars
    BY <2>1
  <2>2. CASE OnOutput(w, entered) /\ w \in DOMAIN toplevels
    BY <2>2, OnOutputLast
  <2>3. bars' = bars \/ (OnOutput(w, entered) /\ w \in DOMAIN toplevels)
    <3>1. CASE ~(Known(Head(wire).value) /\ OutputCallback(w, Head(wire).value, entered))
      BY <1>4, <3>1 DEF OutputEvent, barVars
    <3>2. CASE Known(Head(wire).value) /\ OutputCallback(w, Head(wire).value, entered)
      <4>1. OnOutput(w, entered)
        BY <1>4, <3>2 DEF OutputEvent
      <4>2. wire # <<>> /\ Head(wire).kind = kind
        BY <1>4 DEF OutputEvent, Dispatch
      <4>3. w \in DOMAIN list
        BY <4>2, HeadFits DEF PanelInv, Details
      <4>4. list[w].announced
        BY <3>2 DEF OutputCallback
      <4>5. w \in DOMAIN toplevels
        BY <4>3, <4>4 DEF PanelInv, StoreFits
      <4> QED
        BY <4>1, <4>5
    <3> QED
      BY <3>1, <3>2
  <2> QED
    BY <2>1, <2>2, <2>3
<1>5. CASE OnClosed
  <2> DEFINE w == Head(wire).window
  <2>1. \/ \E ends \in BOOLEAN : bars' = [i \in DOMAIN bars |-> BarRemoved(bars[i], w, ends)]
        \/ bars' = bars
    BY <1>5 DEF OnClosed, EachBar, barVars
  <2>2. \A i \in DOMAIN bars : GoodBar(bars[i]) /\ NewcomersLast(bars[i])
    BY DEF PanelInv, BarsFine, Fine, BarsLast
  <2>3. ASSUME NEW ends \in BOOLEAN, bars' = [i \in DOMAIN bars |-> BarRemoved(bars[i], w, ends)]
        PROVE  BarsLast(bars')
    <3>1. \A i \in DOMAIN bars : NewcomersLast(BarRemoved(bars[i], w, ends))
      BY <2>2, RemovedLast
    <3> QED
      BY <2>3, <3>1 DEF BarsLast
  <2> QED
    BY <2>1, <2>3
<1>6. CASE OnGlobal \/ OnGlobalRemove
  <2>1. outputs' \in Seq(Monitors) /\ \E ends \in BOOLEAN : RebuildWindows(outputs', ends)
    BY <1>6 DEF OnGlobal, OnGlobalRemove, PanelInv, ListFits
  <2> QED
    BY <2>1, RebuildLast
<1>7. OnOutputEnter \/ OnOutputLeave => BarsLast(bars')
  <2>1. OutputEvent("enter", TRUE) => BarsLast(bars')
    BY <1>4, Zenon
  <2>2. OutputEvent("leave", FALSE) => BarsLast(bars')
    BY <1>4, Zenon
  <2> QED
    BY <2>1, <2>2 DEF OnOutputEnter, OnOutputLeave
<1> QED
  BY <1>1, <1>2, <1>3, <1>5, <1>6, <1>7 DEF Handle

\* So does the user: a drag starts with no newcomers.
LEMMA UserLast ==
  ASSUME PanelInv, BarsLast(bars), User
  PROVE  BarsLast(bars')
<1>1. PICK i \in DOMAIN bars :
        \/ \E app \in ToSet(bars[i].order) :
             Click(i, app) \/ TogglePin(i, app) \/ DragStarted(i, app)
        \/ \E target \in DOMAIN bars[i].drag.order : DragMoved(i, target)
        \/ DragDropped(i)
  BY DEF User
<1> DEFINE old == bars[i]
<1>2. /\ GoodBar(old) /\ old \in Bars /\ DragFits(old) /\ old.order \in Boxes
      /\ old.drag \in Drags /\ NewcomersLast(old)
  BY DEF PanelInv, BarsFine, Fine, GoodBar, Bars, BarsLast
<1>3. ToSet(old.order) \subseteq Apps
  BY <1>2 DEF Boxes, ToSet
<1>4. ASSUME NEW bar, NEW file, OnBar(i, bar, file), NewcomersLast(bar) PROVE BarsLast(bars')
  BY <1>4 DEF OnBar, BarsLast
<1>5. ASSUME NEW app \in Apps, Click(i, app) PROVE BarsLast(bars')
  <2>1. PICK cycle : OnBar(i, [old EXCEPT !.cycle = cycle], pins_file)
    BY <1>5 DEF Click
  <2>2. NewcomersLast([old EXCEPT !.cycle = cycle])
    <3> DEFINE new == [old EXCEPT !.cycle = cycle]
    <3>1. new.order = old.order /\ new.drag = old.drag
      BY <1>2 DEF Bars
    <3> HIDE DEF new, old
    <3>2. NewcomersLast(new)
      BY <1>2, <3>1, SameLast
    <3> QED
      BY <3>2 DEF new
  <2> QED
    BY <1>4, <2>1, <2>2
<1>6. ASSUME NEW app \in Apps, TogglePin(i, app) PROVE BarsLast(bars')
  <2> DEFINE pinned == IF app \in old.pinned THEN old.pinned \ {app}
                       ELSE old.pinned \union {app}
             bar == [old EXCEPT !.pinned = pinned]
             new == IF app \notin bar.pinned /\ ~Open(bar, app)
                      THEN RemoveEntry(bar, app, FALSE) ELSE bar
  <2>1. OnBar(i, new, PinnedOrder(bar))
    BY <1>6 DEF TogglePin
  <2>2. pinned \in SUBSET Apps
    BY <1>2, <1>6 DEF Bars
  <2> HIDE DEF pinned, old
  <2>3. bar \in Bars /\ bar.order = old.order /\ bar.drag = old.drag
    BY <1>2, <2>2 DEF Bars
  <2> HIDE DEF bar
  <2>4. DragFits(bar) /\ NewcomersLast(bar)
    BY <1>2, <2>3, SameLast DEF DragFits
  <2> DEFINE ends == FALSE
  <2>5. ends \in BOOLEAN /\ (new = RemoveEntry(bar, app, ends) \/ new = bar)
    OBVIOUS
  <2> HIDE DEF new, ends
  <2>6. NewcomersLast(new)
    BY <1>6, <2>3, <2>4, <2>5, EntryRemovedLast
  <2> QED
    BY <1>4, <2>1, <2>6
<1>7. ASSUME NEW app \in Apps, DragStarted(i, app) PROVE BarsLast(bars')
  <2>1. \E drag : OnBar(i, [old EXCEPT !.drag = drag], pins_file) /\ drag.order = old.order
    <3> DEFINE at   == CHOOSE n \in DOMAIN old.order : old.order[n] = app
               drag == [app |-> app, order |-> old.order, target |-> at]
    <3>1. OnBar(i, [old EXCEPT !.drag = drag], pins_file)
      BY <1>7 DEF DragStarted
    <3> HIDE DEF at
    <3>2. drag.order = old.order
      OBVIOUS
    <3> HIDE DEF drag
    <3> QED
      BY <3>1, <3>2
  <2>2. PICK drag : OnBar(i, [old EXCEPT !.drag = drag], pins_file) /\ drag.order = old.order
    BY <2>1
  <2> DEFINE new == [old EXCEPT !.drag = drag]
  <2>3. new.order = old.order /\ new.drag.order = old.order
    BY <1>2, <2>2 DEF Bars
  <2> HIDE DEF new
  <2>4. NewcomersLast(new)
    BY <2>3 DEF NewcomersLast
  <2> QED
    BY <1>4, <2>2, <2>4 DEF new
<1>8. ASSUME NEW target, DragMoved(i, target) PROVE BarsLast(bars')
  <2> DEFINE new == [old EXCEPT !.drag.target = target]
  <2>1. OnBar(i, new, pins_file)
    BY <1>8 DEF DragMoved
  <2>2. new.order = old.order /\ new.drag.order = old.drag.order
    BY <1>2 DEF Bars, Drags
  <2> HIDE DEF new
  <2>3. NewcomersLast(new)
    BY <1>2, <2>2, SameLast
  <2> QED
    BY <1>4, <2>1, <2>3
<1>9. CASE DragDropped(i)
  <2>1. OnBar(i, Dropped(old), PinnedOrder(Dropped(old))) /\ Dragging(old)
    BY <1>9 DEF DragDropped
  <2>2. Dropped(old).drag = NoDrag
    BY <1>2, <2>1, DroppedKeeps
  <2> QED
    BY <1>4, <2>1, <2>2, NoDragLast
<1> QED
  BY <1>1, <1>3, <1>5, <1>6, <1>7, <1>8, <1>9

\* Every step keeps the invariant.
LEMMA DropInvKeeps ==
  ASSUME DropInv, [PanelNext]_panelVars
  PROVE  DropInv'
<1>1. PanelInv /\ PanelInv' /\ BarsLast(bars) /\ (~bound => bars = <<>>)
  BY PanelKeeps DEF DropInv
<1>2. CASE Compositor /\ UNCHANGED <<barVars, acts>>
  <2>1. bars' = bars /\ bound' = bound
    BY <1>1, <1>2, CompositorStep DEF PanelInv, barVars, clientVars
  <2> QED
    BY <1>1, <2>1 DEF DropInv
<1>3. CASE Bind
  <2>1. /\ bars' = BuildWindows(monitors, pins_file, toplevels') /\ bound' = TRUE
    BY <1>3 DEF Bind
  <2>2. monitors \in Seq(Monitors) /\ pins_file \in Boxes /\ toplevels' \in Stores
    BY <1>1 DEF PanelInv, CompositorFits, BarsFine, StoreFits
  <2>3. BarsLast(bars')
    BY <2>1, <2>2, BuiltLast
  <2> QED
    BY <1>1, <2>1, <2>3 DEF DropInv
<1>4. CASE Handle
  <2>1. bound'
    <3>1. PICK kind : Dispatch(kind)
      BY <1>4 DEF Handle, OnToplevel, OnTitle, OnAppId, OnState, OnOutputEnter,
                  OnOutputLeave, OutputEvent, OnClosed, OnGlobal, OnGlobalRemove
    <3> QED
      BY <3>1 DEF Dispatch
  <2>2. BarsLast(bars')
    BY <1>1, <1>4, HandleLast
  <2> QED
    BY <1>1, <2>1, <2>2 DEF DropInv
<1>5. CASE User
  <2>1. BarsLast(bars')
    BY <1>1, <1>5, UserLast
  <2>2. bound /\ bound' = bound
    <3>1. bound' = bound
      BY <1>1, <1>5, UserInPlace DEF clientVars
    <3>2. bars # <<>>
      BY <1>5 DEF User
    <3> QED
      BY <1>1, <3>1, <3>2
  <2> QED
    BY <1>1, <2>1, <2>2 DEF DropInv
<1>6. CASE UNCHANGED panelVars
  BY <1>1, <1>6 DEF DropInv, panelVars, barVars, clientVars
<1> QED
  BY <1>2, <1>3, <1>4, <1>5, <1>6 DEF PanelNext

\* What one step may do to a box under a drag.
DropStep ==
  \A i \in DOMAIN bars :
    /\ Dragging(bars[i]) /\ IsInjective(bars[i].drag.order)
    /\ DOMAIN bars' = DOMAIN bars /\ wire' = wire
    /\ bars'[i].drag = NoDrag
    => MovesOne(bars[i], bars'[i].order)

\* The only step with the wire as it was that ends a drag is the drop.
LEMMA OnlyDropsEnd ==
  ASSUME DropInv, [PanelNext]_panelVars
  PROVE  DropStep
<1> SUFFICES ASSUME NEW i \in DOMAIN bars,
                    Dragging(bars[i]), IsInjective(bars[i].drag.order),
                    DOMAIN bars' = DOMAIN bars, wire' = wire, bars'[i].drag = NoDrag
             PROVE  MovesOne(bars[i], bars'[i].order)
  BY DEF DropStep
<1>1. PanelInv /\ NewcomersLast(bars[i]) /\ bound
  <2>1. bars # <<>>
    OBVIOUS
  <2> QED
    BY <2>1 DEF DropInv, BarsLast
<1>2. bars[i] \in Bars /\ DragFits(bars[i]) /\ bars[i].drag # NoDrag
  <2>1. bars[i] \in Bars /\ DragFits(bars[i])
    BY <1>1 DEF PanelInv, BarsFine, Fine, GoodBar
  <2> QED
    BY <2>1 DEF Dragging, NoDrag
<1>3. bars' # bars
  BY <1>2
<1>4. User
  <2>1. ~(Compositor /\ UNCHANGED <<barVars, acts>>) /\ ~UNCHANGED panelVars
    BY <1>3 DEF barVars, panelVars
  <2>2. ~Bind
    BY <1>1 DEF Bind
  <2>3. ASSUME Handle PROVE FALSE
    <3>1. PICK kind : Dispatch(kind)
      BY <2>3 DEF Handle, OnToplevel, OnTitle, OnAppId, OnState, OnOutputEnter,
                  OnOutputLeave, OutputEvent, OnClosed, OnGlobal, OnGlobalRemove
    <3>2. wire \in Seq(Events) /\ wire # <<>> /\ wire' = Tail(wire)
      BY <1>1, <3>1 DEF Dispatch, PanelInv, LinkFits, WireFits
    <3>3. Len(wire') = Len(wire) - 1 /\ Len(wire) \in Nat
      BY <3>2
    <3> QED
      BY <3>3
  <2> QED
    BY <2>1, <2>2, <2>3 DEF PanelNext
<1>5. PICK k \in DOMAIN bars :
        \/ \E app \in ToSet(bars[k].order) :
             Click(k, app) \/ TogglePin(k, app) \/ DragStarted(k, app)
        \/ \E target \in DOMAIN bars[k].drag.order : DragMoved(k, target)
        \/ DragDropped(k)
  BY <1>4 DEF User
<1>6. ~(\E app \in ToSet(bars[k].order) :
          Click(k, app) \/ TogglePin(k, app) \/ DragStarted(k, app))
  BY DEF Click, TogglePin, DragStarted, Begins
<1>7. ASSUME NEW target, DragMoved(k, target) PROVE FALSE
  <2>1. /\ bars' = [bars EXCEPT ![k] = [bars[k] EXCEPT !.drag.target = target]]
        /\ Dragging(bars[k])
    BY <1>7 DEF DragMoved, OnBar
  <2>2. k = i
    BY <1>2, <2>1
  <2>3. bars'[i].drag.app = bars[i].drag.app
    BY <1>2, <2>1, <2>2 DEF Bars, Drags
  <2> QED
    BY <2>3 DEF Dragging, NoDrag
<1>8. CASE DragDropped(k)
  <2>1. bars' = [bars EXCEPT ![k] = Dropped(bars[k])]
    BY <1>8 DEF DragDropped, OnBar
  <2>2. k = i
    BY <1>2, <2>1
  <2>3. bars'[i] = Dropped(bars[i])
    BY <2>1, <2>2
  <2> QED
    BY <1>1, <1>2, <2>3, DroppedMovesOne
<1> QED
  BY <1>5, <1>6, <1>7, <1>8

\* A drop moves the dragged entry and no other, although windows come and go
\* during the drag (on_drag_dropped).
THEOREM DropsMoveOne == PanelSpec => DropMovesOne
<1>1. PanelInit => DropInv
  <2> SUFFICES ASSUME PanelInit PROVE DropInv
    OBVIOUS
  <2>1. bars = <<>>
    BY DEF PanelInit
  <2> QED
    BY <2>1, PanelStarts DEF DropInv, BarsLast
<1>2. DropInv /\ [PanelNext]_panelVars => DropInv'
  BY DropInvKeeps
<1>3. DropInv /\ [PanelNext]_panelVars => [DropStep]_panelVars
  BY OnlyDropsEnd
<1> QED
  BY <1>1, <1>2, <1>3, PTL DEF PanelSpec, DropMovesOne, DropStep
=============================================================================
