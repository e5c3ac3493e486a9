---------------------------- MODULE Notifications ----------------------------
(***************************************************************************)
(* lumen-notifications: the manager that stores notifications and arms     *)
(* their expiry, the stack of banners that leave with an animation, and    *)
(* the wiring between them, the window and the bus.  One main loop runs    *)
(* the bus requests, the clicks and the timers in any order.               *)
(***************************************************************************)
EXTENDS Naturals, Sequences, FiniteSets

CONSTANTS
  Keys,              \* action keys
  Default,           \* the key of a click on the card
  ClearThreshold,    \* more active banners than this show "Clear all"
  MaxNotifications,  \* bound: ids handed out
  MaxSubmits         \* bound: calls of Notify

ASSUME KeysAssumption   == Default \in Keys
ASSUME BoundsAssumption == ClearThreshold \in Nat /\ MaxNotifications \in Nat /\ MaxSubmits \in Nat

VARIABLES
  \* NotificationManager
  next_id,
  store,       \* id -> what a notification is
  timers,      \* the expiry sources of the main loop
  submits,     \* submissions, which number the sources
  \* BannerStack and LayerWindow
  by_id,       \* the active banners: id -> the keys of its card
  leaving,     \* banners whose leave is animated
  cascades,    \* what each running "Clear all" has still to close
  visible,     \* the window
  \* history
  closed,      \* ids closed
  signals      \* signals emitted by the last step

managerVars == <<next_id, store, timers, submits>>
stackVars   == <<by_id, leaving, visible>>
vars        == <<managerVars, stackVars, cascades, closed, signals>>

Reasons == {"expired", "dismissed", "closed"}
Notification == [actions: SUBSET Keys, expires: BOOLEAN, expire_source: Nat]
Timer        == [source: Nat, id: Nat]

Server == INSTANCE NotificationServer WITH
            Ids <- 1 .. MaxNotifications,
            offered <- [id \in DOMAIN store |-> store[id].actions]

Without(f, id) == Server!Without(f, id)
With(f, id, v) == Server!With(f, id, v)

Init ==
  /\ next_id = 1
  /\ store = <<>>
  /\ timers = {}
  /\ submits = 0
  /\ by_id = <<>>
  /\ leaving = {}
  /\ cascades = {}
  /\ visible = FALSE
  /\ closed = {}
  /\ signals = <<>>

-----------------------------------------------------------------------------
(***************************************************************************)
(* Submitting.                                                             *)
(***************************************************************************)
\* The timer of a notification is removed.  Mutant: it keeps running.
CancelExpireForgotten(id) == timers
CancelExpire(id) == {t \in timers : t.source # store[id].expire_source}

\* The source of a notification that expires is numbered by the submission.
Armed(id, expires) == IF expires THEN {[source |-> submits + 1, id |-> id]} ELSE {}

NextId == next_id + 1

Content(keys, expires) ==
  [actions |-> keys, expires |-> expires, expire_source |-> IF expires THEN submits + 1 ELSE 0]

Counted ==
  /\ submits < MaxSubmits
  /\ submits' = submits + 1
  /\ signals' = <<>>
  /\ UNCHANGED <<cascades, closed>>

\* Without a notification to replace: stored, shown, then armed.
SubmitNew(keys, expires) ==
  /\ next_id <= MaxNotifications
  /\ Counted
  /\ next_id' = NextId
  /\ store' = With(store, next_id, Content(keys, expires))
  /\ timers' = timers \union Armed(next_id, expires)
  /\ by_id' = With(by_id, next_id, keys)
  /\ visible' = TRUE
  /\ UNCHANGED leaving

\* Mutant: the card keeps the buttons it was built with.
UpdateBannerKeepsActions(id, keys) == UNCHANGED by_id

\* The banner shows the new content; its buttons are those it offers now.
UpdateBanner(id, keys) ==
  by_id' = IF id \in DOMAIN by_id THEN [by_id EXCEPT ![id] = keys] ELSE by_id

\* Replacing restarts the expiry.
SubmitReplace(id, keys, expires) ==
  /\ id \in DOMAIN store
  /\ Counted
  /\ store' = [store EXCEPT ![id] = Content(keys, expires)]
  /\ timers' = CancelExpire(id) \union Armed(id, expires)
  /\ UpdateBanner(id, keys)
  /\ UNCHANGED <<next_id, leaving, visible>>

\* A replaces_id that is not stored any more is a new notification.
Notify ==
  \E keys \in SUBSET Keys, expires \in BOOLEAN :
    \/ SubmitNew(keys, expires)
    \/ \E id \in DOMAIN store : SubmitReplace(id, keys, expires)

-----------------------------------------------------------------------------
(***************************************************************************)
(* Closing: out of the store, reported, and the banner leaves.             *)
(***************************************************************************)
\* The banner is no longer active and no longer takes clicks.
DismissBanner(id) ==
  /\ by_id' = Without(by_id, id)
  /\ leaving' = IF id \in DOMAIN by_id THEN leaving \union {id} ELSE leaving
  /\ UNCHANGED visible

\* The signals the bus reports about it end with the close.
CloseReporting(id, reports) ==
  /\ timers' = CancelExpire(id)
  /\ store' = Without(store, id)
  /\ closed' = closed \union {id}
  /\ signals' = reports
  /\ DismissBanner(id)
  /\ UNCHANGED <<next_id, submits>>

Close(id, reason) ==
  IF id \in DOMAIN store THEN CloseReporting(id, <<Server!ClosedSignal(id, reason)>>)
  ELSE /\ signals' = <<>>
       /\ UNCHANGED <<managerVars, stackVars, closed>>

\* The source removes itself whatever it finds.
Expire(t) ==
  /\ t \in timers
  /\ IF t.id \in DOMAIN store
     THEN /\ CloseReporting(t.id, <<Server!ClosedSignal(t.id, "expired")>>)
          /\ UNCHANGED cascades
     ELSE /\ timers' = timers \ {t}
          /\ signals' = <<>>
          /\ UNCHANGED <<next_id, store, submits, stackVars, cascades, closed>>

\* CloseNotification, of any id a client was ever given.
CloseNotification ==
  \E id \in 1 .. next_id - 1 : Close(id, "closed") /\ UNCHANGED cascades

\* Mutant: a leaving card still takes clicks.
ClickableWhileLeaving == DOMAIN by_id \union leaving
Clickable == DOMAIN by_id

\* The whole card is the default action if it has one, else it dismisses.
ClickCard ==
  \E id \in Clickable :
    /\ id \in DOMAIN by_id => Default \notin by_id[id]
    /\ Close(id, "dismissed")
    /\ UNCHANGED cascades

InvokeAction ==
  \E id \in Clickable : \E key \in IF id \in DOMAIN by_id THEN by_id[id] ELSE Keys :
    /\ IF id \in DOMAIN store
       THEN CloseReporting(
              id, <<Server!ActionSignal(id, key), Server!ClosedSignal(id, "dismissed")>>)
       ELSE /\ signals' = <<Server!ActionSignal(id, key)>>
            /\ UNCHANGED <<managerVars, stackVars, closed>>
    /\ UNCHANGED cascades

-----------------------------------------------------------------------------
(***************************************************************************)
(* Clear all: the ids on the stack are taken down, the first is closed at  *)
(* once and the others one per timer tick.  Banners are appended, so the   *)
(* order of the stack is the order of the ids.                             *)
(***************************************************************************)
First(ids) == CHOOSE id \in ids : \A other \in ids : id <= other

\* Two cascades that have the same ids to close do the same from then on.
Remaining(ids) == IF ids = {} THEN {} ELSE {ids}

ClearAll ==
  /\ Cardinality(DOMAIN by_id) > ClearThreshold
  /\ LET ids == DOMAIN by_id
     IN  /\ Close(First(ids), "dismissed")
         /\ cascades' = cascades \union Remaining(ids \ {First(ids)})

\* Mutant: the last id is never reached.
NextOfCascadeStopsShort(ids) == IF Cardinality(ids) > 2 THEN Remaining(ids \ {First(ids)}) ELSE {}
NextOfCascade(ids) == Remaining(ids \ {First(ids)})

CascadeTick(ids) ==
  /\ ids \in cascades
  /\ Close(First(ids), "dismissed")
  /\ cascades' = (cascades \ {ids}) \union NextOfCascade(ids)

-----------------------------------------------------------------------------
Hides == DOMAIN by_id = {}

\* The leave of a banner is over; the last one hides the window.
ChildRevealed(id) ==
  /\ id \in leaving
  /\ leaving' = leaving \ {id}
  /\ visible' = (visible /\ ~Hides)
  /\ signals' = <<>>
  /\ UNCHANGED <<managerVars, by_id, cascades, closed>>

Next ==
  \/ Notify \/ CloseNotification
  \/ ClickCard \/ InvokeAction \/ ClearAll
  \/ \E t \in timers : Expire(t)
  \/ \E ids \in cascades : CascadeTick(ids)
  \/ \E id \in leaving : ChildRevealed(id)

Spec == Init /\ [][Next]_vars

\* The main loop runs each source that is due: the timers of notifications
\* and cascades, and the animation frames.
FairSpec ==
  /\ Spec
  /\ WF_vars(\E t \in timers : Expire(t))
  /\ \A id \in 1 .. MaxNotifications : WF_vars(ChildRevealed(id))
  /\ WF_vars(\E ids \in cascades : CascadeTick(ids))

-----------------------------------------------------------------------------
(***************************************************************************)
(* Properties.                                                             *)
(***************************************************************************)
\* Every variable has its type.
TypeOK ==
  /\ next_id \in Nat \ {0}
  /\ submits \in Nat
  /\ DOMAIN store \subseteq 1 .. next_id - 1
  /\ \A id \in DOMAIN store : store[id] \in Notification
  /\ timers \subseteq Timer
  /\ DOMAIN by_id \subseteq 1 .. next_id - 1
  /\ \A id \in DOMAIN by_id : by_id[id] \in SUBSET Keys
  /\ leaving \subseteq 1 .. next_id - 1
  /\ cascades \subseteq (SUBSET (1 .. next_id - 1)) \ {{}}
  /\ visible \in BOOLEAN
  /\ closed \subseteq 1 .. next_id - 1

\* A timer that runs is the one its notification owns: none outlives a close
\* or a replacement, and none is left to expire what must stay.
TimersOwned ==
  /\ TypeOK
  /\ \A t \in timers :
       /\ t.id \in DOMAIN store
       /\ store[t.id].expires
       /\ store[t.id].expire_source = t.source

\* The stack shows what is stored, with the actions it offers now.
BannersFollowStore ==
  /\ DOMAIN by_id = DOMAIN store
  /\ \A id \in DOMAIN store : by_id[id] = store[id].actions
  /\ leaving \intersect DOMAIN store = {}

\* The window is up while a banner is active, though older ones finish
\* leaving meanwhile, and is not left up with nothing on it.
WindowFollowsBanners ==
  /\ DOMAIN by_id # {} => visible
  /\ visible => DOMAIN by_id \union leaving # {}

\* The stack and its window show what is stored.
StackFollowsStore == BannersFollowStore /\ WindowFollowsBanners

\* The daemon keeps the promises made to the clients of the bus.
NotificationContract == Server!Spec

\* What may expire is closed, unless replaced by something that stays.
Expires ==
  \A id \in 1 .. MaxNotifications :
    (id \in DOMAIN store /\ store[id].expires)
      ~> (id \notin DOMAIN store \/ ~store[id].expires)

\* Clear all closes everything it has taken down, whatever is closed,
\* replaced or cleared again while it runs.
ClearAllClears ==
  \A id \in 1 .. MaxNotifications :
    (\E ids \in cascades : id \in ids) ~> (id \in closed)

\* With no active banner left the window goes, or a new banner comes.
WindowHides == (DOMAIN by_id = {}) ~> (~visible \/ DOMAIN by_id # {})

\* Nothing that should go away stays.
NothingStays == Expires /\ ClearAllClears /\ WindowHides
=============================================================================

