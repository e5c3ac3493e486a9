--------------------------------- MODULE Osd ---------------------------------
(***************************************************************************)
(* lumen-osd: the pill that is shown for a moment on every monitor, and    *)
(* the Super+P picker of display modes, which takes the keyboard and one   *)
(* monitor.  Every lumen-osdctl is a process of its own: the one that asks *)
(* for the live mode and the one that applies the chosen mode answer when  *)
(* they are done, in any order, whatever the user does meanwhile.          *)
(***************************************************************************)
EXTENDS Naturals, FiniteSets, Functions

CONSTANTS
  Outputs,
  Internal,     \* eDP, LVDS and DSI connectors
  Modeless,     \* outputs that advertise no mode, as the protocol allows
  Notices,      \* what a pill may say besides a display mode
  None,
  MaxInputs,    \* bound: shows, taps, moves, hotplugs
  MaxPicks      \* bound: picks

ASSUME OutputsAssumption == Internal \subseteq Outputs /\ Modeless \subseteq Outputs
ASSUME BoundsAssumption  == MaxInputs \in Nat /\ MaxPicks \in Nat

VARIABLES
  \* the compositor and the user
  connected, on,    \* the outputs, and those that are lit
  super_held,
  inputs,
  \* OsdWindowGroup
  monitors,         \* the lit outputs as far as Gdk has been told
  primary_monitor,
  mirrors,          \* the monitors with a mirror window
  shown,            \* what each visible window shows: a pill's text, or the selector
  \* OsdService
  hide_armed,
  \* Picker
  active, saw_super, user_moved, index, last_index, dismiss_armed,
  grabbed,          \* keyboard mode EXCLUSIVE
  focused,          \* the keyboard focus has arrived
  held, chosen,     \* history of the pick: whether its window has seen Super
                    \* held, and the tile the user last went to
  \* lumen-osdctl
  picks,
  seeds,            \* --display-current: its pick, and what it read
  jobs              \* --display-mode: its pick, the mode, and whether it is applied

compositorVars == <<connected, on, super_held>>
monitorVars    == <<monitors, primary_monitor, mirrors>>
screenVars     == <<shown, hide_armed>>
pickerVars     == <<active, saw_super, user_moved, index, dismiss_armed, grabbed>>
pickVars       == <<pickerVars, focused, held, chosen>>
processVars    == <<picks, seeds, jobs>>
vars == <<compositorVars, inputs, monitorVars, screenVars, pickVars, last_index, processVars>>

Modes     == {"internal", "extend", "external"}
Tiles     == 0 .. 3
AbortTile == 3
TileOf    == [internal |-> 0, extend |-> 1, external |-> 2]
ModeOf(i) == CHOOSE m \in Modes : TileOf[m] = i

Primary  == "primary"
Selector == "selector"
Nowhere  == [w \in {} |-> None]
Visible  == DOMAIN shown

Init ==
  /\ connected \in SUBSET Outputs
  /\ on \in SUBSET connected
  /\ super_held = FALSE
  /\ inputs = 0
  /\ monitors = on
  /\ primary_monitor \in (IF on = {} THEN {None} ELSE on)
  /\ mirrors = on \ {primary_monitor}
  /\ shown = Nowhere
  /\ hide_armed = FALSE
  /\ active = FALSE /\ saw_super = FALSE /\ user_moved = FALSE
  /\ index = 0 /\ last_index = 0
  /\ dismiss_armed = FALSE /\ grabbed = FALSE /\ focused = FALSE
  /\ held = FALSE /\ chosen = None
  /\ picks = 0 /\ seeds = {} /\ jobs = {}

Input == inputs < MaxInputs /\ inputs' = inputs + 1

-----------------------------------------------------------------------------
(***************************************************************************)
(* The pill.                                                               *)
(***************************************************************************)
\* What a hidden window says is of no account, as every show fills them all.
Present(content) == shown' = [w \in mirrors \union {Primary} |-> content]

Show(content) ==
  IF active THEN UNCHANGED screenVars
  ELSE Present(content) /\ hide_armed' = TRUE

\* A key of lumen-osdctl, or the StateWatcher's tick.
Notify ==
  /\ Input
  /\ \E notice \in Notices : Show(notice)
  /\ UNCHANGED <<compositorVars, monitorVars, pickVars, last_index, processVars>>

\* A window that is unmapped loses the focus, the picker's as well.
DoHide     == shown' = Nowhere /\ focused' = FALSE
CancelHide == hide_armed' = FALSE

HideTimeout ==
  /\ hide_armed
  /\ hide_armed' = FALSE
  /\ DoHide
  /\ UNCHANGED <<compositorVars, inputs, monitorVars, pickerVars, held, chosen, last_index,
                 processVars>>

Hide ==
  /\ Input
  /\ CancelHide
  /\ DoHide
  /\ UNCHANGED <<compositorVars, monitorVars, pickerVars, held, chosen, last_index, processVars>>

-----------------------------------------------------------------------------
(***************************************************************************)
(* Hotplug: the monitors are told one at a time.                           *)
(***************************************************************************)
\* Mutant: the mirror on the monitor the primary moves to is kept.
MirrorsWithDuplicate(live) == (mirrors \intersect live) \union (live \ {primary_monitor'})
MirrorsFor(live) == live \ {primary_monitor'}

\* A new mirror is dark, a destroyed one is gone.  The primary loses the focus
\* with its monitor, and is mapped anew on another one if there is one.
Reconcile(live) ==
  /\ monitors' = live
  /\ IF live = {} \/ primary_monitor \in live
       THEN UNCHANGED primary_monitor ELSE primary_monitor' \in live
  /\ focused' = (focused /\ primary_monitor \in live)
  /\ mirrors' = IF live = {} THEN {} ELSE MirrorsFor(live)
  /\ shown' = Restrict(shown, Visible \intersect ((mirrors \intersect mirrors') \union {Primary}))

ItemsChanged ==
  /\ \E o \in Outputs :
       \/ o \in on \ monitors /\ Reconcile(monitors \union {o})
       \/ o \in monitors \ on /\ Reconcile(monitors \ {o})
  /\ UNCHANGED <<compositorVars, inputs, hide_armed, pickerVars, held, chosen, last_index,
                 processVars>>

Hotplug ==
  /\ Input
  /\ \E o \in Outputs :
       IF o \in connected
         THEN connected' = connected \ {o} /\ on' = on \ {o}
         ELSE connected' = connected \union {o} /\ on' \in {on, on \union {o}}
  /\ UNCHANGED <<super_held, monitorVars, screenVars, pickVars, last_index, processVars>>

-----------------------------------------------------------------------------
(***************************************************************************)
(* The picker.                                                             *)
(***************************************************************************)
\* Mutant: a move leaves the timer as it was cancelled.
MoveKeepsNoTimer(i) == user_moved' = TRUE /\ index' = i /\ chosen' = i /\ dismiss_armed' = FALSE
\* The selector is drawn, and the dismiss timer starts over.
MoveTo(i) == user_moved' = TRUE /\ index' = i /\ chosen' = i /\ dismiss_armed' = TRUE

\* Mutant: the mirrors stay as they are.
OpenKeepsMirrors ==
  /\ active' = TRUE /\ saw_super' = FALSE /\ user_moved' = FALSE /\ index' = last_index
  /\ shown' = [w \in Visible \union {Primary} |-> IF w = Primary THEN Selector ELSE shown[w]]
  /\ grabbed' = TRUE /\ dismiss_armed' = TRUE /\ held' = FALSE /\ chosen' = None
\* Mutant: that Super was held is remembered from the pick before.
OpenKeepsSuper ==
  /\ active' = TRUE /\ UNCHANGED saw_super /\ user_moved' = FALSE /\ index' = last_index
  /\ shown' = [w \in {Primary} |-> Selector]
  /\ grabbed' = TRUE /\ dismiss_armed' = TRUE /\ held' = FALSE /\ chosen' = None
Open ==
  /\ active' = TRUE /\ saw_super' = FALSE /\ user_moved' = FALSE /\ index' = last_index
  /\ shown' = [w \in {Primary} |-> Selector]
  /\ grabbed' = TRUE /\ dismiss_armed' = TRUE /\ held' = FALSE /\ chosen' = None

Advance   == (index + 1) % 4

\* Super+P is taken by the compositor: the first opens, every other advances.
\* A window that has the focus is told of the modifier.
BeginPicker ==
  /\ Input
  /\ super_held' = TRUE
  /\ CancelHide
  /\ IF active
       THEN /\ MoveTo(Advance)
            /\ saw_super' = (saw_super \/ focused) /\ held' = (held \/ focused)
            /\ UNCHANGED <<shown, active, grabbed, picks, seeds>>
       ELSE /\ picks < MaxPicks
            /\ Open
            /\ picks' = picks + 1
            /\ seeds' = seeds \union {[pick |-> picks', read |-> None]}
  /\ UNCHANGED <<connected, on, monitorVars, focused, last_index, jobs>>

Close == active' = FALSE /\ dismiss_armed' = FALSE /\ grabbed' = FALSE /\ focused' = FALSE

Cancel ==
  /\ Close
  /\ shown' = Restrict(shown, Visible \ {Primary})
  /\ UNCHANGED <<last_index, jobs>>

Commit(i) ==
  IF i = AbortTile THEN Cancel
  ELSE /\ Close
       /\ shown' = Restrict(shown, Visible \ {Primary})
       /\ last_index' = i
       /\ jobs' = jobs \union {[pick |-> picks, mode |-> ModeOf(i), applied |-> FALSE]}

Ended == UNCHANGED <<connected, on, monitorVars, hide_armed, picks>>

OnScreen == Primary \in Visible /\ monitors # {}

\* Escape.
OnEscape ==
  /\ active /\ focused
  /\ Cancel /\ Ended
  /\ UNCHANGED <<super_held, inputs, saw_super, user_moved, index, held, chosen, seeds>>

\* Left, Right, or the pointer enters a tile.
OnMove ==
  /\ Input
  /\ active
  /\ \/ focused /\ \E i \in {(index + 3) % 4, (index + 1) % 4} : MoveTo(i)
     \/ OnScreen /\ \E i \in Tiles : MoveTo(i)
  /\ UNCHANGED <<compositorVars, monitorVars, screenVars, active, saw_super, grabbed, focused, held,
                 last_index, processVars>>

\* Return or space.
OnEnter ==
  /\ active /\ focused
  /\ Commit(index) /\ Ended
  /\ UNCHANGED <<super_held, inputs, saw_super, user_moved, index, held, chosen, seeds>>

\* A click on a tile.
OnChosen ==
  /\ active /\ OnScreen
  /\ \E i \in Tiles :
       /\ index' = i
       /\ user_moved' = TRUE /\ chosen' = i
       /\ Commit(i)
  /\ Ended
  /\ UNCHANGED <<super_held, inputs, saw_super, held, seeds>>

Released == saw_super

\* The focus arrives with the modifiers of the moment.
FocusIn ==
  /\ grabbed /\ ~focused /\ OnScreen
  /\ IF super_held \/ ~Released
       THEN /\ focused' = TRUE
            /\ saw_super' = (saw_super \/ super_held) /\ held' = (held \/ super_held)
            /\ UNCHANGED <<shown, active, dismiss_armed, grabbed, last_index, jobs>>
       ELSE Commit(index) /\ UNCHANGED <<saw_super, held>>
  /\ Ended
  /\ UNCHANGED <<super_held, inputs, user_moved, index, chosen, seeds>>

\* The key is let go: a release, or a change of modifiers only.
ReleaseSuper ==
  /\ super_held
  /\ super_held' = FALSE
  /\ IF active /\ focused
       THEN Commit(index)
       ELSE UNCHANGED <<shown, active, dismiss_armed, grabbed, focused, last_index, jobs>>
  /\ Ended
  /\ UNCHANGED <<inputs, saw_super, user_moved, index, held, chosen, seeds>>

DismissTimeout ==
  /\ dismiss_armed
  /\ Cancel /\ Ended
  /\ UNCHANGED <<super_held, inputs, saw_super, user_moved, index, held, chosen, seeds>>

-----------------------------------------------------------------------------
(***************************************************************************)
(* lumen-osdctl.                                                           *)
(***************************************************************************)
CurrentState ==
  LET lit == on \intersect Internal
      ext == on \ Internal
  IN IF lit # {} /\ ext = {} THEN "internal"
     ELSE IF ext # {} /\ lit = {} THEN "external" ELSE "extend"

Resolve(mode) ==
  CASE mode = "internal" /\ connected \intersect Internal = {} -> "external"
    [] mode = "external" /\ connected \subseteq Internal       -> "internal"
    [] OTHER                                                   -> mode

\* A lit output has its current mode, though it advertises none.
Lit(mode) ==
  {o \in connected \ (Modeless \ on) :
     (mode = "internal" => o \in Internal) /\ (mode = "external" => o \notin Internal)}

MayApply(mode) == Lit(mode) # {}

\* Without outputs, or with a change in between, the process fails.
ApplyMode ==
  \E j \in jobs :
    /\ ~j.applied
    /\ LET mode == Resolve(j.mode) IN
         \/ /\ connected # {} /\ MayApply(mode)
            /\ on' = Lit(mode)
            /\ jobs' = (jobs \ {j}) \union {[j EXCEPT !.mode = mode, !.applied = TRUE]}
         \/ /\ jobs' = jobs \ {j}
            /\ UNCHANGED on
    /\ UNCHANGED <<connected, super_held, inputs, monitorVars, screenVars, pickVars, last_index,
                   picks, seeds>>

ShowApplied ==
  \E j \in jobs :
    /\ j.applied
    /\ Show(j.mode)
    /\ jobs' = jobs \ {j}
    /\ UNCHANGED <<compositorVars, inputs, monitorVars, pickVars, last_index, picks, seeds>>

ReadMode ==
  \E s \in seeds :
    /\ s.read = None
    /\ seeds' = (seeds \ {s}) \union
                  (IF connected = {} THEN {} ELSE {[s EXCEPT !.read = CurrentState]})
    /\ UNCHANGED <<compositorVars, inputs, monitorVars, screenVars, pickVars, last_index, picks, jobs>>

Seed(s) ==
  /\ s \in seeds /\ s.read # None
  /\ seeds' = seeds \ {s}
  /\ index' = IF ~active \/ user_moved THEN index ELSE TileOf[s.read]
  /\ UNCHANGED <<compositorVars, inputs, monitorVars, screenVars, active, saw_super, user_moved,
                 dismiss_armed, grabbed, focused, held, chosen, last_index, picks, jobs>>

Next ==
  \/ Notify \/ HideTimeout \/ Hide \/ ItemsChanged \/ Hotplug
  \/ BeginPicker \/ OnEscape \/ OnMove \/ OnEnter \/ OnChosen
  \/ FocusIn \/ ReleaseSuper \/ DismissTimeout
  \/ ApplyMode \/ ShowApplied \/ ReadMode \/ (\E s \in seeds : Seed(s))

Spec == Init /\ [][Next]_vars

\* The main loop runs the timers; shows and moves, which start them over, end.
FairSpec == Spec /\ WF_vars(HideTimeout) /\ WF_vars(DismissTimeout)

-----------------------------------------------------------------------------
(***************************************************************************)
(* Properties.                                                             *)
(***************************************************************************)
\* Every variable has its type; only live windows are visible.
TypeOK ==
  /\ on \subseteq connected /\ connected \subseteq Outputs
  /\ monitors \subseteq Outputs /\ primary_monitor \in Outputs \union {None}
  /\ mirrors \subseteq Outputs
  /\ Visible \subseteq mirrors \union {Primary}
  /\ shown \in [Visible -> Notices \union Modes \union {Selector}]
  /\ super_held \in BOOLEAN /\ hide_armed \in BOOLEAN /\ active \in BOOLEAN
  /\ saw_super \in BOOLEAN /\ user_moved \in BOOLEAN /\ dismiss_armed \in BOOLEAN
  /\ grabbed \in BOOLEAN /\ focused \in BOOLEAN
  /\ held \in BOOLEAN /\ chosen \in Tiles \union {None}
  /\ index \in Tiles /\ last_index \in Tiles \ {AbortTile}
  /\ inputs \in 0 .. MaxInputs /\ picks \in Nat
  /\ seeds \subseteq [pick : Nat, read : Modes \union {None}]
  /\ jobs \subseteq [pick : Nat, mode : Modes, applied : BOOLEAN]

\* Through every order of hotplugs one window is on each monitor: the primary
\* on one, a mirror on every other, never both on one (window_group.vala).
WindowsFollowMonitors ==
  /\ mirrors = monitors \ {primary_monitor}
  /\ monitors # {} => primary_monitor \in monitors

\* A pick has the keyboard, a timer that ends it, and no pill beside it or
\* in its place; no hide timer of an earlier pill is left to take it down.
PickerIsModal ==
  active => /\ grabbed /\ dismiss_armed
            /\ Visible \subseteq {Primary} /\ (\A w \in Visible : shown[w] = Selector)
            /\ ~hide_armed

\* What is on screen outside a pick is about to be hidden, and has not got the
\* keyboard.
PillsAreTimed == ~active => ~grabbed /\ (Visible # {} => hide_armed)

\* The pills on screen say the same on every monitor, also those plugged
\* while it is up.
PillsAgree == \A w1, w2 \in Visible : shown[w1] = shown[w2]

\* Monitors that come and go leave one window each, all with one content.
WindowsAgree == TypeOK /\ WindowsFollowMonitors /\ PillsAgree

\* Whatever is on screen has an owner that takes it down.
ScreenIsOwned == PickerIsModal /\ PillsAreTimed

\* What a pick asks lumen-osdctl for, it asks for once, while it is open; the
\* mode is the tile the user last went to, if there is one, whatever the
\* processes have answered late; and the user has asked for it in this pick: by
\* Return, by a click, or by letting go of Super after this window has seen it
\* held.  So a pick whose release was missed applies nothing of itself
\* (seed_current_mode, on_modifiers).
Confirmed == OnEnter \/ OnChosen \/ (held /\ ~super_held')
AskedByTheUser ==
  \A j \in jobs' \ jobs : ~j.applied =>
    /\ active /\ j.pick = picks /\ \A k \in jobs : k.pick # picks
    /\ chosen' # None => j.mode = ModeOf(chosen')
    /\ Confirmed
PicksApplyTheChoice == [][AskedByTheUser]_vars

\* Every pick ends and gives the keyboard back, every pill goes away.
PicksEnd == active ~> ~active
PillsGo  == (Visible # {}) ~> (Visible = {})
ScreenClears == PicksEnd /\ PillsGo
=============================================================================

