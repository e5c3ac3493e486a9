---------------------------- MODULE ViewEffects ----------------------------
(***************************************************************************)
(* The plugins that shift views, on one output, with the panel that calls  *)
(* one of them (lumen-panel/src/panel_window.vala in mode PUSH).  Views    *)
(* come and go, and windows leave the sight, under both of them; a frame   *)
(* runs every hook; the lock cancels what is active.                       *)
(***************************************************************************)
EXTENDS Animation

CONSTANTS Toplevels, Surfaces, Overlays, Panel, None

ASSUME NoneAssumption == None \notin Progress
ASSUME PanelAssumption == Panel \notin Toplevels \union Surfaces \union Overlays

VARIABLES
  mapped, away, redraw, inhibited,
  peekState, peekAnim, peeked, peekHook, peekActive,    \* desktop-peek
  pushState, pushAnim, pushed, pushHook, pushActive,    \* panel-push
  \* PanelWindow
  reveal_target,
  slide_tick,         \* the slide towards reveal_target runs
  collapse_timeout,
  \* history: the push under way is one that this panel window asked for
  ours

peekVars  == <<peekState, peekAnim, peeked, peekHook, peekActive>>
pushVars  == <<pushState, pushAnim, pushed, pushHook, pushActive>>
panelVars == <<reveal_target, slide_tick, collapse_timeout>>
sceneVars == <<mapped, away, redraw, inhibited>>
vars == <<sceneVars, peekVars, pushVars, panelVars, ours>>

Desk == INSTANCE DesktopPeek WITH
  state <- peekState, anim <- peekAnim, offset <- peeked,
  hooked <- peekHook, active <- peekActive
Push == INSTANCE PanelPush WITH
  state <- pushState, anim <- pushAnim, offset <- pushed,
  hooked <- pushHook, active <- pushActive

Views == Desk!Views

Init ==
  /\ mapped = {Panel} /\ away = {}
  /\ redraw = FALSE /\ inhibited = FALSE
  /\ peekState = "IDLE" /\ pushState = "IDLE"
  /\ peekAnim = Still /\ pushAnim = Still
  /\ peeked = [v \in Views |-> None] /\ pushed = peeked
  /\ peekHook = FALSE /\ pushHook = FALSE
  /\ peekActive = FALSE /\ pushActive = FALSE
  /\ reveal_target = FALSE /\ slide_tick = FALSE /\ collapse_timeout = FALSE
  /\ ours = FALSE

-----------------------------------------------------------------------------
(***************************************************************************)
(* The compositor.                                                         *)
(***************************************************************************)
Map(v) ==
  /\ v \notin mapped
  /\ mapped' = mapped \union {v}
  /\ redraw' = TRUE
  /\ Push!on_view_mapped(v)
  /\ UNCHANGED <<away, inhibited, peekVars, panelVars, ours>>

Unmap(v) ==
  /\ v \in mapped \ {Panel}
  /\ mapped' = mapped \ {v} /\ away' = away \ {v}
  /\ redraw' = TRUE
  /\ Desk!drop_view(v) /\ Push!drop_view(v)
  /\ UNCHANGED <<inhibited, panelVars, ours>>

\* A window is minimized, or goes to another workspace or output, or comes back.
\* No plugin listens to it.
Leave(v) ==
  /\ v \in Toplevels \intersect mapped
  /\ away' = IF v \in away THEN away \ {v} ELSE away \union {v}
  /\ redraw' = TRUE
  /\ UNCHANGED <<mapped, inhibited, peekVars, pushVars, panelVars, ours>>

\* A scheduled frame runs every hook that is set, and is the last unless one
\* of them damages the output.
Frame ==
  /\ redraw
  /\ IF peekHook THEN Desk!on_frame ELSE UNCHANGED peekVars
  /\ IF pushHook THEN Push!on_frame ELSE UNCHANGED pushVars
  /\ redraw' = \/ peekHook /\ Desk!Damages
               \/ pushHook
  /\ UNCHANGED <<mapped, away, inhibited, panelVars, ours>>

\* Anything else on the output asks for a frame.
Damage ==
  /\ ~redraw /\ redraw' = TRUE
  /\ UNCHANGED <<mapped, away, inhibited, peekVars, pushVars,
                 panelVars, ours>>

\* The session is locked: what is active is cancelled.
Inhibit ==
  /\ ~inhibited /\ inhibited' = TRUE
  /\ redraw' = TRUE
  /\ IF peekActive THEN Desk!hard_reset ELSE UNCHANGED peekVars
  /\ IF pushActive THEN Push!hard_reset ELSE UNCHANGED pushVars
  /\ UNCHANGED <<mapped, away, panelVars, ours>>

Allow ==
  /\ inhibited /\ inhibited' = FALSE
  /\ UNCHANGED <<mapped, away, redraw, peekVars, pushVars,
                 panelVars, ours>>

\* The verbs, by key or over the socket.
CallPeek ==
  /\ Desk!ipc_toggle \/ Desk!ipc_start \/ Desk!ipc_stop
  /\ UNCHANGED <<mapped, away, inhibited, pushVars, panelVars, ours>>

CallPush ==
  /\ Push!ipc_toggle \/ Push!ipc_start \/ Push!ipc_stop
  /\ ours' = FALSE
  /\ UNCHANGED <<mapped, away, inhibited, peekVars, panelVars>>

\* A plugin is unloaded and loaded again.
Reload ==
  /\ \/ Desk!fini /\ UNCHANGED <<pushVars, ours>>
     \/ Push!fini /\ ours' = FALSE /\ UNCHANGED peekVars
  /\ redraw' = TRUE
  /\ UNCHANGED <<mapped, away, inhibited, panelVars>>

-----------------------------------------------------------------------------
(***************************************************************************)
(* The panel.  send_method waits for the answer, so a call and what it does*)
(* are one step.                                                           *)
(***************************************************************************)
set_reveal(reveal) ==
  IF reveal = reveal_target /\ ~slide_tick
  THEN UNCHANGED <<reveal_target, slide_tick, pushVars, redraw, ours>>
  ELSE /\ reveal_target' = reveal /\ slide_tick' = TRUE
       /\ IF reveal
          THEN \/ Push!ipc_start /\ ours' = TRUE
               \/ Push!StartDeclined /\ UNCHANGED <<pushVars, redraw, ours>>
          ELSE \/ Push!ipc_stop /\ UNCHANGED ours
               \/ Push!StopDeclined /\ UNCHANGED <<pushVars, redraw, ours>>

\* On a hotplug or a change of its settings the panel's window is replaced; the
\* plugin excludes the one as the other.
RebuildPanel ==
  /\ reveal_target' = FALSE /\ slide_tick' = FALSE /\ collapse_timeout' = FALSE
  /\ ours' = FALSE
  /\ redraw' = TRUE
  /\ UNCHANGED <<mapped, away, inhibited, peekVars, pushVars>>

PointerEnters ==
  /\ collapse_timeout' = FALSE
  /\ set_reveal(TRUE)
  /\ UNCHANGED <<mapped, away, inhibited, peekVars>>

PointerLeaves ==
  /\ collapse_timeout' = TRUE
  /\ UNCHANGED <<sceneVars, peekVars, pushVars, reveal_target,
                 slide_tick, ours>>

CollapseTimeout ==
  /\ collapse_timeout /\ collapse_timeout' = FALSE
  /\ set_reveal(FALSE)
  /\ UNCHANGED <<mapped, away, inhibited, peekVars>>

SlideEnds ==
  /\ slide_tick /\ slide_tick' = FALSE
  /\ UNCHANGED <<sceneVars, peekVars, pushVars, reveal_target,
                 collapse_timeout, ours>>

Next ==
  \/ \E v \in Views : Map(v) \/ Unmap(v) \/ Leave(v)
  \/ Frame \/ Damage \/ Inhibit \/ Allow
  \/ CallPeek \/ CallPush \/ Reload
  \/ RebuildPanel \/ PointerEnters \/ PointerLeaves \/ CollapseTimeout \/ SlideEnds

\* A scheduled frame is drawn.
Fairness == WF_vars(Frame)

Spec == Init /\ [][Next]_vars /\ Fairness

-----------------------------------------------------------------------------
(***************************************************************************)
(* Properties.                                                             *)
(***************************************************************************)
Shifts == [Views -> Progress \union {None}]

TypeOK ==
  /\ mapped \subseteq Views /\ away \subseteq Toplevels \intersect mapped
  /\ peekState \in {"IDLE", "OUT", "PEEKED", "IN"}
  /\ pushState \in {"IDLE", "OUT", "PUSHED", "IN"}
  /\ {peeked, pushed} \subseteq Shifts
  /\ {peekAnim, pushAnim} \subseteq Anims
  /\ {redraw, inhibited, peekHook, peekActive, pushHook, pushActive,
      reveal_target, slide_tick, collapse_timeout, ours} \subseteq BOOLEAN

\* No view is left shifted: one is only while the plugin that shifts it is at
\* work, and only while it is mapped.  A peek at work is active on an unlocked
\* output and hooked exactly while it moves; desktop-peek always has a window to
\* move; what has settled has moved all of the way; the panel is never pushed.
ViewsInPlace ==
  /\ TypeOK
  /\ Desk!Tracked \union Push!Tracked \subseteq mapped
  /\ pushed[Panel] = None
  /\ peekActive = (peekState # "IDLE") /\ (peekActive = (Desk!Tracked # {}))
  /\ pushActive = (pushState # "IDLE") /\ (Push!Tracked # {} => pushActive)
  /\ peekHook = (peekState \in {"OUT", "IN"}) /\ pushHook = (pushState \in {"OUT", "IN"})
  /\ inhibited => ~peekActive /\ ~pushActive
  /\ peekState = "PEEKED" => \A v \in Desk!Tracked : peeked[v] = Full
  /\ pushState = "PUSHED" => \A v \in Push!Tracked : pushed[v] = Full

\* A push that this panel window began, and that no key or call has touched since,
\* lasts no longer than its reveal, however its slides, timers, the pointer and the
\* animation overlap.  It says nothing of a push begun by hand, nor of one whose
\* panel was rebuilt under it: that one stays on.
PushEndsWithReveal == ours /\ pushState \in {"OUT", "PUSHED"} => reveal_target

\* Both plugins are peeks on the one output.  What panel-push begins comes to its
\* end, as it asks for every frame itself; desktop-peek asks through the windows
\* it moves, so its peek is sure to settle or to end only while one is in sight.
Phase(state) == CASE state = "IDLE" -> "IDLE"
                  [] state = "OUT"  -> "OPENING"
                  [] state = "IN"   -> "CLOSING"
                  [] OTHER          -> "OPEN"

Locked == IF inhibited THEN {0} ELSE {}
DeskPeek == INSTANCE Peek WITH Outputs <- {0}, inhibited <- Locked,
              phase <- [o \in {0} |-> Phase(peekState)]
PushPeek == INSTANCE Peek WITH Outputs <- {0}, inhibited <- Locked,
              phase <- [o \in {0} |-> Phase(pushState)]

PeekContracts ==
  /\ PushPeek!Spec
  /\ DeskPeek!Safe
  /\ (peekHook /\ Desk!Damages) ~> (~peekHook \/ ~Desk!Damages)
=============================================================================
