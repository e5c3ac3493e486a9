------------------------------- MODULE Reveal -------------------------------
(***************************************************************************)
(* The drawer's reveal as a whole: one of the three plugins is loaded at a *)
(* time; its verbs come from the launcher, the drawer and key bindings for *)
(* the active output; the compositor draws frames, maps and unmaps the     *)
(* surfaces, and inhibits plugins while the session is locked.             *)
(***************************************************************************)
EXTENDS DrawerScene

CONSTANT MaxEnables   \* bound: no reveal starts on an output whose counts are there

ASSUME MaxEnablesAssumption == MaxEnables \in Nat

Slide   == INSTANCE SlidePeek
Zoom    == INSTANCE ZoomPeek
Curtain == INSTANCE CurtainPeek

\* The plugin that the settings load: None, or one of these.
SLIDE   == "slide-peek"
ZOOM    == "zoom-peek"
CURTAIN == "curtain-peek"

ASSUME KindsAssumption == Kinds \subseteq {SLIDE, ZOOM, CURTAIN} /\ None \notin {SLIDE, ZOOM, CURTAIN}

Init ==
  /\ loaded = None
  /\ state = [o \in Outputs |-> "IDLE"]
  /\ anim = [o \in Outputs |-> 0]
  /\ desktop_view = {} /\ widget_view = {} /\ desktop_tr = {}
  /\ screenshot = [o \in Outputs |-> None]
  /\ backdrop = {}
  /\ gridUp = {} /\ gridHidden = {} /\ widgetUp = {}
  /\ offset = [o \in Outputs |-> None]
  /\ enables = [o \in Outputs |-> [l \in Layers |-> 1]]
  /\ widgetEnables = [o \in Outputs |-> 1]
  /\ slid = {}
  /\ hooked = {} /\ redraw = {} /\ active = {} /\ inhibited = {}

-----------------------------------------------------------------------------
Countable(o) == enables[o]["BACKGROUND"] < MaxEnables /\ widgetEnables[o] < MaxEnables

\* A verb reaches the instance of the active output, which the user chooses.
Call(o) ==
  /\ state[o] = "IDLE" => Countable(o)
  /\ \/ /\ loaded = SLIDE
        /\ Slide!ipc_toggle(o) \/ Slide!ipc_start(o) \/ Slide!ipc_stop(o)
     \/ /\ loaded = ZOOM
        /\ Zoom!ipc_toggle(o) \/ Zoom!ipc_start(o) \/ Zoom!ipc_stop(o)
     \/ /\ loaded = CURTAIN
        /\ Curtain!ipc_toggle(o) \/ Curtain!ipc_start(o) \/ Curtain!ipc_stop(o)
  /\ UNCHANGED <<loaded, inhibited>>

\* The output draws a frame; the effect hooks run first.
Frame(o) ==
  /\ o \in redraw
  /\ IF o \in hooked
     THEN \/ loaded = SLIDE   /\ Slide!on_frame(o)
          \/ loaded = ZOOM    /\ Zoom!on_frame(o)
          \/ loaded = CURTAIN /\ Curtain!on_frame(o)
     ELSE /\ redraw' = redraw \ {o}
          /\ UNCHANGED <<state, anim, hooked, active, picture, grid, widgets>>
  /\ UNCHANGED <<loaded, inhibited>>

\* Anything else on the output asks for a frame.
Damage(o) ==
  /\ redraw' = redraw \union {o}
  /\ UNCHANGED <<loaded, inhibited, state, anim, hooked, active, picture, grid, widgets>>

\* A drawer maps its grid, or comes back after it was closed.
MapGrid(o) ==
  /\ \/ loaded = SLIDE   /\ Slide!on_view_mapped(o)
     \/ loaded = ZOOM    /\ Zoom!on_view_mapped(o)
     \/ loaded = CURTAIN /\ Curtain!on_view_mapped(o)
     \/ /\ loaded = None /\ o \notin gridUp
        /\ gridUp' = gridUp \union {o}
        /\ UNCHANGED <<course, picture, gridHidden, desktop_view, widgets>>
  /\ UNCHANGED <<loaded, inhibited>>

\* The plugins look at the widget surface only when a reveal starts or ends.
MapWidgets(o) ==
  /\ o \notin widgetUp
  /\ widgetUp' = widgetUp \union {o}
  /\ UNCHANGED <<loaded, inhibited, course, picture, grid, widgetEnables, widget_view>>

Unmap(o) ==
  /\ \/ loaded = SLIDE   /\ Slide!on_view_unmapped(o)
     \/ loaded = ZOOM    /\ Zoom!on_view_unmapped(o)
     \/ loaded = CURTAIN /\ Curtain!on_view_unmapped(o)
     \/ loaded = None /\ GridUnmaps(o)
        /\ UNCHANGED <<course, screenshot, backdrop, layerVars, widgets>>
     \/ loaded = None /\ WidgetsUnmap(o)
        /\ UNCHANGED <<course, picture, grid, widget_view>>
  /\ UNCHANGED <<loaded, inhibited>>

\* The session is locked: what is active on the output is cancelled first.
Inhibit(o) ==
  /\ o \notin inhibited
  /\ inhibited' = inhibited \union {o}
  /\ IF o \in active
     THEN \/ loaded = SLIDE   /\ Slide!hard_reset({o})
          \/ loaded = ZOOM    /\ Zoom!hard_reset({o})
          \/ loaded = CURTAIN /\ Curtain!hard_reset({o})
     ELSE UNCHANGED <<course, picture, grid, widgets>>
  /\ UNCHANGED loaded

Allow(o) ==
  /\ o \in inhibited
  /\ inhibited' = inhibited \ {o}
  /\ UNCHANGED <<loaded, course, picture, grid, widgets>>

\* The plugin list in the configuration changes.
Load(k) ==
  /\ loaded = None
  /\ \A o \in Outputs : Countable(o)
  /\ loaded' = k
  /\ \/ k = SLIDE   /\ Slide!init
     \/ k = ZOOM    /\ Zoom!init
     \/ k = CURTAIN /\ Curtain!init
  /\ UNCHANGED inhibited

Unload ==
  /\ loaded' = None
  /\ \/ loaded = SLIDE   /\ Slide!fini
     \/ loaded = ZOOM    /\ Zoom!fini
     \/ loaded = CURTAIN /\ Curtain!fini
  /\ UNCHANGED inhibited

Next ==
  \/ \E o \in Outputs :
       \/ Call(o) \/ Frame(o) \/ Damage(o)
       \/ MapGrid(o) \/ MapWidgets(o) \/ Unmap(o)
       \/ Inhibit(o) \/ Allow(o)
  \/ \E k \in Kinds : Load(k)
  \/ Unload

\* A scheduled frame is drawn.
Fairness == \A o \in Outputs : WF_vars(Frame(o))

Spec == Init /\ [][Next]_vars /\ Fairness

-----------------------------------------------------------------------------
(***************************************************************************)
(* Properties.                                                             *)
(***************************************************************************)
TypeOK ==
  /\ loaded \in Kinds \union {None}
  /\ state \in [Outputs -> {"IDLE", "OPENING", "OPEN", "CLOSING"}]
  /\ anim \in [Outputs -> Progress]
  /\ screenshot \in [Outputs -> Progress \union {None}]
  /\ offset \in [Outputs -> Progress \union {None}]
  /\ enables \in [Outputs -> [Layers -> Nat]] /\ widgetEnables \in [Outputs -> Nat]
  /\ \A s \in {desktop_view, widget_view, desktop_tr, backdrop, gridUp, gridHidden,
               widgetUp, slid, hooked, redraw, active, inhibited} :
       s \subseteq Outputs

\* However the grid, the plugin and the lock come and go, a mapped grid is out
\* of sight exactly when a plugin is loaded and no reveal is open on its output;
\* without a plugin it is never hidden.  The cached handles are of surfaces that
\* are there (desktop_view, widget_view and desktop_tr are dangling otherwise).
GridFollowsReveal ==
  /\ TypeOK
  /\ gridHidden = IF loaded = None THEN {} ELSE gridUp \ Open
  /\ desktop_view = IF loaded = None THEN {} ELSE gridUp
  /\ widget_view \subseteq widgetUp
  /\ desktop_tr = {o \in Outputs : offset[o] # None}
  /\ desktop_tr \subseteq gridUp

\* Windows and panel are counted down for a reveal and up after it, each once,
\* under zoom-peek the panel never, so that every reveal hides them again and no
\* output is left without them.  The wallpaper and the widget surface are drawn
\* outside a reveal that hides them, but their counts grow.  So of all the slide
\* reveals of an output only the first leaves the wallpaper out of its picture.
NodesFollowReveal(o) ==
  /\ enables[o]["WORKSPACE"] = IF o \in Open THEN 0 ELSE 1
  /\ enables[o]["TOP"] = IF o \in Open /\ loaded # ZOOM THEN 0 ELSE 1
  /\ (o \in Open /\ loaded = CURTAIN) \/ enables[o]["BACKGROUND"] >= 1
  /\ (o \in Open /\ loaded # ZOOM) \/ widgetEnables[o] >= 1
  /\ o \in Open /\ loaded = SLIDE => (Slide!WallpaperInPicture(o) <=> o \in slid)

\* An output without a reveal has no picture, fill, transformer or frame hook
\* left, and the plugin is not active, whether the reveal was closed, cancelled
\* by the lock or unloaded.
RestoredWhenIdle ==
  \A o \in Outputs \ Open :
    /\ screenshot[o] = None /\ offset[o] = None
    /\ o \notin backdrop \union hooked \union active

\* A reveal that moves will be drawn to its end: its hook is set and a frame is
\* scheduled.  One that has settled damages nothing more, and shows the grid in
\* place, not at a position of the way there.
DrivenWhileMoving ==
  \A o \in Open :
    /\ o \in active \ inhibited
    /\ (state[o] # "OPEN") = (o \in hooked)
    /\ state[o] # "OPEN" => o \in redraw
    /\ state[o] = "OPEN" => screenshot[o] = Full /\ offset[o] \in {Full, None}

\* Between its reveals an output is drawn whole and nothing is left on it, and in
\* one it is driven.
RevealsComeAndGo ==
  /\ \A o \in Outputs : NodesFollowReveal(o)
  /\ RestoredWhenIdle
  /\ DrivenWhileMoving

Abstract == INSTANCE Peek WITH phase <- state

\* Every instance is a peek: in particular none is active on a locked output,
\* and an opening and a closing come to their end.
PeekContract == Abstract!Spec
=============================================================================
