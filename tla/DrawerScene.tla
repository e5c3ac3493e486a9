---------------------------- MODULE DrawerScene ----------------------------
(***************************************************************************)
(* What the plugins that reveal the drawer (wayfire-plugins/slide-peek,    *)
(* zoom-peek, curtain-peek) act on, and the steps they share.  On every    *)
(* output the compositor has layers, a drawer's grid and a widget surface  *)
(* that come and go, and one instance of the plugin that is loaded.        *)
(***************************************************************************)
EXTENDS Integers

CONSTANTS
  Outputs,
  Kinds,       \* the reveal plugins
  Full,        \* frames of an animation; its progress is in 0..Full
  None

ASSUME FullAssumption == Full \in Nat \ {0}
ASSUME NoneAssumption == None \notin Kinds /\ None \notin 0..Full

VARIABLES
  \* the plugin
  loaded,         \* the reveal plugin in [core] plugins
  state,          \* of the instance on each output
  anim,           \* where its animation is; state says where it goes
  desktop_view,   \* the outputs whose instance has cached a grid
  widget_view,    \*   ... a widget surface
  desktop_tr,     \*   ... and holds a transformer for the grid
  screenshot,     \* the progress shown by the node with the frozen picture
  backdrop,       \* the outputs with curtain-peek's grey fill
  \* the compositor
  gridUp, gridHidden,       \* the outputs with a mapped grid, with one disabled
  offset,                   \* the progress the grid's transformer shows
  widgetUp,                 \* the outputs with a mapped widget surface
  widgetEnables,            \* how often its node is enabled: it is drawn if at all
  enables,                  \* how often each layer of an output is enabled
  slid,                     \* history: the outputs where a slide reveal has ended
  hooked,                   \* the outputs that call on_frame before a frame
  redraw,                   \* the outputs that have a frame scheduled
  active, inhibited         \* the outputs the plugin is active on; may not be

course   == <<state, anim, hooked, redraw, active>>
layerVars == <<enables, slid>>
picture  == <<screenshot, backdrop, layerVars, desktop_tr, offset>>
grid     == <<gridUp, gridHidden, desktop_view>>
widgets  == <<widgetUp, widgetEnables, widget_view>>
vars     == <<loaded, inhibited, course, picture, grid, widgets>>

Layers   == {"BACKGROUND", "WORKSPACE", "TOP"}
Progress == 0..Full

\* f with the value v on the outputs of S.
On(f, S, v) == [o \in Outputs |-> IF o \in S THEN v ELSE f[o]]

\* The outputs on which a reveal is under way or open.
Open == {o \in Outputs : state[o] # "IDLE"}

(***************************************************************************)
(* The course of a reveal.                                                 *)
(***************************************************************************)
\* The plugin is activated and the picture is taken; when either fails
\* start_open takes back what it did and nothing has changed.
Opens(o) ==
  /\ state[o] = "IDLE"
  /\ o \notin inhibited \union active
  /\ active' = active \union {o}
  /\ state' = [state EXCEPT ![o] = "OPENING"]
  /\ anim' = [anim EXCEPT ![o] = 0]
  /\ hooked' = hooked \union {o}
  /\ redraw' = redraw \union {o}

\* Mutant: no frame is asked for.
ClosesUndrawn(o) ==
  /\ state[o] \in {"OPEN", "OPENING"}
  /\ state' = [state EXCEPT ![o] = "CLOSING"] /\ hooked' = hooked \union {o}
  /\ UNCHANGED <<anim, active, redraw>>

\* Once a reveal has settled nothing else drives frames.
Closes(o) ==
  /\ state[o] \in {"OPEN", "OPENING"}
  /\ state' = [state EXCEPT ![o] = "CLOSING"]
  /\ IF state[o] = "OPEN"
     THEN hooked' = hooked \union {o} /\ redraw' = redraw \union {o}
     ELSE UNCHANGED <<hooked, redraw>>
  /\ UNCHANGED <<anim, active>>

\* How far the animation may be at the next frame: it follows the clock.
Ahead(o) == IF state[o] = "CLOSING"
            THEN {p \in Progress : p < anim[o] \/ p = 0}
            ELSE {p \in Progress : p > anim[o] \/ p = Full}

\* A frame that does not end a closing; the hook goes when the grid is in place.
Advances(o, p) ==
  /\ anim' = [anim EXCEPT ![o] = p]
  /\ IF state[o] = "OPENING" /\ p = Full
     THEN state' = [state EXCEPT ![o] = "OPEN"] /\ hooked' = hooked \ {o}
     ELSE UNCHANGED <<state, hooked>>
  /\ UNCHANGED active

\* The end of hard_reset.  (anim is set anew before it is read again.)
Rests(S) ==
  /\ hooked' = hooked \ S
  /\ active' = active \ S
  /\ state' = On(state, S, "IDLE")
  /\ anim' = On(anim, S, 0)
  /\ redraw' = redraw \union S

(***************************************************************************)
(* The surfaces.  set_desktop_visible and set_widgets_visible look the     *)
(* surface up when it is not cached, and enable or disable its node.  The  *)
(* compositor counts: a node is drawn while it was enabled more often than *)
(* disabled, and a new one counts 1.  The calls for the grid alternate, so *)
(* that it is enough to say whether it is hidden; those for the widget     *)
(* surface and the layers do not.                                          *)
(***************************************************************************)
Toggled(hidden, S, visible) == IF visible THEN hidden \ S ELSE hidden \union S

set_desktop_visible(S, visible) ==
  /\ desktop_view' = desktop_view \union (S \intersect gridUp)
  /\ gridHidden' = Toggled(gridHidden, S \intersect desktop_view', visible)
  /\ UNCHANGED gridUp

Counted(f, S, n) == [o \in Outputs |-> f[o] + IF o \in S THEN n ELSE 0]

set_widgets_visible(S, visible) ==
  /\ widget_view' = widget_view \union (S \intersect widgetUp)
  /\ widgetEnables' = Counted(widgetEnables, S \intersect widget_view', IF visible THEN 1 ELSE -1)
  /\ UNCHANGED widgetUp

\* fini shows the widget surface once more than the hard_reset of an open reveal.
FiniShows ==
  LET found == widget_view \union widgetUp IN
    widgetEnables' = Counted(Counted(widgetEnables, found, 1), found \intersect Open, 1)

\* Mutant: the grid is hidden as it maps, whatever is going on.
GridMapsHidden(o) ==
  /\ o \notin gridUp
  /\ gridUp' = gridUp \union {o} /\ desktop_view' = desktop_view \union {o}
  /\ gridHidden' = gridHidden \union {o}

\* The grid is hidden as it maps, unless a reveal is open.
GridMaps(o) ==
  /\ o \notin gridUp
  /\ gridUp' = gridUp \union {o}
  /\ desktop_view' = desktop_view \union {o}
  /\ gridHidden' = IF state[o] = "IDLE" THEN gridHidden \union {o} ELSE gridHidden

\* The surface is gone, and its node and its transformer with it.
GridUnmaps(o) ==
  /\ o \in gridUp
  /\ gridUp' = gridUp \ {o}
  /\ gridHidden' = gridHidden \ {o}
  /\ offset' = [offset EXCEPT ![o] = None]
  /\ desktop_tr' = desktop_tr \ {o}
  /\ desktop_view' = desktop_view \ {o}

WidgetsUnmap(o) ==
  /\ o \in widgetUp
  /\ widgetUp' = widgetUp \ {o}
  /\ widgetEnables' = [widgetEnables EXCEPT ![o] = 1]

(***************************************************************************)
(* The picture.                                                            *)
(***************************************************************************)
\* A transformer is put on the grid, if there is one.
AddTransformer(o) ==
  /\ desktop_tr' = IF o \in desktop_view' THEN desktop_tr \union {o} ELSE desktop_tr
  /\ offset' = IF o \in desktop_view' THEN [offset EXCEPT ![o] = 0] ELSE offset

RemTransformer(S) ==
  /\ offset' = On(offset, S \intersect desktop_tr \intersect desktop_view, None)
  /\ desktop_tr' = desktop_tr \ S

Layered(S, layers, n) ==
  enables' = [o \in Outputs |->
                [l \in Layers |-> enables[o][l] + IF o \in S /\ l \in layers THEN n ELSE 0]]

Disable(o, layers) == Layered({o}, layers, -1)
Enable(S, layers)  == Layered(S, layers, 1)

ShowAt(node, o, p) == IF node[o] = None THEN node ELSE [node EXCEPT ![o] = p]
=============================================================================
