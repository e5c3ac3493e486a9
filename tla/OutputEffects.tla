--------------------------- MODULE OutputEffects ---------------------------
(***************************************************************************)
(* The plugins that act on every output by themselves, night-light and     *)
(* startup-zoom, while outputs are plugged and unplugged and windows map,  *)
(* unmap and go from one output to another.                                *)
(***************************************************************************)
EXTENDS Animation

CONSTANTS Outputs, Windows, None

ASSUME NoneAssumption == None \notin Progress /\ None \notin Outputs

VARIABLES
  plugged, redraw, home,
  night, fade, tint, lit_hook, enabled,              \* night-light
  zoom, zoom_anim, scaled, zoom_hook, grace_timer,   \* startup-zoom
  replugged   \* history: plugged since the last verb that did anything

Night == INSTANCE NightLight
Zoom  == INSTANCE StartupZoom

instances == <<night, fade, tint, lit_hook>>
zooms     == <<zoom, zoom_anim, scaled, zoom_hook, grace_timer>>
nightVars == <<instances, enabled, replugged>>
vars      == <<plugged, redraw, home, nightVars, zooms>>

Init ==
  /\ plugged = Outputs /\ redraw = Outputs
  /\ home = [v \in Windows |-> None]
  /\ night = [o \in Outputs |-> "OFF"] /\ fade = [o \in Outputs |-> Still]
  /\ tint = [o \in Outputs |-> None] /\ lit_hook = {}
  /\ enabled = FALSE /\ replugged = {}
  /\ zoom = [o \in Outputs |-> "PENDING"] /\ zoom_anim = [o \in Outputs |-> Still]
  /\ scaled = [o \in Outputs |-> Zoom!Scaled({}, 0)]
  /\ zoom_hook = {} /\ grace_timer = Outputs

-----------------------------------------------------------------------------
Plug(o) ==
  /\ o \notin plugged
  /\ plugged' = plugged \union {o} /\ redraw' = redraw \union {o}
  /\ replugged' = replugged \union {o}
  /\ Zoom!init(o)
  /\ UNCHANGED <<home, instances, enabled>>

\* Its windows go to another output; none of them maps anew.
Unplug(o) ==
  /\ o \in plugged
  /\ plugged' = plugged \ {o}
  /\ \E other \in plugged' :
       /\ home' = [v \in Windows |-> IF home[v] = o THEN other ELSE home[v]]
       /\ redraw' = (redraw \union {other}) \ {o}
  /\ replugged' = replugged \ {o}
  /\ Night!fini(o) /\ Zoom!fini(o)
  /\ UNCHANGED enabled

\* A scheduled frame of an output runs the hooks that are set, and is the last
\* unless one of them damages an output.
Frame(o) ==
  /\ o \in redraw
  /\ IF o \in lit_hook THEN Night!on_frame(o) ELSE UNCHANGED instances
  /\ IF o \in zoom_hook THEN Zoom!on_frame(o) ELSE UNCHANGED zooms
  /\ redraw' = (redraw \ {o}) \union (lit_hook \intersect {o})
                 \union (IF o \in zoom_hook THEN Zoom!Damaged(o) ELSE {})
  /\ UNCHANGED <<plugged, home, enabled, replugged>>

\* Anything else on the output asks for a frame.
Damage(o) ==
  /\ o \in plugged \ redraw /\ redraw' = redraw \union {o}
  /\ UNCHANGED <<plugged, home, nightVars, zooms>>

Map(v, o) ==
  /\ home[v] = None /\ o \in plugged
  /\ home' = [home EXCEPT ![v] = o] /\ redraw' = redraw \union {o}
  /\ Zoom!on_view_mapped(o, v)
  /\ UNCHANGED <<plugged, nightVars>>

Unmap(v) ==
  /\ home[v] # None
  /\ home' = [home EXCEPT ![v] = None] /\ redraw' = redraw \union {home[v]}
  /\ Zoom!drop_view(v)
  /\ UNCHANGED <<plugged, nightVars>>

\* No plugin listens to it.
Move(v, o) ==
  /\ home[v] \notin {None, o} /\ o \in plugged
  /\ home' = [home EXCEPT ![v] = o] /\ redraw' = redraw \union {o, home[v]}
  /\ UNCHANGED <<plugged, nightVars, zooms>>

GraceTimer(o) ==
  /\ Zoom!grace_timer_cb(o)
  /\ UNCHANGED <<plugged, redraw, home, nightVars>>

Call ==
  /\ Night!on_toggle_ipc \/ Night!on_start_ipc \/ Night!on_stop_ipc
  /\ replugged' = IF night' = night THEN replugged ELSE {}
  /\ UNCHANGED <<plugged, home, zooms>>

Reload ==
  /\ Night!plugin_fini /\ replugged' = {}
  /\ redraw' = redraw \union lit_hook
  /\ UNCHANGED <<plugged, home, zooms>>

Next ==
  \/ \E o \in Outputs : \/ Plug(o) \/ Unplug(o) \/ Frame(o) \/ Damage(o) \/ GraceTimer(o)
                        \/ \E v \in Windows : Map(v, o) \/ Move(v, o)
  \/ \E v \in Windows : Unmap(v)
  \/ Call \/ Reload

\* A scheduled frame is drawn, and a timer that runs fires.
Fairness == \A o \in Outputs : WF_vars(Frame(o)) /\ WF_vars(GraceTimer(o))

Spec == Init /\ [][Next]_vars /\ Fairness

-----------------------------------------------------------------------------
Lit(o) == night[o] \in {"FADING_IN", "ON"}

SceneTypeOK ==
  /\ plugged \subseteq Outputs /\ redraw \subseteq plugged
  /\ home \in [Windows -> plugged \union {None}]

NightTypeOK ==
  /\ night \in [Outputs -> {"OFF", "FADING_IN", "ON", "FADING_OUT"}]
  /\ fade \in [Outputs -> Anims]
  /\ tint \in [Outputs -> Progress \union {None}]
  /\ enabled \in BOOLEAN /\ replugged \subseteq plugged

ZoomTypeOK ==
  /\ zoom \in [Outputs -> {"PENDING", "RUNNING", "DONE"}]
  /\ zoom_anim \in [Outputs -> Anims]
  /\ scaled \in [Outputs -> [Windows -> Progress \union {None}]]

TypeOK == SceneTypeOK /\ NightTypeOK /\ ZoomTypeOK

\* The hook is set exactly during fades; there is a tint exactly while the night
\* light is not off, a full one when it is on, and none on an output that is gone.
TintsOwned ==
  /\ lit_hook = {o \in Outputs : night[o] \in {"FADING_IN", "FADING_OUT"}}
  /\ \A o \in Outputs : /\ (night[o] = "OFF") = (tint[o] = None)
                        /\ night[o] = "ON" => tint[o] = Full
                        /\ o \notin plugged => night[o] = "OFF"

\* The hook is set exactly while the zoom runs, on an output that is there; one
\* that waits has its timer, one that is done has not; a window is scaled only
\* while mapped, by one instance at most, and only while that one runs.
ZoomsOwned ==
  /\ zoom_hook = {o \in Outputs : zoom[o] = "RUNNING"}
  /\ \A o \in Outputs :
       /\ o \notin plugged => zoom[o] = "DONE"
       /\ zoom[o] = "PENDING" => o \in grace_timer
       /\ o \in grace_timer => zoom[o] # "DONE"
       /\ \A v \in Windows : scaled[o][v] # None => home[v] # None /\ zoom[o] = "RUNNING"
  /\ grace_timer \subseteq Outputs
  /\ \A v \in Windows, o, other \in Outputs :
       scaled[o][v] # None /\ scaled[other][v] # None => o = other

\* Nothing is left behind by a fade or a zoom, however it ended: no hook, tint,
\* timer or scaled window.
NothingLeftBehind == TypeOK /\ TintsOwned /\ ZoomsOwned

\* An output shows what the flag says, whatever verbs came while fades were under
\* way, but for the outputs plugged in since a verb last did anything: these are dark
\* even while the light is on.
ShowsTheFlag == \A o \in plugged : Lit(o) <=> enabled /\ o \notin replugged

\* The toggle would turn no output.
ToggleIdle ==
  \A o \in plugged : IF enabled THEN ~Night!CanStop(o) ELSE ~Night!CanStart(o)

\* The flag keeps the outputs in lockstep only until one is plugged in, and a toggle
\* turns them all again, save when every output has come since: then the light is
\* on nowhere, and the toggle, which would turn it off, does nothing until a start.
InStep ==
  /\ ShowsTheFlag
  /\ plugged # {} => (ToggleIdle <=> enabled /\ plugged \subseteq replugged)

\* What moves comes to its end.  On an output that keeps being drawn no fade stays
\* as it is: it settles or is turned.  A zoom with a window to move on its own output
\* drives itself and is over some time, and no output stays armed for one.
ZoomDue(o) == zoom[o] = "PENDING" \/ (zoom[o] = "RUNNING" /\ o \in Zoom!Damaged(o))

EffectsEnd ==
  \A o \in Outputs :
    /\ \/ <>[](o \notin redraw)
       \/ []<>(night[o] \in {"OFF", "ON"})
       \/ []<><<night'[o] # night[o]>>_vars
    /\ []<>(~ZoomDue(o))
=============================================================================
