----------------------------- MODULE PanelPush -----------------------------
(***************************************************************************)
(* wayfire-plugins/panel-push: everything on the output but the panel is   *)
(* shifted while the panel is revealed.                                    *)
(***************************************************************************)
EXTENDS ViewScene

\* BACKGROUND to TOP, without the panel.
Scene == mapped \intersect (Toplevels \union Surfaces)

\* The views that are collected, windows that are not in sight possibly among
\* them; they are shown where the last animation is by now until the first frame.
start_push ==
  \E few \in SUBSET (Scene \intersect away), p \in Now(anim) :
    Starts(Scene \ few) /\ offset' = Shifted(Scene \ few, p)

start_restore == Restores("PUSHED")

ipc_toggle == start_push \/ start_restore
ipc_start  == start_push
ipc_stop   == start_restore

\* Mutant: a push that is still on its way cannot be stopped.
StopDeclinedOut == state # "PUSHED"

\* The verbs answer "noop".
StartDeclined == state # "IDLE" \/ inhibited \/ Scene \subseteq away
StopDeclined  == state \notin {"PUSHED", "OUT"}

on_frame == Steps("PUSHED")

\* A view that maps while the scene is away, of whatever layer, goes with it.
on_view_mapped(v) ==
  /\ IF state \in {"OUT", "PUSHED"} /\ v # Panel
     THEN \E p \in Now(anim) : offset' = [offset EXCEPT ![v] = p]
     ELSE UNCHANGED offset
  /\ UNCHANGED <<state, anim, hooked, active>>

drop_view(v) ==
  /\ offset' = [offset EXCEPT ![v] = None]
  /\ UNCHANGED <<state, anim, hooked, active>>

fini ==
  /\ offset' = Shifted({}, 0)
  /\ state' = "IDLE" /\ hooked' = FALSE /\ active' = FALSE
  /\ anim' = Still
=============================================================================
