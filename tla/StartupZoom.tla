---------------------------- MODULE StartupZoom ----------------------------
(***************************************************************************)
(* wayfire-plugins/startup-zoom: the views that map on an output as it     *)
(* comes up zoom in together, once.                                        *)
(***************************************************************************)
EXTENDS Animation

CONSTANTS Outputs, Windows, None

VARIABLES
  home,         \* the output each view is mapped on, or None
  zoom,         \* the state of the instance on each output
  zoom_anim,    \* its animation
  scaled,       \* the progress the transformer it gave a view shows, or None
  zoom_hook,    \* the outputs that call on_frame before a frame
  grace_timer   \* the outputs whose timer runs: without a view it gives up

zooms == <<zoom, zoom_anim, scaled, zoom_hook, grace_timer>>

Tracked(o) == {v \in Windows : scaled[o][v] # None}

Scaled(S, p) == [v \in Windows |-> IF v \in S THEN p ELSE None]

finish(o) ==
  /\ scaled' = [scaled EXCEPT ![o] = Scaled({}, 0)]
  /\ zoom' = [zoom EXCEPT ![o] = "DONE"]
  /\ zoom_hook' = zoom_hook \ {o} /\ grace_timer' = grace_timer \ {o}

\* track_view, which shows all tracked views at one progress, and ensure_running.
track(o, v) ==
  /\ \E p \in IF zoom[o] = "RUNNING" THEN Now(zoom_anim[o]) ELSE {0} :
       scaled' = [scaled EXCEPT ![o] = Scaled(Tracked(o) \union {v}, p)]
  /\ IF zoom[o] = "PENDING"
     THEN /\ zoom' = [zoom EXCEPT ![o] = "RUNNING"]
          /\ zoom_anim' = [zoom_anim EXCEPT ![o] = [at |-> 0, to |-> Full]]
          /\ zoom_hook' = zoom_hook \union {o}
     ELSE UNCHANGED <<zoom, zoom_anim, zoom_hook>>
  /\ UNCHANGED grace_timer

\* Every instance hears of every view and takes the ones of its output.
on_view_mapped(o, v) ==
  IF zoom[o] = "DONE" THEN UNCHANGED zooms ELSE track(o, v)

\* Mutant: only the output the view is on lets go of it.
drop_home(v) ==
  /\ scaled' = [scaled EXCEPT ![home[v]][v] = None]
  /\ UNCHANGED <<zoom, zoom_anim, zoom_hook, grace_timer>>

drop_view(v) ==
  /\ scaled' = [o \in Outputs |-> [scaled[o] EXCEPT ![v] = None]]
  /\ UNCHANGED <<zoom, zoom_anim, zoom_hook, grace_timer>>

on_frame(o) ==
  \E p \in Next1(zoom_anim[o]) :
    /\ zoom_anim' = [zoom_anim EXCEPT ![o].at = p]
    /\ IF p = Full THEN finish(o)
       ELSE /\ scaled' = [scaled EXCEPT ![o] = Scaled(Tracked(o), p)]
            /\ UNCHANGED <<zoom, zoom_hook, grace_timer>>

\* The frame asks for the next one through the views it scales, where they are.
Damaged(o) == {home[v] : v \in Tracked(o)}

grace_timer_cb(o) ==
  /\ o \in grace_timer
  /\ IF zoom[o] = "PENDING" THEN finish(o)
     ELSE grace_timer' = grace_timer \ {o} /\ UNCHANGED <<zoom, scaled, zoom_hook>>
  /\ UNCHANGED zoom_anim

\* The output goes; one that comes has a fresh instance.
fini(o) == finish(o) /\ zoom_anim' = [zoom_anim EXCEPT ![o] = Still]

init(o) ==
  /\ zoom' = [zoom EXCEPT ![o] = "PENDING"]
  /\ grace_timer' = grace_timer \union {o}
  /\ UNCHANGED <<zoom_anim, scaled, zoom_hook>>
=============================================================================
