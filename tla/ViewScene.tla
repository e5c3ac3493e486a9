----------------------------- MODULE ViewScene -----------------------------
(***************************************************************************)
(* The views of one output as the plugins that shift them see them         *)
(* (wayfire-plugins/desktop-peek and panel-push), and the state            *)
(* of one such plugin: each gives every view it tracks a transformer of its*)
(* own and moves it by an animation.                                       *)
(***************************************************************************)
EXTENDS Animation

CONSTANTS
  Toplevels, Surfaces, Overlays,   \* windows; BACKGROUND to TOP; above
  Panel,                           \* the view with exclude_app_id
  None

VARIABLES
  \* the compositor
  mapped,      \* the views that are mapped
  away,        \* windows that are minimized, or on another workspace or output
  redraw,      \* the output has a frame scheduled
  inhibited,   \* the session is locked: no plugin may be active
  \* the plugin
  state,
  anim,
  offset,      \* the progress each tracked view's transformer shows
  hooked,      \* on_frame is called before a frame
  active       \* the plugin is active on the output

Views == Toplevels \union Surfaces \union Overlays \union {Panel}

plugin == <<state, anim, offset, hooked, active>>

Tracked == {v \in Views : offset[v] # None}

\* The views that damage the output when they are transformed.
Seen(v) == v \in mapped \ away

Shifted(S, p) == [v \in Views |-> IF v \in S THEN p ELSE None]

\* Every tracked view is moved to p.
apply_progress(p) == offset' = Shifted(Tracked, p)

\* All transformers are removed, the hook and the activation given back.
hard_reset ==
  /\ offset' = Shifted({}, 0)
  /\ state' = "IDLE" /\ hooked' = FALSE /\ active' = FALSE
  /\ UNCHANGED anim

\* Mutant: the answer of activate_plugin is not looked at.
StartsAnyway(S) ==
  /\ state = "IDLE" /\ ~active
  /\ S # {}
  /\ state' = "OUT" /\ anim' = [at |-> 0, to |-> Full]
  /\ hooked' = TRUE /\ active' = TRUE /\ redraw' = TRUE

\* activate_plugin succeeds and there is a view to move; otherwise nothing is changed.
Starts(S) ==
  /\ state = "IDLE" /\ ~active /\ ~inhibited
  /\ S # {}
  /\ state' = "OUT" /\ anim' = [at |-> 0, to |-> Full]
  /\ hooked' = TRUE /\ active' = TRUE /\ redraw' = TRUE

\* start_restore: once settled nothing else drives frames.
Restores(settled) ==
  /\ state \in {settled, "OUT"}
  /\ IF state = settled THEN hooked' = TRUE /\ redraw' = TRUE
                        ELSE UNCHANGED <<hooked, redraw>>
  /\ state' = "IN"
  /\ \E p \in Now(anim) : anim' = [at |-> p, to |-> 0]
  /\ UNCHANGED <<offset, active>>

\* on_frame
Steps(settled) ==
  \E p \in Next1(anim) :
    IF p # anim.to
    THEN /\ apply_progress(p)
         /\ anim' = [anim EXCEPT !.at = p]
         /\ UNCHANGED <<state, hooked, active>>
    ELSE IF state = "OUT"
         THEN /\ apply_progress(Full)
              /\ anim' = [anim EXCEPT !.at = p]
              /\ state' = settled /\ hooked' = FALSE
              /\ UNCHANGED active
         ELSE /\ offset' = Shifted({}, 0)
              /\ anim' = [anim EXCEPT !.at = p]
              /\ state' = "IDLE" /\ hooked' = FALSE /\ active' = FALSE
=============================================================================
