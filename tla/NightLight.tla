----------------------------- MODULE NightLight -----------------------------
(***************************************************************************)
(* wayfire-plugins/night-light: a warm tint over every output, which fades *)
(* in and out.  Each output has an instance of its own; the plugin keeps   *)
(* one flag for all of them.                                               *)
(***************************************************************************)
EXTENDS Animation

CONSTANTS Outputs, None

VARIABLES
  plugged,   \* the outputs that are there
  redraw,    \* the outputs that have a frame scheduled
  night,     \* the state of the instance on each output
  fade,      \* its animation
  tint,      \* the strength its node shows; None without a node
  lit_hook,  \* the outputs that call on_frame before a frame
  enabled    \* of the plugin

instances == <<night, fade, tint, lit_hook>>

\* Mutant: a tint that still fades in is left to do so.
CanStopOn(o) == night[o] = "ON"

CanStart(o) == night[o] \in {"OFF", "FADING_OUT"}
CanStop(o)  == night[o] \in {"ON", "FADING_IN"}

\* The animations of T turn to p from wherever they are.
Turns(T, p) ==
  \E at \in [T -> Progress] :
    /\ \A o \in T : at[o] \in Now(fade[o])
    /\ fade' = [o \in Outputs |-> IF o \in T THEN [at |-> at[o], to |-> p] ELSE fade[o]]

\* A new node, which damages its output.
setup(T) ==
  /\ tint' = [o \in Outputs |-> IF o \in T THEN 0 ELSE tint[o]]
  /\ lit_hook' = lit_hook \union T
  /\ redraw' = redraw \union T

\* What fades out has its node and its hook.
ipc_start(T) ==
  /\ setup({o \in T : night[o] = "OFF"})
  /\ night' = [o \in Outputs |-> IF o \in T THEN "FADING_IN" ELSE night[o]]
  /\ Turns(T, Full)

\* Mutant: the hook, which went when the tint had settled, is not set again.
ipc_stop_unhooked(T) ==
  /\ night' = [o \in Outputs |-> IF o \in T THEN "FADING_OUT" ELSE night[o]]
  /\ Turns(T, 0)
  /\ UNCHANGED <<tint, redraw, lit_hook>>

\* The hook is set, but no frame is asked for.
ipc_stop(T) ==
  /\ lit_hook' = lit_hook \union T
  /\ night' = [o \in Outputs |-> IF o \in T THEN "FADING_OUT" ELSE night[o]]
  /\ Turns(T, 0)
  /\ UNCHANGED <<tint, redraw>>

\* The verb goes to every output; the flag follows if it did anything on one.
set_all(on) ==
  LET T == {o \in plugged : IF on THEN CanStart(o) ELSE CanStop(o)}
  IN  IF T = {} THEN UNCHANGED <<instances, enabled, redraw>>
      ELSE /\ enabled' = on
           /\ IF on THEN ipc_start(T) ELSE ipc_stop(T)

on_toggle_ipc == set_all(~enabled)
on_start_ipc  == set_all(TRUE)
on_stop_ipc   == set_all(FALSE)

teardown(o) ==
  /\ lit_hook' = lit_hook \ {o}
  /\ tint' = [tint EXCEPT ![o] = None]
  /\ night' = [night EXCEPT ![o] = "OFF"]

on_frame(o) ==
  \E p \in Next1(fade[o]) :
    /\ fade' = [fade EXCEPT ![o].at = p]
    /\ IF p = 0 /\ night[o] = "FADING_OUT" THEN teardown(o)
       ELSE /\ tint' = [tint EXCEPT ![o] = p]
            /\ IF p = Full /\ night[o] = "FADING_IN"
               THEN /\ night' = [night EXCEPT ![o] = "ON"]
                    /\ lit_hook' = lit_hook \ {o}
               ELSE UNCHANGED <<night, lit_hook>>

\* The instance goes; another output, or this one again, has a fresh one.
fini(o) == teardown(o) /\ fade' = [fade EXCEPT ![o] = Still]

\* The plugin is unloaded; loaded again, it knows nothing.
plugin_fini ==
  /\ night' = [o \in Outputs |-> "OFF"] /\ fade' = [o \in Outputs |-> Still]
  /\ tint' = [o \in Outputs |-> None] /\ lit_hook' = {}
  /\ enabled' = FALSE
=============================================================================
