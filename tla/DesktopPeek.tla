---------------------------- MODULE DesktopPeek ----------------------------
(***************************************************************************)
(* wayfire-plugins/desktop-peek: the windows of an output slide to its     *)
(* corners so that the desktop shows, and back.                            *)
(***************************************************************************)
EXTENDS ViewScene, Integers

(***************************************************************************)
(* Where a window goes: to one corner after another, so that peek pixels   *)
(* of it stay on the output.  x and w are its place and size in one        *)
(* dimension of an output of size W; near says left or top.                *)
(***************************************************************************)
PeekPx(opt) == IF opt < 0 THEN 0 ELSE IF opt > 400 THEN 400 ELSE opt

Target(near, peek, w, W)   == IF near THEN peek - w ELSE W - peek
Shift(near, peek, x, w, W) == Target(near, peek, w, W) - x

\* The pixels of [x, x + w) on the output [0, W).
Shown(x, w, W) ==
  LET lo == IF x < 0 THEN 0 ELSE x
      hi == IF x + w > W THEN W ELSE x + w
  IN  IF hi > lo THEN hi - lo ELSE 0

-----------------------------------------------------------------------------
start_peek ==
  LET windows == {v \in Toplevels : Seen(v)}
  IN  Starts(windows) /\ offset' = Shifted(windows, 0)

start_restore == Restores("PEEKED")

ipc_toggle == start_peek \/ start_restore
ipc_start  == start_peek
ipc_stop   == start_restore

on_frame == Steps("PEEKED")

\* The frame asks for the next one through the views it moves.
Damages == \E v \in Tracked : Seen(v)

\* Mutant: with the last window the peek goes on.
drop_only(v) ==
  /\ offset' = [offset EXCEPT ![v] = None]
  /\ UNCHANGED <<state, anim, hooked, active>>

\* A tracked window is unmapped; with the last one the peek is over.
drop_view(v) ==
  IF Tracked = {v} THEN hard_reset
  ELSE /\ offset' = [offset EXCEPT ![v] = None]
       /\ UNCHANGED <<state, anim, hooked, active>>

\* The plugin is unloaded and a fresh instance takes its place.
fini ==
  /\ offset' = Shifted({}, 0)
  /\ state' = "IDLE" /\ hooked' = FALSE /\ active' = FALSE
  /\ anim' = Still
=============================================================================
