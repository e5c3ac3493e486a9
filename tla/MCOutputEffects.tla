-------------------------- MODULE MCOutputEffects --------------------------
(* Two outputs and a window; fades and zooms of two frames. *)
EXTENDS OutputEffects
=============================================================================
