--------------------------- MODULE MCViewEffects ---------------------------
(* Two windows and the panel; animations of two frames. *)
EXTENDS ViewEffects
=============================================================================
