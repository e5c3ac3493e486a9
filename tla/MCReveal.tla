------------------------------ MODULE MCReveal ------------------------------
(* Two outputs, the three plugins, animations of two frames. *)
EXTENDS Reveal

MCKinds == {SLIDE, ZOOM, CURTAIN}
=============================================================================
