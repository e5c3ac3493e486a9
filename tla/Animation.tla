----------------------------- MODULE Animation -----------------------------
(***************************************************************************)
(* wf::animation::simple_animation_t, whose value follows the clock.       *)
(* An animation is [at, to]: where it was last read and where it goes.     *)
(***************************************************************************)
EXTENDS Naturals

CONSTANT Full   \* progress is in 0..Full

ASSUME FullAssumption == Full \in Nat \ {0}

Progress == 0..Full
Anims    == [at : Progress, to : Progress]
Still    == [at |-> 0, to |-> 0]

\* Where the animation may be by now, and at the next frame that shows a change.
Now(a) == {p \in Progress : (a.at <= p /\ p <= a.to) \/ (a.to <= p /\ p <= a.at)}
Next1(a) == IF a.at = a.to THEN {a.to} ELSE Now(a) \ {a.at}
=============================================================================
