-------------------------------- MODULE Peek --------------------------------
(***************************************************************************)
(* What every peek plugin promises of an output, whatever it does to the   *)
(* picture: it is at rest, opening, open or closing; an opening and a      *)
(* closing come to their end; and an output that the session lock inhibits *)
(* is at rest.                                                             *)
(***************************************************************************)
CONSTANT Outputs

VARIABLES
  phase,      \* of the plugin's instance on each output
  inhibited   \* the outputs on which no plugin may be active

Phases == {"IDLE", "OPENING", "OPEN", "CLOSING"}

Init == phase = [o \in Outputs |-> "IDLE"] /\ inhibited = {}

Move(o, from, to) ==
  /\ phase[o] \in from
  /\ phase' = [phase EXCEPT ![o] = to]
  /\ UNCHANGED inhibited

Open(o)   == o \notin inhibited /\ Move(o, {"IDLE"}, "OPENING")
Settle(o) == Move(o, {"OPENING"}, "OPEN")
Close(o)  == Move(o, {"OPENING", "OPEN"}, "CLOSING")
Finish(o) == Move(o, {"CLOSING"}, "IDLE")

Rest(S) == phase' = [o \in Outputs |-> IF o \in S THEN "IDLE" ELSE phase[o]]

\* What a peek is about goes away, or the plugin is unloaded.
Drop(S) == Rest(S) /\ UNCHANGED inhibited

Inhibit(S) == Rest(S) /\ inhibited' = inhibited \union S
Allow(S)   == inhibited' = inhibited \ S /\ UNCHANGED phase

Next ==
  \/ \E o \in Outputs : Open(o) \/ Settle(o) \/ Close(o) \/ Finish(o)
  \/ \E S \in SUBSET Outputs : Drop(S) \/ Inhibit(S) \/ Allow(S)

vars == <<phase, inhibited>>

\* A peek that is under way gets to its end.
Fairness == \A o \in Outputs : WF_vars(Settle(o)) /\ WF_vars(Finish(o))

Safe == Init /\ [][Next]_vars

Spec == Safe /\ Fairness
=============================================================================
