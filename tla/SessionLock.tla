---------------------------- MODULE SessionLock ----------------------------
(***************************************************************************)
(* What the lock screen promises as a client of ext-session-lock-v1: it    *)
(* shows lock surfaces only under a granted lock, and while the lock holds *)
(* every output carries one, whatever is plugged in or out meanwhile.      *)
(***************************************************************************)
CONSTANT Outputs

VARIABLES
  phase,      \* "unlocked", "requested" or "locked"
  outputs,    \* connected outputs
  surfaces    \* outputs that carry a lock surface

vars == <<phase, outputs, surfaces>>

TypeOK ==
  /\ phase \in {"unlocked", "requested", "locked"}
  /\ outputs \subseteq Outputs
  /\ surfaces \subseteq Outputs

Init ==
  /\ phase = "unlocked"
  /\ outputs \subseteq Outputs
  /\ surfaces = {}

Request ==
  /\ phase = "unlocked"
  /\ phase' = "requested"
  /\ UNCHANGED <<outputs, surfaces>>

Refuse ==
  /\ phase = "requested"
  /\ phase' = "unlocked"
  /\ UNCHANGED <<outputs, surfaces>>

Grant ==
  /\ phase = "requested"
  /\ phase' = "locked"
  /\ surfaces' = outputs
  /\ UNCHANGED outputs

Release ==
  /\ phase = "locked"
  /\ phase' = "unlocked"
  /\ surfaces' = {}
  /\ UNCHANGED outputs

Hotplug ==
  /\ outputs' \in SUBSET Outputs
  /\ surfaces' = IF phase = "locked" THEN outputs' ELSE surfaces
  /\ UNCHANGED phase

Next == Request \/ Refuse \/ Grant \/ Release \/ Hotplug

Spec == Init /\ [][Next]_vars
=============================================================================

