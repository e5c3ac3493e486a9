------------------------- MODULE NotificationServer -------------------------
(***************************************************************************)
(* What lumen-notifications promises a client of                           *)
(* org.freedesktop.Notifications: an id is opened once, closed once, and   *)
(* an action is reported only while its notification is open and offers    *)
(* it, right before the close it causes.                                   *)
(***************************************************************************)
EXTENDS Naturals, Sequences

CONSTANTS Ids, Keys, Reasons

VARIABLES
  offered,   \* the open notifications, with the actions each one offers
  closed,    \* the ids that were closed
  signals    \* the signals of the last step

ClosedSignal(id, reason) == [signal |-> "NotificationClosed", id |-> id, reason |-> reason]
ActionSignal(id, key)    == [signal |-> "ActionInvoked", id |-> id, key |-> key]

Without(f, id) == [i \in DOMAIN f \ {id} |-> f[i]]
With(f, id, v) == [i \in DOMAIN f \union {id} |-> IF i = id THEN v ELSE f[i]]

Init == offered = <<>> /\ closed = {} /\ signals = <<>>

Notify ==
  \E id \in Ids \ closed, keys \in SUBSET Keys :
    /\ offered' = With(offered, id, keys)
    /\ signals' = <<>>
    /\ UNCHANGED closed

Retire(id) ==
  /\ id \in DOMAIN offered
  /\ offered' = Without(offered, id)
  /\ closed' = closed \union {id}

Close ==
  \E id \in DOMAIN offered, reason \in Reasons :
    Retire(id) /\ signals' = <<ClosedSignal(id, reason)>>

Invoke ==
  \E id \in DOMAIN offered : \E key \in offered[id] :
    /\ Retire(id)
    /\ signals' = <<ActionSignal(id, key), ClosedSignal(id, "dismissed")>>

Silent == signals' = <<>> /\ UNCHANGED <<offered, closed>>

Next == Notify \/ Close \/ Invoke \/ Silent
vars == <<offered, closed, signals>>

Spec == Init /\ [][Next]_vars
=============================================================================

