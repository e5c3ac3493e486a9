-------------------------- MODULE MCNotifications --------------------------
(* Two action keys, one of them the default of the card.                   *)
EXTENDS Notifications
CONSTANTS default, reply
MCKeys == {default, reply}
=============================================================================

