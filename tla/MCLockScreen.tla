---------------------------- MODULE MCLockScreen ----------------------------
(* Monitors for the lock screen runs: two, or three.                       *)
EXTENDS LockScreen

CONSTANTS m1, m2, m3

TwoMonitors     == {m1, m2}
ThreeMonitors   == {m1, m2, m3}
=============================================================================

