------------------------------- MODULE MCWifi -------------------------------
(* One network is enough: an attempt to connect names it.                   *)
EXTENDS Wifi
CONSTANT home
MCSsids == {home}
=============================================================================
