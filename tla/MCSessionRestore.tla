-------------------------- MODULE MCSessionRestore --------------------------
(* Two connectors; two monitors of one model collide, a third is distinct.  *)
(* Profiles: the twins, the mixed pair (one output off), the lone twin, and *)
(* a profile that enables nothing.                                          *)
EXTENDS SessionRestore

CONSTANTS c1, c2, twin, other, native, low

MCConnectors == {c1, c2}
MCMonitors   == {twin, other}
MCModes      == {native, low}

Profile(states) == [outputs |-> DOMAIN states, states |-> states]

TwinsProfile == Profile([id \in {<<twin, c1>>, <<twin, c2>>} |->
                           IF id = <<twin, c1>> THEN native ELSE low])
MixedProfile == Profile([id \in {<<twin>>, <<other>>} |->
                           IF id = <<twin>> THEN "off" ELSE low])
LoneProfile  == Profile([id \in {<<twin>>} |-> low])
BlankProfile == Profile([id \in {<<other>>} |-> "off"])

MCProfiles == {TwinsProfile, MixedProfile, LoneProfile, BlankProfile}
=============================================================================

