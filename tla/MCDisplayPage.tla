---------------------------- MODULE MCDisplayPage ----------------------------
(* Two connectors, with two modes each.                                     *)
EXTENDS DisplayPage
CONSTANTS dp, hdmi, native, low
MCOutputs == {dp, hdmi}
MCModes   == {native, low}
=============================================================================

