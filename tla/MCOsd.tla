------------------------------- MODULE MCOsd -------------------------------
(* A laptop panel and a headless output without modes.                      *)
EXTENDS Osd
CONSTANTS edp, headless, volume
MCOutputs  == {edp, headless}
MCInternal == {edp}
MCModeless == {headless}
MCNotices  == {volume}
=============================================================================

