---------------------------- MODULE MCAftrReload ----------------------------
(* Small instances of AftrReload for TLC: model values.                     *)
EXTENDS AftrReloadConfig

CONSTANTS e1, e2

MCEntry1 == {e1}
MCEntry2 == {e1, e2}
=============================================================================
