---------------------------- MODULE MCEngineHandler ----------------------------
(***************************************************************************)
(* Two requests, both subscribed, the second in an unknown language; the   *)
(* second display has no engines.                                          *)
(***************************************************************************)
EXTENDS EngineHandler

CONSTANTS d1, d2, r1, r2

MCDisplay == {d1, d2}
MCRequest == {r1, r2}
MCSubscribed == {r1, r2}
MCBadLanguage == {r2}
MCLoaded == {d1}
===============================================================================
