--------------------------- MODULE MCGoogleTTSEngine ---------------------------
(* One engine, two texts; the network and the file system may fail. *)
EXTENDS GoogleTTSEngine

CONSTANTS d1, r1, r2

MCDisplay == {d1}
MCSpeech == {r1, r2}
===============================================================================
