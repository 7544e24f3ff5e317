------------------------------ MODULE MCShutdown ------------------------------
(* Two requests for the first display, and a stop of the first of them. *)
EXTENDS MCSpeechService, Shutdown

MCDisplaySeq == <<d1, d2>>
MCStopFirst == {[app |-> NoId, msg |-> msg1, display |-> d1]}
===============================================================================
