---------------------------- MODULE MCSpeechService ----------------------------
(***************************************************************************)
(* Calls of speak: r1 of an application, subscribed; r2 of the same, with  *)
(* clear, not subscribed; r3 anonymous, subscribed, in an unknown language,*)
(* on the second display if there is one; r4 refused.  The clients stop    *)
(* everything, or what is of the application, or the message of r1.        *)
(***************************************************************************)
EXTENDS SpeechService

CONSTANTS d1, d2, r1, r2, r3, r4, app1, msg1, msg2

MCAppId == {NoId, app1}
MCMsgId == {NoId, msg1, msg2}
MCDisplayOf == [r \in Request |-> IF r = r3 /\ d2 \in Display THEN d2 ELSE d1]
MCAppOf == [r \in Request |-> IF r = r3 THEN NoId ELSE app1]
MCMsgOf == [r \in Request |-> CASE r = r1 -> msg1 [] r = r2 -> msg2 [] OTHER -> NoId]
MCClear == Request \cap {r2}
MCSubscribed == Request \cap {r1, r3}
MCBadLanguage == Request \cap {r3}
MCStopAll == {[app |-> NoId, msg |-> NoId, display |-> d1]}
MCStopSome == {[app |-> app1, msg |-> NoId, display |-> d1],
               [app |-> NoId, msg |-> msg1, display |-> d1]}
===============================================================================
