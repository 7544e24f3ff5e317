---------------------------- MODULE MCRequestQueue ----------------------------
(***************************************************************************)
(* A queue with three requests: two of one application, one of them with a *)
(* message id, and one of a client that gave no application id.            *)
(***************************************************************************)
EXTENDS RequestQueue, TLC

CONSTANTS r1, r2, r3, app1, msg1, msg2

MCRequest == {r1, r2, r3}
MCAppId == {NoId, app1}
MCMsgId == {NoId, msg1, msg2}
MCAppOf == (r1 :> app1) @@ (r2 :> app1) @@ (r3 :> NoId)
MCMsgOf == (r1 :> NoId) @@ (r2 :> msg1) @@ (r3 :> msg2)
===============================================================================
