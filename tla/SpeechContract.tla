---------------------------- MODULE SpeechContract ----------------------------
(***************************************************************************)
(* What the service promises about speech, seen without its threads: every *)
(* display speaks one request at a time, in the order the requests were    *)
(* accepted; a waiting request may be cancelled, alone or with others, and *)
(* is then never spoken; nothing that is spoken is spoken again; and on a  *)
(* display nothing waits, or is spoken, for ever.                          *)
(***************************************************************************)
EXTENDS Sequences, SequencesExt, QueueOps

CONSTANTS Display, Request, NoRequest, DisplayOf

VARIABLES
  waiting,    \* the accepted requests of each display, oldest first
  now,        \* what each display speaks
  fate        \* what has become of each request

cvars == <<waiting, now, fate>>

Init ==
  /\ waiting = [d \in Display |-> <<>>]
  /\ now = [d \in Display |-> NoRequest]
  /\ fate = [r \in Request |-> "new"]

Refuse(r) ==
  /\ fate[r] = "new"
  /\ fate' = [fate EXCEPT ![r] = "refused"]
  /\ UNCHANGED <<waiting, now>>

Accept(r) ==
  /\ fate[r] = "new"
  /\ waiting' = [waiting EXCEPT ![DisplayOf[r]] = Append(@, r)]
  /\ fate' = [fate EXCEPT ![r] = "waiting"]
  /\ UNCHANGED now

Cancel(d, some) ==
  /\ waiting' = [waiting EXCEPT ![d] = Without(@, some)]
  /\ fate' = [r \in Request |-> IF r \in some THEN "cancelled" ELSE fate[r]]
  /\ UNCHANGED now

Begin(d) ==
  /\ now[d] = NoRequest
  /\ waiting[d] # <<>>
  /\ now' = [now EXCEPT ![d] = Head(waiting[d])]
  /\ waiting' = [waiting EXCEPT ![d] = Tail(@)]
  /\ fate' = [fate EXCEPT ![Head(waiting[d])] = "spoken"]

End(d) ==
  /\ now[d] # NoRequest
  /\ now' = [now EXCEPT ![d] = NoRequest]
  /\ fate' = [fate EXCEPT ![now[d]] = "over"]
  /\ UNCHANGED waiting

Next ==
  \/ \E r \in Request : Refuse(r) \/ Accept(r)
  \/ \E d \in Display :
       \/ \E some \in (SUBSET ToSet(waiting[d])) \ {{}} : Cancel(d, some)
       \/ Begin(d)
       \/ End(d)

Safety == Init /\ [][Next]_cvars

Spec == Safety /\ \A d \in Display : WF_cvars(Begin(d)) /\ WF_cvars(End(d))
===============================================================================
