--------------------------- MODULE RequestLifecycle ---------------------------
(***************************************************************************)
(* What a request queue of the service promises to the requests given to   *)
(* it: a request is accepted once, waits in FIFO order, and is then either *)
(* executed, one at a time, or cancelled while it waits, never both.  The  *)
(* threads, the mutex and the condition variable that make this happen are *)
(* not visible here; RequestQueue is shown to implement this module.       *)
(***************************************************************************)
EXTENDS Naturals, Sequences, SequencesExt

CONSTANTS
  Request,    \* the requests the callers may hand over
  NoRequest   \* no request, and none of Request

VARIABLES
  pending,    \* the accepted requests that wait, oldest first
  active,     \* the request being executed, or NoRequest
  fate,       \* what has become of each request
  open        \* may execution of a waiting request begin?

lvars == <<pending, active, fate, open>>

Fate == {"new", "queued", "running", "executed", "cancelled"}

Init ==
  /\ pending = <<>>
  /\ active = NoRequest
  /\ fate = [r \in Request |-> "new"]
  /\ open = FALSE

\* The queue is started (Open) or told to stop (Close).
Open  == ~open /\ open' = TRUE /\ UNCHANGED <<pending, active, fate>>
Close == open /\ open' = FALSE /\ UNCHANGED <<pending, active, fate>>

Accept(r) ==
  /\ fate[r] = "new"
  /\ pending' = Append(pending, r)
  /\ fate' = [fate EXCEPT ![r] = "queued"]
  /\ UNCHANGED <<active, open>>

Begin ==
  /\ open
  /\ active = NoRequest
  /\ pending # <<>>
  /\ active' = Head(pending)
  /\ pending' = Tail(pending)
  /\ fate' = [fate EXCEPT ![Head(pending)] = "running"]
  /\ UNCHANGED open

Finish ==
  /\ active # NoRequest
  /\ active' = NoRequest
  /\ fate' = [fate EXCEPT ![active] = "executed"]
  /\ UNCHANGED <<pending, open>>

Cancel(i) ==
  /\ pending' = RemoveAt(pending, i)
  /\ fate' = [fate EXCEPT ![pending[i]] = "cancelled"]
  /\ UNCHANGED <<active, open>>

Next ==
  \/ Open
  \/ Close
  \/ \E r \in Request : Accept(r)
  \/ Begin
  \/ Finish
  \/ \E i \in 1..Len(pending) : Cancel(i)

Safety == Init /\ [][Next]_lvars

(***************************************************************************)
(* Nothing that may be started waits for ever, and what was started ends.  *)
(***************************************************************************)
Spec == Safety /\ WF_lvars(Begin) /\ WF_lvars(Finish)
===============================================================================
