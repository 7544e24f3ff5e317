-------------------------------- MODULE QueueOps --------------------------------
(***************************************************************************)
(* What a queue is after requests have been taken out of the middle of it. *)
(***************************************************************************)
EXTENDS Naturals, Sequences

\* removeRequest and clearQueue scan front to back and erase as they go.
Without(queue, some) ==
  LET Left[n \in 0..Len(queue)] ==
        IF n = 0 THEN <<>>
        ELSE IF queue[n] \in some THEN Left[n - 1]
        ELSE Append(Left[n - 1], queue[n])
  IN  Left[Len(queue)]
===============================================================================
