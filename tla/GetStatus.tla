------------------------------- MODULE GetStatus -------------------------------
(***************************************************************************)
(* The Luna method getStatus (src/luna/TTSLunaService.cpp).  The status is *)
(* put together from the engine handler and from the answers of two other  *)
(* services; the request object that collects it counts the answers still  *)
(* to come, and the last one sends the reply and deletes the object.       *)
(*                                                                         *)
(* All of this runs on the main loop, so the method is one step and so is  *)
(* each callback; callbacks come in any order, those of several calls      *)
(* interleaved.                                                            *)
(***************************************************************************)
EXTENDS Naturals, Sequences, FiniteSets

CONSTANTS
  Call,      \* the calls of getStatus
  Rejected,  \* those with a payload or a displayId that is refused
  Faults     \* what may go wrong: "send", "parse"

\* What is asked of other services: handle_getVolume_callback and
\* handle_getSettings_callback take the answers.
Query == {"volume", "settings"}

VARIABLES
  object,       \* the GetStatusRequest of each call
  count,        \* its reference count, a uint8_t
  error,        \* its error flag
  outstanding,  \* the queries whose answer is still to come
  replied,      \* the replies to the client: was it a status, or an error?
  unsent,       \* the queries LSCallOneReply could not send
  unparsed      \* the queries whose answer did not parse

statusVars == <<object, count, error, outstanding, replied, unsent, unparsed>>

Init ==
  /\ object = [c \in Call |-> "none"]
  /\ count = [c \in Call |-> 0]
  /\ error = [c \in Call |-> FALSE]
  /\ outstanding = [c \in Call |-> {}]
  /\ replied = [c \in Call |-> <<>>]
  /\ unsent = [c \in Call |-> {}]
  /\ unparsed = [c \in Call |-> {}]

New(c) == object[c] = "none" /\ replied[c] = <<>>

Refuse(c) ==
  /\ New(c)
  /\ c \in Rejected
  /\ replied' = [replied EXCEPT ![c] = <<FALSE>>]
  /\ UNCHANGED <<object, count, error, outstanding, unsent, unparsed>>

\* ref() comes before each LSCallOneReply, and is not undone if that fails.
MutantRefsOnce == 1
MutantRefsItself == 3
RefsTaken == 2

Ask(c, failed) ==
  /\ New(c)
  /\ c \notin Rejected
  /\ object' = [object EXCEPT ![c] = "live"]
  /\ count' = [count EXCEPT ![c] = RefsTaken]
  /\ unsent' = [unsent EXCEPT ![c] = failed]
  /\ outstanding' = [outstanding EXCEPT ![c] = Query \ failed]
  /\ UNCHANGED <<error, replied, unparsed>>

MutantForgetsError(c, parsed) == parsed
StatusOf(c, parsed) == parsed /\ ~error[c]

(***************************************************************************)
(* finalize_getstatus_request: the last answer sends the reply and deletes *)
(* the object; an earlier one that failed leaves its mark in the object.   *)
(***************************************************************************)
Finalize(c, status) ==
  /\ count' = [count EXCEPT ![c] = (@ + 255) % 256]
  /\ IF count'[c] = 0
     THEN /\ replied' = [replied EXCEPT ![c] = Append(@, status)]
          /\ object' = [object EXCEPT ![c] = "deleted"]
          /\ UNCHANGED error
     ELSE /\ error' = [error EXCEPT ![c] = @ \/ ~status]
          /\ UNCHANGED <<replied, object>>

Answer(c, q, parsed) ==
  /\ q \in outstanding[c]
  /\ outstanding' = [outstanding EXCEPT ![c] = @ \ {q}]
  /\ unparsed' = IF parsed THEN unparsed
                 ELSE [unparsed EXCEPT ![c] = @ \cup {q}]
  /\ Finalize(c, StatusOf(c, parsed))
  /\ UNCHANGED unsent

Answered(c) ==
  \E q \in Query :
    \/ Answer(c, q, TRUE)
    \/ "parse" \in Faults /\ Answer(c, q, FALSE)

CallStep(c) ==
  \/ Refuse(c)
  \/ Ask(c, {})
  \/ "send" \in Faults /\ \E failed \in (SUBSET Query) \ {{}} : Ask(c, failed)
  \/ Answered(c)

Next == \E c \in Call : CallStep(c)

Spec == Init /\ [][Next]_statusVars

-------------------------------------------------------------------------------
TypeOK ==
  /\ object \in [Call -> {"none", "live", "deleted"}]
  /\ count \in [Call -> 0..2]
  /\ error \in [Call -> BOOLEAN]
  /\ outstanding \in [Call -> SUBSET Query]
  /\ replied \in [Call -> Seq(BOOLEAN)]
  /\ unsent \in [Call -> SUBSET Query]
  /\ unparsed \in [Call -> SUBSET Query]

(***************************************************************************)
(* No callback comes for an object that was deleted, and the object is     *)
(* deleted with the one reply to the client, never before or after it.     *)
(***************************************************************************)
DeletedWithReply ==
  \A c \in Call :
    /\ outstanding[c] # {} => object[c] = "live"
    /\ Len(replied[c]) <= 1
    /\ object[c] = "deleted" <=> replied[c] # <<>> /\ c \notin Rejected

\* The fields of the status that a callback has set; the others hold garbage.
Filled(c) == Query \ (unsent[c] \cup outstanding[c] \cup unparsed[c])

(***************************************************************************)
(* The client gets a status exactly if both answers parsed, whichever of   *)
(* them came first, and then both callbacks have set their field: the      *)
(* constructor of TTSStatus leaves the volume uninitialized.               *)
(***************************************************************************)
FailureIsReported ==
  \A c \in Call \ Rejected : \A i \in 1..Len(replied[c]) :
    replied[c][i] <=> Filled(c) = Query

(***************************************************************************)
(* What makes the two inductive: the reference count is the number of      *)
(* queries that have not been answered, those that could not be sent       *)
(* included; the mark in a live object says whether an answer that came    *)
(* did not parse; and nothing is pending without a live object.            *)
(***************************************************************************)
Pending(c) == outstanding[c] \cup unsent[c]

Counted ==
  \A c \in Call :
    /\ count[c] = Cardinality(Pending(c))
    /\ outstanding[c] \cap unsent[c] = {} /\ unparsed[c] \cap Pending(c) = {}
    /\ Pending(c) # {} <=> object[c] = "live"

SaidSoFar ==
  \A c \in Call :
    /\ c \in Rejected => object[c] = "none"
    /\ object[c] = "none" => unparsed[c] = {} /\ ~error[c]
    /\ object[c] # "deleted" /\ c \notin Rejected => replied[c] = <<>>
    /\ object[c] = "live" => (error[c] <=> unparsed[c] # {})
    /\ object[c] = "deleted" => (replied[c][1] <=> unparsed[c] = {})

StatusInv ==
  TypeOK /\ Counted /\ SaidSoFar /\ DeletedWithReply /\ FailureIsReported
===============================================================================
