------------------------------- MODULE Shutdown -------------------------------
(***************************************************************************)
(* The life of the process around SpeechService: main runs the main loop   *)
(* until SIGTERM, and the destructor of TTSLunaService then has            *)
(* RequestHandler::stop stop the four queues one after the other.  Stopping*)
(* a queue tells its dispatcher to quit and joins it: the request it is at *)
(* is finished, those that still wait are left where they are.             *)
(*                                                                         *)
(* How a dispatcher can sleep through the notify of stop() is the business *)
(* of RequestQueue; here it may do so whenever it has nothing to do.       *)
(***************************************************************************)
EXTENDS SpeechService

CONSTANTS
  DisplaySeq,  \* the displays in the order of their queues
  MaxFetches   \* bound on the lists of languages that are fetched

ASSUME ShutdownAssumption ==
  /\ DisplaySeq \in Seq(Display) /\ IsInjective(DisplaySeq)
  /\ Range(DisplaySeq) = Display /\ Display # {}
  /\ MaxFetches \in Nat

VARIABLES
  phase,     \* where main is: "init", "loop", "fetch", "quit", "join", "delete",
             \* "ended"
  fetches,   \* how many lists of languages were fetched
  quitting,  \* has g_main_loop_quit been called?
  at,        \* the position in StopOrder of the queue that is stopped
  quit,      \* the queues with mQuit set
  exited,    \* the queues whose dispatcher thread has ended
  missed     \* the queues whose dispatcher has missed the notify of stop()

processVars == <<phase, fetches, quitting, at, quit, exited, missed>>
allVars == <<vars, processVars>>

\* The speak queue of a display comes before its control queue.
MutantControlFirst ==
  [i \in 1..(2 * Len(DisplaySeq)) |->
     <<IF i % 2 = 0 THEN "speak" ELSE "control", DisplaySeq[(i + 1) \div 2]>>]
StopOrder ==
  [i \in 1..(2 * Len(DisplaySeq)) |->
     <<IF i % 2 = 1 THEN "speak" ELSE "control", DisplaySeq[(i + 1) \div 2]>>]

QueueAt == StopOrder[at]

ProcessInit ==
  /\ Init
  /\ phase = "init"
  /\ fetches = 0
  /\ quitting = FALSE
  /\ at = 1
  /\ quit = {}
  /\ exited = {}
  /\ missed = {}

-------------------------------------------------------------------------------
(* The main thread *)

StartService ==
  /\ phase = "init"
  /\ Start
  /\ UNCHANGED processVars

RunLoop ==
  /\ phase = "init"
  /\ mpc # "boot"
  /\ phase' = "loop"
  /\ UNCHANGED <<vars, fetches, quitting, at, quit, exited, missed>>

\* term_handler: before the loop runs a signal does nothing.
Signal ==
  /\ phase \in {"loop", "fetch"}
  /\ quitting' = TRUE
  /\ UNCHANGED <<vars, phase, fetches, at, quit, exited, missed>>

ServeCall ==
  /\ phase = "loop"
  /\ MainContinues
  /\ UNCHANGED processVars

\* A call that is being served is finished first; then the destructor runs.
LoopEnds ==
  /\ phase = "loop"
  /\ quitting
  /\ mpc = "idle"
  /\ phase' = "quit"
  /\ UNCHANGED <<vars, fetches, quitting, at, quit, exited, missed>>

IdleThread(q) == IF q[1] = "speak" THEN hpc[q[2]] = "idle" ELSE kpc[q[2]] = "idle"
Waiting(q) == IF q[1] = "speak" THEN speakQueue[q[2]] ELSE controlQueue[q[2]]

MutantForgetsQuit == quit
QuitAfterStop == quit \cup {QueueAt}

StopQueue ==
  /\ phase = "quit"
  /\ phase' = "join"
  /\ quit' = QuitAfterStop
  /\ \E sleeps \in BOOLEAN :
       /\ sleeps => IdleThread(QueueAt) /\ Waiting(QueueAt) = <<>>
       /\ missed' = IF sleeps THEN missed \cup {QueueAt} ELSE missed
  /\ UNCHANGED <<vars, fetches, quitting, at, exited>>

MutantDetaches == TRUE
Joined == QueueAt \in exited

JoinQueue ==
  /\ phase = "join"
  /\ Joined
  /\ IF at = Len(StopOrder)
     THEN phase' = "delete" /\ UNCHANGED at
     ELSE phase' = "quit" /\ at' = at + 1
  /\ UNCHANGED <<vars, fetches, quitting, quit, exited, missed>>

\* The queues, the engines and the bus handle go; main returns.
Delete ==
  /\ phase = "delete"
  /\ phase' = "ended"
  /\ UNCHANGED <<vars, fetches, quitting, at, quit, exited, missed>>

Main ==
  \/ StartService
  \/ RunLoop
  \/ ServeCall
  \/ LoopEnds
  \/ StopQueue
  \/ JoinQueue
  \/ Delete

-------------------------------------------------------------------------------
(* The dispatchers *)

Serves(q) == q \notin quit

MutantQuitsWhenEmpty(q) == IdleThread(q) /\ Waiting(q) = <<>>
AtLoopEnd(q) == IdleThread(q)

DispatcherEnds(q) ==
  /\ mpc # "boot"
  /\ q \in quit \ (exited \cup missed)
  /\ AtLoopEnd(q)
  /\ exited' = exited \cup {q}
  /\ UNCHANGED <<vars, phase, fetches, quitting, at, quit, missed>>

Speaker(d) ==
  \/ /\ \/ Serves(<<"speak", d>>) /\ TakeSpeak(d)
        \/ SpeakThread(d)
     /\ UNCHANGED processVars
  \/ DispatcherEnds(<<"speak", d>>)

Controller(d) ==
  \/ /\ \/ Serves(<<"control", d>>) /\ TakeStop(d)
        \/ StopMarks(d)
        \/ StopFlags(d)
     /\ UNCHANGED processVars
  \/ DispatcherEnds(<<"control", d>>)

VoiceServer(d) == Server(d) /\ UNCHANGED processVars

-------------------------------------------------------------------------------
(* The clients.  getAvailableLanguages blocks the main loop, see Queries. *)

FetchLanguages ==
  /\ phase = "loop"
  /\ mpc = "idle"
  /\ fetches < MaxFetches
  /\ fetches' = fetches + 1
  /\ phase' = "fetch"
  /\ UNCHANGED <<vars, quitting, at, quit, exited, missed>>

LanguagesFetched ==
  /\ phase = "fetch"
  /\ phase' = "loop"
  /\ UNCHANGED <<vars, fetches, quitting, at, quit, exited, missed>>

Calls ==
  /\ phase = "loop"
  /\ \/ \E r \in Request : SpeakRefused(r) \/ SpeakCalled(r)
     \/ \E call \in StopCall : StopCalled(call)
  /\ UNCHANGED processVars

Clients == Calls \/ FetchLanguages

\* main has returned, or waits for a dispatcher that has missed its notify.
AtRest ==
  /\ phase = "ended" \/ (phase = "join" /\ QueueAt \in missed)
  /\ UNCHANGED allVars

ProcessNext ==
  \/ Main
  \/ Signal
  \/ Clients
  \/ LanguagesFetched
  \/ \E d \in Display : Speaker(d) \/ Controller(d) \/ VoiceServer(d)
  \/ AtRest

(***************************************************************************)
(* The threads run.  Nobody has to send a signal or call the service, and  *)
(* the voice server need not answer.                                       *)
(***************************************************************************)
ProcessSpec ==
  /\ ProcessInit /\ [][ProcessNext]_allVars
  /\ WF_allVars(Main)
  /\ \A d \in Display : WF_allVars(Speaker(d)) /\ WF_allVars(Controller(d))

-------------------------------------------------------------------------------
ProcessTypeOK ==
  /\ TypeOK
  /\ phase \in {"init", "loop", "fetch", "quit", "join", "delete", "ended"}
  /\ fetches \in 0..MaxFetches
  /\ quitting \in BOOLEAN
  /\ at \in 1..Len(StopOrder)
  /\ exited \subseteq quit /\ missed \subseteq quit \ exited
  /\ quit = {StopOrder[i] : i \in 1..(IF phase \in {"init", "loop", "fetch", "quit"}
                                      THEN at - 1 ELSE at)}

Accepted(r) == replied[r] # <<>> /\ r \notin Rejected

(***************************************************************************)
(* When the engines and the bus handle are deleted, no thread is in        *)
(* handleRequest, where it would use them, and the clients that subscribed *)
(* have been told the end of their requests once, but for those that were  *)
(* still waiting: what ran was finished and reported first.                *)
(***************************************************************************)
OrderlyEnd ==
  phase \in {"delete", "ended"} =>
    /\ \A d \in Display : hpc[d] = "idle" /\ kpc[d] = "idle"
    /\ \A r \in Subscribed \ BadLanguage :
         Accepted(r) /\ DisplayOf[r] \in Loaded =>
           EndsTold(r) = IF Queued(r) THEN 0 ELSE 1

(***************************************************************************)
(* What makes the two inductive: an accepted request waits, was cancelled  *)
(* or was taken by its dispatcher; a dispatcher that has ended stays at    *)
(* its loop; and the queues before the one that is stopped were joined.    *)
(***************************************************************************)
AcceptedIsSomewhere ==
  \A r \in Request \ (Rejected \cup BadLanguage) :
    replied[r] # <<>> \/ (mpc = "reply" /\ r = speaking) =>
      r \in handled \cup cancelled \/ Queued(r)

EndedIsIdle == \A q \in exited : IdleThread(q)

JoinedSoFar ==
  /\ \A i \in 1..(at - 1) : StopOrder[i] \in exited
  /\ phase \in {"delete", "ended"} => at = Len(StopOrder) /\ QueueAt \in exited

ProcessInv ==
  /\ ServiceInv /\ ProcessTypeOK
  /\ AcceptedIsSomewhere /\ EndedIsIdle /\ JoinedSoFar

(***************************************************************************)
(* A SIGTERM that reaches the running main loop ends the process, whatever *)
(* the loop is at, if the voice server answers and no dispatcher misses    *)
(* the notify of stop().                                                   *)
(***************************************************************************)
SigtermEndsProcess ==
  (WF_allVars(LanguagesFetched) /\ \A d \in Display : WF_allVars(VoiceServer(d))) =>
    (quitting ~> (phase = "ended" \/ missed # {}))

(***************************************************************************)
(* A stop that was queued before SIGTERM is still obeyed while the speak   *)
(* queue is joined: it ends the synthesis the join waits for, although the *)
(* voice server never answers.                                             *)
(***************************************************************************)
QueuedStopEndsJoin ==
  \A d \in Display :
    (/\ phase = "join" /\ QueueAt = <<"speak", d>>
     /\ hpc[d] = "synthesis" /\ spc[d] # "idle"
     /\ controlQueue[d] # <<>>)
      ~> hpc[d] # "synthesis"
===============================================================================
