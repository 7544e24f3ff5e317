----------------------------- MODULE SpeechService -----------------------------
(***************************************************************************)
(* The service from a client's call to the end of the speech:              *)
(*   - the main loop thread runs the Luna methods speak and stop of        *)
(*     TTSLunaService, one call at a time, and RequestHandler::sendRequest *)
(*     inside them;                                                        *)
(*   - every display has a speak queue and a control queue, each with its  *)
(*     dispatcher thread, which run EngineHandler::handleRequest.          *)
(* The queues are those of RequestQueue seen from outside: a request is    *)
(* appended, the front one is taken, and a clearQueue or a removeRequest,  *)
(* which hold the queue's mutex for their whole scan, is one step.         *)
(***************************************************************************)
EXTENDS Naturals, Sequences, SequencesExt, FiniteSets, QueueOps

CONSTANTS
  Display,     \* the displays
  Request,     \* the calls of speak
  NoRequest,   \* no request
  Broken,      \* a PCM file that holds no request's audio, see GoogleTTSEngine
  AppId,       \* application ids, the empty one included
  MsgId,       \* message ids, the empty one included
  NoId,        \* the empty string as an id
  DisplayOf,   \* the displayId of each speak call
  AppOf,       \* its appID
  MsgOf,       \* the msgID the service makes for it
  Clear,       \* the calls with "clear"
  Subscribed,  \* the calls with "subscribe"
  BadLanguage, \* the calls whose language is not in the table
  Rejected,    \* the calls whose arguments are refused
  StopCall,    \* the calls of stop clients make: [app, msg, display]
  MaxStops,    \* bound on the stop calls
  Loaded,      \* the displays whose engines loadEngine created
  Faults,      \* what may go wrong in the engines
  MaxChunks, MaxLeaks

ASSUME ServiceAssumption ==
  /\ NoRequest \notin Request
  /\ Broken \notin Request \cup {NoRequest}
  /\ NoId \in AppId \cap MsgId
  /\ DisplayOf \in [Request -> Display]
  /\ AppOf \in [Request -> AppId]
  /\ MsgOf \in [Request -> MsgId]
  /\ Clear \cup Subscribed \cup BadLanguage \cup Rejected \subseteq Request
  /\ StopCall \subseteq [app : AppId, msg : MsgId, display : Display]
  /\ MaxStops \in Nat
  /\ Loaded \subseteq Display
  /\ MaxChunks \in Nat /\ MaxLeaks \in Nat

VARIABLES
  spc, text, mIsStop, rpc, tag, gStatus, ttsRet, pcm,           \* speech engines
  ppc, mIsStopPlay, left, fds, streams, failures, late,         \* audio engines
  info, hpc, running, eStatus, taskStatus, kpc, aim,            \* EngineHandler
  handled, notified, marked, flagged, silenced,
  mpc,          \* where the main thread is in a call
  speaking,     \* the speak call it serves
  stopping,     \* the stop call it serves
  found,        \* the running request a clear or a stop has found to stop
  speakQueue,   \* mSpeakRequestQueueDisplay1 and 2
  controlQueue, \* mControlRequestQueueDisplay1 and 2: whose clear queued each stop
  clearing,     \* whose clear queued the stop the control thread handles
  replied,      \* what the main thread has sent each client, in order
  cancelled,    \* the requests taken out of a speak queue, not executed
  cutByClear,   \* the requests marked or cut by the stop of a clear: <<clear, request>>
  stops         \* how many stop calls there were

googleVars == <<spc, text, mIsStop, rpc, tag, gStatus, ttsRet, pcm>>
pulseVars == <<ppc, mIsStopPlay, left, fds, streams, failures, late>>
historyVars == <<handled, notified, marked, flagged, silenced>>
handlerVars == <<googleVars, pulseVars, info, hpc, running, eStatus, taskStatus,
                 kpc, aim, historyVars>>
mainVars == <<mpc, speaking, stopping, found, replied, cancelled, stops>>
controlVars == <<controlQueue, clearing, cutByClear>>
vars == <<handlerVars, mainVars, speakQueue, controlVars>>

Handler == INSTANCE EngineHandler

NoStop == [app |-> NoId, msg |-> NoId, display |-> NoId]
NoInfo == Handler!NoInfo

Init ==
  /\ Handler!Init
  /\ mpc = "boot"
  /\ speaking = NoRequest
  /\ stopping = NoStop
  /\ found = NoRequest
  /\ speakQueue = [d \in Display |-> <<>>]
  /\ controlQueue = [d \in Display |-> <<>>]
  /\ clearing = [d \in Display |-> NoRequest]
  /\ replied = [r \in Request |-> <<>>]
  /\ cancelled = {}
  /\ cutByClear = {}
  /\ stops = 0

Tell(r, message) == replied' = [replied EXCEPT ![r] = Append(@, message)]

\* The queues are started: the dispatchers and the Luna methods are served.
Start ==
  /\ mpc = "boot"
  /\ mpc' = "idle"
  /\ UNCHANGED <<handlerVars, speaking, stopping, found, replied, cancelled, stops,
                 speakQueue, controlVars>>

-------------------------------------------------------------------------------
(* speak, on the main thread *)

New(r) == replied[r] = <<>> /\ r # speaking

\* A payload that does not parse, a bad displayId, an empty text.
SpeakRefused(r) ==
  /\ mpc = "idle"
  /\ New(r)
  /\ r \in Rejected
  /\ Tell(r, "error")
  /\ UNCHANGED <<handlerVars, mpc, speaking, stopping, found, cancelled, stops,
                 speakQueue, controlVars>>

\* addParameters answers an unknown language with an error and goes on.
SpeakCalled(r) ==
  /\ mpc = "idle"
  /\ New(r)
  /\ r \notin Rejected
  /\ replied' = IF r \in BadLanguage THEN [replied EXCEPT ![r] = <<"LANG_ERR">>]
                ELSE replied
  /\ speaking' = r
  /\ mpc' = IF r \in Clear THEN "clear_check" ELSE "enqueue"
  /\ UNCHANGED <<handlerVars, stopping, found, cancelled, stops, speakQueue, controlVars>>

Here == DisplayOf[speaking]

PlaysHere == info[Here] # NoInfo /\ info[Here].msgStatus = "PLAY"

MutantOnlyEmpties == "clear_queue"
AfterClearCheck == IF PlaysHere THEN "clear_stop" ELSE "clear_queue"

ClearReadsInfo ==
  /\ mpc = "clear_check"
  /\ found' = info[Here].req
  /\ mpc' = AfterClearCheck
  /\ UNCHANGED <<handlerVars, speaking, stopping, replied, cancelled, stops,
                 speakQueue, controlVars>>

\* stopSpeech queues a stop for whatever will run when it is handled.
ClearQueuesStop ==
  /\ mpc = "clear_stop"
  /\ controlQueue' = [controlQueue EXCEPT ![Here] = Append(@, speaking)]
  /\ mpc' = "clear_mark"
  /\ UNCHANGED <<handlerVars, speaking, stopping, found, replied, cancelled, stops,
                 speakQueue, clearing, cutByClear>>

ClearMarks ==
  /\ mpc = "clear_mark"
  /\ Handler!MarkByClear(Here)
  /\ mpc' = "clear_queue"
  /\ UNCHANGED <<speaking, stopping, found, replied, cancelled, stops, speakQueue,
                 controlVars>>

(***************************************************************************)
(* Unlike handleRequest, setRequestStatus answers the client of every      *)
(* request of the set, but responseCallback names the status to those that *)
(* subscribed only, and to one in an unknown language repeats the error.   *)
(***************************************************************************)
CancelAll(some) ==
  /\ cancelled' = cancelled \cup some
  /\ replied' = [r \in Request |->
                   IF r \in some THEN Append(replied[r], Handler!Response(r, "CANCEL"))
                   ELSE replied[r]]

MutantKeepsQueue == speakQueue
ClearedQueue == [speakQueue EXCEPT ![Here] = <<>>]

ClearEmptiesQueue ==
  /\ mpc = "clear_queue"
  /\ CancelAll(ToSet(speakQueue[Here]))
  /\ speakQueue' = ClearedQueue
  /\ mpc' = "enqueue"
  /\ UNCHANGED <<handlerVars, speaking, stopping, found, stops, controlVars>>

Enqueue ==
  /\ mpc = "enqueue"
  /\ speakQueue' = [speakQueue EXCEPT ![Here] = Append(@, speaking)]
  /\ found' = NoRequest
  /\ mpc' = "reply"
  /\ UNCHANGED <<handlerVars, speaking, stopping, replied, cancelled, stops, controlVars>>

Running(r) == \E d \in Display : running[d] = r
Over(r) == r \in handled /\ ~Running(r)

(***************************************************************************)
(* The answer to the call is sent after the request was handed over.  It   *)
(* is put together from the parameter block of the request, which the      *)
(* dispatcher deletes with it: what it says by then is undefined.          *)
(***************************************************************************)
SpeakReplies ==
  /\ mpc = "reply"
  /\ \E reply \in {"accepted"} \cup (IF Over(speaking) THEN {"garbled"} ELSE {}) :
       Tell(speaking, reply)
  /\ speaking' = NoRequest
  /\ mpc' = "idle"
  /\ UNCHANGED <<handlerVars, stopping, found, cancelled, stops, speakQueue, controlVars>>

-------------------------------------------------------------------------------
(* stop, on the main thread *)

Everything(call) == call.app = NoId /\ call.msg = NoId

\* CheckToStopRunningSpeak
StopsRunning(call, r) ==
  \/ Everything(call)
  \/ call.msg # NoId /\ call.msg = MsgOf[r]
  \/ call.app # NoId /\ call.app = AppOf[r]

(***************************************************************************)
(* removeRequest: a match by message id ends the scan; otherwise the app   *)
(* ids are compared, empty or not.                                         *)
(***************************************************************************)
Scanned(queue, call) ==
  {i \in 1..Len(queue) :
     \A j \in 1..(i - 1) : call.msg = NoId \/ MsgOf[queue[j]] # call.msg}

Removed(queue, call) ==
  IF Everything(call) THEN ToSet(queue)
  ELSE {queue[i] : i \in {j \in Scanned(queue, call) :
                            \/ call.msg # NoId /\ MsgOf[queue[j]] = call.msg
                            \/ AppOf[queue[j]] = call.app}}

StopCalled(call) ==
  /\ mpc = "idle"
  /\ stops < MaxStops
  /\ stops' = stops + 1
  /\ stopping' = call
  /\ LET entry == info[call.display] IN
     IF entry # NoInfo /\ StopsRunning(call, entry.req)
     THEN found' = entry.req /\ mpc' = "stop_control"
     ELSE found' = NoRequest /\ mpc' = "stop_queue"
  /\ UNCHANGED <<handlerVars, speaking, replied, cancelled, speakQueue, controlVars>>

StopQueuesControl ==
  /\ mpc = "stop_control"
  /\ controlQueue' = [controlQueue EXCEPT ![stopping.display] = Append(@, NoRequest)]
  /\ mpc' = "stop_queue"
  /\ UNCHANGED <<handlerVars, speaking, stopping, found, replied, cancelled, stops,
                 speakQueue, clearing, cutByClear>>

MutantKeepsAll(queue, call) == queue
Kept(queue, call) == Without(queue, Removed(queue, call))

\* Does this stop answer that it has found nothing to stop?
NothingFound ==
  /\ found = NoRequest
  /\ ~Everything(stopping)
  /\ Removed(speakQueue[stopping.display], stopping) = {}

StopRemoves ==
  /\ mpc = "stop_queue"
  /\ CancelAll(Removed(speakQueue[stopping.display], stopping))
  /\ speakQueue' = [speakQueue EXCEPT ![stopping.display] = Kept(@, stopping)]
  /\ stopping' = NoStop
  /\ found' = NoRequest
  /\ mpc' = "idle"
  /\ UNCHANGED <<handlerVars, speaking, stops, controlVars>>

-------------------------------------------------------------------------------
(* The dispatchers *)

MutantTakesLast(d) == Last(speakQueue[d])
NextToSpeak(d) == Head(speakQueue[d])

TakeSpeak(d) ==
  /\ mpc # "boot"
  /\ speakQueue[d] # <<>>
  /\ Handler!HandleSpeak(d, NextToSpeak(d))
  /\ speakQueue' = [speakQueue EXCEPT ![d] = Tail(@)]
  /\ UNCHANGED <<mainVars, controlVars>>

TakeStop(d) ==
  /\ mpc # "boot"
  /\ controlQueue[d] # <<>>
  /\ Handler!HandleStop(d)
  /\ clearing' = [clearing EXCEPT ![d] = IF kpc'[d] = "mark" THEN Head(controlQueue[d])
                                          ELSE NoRequest]
  /\ controlQueue' = [controlQueue EXCEPT ![d] = Tail(@)]
  /\ UNCHANGED <<mainVars, speakQueue, cutByClear>>

SpeakThread(d) ==
  Handler!SpeakThread(d) /\ UNCHANGED <<mainVars, speakQueue, controlVars>>

ClearCuts(d, r) ==
  cutByClear' = IF clearing[d] # NoRequest /\ r # NoRequest
                THEN cutByClear \cup {<<clearing[d], r>>}
                ELSE cutByClear

StopMarks(d) ==
  /\ Handler!MarkStop(d)
  /\ ClearCuts(d, info[d].req)
  /\ UNCHANGED <<mainVars, speakQueue, controlQueue, clearing>>

StopFlags(d) ==
  /\ Handler!StopTts(d) \/ Handler!StopAudio(d)
  /\ ClearCuts(d, IF Handler!CutShort(d)' THEN running[d] ELSE NoRequest)
  /\ clearing' = [clearing EXCEPT ![d] = IF kpc'[d] = "idle" THEN NoRequest ELSE @]
  /\ UNCHANGED <<mainVars, speakQueue, controlQueue>>

Server(d) == Handler!Server(d) /\ UNCHANGED <<mainVars, speakQueue, controlVars>>

-------------------------------------------------------------------------------
MainContinues ==
  \/ Start
  \/ ClearReadsInfo
  \/ ClearQueuesStop
  \/ ClearMarks
  \/ ClearEmptiesQueue
  \/ Enqueue
  \/ SpeakReplies
  \/ StopQueuesControl
  \/ StopRemoves

SpeakDispatcher(d) == TakeSpeak(d) \/ SpeakThread(d)
ControlDispatcher(d) == TakeStop(d) \/ StopMarks(d) \/ StopFlags(d)

\* The clients have nothing more to ask, and all is done.
Quiet ==
  /\ mpc = "idle"
  /\ \A d \in Display : speakQueue[d] = <<>> /\ controlQueue[d] = <<>>
  /\ \A d \in Display : hpc[d] = "idle" /\ kpc[d] = "idle"
  /\ UNCHANGED vars

Next ==
  \/ MainContinues
  \/ \E r \in Request : SpeakRefused(r) \/ SpeakCalled(r)
  \/ \E call \in StopCall : StopCalled(call)
  \/ \E d \in Display : SpeakDispatcher(d) \/ ControlDispatcher(d) \/ Server(d)
  \/ Quiet

Spec == Init /\ [][Next]_vars

(***************************************************************************)
(* Fairness: the main loop goes on with a call it serves; the dispatcher   *)
(* threads run; the speech server answers, or its connection breaks; the   *)
(* audio server's calls return.  Nobody has to call the service.           *)
(***************************************************************************)
FairSpec ==
  /\ Spec
  /\ WF_vars(MainContinues)
  /\ \A d \in Display :
       WF_vars(SpeakDispatcher(d)) /\ WF_vars(ControlDispatcher(d)) /\ WF_vars(Server(d))

-------------------------------------------------------------------------------
ServiceTypeOK ==
  /\ mpc \in {"boot", "idle", "clear_check", "clear_stop", "clear_mark", "clear_queue",
              "enqueue", "reply", "stop_control", "stop_queue"}
  /\ speaking \in Request \cup {NoRequest}
  /\ stopping \in StopCall \cup {NoStop}
  /\ found \in Request \cup {NoRequest}
  /\ speakQueue \in [Display -> Seq(Request)]
  /\ controlQueue \in [Display -> Seq(Request \cup {NoRequest})]
  /\ clearing \in [Display -> Request \cup {NoRequest}]
  /\ replied \in [Request -> Seq({"accepted", "garbled", "error", "LANG_ERR", "CANCEL",
                                   "no_status"})]
  /\ cancelled \subseteq Request
  /\ cutByClear \subseteq Request \X Request
  /\ stops \in 0..MaxStops

TypeOK == Handler!TypeOK /\ ServiceTypeOK

TimesToldCancelled(r) ==
  Cardinality({i \in 1..Len(replied[r]) : replied[r][i] = "CANCEL"})
Queued(r) == \E d \in Display : \E i \in 1..Len(speakQueue[d]) : speakQueue[d][i] = r

\* The ends of its request a client is told of, by either thread.
EndsTold(r) ==
  TimesToldCancelled(r) + Cardinality({i \in 1..Len(notified[r]) : notified[r][i] # "LANG_ERR"})

(***************************************************************************)
(* A request ends once and its client hears of that end once: a cancelled  *)
(* request never reaches an engine; a client that subscribed and whose     *)
(* language is known is told by the main thread that its request was       *)
(* cancelled or by the speak thread how it ended, never both, and has been *)
(* told when it is over.  No other client is ever told of an end: without  *)
(* a subscription replies name no status, and responseCallback answers an  *)
(* unknown language with LANG_NOT_SUPPORTED whatever became of it.         *)
(***************************************************************************)
OneEnd ==
  \A r \in Request :
    /\ r \in cancelled => r \notin handled /\ ~Queued(r)
    /\ IF r \in Subscribed \ BadLanguage
       THEN /\ EndsTold(r) <= 1
            /\ r \in cancelled \/ (Over(r) /\ DisplayOf[r] \in Loaded) => EndsTold(r) = 1
       ELSE EndsTold(r) = 0

(***************************************************************************)
(* A request with clear is the oldest one that waits on its display.       *)
(***************************************************************************)
ClearHeadsQueue ==
  \A d \in Display : \A i \in 2..Len(speakQueue[d]) : speakQueue[d][i] \notin Clear

\* What a clear has found running is marked before the queue is emptied.
ClearStopsFound ==
  mpc \in {"clear_queue", "enqueue"} /\ found # NoRequest /\ found = running[Here]
    /\ Handler!Unsettled(Here) => found \in marked

(***************************************************************************)
(* "Previous speak request is stopped": of what was accepted before a      *)
(* request with clear, all that waits is cancelled, and what runs is       *)
(* reported stopped, unless its status was settled first.  The only one    *)
(* that can escape is a request whose entry was not published when the     *)
(* clear looked: it was just being taken, or is taken before the queue is  *)
(* emptied.                                                                *)
(***************************************************************************)
ClearSparesOnlyUnseen == ClearHeadsQueue /\ ClearStopsFound

(***************************************************************************)
(* What makes these inductive.  The main loop serves a call exactly in the *)
(* places of one;                                                          *)
(***************************************************************************)
Entering == mpc \in {"clear_check", "clear_stop", "clear_mark", "clear_queue", "enqueue"}

CallServed ==
  /\ speaking # NoRequest <=> Entering \/ mpc = "reply"
  /\ speaking \notin Rejected
  /\ mpc \in {"stop_control", "stop_queue"} => stopping \in StopCall

(***************************************************************************)
(* a request that is new, refused or still in the hands of the main loop   *)
(* is nowhere else; one that waits does so once, on its own display, and   *)
(* has been neither taken nor cancelled; a display speaks its own;         *)
(***************************************************************************)
NotHandedOver ==
  \A r \in Request :
    New(r) \/ r \in Rejected \/ (Entering /\ r = speaking) =>
      r \notin handled \cup cancelled /\ ~Queued(r)

WaitsOnce ==
  \A d \in Display : \A i \in 1..Len(speakQueue[d]) :
    /\ DisplayOf[speakQueue[d][i]] = d
    /\ speakQueue[d][i] \notin handled \cup cancelled
    /\ \A j \in 1..Len(speakQueue[d]) : speakQueue[d][i] = speakQueue[d][j] => i = j

SpeaksItsOwn ==
  /\ \A d \in Display : running[d] # NoRequest => DisplayOf[running[d]] = d
  /\ handled \cap cancelled = {}

(***************************************************************************)
(* a subscribed client has been told once its request is past the notify;  *)
(* cancellations are told once; the queue a clear has emptied is still     *)
(* empty when its request is appended; and what a clear or a stop has      *)
(* found was published by then.                                            *)
(***************************************************************************)
ToldByThen ==
  \A r \in handled \cap Subscribed :
    \/ DisplayOf[r] \notin Loaded
    \/ \E d \in Display : running[d] = r /\ hpc[d] # "remove"
    \/ Len(notified[r]) = 1

CancelToldOnce ==
  \A r \in Request :
    TimesToldCancelled(r) = IF r \in (cancelled \cap Subscribed) \ BadLanguage THEN 1 ELSE 0

StillCleared == mpc = "enqueue" /\ speaking \in Clear => speakQueue[Here] = <<>>

FoundIsPublished ==
  found # NoRequest =>
    /\ found \in handled
    /\ mpc \in {"clear_stop", "clear_mark", "clear_queue", "enqueue",
               "stop_control", "stop_queue"}
    /\ Entering /\ found = running[Here] => hpc[Here] # "enter"

CallsInv ==
  /\ CallServed /\ NotHandedOver /\ WaitsOnce /\ SpeaksItsOwn
  /\ ToldByThen /\ CancelToldOnce
  /\ StillCleared /\ ClearHeadsQueue

FoundInv == FoundIsPublished /\ ClearStopsFound

ServiceInv ==
  ServiceTypeOK /\ Handler!HandlerInv /\ Handler!EnginesInv /\ CallsInv /\ FoundInv

\* What SpeechContract knows of a request.
FateOf(r) ==
  IF r \in cancelled THEN "cancelled"
  ELSE IF r \in handled THEN (IF Running(r) THEN "spoken" ELSE "over")
  ELSE IF Queued(r) THEN "waiting"
  ELSE IF r \in Rejected /\ replied[r] # <<>> THEN "refused"
  ELSE "new"

Contract == INSTANCE SpeechContract WITH
  waiting <- speakQueue,
  now <- running,
  fate <- [r \in Request |-> FateOf(r)]

(***************************************************************************)
(* The service keeps SpeechContract: one request at a time on a display,   *)
(* in order, cancelled or spoken and never both, and every accepted one    *)
(* cancelled or spoken in the end.                                         *)
(***************************************************************************)
ImplementsContract == Contract!Spec

(***************************************************************************)
(* The part of the contract that says what a step may do.                  *)
(***************************************************************************)
ImplementsContractSafely == Contract!Safety

(***************************************************************************)
(* "Previous speak request is stopped": the stop that a speak with clear   *)
(* sends stops the request it found running, and neither marks nor cuts    *)
(* the one that sent it, whichever ends and starts between its four steps. *)
(***************************************************************************)
ClearSparesItself == \A r \in Request : <<r, r>> \notin cutByClear

Live(r) == Queued(r) \/ Running(r)

(***************************************************************************)
(* "ID Not found", "Not found in Queue": a stop is only answered with      *)
(* INVALID_PARAM when no request that it names is waiting or running.      *)
(***************************************************************************)
NotFoundMeansNoneLive ==
  [][StopRemoves /\ NothingFound =>
       \A r \in Request :
         StopsRunning(stopping, r) /\ DisplayOf[r] = stopping.display => ~Live(r)]_vars
===============================================================================
