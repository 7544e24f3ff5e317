----------------------------- MODULE ServiceProofs -----------------------------
(***************************************************************************)
(* Proofs about SpeechService, for every number of displays, requests and  *)
(* stop calls, whatever the calls ask for and whatever fails in the        *)
(* engines: what clients are told of the end of a request, what a clear    *)
(* leaves waiting and running, and that the service implements the safety  *)
(* part of SpeechContract. The invariants of EngineHandler, proved in      *)
(* EngineHandlerProofs and EngineProofs, are carried over on the way.      *)
(***************************************************************************)
EXTENDS SpeechService, SequenceFacts, FiniteSetTheorems

Proved == INSTANCE EngineProofs

-------------------------------------------------------------------------------
(* What is proved of EngineHandler holds of the Handler of this module *)

(***************************************************************************)
(* The constants of the service are constants of a handler.                *)
(***************************************************************************)
LEMMA HandlerAssumed == Proved!HandlerAssumption
BY ServiceAssumption DEF Proved!HandlerAssumption

(***************************************************************************)
(* The two instances of EngineHandler have the same initial states,        *)
(***************************************************************************)
LEMMA SameInit == Handler!Init => Proved!Init
BY DEF Handler!Init, Proved!Init, Handler!Google!Init, Proved!Google!Init,
       Handler!Pulse!Init, Proved!Pulse!Init, Handler!NoInfo, Proved!NoInfo

(***************************************************************************)
(* the same invariant of the entries and the statuses,                     *)
(***************************************************************************)
LEMMA SameHandlerInv == Handler!HandlerInv <=> Proved!HandlerInv
BY DEF Handler!HandlerInv, Proved!HandlerInv, Handler!TypeOK, Proved!TypeOK,
       Handler!InfoNamesRunning, Proved!InfoNamesRunning,
       Handler!RunsOnOneDisplay, Proved!RunsOnOneDisplay,
       Handler!HandledBefore, Proved!HandledBefore,
       Handler!StopHasAim, Proved!StopHasAim,
       Handler!ToldOnce, Proved!ToldOnce,
       Handler!StatusSoFar, Proved!StatusSoFar,
       Handler!StopReportedIffMarked, Proved!StopReportedIffMarked,
       Handler!NoInfo, Proved!NoInfo, Handler!Unsettled, Proved!Unsettled

(***************************************************************************)
(* the same invariant of the engines,                                      *)
(***************************************************************************)
LEMMA SameEnginesInv == Handler!EnginesInv <=> Proved!EnginesInv
BY DEF Handler!EnginesInv, Proved!EnginesInv,
       Handler!Google!TypeOK, Proved!Google!TypeOK,
       Handler!Google!CheckedCallIsAnswered, Proved!Google!CheckedCallIsAnswered,
       Handler!SpeechSoFar, Proved!SpeechSoFar,
       Handler!PlaysOwnAudio, Proved!PlaysOwnAudio,
       Handler!Pulse!TypeOK, Proved!Pulse!TypeOK,
       Handler!PlayerSoFar, Proved!PlayerSoFar,
       Handler!FileClosedOnce, Proved!FileClosedOnce,
       Handler!Pulse!FileClosedOnce, Proved!Pulse!FileClosedOnce,
       Handler!Pulse!HasFile, Proved!Pulse!HasFile,
       Handler!StreamsAccounted, Proved!StreamsAccounted,
       Handler!Pulse!StreamsAccounted, Proved!Pulse!StreamsAccounted,
       Handler!Pulse!HasStream, Proved!Pulse!HasStream,
       Handler!AtMostOneMoreChunk, Proved!AtMostOneMoreChunk,
       Handler!Pulse!AtMostOneMoreChunk, Proved!Pulse!AtMostOneMoreChunk,
       Handler!FlagsOfTheRunning, Proved!FlagsOfTheRunning,
       Handler!CutIsReported, Proved!CutIsReported,
       Handler!CutShort, Proved!CutShort, Handler!Synthesizing, Proved!Synthesizing,
       Handler!Playing, Proved!Playing

(***************************************************************************)
(* and the same steps.                                                     *)
(***************************************************************************)
LEMMA SameNext == Handler!Next => Proved!Next
<1> USE DEF Handler!googleVars, Proved!googleVars, Handler!pulseVars, Proved!pulseVars,
            Handler!historyVars, Proved!historyVars, Handler!speakVars, Proved!speakVars,
            Handler!controlVars, Proved!controlVars, Handler!NoInfo, Proved!NoInfo
<1>1. ASSUME NEW d, NEW r, Handler!HandleSpeak(d, r)
      PROVE  Proved!HandleSpeak(d, r)
  BY <1>1 DEF Handler!HandleSpeak, Proved!HandleSpeak
<1>2. ASSUME NEW d, Handler!HandleStop(d)
      PROVE  Proved!HandleStop(d)
  BY <1>2 DEF Handler!HandleStop, Proved!HandleStop, Handler!AfterLookup, Proved!AfterLookup
<1>3. ASSUME NEW d, Handler!UpdateToStop(d)
      PROVE  Proved!UpdateToStop(d)
  BY <1>3 DEF Handler!UpdateToStop, Proved!UpdateToStop, Handler!StopMarked,
              Proved!StopMarked, Handler!Unsettled, Proved!Unsettled
<1>4. ASSUME NEW d, Handler!MarkByClear(d)
      PROVE  Proved!MarkByClear(d)
  BY <1>3, <1>4 DEF Handler!MarkByClear, Proved!MarkByClear
<1>5. ASSUME NEW d, Handler!ControlThread(d)
      PROVE  Proved!ControlThread(d)
  <2>1. Handler!MarkStop(d) => Proved!MarkStop(d)
    BY <1>3 DEF Handler!MarkStop, Proved!MarkStop
  <2>2. Handler!StopTts(d) => Proved!StopTts(d)
    BY DEF Handler!StopTts, Proved!StopTts, Handler!Google!Stop, Proved!Google!Stop,
           Handler!Synthesizing, Proved!Synthesizing
  <2>3. Handler!StopAudio(d) => Proved!StopAudio(d)
    BY DEF Handler!StopAudio, Proved!StopAudio, Handler!Pulse!Stop, Proved!Pulse!Stop,
           Handler!Playing, Proved!Playing
  <2> QED
    BY <1>5, <2>1, <2>2, <2>3 DEF Handler!ControlThread, Proved!ControlThread
<1>6. ASSUME NEW d, Handler!SpeakThread(d)
      PROVE  Proved!SpeakThread(d)
  <2>1. /\ Handler!EngineMissing(d) => Proved!EngineMissing(d)
        /\ Handler!SaveInfo(d) => Proved!SaveInfo(d)
        /\ Handler!RemoveInfo(d) => Proved!RemoveInfo(d)
    BY DEF Handler!EngineMissing, Proved!EngineMissing, Handler!SaveInfo, Proved!SaveInfo,
           Handler!SavedInfo, Proved!SavedInfo, Handler!RemoveInfo, Proved!RemoveInfo,
           Handler!RemovedInfo, Proved!RemovedInfo,
           Handler!SpeakReturns, Proved!SpeakReturns
  <2>2. /\ Handler!NoSpeechToPlay(d) => Proved!NoSpeechToPlay(d)
        /\ Handler!Played(d) => Proved!Played(d)
        /\ Handler!Settle(d) => Proved!Settle(d)
        /\ Handler!Notify(d) => Proved!Notify(d)
    BY DEF Handler!NoSpeechToPlay, Proved!NoSpeechToPlay, Handler!Played, Proved!Played,
           Handler!Settle, Proved!Settle, Handler!SettledStatus, Proved!SettledStatus,
           Handler!Notify, Proved!Notify, Handler!Response, Proved!Response
  <2>3. /\ Handler!CallSpeak(d) => Proved!CallSpeak(d)
        /\ Handler!CallPlay(d) => Proved!CallPlay(d)
    BY DEF Handler!CallSpeak, Proved!CallSpeak, Handler!Google!Speak, Proved!Google!Speak,
           Handler!Google!StopAtEntry, Proved!Google!StopAtEntry,
           Handler!CallPlay, Proved!CallPlay, Handler!Pulse!Play, Proved!Pulse!Play,
           Handler!Pulse!StopAtEntry, Proved!Pulse!StopAtEntry
  <2>4. Handler!SynthesisStep(d) => Proved!SynthesisStep(d)
    BY DEF Handler!SynthesisStep, Proved!SynthesisStep,
           Handler!Google!SpeakStep, Proved!Google!SpeakStep,
           Handler!Google!GotEvent, Proved!Google!GotEvent,
           Handler!Google!Answered, Proved!Google!Answered,
           Handler!Google!Timeout, Proved!Google!Timeout,
           Handler!Google!AfterPoll, Proved!Google!AfterPoll,
           Handler!Google!LeavesLoop, Proved!Google!LeavesLoop,
           Handler!Google!Return, Proved!Google!Return,
           Handler!Google!StopSeen, Proved!Google!StopSeen,
           Handler!Google!Stopped, Proved!Google!Stopped,
           Handler!Google!SynthesisFailed, Proved!Google!SynthesisFailed,
           Handler!Google!WriteFile, Proved!Google!WriteFile,
           Handler!Google!AudioContent, Proved!Google!AudioContent
  <2>5. Handler!AudioStep(d) => Proved!AudioStep(d)
    <3>1. Handler!Pulse!PlayStep(d) => Proved!Pulse!PlayStep(d)
      BY DEF Handler!Pulse!PlayStep, Proved!Pulse!PlayStep,
             Handler!Pulse!OpenFile, Proved!Pulse!OpenFile,
             Handler!Pulse!NewStream, Proved!Pulse!NewStream,
             Handler!Pulse!ReadChunk, Proved!Pulse!ReadChunk,
             Handler!Pulse!EndOfFile, Proved!Pulse!EndOfFile,
             Handler!Pulse!TestStop, Proved!Pulse!TestStop,
             Handler!Pulse!AfterTest, Proved!Pulse!AfterTest,
             Handler!Pulse!WriteChunk, Proved!Pulse!WriteChunk,
             Handler!Pulse!EndPlay, Proved!Pulse!EndPlay,
             Handler!Pulse!FreeStream, Proved!Pulse!FreeStream,
             Handler!Pulse!StreamsAfterFree, Proved!Pulse!StreamsAfterFree
    <3>2. Handler!Pulse!PlayFault(d) => Proved!Pulse!PlayFault(d)
      BY DEF Handler!Pulse!PlayFault, Proved!Pulse!PlayFault,
             Handler!Pulse!OpenFails, Proved!Pulse!OpenFails,
             Handler!Pulse!NewStreamFails, Proved!Pulse!NewStreamFails,
             Handler!Pulse!ReadFails, Proved!Pulse!ReadFails,
             Handler!Pulse!WriteFails, Proved!Pulse!WriteFails,
             Handler!Pulse!AfterWriteError, Proved!Pulse!AfterWriteError,
             Handler!Pulse!EndFails, Proved!Pulse!EndFails
    <3>3. Handler!Pulse!OpenFails(d) => Proved!Pulse!OpenFails(d)
      BY DEF Handler!Pulse!OpenFails, Proved!Pulse!OpenFails
    <3> QED
      BY <3>1, <3>2, <3>3 DEF Handler!AudioStep, Proved!AudioStep
  <2> QED
    BY <1>6, <2>1, <2>2, <2>3, <2>4, <2>5 DEF Handler!SpeakThread, Proved!SpeakThread
<1>7. ASSUME NEW d, Handler!Server(d)
      PROVE  Proved!Server(d)
  BY <1>7 DEF Handler!Server, Proved!Server, Handler!Google!Server, Proved!Google!Server,
              Handler!Google!ServerAnswers, Proved!Google!ServerAnswers
<1> QED
  BY <1>1, <1>2, <1>4, <1>5, <1>6, <1>7 DEF Handler!Next, Proved!Next

(***************************************************************************)
(* So the invariants of EngineHandlerProofs and EngineProofs hold at the   *)
(* start of the service,                                                   *)
(***************************************************************************)
LEMMA HandlerStarts == Handler!Init => Handler!HandlerInv /\ Handler!EnginesInv
BY HandlerAssumed, SameInit, SameHandlerInv, SameEnginesInv,
   Proved!InitHandlerInv, Proved!InitEnginesInv

(***************************************************************************)
(* and every step of the service that is one of the handler, or leaves it  *)
(* alone, keeps them.                                                      *)
(***************************************************************************)
LEMMA HandlerKept ==
  ASSUME Handler!HandlerInv, Handler!EnginesInv, Handler!Next \/ UNCHANGED handlerVars
  PROVE  Handler!HandlerInv' /\ Handler!EnginesInv'
<1>1. Proved!HandlerInv /\ Proved!EnginesInv
  BY SameHandlerInv, SameEnginesInv
<1>2. [Proved!Next]_(Proved!handlerVars)
  BY SameNext
     DEF handlerVars, googleVars, pulseVars, historyVars, Proved!handlerVars,
         Proved!googleVars, Proved!pulseVars, Proved!speakVars, Proved!controlVars,
         Proved!historyVars
<1>3. Proved!HandlerInv'
  BY <1>1, <1>2, HandlerAssumed, Proved!NextHandlerInv
<1>4. Proved!EnginesInv'
  BY <1>1, <1>2, HandlerAssumed, Proved!NextEnginesInv
<1>5. /\ (Handler!HandlerInv <=> Proved!HandlerInv)'
      /\ (Handler!EnginesInv <=> Proved!EnginesInv)'
  BY SameHandlerInv, SameEnginesInv, PTL
<1> QED
  BY <1>3, <1>4, <1>5

-------------------------------------------------------------------------------
(* What a step of the handler does to a call *)

(***************************************************************************)
(* The control thread, a clear and the speech server leave the speak       *)
(* threads, the requests they handle and what clients were told alone.     *)
(***************************************************************************)
LEMMA ControlFrame ==
  ASSUME NEW d,
         \/ Handler!HandleStop(d) \/ Handler!MarkStop(d) \/ Handler!StopTts(d)
         \/ Handler!StopAudio(d) \/ Handler!MarkByClear(d) \/ Handler!Server(d)
  PROVE  UNCHANGED <<hpc, running, handled, notified>>
BY DEF Handler!HandleStop, Handler!MarkStop, Handler!StopTts, Handler!StopAudio,
       Handler!MarkByClear, Handler!Server, Handler!speakVars, Handler!historyVars

\* The request goes on and nothing is said;
Continues ==
  /\ UNCHANGED <<running, notified>>
  /\ \A e \in Display : hpc'[e] = "remove" => hpc[e] = "remove"

\* its client, if subscribed, is told how it ended, for the first time;
Tells(d) ==
  /\ UNCHANGED running
  /\ running[d] \in Request /\ notified[running[d]] = <<>>
  /\ notified' = IF running[d] \in Subscribed
                 THEN [notified EXCEPT ![running[d]] =
                         Append(@, Handler!Response(running[d], eStatus[running[d]]))]
                 ELSE notified
  /\ \A e \in Display \ {d} : hpc'[e] = hpc[e]

\* or it is let go of, told or on a display without engines.
LetsGo(d) ==
  /\ UNCHANGED notified
  /\ running[d] # NoRequest
  /\ running' = [running EXCEPT ![d] = NoRequest]
  /\ d \notin Loaded \/ hpc[d] = "remove"
  /\ \A e \in Display \ {d} : hpc'[e] = hpc[e]

(***************************************************************************)
(* A step of a speak thread does one of the three.                         *)
(***************************************************************************)
LEMMA SpeakFrame ==
  ASSUME Handler!HandlerInv, NEW d \in Display, Handler!SpeakThread(d)
  PROVE  handled' = handled /\ (Continues \/ Tells(d) \/ LetsGo(d))
<1> USE DEF Handler!speakVars, Handler!historyVars
<1>0. /\ hpc \in [Display -> {"idle", "enter", "speak", "synthesis", "audio",
                              "settle", "notify", "remove"}]
      /\ running \in [Display -> Request \cup {NoRequest}]
      /\ running[d] = NoRequest <=> hpc[d] = "idle"
      /\ hpc[d] = "notify" => notified[running[d]] = <<>>
  BY DEF Handler!HandlerInv, Handler!TypeOK, Handler!InfoNamesRunning, Handler!StatusSoFar
<1>1. CASE Handler!EngineMissing(d)
  BY <1>0, <1>1 DEF Handler!EngineMissing, Handler!SpeakReturns, LetsGo
<1>2. CASE Handler!RemoveInfo(d)
  BY <1>0, <1>2 DEF Handler!RemoveInfo, Handler!SpeakReturns, LetsGo
<1>3. CASE Handler!Notify(d)
  BY <1>0, <1>3 DEF Handler!Notify, Tells
<1>4. CASE \/ Handler!SaveInfo(d) \/ Handler!CallSpeak(d) \/ Handler!CallPlay(d)
           \/ Handler!NoSpeechToPlay(d) \/ Handler!Played(d) \/ Handler!Settle(d)
  BY <1>0, <1>4
     DEF Handler!SaveInfo, Handler!CallSpeak, Handler!CallPlay, Handler!NoSpeechToPlay,
         Handler!Played, Handler!Settle, Continues
<1>5. CASE Handler!SynthesisStep(d)
  BY <1>5 DEF Handler!SynthesisStep, Continues
<1>6. CASE Handler!AudioStep(d)
  BY <1>6 DEF Handler!AudioStep, Continues
<1> QED
  BY <1>1, <1>2, <1>3, <1>4, <1>5, <1>6 DEF Handler!SpeakThread

-------------------------------------------------------------------------------
(* The calls the main loop serves, step by step *)

(***************************************************************************)
(* A step that changes nothing but where the main loop is in the call it   *)
(* serves, or the control queues and the stops under way, keeps the        *)
(* invariant, as long as the loop stays in the same kind of place.         *)
(***************************************************************************)
LEMMA CallGoesOn ==
  ASSUME ServiceInv,
         UNCHANGED <<hpc, running, handled, notified, speaking, replied, cancelled,
                     speakQueue>>,
         mpc' = "enqueue" => mpc = "enqueue" \/ speaking \notin Clear,
         Entering' => Entering,
         Entering' \/ mpc' = "reply" <=> Entering \/ mpc = "reply",
         mpc' \in {"stop_control", "stop_queue"} => stopping' \in StopCall
  PROVE  CallsInv'
<1> USE DEF ServiceInv, CallsInv
<1>1. CallServed'
  BY DEF CallServed
<1>2. NotHandedOver'
  BY DEF NotHandedOver, New, Queued
<1>3. WaitsOnce' /\ SpeaksItsOwn' /\ ToldByThen'
  BY DEF WaitsOnce, SpeaksItsOwn, ToldByThen
<1>4. CancelToldOnce'
  BY DEF CancelToldOnce, TimesToldCancelled
<1>5. StillCleared' /\ ClearHeadsQueue'
  BY DEF StillCleared, ClearHeadsQueue, Here
<1> QED
  BY <1>1, <1>2, <1>3, <1>4, <1>5

(***************************************************************************)
(* Such are most steps of the main loop: the clear that looks for what     *)
(* runs, queues its stop and marks the entry; and a stop that reads the    *)
(* entry and queues its control request.                                   *)
(***************************************************************************)
LEMMA MainGoesOn ==
  ASSUME ServiceInv,
         \/ Start \/ ClearReadsInfo \/ ClearQueuesStop \/ ClearMarks
         \/ StopQueuesControl \/ \E call \in StopCall : StopCalled(call)
  PROVE  ServiceTypeOK' /\ CallsInv'
<1> USE DEF Start, ClearReadsInfo, ClearQueuesStop, ClearMarks, StopQueuesControl, StopCalled
<1>0. UNCHANGED <<hpc, running, handled, notified, speaking, replied, cancelled, speakQueue>>
  <2>1. CASE ClearMarks
    BY <2>1, ControlFrame
  <2>2. CASE ~ClearMarks
    BY <2>2 DEF handlerVars, historyVars
  <2> QED
    BY <2>1, <2>2
<1>1. ServiceTypeOK /\ CallServed
  BY DEF ServiceInv, CallsInv
<1>2. ServiceTypeOK'
  <2>1. CASE ClearQueuesStop
    <3>1. speaking \in Request /\ Here \in Display
      BY <1>1, <2>1, ServiceAssumption DEF CallServed, Entering, Here, ServiceTypeOK
    <3> QED
      BY <1>1, <2>1, <3>1 DEF ServiceTypeOK
  <2>2. CASE StopQueuesControl
    <3>1. stopping.display \in Display
      BY <1>1, <2>2, ServiceAssumption DEF CallServed
    <3> QED
      BY <1>1, <2>2, <3>1 DEF ServiceTypeOK
  <2>3. CASE \E call \in StopCall : StopCalled(call)
    <3>1. PICK call \in StopCall : StopCalled(call)
      BY <2>3
    <3>2. /\ stops \in 0..MaxStops /\ stops < MaxStops /\ stops' = stops + 1
          /\ MaxStops \in Nat
      BY <1>1, <3>1, ServiceAssumption DEF ServiceTypeOK
    <3>3. stops' \in 0..MaxStops
      BY ONLY <3>2
    <3>4. /\ found' \in Request \cup {NoRequest}
          /\ mpc' \in {"stop_control", "stop_queue"} /\ stopping' \in StopCall
      <4>1. call.display \in Display
        BY <3>1, ServiceAssumption
      <4>2. info[call.display].req \in Request \cup {NoRequest}
        BY <4>1 DEF ServiceInv, Handler!HandlerInv, Handler!TypeOK
      <4> QED
        BY <3>1, <4>2
    <3> QED
      BY <1>1, <3>1, <3>3, <3>4 DEF ServiceTypeOK, controlVars
  <2>4. CASE Start \/ ClearMarks
    BY <1>1, <2>4 DEF ServiceTypeOK, controlVars
  <2>5. CASE ClearReadsInfo
    <3>1. Here \in Display
      BY <1>1, <2>5, ServiceAssumption DEF CallServed, Entering, Here, ServiceTypeOK
    <3>2. info[Here].req \in Request \cup {NoRequest}
      BY <3>1 DEF ServiceInv, Handler!HandlerInv, Handler!TypeOK
    <3> QED
      BY <1>1, <2>5, <3>2 DEF ServiceTypeOK, AfterClearCheck, controlVars
  <2> QED
    BY <2>1, <2>2, <2>3, <2>4, <2>5
<1>3. CallsInv'
  <2>1. /\ mpc' # "enqueue"
        /\ Entering' => Entering
        /\ Entering' \/ mpc' = "reply" <=> Entering \/ mpc = "reply"
        /\ mpc' \in {"stop_control", "stop_queue"} => stopping' \in StopCall
    BY <1>1 DEF Entering, AfterClearCheck, CallServed
  <2> QED
    BY <1>0, <2>1, CallGoesOn
<1> QED
  BY <1>2, <1>3

\* What the main thread says to a client.
Message == {"accepted", "garbled", "error", "LANG_ERR", "CANCEL", "no_status"}

(***************************************************************************)
(* One message more is one cancellation more if it says so.                *)
(***************************************************************************)
LEMMA TellCounts ==
  ASSUME replied \in [Request -> Seq(Message)], NEW r \in Request, NEW m \in Message,
         replied'[r] = Append(replied[r], m)
  PROVE  TimesToldCancelled(r)' = TimesToldCancelled(r) + (IF m = "CANCEL" THEN 1 ELSE 0)
<1>1. replied[r] \in Seq(Message)
  OBVIOUS
<1>2. Count(replied'[r], "CANCEL")
        = Count(replied[r], "CANCEL") + (IF m = "CANCEL" THEN 1 ELSE 0)
  BY <1>1, CountAppended
<1> QED
  BY <1>2 DEF TimesToldCancelled, Count

(***************************************************************************)
(* A message that is not a cancellation leaves what clients were told of   *)
(* cancellations as it was.                                                *)
(***************************************************************************)
LEMMA TellsOther ==
  ASSUME ServiceTypeOK, CancelToldOnce, NEW r \in Request,
         NEW m \in Message \ {"CANCEL"}, Tell(r, m), cancelled' = cancelled
  PROVE  replied' \in [Request -> Seq(Message)] /\ CancelToldOnce'
<1>1. replied \in [Request -> Seq(Message)]
  BY DEF ServiceTypeOK, Message
<1>2. replied' = [replied EXCEPT ![r] = Append(replied[r], m)]
  BY DEF Tell
<1>3. replied' \in [Request -> Seq(Message)]
  <2>1. Append(replied[r], m) \in Seq(Message)
    BY <1>1, AppendProperties
  <2> QED
    BY <1>1, <1>2, <2>1
<1>4. ASSUME NEW q \in Request
      PROVE  TimesToldCancelled(q)' = TimesToldCancelled(q)
  <2>1. CASE q = r
    <3>1. TimesToldCancelled(r) \in {0, 1}
      BY DEF CancelToldOnce
    <3>2. replied'[r] = Append(replied[r], m) /\ m \in Message /\ m # "CANCEL"
      BY <1>1, <1>2
    <3>3. TimesToldCancelled(r)' = TimesToldCancelled(r) + 0
      BY <1>1, <3>2, TellCounts
    <3> QED
      BY ONLY <2>1, <3>1, <3>3
  <2>2. CASE q # r
    BY <1>1, <1>2, <2>2 DEF TimesToldCancelled
  <2> QED
    BY <2>1, <2>2
<1> QED
  BY <1>3, <1>4 DEF CancelToldOnce

(***************************************************************************)
(* A call of speak that is refused, or answered in the end, is not new any *)
(* more and was not told that it is cancelled.                             *)
(***************************************************************************)
LEMMA SpeakAnswered ==
  ASSUME ServiceInv, SpeakReplies \/ \E r \in Request : SpeakRefused(r)
  PROVE  ServiceTypeOK' /\ CallsInv'
<1> USE DEF ServiceInv, CallsInv
<1>0. speaking \in Request \cup {NoRequest} /\ NoRequest \notin Request
      /\ replied \in [Request -> Seq(Message)]
  BY ServiceAssumption DEF ServiceTypeOK, Message
<1>1. UNCHANGED <<hpc, running, handled, notified, stopping, found, cancelled, stops,
                  speakQueue, controlQueue, clearing, cutByClear>>
  BY DEF SpeakReplies, SpeakRefused, handlerVars, historyVars, controlVars
<1>2. PICK r \in Request, m \in Message \ {"CANCEL"} :
        /\ Tell(r, m)
        /\ \/ mpc = "reply" /\ r = speaking
           \/ mpc = "idle" /\ r \in Rejected
  <2>1. CASE SpeakReplies
    <3>1. speaking \in Request
      BY <1>0, <2>1 DEF SpeakReplies, CallServed
    <3> QED
      BY <2>1, <3>1 DEF SpeakReplies, Message
  <2>2. CASE \E r \in Request : SpeakRefused(r)
    BY <2>2 DEF SpeakRefused, Message
  <2> QED
    BY <2>1, <2>2
<1>3. replied' \in [Request -> Seq(Message)] /\ CancelToldOnce'
  BY <1>1, <1>2, TellsOther
<1>4. mpc' = "idle" /\ speaking' = NoRequest
  BY DEF SpeakReplies, SpeakRefused, CallServed, Entering
<1>5. ServiceTypeOK'
  BY <1>1, <1>3, <1>4 DEF ServiceTypeOK, Message
<1>6. CallServed' /\ StillCleared' /\ ClearHeadsQueue'
  BY <1>0, <1>1, <1>4, ServiceAssumption
     DEF CallServed, Entering, StillCleared, ClearHeadsQueue
<1>7. NotHandedOver'
  <2>1. \A q \in Request : New(q)' => New(q) \/ q \in Rejected
    <3> SUFFICES ASSUME NEW q \in Request, New(q)'
                 PROVE  New(q) \/ q \in Rejected
      OBVIOUS
    <3>1. CASE q = r
      <4>1. replied'[r] = Append(replied[r], m)
        BY <1>0, <1>2 DEF Tell
      <4>2. Append(replied[r], m) # <<>>
        BY <1>0, AppendProperties, EmptySeq
      <4> QED
        BY <3>1, <4>1, <4>2 DEF New
    <3>2. CASE q # r
      <4>1. replied'[q] = replied[q] /\ (speaking = q => q = r)
        BY <1>0, <1>2, <3>2 DEF Tell, CallServed, Entering
      <4> QED
        BY <3>2, <4>1 DEF New
    <3> QED
      BY <3>1, <3>2
  <2> QED
    BY <1>1, <1>4, <2>1 DEF NotHandedOver, Entering, Queued
<1>8. WaitsOnce' /\ SpeaksItsOwn' /\ ToldByThen'
  BY <1>1 DEF WaitsOnce, SpeaksItsOwn, ToldByThen
<1> QED
  BY <1>3, <1>5, <1>6, <1>7, <1>8

(***************************************************************************)
(* A call of speak that is taken up is served; its error for an unknown    *)
(* language is no cancellation.                                            *)
(***************************************************************************)
LEMMA SpeakStarts ==
  ASSUME ServiceInv, NEW r \in Request, SpeakCalled(r)
  PROVE  ServiceTypeOK' /\ CallsInv'
<1> USE DEF ServiceInv, CallsInv, SpeakCalled
<1>0. NoRequest \notin Request /\ replied \in [Request -> Seq(Message)]
  BY ServiceAssumption DEF ServiceTypeOK, Message
<1>1. UNCHANGED <<hpc, running, handled, notified, stopping, found, cancelled, stops,
                  speakQueue, controlQueue, clearing, cutByClear>>
  BY DEF handlerVars, historyVars, controlVars
<1>2. speaking = NoRequest /\ replied[r] = <<>>
  BY DEF CallServed, Entering, New
<1>3. replied' \in [Request -> Seq(Message)] /\ CancelToldOnce'
  <2>1. CASE r \in BadLanguage
    <3>1. Append(replied[r], "LANG_ERR") = <<"LANG_ERR">>
      BY <1>2
    <3>2. Tell(r, "LANG_ERR")
      BY <2>1, <3>1 DEF Tell
    <3> QED
      BY <1>1, <3>2, TellsOther DEF Message
  <2>2. CASE r \notin BadLanguage
    BY <1>0, <1>1, <2>2 DEF CancelToldOnce, TimesToldCancelled
  <2> QED
    BY <2>1, <2>2
<1>4. speaking' = r /\ mpc' \in {"clear_check", "enqueue"}
      /\ (mpc' = "enqueue" => r \notin Clear)
  OBVIOUS
<1>5. ServiceTypeOK'
  BY <1>1, <1>3, <1>4 DEF ServiceTypeOK, Message
<1>6. CallServed' /\ StillCleared' /\ ClearHeadsQueue'
  BY <1>0, <1>1, <1>4 DEF CallServed, Entering, StillCleared, ClearHeadsQueue
<1>7. NotHandedOver'
  <2>1. \A q \in Request : New(q)' \/ (Entering' /\ q = speaking') => New(q)
    BY <1>0, <1>2 DEF New
  <2> QED
    BY <1>1, <2>1 DEF NotHandedOver, Queued
<1>8. WaitsOnce' /\ SpeaksItsOwn' /\ ToldByThen'
  BY <1>1 DEF WaitsOnce, SpeaksItsOwn, ToldByThen
<1> QED
  BY <1>3, <1>5, <1>6, <1>7, <1>8

-------------------------------------------------------------------------------
(* Requests taken out of a queue *)

(***************************************************************************)
(* What is in a speak queue.                                               *)
(***************************************************************************)
LEMMA QueueElements ==
  ASSUME ServiceTypeOK, NEW d \in Display
  PROVE  /\ speakQueue[d] \in Seq(Request)
         /\ DOMAIN speakQueue[d] = 1..Len(speakQueue[d])
         /\ ToSet(speakQueue[d]) = {speakQueue[d][i] : i \in 1..Len(speakQueue[d])}
         /\ ToSet(speakQueue[d]) \subseteq Request
<1>1. speakQueue[d] \in Seq(Request)
  BY DEF ServiceTypeOK
<1>2. DOMAIN speakQueue[d] = 1..Len(speakQueue[d])
      /\ \A i \in 1..Len(speakQueue[d]) : speakQueue[d][i] \in Request
  BY <1>1, LenProperties, ElementOfSeq
<1> QED
  BY <1>1, <1>2 DEF ToSet

(***************************************************************************)
(* Requests that are taken out of a queue had not been cancelled before,   *)
(* so cancelling them tells each of their clients once.                    *)
(***************************************************************************)
LEMMA CancelsTold ==
  ASSUME ServiceInv, NEW d \in Display, NEW some \in SUBSET ToSet(speakQueue[d]),
         CancelAll(some)
  PROVE  /\ replied' \in [Request -> Seq(Message)]
         /\ CancelToldOnce'
<1> USE DEF ServiceInv, CallsInv
<1>0. replied \in [Request -> Seq(Message)]
  BY DEF ServiceTypeOK, Message
<1>1. \A r \in some : r \in Request /\ r \notin cancelled
  <2>1. ToSet(speakQueue[d]) = {speakQueue[d][i] : i \in 1..Len(speakQueue[d])}
        /\ ToSet(speakQueue[d]) \subseteq Request
    BY QueueElements
  <2>2. \A i \in 1..Len(speakQueue[d]) : speakQueue[d][i] \notin cancelled
    BY DEF WaitsOnce
  <2> QED
    BY <2>1, <2>2
<1>2. /\ cancelled' = cancelled \cup some
      /\ \A r \in Request :
           /\ Handler!Response(r, "CANCEL") \in Message
           /\ Handler!Response(r, "CANCEL") = "CANCEL" <=> r \in Subscribed \ BadLanguage
           /\ replied'[r] = IF r \in some THEN Append(replied[r], Handler!Response(r, "CANCEL"))
                           ELSE replied[r]
      /\ DOMAIN replied' = Request /\ replied' = [r \in Request |-> replied'[r]]
  BY DEF CancelAll, Handler!Response, Message
<1>3. replied' \in [Request -> Seq(Message)]
  <2>1. \A r \in Request, m \in Message : Append(replied[r], m) \in Seq(Message)
    BY <1>0, AppendProperties
  <2> QED
    BY <1>0, <1>2, <2>1
<1>4. ASSUME NEW r \in Request
      PROVE  TimesToldCancelled(r)' =
               IF r \in (cancelled' \cap Subscribed) \ BadLanguage THEN 1 ELSE 0
  <2>1. TimesToldCancelled(r) = IF r \in (cancelled \cap Subscribed) \ BadLanguage THEN 1 ELSE 0
    BY DEF CancelToldOnce
  <2>2. CASE r \notin some
    BY <1>2, <2>1, <2>2 DEF TimesToldCancelled
  <2>3. CASE r \in some
    <3>1. TimesToldCancelled(r) = 0 /\ r \in cancelled'
      BY <1>1, <1>2, <2>1, <2>3
    <3>2. PICK m \in Message : /\ replied'[r] = Append(replied[r], m)
                               /\ m = "CANCEL" <=> r \in Subscribed \ BadLanguage
      BY <1>2, <2>3
    <3>3. TimesToldCancelled(r)' = TimesToldCancelled(r) + (IF m = "CANCEL" THEN 1 ELSE 0)
      BY <1>0, <3>2, TellCounts
    <3>4. TimesToldCancelled(r)' = IF m = "CANCEL" THEN 1 ELSE 0
      BY ONLY <3>1, <3>3
    <3> QED
      BY <3>1, <3>2, <3>4
  <2> QED
    BY <2>2, <2>3
<1> QED
  BY <1>3, <1>4 DEF CancelToldOnce

(***************************************************************************)
(* A clear or a stop that takes requests out of a queue keeps the          *)
(* invariant: those that stay do so once, in order and behind the clear,   *)
(* and those taken out are nowhere else.                                   *)
(***************************************************************************)
LEMMA Cancels ==
  ASSUME ServiceInv, NEW d \in Display, NEW some \in SUBSET ToSet(speakQueue[d]),
         CancelAll(some),
         speakQueue' = [speakQueue EXCEPT ![d] = Without(speakQueue[d], some)],
         UNCHANGED <<hpc, running, handled, notified, speaking>>,
         mpc' = "enqueue" => speakQueue'[Here] = <<>>,
         Entering' => Entering,
         Entering' \/ mpc' = "reply" <=> Entering \/ mpc = "reply",
         mpc' \notin {"stop_control", "stop_queue"}
  PROVE  /\ cancelled' \subseteq Request
         /\ replied' \in [Request -> Seq(Message)]
         /\ speakQueue' \in [Display -> Seq(Request)]
         /\ CallsInv'
<1> USE DEF ServiceInv, CallsInv
<1> DEFINE queue == speakQueue[d]
           w == Without(queue, some)
<1>1. cancelled' = cancelled \cup some /\ some \subseteq Request /\ cancelled \subseteq Request
  BY QueueElements DEF CancelAll, ServiceTypeOK
<1>2. replied' \in [Request -> Seq(Message)] /\ CancelToldOnce'
  BY CancelsTold
<1>3. queue \in Seq(Request) /\ w \in Seq(Request)
  BY QueueElements, WithoutPicks
<1>4. speakQueue \in [Display -> Seq(Request)] /\ speakQueue' \in [Display -> Seq(Request)]
  BY <1>3 DEF ServiceTypeOK
<1>5. speakQueue'[d] = w /\ \A e \in Display \ {d} : speakQueue'[e] = speakQueue[e]
  BY <1>4
<1>6. /\ ToSet(w) = ToSet(queue) \ some
      /\ DOMAIN w = 1..Len(w)
      /\ \A i \in 1..Len(w) : w[i] \in ToSet(queue) /\ w[i] \notin some
  <2>1. ToSet(w) = ToSet(queue) \ some
    BY <1>3, WithoutElements
  <2>2. DOMAIN w = 1..Len(w)
    BY <1>3, LenProperties
  <2> HIDE DEF w, queue
  <2> QED
    BY <2>1, <2>2 DEF ToSet
<1>7. /\ queue = speakQueue[d] /\ some \subseteq ToSet(queue)
      /\ ToSet(queue) = {queue[i] : i \in 1..Len(queue)}
      /\ \A r \in ToSet(queue) :
           Queued(r) /\ DisplayOf[r] = d /\ r \notin handled \cup cancelled
      /\ \A i, j \in 1..Len(queue) : queue[i] = queue[j] => i = j
      /\ \A i \in 2..Len(queue) : queue[i] \notin Clear
  <2>1. ToSet(queue) = {queue[i] : i \in 1..Len(queue)}
    BY QueueElements
  <2>2. \A i \in 1..Len(queue) :
          Queued(queue[i]) /\ DisplayOf[queue[i]] = d /\ queue[i] \notin handled \cup cancelled
    BY DEF WaitsOnce, Queued
  <2>3. /\ \A i, j \in 1..Len(queue) : queue[i] = queue[j] => i = j
        /\ \A i \in 2..Len(queue) : queue[i] \notin Clear
    BY DEF WaitsOnce, ClearHeadsQueue
  <2> QED
    BY <2>1, <2>2, <2>3
<1> HIDE DEF w, queue
<1>8. \A r \in Request : Queued(r)' => Queued(r)
  <2> SUFFICES ASSUME NEW r \in Request, NEW e \in Display,
                      NEW i \in 1..Len(speakQueue'[e]), speakQueue'[e][i] = r
               PROVE  Queued(r)
    BY DEF Queued
  <2>1. CASE e = d
    BY <1>5, <1>6, <1>7, <2>1
  <2>2. CASE e # d
    BY <1>5, <2>2 DEF Queued
  <2> QED
    BY <2>1, <2>2
<1>9. CallServed' /\ StillCleared'
  BY DEF CallServed, StillCleared, Here
<1>10. NotHandedOver'
  <2>1. \A r \in Request : New(r)' => New(r)
    <3>1. \A r \in Request : replied'[r] = <<>> => replied[r] = <<>>
      <4>1. replied \in [Request -> Seq(Message)]
        BY DEF ServiceTypeOK, Message
      <4>2. \A r \in Request, m \in Message : Append(replied[r], m) # <<>>
        BY <4>1, AppendProperties, EmptySeq
      <4>3. \A r \in Request :
              \/ replied'[r] = replied[r]
              \/ \E m \in Message : replied'[r] = Append(replied[r], m)
        BY DEF CancelAll, Message, Handler!Response
      <4> QED
        BY <4>2, <4>3
    <3> QED
      BY <3>1 DEF New
  <2> QED
    BY <1>1, <1>7, <1>8, <2>1 DEF NotHandedOver
<1>11. WaitsOnce'
  <2>1. \A i, j \in 1..Len(w) : w[i] = w[j] => i = j
    BY <1>3, <1>7, WithoutKeepsUnique DEF w
  <2>2. ASSUME NEW e \in Display \ {d}, NEW i \in 1..Len(speakQueue[e])
        PROVE  speakQueue[e][i] \notin some
    BY <1>7 DEF WaitsOnce
  <2>3. ASSUME NEW e \in Display, NEW i \in 1..Len(speakQueue'[e])
        PROVE  /\ DisplayOf[speakQueue'[e][i]] = e
               /\ speakQueue'[e][i] \notin handled \cup cancelled \cup some
               /\ \A j \in 1..Len(speakQueue'[e]) :
                    speakQueue'[e][i] = speakQueue'[e][j] => i = j
    <3>1. CASE e = d
      <4>1. i \in 1..Len(w) /\ speakQueue'[e] = w /\ w[i] \in ToSet(queue) /\ w[i] \notin some
        BY <1>5, <1>6, <3>1
      <4>2. DisplayOf[w[i]] = d /\ w[i] \notin handled \cup cancelled
        BY <1>7, <4>1
      <4> QED
        BY ONLY <2>1, <3>1, <4>1, <4>2
    <3>2. CASE e # d
      <4>1. i \in 1..Len(speakQueue[e]) /\ speakQueue'[e] = speakQueue[e]
        BY <1>5, <3>2
      <4>2. /\ DisplayOf[speakQueue[e][i]] = e
            /\ speakQueue[e][i] \notin handled \cup cancelled
            /\ \A j \in 1..Len(speakQueue[e]) : speakQueue[e][i] = speakQueue[e][j] => i = j
        BY <4>1 DEF WaitsOnce
      <4>3. speakQueue[e][i] \notin some
        BY <2>2, <3>2, <4>1
      <4> QED
        BY ONLY <4>1, <4>2, <4>3
    <3> QED
      BY <3>1, <3>2
  <2> QED
    BY <1>1, <2>3 DEF WaitsOnce
<1>12. SpeaksItsOwn' /\ ToldByThen'
  BY <1>1, <1>7 DEF SpeaksItsOwn, ToldByThen
<1>13. ClearHeadsQueue'
  <2>1. \A i \in 2..Len(w) : w[i] \notin Clear
    BY <1>3, <1>7, WithoutKeepsBehind DEF w
  <2> QED
    BY <1>5, <2>1 DEF ClearHeadsQueue
<1> QED
  BY <1>1, <1>2, <1>4, <1>9, <1>10, <1>11, <1>12, <1>13

(***************************************************************************)
(* What removeRequest takes out of a queue was in it.                      *)
(***************************************************************************)
LEMMA RemovedIsQueued ==
  ASSUME ServiceTypeOK, NEW d \in Display, NEW call
  PROVE  Removed(speakQueue[d], call) \subseteq ToSet(speakQueue[d])
BY QueueElements DEF Removed, Scanned

(***************************************************************************)
(* Emptying the queue for a clear is taking all of it out; a stop takes    *)
(* out what it names.                                                      *)
(***************************************************************************)
LEMMA MainCancels ==
  ASSUME ServiceInv, ClearEmptiesQueue \/ StopRemoves
  PROVE  ServiceTypeOK' /\ CallsInv'
<1>0. ServiceTypeOK /\ CallServed
  BY DEF ServiceInv, CallsInv
<1>1. UNCHANGED <<hpc, running, handled, notified, speaking, stops, controlQueue,
                  clearing, cutByClear>>
  BY DEF ClearEmptiesQueue, StopRemoves, handlerVars, historyVars, controlVars
<1>2. CASE ClearEmptiesQueue
  <2> USE <1>2 DEF ClearEmptiesQueue
  <2> DEFINE some == ToSet(speakQueue[Here])
  <2>1. speaking \in Request /\ Here \in Display
    BY <1>0, ServiceAssumption DEF CallServed, Entering, Here, ServiceTypeOK
  <2>2. Without(speakQueue[Here], some) = <<>>
    <3>1. speakQueue[Here] \in Seq(Request)
          /\ \A i \in 1..Len(speakQueue[Here]) : speakQueue[Here][i] \in some
      BY <1>0, <2>1, QueueElements
    <3> QED
      BY <3>1, WithoutAll
  <2>3. speakQueue' = [speakQueue EXCEPT ![Here] = Without(speakQueue[Here], some)]
    BY <2>2 DEF ClearedQueue
  <2>4. speakQueue'[Here] = <<>>
    BY <1>0, <2>1 DEF ServiceTypeOK, ClearedQueue
  <2>5. /\ Entering /\ Entering' /\ mpc' = "enqueue"
        /\ CancelAll(some)
    BY DEF Entering
  <2>6. /\ cancelled' \subseteq Request
        /\ replied' \in [Request -> Seq(Message)]
        /\ speakQueue' \in [Display -> Seq(Request)]
        /\ CallsInv'
    BY <1>1, <2>1, <2>3, <2>4, <2>5, Cancels
  <2> QED
    BY <1>0, <1>1, <2>5, <2>6 DEF ServiceTypeOK, Message
<1>3. CASE StopRemoves
  <2> USE <1>3 DEF StopRemoves
  <2> DEFINE d == stopping.display
             some == Removed(speakQueue[d], stopping)
  <2>1. d \in Display
    BY <1>0, ServiceAssumption DEF CallServed
  <2>2. some \subseteq ToSet(speakQueue[d])
    BY <1>0, <2>1, RemovedIsQueued
  <2>3. /\ CancelAll(some)
        /\ speakQueue' = [speakQueue EXCEPT ![d] = Without(speakQueue[d], some)]
    BY DEF Kept
  <2>4. /\ mpc' = "idle" /\ stopping' = NoStop /\ found' = NoRequest
        /\ ~Entering /\ mpc # "reply" /\ ~Entering'
    BY DEF Entering
  <2> HIDE DEF d, some
  <2>5. /\ cancelled' \subseteq Request
        /\ replied' \in [Request -> Seq(Message)]
        /\ speakQueue' \in [Display -> Seq(Request)]
        /\ CallsInv'
    BY <1>1, <2>1, <2>2, <2>3, <2>4, Cancels
  <2> QED
    BY <1>0, <1>1, <2>4, <2>5 DEF ServiceTypeOK, Message
<1> QED
  BY <1>2, <1>3

(***************************************************************************)
(* The request that is appended was nowhere before; and if it has clear it *)
(* is alone in the queue, because nothing was appended since the clear has *)
(* emptied it.                                                             *)
(***************************************************************************)
LEMMA Queues ==
  ASSUME ServiceInv, Enqueue
  PROVE  ServiceTypeOK' /\ CallsInv'
<1> USE DEF ServiceInv, CallsInv, Enqueue
<1>1. /\ found' = NoRequest
      /\ UNCHANGED <<hpc, running, handled, notified, speaking, stopping, replied,
                     cancelled, stops, controlQueue, clearing, cutByClear>>
  BY DEF handlerVars, historyVars, controlVars
<1>2. /\ speaking \in Request /\ Here \in Display /\ DisplayOf[speaking] = Here
      /\ speaking \notin handled \cup cancelled /\ ~Queued(speaking)
      /\ speaking \notin Rejected
  BY ServiceAssumption DEF CallServed, Entering, Here, ServiceTypeOK, NotHandedOver
<1> DEFINE d == Here
           queue == speakQueue[d]
<1>3. /\ speakQueue \in [Display -> Seq(Request)] /\ queue \in Seq(Request)
      /\ speakQueue' = [speakQueue EXCEPT ![d] = Append(queue, speaking)]
  BY <1>2 DEF ServiceTypeOK
<1>4. /\ Append(queue, speaking) \in Seq(Request)
      /\ Len(Append(queue, speaking)) = Len(queue) + 1
      /\ Append(queue, speaking)[Len(queue) + 1] = speaking
      /\ \A i \in 1..Len(queue) : Append(queue, speaking)[i] = queue[i]
      /\ Len(queue) \in Nat
  BY <1>2, <1>3, AppendProperties, LenProperties
<1>5. /\ speakQueue' \in [Display -> Seq(Request)]
      /\ speakQueue'[d] = Append(queue, speaking)
      /\ \A e \in Display \ {d} : speakQueue'[e] = speakQueue[e]
  BY <1>2, <1>3, <1>4
<1>6. \A i \in 1..Len(speakQueue'[d]) :
        \/ i \in 1..Len(queue) /\ speakQueue'[d][i] = queue[i]
        \/ i = Len(queue) + 1 /\ speakQueue'[d][i] = speaking
  BY <1>4, <1>5
<1>7. d = Here /\ queue = speakQueue[d]
  OBVIOUS
<1> HIDE DEF d, queue
<1>8. ServiceTypeOK'
  BY <1>1, <1>5 DEF ServiceTypeOK
<1>9. CallServed' /\ StillCleared'
  BY <1>1, <1>2 DEF CallServed, Entering, StillCleared
<1>10. \A r \in Request : Queued(r)' => Queued(r) \/ r = speaking
  <2> SUFFICES ASSUME NEW r \in Request, NEW e \in Display,
                      NEW i \in 1..Len(speakQueue'[e]), speakQueue'[e][i] = r
               PROVE  Queued(r) \/ r = speaking
    BY DEF Queued
  <2>1. CASE e = d
    BY <1>6, <1>7, <2>1 DEF Queued
  <2>2. CASE e # d
    BY <1>5, <2>2 DEF Queued
  <2> QED
    BY <2>1, <2>2
<1>11. NotHandedOver'
  <2>1. ~Entering' /\ (\A r \in Request : New(r)' => New(r) /\ r # speaking)
    BY <1>1 DEF New, Entering
  <2> QED
    BY <1>1, <1>2, <1>10, <2>1 DEF NotHandedOver
<1>12. WaitsOnce'
  <2> SUFFICES ASSUME NEW e \in Display, NEW i \in 1..Len(speakQueue'[e])
               PROVE  /\ DisplayOf[speakQueue'[e][i]] = e
                      /\ speakQueue'[e][i] \notin handled \cup cancelled
                      /\ \A j \in 1..Len(speakQueue'[e]) :
                           speakQueue'[e][i] = speakQueue'[e][j] => i = j
    BY <1>1 DEF WaitsOnce
  <2>1. CASE e = d
    <3>1. \A j \in 1..Len(queue) :
            /\ DisplayOf[queue[j]] = d /\ queue[j] # speaking
            /\ queue[j] \notin handled \cup cancelled
            /\ \A k \in 1..Len(queue) : queue[j] = queue[k] => j = k
      BY <1>2, <1>7 DEF WaitsOnce, Queued
    <3>2. DisplayOf[speaking] = d
      BY <1>2, <1>7
    <3> QED
      BY <1>2, <1>6, <2>1, <3>1, <3>2
  <2>2. CASE e # d
    BY <1>5, <2>2 DEF WaitsOnce
  <2> QED
    BY <2>1, <2>2
<1>13. SpeaksItsOwn' /\ ToldByThen' /\ CancelToldOnce'
  BY <1>1 DEF SpeaksItsOwn, ToldByThen, CancelToldOnce, TimesToldCancelled
<1>14. ClearHeadsQueue'
  <2>1. \A i \in 2..Len(speakQueue'[d]) : speakQueue'[d][i] \notin Clear
    <3>1. CASE speaking \in Clear
      <4>1. queue = <<>>
        BY <1>7, <3>1 DEF StillCleared
      <4>2. Len(speakQueue'[d]) = 1
        BY <1>4, <1>5, <4>1, EmptySeq
      <4> QED
        BY <4>2
    <3>2. CASE speaking \notin Clear
      <4>1. \A i \in 2..Len(queue) : queue[i] \notin Clear
        BY <1>2, <1>7 DEF ClearHeadsQueue
      <4>2. \A i \in 2..Len(speakQueue'[d]) : i \in 1..Len(speakQueue'[d])
        OBVIOUS
      <4>3. \A i \in 1..Len(queue) : i = 1 \/ i \in 2..Len(queue)
        BY <1>4
      <4>4. \A i \in 2..Len(speakQueue'[d]) : i # 1
        OBVIOUS
      <4> QED
        BY <1>6, <3>2, <4>1, <4>2, <4>3, <4>4
    <3> QED
      BY <3>1, <3>2
  <2> QED
    BY <1>5, <2>1 DEF ClearHeadsQueue
<1> QED
  BY <1>8, <1>9, <1>11, <1>12, <1>13, <1>14

-------------------------------------------------------------------------------
(* The dispatchers *)

(***************************************************************************)
(* What a dispatcher takes: the oldest request of its display, when no     *)
(* request runs there.                                                     *)
(***************************************************************************)
LEMMA Taken ==
  ASSUME ServiceInv, NEW d \in Display, TakeSpeak(d)
  PROVE  /\ Head(speakQueue[d]) \in Request /\ speakQueue[d] # <<>>
         /\ Head(speakQueue[d]) = speakQueue[d][1] /\ 1 \in 1..Len(speakQueue[d])
         /\ hpc[d] = "idle" /\ running[d] = NoRequest
         /\ hpc \in [Display -> {"idle", "enter", "speak", "synthesis", "audio",
                                 "settle", "notify", "remove"}]
         /\ running \in [Display -> Request \cup {NoRequest}]
         /\ hpc' = [hpc EXCEPT ![d] = "enter"]
         /\ running' = [running EXCEPT ![d] = Head(speakQueue[d])]
         /\ handled' = handled \cup {Head(speakQueue[d])}
         /\ speakQueue' = [speakQueue EXCEPT ![d] = Tail(speakQueue[d])]
         /\ UNCHANGED <<notified, mainVars, controlVars>>
<1> USE DEF TakeSpeak, NextToSpeak
<1>1. speakQueue[d] \in Seq(Request) /\ speakQueue[d] # <<>>
  BY QueueElements DEF ServiceInv
<1>2. /\ Head(speakQueue[d]) \in Request
      /\ Head(speakQueue[d]) = speakQueue[d][1] /\ 1 \in 1..Len(speakQueue[d])
  <2> DEFINE queue == speakQueue[d]
  <2> HIDE DEF queue
  <2>1. queue \in Seq(Request) /\ queue # <<>>
    BY <1>1 DEF queue
  <2>2. Len(queue) \in Nat /\ Len(queue) # 0
    BY <2>1, LenProperties, EmptySeq
  <2>3. 1 \in 1..Len(queue)
    BY <2>2
  <2>4. Head(queue) = queue[1] /\ queue[1] \in Request
    BY <2>1, <2>3, HeadTailProperties, ElementOfSeq
  <2> QED
    BY <2>3, <2>4 DEF queue
<1>3. /\ hpc \in [Display -> {"idle", "enter", "speak", "synthesis", "audio",
                              "settle", "notify", "remove"}]
      /\ running \in [Display -> Request \cup {NoRequest}]
      /\ running[d] = NoRequest <=> hpc[d] = "idle"
  BY DEF ServiceInv, Handler!HandlerInv, Handler!TypeOK, Handler!InfoNamesRunning
<1> QED
  BY <1>1, <1>2, <1>3 DEF Handler!HandleSpeak

(***************************************************************************)
(* Taking a request moves it from the queue to the speak thread of its own *)
(* display.                                                                *)
(***************************************************************************)
LEMMA Takes ==
  ASSUME ServiceInv, NEW d \in Display, TakeSpeak(d)
  PROVE  ServiceTypeOK' /\ CallsInv'
<1> USE DEF ServiceInv, CallsInv
<1> DEFINE queue == speakQueue[d]
           r == Head(queue)
<1>1. /\ r \in Request /\ queue # <<>> /\ r = queue[1] /\ 1 \in 1..Len(queue)
      /\ hpc[d] = "idle" /\ running[d] = NoRequest
      /\ hpc \in [Display -> {"idle", "enter", "speak", "synthesis", "audio",
                              "settle", "notify", "remove"}]
      /\ running \in [Display -> Request \cup {NoRequest}]
      /\ hpc' = [hpc EXCEPT ![d] = "enter"]
      /\ running' = [running EXCEPT ![d] = r]
      /\ handled' = handled \cup {r}
      /\ speakQueue' = [speakQueue EXCEPT ![d] = Tail(queue)]
      /\ UNCHANGED <<notified, mpc, speaking, stopping, found, replied, cancelled, stops,
                     controlQueue, clearing, cutByClear>>
  BY Taken DEF mainVars, controlVars
<1>2. /\ queue \in Seq(Request) /\ Tail(queue) \in Seq(Request)
      /\ Len(queue) \in Nat
      /\ Len(Tail(queue)) = Len(queue) - 1
      /\ \A i \in 1..Len(Tail(queue)) : Tail(queue)[i] = queue[i + 1]
  BY <1>1, QueueElements, HeadTailProperties, LenProperties
<1>3. speakQueue \in [Display -> Seq(Request)]
  BY DEF ServiceTypeOK
<1>4. /\ speakQueue' \in [Display -> Seq(Request)]
      /\ speakQueue'[d] = Tail(queue)
      /\ \A e \in Display \ {d} : speakQueue'[e] = speakQueue[e]
  BY <1>1, <1>2, <1>3
<1>5. queue = speakQueue[d]
  OBVIOUS
<1> HIDE DEF queue, r
<1>6. \A i \in 1..Len(speakQueue'[d]) :
        i + 1 \in 2..Len(queue) /\ i + 1 \in 1..Len(queue) /\ speakQueue'[d][i] = queue[i + 1]
  BY <1>2, <1>4
<1>7. \A i \in 1..Len(queue) :
        /\ DisplayOf[queue[i]] = d /\ queue[i] \notin handled \cup cancelled
        /\ \A j \in 1..Len(queue) : queue[i] = queue[j] => i = j
  BY <1>5 DEF WaitsOnce
<1>8. Queued(r)
  BY <1>1, <1>5 DEF Queued
<1>9. \A q \in Request : Queued(q)' => Queued(q)
  <2> SUFFICES ASSUME NEW q \in Request, NEW e \in Display,
                      NEW i \in 1..Len(speakQueue'[e]), speakQueue'[e][i] = q
               PROVE  Queued(q)
    BY DEF Queued
  <2>1. CASE e = d
    BY <1>5, <1>6, <2>1 DEF Queued
  <2>2. CASE e # d
    BY <1>4, <2>2 DEF Queued
  <2> QED
    BY <2>1, <2>2
<1>10. ServiceTypeOK'
  BY <1>1, <1>4 DEF ServiceTypeOK
<1>11. CallServed' /\ CancelToldOnce'
  BY <1>1 DEF CallServed, Entering, CancelToldOnce, TimesToldCancelled
<1>12. NotHandedOver'
  BY <1>1, <1>8, <1>9 DEF NotHandedOver, New, Entering
<1>13. WaitsOnce'
  <2>1. handled' = handled \cup {r} /\ cancelled' = cancelled
    BY <1>1
  <2>2. ASSUME NEW e \in Display, NEW i \in 1..Len(speakQueue'[e])
        PROVE  /\ DisplayOf[speakQueue'[e][i]] = e
               /\ speakQueue'[e][i] \notin handled \cup cancelled \cup {r}
               /\ \A j \in 1..Len(speakQueue'[e]) :
                    speakQueue'[e][i] = speakQueue'[e][j] => i = j
    <3>1. CASE e = d
      <4>1. \A j \in 1..Len(speakQueue'[d]) : j + 1 # 1 /\ (i + 1 = j + 1 => i = j)
        <5>1. \A k, j \in Nat \ {0} : j + 1 # 1 /\ (k + 1 = j + 1 => k = j)
          OBVIOUS
        <5>2. Len(speakQueue'[d]) \in Nat /\ i \in 1..Len(speakQueue'[d])
          BY <1>2, <1>4, <3>1, LenProperties
        <5>3. \A j \in 1..Len(speakQueue'[d]) : j \in Nat \ {0}
          BY ONLY <5>2
        <5> QED
          BY ONLY <5>1, <5>2, <5>3
      <4>2. i + 1 \in 1..Len(queue) /\ speakQueue'[d][i] = queue[i + 1]
        BY <1>6, <3>1
      <4>3. queue[i + 1] # r
        BY <1>1, <1>7, <3>1, <4>1, <4>2
      <4>4. ASSUME NEW j \in 1..Len(speakQueue'[d]), speakQueue'[d][i] = speakQueue'[d][j]
            PROVE  i = j
        <5>1. j + 1 \in 1..Len(queue) /\ speakQueue'[d][j] = queue[j + 1]
          BY <1>6
        <5>2. i + 1 = j + 1
          BY <1>7, <4>2, <4>4, <5>1
        <5> QED
          BY <4>1, <5>2
      <4>5. DisplayOf[queue[i + 1]] = d /\ queue[i + 1] \notin handled \cup cancelled
        BY <1>7, <4>2
      <4> QED
        BY ONLY <3>1, <4>2, <4>3, <4>4, <4>5
    <3>2. CASE e # d
      <4>1. DisplayOf[r] = d
        BY <1>1, <1>7
      <4> QED
        BY <1>4, <3>2, <4>1 DEF WaitsOnce
    <3> QED
      BY <3>1, <3>2
  <2> QED
    BY <2>1, <2>2 DEF WaitsOnce
<1>14. SpeaksItsOwn'
  BY <1>1, <1>7 DEF SpeaksItsOwn
<1>15. ToldByThen'
  <2>1. NoRequest \notin Request /\ handled \subseteq Request
    BY ServiceAssumption DEF Handler!HandlerInv, Handler!TypeOK
  <2> QED
    BY <1>1, <2>1 DEF ToldByThen
<1>16. StillCleared'
  <2>1. mpc = "enqueue" => Here \in Display
    BY ServiceAssumption DEF CallServed, Entering, Here, ServiceTypeOK
  <2>2. mpc = "enqueue" /\ speaking \in Clear => Here # d
    BY <1>1, <1>5 DEF StillCleared
  <2> QED
    BY <1>1, <1>4, <2>1, <2>2 DEF StillCleared, Here
<1>17. ClearHeadsQueue'
  <2>1. \A i \in 2..Len(speakQueue'[d]) : speakQueue'[d][i] \notin Clear
    <3>1. \A i \in 2..Len(speakQueue'[d]) : i \in 1..Len(speakQueue'[d])
      OBVIOUS
    <3> QED
      BY <1>5, <1>6, <3>1 DEF ClearHeadsQueue
  <2> QED
    BY <1>4, <2>1 DEF ClearHeadsQueue
<1> QED
  BY <1>10, <1>11, <1>12, <1>13, <1>14, <1>15, <1>16, <1>17

(***************************************************************************)
(* A step of a speak thread tells a subscribed client how its request      *)
(* ended exactly once, before the request is let go of.                    *)
(***************************************************************************)
LEMMA Speaks ==
  ASSUME ServiceInv, NEW d \in Display, SpeakThread(d)
  PROVE  ServiceTypeOK' /\ CallsInv'
<1> USE DEF ServiceInv, CallsInv
<1>1. /\ UNCHANGED <<handled, mpc, speaking, stopping, found, replied, cancelled, stops,
                     speakQueue, controlQueue, clearing, cutByClear>>
      /\ Continues \/ Tells(d) \/ LetsGo(d)
  BY SpeakFrame DEF SpeakThread, mainVars, controlVars
<1>2. ServiceTypeOK'
  BY <1>1 DEF ServiceTypeOK
<1>3. CallServed' /\ NotHandedOver' /\ WaitsOnce'
  BY <1>1 DEF CallServed, Entering, NotHandedOver, New, Queued, WaitsOnce
<1>4. CancelToldOnce' /\ StillCleared' /\ ClearHeadsQueue'
  BY <1>1 DEF CancelToldOnce, TimesToldCancelled, StillCleared, Here, ClearHeadsQueue
<1>5. /\ NoRequest \notin Request /\ handled \subseteq Request
      /\ running \in [Display -> Request \cup {NoRequest}]
      /\ notified \in [Request -> Seq({"ERROR", "DONE", "STOP", "LANG_ERR"})]
  BY ServiceAssumption DEF Handler!HandlerInv, Handler!TypeOK
<1>6. CASE Continues
  BY <1>1, <1>2, <1>3, <1>4, <1>6 DEF SpeaksItsOwn, ToldByThen, Continues
<1>7. CASE Tells(d)
  <2>1. SpeaksItsOwn'
    BY <1>1, <1>7 DEF SpeaksItsOwn, Tells
  <2>2. ASSUME NEW r \in handled \cap Subscribed
        PROVE  \/ DisplayOf[r] \notin Loaded
               \/ \E e \in Display : running'[e] = r /\ hpc'[e] # "remove"
               \/ Len(notified'[r]) = 1
    <3>1. CASE r = running[d]
      <4>1. notified'[r] = Append(<<>>, Handler!Response(r, eStatus[r]))
        BY <1>5, <1>7, <2>2, <3>1 DEF Tells
      <4> QED
        BY <4>1
    <3>2. CASE r # running[d]
      <4>1. notified'[r] = notified[r]
        BY <1>5, <1>7, <2>2, <3>2 DEF Tells
      <4> QED
        BY <1>5, <1>7, <2>2, <3>2, <4>1 DEF ToldByThen, Tells
    <3> QED
      BY <3>1, <3>2
  <2> QED
    BY <1>1, <1>2, <1>3, <1>4, <2>1, <2>2 DEF ToldByThen
<1>8. CASE LetsGo(d)
  <2>1. SpeaksItsOwn'
    BY <1>1, <1>5, <1>8 DEF SpeaksItsOwn, LetsGo
  <2>2. ToldByThen'
    BY <1>1, <1>5, <1>8 DEF ToldByThen, LetsGo, SpeaksItsOwn, Handler!HandlerInv,
          Handler!RunsOnOneDisplay
  <2> QED
    BY <1>2, <1>3, <1>4, <2>1, <2>2
<1> QED
  BY <1>1, <1>2, <1>3, <1>4, <1>6, <1>7, <1>8

(***************************************************************************)
(* The control threads and the speech server leave the calls alone.        *)
(***************************************************************************)
LEMMA ControlGoesOn ==
  ASSUME ServiceInv, NEW d \in Display, ControlDispatcher(d) \/ Server(d)
  PROVE  ServiceTypeOK' /\ CallsInv'
<1> USE DEF ControlDispatcher
<1>1. UNCHANGED <<hpc, running, handled, notified, mpc, speaking, stopping, found, replied,
                  cancelled, stops, speakQueue>>
  BY ControlFrame DEF TakeStop, StopMarks, StopFlags, Server, mainVars
<1>2. ServiceTypeOK'
  <2>1. ServiceTypeOK /\ info \in [Display -> [req : Request \cup {NoRequest},
                                                msgStatus : {"none", "PLAY", "STOP"}]]
        /\ (info[d] # NoInfo => info[d].req \in Request)
    BY DEF ServiceInv, Handler!HandlerInv, Handler!TypeOK, Handler!InfoNamesRunning,
           NoInfo
  <2>2. controlQueue' \in [Display -> Seq(Request \cup {NoRequest})]
        /\ clearing' \in [Display -> Request \cup {NoRequest}]
        /\ cutByClear' \subseteq Request \X Request
    <3>1. CASE TakeStop(d)
      <4>1. controlQueue[d] \in Seq(Request \cup {NoRequest}) /\ controlQueue[d] # <<>>
        BY <2>1, <3>1 DEF TakeStop, ServiceTypeOK
      <4>2. Head(controlQueue[d]) \in Request \cup {NoRequest}
            /\ Tail(controlQueue[d]) \in Seq(Request \cup {NoRequest})
        BY <4>1, HeadTailProperties
      <4> QED
        BY <2>1, <3>1, <4>2 DEF TakeStop, ServiceTypeOK
    <3>2. CASE StopMarks(d)
      BY <2>1, <3>2 DEF StopMarks, ClearCuts, ServiceTypeOK
    <3>3. CASE StopFlags(d)
      <4>1. PICK r \in Request \cup {NoRequest} : ClearCuts(d, r)
        BY <3>3 DEF StopFlags, ServiceInv, Handler!HandlerInv, Handler!TypeOK
      <4> QED
        BY <2>1, <3>3, <4>1 DEF StopFlags, ClearCuts, ServiceTypeOK
    <3>4. CASE Server(d)
      BY <2>1, <3>4 DEF Server, ServiceTypeOK, controlVars
    <3> QED
      BY <3>1, <3>2, <3>3, <3>4
  <2> QED
    BY <1>1, <2>1, <2>2 DEF ServiceTypeOK
<1>3. CallsInv'
  BY <1>1, CallGoesOn DEF Entering, ServiceInv, CallsInv, CallServed
<1> QED
  BY <1>2, <1>3

-------------------------------------------------------------------------------
(* What a clear or a stop has found *)

\* A request that runs and had been handled before ran before, and was no earlier.
Moves(d) ==
  running'[d] \in handled =>
    /\ running'[d] = running[d]
    /\ hpc'[d] = "enter" => hpc[d] = "enter"
    /\ Handler!Unsettled(d)' => hpc[d] = "enter" \/ Handler!Unsettled(d)

(***************************************************************************)
(* Whatever the dispatchers do, a request that was handled before the step *)
(* and runs after it has run all along, and has not gone back in           *)
(* handleRequest; and no mark is taken back.                               *)
(***************************************************************************)
LEMMA HandlerMoves ==
  ASSUME Handler!HandlerInv, Handler!Next \/ UNCHANGED handlerVars
  PROVE  /\ handled \subseteq handled' /\ marked \subseteq marked'
         /\ \A d \in Display : Moves(d)
<1> USE DEF Handler!Unsettled
<1>0. /\ hpc \in [Display -> {"idle", "enter", "speak", "synthesis", "audio",
                              "settle", "notify", "remove"}]
      /\ running \in [Display -> Request \cup {NoRequest}]
      /\ handled \subseteq Request /\ NoRequest \notin Request
  BY ServiceAssumption DEF Handler!HandlerInv, Handler!TypeOK
<1>1. CASE UNCHANGED handlerVars
  BY <1>1 DEF handlerVars, historyVars, Moves
<1>2. ASSUME NEW d \in Display, NEW r \in Request, Handler!HandleSpeak(d, r)
      PROVE  /\ handled \subseteq handled' /\ marked \subseteq marked'
             /\ \A e \in Display : Moves(e)
  BY <1>0, <1>2 DEF Handler!HandleSpeak, Moves
<1>3. ASSUME NEW d \in Display,
             \/ Handler!HandleStop(d) \/ Handler!MarkByClear(d) \/ Handler!ControlThread(d)
             \/ Handler!Server(d)
      PROVE  /\ handled \subseteq handled' /\ marked \subseteq marked'
             /\ \A e \in Display : Moves(e)
  <2>1. UNCHANGED <<hpc, running, handled>>
    BY <1>3, ControlFrame DEF Handler!ControlThread
  <2>2. marked \subseteq marked'
    BY <1>3 DEF Handler!HandleStop, Handler!MarkByClear, Handler!ControlThread,
                Handler!MarkStop, Handler!StopTts, Handler!StopAudio, Handler!Server,
                Handler!UpdateToStop, Handler!historyVars
  <2> QED
    BY <2>1, <2>2 DEF Moves
<1>4. ASSUME NEW d \in Display, Handler!SpeakThread(d)
      PROVE  /\ handled \subseteq handled' /\ marked \subseteq marked'
             /\ \A e \in Display : Moves(e)
  <2>1. UNCHANGED <<handled, marked>>
    BY <1>4 DEF Handler!SpeakThread, Handler!EngineMissing, Handler!SaveInfo,
                Handler!CallSpeak, Handler!SynthesisStep, Handler!CallPlay,
                Handler!NoSpeechToPlay, Handler!AudioStep, Handler!Played, Handler!Settle,
                Handler!Notify, Handler!RemoveInfo, Handler!historyVars
  <2>2. \A e \in Display : Moves(e)
    <3>1. CASE Handler!EngineMissing(d) \/ Handler!RemoveInfo(d)
      BY <1>0, <3>1 DEF Handler!EngineMissing, Handler!RemoveInfo, Handler!SpeakReturns, Moves
    <3>2. CASE Handler!SaveInfo(d) \/ Handler!CallSpeak(d) \/ Handler!CallPlay(d)
      BY <1>0, <3>2 DEF Handler!SaveInfo, Handler!CallSpeak, Handler!CallPlay, Moves
    <3>3. CASE \/ Handler!NoSpeechToPlay(d) \/ Handler!Played(d) \/ Handler!Settle(d)
               \/ Handler!Notify(d)
      BY <1>0, <3>3 DEF Handler!NoSpeechToPlay, Handler!Played, Handler!Settle,
                        Handler!Notify, Moves
    <3>4. CASE Handler!SynthesisStep(d) \/ Handler!AudioStep(d)
      BY <3>4 DEF Handler!SynthesisStep, Handler!AudioStep, Handler!speakVars, Moves
    <3> QED
      BY <1>4, <3>1, <3>2, <3>3, <3>4 DEF Handler!SpeakThread
  <2> QED
    BY <2>1, <2>2
<1> QED
  BY <1>1, <1>2, <1>3, <1>4 DEF Handler!Next

(***************************************************************************)
(* So what a clear or a stop has found stays found while the main thread   *)
(* is where it was,                                                        *)
(***************************************************************************)
LEMMA FoundStays ==
  ASSUME ServiceInv, Handler!Next \/ UNCHANGED handlerVars,
         UNCHANGED <<mpc, speaking, found>>
  PROVE  FoundInv'
<1>1. /\ FoundInv /\ handled \subseteq handled' /\ marked \subseteq marked'
      /\ \A d \in Display : Moves(d)
  BY HandlerMoves DEF ServiceInv
<1>2. Entering => Here \in Display
  BY ServiceAssumption
     DEF ServiceInv, CallsInv, CallServed, Entering, Here, ServiceTypeOK
<1>3. Here' = Here /\ (Entering' <=> Entering)
  BY DEF Here, Entering
<1>4. ASSUME Entering, found # NoRequest, found = running'[Here]
      PROVE  /\ found = running[Here]
             /\ hpc'[Here] # "enter"
             /\ Handler!Unsettled(Here)' => Handler!Unsettled(Here)
  <2>1. found \in handled /\ Moves(Here)
    BY <1>1, <1>2, <1>4 DEF FoundInv, FoundIsPublished
  <2>2. found = running[Here]
    BY <1>4, <2>1 DEF Moves
  <2>3. hpc[Here] # "enter"
    BY <1>1, <1>4, <2>2 DEF FoundInv, FoundIsPublished
  <2> QED
    BY <1>4, <2>1, <2>2, <2>3 DEF Moves
<1>5. FoundIsPublished'
  BY <1>1, <1>3, <1>4 DEF FoundInv, FoundIsPublished
<1>6. ClearStopsFound'
  <2> SUFFICES ASSUME mpc \in {"clear_queue", "enqueue"}, found # NoRequest,
                      found = running'[Here], Handler!Unsettled(Here)'
               PROVE  found \in marked'
    BY <1>3 DEF ClearStopsFound
  <2>1. Entering
    BY DEF Entering
  <2> QED
    BY <1>1, <1>4, <2>1 DEF FoundInv, ClearStopsFound
<1> QED
  BY <1>5, <1>6 DEF FoundInv

(***************************************************************************)
(* and the steps of the main thread find what is published, and mark it    *)
(* before they empty the queue if it was not marked already.               *)
(***************************************************************************)
LEMMA MainFinds ==
  ASSUME ServiceInv,
         \/ MainContinues
         \/ \E r \in Request : SpeakRefused(r) \/ SpeakCalled(r)
         \/ \E call \in StopCall : StopCalled(call)
  PROVE  FoundInv'
<1> USE DEF FoundInv, FoundIsPublished
<1>0. /\ FoundInv
      /\ Entering => Here \in Display
      /\ \A d \in Display : info[d].req # NoRequest =>
           /\ info[d] # NoInfo /\ info[d].req = running[d]
           /\ hpc[d] # "enter" /\ running[d] \in handled
           /\ Handler!Unsettled(d) /\ info[d].msgStatus # "PLAY" => running[d] \in marked
  <2>1. Entering => Here \in Display
    BY ServiceAssumption
       DEF ServiceInv, CallsInv, CallServed, Entering, Here, ServiceTypeOK
  <2> QED
    BY <2>1, ServiceAssumption
       DEF ServiceInv, NoInfo, Handler!NoInfo, Handler!HandlerInv, Handler!InfoNamesRunning,
           Handler!HandledBefore, Handler!StatusSoFar
<1>1. CASE ClearReadsInfo
  <2>1. /\ Entering /\ mpc' \in {"clear_stop", "clear_queue"} /\ found' = info[Here].req
        /\ mpc' = "clear_queue" => ~PlaysHere
        /\ UNCHANGED <<speaking, hpc, running, handled, marked>>
    BY <1>1 DEF ClearReadsInfo, AfterClearCheck, Entering, handlerVars, historyVars
  <2>2. Here' = Here
    BY <2>1 DEF Here
  <2>3. FoundIsPublished'
    BY <1>0, <2>1, <2>2
  <2>4. ClearStopsFound'
    BY <1>0, <2>1, <2>2 DEF ClearStopsFound, PlaysHere, Handler!Unsettled
  <2> QED
    BY <2>3, <2>4
<1>2. CASE ClearQueuesStop \/ ClearEmptiesQueue \/ StopQueuesControl
  <2>1. UNCHANGED <<speaking, hpc, running, handled, marked, found>>
    BY <1>2 DEF ClearQueuesStop, ClearEmptiesQueue, StopQueuesControl, handlerVars, historyVars
  <2>2. Here' = Here
    BY <2>1 DEF Here
  <2>3. FoundIsPublished'
    BY <1>0, <1>2, <2>1, <2>2
       DEF ClearQueuesStop, ClearEmptiesQueue, StopQueuesControl, Entering
  <2>4. ClearStopsFound'
    BY <1>0, <1>2, <2>1, <2>2
       DEF ClearQueuesStop, ClearEmptiesQueue, StopQueuesControl, ClearStopsFound,
           Handler!Unsettled
  <2> QED
    BY <2>3, <2>4
<1>3. CASE ClearMarks
  <2>1. /\ mpc = "clear_mark" /\ mpc' = "clear_queue" /\ Entering
        /\ UNCHANGED <<speaking, hpc, running, handled, found>>
        /\ Handler!Unsettled(Here) => running[Here] \in marked'
    BY <1>3, ControlFrame
       DEF ClearMarks, Handler!MarkByClear, Handler!UpdateToStop, Entering
  <2>2. Here' = Here
    BY <2>1 DEF Here
  <2>3. FoundIsPublished'
    BY <1>0, <2>1, <2>2
  <2>4. ClearStopsFound'
    BY <2>1, <2>2 DEF ClearStopsFound, Handler!Unsettled
  <2> QED
    BY <2>3, <2>4
<1>4. CASE Enqueue \/ StopRemoves
  BY <1>4 DEF Enqueue, StopRemoves, ClearStopsFound
<1>5. CASE \/ Start \/ SpeakReplies
           \/ \E r \in Request : SpeakRefused(r) \/ SpeakCalled(r)
  <2>1. found' = NoRequest
    BY <1>0, <1>5 DEF Start, SpeakReplies, SpeakRefused, SpeakCalled
  <2> QED
    BY <2>1 DEF ClearStopsFound
<1>6. ASSUME NEW call \in StopCall, StopCalled(call)
      PROVE  FoundInv'
  <2>1. call.display \in Display
    BY ServiceAssumption
  <2>2. /\ mpc' \in {"stop_control", "stop_queue"} /\ handled' = handled
        /\ found' = NoRequest \/ (found' = info[call.display].req)
    BY <1>6 DEF StopCalled, handlerVars, historyVars
  <2>3. ~Entering' /\ (found' # NoRequest => found' \in handled')
    BY <1>0, <2>1, <2>2 DEF Entering
  <2> QED
    BY <2>2, <2>3 DEF ClearStopsFound
<1> QED
  BY <1>1, <1>2, <1>3, <1>4, <1>5, <1>6 DEF MainContinues

-------------------------------------------------------------------------------
(* The invariant, and what follows from it *)

(***************************************************************************)
(* The invariant holds when the service starts;                            *)
(***************************************************************************)
LEMMA InitServiceInv == Init => ServiceInv
<1> SUFFICES ASSUME Init
             PROVE  ServiceInv
  OBVIOUS
<1> USE DEF Init
<1>1. Handler!HandlerInv /\ Handler!EnginesInv
  BY HandlerStarts
<1>2. running = [d \in Display |-> NoRequest] /\ handled = {}
  BY DEF Handler!Init
<1>3. ServiceTypeOK
  <2>1. stops \in 0..MaxStops
    BY ServiceAssumption
  <2>2. /\ speakQueue \in [Display -> Seq(Request)]
        /\ controlQueue \in [Display -> Seq(Request \cup {NoRequest})]
        /\ replied \in [Request -> Seq(Message)]
    BY EmptySeq
  <2> QED
    BY <2>1, <2>2 DEF ServiceTypeOK, Message
<1>4. CallServed /\ NotHandedOver /\ WaitsOnce /\ ClearHeadsQueue /\ StillCleared
  BY <1>2, ServiceAssumption, EmptySeq
     DEF CallServed, Entering, NotHandedOver, New, Queued, WaitsOnce, ClearHeadsQueue,
         StillCleared
<1>5. SpeaksItsOwn /\ ToldByThen /\ FoundInv
  BY <1>2 DEF SpeaksItsOwn, ToldByThen, FoundInv, FoundIsPublished, ClearStopsFound
<1>6. CancelToldOnce
  <2>1. ASSUME NEW r \in Request
        PROVE  TimesToldCancelled(r) = 0
    <3>1. replied[r] = <<>>
      OBVIOUS
    <3>2. Count(replied[r], "CANCEL") = 0
      BY <3>1, CountEmpty
    <3> QED
      BY <3>2 DEF TimesToldCancelled, Count
  <2> QED
    BY <2>1 DEF CancelToldOnce
<1> QED
  BY <1>1, <1>3, <1>4, <1>5, <1>6 DEF ServiceInv, CallsInv

(***************************************************************************)
(* every step of the service is one of the handler or leaves it alone;     *)
(***************************************************************************)
LEMMA HandlerSteps ==
  ASSUME ServiceInv, [Next]_vars
  PROVE  Handler!Next \/ UNCHANGED handlerVars
<1>1. ASSUME NEW d \in Display, TakeSpeak(d)
      PROVE  Handler!Next
  <2>1. Handler!HandleSpeak(d, Head(speakQueue[d])) /\ Head(speakQueue[d]) \in Request
    BY <1>1, Taken DEF TakeSpeak, NextToSpeak
  <2> QED
    BY <2>1 DEF Handler!Next
<1>2. ASSUME NEW d \in Display, SpeakThread(d) \/ ControlDispatcher(d) \/ Server(d)
      PROVE  Handler!Next
  BY <1>2 DEF SpeakThread, ControlDispatcher, TakeStop, StopMarks, StopFlags, Server,
              Handler!Next, Handler!ControlThread
<1>3. CASE MainContinues
  <2>1. CASE ClearMarks
    <3>1. Here \in Display
      BY <2>1, ServiceAssumption
         DEF ClearMarks, ServiceInv, CallsInv, CallServed, Entering, Here, ServiceTypeOK
    <3> QED
      BY <2>1, <3>1 DEF ClearMarks, Handler!Next
  <2> QED
    BY <1>3, <2>1
       DEF MainContinues, Start, ClearReadsInfo, ClearQueuesStop, ClearEmptiesQueue,
           Enqueue, SpeakReplies, StopQueuesControl, StopRemoves
<1>4. CASE \/ \E r \in Request : SpeakRefused(r) \/ SpeakCalled(r)
           \/ \E call \in StopCall : StopCalled(call)
  BY <1>4 DEF SpeakRefused, SpeakCalled, StopCalled
<1>5. CASE Quiet \/ UNCHANGED vars
  BY <1>5 DEF Quiet, vars
<1> QED
  BY <1>1, <1>2, <1>3, <1>4, <1>5 DEF Next, SpeakDispatcher

(***************************************************************************)
(* and every step of the service keeps the invariant.                      *)
(***************************************************************************)
LEMMA NextServiceInv ==
  ASSUME ServiceInv, [Next]_vars
  PROVE  ServiceInv'
<1>1. Handler!HandlerInv' /\ Handler!EnginesInv'
  BY HandlerSteps, HandlerKept DEF ServiceInv
<1>2. ServiceTypeOK' /\ CallsInv'
  <2>1. CASE MainContinues
    BY <2>1, MainGoesOn, MainCancels, Queues, SpeakAnswered DEF MainContinues
  <2>2. ASSUME NEW r \in Request, SpeakRefused(r) \/ SpeakCalled(r)
        PROVE  ServiceTypeOK' /\ CallsInv'
    BY <2>2, SpeakAnswered, SpeakStarts
  <2>3. ASSUME NEW call \in StopCall, StopCalled(call)
        PROVE  ServiceTypeOK' /\ CallsInv'
    BY <2>3, MainGoesOn
  <2>4. ASSUME NEW d \in Display, SpeakDispatcher(d) \/ ControlDispatcher(d) \/ Server(d)
        PROVE  ServiceTypeOK' /\ CallsInv'
    BY <2>4, Takes, Speaks, ControlGoesOn DEF SpeakDispatcher
  <2>5. CASE Quiet \/ UNCHANGED vars
    <3>1. UNCHANGED <<hpc, running, handled, notified, mainVars, speakQueue, controlVars>>
      BY <2>5 DEF Quiet, vars, handlerVars, historyVars
    <3>2. ServiceTypeOK'
      BY <3>1 DEF ServiceInv, ServiceTypeOK, mainVars, controlVars
    <3>3. CallsInv'
      BY <3>1, CallGoesOn DEF Entering, ServiceInv, CallsInv, CallServed, mainVars
    <3> QED
      BY <3>2, <3>3
  <2> QED
    BY <2>1, <2>2, <2>3, <2>4, <2>5 DEF Next
<1>3. FoundInv'
  <2>1. CASE \/ MainContinues
             \/ \E r \in Request : SpeakRefused(r) \/ SpeakCalled(r)
             \/ \E call \in StopCall : StopCalled(call)
    BY <2>1, MainFinds
  <2>2. CASE \/ \E d \in Display : SpeakDispatcher(d) \/ ControlDispatcher(d) \/ Server(d)
             \/ Quiet \/ UNCHANGED vars
    <3>1. UNCHANGED <<mpc, speaking, found>>
      BY <2>2 DEF SpeakDispatcher, TakeSpeak, SpeakThread, ControlDispatcher, TakeStop,
                  StopMarks, StopFlags, Server, Quiet, vars, mainVars
    <3> QED
      BY <3>1, HandlerSteps, FoundStays
  <2> QED
    BY <2>1, <2>2 DEF Next
<1> QED
  BY <1>1, <1>2, <1>3 DEF ServiceInv

(***************************************************************************)
(* The inductive invariant: what is known of a call in each place of the   *)
(* main loop, of the queues and of what clients were told, together with   *)
(* that of EngineHandler and of its engines.                               *)
(***************************************************************************)
THEOREM ServiceInductive == Spec => []ServiceInv
BY InitServiceInv, NextServiceInv, PTL DEF Spec

(***************************************************************************)
(* Every variable of the service keeps to its type.                        *)
(***************************************************************************)
THEOREM TypeCorrect == Spec => []TypeOK
<1>1. ServiceInv => TypeOK
  BY DEF ServiceInv, TypeOK, Handler!HandlerInv
<1> QED
  BY <1>1, ServiceInductive, PTL

(***************************************************************************)
(* What the speak thread has told of an end is told once at most, and not  *)
(* when the language is unknown.                                           *)
(***************************************************************************)
LEMMA EndsNotified ==
  ASSUME Handler!HandlerInv, NEW r \in Request
  PROVE  /\ Len(notified[r]) \in 0..1
         /\ Cardinality({i \in 1..Len(notified[r]) : notified[r][i] # "LANG_ERR"})
              = IF r \in BadLanguage THEN 0 ELSE Len(notified[r])
<1> DEFINE n == Len(notified[r])
           some == {i \in 1..n : notified[r][i] # "LANG_ERR"}
<1>1. n = 0 \/ n = 1
  <2>1. n \in Nat /\ n <= 1
    BY LenProperties DEF Handler!HandlerInv, Handler!TypeOK, Handler!ToldOnce
  <2> HIDE DEF n
  <2> QED
    BY <2>1
<1>2. \A i \in 1..n : notified[r][i] = "LANG_ERR" <=> r \in BadLanguage
  BY DEF Handler!HandlerInv, Handler!ToldOnce
<1>3. Cardinality(some) = IF r \in BadLanguage THEN 0 ELSE n
  <2>1. CASE r \in BadLanguage
    <3>1. some = {}
      BY <1>2, <2>1
    <3> QED
      BY <2>1, <3>1, FS_EmptySet
  <2>2. CASE r \notin BadLanguage
    <3>1. some = 1..n
      BY <1>2, <2>2
    <3>2. Cardinality(1..0) = 0 /\ Cardinality(1..1) = 1
      <4>1. 1..0 = {} /\ 1..1 = {1}
        OBVIOUS
      <4> QED
        BY <4>1, FS_EmptySet, FS_Singleton
    <3> HIDE DEF some, n
    <3> QED
      BY <1>1, <2>2, <3>1, <3>2
  <2> QED
    BY <2>1, <2>2
<1>4. n \in 0..1
  <2> HIDE DEF n
  <2> QED
    BY <1>1
<1> QED
  BY <1>3, <1>4

(***************************************************************************)
(* A request ends once and its client hears of that end once, from the one *)
(* thread or the other, if it subscribed and the language is known, and is *)
(* told of no end otherwise (responseCallback, setRequestStatus and        *)
(* handleRequest).                                                         *)
(***************************************************************************)
THEOREM OneEndTold == Spec => []OneEnd
<1>1. ServiceInv => OneEnd
  <2> SUFFICES ASSUME ServiceInv
               PROVE  OneEnd
    OBVIOUS
  <2> USE DEF ServiceInv, CallsInv
  <2>1. ASSUME NEW r \in Request
        PROVE  /\ r \in cancelled => r \notin handled /\ ~Queued(r)
               /\ IF r \in Subscribed \ BadLanguage
                  THEN /\ EndsTold(r) <= 1
                       /\ r \in cancelled \/ (Over(r) /\ DisplayOf[r] \in Loaded) =>
                            EndsTold(r) = 1
                  ELSE EndsTold(r) = 0
    <3>1. r \in cancelled => r \notin handled /\ ~Queued(r)
      BY DEF SpeaksItsOwn, WaitsOnce, Queued
    <3>2. TimesToldCancelled(r) = IF r \in (cancelled \cap Subscribed) \ BadLanguage THEN 1 ELSE 0
      BY DEF CancelToldOnce
    <3>3. /\ Len(notified[r]) \in 0..1
          /\ EndsTold(r) = TimesToldCancelled(r)
                             + IF r \in BadLanguage THEN 0 ELSE Len(notified[r])
      BY EndsNotified DEF EndsTold
    <3>4. r \notin Subscribed \/ r \in cancelled => Len(notified[r]) = 0
      BY <3>1, EmptySeq DEF Handler!HandlerInv, Handler!ToldOnce, Handler!HandledBefore
    <3>5. Over(r) /\ r \in Subscribed /\ DisplayOf[r] \in Loaded => Len(notified[r]) = 1
      BY DEF Over, Running, ToldByThen
    <3> DEFINE n == Len(notified[r])
               t == TimesToldCancelled(r)
               k == EndsTold(r)
    <3>6. /\ n = 0 \/ n = 1
          /\ t = 0 \/ t = 1
          /\ k = t + (IF r \in BadLanguage THEN 0 ELSE n)
          /\ t = 1 <=> r \in (cancelled \cap Subscribed) \ BadLanguage
      BY <3>2, <3>3
    <3> HIDE DEF n, t, k
    <3>7. k = IF r \in BadLanguage THEN 0 ELSE IF t = 1 THEN 1 + n ELSE n
      BY ONLY <3>6
    <3>8. CASE r \in Subscribed \ BadLanguage
      <4>1. t = 1 => n = 0
        BY <3>4, <3>6, <3>8 DEF n
      <4>2. k <= 1 /\ (r \in cancelled \/ n = 1 => k = 1)
        BY ONLY <3>6, <3>7, <3>8, <4>1
      <4> QED
        BY <3>1, <3>5, <3>8, <4>2 DEF k, n
    <3>9. CASE r \notin Subscribed \ BadLanguage
      BY <3>1, <3>4, <3>6, <3>7, <3>9 DEF k, n
    <3> QED
      BY <3>8, <3>9
  <2> QED
    BY <2>1 DEF OneEnd
<1> QED
  BY <1>1, ServiceInductive, PTL

(***************************************************************************)
(* When a request with clear waits, nothing accepted before it waits any   *)
(* more (clearQueue comes before addRequest and nothing is appended        *)
(* between the two); and what the clear found running was marked by then,  *)
(* while its status was still to be settled (updateSpeakRequestInfo).      *)
(***************************************************************************)
THEOREM ClearGoesFirst == Spec => []ClearSparesOnlyUnseen
<1>1. ServiceInv => ClearSparesOnlyUnseen
  BY DEF ServiceInv, CallsInv, FoundInv, ClearSparesOnlyUnseen
<1> QED
  BY <1>1, ServiceInductive, PTL

-------------------------------------------------------------------------------
(* The service keeps the contract *)

(***************************************************************************)
(* A step that leaves the queues, what runs and what was cancelled alone,  *)
(* and answers no refused call, is one SpeechContract does not see.        *)
(***************************************************************************)
LEMMA FatesKept ==
  ASSUME UNCHANGED <<cancelled, handled, running, speakQueue>>,
         \A r \in Request : r \in Rejected => replied'[r] = replied[r]
  PROVE  UNCHANGED Contract!cvars
<1>1. ASSUME NEW r \in Request
      PROVE  FateOf(r)' = FateOf(r)
  BY DEF FateOf, Running, Queued
<1> QED
  BY <1>1 DEF Contract!cvars

(***************************************************************************)
(* The service starts as the contract does.                                *)
(***************************************************************************)
LEMMA InitContract == Init => Contract!Init
<1> SUFFICES ASSUME Init
             PROVE  Contract!Init
  OBVIOUS
<1>1. running = [d \in Display |-> NoRequest] /\ handled = {}
  BY DEF Init, Handler!Init
<1>2. ASSUME NEW r \in Request
      PROVE  FateOf(r) = "new"
  <2>1. ~Queued(r)
    BY EmptySeq DEF Init, Queued
  <2> QED
    BY <1>1, <2>1 DEF Init, FateOf
<1> QED
  BY <1>1, <1>2 DEF Contract!Init, Init

(***************************************************************************)
(* A refused call is the contract's Refuse.                                *)
(***************************************************************************)
LEMMA Refuses ==
  ASSUME ServiceInv, NEW r \in Request, SpeakRefused(r)
  PROVE  Contract!Refuse(r)
<1> USE DEF SpeakRefused
<1>1. UNCHANGED <<running, handled, cancelled, speakQueue>>
  BY DEF handlerVars, historyVars
<1>2. /\ replied[r] = <<>> /\ r \notin handled /\ r \notin cancelled /\ ~Queued(r)
      /\ replied \in [Request -> Seq(Message)]
  BY DEF ServiceInv, CallsInv, NotHandedOver, New, ServiceTypeOK, Message
<1>3. replied' = [replied EXCEPT ![r] = Append(replied[r], "error")]
  BY DEF Tell
<1>4. replied'[r] # <<>>
  <2>1. Append(replied[r], "error") # <<>>
    BY <1>2, AppendProperties, EmptySeq DEF Message
  <2> QED
    BY <1>2, <1>3, <2>1
<1>5. FateOf(r) = "new" /\ FateOf(r)' = "refused"
  BY <1>1, <1>2, <1>4 DEF FateOf, Running, Queued
<1>6. ASSUME NEW q \in Request \ {r}
      PROVE  FateOf(q)' = FateOf(q)
  <2>1. replied'[q] = replied[q]
    BY <1>2, <1>3
  <2> QED
    BY <1>1, <2>1 DEF FateOf, Running, Queued
<1> QED
  BY <1>1, <1>5, <1>6 DEF Contract!Refuse

(***************************************************************************)
(* Appending a request to its queue is the contract's Accept.              *)
(***************************************************************************)
LEMMA Accepts ==
  ASSUME ServiceInv, Enqueue
  PROVE  speaking \in Request /\ Contract!Accept(speaking)
<1> USE DEF Enqueue
<1>1. UNCHANGED <<running, handled, cancelled, replied>>
  BY DEF handlerVars, historyVars
<1>2. /\ speaking \in Request /\ DisplayOf[speaking] \in Display
      /\ speaking \notin handled /\ speaking \notin cancelled /\ ~Queued(speaking)
      /\ speaking \notin Rejected
      /\ speakQueue \in [Display -> Seq(Request)]
  BY ServiceAssumption
     DEF ServiceInv, CallsInv, CallServed, Entering, ServiceTypeOK, NotHandedOver
<1> DEFINE d == DisplayOf[speaking]
           queue == speakQueue[d]
<1>3. speakQueue' = [speakQueue EXCEPT ![d] = Append(queue, speaking)]
  BY DEF Here
<1>4. /\ speakQueue'[d] = Append(queue, speaking)
      /\ Len(Append(queue, speaking)) = Len(queue) + 1
      /\ Append(queue, speaking)[Len(queue) + 1] = speaking
      /\ \A i \in 1..Len(queue) : Append(queue, speaking)[i] = queue[i]
      /\ Len(queue) \in Nat
      /\ \A e \in Display \ {d} : speakQueue'[e] = speakQueue[e]
  BY <1>2, <1>3, AppendProperties, LenProperties
<1>5. d \in Display /\ queue = speakQueue[d] /\ d = DisplayOf[speaking]
  BY <1>2
<1> HIDE DEF d, queue
<1>6. Queued(speaking)'
  <2>1. Len(queue) + 1 \in 1..Len(speakQueue'[d])
    BY <1>4
  <2> QED
    BY <1>1, <1>4, <1>5, <2>1 DEF Queued
<1>7. ASSUME NEW q \in Request \ {speaking}
      PROVE  Queued(q)' <=> Queued(q)
  <2>1. \A i \in 1..Len(speakQueue'[d]) : i \in 1..Len(queue) \/ i = Len(queue) + 1
    BY <1>4
  <2>2. \A i \in 1..Len(queue) : i \in 1..Len(speakQueue'[d])
    BY <1>4
  <2>3. (\E i \in 1..Len(speakQueue'[d]) : speakQueue'[d][i] = q)
          <=> \E i \in 1..Len(speakQueue[d]) : speakQueue[d][i] = q
    BY <1>4, <1>5, <2>1, <2>2
  <2>4. \A e \in Display : (\E i \in 1..Len(speakQueue'[e]) : speakQueue'[e][i] = q)
                             <=> \E i \in 1..Len(speakQueue[e]) : speakQueue[e][i] = q
    BY <1>4, <2>3
  <2> QED
    BY <2>4 DEF Queued
<1>8. FateOf(speaking) = "new" /\ FateOf(speaking)' = "waiting"
  BY <1>1, <1>2, <1>6 DEF FateOf
<1>9. \A q \in Request \ {speaking} : FateOf(q)' = FateOf(q)
  BY <1>1, <1>7 DEF FateOf, Running
<1> QED
  BY <1>1, <1>2, <1>3, <1>5, <1>8, <1>9 DEF Contract!Accept, queue

(***************************************************************************)
(* Taking requests out of a queue is the contract's Cancel, or nothing if  *)
(* none was to be taken out.                                               *)
(***************************************************************************)
LEMMA CancelsFates ==
  ASSUME ServiceInv, NEW d \in Display, NEW some \in SUBSET ToSet(speakQueue[d]),
         CancelAll(some),
         speakQueue' = [speakQueue EXCEPT ![d] = Without(speakQueue[d], some)],
         UNCHANGED <<running, handled>>
  PROVE  [Contract!Next]_(Contract!cvars)
<1> DEFINE queue == speakQueue[d]
           w == Without(queue, some)
<1>1. queue \in Seq(Request) /\ w \in Seq(Request) /\ ToSet(w) = ToSet(queue) \ some
  BY QueueElements, WithoutPicks, WithoutElements DEF ServiceInv
<1>2. /\ ToSet(queue) = {queue[i] : i \in 1..Len(queue)}
      /\ ToSet(w) = {w[i] : i \in 1..Len(w)}
      /\ ToSet(queue) \subseteq Request
      /\ queue = speakQueue[d]
      /\ some \subseteq ToSet(queue)
      /\ \A e \in Display \ {d} : \A i \in 1..Len(speakQueue[e]) :
           speakQueue[e][i] \notin ToSet(queue)
  <2>1. ToSet(queue) = {queue[i] : i \in 1..Len(queue)} /\ ToSet(queue) \subseteq Request
    BY QueueElements DEF ServiceInv
  <2>2. DOMAIN w = 1..Len(w)
    BY <1>1, LenProperties
  <2>3. ToSet(w) = {w[i] : i \in 1..Len(w)}
    BY <2>2 DEF ToSet
  <2>4. \A e \in Display : \A i \in 1..Len(speakQueue[e]) : DisplayOf[speakQueue[e][i]] = e
    BY DEF ServiceInv, CallsInv, WaitsOnce
  <2> QED
    BY <2>1, <2>3, <2>4
<1>3. /\ speakQueue \in [Display -> Seq(Request)]
      /\ speakQueue'[d] = w
      /\ \A e \in Display \ {d} : speakQueue'[e] = speakQueue[e]
  <2>1. speakQueue \in [Display -> Seq(Request)]
    BY DEF ServiceInv, ServiceTypeOK
  <2> QED
    BY <2>1
<1> HIDE DEF queue, w
<1>4. ASSUME NEW r \in Request \ some
      PROVE  Queued(r)' <=> Queued(r)
  <2>1. (\E i \in 1..Len(speakQueue'[d]) : speakQueue'[d][i] = r)
          <=> \E i \in 1..Len(speakQueue[d]) : speakQueue[d][i] = r
    <3>1. r \in ToSet(w) <=> r \in ToSet(queue)
      BY <1>1
    <3> QED
      BY <1>2, <1>3, <3>1
  <2>2. \A e \in Display : (\E i \in 1..Len(speakQueue'[e]) : speakQueue'[e][i] = r)
                             <=> \E i \in 1..Len(speakQueue[e]) : speakQueue[e][i] = r
    BY <1>3, <2>1
  <2> QED
    BY <2>2 DEF Queued
<1>5. ASSUME NEW r \in Request
      PROVE  FateOf(r)' = IF r \in some THEN "cancelled" ELSE FateOf(r)
  <2>1. CASE r \in some
    BY <2>1 DEF CancelAll, FateOf
  <2>2. CASE r \notin some
    <3>1. (r \in cancelled' <=> r \in cancelled) /\ replied'[r] = replied[r]
      BY <2>2 DEF CancelAll
    <3>2. Queued(r)' <=> Queued(r)
      BY <1>4, <2>2
    <3>3. Running(r)' <=> Running(r)
      BY DEF Running
    <3> QED
      BY <2>2, <3>1, <3>2, <3>3 DEF FateOf
  <2> QED
    BY <2>1, <2>2
<1>6. CASE some = {}
  <2>1. w = queue
    BY <1>1, <1>6, WithoutNone DEF w
  <2>2. speakQueue' = speakQueue
    BY <1>2, <2>1, <1>3 DEF w
  <2> QED
    BY <1>5, <1>6, <2>2 DEF Contract!cvars
<1>7. CASE some # {}
  <2>1. Contract!Cancel(d, some)
    <3>1. Contract!Without(speakQueue[d], some) = Without(speakQueue[d], some)
      BY DEF Contract!Without, Without
    <3> QED
      BY <1>5, <3>1 DEF Contract!Cancel
  <2>2. some \in (SUBSET Contract!ToSet(speakQueue[d])) \ {{}}
    BY <1>7 DEF Contract!ToSet, ToSet
  <2> QED
    BY <2>1, <2>2 DEF Contract!Next
<1> QED
  BY <1>6, <1>7

(***************************************************************************)
(* A dispatcher that takes a request is the contract's Begin,              *)
(***************************************************************************)
LEMMA Begins ==
  ASSUME ServiceInv, NEW d \in Display, TakeSpeak(d)
  PROVE  Contract!Begin(d)
<1> DEFINE queue == speakQueue[d]
<1>0. PICK r \in Request : r = Head(queue)
  BY Taken
<1>1. /\ queue # <<>> /\ r = queue[1] /\ 1 \in 1..Len(queue)
      /\ running[d] = NoRequest
      /\ running \in [Display -> Request \cup {NoRequest}]
      /\ running' = [running EXCEPT ![d] = r]
      /\ handled' = handled \cup {r}
      /\ speakQueue' = [speakQueue EXCEPT ![d] = Tail(queue)]
      /\ UNCHANGED <<replied, cancelled>>
  BY <1>0, Taken DEF mainVars
<1>2. /\ queue \in Seq(Request)
      /\ Len(queue) \in Nat
      /\ Len(Tail(queue)) = Len(queue) - 1
      /\ \A i \in 1..Len(Tail(queue)) : Tail(queue)[i] = queue[i + 1]
  BY <1>1, QueueElements, HeadTailProperties, LenProperties DEF ServiceInv
<1>3. /\ speakQueue'[d] = Tail(queue)
      /\ \A e \in Display \ {d} : speakQueue'[e] = speakQueue[e]
  <2>1. speakQueue \in [Display -> Seq(Request)]
    BY DEF ServiceInv, ServiceTypeOK
  <2> QED
    BY <1>1, <2>1
<1>4. queue = speakQueue[d] /\ r = Head(speakQueue[d]) /\ r \notin cancelled
  BY <1>0, <1>1 DEF ServiceInv, CallsInv, WaitsOnce
<1> HIDE DEF queue
<1>5. FateOf(r)' = "spoken"
  BY <1>1, <1>4 DEF FateOf, Running
<1>6. ASSUME NEW q \in Request \ {r}
      PROVE  FateOf(q)' = FateOf(q)
  <2>1. (\E i \in 1..Len(speakQueue'[d]) : speakQueue'[d][i] = q)
          <=> \E i \in 1..Len(speakQueue[d]) : speakQueue[d][i] = q
    <3>1. \A i \in 1..Len(speakQueue'[d]) :
            i + 1 \in 1..Len(queue) /\ speakQueue'[d][i] = queue[i + 1]
      BY <1>2, <1>3
    <3>2. \A i \in 1..Len(queue) :
            i = 1 \/ (i - 1 \in 1..Len(speakQueue'[d]) /\ speakQueue'[d][i - 1] = queue[i])
      <4>1. \A i \in 1..Len(queue) :
              i = 1 \/ (i - 1 \in 1..Len(speakQueue'[d]) /\ (i - 1) + 1 = i)
        BY <1>2, <1>3
      <4> QED
        BY <3>1, <4>1
    <3>3. ASSUME NEW i \in 1..Len(speakQueue'[d]), speakQueue'[d][i] = q
          PROVE  \E j \in 1..Len(queue) : queue[j] = q
      BY <3>1, <3>3
    <3>4. ASSUME NEW i \in 1..Len(queue), queue[i] = q
          PROVE  \E j \in 1..Len(speakQueue'[d]) : speakQueue'[d][j] = q
      <4>1. i # 1
        BY <1>1, <3>4
      <4> QED
        BY <3>2, <3>4, <4>1
    <3> QED
      BY <1>4, <3>3, <3>4
  <2>2. \A e \in Display : (\E i \in 1..Len(speakQueue'[e]) : speakQueue'[e][i] = q)
                             <=> \E i \in 1..Len(speakQueue[e]) : speakQueue[e][i] = q
    BY <1>3, <2>1
  <2>3. Queued(q)' <=> Queued(q)
    BY <2>2 DEF Queued
  <2>4. Running(q)' <=> Running(q)
    BY <1>1, ServiceAssumption DEF Running
  <2> QED
    BY <1>1, <2>3, <2>4 DEF FateOf
<1> QED
  BY <1>1, <1>4, <1>5, <1>6 DEF Contract!Begin

(***************************************************************************)
(* and a speak thread that lets go of one its End; its other steps the     *)
(* contract does not see.                                                  *)
(***************************************************************************)
LEMMA Ends ==
  ASSUME ServiceInv, NEW d \in Display, SpeakThread(d)
  PROVE  Contract!End(d) \/ UNCHANGED Contract!cvars
<1>1. /\ UNCHANGED <<handled, cancelled, replied, speakQueue>>
      /\ UNCHANGED running \/ LetsGo(d)
  BY SpeakFrame DEF SpeakThread, mainVars, ServiceInv, Continues, Tells
<1>2. CASE UNCHANGED running
  BY <1>1, <1>2, FatesKept
<1>3. CASE LetsGo(d)
  <2>0. PICK r \in Request : r = running[d]
    BY <1>3 DEF LetsGo, ServiceInv, Handler!HandlerInv, Handler!TypeOK
  <2>1. /\ r \in handled /\ r \notin cancelled /\ r # NoRequest
        /\ running \in [Display -> Request \cup {NoRequest}]
        /\ running' = [running EXCEPT ![d] = NoRequest]
        /\ \A e \in Display : running[e] = r => e = d
    BY <1>3, <2>0 DEF LetsGo, ServiceInv, CallsInv, SpeaksItsOwn, Handler!HandlerInv,
                Handler!TypeOK, Handler!HandledBefore, Handler!RunsOnOneDisplay
  <2>2. FateOf(r)' = "over"
    BY <1>1, <2>0, <2>1 DEF FateOf, Running
  <2>3. ASSUME NEW q \in Request \ {r}
        PROVE  FateOf(q)' = FateOf(q)
    <3>1. Running(q)' <=> Running(q)
      BY <2>0, <2>1, ServiceAssumption DEF Running
    <3> QED
      BY <1>1, <3>1 DEF FateOf, Queued
  <2> QED
    BY <1>1, <2>0, <2>1, <2>2, <2>3 DEF Contract!End
<1> QED
  BY <1>1, <1>2, <1>3

(***************************************************************************)
(* Every step of the service is one of the contract or is not seen by it.  *)
(***************************************************************************)
LEMMA NextContract ==
  ASSUME ServiceInv, [Next]_vars
  PROVE  [Contract!Next]_(Contract!cvars)
<1>1. CASE ClearEmptiesQueue
  <2> USE <1>1 DEF ClearEmptiesQueue
  <2> DEFINE some == ToSet(speakQueue[Here])
  <2>1. Here \in Display
    BY ServiceAssumption
       DEF ServiceInv, CallsInv, CallServed, Entering, Here, ServiceTypeOK
  <2>2. Without(speakQueue[Here], some) = <<>>
    <3>1. speakQueue[Here] \in Seq(Request)
          /\ \A i \in 1..Len(speakQueue[Here]) : speakQueue[Here][i] \in some
      BY <2>1, QueueElements DEF ServiceInv
    <3> QED
      BY <3>1, WithoutAll
  <2>3. speakQueue' = [speakQueue EXCEPT ![Here] = Without(speakQueue[Here], some)]
    BY <2>2 DEF ClearedQueue
  <2>4. CancelAll(some) /\ UNCHANGED <<running, handled>>
    BY DEF handlerVars, historyVars
  <2> QED
    BY <2>1, <2>3, <2>4, CancelsFates
<1>2. CASE StopRemoves
  <2> USE <1>2 DEF StopRemoves
  <2> DEFINE d == stopping.display
             some == Removed(speakQueue[d], stopping)
  <2>1. d \in Display
    BY ServiceAssumption DEF ServiceInv, CallsInv, CallServed
  <2>2. some \subseteq ToSet(speakQueue[d])
    BY <2>1, RemovedIsQueued DEF ServiceInv
  <2>3. /\ CancelAll(some)
        /\ speakQueue' = [speakQueue EXCEPT ![d] = Without(speakQueue[d], some)]
        /\ UNCHANGED <<running, handled>>
    BY DEF Kept, handlerVars, historyVars
  <2> HIDE DEF d, some
  <2> QED
    BY <2>1, <2>2, <2>3, CancelsFates
<1>3. CASE Enqueue
  BY <1>3, Accepts DEF Contract!Next
<1>4. CASE SpeakReplies
  <2>1. UNCHANGED <<cancelled, handled, running, speakQueue>>
    BY <1>4 DEF SpeakReplies, handlerVars, historyVars
  <2>2. speaking \notin Rejected /\ replied \in [Request -> Seq(Message)]
    BY DEF ServiceInv, CallsInv, CallServed, ServiceTypeOK, Message
  <2>3. \A r \in Request : r \in Rejected => replied'[r] = replied[r]
    BY <1>4, <2>2 DEF SpeakReplies, Tell
  <2> QED
    BY <2>1, <2>3, FatesKept
<1>5. ASSUME NEW r \in Request, SpeakRefused(r)
      PROVE  Contract!Next
  BY <1>5, Refuses DEF Contract!Next
<1>6. ASSUME NEW r \in Request, SpeakCalled(r)
      PROVE  UNCHANGED Contract!cvars
  <2>1. UNCHANGED <<cancelled, handled, running, speakQueue>> /\ r \notin Rejected
    BY <1>6 DEF SpeakCalled, handlerVars, historyVars
  <2>2. replied \in [Request -> Seq(Message)]
    BY DEF ServiceInv, ServiceTypeOK, Message
  <2>3. \A q \in Request : q \in Rejected => replied'[q] = replied[q]
    BY <1>6, <2>1, <2>2 DEF SpeakCalled
  <2> QED
    BY <2>1, <2>3, FatesKept
<1>7. CASE \/ Start \/ ClearReadsInfo \/ ClearQueuesStop \/ ClearMarks
           \/ StopQueuesControl \/ \E call \in StopCall : StopCalled(call)
  <2>1. UNCHANGED <<cancelled, handled, running, speakQueue, replied>>
    <3>1. CASE ClearMarks
      BY <3>1, ControlFrame DEF ClearMarks
    <3>2. CASE ~ClearMarks
      BY <1>7, <3>2 DEF Start, ClearReadsInfo, ClearQueuesStop, StopQueuesControl,
                        StopCalled, handlerVars, historyVars
    <3> QED
      BY <3>1, <3>2
  <2> QED
    BY <2>1, FatesKept
<1>8. ASSUME NEW d \in Display, SpeakDispatcher(d)
      PROVE  [Contract!Next]_(Contract!cvars)
  BY <1>8, Begins, Ends DEF SpeakDispatcher, Contract!Next
<1>9. ASSUME NEW d \in Display, ControlDispatcher(d) \/ Server(d)
      PROVE  UNCHANGED Contract!cvars
  <2>1. UNCHANGED <<cancelled, handled, running, speakQueue, replied>>
    BY <1>9, ControlFrame
       DEF ControlDispatcher, TakeStop, StopMarks, StopFlags, Server, mainVars
  <2> QED
    BY <2>1, FatesKept
<1>10. CASE Quiet \/ UNCHANGED vars
  <2>1. UNCHANGED <<cancelled, handled, running, speakQueue, replied>>
    BY <1>10 DEF Quiet, vars, handlerVars, historyVars, mainVars
  <2> QED
    BY <2>1, FatesKept
<1> QED
  BY <1>1, <1>2, <1>3, <1>4, <1>5, <1>6, <1>7, <1>8, <1>9, <1>10 DEF Next, MainContinues

(***************************************************************************)
(* The service implements the safety part of SpeechContract: a display     *)
(* speaks one request at a time, in the order they were accepted, and what *)
(* was cancelled is never spoken, nor what was spoken spoken again.        *)
(***************************************************************************)
THEOREM KeepsContract == Spec => ImplementsContractSafely
<1>1. Init => Contract!Init
  BY InitContract
<1>2. ServiceInv /\ [Next]_vars => [Contract!Next]_(Contract!cvars)
  BY NextContract
<1> QED
  BY <1>1, <1>2, ServiceInductive, PTL DEF Spec, ImplementsContractSafely, Contract!Safety
===============================================================================
