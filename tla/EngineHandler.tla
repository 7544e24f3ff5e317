----------------------------- MODULE EngineHandler -----------------------------
(***************************************************************************)
(* EngineHandler (src/core/EngineHandler.cpp) and the two engines of each  *)
(* display.  Two threads of a display are in handleRequest at a time:      *)
(*   - the speak thread handles a SPEAK: it publishes what is running in   *)
(*     mSpeakRequestInfoMap, has the text synthesized and played, settles  *)
(*     the status, notifies the client and takes the entry away;           *)
(*   - the control thread handles a STOP: it looks the entry up, marks it, *)
(*     and sets the stop flags of the two engines, in four steps.          *)
(* The main thread reads and marks the entry too (a SPEAK with clear).     *)
(***************************************************************************)
EXTENDS Naturals, Sequences

CONSTANTS
  Display,     \* the displays
  Request,     \* the speak requests
  NoRequest,   \* no request
  Broken,      \* a PCM file that holds no request's audio, see GoogleTTSEngine
  Subscribed,  \* the requests whose clients have subscribed
  BadLanguage, \* the requests whose language is not in the table: eLang is LANG_ERR
  Loaded,      \* the displays whose engines loadEngine created
  Faults,      \* what may go wrong, see the engines
  MaxChunks, MaxLeaks

ASSUME HandlerAssumption ==
  /\ NoRequest \notin Request
  /\ Broken \notin Request \cup {NoRequest}
  /\ Subscribed \cup BadLanguage \subseteq Request
  /\ Loaded \subseteq Display
  /\ MaxChunks \in Nat /\ MaxLeaks \in Nat

VARIABLES
  spc, text, mIsStop, rpc, tag, gStatus, ttsRet, pcm,           \* speech engines
  ppc, mIsStopPlay, left, fds, streams, failures, late,         \* audio engines
  info,       \* mSpeakRequestInfoMap: the entry of each display
  hpc,        \* where the speak thread of the display is
  running,    \* the request it handles
  eStatus,    \* msgParameters->eStatus of each request
  taskStatus, \* meTTSTaskStatus
  kpc,        \* where the control thread of the display is
  aim,        \* the request whose entry the control thread has found
  handled,    \* the requests handleRequest has been called for
  notified,   \* what replyCB has told the client of each request, in order
  marked,     \* the requests whose entry was marked before their status was settled
  flagged,    \* <<a, r>>: a stop aimed at a has set the flag of the engine at work on r
  silenced    \* the requests that ran when a stop aimed at them was complete

Google == INSTANCE GoogleTTSEngine WITH Speech <- Request, NoSpeech <- NoRequest
Pulse == INSTANCE PulseAudioEngine

googleVars == <<spc, text, mIsStop, rpc, tag, gStatus, ttsRet, pcm>>
pulseVars == <<ppc, mIsStopPlay, left, fds, streams, failures, late>>
speakVars == <<hpc, running, eStatus, taskStatus>>
controlVars == <<kpc, aim>>
historyVars == <<handled, notified, marked, flagged, silenced>>
handlerVars == <<googleVars, pulseVars, info, speakVars, controlVars, historyVars>>

NoInfo == [req |-> NoRequest, msgStatus |-> "none"]

Init ==
  /\ Google!Init
  /\ Pulse!Init
  /\ info = [d \in Display |-> NoInfo]
  /\ hpc = [d \in Display |-> "idle"]
  /\ running = [d \in Display |-> NoRequest]
  /\ eStatus = [r \in Request |-> "ERROR"]
  /\ taskStatus = [d \in Display |-> "NOT_READY"]
  /\ kpc = [d \in Display |-> "idle"]
  /\ aim = [d \in Display |-> NoRequest]
  /\ handled = {}
  /\ notified = [r \in Request |-> <<>>]
  /\ marked = {}
  /\ flagged = {}
  /\ silenced = {}

-------------------------------------------------------------------------------
(* The entry of a display in mSpeakRequestInfoMap *)

\* map::insert leaves an entry that is there as it is.
SavedInfo(d, r) ==
  IF info[d] = NoInfo
  THEN [info EXCEPT ![d] = [req |-> r, msgStatus |-> "PLAY"]]
  ELSE info

StopMarked(d) ==
  IF info[d] # NoInfo THEN [info EXCEPT ![d].msgStatus = "STOP"] ELSE info

\* Does the speak thread still have the status to settle?
Unsettled(d) == hpc[d] \in {"speak", "synthesis", "audio", "settle"}

\* updateSpeakRequestInfo(displayId, TTS_MSG_STOP)
UpdateToStop(d) ==
  /\ info' = StopMarked(d)
  /\ marked' = IF Unsettled(d) THEN marked \cup {running[d]} ELSE marked

MutantKeepsInfo(d) == info
RemovedInfo(d) == [info EXCEPT ![d] = NoInfo]

-------------------------------------------------------------------------------
(* handleRequest(SPEAK), on the speak thread *)

\* The dispatcher calls execute(), which calls handleRequest.
HandleSpeak(d, r) ==
  /\ hpc[d] = "idle"
  /\ r \notin handled
  /\ hpc' = [hpc EXCEPT ![d] = "enter"]
  /\ running' = [running EXCEPT ![d] = r]
  /\ handled' = handled \cup {r}
  /\ UNCHANGED <<googleVars, pulseVars, info, eStatus, taskStatus, controlVars,
                 notified, marked, flagged, silenced>>

\* handleRequest returns, and the dispatcher deletes the request.
SpeakReturns(d) ==
  /\ hpc' = [hpc EXCEPT ![d] = "idle"]
  /\ running' = [running EXCEPT ![d] = NoRequest]

\* Without engines nothing is said to the client.
EngineMissing(d) ==
  /\ hpc[d] = "enter"
  /\ d \notin Loaded
  /\ taskStatus' = [taskStatus EXCEPT ![d] = "ERROR"]
  /\ SpeakReturns(d)
  /\ UNCHANGED <<googleVars, pulseVars, info, eStatus, controlVars, historyVars>>

SaveInfo(d) ==
  /\ hpc[d] = "enter"
  /\ d \in Loaded
  /\ info' = SavedInfo(d, running[d])
  /\ taskStatus' = [taskStatus EXCEPT ![d] = "READY"]
  /\ eStatus' = [eStatus EXCEPT ![running[d]] = "PLAY"]
  /\ hpc' = [hpc EXCEPT ![d] = "speak"]
  /\ UNCHANGED <<googleVars, pulseVars, running, controlVars, historyVars>>

CallSpeak(d) ==
  /\ hpc[d] = "speak"
  /\ Google!Speak(d, running[d])
  /\ hpc' = [hpc EXCEPT ![d] = "synthesis"]
  /\ UNCHANGED <<pulseVars, info, running, eStatus, taskStatus, controlVars, historyVars>>

CallPlay(d) ==
  /\ hpc[d] = "synthesis"
  /\ spc[d] = "idle"
  /\ ttsRet[d] = "ERROR_NONE"
  /\ Pulse!Play(d)
  /\ hpc' = [hpc EXCEPT ![d] = "audio"]
  /\ UNCHANGED <<googleVars, info, running, eStatus, taskStatus, controlVars, historyVars>>

NoSpeechToPlay(d) ==
  /\ hpc[d] = "synthesis"
  /\ spc[d] = "idle"
  /\ ttsRet[d] # "ERROR_NONE"
  /\ eStatus' = [eStatus EXCEPT ![running[d]] = "ERROR"]
  /\ taskStatus' = [taskStatus EXCEPT ![d] = "ERROR"]
  /\ hpc' = [hpc EXCEPT ![d] = "settle"]
  /\ UNCHANGED <<googleVars, pulseVars, info, running, controlVars, historyVars>>

\* play() has returned, and it always returns true.
Played(d) ==
  /\ hpc[d] = "audio"
  /\ ppc[d] = "idle"
  /\ eStatus' = [eStatus EXCEPT ![running[d]] = IF @ = "PLAY" THEN "DONE" ELSE @]
  /\ taskStatus' = [taskStatus EXCEPT ![d] = "DONE"]
  /\ hpc' = [hpc EXCEPT ![d] = "settle"]
  /\ UNCHANGED <<googleVars, pulseVars, info, running, controlVars, historyVars>>

MutantReportsInfo(d) == info[d].msgStatus
MutantIgnoresMark(d) == eStatus[running[d]]
SettledStatus(d) ==
  IF info[d].msgStatus = "STOP" THEN "STOP" ELSE eStatus[running[d]]

\* Under the lock: a running request that was marked is reported stopped.
Settle(d) ==
  /\ hpc[d] = "settle"
  /\ eStatus' = [eStatus EXCEPT ![running[d]] = SettledStatus(d)]
  /\ hpc' = [hpc EXCEPT ![d] = "notify"]
  /\ UNCHANGED <<googleVars, pulseVars, info, running, taskStatus, controlVars, historyVars>>

\* responseCallback: of a language it does not know it says just that.
MutantTellsStatus(r, status) == status
Response(r, status) ==
  IF r \in BadLanguage THEN "LANG_ERR"
  ELSE IF r \in Subscribed THEN status
  ELSE "no_status"

\* replyCB is called for subscribed requests only.
Notify(d) ==
  LET r == running[d] IN
  /\ hpc[d] = "notify"
  /\ notified' = IF r \in Subscribed
                 THEN [notified EXCEPT ![r] = Append(@, Response(r, eStatus[r]))]
                 ELSE notified
  /\ hpc' = [hpc EXCEPT ![d] = "remove"]
  /\ UNCHANGED <<googleVars, pulseVars, info, running, eStatus, taskStatus,
                 controlVars, handled, marked, flagged, silenced>>

RemoveInfo(d) ==
  /\ hpc[d] = "remove"
  /\ info' = RemovedInfo(d)
  /\ SpeakReturns(d)
  /\ UNCHANGED <<googleVars, pulseVars, eStatus, taskStatus, controlVars, historyVars>>

-------------------------------------------------------------------------------
(* handleRequest(STOP), on the control thread *)

MutantSkipsMark == "stop_tts"
AfterLookup == "mark"

\* getSpeakRequestInfo finds an entry, whoever's it is by now.
HandleStop(d) ==
  /\ kpc[d] = "idle"
  /\ IF d \in Loaded /\ info[d] # NoInfo
     THEN /\ kpc' = [kpc EXCEPT ![d] = AfterLookup]
          /\ aim' = [aim EXCEPT ![d] = info[d].req]
     ELSE UNCHANGED <<kpc, aim>>
  /\ taskStatus' = IF d \in Loaded THEN taskStatus
                   ELSE [taskStatus EXCEPT ![d] = "ERROR"]
  /\ UNCHANGED <<googleVars, pulseVars, info, hpc, running, eStatus, historyVars>>

MarkStop(d) ==
  /\ kpc[d] = "mark"
  /\ UpdateToStop(d)
  /\ kpc' = [kpc EXCEPT ![d] = "stop_tts"]
  /\ UNCHANGED <<googleVars, pulseVars, speakVars, aim, handled, notified,
                 flagged, silenced>>

Synthesizing(d) == hpc[d] = "synthesis" /\ spc[d] # "idle"
Playing(d) == hpc[d] = "audio"

StopTts(d) ==
  /\ kpc[d] = "stop_tts"
  /\ Google!Stop(d)
  /\ kpc' = [kpc EXCEPT ![d] = "stop_audio"]
  /\ flagged' = IF Synthesizing(d) THEN flagged \cup {<<aim[d], running[d]>>}
                ELSE flagged
  /\ UNCHANGED <<pulseVars, info, speakVars, aim, handled, notified, marked, silenced>>

StopAudio(d) ==
  /\ kpc[d] = "stop_audio"
  /\ Pulse!Stop(d)
  /\ kpc' = [kpc EXCEPT ![d] = "idle"]
  /\ aim' = [aim EXCEPT ![d] = NoRequest]
  /\ flagged' = IF Playing(d) THEN flagged \cup {<<aim[d], running[d]>>} ELSE flagged
  /\ silenced' = IF aim[d] = running[d] THEN silenced \cup {aim[d]} ELSE silenced
  /\ UNCHANGED <<googleVars, info, speakVars, handled, notified, marked>>

\* The main thread marks the entry for a SPEAK with clear (RequestHandler).
MarkByClear(d) ==
  /\ UpdateToStop(d)
  /\ UNCHANGED <<googleVars, pulseVars, speakVars, controlVars, handled, notified,
                 flagged, silenced>>

-------------------------------------------------------------------------------
(* The engines run while the speak thread is in them *)

SynthesisStep(d) ==
  /\ Google!SpeakStep(d)
  /\ UNCHANGED <<pulseVars, info, speakVars, controlVars, historyVars>>

Server(d) ==
  /\ Google!Server(d)
  /\ UNCHANGED <<pulseVars, info, speakVars, controlVars, historyVars>>

\* A PCM file that holds no request's audio may be absent.
AudioStep(d) ==
  /\ \/ Pulse!PlayStep(d)
     \/ Pulse!PlayFault(d)
     \/ pcm[d] = Broken /\ Pulse!OpenFails(d)
  /\ UNCHANGED <<googleVars, info, speakVars, controlVars, historyVars>>

SpeakThread(d) ==
  \/ EngineMissing(d)
  \/ SaveInfo(d)
  \/ CallSpeak(d)
  \/ SynthesisStep(d)
  \/ CallPlay(d)
  \/ NoSpeechToPlay(d)
  \/ AudioStep(d)
  \/ Played(d)
  \/ Settle(d)
  \/ Notify(d)
  \/ RemoveInfo(d)

ControlThread(d) == MarkStop(d) \/ StopTts(d) \/ StopAudio(d)

\* The queues hand every request over once, and stops whenever they like.
Next ==
  \E d \in Display :
    \/ \E r \in Request : HandleSpeak(d, r)
    \/ HandleStop(d)
    \/ MarkByClear(d)
    \/ SpeakThread(d)
    \/ ControlThread(d)
    \/ Server(d)

Spec == Init /\ [][Next]_handlerVars

-------------------------------------------------------------------------------
TypeOK ==
  /\ info \in [Display -> [req : Request \cup {NoRequest},
                           msgStatus : {"none", "PLAY", "STOP"}]]
  /\ hpc \in [Display -> {"idle", "enter", "speak", "synthesis", "audio",
                          "settle", "notify", "remove"}]
  /\ running \in [Display -> Request \cup {NoRequest}]
  /\ eStatus \in [Request -> {"ERROR", "PLAY", "DONE", "STOP"}]
  /\ taskStatus \in [Display -> {"NOT_READY", "READY", "DONE", "ERROR"}]
  /\ kpc \in [Display -> {"idle", "mark", "stop_tts", "stop_audio"}]
  /\ aim \in [Display -> Request \cup {NoRequest}]
  /\ handled \subseteq Request
  /\ notified \in [Request -> Seq({"ERROR", "DONE", "STOP", "LANG_ERR"})]
  /\ marked \subseteq Request
  /\ flagged \subseteq Request \X Request
  /\ silenced \subseteq Request

(***************************************************************************)
(* mSpeakRequestInfoMap tells the main and the control thread the truth:   *)
(* a display has an entry exactly from the save to the removal of the      *)
(* request its speak thread handles, and it is that request's entry.  As   *)
(* map::insert never overwrites, an entry left behind would hide every     *)
(* later request of the display.                                           *)
(***************************************************************************)
InfoNamesRunning ==
  \A d \in Display :
    /\ running[d] = NoRequest <=> hpc[d] = "idle"
    /\ IF hpc[d] \in {"idle", "enter"}
       THEN info[d] = NoInfo
       ELSE info[d].req = running[d] /\ info[d].msgStatus \in {"PLAY", "STOP"}

(***************************************************************************)
(* A client that is told a status is told that its request was stopped     *)
(* exactly if the entry was marked while that request ran and before its   *)
(* status was settled, whatever the engines returned and whichever thread  *)
(* marked it.                                                              *)
(***************************************************************************)
StopReportedIffMarked ==
  \A r \in Request \ BadLanguage : \A i \in 1..Len(notified[r]) :
    notified[r][i] = "STOP" <=> r \in marked

(***************************************************************************)
(* What makes the two invariants above inductive: no two displays run one  *)
(* request; what was marked, notified or aimed at has been handled; a stop *)
(* under way has found a request, and has marked it before it sets a flag  *)
(* if that request still runs; a client is told once at most, and not at   *)
(* all unless it subscribed; and where the speak thread is tells the       *)
(* status of its request and whether the entry, the status and the marks   *)
(* agree.                                                                  *)
(***************************************************************************)
RunsOnOneDisplay ==
  \A d, e \in Display :
    running[d] = running[e] /\ running[d] # NoRequest => d = e

HandledBefore ==
  /\ \A d \in Display : running[d] # NoRequest => running[d] \in handled
  /\ marked \subseteq handled
  /\ \A r \in Request : r \notin handled => notified[r] = <<>>
  /\ \A d \in Display : aim[d] # NoRequest => aim[d] \in handled

StopHasAim ==
  \A d \in Display :
    /\ kpc[d] = "idle" <=> aim[d] = NoRequest
    /\ hpc[d] = "enter" => aim[d] # running[d]
    /\ kpc[d] \in {"stop_tts", "stop_audio"} /\ Unsettled(d) /\ aim[d] = running[d] =>
         aim[d] \in marked

ToldOnce ==
  \A r \in Request :
    /\ Len(notified[r]) <= 1
    /\ r \notin Subscribed => notified[r] = <<>>
    /\ \A i \in 1..Len(notified[r]) : notified[r][i] = "LANG_ERR" <=> r \in BadLanguage

StatusSoFar ==
  \A d \in Display :
    LET r == running[d] IN
    /\ hpc[d] = "enter" => r \notin marked
    /\ Unsettled(d) => (info[d].msgStatus = "STOP" <=> r \in marked)
    /\ hpc[d] \in {"speak", "synthesis", "audio"} => eStatus[r] = "PLAY"
    /\ hpc[d] = "settle" => eStatus[r] \in {"ERROR", "DONE"}
    /\ hpc[d] = "notify" => /\ eStatus[r] \in {"ERROR", "DONE", "STOP"}
                            /\ eStatus[r] = "STOP" <=> r \in marked
    /\ hpc[d] \notin {"idle", "remove"} => notified[r] = <<>>

HandlerInv ==
  /\ TypeOK
  /\ InfoNamesRunning
  /\ RunsOnOneDisplay
  /\ HandledBefore
  /\ StopHasAim
  /\ ToldOnce
  /\ StatusSoFar
  /\ StopReportedIffMarked

(***************************************************************************)
(* What play() opens is the audio of the request that runs, if the file    *)
(* could be written: a synthesis that was stopped, or failed, never leads  *)
(* to the playing of an earlier request's file.                            *)
(***************************************************************************)
PlaysOwnAudio ==
  "file" \notin Faults =>
    \A d \in Display : hpc[d] = "audio" => pcm[d] = running[d]

\* The next look at the stop flag ends the synthesis, or the playing.
CutShort(d) ==
  \/ Synthesizing(d) /\ mIsStop[d]
  \/ Playing(d) /\ mIsStopPlay[d]

(***************************************************************************)
(* A stop flag cuts no request but one an engine was at work on when the   *)
(* flag was set: what a stop for an earlier request has left behind,       *)
(* because that request had passed its last look at the flag, never cuts   *)
(* the next one short.                                                     *)
(***************************************************************************)
FlagsOfTheRunning ==
  \A d \in Display : CutShort(d) => \E a \in Request : <<a, running[d]>> \in flagged

(***************************************************************************)
(* A stop that cuts the request it was aimed at has marked its entry       *)
(* first, so the client is told STOP, never that the request is done or    *)
(* failed.  The four steps of a stop may span the end of one request and   *)
(* the start of the next; then, and only then, is a request cut that need  *)
(* not be reported stopped: the stop was aimed at another one.             *)
(***************************************************************************)
CutIsReported ==
  \A d \in Display :
    CutShort(d) =>
      \/ running[d] \in marked
      \/ \E a \in Request \ {running[d]} : <<a, running[d]>> \in flagged

(***************************************************************************)
(* What PulseAudioEngine says of itself holds of the player as the handler *)
(* and its stops drive it, whichever call of the audio library fails: the  *)
(* file play() opened is closed exactly once on every path,                *)
(***************************************************************************)
FileClosedOnce == Pulse!FileClosedOnce

(***************************************************************************)
(* every failed write, flush or drain leaves one stream behind for good    *)
(* and nothing else does,                                                  *)
(***************************************************************************)
StreamsAccounted == Pulse!StreamsAccounted

(***************************************************************************)
(* and once a stop has set the flag, at most one more chunk is handed to   *)
(* the stream.                                                             *)
(***************************************************************************)
AtMostOneMoreChunk == Pulse!AtMostOneMoreChunk

(***************************************************************************)
(* What makes the invariants about the engines inductive: an engine is at  *)
(* work only while the speak thread is in it, and for the request that     *)
(* runs; a tag brings the status of the call with it; and the chunk that   *)
(* was written after a stop leaves the flag set for the next test.         *)
(***************************************************************************)
SpeechSoFar ==
  \A d \in Display :
    /\ spc[d] # "idle" => hpc[d] = "synthesis" /\ text[d] = running[d]
    /\ spc[d] # "idle" /\ tag[d] => gStatus[d] = rpc[d]
    /\ "file" \notin Faults /\ hpc[d] = "synthesis" /\ spc[d] = "idle"
         /\ ttsRet[d] = "ERROR_NONE" => pcm[d] = running[d]

PlayerSoFar ==
  \A d \in Display :
    /\ ppc[d] # "idle" => hpc[d] = "audio"
    /\ ppc[d] = "write" => late[d] = 0
    /\ ppc[d] \notin {"idle", "flush", "drain"} /\ late[d] > 0 => mIsStopPlay[d]

EnginesInv ==
  /\ Google!TypeOK /\ Google!CheckedCallIsAnswered
  /\ SpeechSoFar /\ PlaysOwnAudio
  /\ Pulse!TypeOK
  /\ PlayerSoFar /\ FileClosedOnce /\ StreamsAccounted /\ AtMostOneMoreChunk
  /\ FlagsOfTheRunning /\ CutIsReported

(***************************************************************************)
(* "Stop running speak request on display": when a stop found a running    *)
(* request and has set both flags while it ran, the request does not start *)
(* to play afterwards.  play() and speak() clear their flag at entry.      *)
(***************************************************************************)
SilencedDoesNotPlay ==
  [][\A d \in Display :
       hpc[d] = "synthesis" /\ hpc'[d] = "audio" => running[d] \notin silenced]_handlerVars
===============================================================================
