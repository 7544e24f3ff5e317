---------------------------- MODULE GoogleTTSEngine ----------------------------
(***************************************************************************)
(* The speech engine of each display (src/engines/tts/google): speak()     *)
(* starts a gRPC call, polls its completion queue with a deadline, looks   *)
(* at the stop flag after every poll, and writes the audio it gets to the  *)
(* PCM file of the display.  stop() only sets the flag; it is called by    *)
(* another thread at any time.                                             *)
(*                                                                         *)
(* EngineHandler owns one engine per display and calls engine d for        *)
(* display d only, so of the two flags of an engine the model has one, the *)
(* one of its own display.                                                 *)
(***************************************************************************)
CONSTANTS
  Display,    \* the displays, each with its engine
  Speech,     \* what may be spoken
  NoSpeech,   \* no speech
  Broken,     \* a file that is absent, empty, cut short, or left by an earlier process
  Faults      \* what may go wrong: "network", "file"

ASSUME SpeechAssumption == NoSpeech \notin Speech /\ Broken \notin Speech \cup {NoSpeech}

VARIABLES
  spc,        \* where the speak() of the display is
  text,       \* what it speaks
  mIsStop,    \* the stop flag: mIsStopDisplay1, mIsStopDisplay2
  rpc,        \* the call at the server
  tag,        \* has the completion queue given the tag of the call?
  gStatus,    \* the status of the call as speak() sees it
  ttsRet,     \* what the last speak() returned
  pcm         \* the PCM file: whose audio it holds

googleVars == <<spc, text, mIsStop, rpc, tag, gStatus, ttsRet, pcm>>

Init ==
  /\ spc = [d \in Display |-> "idle"]
  /\ text = [d \in Display |-> NoSpeech]
  /\ mIsStop = [d \in Display |-> FALSE]
  /\ rpc = [d \in Display |-> "none"]
  /\ tag = [d \in Display |-> FALSE]
  /\ gStatus = [d \in Display |-> "ok"]
  /\ ttsRet = [d \in Display |-> "ERROR_NONE"]
  /\ pcm = [d \in Display |-> Broken]

-------------------------------------------------------------------------------
MutantKeepsStop(d) == mIsStop
StopAtEntry(d) == [mIsStop EXCEPT ![d] = FALSE]

(***************************************************************************)
(* The flag is cleared and the call started.  The Status object of a call  *)
(* that has not ended says OK.                                             *)
(***************************************************************************)
Speak(d, r) ==
  /\ spc[d] = "idle"
  /\ spc' = [spc EXCEPT ![d] = "waiting"]
  /\ text' = [text EXCEPT ![d] = r]
  /\ mIsStop' = StopAtEntry(d)
  /\ rpc' = [rpc EXCEPT ![d] = "pending"]
  /\ tag' = [tag EXCEPT ![d] = FALSE]
  /\ gStatus' = [gStatus EXCEPT ![d] = "ok"]
  /\ UNCHANGED <<ttsRet, pcm>>

\* The server answers, or the call breaks.
ServerAnswers(d, answer) ==
  /\ rpc[d] = "pending"
  /\ rpc' = [rpc EXCEPT ![d] = answer]
  /\ UNCHANGED <<spc, text, mIsStop, tag, gStatus, ttsRet, pcm>>

MutantAnyEvent(d) == rpc[d] # "none"
Answered(d) == rpc[d] \in {"ok", "error"}

\* AsyncNext gives the tag and fills in the status, or its deadline passes.
GotEvent(d) ==
  /\ spc[d] = "waiting"
  /\ Answered(d)
  /\ spc' = [spc EXCEPT ![d] = "polled"]
  /\ tag' = [tag EXCEPT ![d] = TRUE]
  /\ gStatus' = [gStatus EXCEPT ![d] = rpc[d]]
  /\ UNCHANGED <<text, mIsStop, rpc, ttsRet, pcm>>

Timeout(d) ==
  /\ spc[d] = "waiting"
  /\ rpc[d] = "pending"
  /\ spc' = [spc EXCEPT ![d] = "polled"]
  /\ UNCHANGED <<text, mIsStop, rpc, tag, gStatus, ttsRet, pcm>>

MutantPollsOn(d) == tag[d]
MutantLeavesOnTimeout(d) == TRUE
LeavesLoop(d) == mIsStop[d] \/ tag[d]

AfterPoll(d) ==
  /\ spc[d] = "polled"
  /\ spc' = [spc EXCEPT ![d] = IF LeavesLoop(d) THEN "check" ELSE "waiting"]
  /\ UNCHANGED <<text, mIsStop, rpc, tag, gStatus, ttsRet, pcm>>

\* speak() returns: the call object, if it is still open, goes with it.
Return(d, value) ==
  /\ spc' = [spc EXCEPT ![d] = "idle"]
  /\ text' = [text EXCEPT ![d] = NoSpeech]
  /\ rpc' = [rpc EXCEPT ![d] = "none"]
  /\ ttsRet' = [ttsRet EXCEPT ![d] = value]
  /\ UNCHANGED <<tag, gStatus>>

MutantIgnoresStop(d) == FALSE
StopSeen(d) == mIsStop[d]

Stopped(d) ==
  /\ spc[d] = "check"
  /\ StopSeen(d)
  /\ mIsStop' = [mIsStop EXCEPT ![d] = FALSE]
  /\ Return(d, "SPEECH_DATA_CREATION_ERROR")
  /\ UNCHANGED pcm

SynthesisFailed(d) ==
  /\ spc[d] = "check"
  /\ ~StopSeen(d)
  /\ gStatus[d] # "ok"
  /\ Return(d, "SPEECH_DATA_CREATION_ERROR")
  /\ UNCHANGED <<mIsStop, pcm>>

\* The audio of the answer: an answer that has not come holds none.
AudioContent(d) == IF tag[d] THEN text[d] ELSE Broken

(***************************************************************************)
(* The file is written; or it could not be opened and keeps what it held,  *)
(* or the write was cut short.  speak() does not look.                     *)
(***************************************************************************)
WriteFile(d) ==
  /\ spc[d] = "check"
  /\ ~StopSeen(d)
  /\ gStatus[d] = "ok"
  /\ \E file \in {AudioContent(d)}
                 \cup (IF "file" \in Faults THEN {pcm[d], Broken} ELSE {}) :
       pcm' = [pcm EXCEPT ![d] = file]
  /\ Return(d, "ERROR_NONE")
  /\ UNCHANGED mIsStop

\* stop(displayId), from the control thread.
Stop(d) ==
  /\ mIsStop' = [mIsStop EXCEPT ![d] = TRUE]
  /\ UNCHANGED <<spc, text, rpc, tag, gStatus, ttsRet, pcm>>

-------------------------------------------------------------------------------
\* The thread that is in speak().
SpeakStep(d) ==
  \/ GotEvent(d)
  \/ Timeout(d)
  \/ AfterPoll(d)
  \/ Stopped(d)
  \/ SynthesisFailed(d)
  \/ WriteFile(d)

Server(d) ==
  \/ ServerAnswers(d, "ok")
  \/ "network" \in Faults /\ ServerAnswers(d, "error")

Next ==
  \E d \in Display :
    \/ \E r \in Speech : Speak(d, r)
    \/ SpeakStep(d)
    \/ Server(d)
    \/ Stop(d)

Spec == Init /\ [][Next]_googleVars

\* speak() runs on; the server need not answer.
FairSpec == Spec /\ \A d \in Display : WF_googleVars(SpeakStep(d))

-------------------------------------------------------------------------------
TypeOK ==
  /\ spc \in [Display -> {"idle", "waiting", "polled", "check"}]
  /\ text \in [Display -> Speech \cup {NoSpeech}]
  /\ mIsStop \in [Display -> BOOLEAN]
  /\ rpc \in [Display -> {"none", "pending", "ok", "error"}]
  /\ tag \in [Display -> BOOLEAN]
  /\ gStatus \in [Display -> {"ok", "error"}]
  /\ ttsRet \in [Display -> {"ERROR_NONE", "SPEECH_DATA_CREATION_ERROR"}]
  /\ pcm \in [Display -> Speech \cup {Broken}]

(***************************************************************************)
(* The file changes only to the audio of an answered call, although the    *)
(* loop is also left without an answer while the Status object says OK:    *)
(* the flag that ended the wait is still set at the check behind the loop. *)
(***************************************************************************)
CheckedCallIsAnswered ==
  \A d \in Display : spc[d] = "check" => tag[d] \/ mIsStop[d]

WritesOnlyAnswers ==
  [][\A d \in Display : pcm'[d] # pcm[d] => tag[d] /\ rpc[d] = "ok"]_googleVars

(***************************************************************************)
(* What makes both inductive: as long as speak() runs its call has a text, *)
(* and once the queue has given the tag, the Status object of speak() says *)
(* how the call at the server ended.                                       *)
(***************************************************************************)
CallIsKnown ==
  \A d \in Display :
    spc[d] # "idle" => text[d] \in Speech /\ (tag[d] => rpc[d] = gStatus[d])

GoogleInv == TypeOK /\ CheckedCallIsAnswered /\ CallIsKnown

(***************************************************************************)
(* stop() ends a wait for the server within one poll, whether the server   *)
(* answers or not.                                                         *)
(***************************************************************************)
StopEndsWait ==
  \A d \in Display : (spc[d] = "waiting" /\ mIsStop[d]) ~> spc[d] = "idle"
===============================================================================
