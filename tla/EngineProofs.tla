------------------------------ MODULE EngineProofs ------------------------------
(***************************************************************************)
(* Proofs about the two engines as EngineHandler drives them, for every    *)
(* number of displays and requests, every length of a file and every       *)
(* fault: what is in the PCM file that is played, whom a stop flag cuts    *)
(* short, and what the player does with descriptors and streams.           *)
(***************************************************************************)
EXTENDS EngineHandlerProofs

SpeechInv ==
  /\ Google!TypeOK /\ Google!CheckedCallIsAnswered
  /\ SpeechSoFar /\ PlaysOwnAudio

PlayerInv ==
  /\ Pulse!TypeOK
  /\ PlayerSoFar /\ FileClosedOnce /\ StreamsAccounted /\ AtMostOneMoreChunk

FlagsInv == FlagsOfTheRunning /\ CutIsReported

-------------------------------------------------------------------------------
(* The speech engines *)

(***************************************************************************)
(* Steps outside speak(): the places of the speak threads change neither   *)
(* into nor, while speak() runs, out of "synthesis".                       *)
(***************************************************************************)
LEMMA OutsideSpeak ==
  ASSUME SpeechInv, UNCHANGED googleVars,
         \A e \in Display :
           \/ hpc'[e] = hpc[e] /\ running'[e] = running[e]
           \/ /\ hpc[e] # "synthesis" \/ spc[e] = "idle"
              /\ hpc'[e] \notin {"synthesis", "audio"}
  PROVE  SpeechInv'
<1> USE DEF SpeechInv, googleVars
<1>1. Google!TypeOK'
  BY DEF Google!TypeOK
<1>2. Google!CheckedCallIsAnswered'
  BY DEF Google!CheckedCallIsAnswered
<1>3. SpeechSoFar'
  BY DEF SpeechSoFar
<1>4. PlaysOwnAudio'
  BY DEF PlaysOwnAudio
<1> QED
  BY <1>1, <1>2, <1>3, <1>4

(***************************************************************************)
(* GoogleTTSEngine::speak is called for the request that runs.             *)
(***************************************************************************)
LEMMA CallSpeakSpeech ==
  ASSUME SpeechInv, HandlerInv, NEW d \in Display, CallSpeak(d)
  PROVE  SpeechInv'
<1> USE DEF SpeechInv, CallSpeak, Google!Speak, Google!StopAtEntry
<1>1. running[d] \in Request /\ hpc \in [Display -> {"idle", "enter", "speak",
                "synthesis", "audio", "settle", "notify", "remove"}]
  BY DEF HandlerInv, TypeOK, InfoNamesRunning
<1>2. Google!TypeOK'
  BY <1>1 DEF Google!TypeOK
<1>3. Google!CheckedCallIsAnswered'
  BY DEF Google!CheckedCallIsAnswered, Google!TypeOK
<1>4. SpeechSoFar'
  BY <1>1 DEF SpeechSoFar, Google!TypeOK
<1>5. PlaysOwnAudio'
  BY <1>1 DEF PlaysOwnAudio
<1> QED
  BY <1>2, <1>3, <1>4, <1>5

(***************************************************************************)
(* A step inside speak(): the file is written only with the audio of the   *)
(* call that was answered, which is that of the request that runs.         *)
(***************************************************************************)
LEMMA SynthesisSpeech ==
  ASSUME SpeechInv, HandlerInv, NEW d \in Display, SynthesisStep(d)
  PROVE  SpeechInv'
<1> USE DEF SpeechInv
<1>0. Google!SpeakStep(d) /\ UNCHANGED <<hpc, running>>
  BY DEF SynthesisStep, speakVars
<1>1. CASE Google!GotEvent(d)
  <2> USE <1>1 DEF Google!GotEvent, Google!Answered
  <2>1. Google!TypeOK'
    BY DEF Google!TypeOK
  <2>2. Google!CheckedCallIsAnswered'
    BY DEF Google!CheckedCallIsAnswered, Google!TypeOK
  <2>3. SpeechSoFar' /\ PlaysOwnAudio'
    BY <1>0 DEF SpeechSoFar, PlaysOwnAudio, Google!TypeOK
  <2> QED
    BY <2>1, <2>2, <2>3
<1>2. CASE Google!Timeout(d)
  <2> USE <1>2 DEF Google!Timeout
  <2>1. Google!TypeOK'
    BY DEF Google!TypeOK
  <2>2. Google!CheckedCallIsAnswered'
    BY DEF Google!CheckedCallIsAnswered, Google!TypeOK
  <2>3. SpeechSoFar' /\ PlaysOwnAudio'
    BY <1>0 DEF SpeechSoFar, PlaysOwnAudio, Google!TypeOK
  <2> QED
    BY <2>1, <2>2, <2>3
<1>3. CASE Google!AfterPoll(d)
  <2> USE <1>3 DEF Google!AfterPoll, Google!LeavesLoop
  <2>1. Google!TypeOK'
    BY DEF Google!TypeOK
  <2>2. Google!CheckedCallIsAnswered'
    BY DEF Google!CheckedCallIsAnswered, Google!TypeOK
  <2>3. SpeechSoFar' /\ PlaysOwnAudio'
    BY <1>0 DEF SpeechSoFar, PlaysOwnAudio, Google!TypeOK
  <2> QED
    BY <2>1, <2>2, <2>3
<1>4. CASE Google!Stopped(d) \/ Google!SynthesisFailed(d)
  <2> USE <1>4 DEF Google!Stopped, Google!SynthesisFailed, Google!Return
  <2>1. Google!TypeOK'
    BY DEF Google!TypeOK
  <2>2. Google!CheckedCallIsAnswered'
    BY DEF Google!CheckedCallIsAnswered, Google!TypeOK
  <2>3. SpeechSoFar' /\ PlaysOwnAudio'
    BY <1>0 DEF SpeechSoFar, PlaysOwnAudio, Google!TypeOK
  <2> QED
    BY <2>1, <2>2, <2>3
<1>5. CASE Google!WriteFile(d)
  <2> USE <1>5 DEF Google!WriteFile, Google!Return, Google!StopSeen
  <2>1. /\ Google!AudioContent(d) = running[d] /\ running[d] = text[d]
        /\ hpc[d] = "synthesis" /\ spc[d] = "check"
    BY DEF Google!AudioContent, Google!CheckedCallIsAnswered, SpeechSoFar
  <2>2. Google!TypeOK'
    <3>1. running[d] \in Request
      BY <2>1 DEF HandlerInv, TypeOK, InfoNamesRunning
    <3>2. PICK file : /\ file \in {running[d], pcm[d], Broken}
                      /\ pcm' = [pcm EXCEPT ![d] = file]
      BY <2>1
    <3>3. pcm' \in [Display -> Request \cup {Broken}]
      BY <3>1, <3>2 DEF Google!TypeOK
    <3> QED
      BY <3>3 DEF Google!TypeOK
  <2>3. Google!CheckedCallIsAnswered'
    BY DEF Google!CheckedCallIsAnswered, Google!TypeOK
  <2>4. SpeechSoFar' /\ PlaysOwnAudio'
    BY <1>0, <2>1 DEF SpeechSoFar, PlaysOwnAudio, Google!TypeOK
  <2> QED
    BY <2>2, <2>3, <2>4
<1> QED
  BY <1>0, <1>1, <1>2, <1>3, <1>4, <1>5 DEF Google!SpeakStep

(***************************************************************************)
(* The answer of the server is in the call before its tag is given.        *)
(***************************************************************************)
LEMMA ServerSpeech ==
  ASSUME SpeechInv, NEW d \in Display, Server(d)
  PROVE  SpeechInv'
<1> USE DEF SpeechInv
<1>1. /\ \E answer \in {"ok", "error"} : Google!ServerAnswers(d, answer)
      /\ UNCHANGED <<hpc, running>>
  BY DEF Server, Google!Server, speakVars
<1>2. Google!TypeOK'
  BY <1>1 DEF Google!ServerAnswers, Google!TypeOK
<1>3. Google!CheckedCallIsAnswered' /\ PlaysOwnAudio'
  BY <1>1 DEF Google!ServerAnswers, Google!CheckedCallIsAnswered, PlaysOwnAudio
<1>4. SpeechSoFar'
  BY <1>1 DEF Google!ServerAnswers, SpeechSoFar, Google!TypeOK
<1> QED
  BY <1>2, <1>3, <1>4

(***************************************************************************)
(* GoogleTTSEngine::stop sets a flag; one more reason to leave the loop.   *)
(***************************************************************************)
LEMMA StopTtsSpeech ==
  ASSUME SpeechInv, NEW d \in Display, StopTts(d)
  PROVE  SpeechInv'
<1> USE DEF SpeechInv, StopTts, Google!Stop, speakVars
<1>1. Google!TypeOK' /\ Google!CheckedCallIsAnswered'
  BY DEF Google!TypeOK, Google!CheckedCallIsAnswered
<1>2. SpeechSoFar' /\ PlaysOwnAudio'
  BY DEF SpeechSoFar, PlaysOwnAudio
<1> QED
  BY <1>1, <1>2

(***************************************************************************)
(* play() is entered after a speak() that returned ERROR_NONE, and so has  *)
(* written the file.                                                       *)
(***************************************************************************)
LEMMA CallPlaySpeech ==
  ASSUME SpeechInv, HandlerInv, NEW d \in Display, CallPlay(d)
  PROVE  SpeechInv'
<1> USE DEF SpeechInv, CallPlay, googleVars
<1>1. hpc' = [hpc EXCEPT ![d] = "audio"] /\ DOMAIN hpc = Display
  BY DEF HandlerInv, TypeOK
<1>2. Google!TypeOK' /\ Google!CheckedCallIsAnswered'
  BY DEF Google!TypeOK, Google!CheckedCallIsAnswered
<1>3. SpeechSoFar' /\ PlaysOwnAudio'
  BY <1>1 DEF SpeechSoFar, PlaysOwnAudio
<1> QED
  BY <1>2, <1>3

(***************************************************************************)
(* One case per action of EngineHandler; those that are not about the      *)
(* speech engine fall under OutsideSpeak.                                  *)
(***************************************************************************)
LEMMA NextSpeechInv ==
  ASSUME SpeechInv, HandlerInv, [Next]_handlerVars
  PROVE  SpeechInv'
<1>0. DOMAIN hpc = Display /\ DOMAIN running = Display
  BY DEF HandlerInv, TypeOK
<1>1. CASE UNCHANGED handlerVars
  BY <1>1, OutsideSpeak DEF handlerVars, speakVars
<1>2. ASSUME NEW d \in Display, NEW r \in Request, HandleSpeak(d, r)
      PROVE  SpeechInv'
  BY <1>0, <1>2, OutsideSpeak DEF HandleSpeak
<1>3. ASSUME NEW d \in Display, HandleStop(d) \/ MarkByClear(d) \/ MarkStop(d) \/ StopAudio(d)
                                \/ AudioStep(d)
      PROVE  SpeechInv'
  BY <1>3, OutsideSpeak
     DEF HandleStop, MarkByClear, MarkStop, StopAudio, AudioStep, speakVars
<1>4. ASSUME NEW d \in Display, EngineMissing(d) \/ SaveInfo(d) \/ RemoveInfo(d)
      PROVE  SpeechInv'
  BY <1>0, <1>4, OutsideSpeak DEF EngineMissing, SaveInfo, RemoveInfo, SpeakReturns
<1>5. ASSUME NEW d \in Display, NoSpeechToPlay(d) \/ Played(d) \/ Settle(d) \/ Notify(d)
      PROVE  SpeechInv'
  BY <1>0, <1>5, OutsideSpeak DEF NoSpeechToPlay, Played, Settle, Notify
<1>6. ASSUME NEW d \in Display, SpeakThread(d) \/ ControlThread(d)
      PROVE  SpeechInv'
  BY <1>3, <1>4, <1>5, <1>6, CallSpeakSpeech, SynthesisSpeech, CallPlaySpeech, StopTtsSpeech
     DEF SpeakThread, ControlThread
<1> QED
  BY <1>1, <1>2, <1>3, <1>6, ServerSpeech DEF Next

-------------------------------------------------------------------------------
(* The player *)

(***************************************************************************)
(* Steps outside play(): no speak thread leaves "audio" while its player   *)
(* is at work.                                                             *)
(***************************************************************************)
LEMMA OutsidePlay ==
  ASSUME PlayerInv, UNCHANGED pulseVars,
         \A e \in Display : hpc'[e] = hpc[e] \/ hpc[e] # "audio" \/ ppc[e] = "idle"
  PROVE  PlayerInv'
<1> USE DEF PlayerInv, pulseVars
<1>1. Pulse!TypeOK' /\ FileClosedOnce' /\ StreamsAccounted' /\ AtMostOneMoreChunk'
  BY DEF Pulse!TypeOK, FileClosedOnce, Pulse!FileClosedOnce, StreamsAccounted,
         Pulse!StreamsAccounted, AtMostOneMoreChunk, Pulse!AtMostOneMoreChunk
<1>2. PlayerSoFar'
  BY DEF PlayerSoFar
<1> QED
  BY <1>1, <1>2

(***************************************************************************)
(* play() starts with the flag cleared and nothing written.                *)
(***************************************************************************)
LEMMA CallPlayPlayer ==
  ASSUME PlayerInv, HandlerInv, NEW d \in Display, CallPlay(d)
  PROVE  PlayerInv'
<1> USE DEF PlayerInv, CallPlay, Pulse!Play, Pulse!StopAtEntry, Pulse!TypeOK
<1>1. hpc' = [hpc EXCEPT ![d] = "audio"] /\ DOMAIN hpc = Display
  BY DEF HandlerInv, TypeOK
<1>2. Pulse!TypeOK'
  OBVIOUS
<1>3. FileClosedOnce'
  BY DEF FileClosedOnce, Pulse!FileClosedOnce, Pulse!HasFile
<1>4. StreamsAccounted'
  BY DEF StreamsAccounted, Pulse!StreamsAccounted, Pulse!HasStream
<1>5. AtMostOneMoreChunk' /\ PlayerSoFar'
  BY <1>1 DEF AtMostOneMoreChunk, Pulse!AtMostOneMoreChunk, PlayerSoFar
<1> QED
  BY <1>2, <1>3, <1>4, <1>5

(***************************************************************************)
(* PulseAudioEngine::stop sets a flag.                                     *)
(***************************************************************************)
LEMMA StopAudioPlayer ==
  ASSUME PlayerInv, NEW d \in Display, StopAudio(d)
  PROVE  PlayerInv'
<1> USE DEF PlayerInv, StopAudio, Pulse!Stop, speakVars
<1>1. Pulse!TypeOK' /\ FileClosedOnce' /\ StreamsAccounted' /\ AtMostOneMoreChunk'
  BY DEF Pulse!TypeOK, FileClosedOnce, Pulse!FileClosedOnce, StreamsAccounted,
         Pulse!StreamsAccounted, AtMostOneMoreChunk, Pulse!AtMostOneMoreChunk
<1>2. PlayerSoFar'
  BY DEF PlayerSoFar, Pulse!TypeOK
<1> QED
  BY <1>1, <1>2
(***************************************************************************)
(* A step inside play(), whichever call fails: the file and the stream go  *)
(* with the place of the loop, and a chunk is written only if the last     *)
(* test saw no flag.                                                       *)
(***************************************************************************)
LEMMA AudioStepPlayer ==
  ASSUME PlayerInv, HandlerAssumption, NEW d \in Display, AudioStep(d)
  PROVE  PlayerInv'
<1> DEFINE Resources == FileClosedOnce /\ StreamsAccounted
           Chunks == AtMostOneMoreChunk /\ PlayerSoFar
<1> USE DEF PlayerInv, FileClosedOnce, Pulse!FileClosedOnce, StreamsAccounted,
            Pulse!StreamsAccounted, Pulse!HasFile, Pulse!HasStream,
            AtMostOneMoreChunk, Pulse!AtMostOneMoreChunk, PlayerSoFar
<1>0. /\ Pulse!PlayStep(d) \/ Pulse!PlayFault(d) \/ Pulse!OpenFails(d)
      /\ UNCHANGED hpc
  BY DEF AudioStep, speakVars
<1>1. CASE Pulse!OpenFile(d)
  <2> USE <1>1 DEF Pulse!OpenFile, Pulse!TypeOK
  <2>1. Pulse!TypeOK'
    OBVIOUS
  <2>2. Resources'
    OBVIOUS
  <2>3. Chunks'
    BY <1>0
  <2> QED
    BY <2>1, <2>2, <2>3
<1>2. CASE Pulse!OpenFails(d) \/ Pulse!NewStreamFails(d)
  <2> USE <1>2 DEF Pulse!OpenFails, Pulse!NewStreamFails, Pulse!TypeOK
  <2>1. Pulse!TypeOK'
    OBVIOUS
  <2>2. Resources'
    OBVIOUS
  <2>3. Chunks'
    BY <1>0
  <2> QED
    BY <2>1, <2>2, <2>3
<1>3. CASE Pulse!NewStream(d)
  <2> USE <1>3 DEF Pulse!NewStream, Pulse!TypeOK
  <2>1. Pulse!TypeOK'
    OBVIOUS
  <2>2. Resources'
    OBVIOUS
  <2>3. Chunks'
    BY <1>0
  <2> QED
    BY <2>1, <2>2, <2>3
<1>4. CASE Pulse!ReadChunk(d) \/ Pulse!EndOfFile(d) \/ Pulse!ReadFails(d)
  <2> USE <1>4 DEF Pulse!ReadChunk, Pulse!EndOfFile, Pulse!ReadFails, Pulse!TypeOK
  <2>1. Pulse!TypeOK'
    OBVIOUS
  <2>2. Resources'
    OBVIOUS
  <2>3. Chunks'
    BY <1>0
  <2> QED
    BY <2>1, <2>2, <2>3
<1>5. CASE Pulse!TestStop(d)
  <2> USE <1>5 DEF Pulse!TestStop, Pulse!AfterTest, Pulse!TypeOK
  <2>1. Pulse!TypeOK'
    OBVIOUS
  <2>2. Resources'
    OBVIOUS
  <2>3. Chunks'
    BY <1>0
  <2> QED
    BY <2>1, <2>2, <2>3
<1>6. CASE Pulse!WriteChunk(d)
  <2> USE <1>6 DEF Pulse!WriteChunk, Pulse!TypeOK
  <2>1. Pulse!TypeOK'
    OBVIOUS
  <2>2. Resources'
    OBVIOUS
  <2>3. Chunks'
    BY <1>0
  <2> QED
    BY <2>1, <2>2, <2>3
<1>7. CASE Pulse!WriteFails(d)
  <2> USE <1>7 DEF Pulse!WriteFails, Pulse!AfterWriteError, Pulse!TypeOK
  <2>1. Pulse!TypeOK'
    BY HandlerAssumption
  <2>2. Resources'
    OBVIOUS
  <2>3. Chunks'
    BY <1>0
  <2> QED
    BY <2>1, <2>2, <2>3
<1>8. CASE Pulse!EndPlay(d)
  <2> USE <1>8 DEF Pulse!EndPlay, Pulse!TypeOK
  <2>1. Pulse!TypeOK'
    BY HandlerAssumption
  <2>2. Resources'
    OBVIOUS
  <2>3. Chunks'
    BY <1>0
  <2> QED
    BY <2>1, <2>2, <2>3
<1>9. CASE Pulse!FreeStream(d) \/ Pulse!EndFails(d)
  <2> USE <1>9 DEF Pulse!FreeStream, Pulse!StreamsAfterFree, Pulse!EndFails, Pulse!TypeOK
  <2>1. Pulse!TypeOK'
    OBVIOUS
  <2>2. Resources'
    OBVIOUS
  <2>3. Chunks'
    BY <1>0
  <2> QED
    BY <2>1, <2>2, <2>3
<1> QED
  BY <1>0, <1>1, <1>2, <1>3, <1>4, <1>5, <1>6, <1>7, <1>8, <1>9
     DEF Pulse!PlayStep, Pulse!PlayFault

(***************************************************************************)
(* One case per action of EngineHandler; those that are not about the      *)
(* player fall under OutsidePlay.                                          *)
(***************************************************************************)
LEMMA NextPlayerInv ==
  ASSUME PlayerInv, HandlerInv, [Next]_handlerVars
  PROVE  PlayerInv'
<1>0. DOMAIN hpc = Display
  BY DEF HandlerInv, TypeOK
<1>1. CASE UNCHANGED handlerVars
  BY <1>1, OutsidePlay DEF handlerVars, speakVars
<1>2. ASSUME NEW d \in Display, NEW r \in Request, HandleSpeak(d, r)
      PROVE  PlayerInv'
  BY <1>0, <1>2, OutsidePlay DEF HandleSpeak
<1>3. ASSUME NEW d \in Display, HandleStop(d) \/ MarkByClear(d) \/ MarkStop(d) \/ StopTts(d)
                                \/ SynthesisStep(d) \/ Server(d)
      PROVE  PlayerInv'
  BY <1>3, OutsidePlay
     DEF HandleStop, MarkByClear, MarkStop, StopTts, SynthesisStep, Server, speakVars
<1>4. ASSUME NEW d \in Display, EngineMissing(d) \/ SaveInfo(d) \/ RemoveInfo(d)
      PROVE  PlayerInv'
  BY <1>0, <1>4, OutsidePlay DEF EngineMissing, SaveInfo, RemoveInfo, SpeakReturns
<1>5. ASSUME NEW d \in Display, CallSpeak(d) \/ NoSpeechToPlay(d) \/ Played(d) \/ Settle(d)
                                \/ Notify(d)
      PROVE  PlayerInv'
  BY <1>0, <1>5, OutsidePlay DEF CallSpeak, NoSpeechToPlay, Played, Settle, Notify
<1>6. ASSUME NEW d \in Display, SpeakThread(d) \/ ControlThread(d)
      PROVE  PlayerInv'
  BY <1>3, <1>4, <1>5, <1>6, CallPlayPlayer, AudioStepPlayer, StopAudioPlayer,
     HandlerAssumption
     DEF SpeakThread, ControlThread
<1> QED
  BY <1>1, <1>2, <1>3, <1>6 DEF Next
-------------------------------------------------------------------------------
(* The stop flags *)

(***************************************************************************)
(* Whoever a flag cuts short after a step was cut before it, or a stop has *)
(* set the flag at work on it, and has marked it if it was aimed at it.    *)
(***************************************************************************)
LEMMA CutExplained ==
  ASSUME FlagsInv, flagged \subseteq flagged', marked \subseteq marked',
         \A e \in Display :
           CutShort(e)' =>
             \/ CutShort(e) /\ running'[e] = running[e]
             \/ \E a \in Request : /\ <<a, running'[e]>> \in flagged'
                                   /\ a = running'[e] => a \in marked'
  PROVE  FlagsInv'
<1> USE DEF FlagsInv
<1>1. ASSUME NEW e \in Display, CutShort(e)'
      PROVE  /\ \E a \in Request : <<a, running'[e]>> \in flagged'
             /\ \/ running'[e] \in marked'
                \/ \E a \in Request \ {running'[e]} : <<a, running'[e]>> \in flagged'
  <2>1. CASE CutShort(e) /\ running'[e] = running[e]
    BY <2>1 DEF FlagsOfTheRunning, CutIsReported
  <2>2. CASE \E a \in Request : /\ <<a, running'[e]>> \in flagged'
                                /\ a = running'[e] => a \in marked'
    <3>1. PICK a \in Request : /\ <<a, running'[e]>> \in flagged'
                               /\ a = running'[e] => a \in marked'
      BY <2>2
    <3> QED
      BY <3>1
  <2> QED
    BY <1>1, <2>1, <2>2
<1> QED
  BY <1>1 DEF FlagsOfTheRunning, CutIsReported

(***************************************************************************)
(* Steps that set no flag and start neither engine: a speak thread is in   *)
(* an engine only if it was, and for the same request.                     *)
(***************************************************************************)
LEMMA NoFlagSet ==
  ASSUME FlagsInv, flagged' = flagged, marked \subseteq marked',
         \A e \in Display :
           /\ mIsStop'[e] => mIsStop[e]
           /\ mIsStopPlay'[e] => mIsStopPlay[e]
           /\ spc'[e] # "idle" => spc[e] # "idle"
           /\ \/ hpc'[e] = hpc[e] /\ running'[e] = running[e]
              \/ hpc'[e] \notin {"synthesis", "audio"}
  PROVE  FlagsInv'
<1>1. \A e \in Display : CutShort(e)' => CutShort(e) /\ running'[e] = running[e]
  BY DEF CutShort, Synthesizing, Playing
<1> QED
  BY <1>1, CutExplained

(***************************************************************************)
(* speak() and play() clear their flag at entry (GoogleTTSEngine::speak,   *)
(* PulseAudioEngine::playAudiotts1 and playAudiotts2).                     *)
(***************************************************************************)
LEMMA EntryFlags ==
  ASSUME FlagsInv, HandlerInv, SpeechInv, PlayerInv, NEW d \in Display,
         CallSpeak(d) \/ CallPlay(d)
  PROVE  FlagsInv'
<1>0. DOMAIN hpc = Display /\ mIsStop \in [Display -> BOOLEAN]
      /\ mIsStopPlay \in [Display -> BOOLEAN] /\ DOMAIN spc = Display
  BY DEF HandlerInv, TypeOK, SpeechInv, Google!TypeOK, PlayerInv, Pulse!TypeOK
<1>1. CASE CallSpeak(d)
  <2>1. /\ hpc' = [hpc EXCEPT ![d] = "synthesis"]
        /\ mIsStop' = [mIsStop EXCEPT ![d] = FALSE]
        /\ spc' = [spc EXCEPT ![d] = "waiting"]
        /\ UNCHANGED <<running, flagged, marked, mIsStopPlay>>
    BY <1>1 DEF CallSpeak, Google!Speak, Google!StopAtEntry, pulseVars, historyVars
  <2>2. \A e \in Display : CutShort(e)' => CutShort(e)
    BY <1>0, <2>1 DEF CutShort, Synthesizing, Playing
  <2> QED
    BY <2>1, <2>2, CutExplained
<1>2. CASE CallPlay(d)
  <2>1. /\ hpc' = [hpc EXCEPT ![d] = "audio"]
        /\ mIsStopPlay' = [mIsStopPlay EXCEPT ![d] = FALSE]
        /\ UNCHANGED <<running, flagged, marked, mIsStop, spc>>
    BY <1>2 DEF CallPlay, Pulse!Play, Pulse!StopAtEntry, googleVars, historyVars
  <2>2. \A e \in Display : CutShort(e)' => CutShort(e)
    BY <1>0, <2>1 DEF CutShort, Synthesizing, Playing
  <2> QED
    BY <2>1, <2>2, CutExplained
<1> QED
  BY <1>1, <1>2

(***************************************************************************)
(* The stop that sets a flag has an aim, and has marked that request if it *)
(* is the one the engine is at work on.                                    *)
(***************************************************************************)
LEMMA StopFlags ==
  ASSUME FlagsInv, HandlerInv, SpeechInv, PlayerInv, NEW d \in Display,
         StopTts(d) \/ StopAudio(d)
  PROVE  FlagsInv'
<1>0. mIsStop \in [Display -> BOOLEAN] /\ mIsStopPlay \in [Display -> BOOLEAN]
  BY DEF SpeechInv, Google!TypeOK, PlayerInv, Pulse!TypeOK
<1>1. /\ kpc[d] \in {"stop_tts", "stop_audio"}
      /\ UNCHANGED <<hpc, running, spc, marked>>
      /\ flagged \subseteq flagged'
      /\ \A e \in Display \ {d} : mIsStop'[e] = mIsStop[e] /\ mIsStopPlay'[e] = mIsStopPlay[e]
  BY <1>0 DEF StopTts, StopAudio, Google!Stop, Pulse!Stop, googleVars, pulseVars, speakVars
<1>2. /\ aim[d] \in Request
      /\ Synthesizing(d) \/ Playing(d) => (aim[d] = running[d] => aim[d] \in marked)
  BY <1>1 DEF HandlerInv, TypeOK, StopHasAim, Unsettled, Synthesizing, Playing
<1>3. CutShort(d)' => CutShort(d) \/ <<aim[d], running[d]>> \in flagged'
  <2>1. CASE StopTts(d)
    BY <1>0, <2>1 DEF StopTts, Google!Stop, pulseVars, speakVars, CutShort, Synthesizing, Playing
  <2>2. CASE StopAudio(d)
    BY <1>0, <2>2 DEF StopAudio, Pulse!Stop, googleVars, speakVars, CutShort, Synthesizing, Playing
  <2> QED
    BY <2>1, <2>2
<1>4. CutShort(d)' => Synthesizing(d) \/ Playing(d)
  BY <1>1 DEF CutShort, Synthesizing, Playing
<1>5. \A e \in Display \ {d} : CutShort(e)' => CutShort(e)
  BY <1>1 DEF CutShort, Synthesizing, Playing
<1>6. running' = running /\ flagged \subseteq flagged' /\ marked \subseteq marked'
  BY <1>1
<1>7. ASSUME NEW e \in Display
      PROVE  CutShort(e)' =>
               \/ CutShort(e) /\ running'[e] = running[e]
               \/ \E a \in Request : /\ <<a, running'[e]>> \in flagged'
                                     /\ a = running'[e] => a \in marked'
  <2>1. CASE e = d
    BY <1>2, <1>3, <1>4, <1>6, <2>1
  <2>2. CASE e # d
    BY <1>5, <1>6, <2>2
  <2> QED
    BY <2>1, <2>2
<1> QED
  BY <1>6, <1>7, CutExplained

(***************************************************************************)
(* One case per action of EngineHandler; only the entry of an engine and   *)
(* the two steps of a stop that set a flag do not fall under NoFlagSet.    *)
(***************************************************************************)
LEMMA NextFlags ==
  ASSUME FlagsInv, HandlerInv, SpeechInv, PlayerInv, [Next]_handlerVars
  PROVE  FlagsInv'
<1>0. /\ DOMAIN hpc = Display /\ DOMAIN running = Display /\ DOMAIN spc = Display
      /\ mIsStop \in [Display -> BOOLEAN] /\ mIsStopPlay \in [Display -> BOOLEAN]
  BY DEF HandlerInv, TypeOK, SpeechInv, Google!TypeOK, PlayerInv, Pulse!TypeOK
<1>1. CASE UNCHANGED handlerVars
  BY <1>1, NoFlagSet DEF handlerVars, googleVars, pulseVars, speakVars, historyVars
<1>2. ASSUME NEW d \in Display, NEW r \in Request, HandleSpeak(d, r)
      PROVE  FlagsInv'
  BY <1>0, <1>2, NoFlagSet DEF HandleSpeak, googleVars, pulseVars
<1>3. ASSUME NEW d \in Display, HandleStop(d) \/ MarkByClear(d) \/ MarkStop(d)
      PROVE  FlagsInv'
  BY <1>3, NoFlagSet
     DEF HandleStop, MarkByClear, MarkStop, UpdateToStop, googleVars, pulseVars, speakVars,
         historyVars
<1>4. ASSUME NEW d \in Display, EngineMissing(d) \/ SaveInfo(d) \/ RemoveInfo(d)
      PROVE  FlagsInv'
  BY <1>0, <1>4, NoFlagSet
     DEF EngineMissing, SaveInfo, RemoveInfo, SpeakReturns, googleVars, pulseVars, historyVars
<1>5. ASSUME NEW d \in Display, NoSpeechToPlay(d) \/ Played(d) \/ Settle(d) \/ Notify(d)
      PROVE  FlagsInv'
  BY <1>0, <1>5, NoFlagSet
     DEF NoSpeechToPlay, Played, Settle, Notify, googleVars, pulseVars, historyVars
<1>6. ASSUME NEW d \in Display, SynthesisStep(d) \/ Server(d)
      PROVE  FlagsInv'
  <2>1. /\ \A e \in Display : /\ mIsStop'[e] => mIsStop[e]
                              /\ spc'[e] # "idle" => spc[e] # "idle"
        /\ UNCHANGED <<pulseVars, speakVars, flagged, marked>>
    BY <1>0, <1>6
       DEF SynthesisStep, Server, Google!SpeakStep, Google!GotEvent, Google!Timeout,
           Google!AfterPoll, Google!Stopped, Google!SynthesisFailed, Google!WriteFile,
           Google!Return, Google!Server, Google!ServerAnswers, historyVars
  <2> QED
    BY <2>1, NoFlagSet DEF pulseVars, speakVars
<1>7. ASSUME NEW d \in Display, AudioStep(d)
      PROVE  FlagsInv'
  <2>1. /\ \A e \in Display : mIsStopPlay'[e] => mIsStopPlay[e]
        /\ UNCHANGED <<googleVars, speakVars, flagged, marked>>
    BY <1>0, <1>7
       DEF AudioStep, Pulse!PlayStep, Pulse!PlayFault, Pulse!OpenFile, Pulse!OpenFails,
           Pulse!NewStream, Pulse!NewStreamFails, Pulse!ReadChunk, Pulse!EndOfFile,
           Pulse!ReadFails, Pulse!TestStop, Pulse!WriteChunk, Pulse!WriteFails,
           Pulse!EndPlay, Pulse!FreeStream, Pulse!EndFails, historyVars
  <2> QED
    BY <2>1, NoFlagSet DEF googleVars, speakVars
<1>8. ASSUME NEW d \in Display, SpeakThread(d) \/ ControlThread(d)
      PROVE  FlagsInv'
  BY <1>3, <1>4, <1>5, <1>6, <1>7, <1>8, EntryFlags, StopFlags
     DEF SpeakThread, ControlThread
<1> QED
  BY <1>1, <1>2, <1>3, <1>6, <1>8 DEF Next

-------------------------------------------------------------------------------
(***************************************************************************)
(* No engine is at work, and no flag set, at the start.                    *)
(***************************************************************************)
LEMMA InitEnginesInv == Init => EnginesInv
<1> SUFFICES ASSUME Init
             PROVE  EnginesInv
  OBVIOUS
<1> USE DEF Init
<1>1. Google!TypeOK /\ Google!CheckedCallIsAnswered /\ SpeechSoFar /\ PlaysOwnAudio
  BY DEF Google!Init, Google!TypeOK, Google!CheckedCallIsAnswered, SpeechSoFar, PlaysOwnAudio
<1>2. Pulse!TypeOK /\ PlayerSoFar /\ FileClosedOnce /\ StreamsAccounted
                   /\ AtMostOneMoreChunk
  BY HandlerAssumption
     DEF Pulse!Init, Pulse!TypeOK, PlayerSoFar, FileClosedOnce, Pulse!FileClosedOnce,
         Pulse!HasFile, StreamsAccounted, Pulse!StreamsAccounted, Pulse!HasStream,
         AtMostOneMoreChunk, Pulse!AtMostOneMoreChunk
<1>3. FlagsOfTheRunning /\ CutIsReported
  BY DEF FlagsOfTheRunning, CutIsReported, CutShort, Synthesizing, Playing, Google!Init
<1> QED
  BY <1>1, <1>2, <1>3 DEF EnginesInv

(***************************************************************************)
(* Every step keeps the engines' invariants together: of what the handler  *)
(* does they need only that a request runs where it says so (HandlerInv).  *)
(***************************************************************************)
LEMMA NextEnginesInv ==
  ASSUME EnginesInv, HandlerInv, [Next]_handlerVars
  PROVE  EnginesInv'
<1>1. SpeechInv /\ PlayerInv /\ FlagsInv
  BY DEF EnginesInv, SpeechInv, PlayerInv, FlagsInv
<1>2. SpeechInv' /\ PlayerInv' /\ FlagsInv'
  BY <1>1, NextSpeechInv, NextPlayerInv, NextFlags
<1> QED
  BY <1>2 DEF EnginesInv, SpeechInv, PlayerInv, FlagsInv

(***************************************************************************)
(* The engines' invariants hold in every state.                            *)
(***************************************************************************)
THEOREM EnginesInductive == Spec => []EnginesInv
BY NextEnginesInv, InitEnginesInv, HandlerInductive, PTL DEF Spec

(***************************************************************************)
(* The audio play() is given is that of the request that runs, unless a    *)
(* file could not be written: not what an earlier request has left         *)
(* (GoogleTTSEngine::speak, EngineHandler::handleRequest).                 *)
(***************************************************************************)
THEOREM OwnAudioPlayed == Spec => []PlaysOwnAudio
<1>1. EnginesInv => PlaysOwnAudio
  BY DEF EnginesInv
<1> QED
  BY <1>1, EnginesInductive, PTL

(***************************************************************************)
(* A stop flag that cuts a request short was set (GoogleTTSEngine::stop,   *)
(* PulseAudioEngine::stop) while an engine was at work on it, not before.  *)
(***************************************************************************)
THEOREM NoLeftoverStop == Spec => []FlagsOfTheRunning
<1>1. EnginesInv => FlagsOfTheRunning
  BY DEF EnginesInv
<1> QED
  BY <1>1, EnginesInductive, PTL

(***************************************************************************)
(* A request that is cut short by a stop aimed at it is one its client is  *)
(* told was stopped; it is cut and need not be only by the flags of a stop *)
(* that was aimed at another request (EngineHandler::handleRequest, STOP). *)
(***************************************************************************)
THEOREM CutsReported == Spec => []CutIsReported
<1>1. EnginesInv => CutIsReported
  BY DEF EnginesInv
<1> QED
  BY <1>1, EnginesInductive, PTL

(***************************************************************************)
(* play() closes the file it opened once on every path, the failing ones   *)
(* included (PulseAudioEngine::playAudiotts1 and playAudiotts2).           *)
(***************************************************************************)
THEOREM DescriptorsBalanced == Spec => []FileClosedOnce
<1>1. EnginesInv => FileClosedOnce
  BY DEF EnginesInv
<1> QED
  BY <1>1, EnginesInductive, PTL

(***************************************************************************)
(* Streams are left behind by failed writes, flushes and drains, one each, *)
(* and by nothing else (PulseAudioEngine::playAudiotts1, playAudiotts2).   *)
(***************************************************************************)
THEOREM StreamsBalanced == Spec => []StreamsAccounted
<1>1. EnginesInv => StreamsAccounted
  BY DEF EnginesInv
<1> QED
  BY <1>1, EnginesInductive, PTL

(***************************************************************************)
(* A stop lets at most one more chunk out (PulseAudioEngine::stop).        *)
(***************************************************************************)
THEOREM StopCutsPlayback == Spec => []AtMostOneMoreChunk
<1>1. EnginesInv => AtMostOneMoreChunk
  BY DEF EnginesInv
<1> QED
  BY <1>1, EnginesInductive, PTL
(***************************************************************************)
(* The PCM file changes only when the server has answered the call, and    *)
(* with OK, although the loop is also left without an answer while the     *)
(* Status object says OK (GoogleTTSEngine::speak).                         *)
(***************************************************************************)
THEOREM OnlyAnswersWritten == Spec => Google!WritesOnlyAnswers
<1> DEFINE Written == \A d \in Display : pcm'[d] # pcm[d] => tag[d] /\ rpc[d] = "ok"
<1>1. ASSUME EnginesInv, [Next]_handlerVars
      PROVE  [Written]_googleVars
  <2>1. CASE UNCHANGED pcm
    BY <2>1
  <2>2. ASSUME NEW d \in Display, SynthesisStep(d), ~UNCHANGED pcm
        PROVE  Written
    <3>1. Google!WriteFile(d)
      BY <2>2 DEF SynthesisStep, Google!SpeakStep, Google!GotEvent, Google!Timeout,
                  Google!AfterPoll, Google!Stopped, Google!SynthesisFailed
    <3>2. tag[d] /\ rpc[d] = "ok"
      BY <1>1, <3>1 DEF EnginesInv, SpeechSoFar, Google!CheckedCallIsAnswered,
                       Google!WriteFile, Google!StopSeen
    <3>3. \A e \in Display : e # d => pcm'[e] = pcm[e]
      BY <1>1, <3>1 DEF EnginesInv, Google!TypeOK, Google!WriteFile
    <3> QED
      BY <3>2, <3>3
  <2>3. ~UNCHANGED pcm => \E d \in Display : SynthesisStep(d)
    BY <1>1 DEF Next, handlerVars, googleVars, HandleSpeak, HandleStop, MarkByClear,
                SpeakThread, ControlThread, Server, Google!Server, Google!ServerAnswers,
                EngineMissing, SaveInfo, CallSpeak, Google!Speak, CallPlay,
                NoSpeechToPlay, AudioStep, Played, Settle, Notify, RemoveInfo, MarkStop,
                StopTts, Google!Stop, StopAudio
  <2> QED
    BY <2>1, <2>2, <2>3
<1> QED
  BY <1>1, EnginesInductive, PTL DEF Spec, Google!WritesOnlyAnswers, Google!googleVars, googleVars
===============================================================================
