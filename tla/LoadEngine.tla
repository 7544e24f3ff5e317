------------------------------ MODULE LoadEngine ------------------------------
(***************************************************************************)
(* EngineHandler::loadEngine (src/core/EngineHandler.cpp): which engines a *)
(* configuration makes.  It runs once, when the service starts and before  *)
(* any other thread does, so it is an operator on the configuration:       *)
(*   isObject      did the file parse, and is it a JSON object?            *)
(*   tts_engine, audio_engine   the names of the engines to make           *)
(*   isNumber, displayCount     is the count a number, and which int?      *)
(* TTSConfig::getValue reports no error, so a missing key is a name that   *)
(* no factory has, or no number.                                           *)
(***************************************************************************)
EXTENDS Integers

CONSTANTS
  Word,           \* 2^w, where w is the width of an unsigned int
  SpeechEngines,  \* the names with a factory for speech engines
  AudioEngines    \* the names with a factory for audio engines

\* An unsigned int counts up to 2 displays, and an int too.
ASSUME WordAssumption == Word \in Nat /\ Word >= 4

Display == 0..1  \* DUAL_DISPLAYS slots in mTTSEngine and mAudioEngine

\* The values of an int, and what one is as an unsigned int.
Ints == -(Word \div 2)..(Word \div 2 - 1)
Unsigned(n) == n % Word

ReadFile(config) == config.isObject
CreateTTSEngine(config) == config.tts_engine \in SpeechEngines
CreateAudioEngine(config) == config.audio_engine \in AudioEngines

\* The rounds of the loop, whose counter is unsigned and its bound is not.
MutantSkipsLast(config) == 0..(Unsigned(config.displayCount) - 2)
Rounds(config) == 0..(Unsigned(config.displayCount) - 1)

\* A name without a factory ends the loop: the audio engine comes second.
TTSEnginesMade(config) ==
  {d \in Rounds(config) : /\ ReadFile(config) /\ config.isNumber
                          /\ CreateTTSEngine(config)
                          /\ d = 0 \/ CreateAudioEngine(config)}

AudioEnginesMade(config) ==
  {d \in TTSEnginesMade(config) : CreateAudioEngine(config)}

\* The loop writes behind the arrays, and what follows is undefined.
Overruns(config) == TTSEnginesMade(config) \ Display # {}

\* The displays handleRequest serves: the constant Loaded of EngineHandler.
LoadedBy(config) == AudioEnginesMade(config) \cap Display
===============================================================================
