----------------------------- MODULE GoogleProofs -----------------------------
(***************************************************************************)
(* Proofs about GoogleTTSEngine, for every number of displays, every text  *)
(* and every fault: what speak() returns of a call, and what is in the     *)
(* file it leaves to the audio engine.                                     *)
(***************************************************************************)
EXTENDS GoogleTTSEngine, TLAPS

(***************************************************************************)
(* No engine has spoken.                                                   *)
(***************************************************************************)
LEMMA InitHolds == Init => GoogleInv
BY DEF Init, GoogleInv, TypeOK, CheckedCallIsAnswered, CallIsKnown

(***************************************************************************)
(* A step of the thread that is in speak() keeps the invariant: the loop   *)
(* is left with the tag or with the flag set, and the tag comes with the   *)
(* status of the call.                                                     *)
(***************************************************************************)
LEMMA SpeakStepHolds ==
  ASSUME GoogleInv, NEW d \in Display, SpeakStep(d)
  PROVE  GoogleInv'
<1> USE DEF GoogleInv, TypeOK, CheckedCallIsAnswered, CallIsKnown
<1>1. CASE GotEvent(d)
  BY <1>1 DEF GotEvent, Answered
<1>2. CASE Timeout(d)
  BY <1>2 DEF Timeout
<1>3. CASE AfterPoll(d)
  BY <1>3 DEF AfterPoll, LeavesLoop
<1>4. CASE Stopped(d)
  BY <1>4 DEF Stopped, StopSeen, Return
<1>5. CASE SynthesisFailed(d)
  BY <1>5 DEF SynthesisFailed, Return
<1>6. CASE WriteFile(d)
  <2>1. PICK file \in {AudioContent(d)}
                      \cup (IF "file" \in Faults THEN {pcm[d], Broken} ELSE {}) :
          pcm' = [pcm EXCEPT ![d] = file]
    BY <1>6 DEF WriteFile
  <2>2. text[d] \in Speech
    BY <1>6 DEF WriteFile
  <2>3. pcm' \in [Display -> Speech \cup {Broken}]
    BY <2>1, <2>2 DEF AudioContent
  <2> QED
    BY <1>6, <2>3 DEF WriteFile, Return
<1> QED
  BY <1>1, <1>2, <1>3, <1>4, <1>5, <1>6 DEF SpeakStep

(***************************************************************************)
(* Every step of every thread keeps the invariant: stop() only sets the    *)
(* flag, and the server answers a call once.                               *)
(***************************************************************************)
LEMMA NextHolds == GoogleInv /\ [Next]_googleVars => GoogleInv'
<1> SUFFICES ASSUME GoogleInv, [Next]_googleVars
             PROVE  GoogleInv'
  OBVIOUS
<1> USE DEF GoogleInv, TypeOK, CheckedCallIsAnswered, CallIsKnown
<1>1. ASSUME NEW d \in Display, NEW r \in Speech, Speak(d, r)
      PROVE  GoogleInv'
  BY <1>1 DEF Speak, StopAtEntry
<1>2. ASSUME NEW d \in Display, SpeakStep(d)
      PROVE  GoogleInv'
  BY <1>2, SpeakStepHolds
<1>3. ASSUME NEW d \in Display, NEW answer \in {"ok", "error"}, ServerAnswers(d, answer)
      PROVE  GoogleInv'
  BY <1>3 DEF ServerAnswers
<1>4. ASSUME NEW d \in Display, Stop(d)
      PROVE  GoogleInv'
  BY <1>4 DEF Stop
<1>5. CASE UNCHANGED googleVars
  BY <1>5 DEF googleVars
<1> QED
  BY <1>1, <1>2, <1>3, <1>4, <1>5 DEF Next, Server

(***************************************************************************)
(* GoogleInv is inductive.                                                 *)
(***************************************************************************)
THEOREM GoogleInductive == Spec => []GoogleInv
BY InitHolds, NextHolds, PTL DEF Spec

(***************************************************************************)
(* The variables of the engines keep their types: the file of a display    *)
(* holds the audio of a text or is broken, never that of no text.          *)
(***************************************************************************)
THEOREM TypeCorrect == Spec => []TypeOK
BY GoogleInductive, PTL DEF GoogleInv

(***************************************************************************)
(* The check behind the loop finds an answered call, or the flag that      *)
(* ended the wait: nothing consumes it in between.                         *)
(***************************************************************************)
THEOREM CheckedCallIsAnsweredAlways == Spec => []CheckedCallIsAnswered
BY GoogleInductive, PTL DEF GoogleInv

(***************************************************************************)
(* Whatever the file system does, the file changes only while speak()      *)
(* holds an answer that the server gave without an error.                  *)
(***************************************************************************)
THEOREM WritesOnlyAnswersAlways == Spec => WritesOnlyAnswers
<1>1. ASSUME GoogleInv, [Next]_googleVars, NEW d \in Display, pcm'[d] # pcm[d]
      PROVE  tag[d] /\ rpc[d] = "ok"
  <2>1. WriteFile(d)
    <3>1. ASSUME UNCHANGED pcm
          PROVE  FALSE
      BY <1>1, <3>1
    <3>2. PICK b \in Display : WriteFile(b)
      <4>1. CASE Next
        BY <3>1, <4>1 DEF Next, Speak, SpeakStep, GotEvent, Timeout, AfterPoll, Stopped,
             SynthesisFailed, Server, ServerAnswers, Stop
      <4>2. CASE UNCHANGED googleVars
        BY <3>1, <4>2 DEF googleVars
      <4> QED
        BY <1>1, <4>1, <4>2
    <3>3. \A a \in Display \ {b} : pcm'[a] = pcm[a]
      BY <1>1, <3>2 DEF WriteFile, GoogleInv, TypeOK
    <3> QED
      BY <1>1, <3>2, <3>3
  <2> QED
    BY <1>1, <2>1 DEF WriteFile, StopSeen, GoogleInv, CheckedCallIsAnswered, CallIsKnown
<1>2. GoogleInv /\ [Next]_googleVars =>
        [\A d \in Display : pcm'[d] # pcm[d] => tag[d] /\ rpc[d] = "ok"]_googleVars
  BY <1>1
<1> QED
  BY <1>2, GoogleInductive, PTL DEF Spec, WritesOnlyAnswers
===============================================================================
