-------------------------- MODULE EngineHandlerProofs --------------------------
(***************************************************************************)
(* Proofs about EngineHandler for every number of displays and requests,   *)
(* every choice of loaded engines and every fault: what the entry of a     *)
(* display says, and what clients are told of stops.                       *)
(***************************************************************************)
EXTENDS EngineHandler, SequenceTheorems, TLAPS

(***************************************************************************)
(* Nothing runs, is published or told at the start.                        *)
(***************************************************************************)
LEMMA InitHandlerInv == Init => HandlerInv
<1> SUFFICES ASSUME Init
             PROVE  HandlerInv
  OBVIOUS
<1> USE DEF Init, NoInfo
<1>1. TypeOK
  BY EmptySeq DEF TypeOK
<1>2. InfoNamesRunning /\ RunsOnOneDisplay /\ HandledBefore /\ StopHasAim
                     /\ StatusSoFar
  BY DEF InfoNamesRunning, RunsOnOneDisplay, HandledBefore, StopHasAim, StatusSoFar,
         Unsettled
<1>3. StopReportedIffMarked /\ ToldOnce
  BY EmptySeq DEF StopReportedIffMarked, ToldOnce
<1> QED
  BY <1>1, <1>2, <1>3 DEF HandlerInv

(***************************************************************************)
(* The invariant speaks of the handler's own state only: a step of the     *)
(* engines, or of the speech server, cannot disturb it.                    *)
(***************************************************************************)
LEMMA EngineStepInv ==
  ASSUME HandlerInv, UNCHANGED <<info, speakVars, controlVars, historyVars>>
  PROVE  HandlerInv'
BY DEF HandlerInv, speakVars, controlVars, historyVars, TypeOK, InfoNamesRunning,
       RunsOnOneDisplay, HandledBefore, StopHasAim, StatusSoFar, ToldOnce,
       StopReportedIffMarked, Unsettled, NoInfo

(***************************************************************************)
(* What a stop has found, and has marked, stays so while the speak thread  *)
(* moves on in handleRequest.                                              *)
(***************************************************************************)
LEMMA AimKept ==
  ASSUME StopHasAim, UNCHANGED <<running, controlVars, marked>>,
         \A e \in Display :
           /\ hpc'[e] = "enter" => hpc[e] = "enter"
           /\ hpc'[e] \in {"speak", "synthesis", "audio", "settle"} =>
                hpc[e] \in {"speak", "synthesis", "audio", "settle"}
  PROVE  StopHasAim'
<1> SUFFICES ASSUME NEW e \in Display
             PROVE  StopHasAim!(e)'
  BY DEF StopHasAim
<1>1. running' = running /\ kpc' = kpc /\ aim' = aim /\ marked' = marked
  BY DEF controlVars
<1>2. StopHasAim!(e)
  BY DEF StopHasAim
<1> QED
  BY <1>1, <1>2 DEF Unsettled

(***************************************************************************)
(* updateSpeakRequestInfo(d, TTS_MSG_STOP), by whichever thread: the entry *)
(* that is marked is the one of the running request.                       *)
(***************************************************************************)
LEMMA UpdateToStopInv ==
  ASSUME HandlerInv, NEW d \in Display, UpdateToStop(d),
         kpc' \in [Display -> {"idle", "mark", "stop_tts", "stop_audio"}],
         StopHasAim',
         UNCHANGED <<speakVars, aim, handled, notified, silenced, flagged>>
  PROVE  HandlerInv'
<1> USE DEF HandlerInv, UpdateToStop, StopMarked, speakVars
<1>1. /\ info' = IF info[d] # NoInfo THEN [info EXCEPT ![d].msgStatus = "STOP"] ELSE info
      /\ marked' = IF Unsettled(d) THEN marked \cup {running[d]} ELSE marked
  OBVIOUS
<1>2. Unsettled(d) => /\ running[d] \in handled
                      /\ info[d] # NoInfo
                      /\ notified[running[d]] = <<>>
  BY HandlerAssumption
     DEF Unsettled, InfoNamesRunning, HandledBefore, StatusSoFar, TypeOK, NoInfo
<1>3. TypeOK'
  <2>1. marked' \subseteq Request
    BY <1>1, <1>2 DEF TypeOK
  <2>2. info' \in [Display -> [req : Request \cup {NoRequest},
                              msgStatus : {"none", "PLAY", "STOP"}]]
    <3>1. info \in [Display -> [req : Request \cup {NoRequest},
                               msgStatus : {"none", "PLAY", "STOP"}]]
      BY DEF TypeOK
    <3> QED
      BY ONLY <1>1, <3>1
  <2> QED
    BY <2>1, <2>2 DEF TypeOK
<1>4. InfoNamesRunning'
  BY <1>1 DEF InfoNamesRunning, TypeOK, NoInfo
<1>5. RunsOnOneDisplay' /\ HandledBefore' /\ StopHasAim'
  BY <1>1, <1>2 DEF RunsOnOneDisplay, HandledBefore
<1>6. StatusSoFar'
  <2> SUFFICES ASSUME NEW e \in Display
               PROVE  StatusSoFar!(e)'
    BY DEF StatusSoFar
  <2>1. CASE e = d
    BY <1>1, <1>2, <2>1 DEF StatusSoFar, Unsettled, TypeOK, InfoNamesRunning
  <2>2. CASE e # d
    <3>1. info'[e] = info[e]
      BY <1>1, <2>2 DEF TypeOK
    <3>2. running[e] # NoRequest => running[e] # running[d]
      BY <2>2 DEF RunsOnOneDisplay
    <3>3. hpc[e] # "idle" => (running[e] \in marked' <=> running[e] \in marked)
      BY <1>1, <3>2 DEF InfoNamesRunning
    <3> QED
      BY <3>1, <3>3 DEF StatusSoFar, Unsettled
  <2> QED
    BY <2>1, <2>2
<1>7. StopReportedIffMarked'
  <2> SUFFICES ASSUME NEW r \in Request \ BadLanguage, NEW i \in 1..Len(notified[r])
               PROVE  notified[r][i] = "STOP" <=> r \in marked'
    BY DEF StopReportedIffMarked
  <2>1. Unsettled(d) => running[d] # r
    BY <1>2, EmptySeq
  <2> QED
    BY <1>1, <2>1 DEF StopReportedIffMarked
<1> QED
  BY <1>3, <1>4, <1>5, <1>6, <1>7 DEF ToldOnce

-------------------------------------------------------------------------------
(***************************************************************************)
(* A request that was never handled starts with nothing marked or told     *)
(* (dispatchHandler calls execute).                                        *)
(***************************************************************************)
LEMMA HandleSpeakInv ==
  ASSUME HandlerInv, NEW d \in Display, NEW r \in Request, HandleSpeak(d, r)
  PROVE  HandlerInv'
<1> USE DEF HandlerInv, HandleSpeak, controlVars
<1>1. /\ hpc[d] = "idle" /\ r \notin handled
      /\ hpc' = [hpc EXCEPT ![d] = "enter"]
      /\ running' = [running EXCEPT ![d] = r]
      /\ handled' = handled \cup {r}
      /\ r # NoRequest
  BY HandlerAssumption
<1>2. TypeOK'
  BY <1>1 DEF TypeOK
<1>3. InfoNamesRunning'
  BY <1>1 DEF InfoNamesRunning, TypeOK, NoInfo
<1>4. RunsOnOneDisplay'
  BY <1>1 DEF RunsOnOneDisplay, HandledBefore, TypeOK
<1>5. HandledBefore'
  BY <1>1 DEF HandledBefore, TypeOK
<1>8. StopHasAim'
  <2>1. \A e \in Display : aim[e] # r
    BY <1>1 DEF HandledBefore
  <2> QED
    BY <1>1, <2>1 DEF StopHasAim, Unsettled, TypeOK
<1>6. StatusSoFar'
  <2> SUFFICES ASSUME NEW e \in Display
               PROVE  StatusSoFar!(e)'
    BY DEF StatusSoFar
  <2>1. CASE e = d
    <3>1. hpc'[e] = "enter" /\ running'[e] = r /\ ~Unsettled(e)'
      BY <1>1, <2>1 DEF TypeOK, Unsettled
    <3>2. r \notin marked' /\ notified'[r] = <<>>
      BY <1>1 DEF HandledBefore
    <3> QED
      BY <3>1, <3>2
  <2>2. CASE e # d
    BY <1>1, <2>2 DEF StatusSoFar, Unsettled, TypeOK
  <2> QED
    BY <2>1, <2>2
<1>7. StopReportedIffMarked' /\ ToldOnce'
  BY DEF StopReportedIffMarked, ToldOnce
<1> QED
  BY <1>2, <1>3, <1>4, <1>5, <1>6, <1>7, <1>8

(***************************************************************************)
(* handleRequest publishes the entry: insert finds none (saveSpeakRequest- *)
(* Info).                                                                  *)
(***************************************************************************)
LEMMA SaveInfoInv ==
  ASSUME HandlerInv, NEW d \in Display, SaveInfo(d)
  PROVE  HandlerInv'
<1> USE DEF HandlerInv, SaveInfo, SavedInfo, controlVars, historyVars
<1>1. /\ running[d] \in Request
      /\ hpc[d] = "enter"
      /\ hpc' = [hpc EXCEPT ![d] = "speak"]
      /\ info' = [info EXCEPT ![d] = [req |-> running[d], msgStatus |-> "PLAY"]]
      /\ eStatus' = [eStatus EXCEPT ![running[d]] = "PLAY"]
      /\ running[d] \notin marked /\ notified[running[d]] = <<>>
  BY DEF TypeOK, InfoNamesRunning, StatusSoFar
<1>2. TypeOK'
  BY <1>1 DEF TypeOK
<1>3. InfoNamesRunning'
  BY <1>1 DEF InfoNamesRunning, TypeOK
<1>4. RunsOnOneDisplay' /\ HandledBefore' /\ StopHasAim'
  <2>1. StopHasAim'
    BY <1>1 DEF StopHasAim, Unsettled, TypeOK
  <2> QED
    BY <2>1 DEF RunsOnOneDisplay, HandledBefore
<1>5. StatusSoFar'
  <2> SUFFICES ASSUME NEW e \in Display
               PROVE  StatusSoFar!(e)'
    BY DEF StatusSoFar
  <2>1. CASE e = d
    BY <1>1, <2>1 DEF StatusSoFar, Unsettled, TypeOK
  <2>2. CASE e # d
    <3>1. info'[e] = info[e] /\ hpc'[e] = hpc[e]
      BY <1>1, <2>2 DEF TypeOK
    <3>2. hpc[e] # "idle" => eStatus'[running[e]] = eStatus[running[e]]
      BY <1>1, <2>2 DEF RunsOnOneDisplay, InfoNamesRunning, TypeOK
    <3> QED
      BY <3>1, <3>2 DEF StatusSoFar, Unsettled
  <2> QED
    BY <2>1, <2>2
<1>6. StopReportedIffMarked' /\ ToldOnce'
  BY DEF StopReportedIffMarked, ToldOnce
<1> QED
  BY <1>2, <1>3, <1>4, <1>5, <1>6

\* What a step of the speak thread leaves behind until it has settled the status.
SpeakAdvance(d) ==
  \/ hpc'[d] \in {"synthesis", "audio"} /\ eStatus'[running[d]] = "PLAY"
  \/ hpc'[d] = "settle" /\ eStatus'[running[d]] \in {"ERROR", "DONE"}
  \/ /\ hpc'[d] = "notify"
     /\ eStatus'[running[d]] \in {"ERROR", "DONE", "STOP"}
     /\ eStatus'[running[d]] = "STOP" <=> running[d] \in marked

(***************************************************************************)
(* A step of the speak thread that moves it on from one place in           *)
(* handleRequest to the next and changes at most the statuses of its       *)
(* request and its task.                                                   *)
(***************************************************************************)
LEMMA SpeakAdvanceInv ==
  ASSUME HandlerInv, NEW d \in Display,
         hpc[d] \in {"speak", "synthesis", "audio", "settle"},
         hpc' = [hpc EXCEPT ![d] = hpc'[d]],
         eStatus' = [eStatus EXCEPT ![running[d]] = eStatus'[running[d]]],
         SpeakAdvance(d),
         taskStatus' \in [Display -> {"NOT_READY", "READY", "DONE", "ERROR"}],
         UNCHANGED <<info, running, controlVars, historyVars>>
  PROVE  HandlerInv'
<1> USE DEF HandlerInv, controlVars, historyVars
<1> DEFINE place == hpc'[d]
           status == eStatus'[running[d]]
<1>1. running[d] \in Request
  BY DEF TypeOK, InfoNamesRunning
<1>2. TypeOK'
  <2>1. /\ hpc'[d] \in {"synthesis", "audio", "settle", "notify"}
        /\ eStatus'[running[d]] \in {"ERROR", "PLAY", "DONE", "STOP"}
    BY DEF SpeakAdvance
  <2>2. hpc' \in [Display -> {"idle", "enter", "speak", "synthesis", "audio",
                             "settle", "notify", "remove"}]
    <3>1. hpc \in [Display -> {"idle", "enter", "speak", "synthesis", "audio",
                              "settle", "notify", "remove"}]
      BY DEF TypeOK
    <3> QED
      BY ONLY <2>1, <3>1, hpc' = [hpc EXCEPT ![d] = hpc'[d]], d \in Display
  <2>3. eStatus' \in [Request -> {"ERROR", "PLAY", "DONE", "STOP"}]
    <3>1. eStatus \in [Request -> {"ERROR", "PLAY", "DONE", "STOP"}]
      BY DEF TypeOK
    <3> QED
      BY ONLY <1>1, <2>1, <3>1,
              eStatus' = [eStatus EXCEPT ![running[d]] = eStatus'[running[d]]]
  <2> QED
    BY <2>2, <2>3 DEF TypeOK
<1>3. InfoNamesRunning'
  <2> SUFFICES ASSUME NEW e \in Display
               PROVE  InfoNamesRunning!(e)'
    BY DEF InfoNamesRunning
  <2>1. CASE e = d
    BY <1>1, <2>1 DEF InfoNamesRunning, SpeakAdvance
  <2>2. CASE e # d
    BY <2>2 DEF InfoNamesRunning, TypeOK
  <2> QED
    BY <2>1, <2>2
<1>4. RunsOnOneDisplay' /\ HandledBefore' /\ StopHasAim'
  <2>1. \A e \in Display :
           /\ hpc'[e] = "enter" => hpc[e] = "enter"
           /\ hpc'[e] \in {"speak", "synthesis", "audio", "settle"} =>
                hpc[e] \in {"speak", "synthesis", "audio", "settle"}
    BY DEF TypeOK, SpeakAdvance
  <2>2. StopHasAim'
    BY <2>1, AimKept
  <2> QED
    BY <2>2 DEF RunsOnOneDisplay, HandledBefore
<1>5. StatusSoFar'
  <2> SUFFICES ASSUME NEW e \in Display
               PROVE  StatusSoFar!(e)'
    BY DEF StatusSoFar
  <2>1. CASE e = d
    <3>1. /\ Unsettled(d)
          /\ info[d].msgStatus = "STOP" <=> running[d] \in marked
          /\ notified[running[d]] = <<>>
      BY DEF StatusSoFar, Unsettled
    <3>2. CASE place \in {"synthesis", "audio"} /\ status = "PLAY"
      BY <1>1, <2>1, <3>1, <3>2 DEF StatusSoFar, Unsettled
    <3>3. CASE place = "settle" /\ status \in {"ERROR", "DONE"}
      BY <1>1, <2>1, <3>1, <3>3 DEF StatusSoFar, Unsettled
    <3>4. CASE /\ place = "notify"
               /\ status \in {"ERROR", "DONE", "STOP"}
               /\ status = "STOP" <=> running[d] \in marked
      BY <1>1, <2>1, <3>1, <3>4 DEF StatusSoFar, Unsettled
    <3> QED
      BY <3>2, <3>3, <3>4 DEF SpeakAdvance
  <2>2. CASE e # d
    <3>1. hpc'[e] = hpc[e]
      BY <2>2 DEF TypeOK
    <3>2. hpc[e] # "idle" => eStatus'[running[e]] = eStatus[running[e]]
      BY <1>1, <2>2 DEF RunsOnOneDisplay, InfoNamesRunning, TypeOK
    <3> QED
      BY <3>1, <3>2 DEF StatusSoFar, Unsettled
  <2> QED
    BY <2>1, <2>2
<1>6. StopReportedIffMarked' /\ ToldOnce'
  BY DEF StopReportedIffMarked, ToldOnce
<1> QED
  BY <1>2, <1>3, <1>4, <1>5, <1>6

\* A reply that is the only one is the first.
LEMMA OnlyIndex ==
  ASSUME NEW n, n = 1, NEW i, i \in 1..n
  PROVE  i = 1
OBVIOUS

(***************************************************************************)
(* The reply is the first one for its request.  If the language is known   *)
(* it says STOP exactly if the request was marked, otherwise that the      *)
(* language is not (replyCB, which is responseCallback).                   *)
(***************************************************************************)
LEMMA NotifyInv ==
  ASSUME HandlerInv, NEW d \in Display, Notify(d)
  PROVE  HandlerInv'
<1> USE DEF HandlerInv, Notify, controlVars
<1> DEFINE q == running[d]
           said == Response(q, eStatus[q])
<1>1. /\ q \in Request
      /\ q \in handled
      /\ hpc[d] = "notify"
      /\ hpc' = [hpc EXCEPT ![d] = "remove"]
      /\ notified[q] = <<>>
      /\ eStatus[q] \in {"ERROR", "DONE", "STOP"}
      /\ eStatus[q] = "STOP" <=> q \in marked
  BY HandlerAssumption DEF TypeOK, InfoNamesRunning, HandledBefore, StatusSoFar
<1>2. q \in Subscribed =>
        /\ said \in {"ERROR", "DONE", "STOP", "LANG_ERR"}
        /\ said = "LANG_ERR" <=> q \in BadLanguage
        /\ q \notin BadLanguage => said = eStatus[q]
  BY <1>1 DEF Response
<1>3. q \in Subscribed => /\ Append(<<>>, said) \in Seq({"ERROR", "DONE", "STOP", "LANG_ERR"})
                          /\ Len(Append(<<>>, said)) = 1
                          /\ Append(<<>>, said)[1] = said
  BY <1>2, AppendProperties, EmptySeq
<1>4. notified' = IF q \in Subscribed THEN [notified EXCEPT ![q] = Append(@, said)] ELSE notified
  OBVIOUS
<1> HIDE DEF said
<1>5. /\ notified' \in [Request -> Seq({"ERROR", "DONE", "STOP", "LANG_ERR"})]
      /\ \A r \in Request : r # q => notified'[r] = notified[r]
      /\ notified'[q] = IF q \in Subscribed THEN Append(<<>>, said) ELSE <<>>
  BY <1>1, <1>3, <1>4 DEF TypeOK
<1>6. /\ Len(notified'[q]) <= 1
      /\ q \notin Subscribed => notified'[q] = <<>>
      /\ \A i \in 1..Len(notified'[q]) : q \in Subscribed /\ notified'[q][i] = said
  <2>1. CASE q \in Subscribed
    <3>1. Len(notified'[q]) = 1 /\ notified'[q][1] = said
      BY <1>3, <1>5, <2>1
    <3>2. \A i \in 1..Len(notified'[q]) : i = 1
      BY ONLY <3>1, OnlyIndex
    <3> QED
      BY <2>1, <3>1, <3>2
  <2>2. CASE q \notin Subscribed
    BY <1>5, <2>2, EmptySeq
  <2> QED
    BY <2>1, <2>2
<1> HIDE DEF q
<1>7. TypeOK'
  BY <1>1, <1>5 DEF TypeOK
<1>8. InfoNamesRunning'
  BY <1>1 DEF InfoNamesRunning, TypeOK
<1>9. RunsOnOneDisplay' /\ HandledBefore' /\ StopHasAim'
  <2>1. \A e \in Display :
           /\ hpc'[e] = "enter" => hpc[e] = "enter"
           /\ hpc'[e] \in {"speak", "synthesis", "audio", "settle"} =>
                hpc[e] \in {"speak", "synthesis", "audio", "settle"}
    BY <1>1 DEF TypeOK
  <2>2. StopHasAim'
    BY <2>1, AimKept
  <2> QED
    BY <1>1, <1>5, <2>2 DEF RunsOnOneDisplay, HandledBefore
<1>10. StatusSoFar'
  <2> SUFFICES ASSUME NEW e \in Display
               PROVE  StatusSoFar!(e)'
    BY DEF StatusSoFar
  <2>1. CASE e = d
    BY <1>1, <2>1 DEF StatusSoFar, Unsettled, TypeOK
  <2>2. CASE e # d
    <3>1. hpc'[e] = hpc[e]
      BY <1>1, <2>2 DEF TypeOK
    <3>2. hpc[e] # "idle" => notified'[running[e]] = notified[running[e]]
      BY <1>1, <1>5, <2>2 DEF RunsOnOneDisplay, InfoNamesRunning, TypeOK, q
    <3> QED
      BY <3>1, <3>2 DEF StatusSoFar, Unsettled
  <2> QED
    BY <2>1, <2>2
<1>11. StopReportedIffMarked' /\ ToldOnce'
  <2>1. ASSUME NEW r \in Request \ BadLanguage, NEW i \in 1..Len(notified'[r])
        PROVE  notified'[r][i] = "STOP" <=> r \in marked
    <3>1. CASE r = q
      BY <1>1, <1>2, <1>6, <2>1, <3>1
    <3>2. CASE r # q
      <4>1. notified'[r] = notified[r]
        BY <1>5, <3>2
      <4> QED
        BY <2>1, <4>1 DEF StopReportedIffMarked
    <3> QED
      BY <3>1, <3>2
  <2>2. ASSUME NEW r \in Request
        PROVE  /\ Len(notified'[r]) <= 1
               /\ r \notin Subscribed => notified'[r] = <<>>
               /\ \A i \in 1..Len(notified'[r]) :
                    notified'[r][i] = "LANG_ERR" <=> r \in BadLanguage
    <3>1. CASE r = q
      BY <1>2, <1>6, <3>1
    <3>2. CASE r # q
      <4>1. notified'[r] = notified[r]
        BY <1>5, <3>2
      <4> QED
        BY <4>1 DEF ToldOnce
    <3> QED
      BY <3>1, <3>2
  <2>3. UNCHANGED marked
    OBVIOUS
  <2> QED
    BY <2>1, <2>2, <2>3 DEF StopReportedIffMarked, ToldOnce
<1> QED
  BY <1>7, <1>8, <1>9, <1>10, <1>11

(***************************************************************************)
(* handleRequest returns: the display runs nothing and has no entry.       *)
(***************************************************************************)
LEMMA ReturnInv ==
  ASSUME HandlerInv, NEW d \in Display, SpeakReturns(d),
         info' = [info EXCEPT ![d] = NoInfo],
         taskStatus' \in [Display -> {"NOT_READY", "READY", "DONE", "ERROR"}],
         UNCHANGED <<eStatus, controlVars, historyVars>>
  PROVE  HandlerInv'
<1> USE DEF HandlerInv, SpeakReturns, controlVars, historyVars
<1>1. TypeOK'
  BY DEF TypeOK, NoInfo
<1>2. InfoNamesRunning'
  <2> SUFFICES ASSUME NEW e \in Display
               PROVE  InfoNamesRunning!(e)'
    BY DEF InfoNamesRunning
  <2>1. CASE e = d
    BY <2>1 DEF TypeOK
  <2>2. CASE e # d
    BY <2>2 DEF InfoNamesRunning, TypeOK
  <2> QED
    BY <2>1, <2>2
<1>3. RunsOnOneDisplay' /\ HandledBefore' /\ StopHasAim'
  <2>1. StopHasAim'
    BY DEF StopHasAim, Unsettled, TypeOK
  <2> QED
    BY <2>1 DEF RunsOnOneDisplay, HandledBefore, TypeOK
<1>4. StatusSoFar'
  <2> SUFFICES ASSUME NEW e \in Display
               PROVE  StatusSoFar!(e)'
    BY DEF StatusSoFar
  <2>1. CASE e = d
    BY <2>1 DEF Unsettled, TypeOK
  <2>2. CASE e # d
    BY <2>2 DEF StatusSoFar, Unsettled, TypeOK
  <2> QED
    BY <2>1, <2>2
<1>5. StopReportedIffMarked' /\ ToldOnce'
  BY DEF StopReportedIffMarked, ToldOnce
<1> QED
  BY <1>1, <1>2, <1>3, <1>4, <1>5

(***************************************************************************)
(* The control thread's own steps that leave the entry alone.              *)
(***************************************************************************)
LEMMA ControlStepInv ==
  ASSUME HandlerInv,
         kpc' \in [Display -> {"idle", "mark", "stop_tts", "stop_audio"}],
         aim' \in [Display -> Request \cup {NoRequest}],
         flagged' \subseteq Request \X Request,
         silenced' \subseteq Request,
         taskStatus' \in [Display -> {"NOT_READY", "READY", "DONE", "ERROR"}],
         \A d \in Display : aim'[d] # NoRequest => aim'[d] \in handled,
         StopHasAim',
         UNCHANGED <<info, hpc, running, eStatus, handled, notified, marked>>
  PROVE  HandlerInv'
BY DEF HandlerInv, TypeOK, InfoNamesRunning, RunsOnOneDisplay, HandledBefore,
       StatusSoFar, StopReportedIffMarked, ToldOnce, Unsettled, NoInfo

-------------------------------------------------------------------------------
(***************************************************************************)
(* Every step of handleRequest, of the engines and of the main thread      *)
(* preserves the invariant.                                                *)
(***************************************************************************)
LEMMA NextHandlerInv ==
  ASSUME HandlerInv, [Next]_handlerVars
  PROVE  HandlerInv'
<1>1. CASE UNCHANGED handlerVars
  BY <1>1, EngineStepInv DEF handlerVars
<1>2. ASSUME NEW d \in Display, NEW r \in Request, HandleSpeak(d, r)
      PROVE  HandlerInv'
  BY <1>2, HandleSpeakInv
<1>3. ASSUME NEW d \in Display, HandleStop(d)
      PROVE  HandlerInv'
  <2>1. info[d] # NoInfo => /\ info[d].req = running[d] /\ running[d] \in Request
                            /\ running[d] \in handled /\ hpc[d] # "enter"
    BY HandlerAssumption DEF HandlerInv, TypeOK, InfoNamesRunning, HandledBefore
  <2>2. /\ UNCHANGED <<info, hpc, running, eStatus, handled, notified, marked>>
        /\ flagged' \subseteq Request \X Request
        /\ silenced' \subseteq Request
        /\ taskStatus' \in [Display -> {"NOT_READY", "READY", "DONE", "ERROR"}]
    BY <1>3 DEF HandleStop, HandlerInv, TypeOK, historyVars
  <2>3. CASE info[d] # NoInfo /\ d \in Loaded
    <3>1. /\ kpc' = [kpc EXCEPT ![d] = "mark"]
          /\ aim' = [aim EXCEPT ![d] = running[d]]
      BY <1>3, <2>1, <2>3 DEF HandleStop, AfterLookup
    <3>2. /\ kpc' \in [Display -> {"idle", "mark", "stop_tts", "stop_audio"}]
          /\ aim' \in [Display -> Request \cup {NoRequest}]
          /\ \A e \in Display : aim'[e] # NoRequest => aim'[e] \in handled
      BY <2>1, <2>3, <3>1 DEF HandlerInv, HandledBefore, TypeOK
    <3>3. StopHasAim'
      <4> SUFFICES ASSUME NEW e \in Display
                   PROVE  StopHasAim!(e)'
        BY DEF StopHasAim
      <4>1. CASE e = d
        BY <2>1, <2>2, <2>3, <3>1, <4>1, HandlerAssumption DEF HandlerInv, TypeOK
      <4>2. CASE e # d
        BY <2>2, <3>1, <4>2 DEF HandlerInv, StopHasAim, Unsettled, TypeOK
      <4> QED
        BY <4>1, <4>2
    <3> QED
      BY <2>2, <3>2, <3>3, ControlStepInv
  <2>4. CASE ~(info[d] # NoInfo /\ d \in Loaded)
    <3>1. UNCHANGED <<kpc, aim>>
      BY <1>3, <2>4 DEF HandleStop
    <3>2. StopHasAim'
      BY <2>2, <3>1, AimKept DEF HandlerInv, controlVars
    <3> QED
      BY <2>2, <3>1, <3>2, ControlStepInv DEF HandlerInv, HandledBefore, TypeOK
  <2> QED
    BY <2>3, <2>4
<1>4. ASSUME NEW d \in Display, MarkByClear(d)
      PROVE  HandlerInv'
  <2>1. UNCHANGED <<kpc, aim>>
    BY <1>4 DEF MarkByClear, controlVars
  <2>2. /\ StopHasAim'
        /\ kpc' \in [Display -> {"idle", "mark", "stop_tts", "stop_audio"}]
    <3>1. UNCHANGED <<hpc, running>> /\ marked \subseteq marked'
      BY <1>4 DEF MarkByClear, UpdateToStop, speakVars
    <3> QED
      BY <2>1, <3>1 DEF HandlerInv, StopHasAim, Unsettled, TypeOK
  <2> QED
    BY <1>4, <2>1, <2>2, UpdateToStopInv DEF MarkByClear
<1>5. ASSUME NEW d \in Display, ControlThread(d)
      PROVE  HandlerInv'
  <2>0. /\ kpc[d] # "idle" => aim[d] \in Request
        /\ Synthesizing(d) \/ Playing(d) => running[d] \in Request
        /\ \A e \in Display : aim[e] # NoRequest => aim[e] \in handled
    BY DEF HandlerInv, StopHasAim, HandledBefore, InfoNamesRunning, Synthesizing,
           Playing, TypeOK
  <2>1. CASE MarkStop(d)
    <3>1. /\ UNCHANGED <<hpc, running, aim>>
          /\ kpc' = [kpc EXCEPT ![d] = "stop_tts"] /\ kpc[d] = "mark"
          /\ marked \subseteq marked'
          /\ Unsettled(d) => running[d] \in marked'
      BY <2>1 DEF MarkStop, UpdateToStop, speakVars
    <3>2. kpc' \in [Display -> {"idle", "mark", "stop_tts", "stop_audio"}]
      BY <3>1 DEF HandlerInv, TypeOK
    <3>3. StopHasAim'
      <4> SUFFICES ASSUME NEW e \in Display
                   PROVE  StopHasAim!(e)'
        BY DEF StopHasAim
      <4>1. CASE e = d
        BY <3>1, <4>1 DEF HandlerInv, StopHasAim, Unsettled, TypeOK
      <4>2. CASE e # d
        BY <3>1, <4>2 DEF HandlerInv, StopHasAim, Unsettled, TypeOK
      <4> QED
        BY <4>1, <4>2
    <3> QED
      BY <2>1, <3>2, <3>3, UpdateToStopInv DEF MarkStop
  <2>2. CASE StopTts(d)
    <3>1. /\ UNCHANGED <<hpc, running, aim, marked>>
          /\ kpc' = [kpc EXCEPT ![d] = "stop_audio"] /\ kpc[d] = "stop_tts"
      BY <2>2 DEF StopTts, speakVars
    <3>2. /\ StopHasAim'
          /\ kpc' \in [Display -> {"idle", "mark", "stop_tts", "stop_audio"}]
      BY <3>1 DEF HandlerInv, StopHasAim, Unsettled, TypeOK
    <3>3. flagged' \subseteq Request \X Request
      BY <2>0, <2>2 DEF StopTts, HandlerInv, TypeOK
    <3>4. /\ aim' \in [Display -> Request \cup {NoRequest}]
          /\ taskStatus' \in [Display -> {"NOT_READY", "READY", "DONE", "ERROR"}]
          /\ silenced' \subseteq Request
          /\ UNCHANGED <<info, hpc, running, eStatus, handled, notified, marked>>
      BY <2>2 DEF StopTts, speakVars, HandlerInv, TypeOK
    <3> QED
      BY <2>0, <3>1, <3>2, <3>3, <3>4, ControlStepInv
  <2>3. CASE StopAudio(d)
    <3>1. /\ UNCHANGED <<hpc, running, marked>>
          /\ kpc' = [kpc EXCEPT ![d] = "idle"] /\ kpc[d] = "stop_audio"
          /\ aim' = [aim EXCEPT ![d] = NoRequest]
      BY <2>3 DEF StopAudio, speakVars
    <3>2. /\ kpc' \in [Display -> {"idle", "mark", "stop_tts", "stop_audio"}]
          /\ aim' \in [Display -> Request \cup {NoRequest}]
          /\ \A e \in Display : aim'[e] # NoRequest => aim'[e] \in handled
      BY <2>0, <3>1 DEF HandlerInv, TypeOK
    <3>3. StopHasAim'
      <4> SUFFICES ASSUME NEW e \in Display
                   PROVE  StopHasAim!(e)'
        BY DEF StopHasAim
      <4>1. CASE e = d
        <5>1. hpc[d] = "enter" => running[d] # NoRequest
          BY DEF HandlerInv, InfoNamesRunning
        <5> QED
          BY <3>1, <4>1, <5>1 DEF HandlerInv, StopHasAim, Unsettled, TypeOK
      <4>2. CASE e # d
        BY <3>1, <4>2 DEF HandlerInv, StopHasAim, Unsettled, TypeOK
      <4> QED
        BY <4>1, <4>2
    <3>4. flagged' \subseteq Request \X Request
      BY <2>0, <2>3 DEF StopAudio, HandlerInv, TypeOK
    <3>5. /\ taskStatus' \in [Display -> {"NOT_READY", "READY", "DONE", "ERROR"}]
          /\ silenced' \subseteq Request
          /\ UNCHANGED <<info, hpc, running, eStatus, handled, notified, marked>>
      BY <2>0, <2>3 DEF StopAudio, speakVars, HandlerInv, TypeOK
    <3> QED
      BY <3>2, <3>3, <3>4, <3>5, ControlStepInv
  <2> QED
    BY <1>5, <2>1, <2>2, <2>3 DEF ControlThread
<1>6. ASSUME NEW d \in Display, SpeakThread(d)
      PROVE  HandlerInv'
  <2>0. /\ hpc[d] # "idle" => running[d] \in Request
        /\ DOMAIN hpc = Display /\ DOMAIN eStatus = Request
        /\ taskStatus \in [Display -> {"NOT_READY", "READY", "DONE", "ERROR"}]
    BY DEF HandlerInv, TypeOK, InfoNamesRunning
  <2>1. CASE EngineMissing(d)
    <3>1. info' = [info EXCEPT ![d] = NoInfo]
      BY <2>1 DEF EngineMissing, HandlerInv, InfoNamesRunning, TypeOK
    <3>2. taskStatus' \in [Display -> {"NOT_READY", "READY", "DONE", "ERROR"}]
      BY <2>1 DEF EngineMissing, HandlerInv, TypeOK
    <3> QED
      BY <2>1, <3>1, <3>2, ReturnInv DEF EngineMissing
  <2>2. CASE SaveInfo(d)
    BY <2>2, SaveInfoInv
  <2>3. CASE SynthesisStep(d) \/ AudioStep(d)
    BY <2>3, EngineStepInv DEF SynthesisStep, AudioStep
  <2>4. CASE CallSpeak(d) \/ CallPlay(d)
    <3>1. /\ SpeakAdvance(d)
          /\ hpc' = [hpc EXCEPT ![d] = hpc'[d]]
      BY <2>0, <2>4
         DEF CallSpeak, CallPlay, SpeakAdvance, HandlerInv, StatusSoFar
    <3>2. eStatus' = [eStatus EXCEPT ![running[d]] = eStatus'[running[d]]]
      BY <2>4 DEF CallSpeak, CallPlay, HandlerInv, TypeOK
    <3> QED
      BY <2>0, <2>4, <3>1, <3>2, SpeakAdvanceInv DEF CallSpeak, CallPlay
  <2>5. CASE NoSpeechToPlay(d)
    <3>1. /\ SpeakAdvance(d)
          /\ hpc' = [hpc EXCEPT ![d] = hpc'[d]]
          /\ eStatus' = [eStatus EXCEPT ![running[d]] = eStatus'[running[d]]]
          /\ taskStatus' \in [Display -> {"NOT_READY", "READY", "DONE", "ERROR"}]
      BY <2>0, <2>5 DEF NoSpeechToPlay, SpeakAdvance
    <3> QED
      BY <2>5, <3>1, SpeakAdvanceInv DEF NoSpeechToPlay
  <2>6. CASE Played(d)
    <3>1. eStatus[running[d]] = "PLAY"
      BY <2>6 DEF Played, HandlerInv, StatusSoFar
    <3>2. /\ SpeakAdvance(d)
          /\ hpc' = [hpc EXCEPT ![d] = hpc'[d]]
          /\ eStatus' = [eStatus EXCEPT ![running[d]] = eStatus'[running[d]]]
          /\ taskStatus' \in [Display -> {"NOT_READY", "READY", "DONE", "ERROR"}]
      BY <2>0, <2>6, <3>1 DEF Played, SpeakAdvance
    <3> QED
      BY <2>6, <3>2, SpeakAdvanceInv DEF Played
  <2>7. CASE Settle(d)
    <3>1. /\ SettledStatus(d) \in {"ERROR", "DONE", "STOP"}
          /\ SettledStatus(d) = "STOP" <=> running[d] \in marked
      BY <2>7 DEF Settle, SettledStatus, HandlerInv, StatusSoFar, Unsettled
    <3>2. /\ SpeakAdvance(d)
          /\ hpc' = [hpc EXCEPT ![d] = hpc'[d]]
          /\ eStatus' = [eStatus EXCEPT ![running[d]] = eStatus'[running[d]]]
      BY <2>0, <2>7, <3>1 DEF Settle, SpeakAdvance
    <3> QED
      BY <2>0, <2>7, <3>2, SpeakAdvanceInv DEF Settle
  <2>8. CASE Notify(d)
    BY <2>8, NotifyInv
  <2>9. CASE RemoveInfo(d)
    <3>1. taskStatus' \in [Display -> {"NOT_READY", "READY", "DONE", "ERROR"}]
      BY <2>9 DEF RemoveInfo, HandlerInv, TypeOK
    <3> QED
      BY <2>9, <3>1, ReturnInv DEF RemoveInfo, RemovedInfo
  <2> QED
    BY <1>6, <2>1, <2>2, <2>3, <2>4, <2>5, <2>6, <2>7, <2>8, <2>9 DEF SpeakThread
<1>7. ASSUME NEW d \in Display, Server(d)
      PROVE  HandlerInv'
  BY <1>7, EngineStepInv DEF Server
<1> QED
  BY <1>1, <1>2, <1>3, <1>4, <1>5, <1>6, <1>7 DEF Next

(***************************************************************************)
(* The entries, the statuses and the marks agree in every state, whatever  *)
(* the two threads of a display and the main thread do to them, and in     *)
(* whatever order.                                                         *)
(***************************************************************************)
THEOREM HandlerInductive == Spec => []HandlerInv
  BY InitHandlerInv, NextHandlerInv, PTL DEF Spec

(***************************************************************************)
(* Type correctness of handleRequest's state; in particular what a client  *)
(* is told is always DONE, STOP or ERROR, or an unknown language.          *)
(***************************************************************************)
THEOREM HandlerTypes == Spec => []TypeOK
<1>1. HandlerInv => TypeOK
  BY DEF HandlerInv
<1> QED
  BY <1>1, HandlerInductive, PTL

(***************************************************************************)
(* The entry of a display is the one of the request it handles, and is     *)
(* there exactly while it does (saveSpeakRequestInfo, removeSpeakRequest-  *)
(* Info).                                                                  *)
(***************************************************************************)
THEOREM EntryIsTrue == Spec => []InfoNamesRunning
<1>1. HandlerInv => InfoNamesRunning
  BY DEF HandlerInv
<1> QED
  BY <1>1, HandlerInductive, PTL

(***************************************************************************)
(* A client that is told a status is told STOP exactly if the entry was    *)
(* marked before the status of its request was settled (handleRequest,     *)
(* replyCB).                                                               *)
(***************************************************************************)
THEOREM StopReportedTruly == Spec => []StopReportedIffMarked
<1>1. HandlerInv => StopReportedIffMarked
  BY DEF HandlerInv
<1> QED
  BY <1>1, HandlerInductive, PTL
===============================================================================
