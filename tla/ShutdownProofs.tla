---------------------------- MODULE ShutdownProofs ----------------------------
(***************************************************************************)
(* Proofs about Shutdown, for every number of displays, requests and       *)
(* calls, and every order of the queues: a signal at any moment, and the   *)
(* destructor that stops one queue after the other, leave no thread in an  *)
(* engine and no subscribed client untold but those whose requests still   *)
(* waited. The process is the service of SpeechService with a main thread  *)
(* around it, so that whatever is proved of the service holds of it.       *)
(***************************************************************************)
EXTENDS Shutdown, ServiceProofs

-------------------------------------------------------------------------------
(* The order of the queues *)

(***************************************************************************)
(* The arithmetic of StopOrder: the positions 1 to 2n are the odd and the  *)
(* even one of each k from 1 to n.                                         *)
(***************************************************************************)
LEMMA Halves ==
  ASSUME NEW n \in Nat
  PROVE  /\ \A i \in 1..(2 * n) : /\ (i + 1) \div 2 \in 1..n
                                  /\ i % 2 \in {0, 1}
                                  /\ i = 2 * ((i + 1) \div 2) - (i % 2)
         /\ \A k \in 1..n : /\ 2 * k - 1 \in 1..(2 * n) /\ 2 * k \in 1..(2 * n)
                            /\ (2 * k - 1) % 2 = 1 /\ ((2 * k - 1) + 1) \div 2 = k
                            /\ (2 * k) % 2 = 0 /\ (2 * k + 1) \div 2 = k
OBVIOUS

(***************************************************************************)
(* There is a queue to stop; each of them is a display's speak or control  *)
(* queue; none is stopped twice; and both queues of every display are.     *)
(***************************************************************************)
LEMMA QueueOrder ==
  /\ Len(StopOrder) \in Nat /\ 1 \in 1..Len(StopOrder)
  /\ \A i \in 1..Len(StopOrder) : StopOrder[i] \in {"speak", "control"} \X Display
  /\ \A i, j \in 1..Len(StopOrder) : StopOrder[i] = StopOrder[j] => i = j
  /\ \A d \in Display : \E i \in 1..Len(StopOrder) : StopOrder[i] = <<"speak", d>>
  /\ \A d \in Display : \E i \in 1..Len(StopOrder) : StopOrder[i] = <<"control", d>>
<1> DEFINE n == Len(DisplaySeq)
<1>1. /\ n \in Nat /\ DOMAIN DisplaySeq = 1..n
      /\ \A k \in 1..n : DisplaySeq[k] \in Display
  BY ShutdownAssumption, LenProperties, ElementOfSeq
<1>2. \A d \in Display : \E k \in 1..n : DisplaySeq[k] = d
  BY <1>1, ShutdownAssumption DEF Range
<1>3. \A k, l \in 1..n : DisplaySeq[k] = DisplaySeq[l] => k = l
  BY <1>1, ShutdownAssumption DEF IsInjective
<1>4. StopOrder = [i \in 1..(2 * n) |->
                     <<IF i % 2 = 1 THEN "speak" ELSE "control", DisplaySeq[(i + 1) \div 2]>>]
  BY DEF StopOrder
<1> HIDE DEF n
<1>5. Len(StopOrder) = 2 * n
  BY <1>1, <1>4
<1>6. n # 0
  BY <1>1, <1>2, ShutdownAssumption
<1>7. \A i \in 1..(2 * n) : StopOrder[i] \in {"speak", "control"} \X Display
  BY <1>1, <1>4, Halves
<1>8. ASSUME NEW i \in 1..(2 * n), NEW j \in 1..(2 * n), StopOrder[i] = StopOrder[j]
      PROVE  i = j
  <2>1. i % 2 = j % 2
    BY <1>1, <1>4, <1>8, Halves
  <2>2. DisplaySeq[(i + 1) \div 2] = DisplaySeq[(j + 1) \div 2]
    BY <1>4, <1>8
  <2>3. (i + 1) \div 2 = (j + 1) \div 2
    BY <1>1, <1>3, <2>2, Halves
  <2> QED
    BY <1>1, <2>1, <2>3, Halves
<1>9. ASSUME NEW d \in Display
      PROVE  /\ \E i \in 1..(2 * n) : StopOrder[i] = <<"speak", d>>
             /\ \E i \in 1..(2 * n) : StopOrder[i] = <<"control", d>>
  <2>1. PICK k \in 1..n : DisplaySeq[k] = d
    BY <1>2
  <2>2. StopOrder[2 * k - 1] = <<"speak", d>> /\ 2 * k - 1 \in 1..(2 * n)
    BY <1>1, <1>4, <2>1, Halves
  <2>3. StopOrder[2 * k] = <<"control", d>> /\ 2 * k \in 1..(2 * n)
    BY <1>1, <1>4, <2>1, Halves
  <2> QED
    BY <2>2, <2>3
<1>10. Len(StopOrder) \in Nat /\ 1 \in 1..Len(StopOrder)
  BY <1>1, <1>5, <1>6
<1>11. \A i, j \in 1..(2 * n) : StopOrder[i] = StopOrder[j] => i = j
  BY <1>8
<1>12. \A d \in Display : /\ \E i \in 1..(2 * n) : StopOrder[i] = <<"speak", d>>
                          /\ \E i \in 1..(2 * n) : StopOrder[i] = <<"control", d>>
  BY <1>9
<1> DEFINE L == 2 * n
<1> HIDE DEF L
<1>13. L = Len(StopOrder)
  BY <1>5 DEF L
<1> QED
  BY <1>7, <1>10, <1>11, <1>12, <1>13 DEF L

-------------------------------------------------------------------------------
(* The process runs the service *)

(***************************************************************************)
(* Every step of the process is one of the service or leaves the service   *)
(* alone.                                                                  *)
(***************************************************************************)
LEMMA ProcessServes ==
  ASSUME [ProcessNext]_allVars
  PROVE  [Next]_vars
<1> SUFFICES ASSUME ~UNCHANGED vars
             PROVE  Next
  OBVIOUS
<1>1. CASE Main
  BY <1>1 DEF Main, StartService, RunLoop, ServeCall, LoopEnds, StopQueue, JoinQueue,
              Delete, Next, MainContinues
<1>2. CASE Signal \/ LanguagesFetched \/ AtRest \/ UNCHANGED allVars
  BY <1>2 DEF Signal, LanguagesFetched, AtRest, allVars
<1>3. CASE Clients
  BY <1>3 DEF Clients, Calls, FetchLanguages, Next
<1>4. ASSUME NEW d \in Display, Speaker(d) \/ Controller(d) \/ VoiceServer(d)
      PROVE  Next
  BY <1>4 DEF Speaker, Controller, VoiceServer, DispatcherEnds, Next, SpeakDispatcher,
              ControlDispatcher
<1> QED
  BY <1>1, <1>2, <1>3, <1>4 DEF ProcessNext

-------------------------------------------------------------------------------
(* An accepted request is somewhere *)

\* The request is out of the hands of the main loop;
Placed(r) == r \in handled \cup cancelled \/ Queued(r)

\* and should be.
Due(r) == replied[r] # <<>> \/ (mpc = "reply" /\ r = speaking)

(***************************************************************************)
(* AcceptedIsSomewhere is kept if no request loses its place and those     *)
(* that become due have one.                                               *)
(***************************************************************************)
LEMMA PlacesKept ==
  ASSUME AcceptedIsSomewhere,
         \A r \in Request : Placed(r) => Placed(r)',
         \A r \in Request \ (Rejected \cup BadLanguage) : Due(r)' => Due(r) \/ Placed(r)'
  PROVE  AcceptedIsSomewhere'
BY DEF AcceptedIsSomewhere, Placed, Due

(***************************************************************************)
(* A request waits if it is an element of a queue,                         *)
(***************************************************************************)
LEMMA QueuedSomewhere ==
  ServiceTypeOK =>
    \A q \in Request : Queued(q) <=> \E e \in Display : q \in ToSet(speakQueue[e])
BY QueueElements DEF Queued

(***************************************************************************)
(* and in the next state too.                                              *)
(***************************************************************************)
LEMMA NextQueued ==
  ASSUME ServiceInv', NEW r \in Request, NEW d \in Display, r \in ToSet(speakQueue'[d])
  PROVE  Queued(r)'
<1>1. speakQueue'[d] \in Seq(Request)
  BY DEF ServiceInv, ServiceTypeOK
<1>2. DOMAIN speakQueue'[d] = 1..Len(speakQueue'[d])
  BY <1>1, LenProperties
<1>3. \E i \in 1..Len(speakQueue'[d]) : speakQueue'[d][i] = r
  BY <1>2 DEF ToSet
<1> QED
  BY <1>3 DEF Queued

(***************************************************************************)
(* What a clear or a stop takes out of a queue is cancelled; the rest      *)
(* still waits.                                                            *)
(***************************************************************************)
LEMMA SomeCancelled ==
  ASSUME ServiceInv, ServiceInv', AcceptedIsSomewhere,
         NEW d \in Display, NEW some, CancelAll(some),
         speakQueue' = [speakQueue EXCEPT ![d] = Without(speakQueue[d], some)],
         handled' = handled, mpc' # "reply"
  PROVE  AcceptedIsSomewhere'
<1>1. ServiceTypeOK /\ ServiceTypeOK'
  BY DEF ServiceInv
<1>2. speakQueue[d] \in Seq(Request) /\ speakQueue \in [Display -> Seq(Request)]
  BY <1>1 DEF ServiceTypeOK
<1>3. ToSet(speakQueue'[d]) = ToSet(speakQueue[d]) \ some
  BY <1>2, WithoutElements
<1>4. /\ cancelled' = cancelled \cup some
      /\ \A r \in Request : r \notin some => replied'[r] = replied[r]
  BY DEF CancelAll
<1>5. ASSUME NEW r \in Request, Placed(r)
      PROVE  Placed(r)'
  <2>1. CASE r \in handled \cup cancelled \cup some
    BY <1>4, <2>1 DEF Placed
  <2>2. CASE r \notin some /\ Queued(r)
    <3>1. PICK e \in Display : r \in ToSet(speakQueue[e])
      BY <1>1, <2>2, QueuedSomewhere
    <3>2. r \in ToSet(speakQueue'[e])
      BY <1>2, <1>3, <2>2, <3>1
    <3> QED
      BY <3>2, NextQueued DEF Placed
  <2> QED
    BY <1>5, <2>1, <2>2 DEF Placed
<1>6. ASSUME NEW r \in Request, Due(r)'
      PROVE  Due(r) \/ Placed(r)'
  BY <1>4, <1>6 DEF Due, Placed
<1> QED
  BY <1>5, <1>6, PlacesKept

(***************************************************************************)
(* The main loop queues a request before its client is answered, and takes *)
(* none out of a queue without cancelling it.                              *)
(***************************************************************************)
LEMMA MainPlaces ==
  ASSUME ServiceInv, ServiceInv', AcceptedIsSomewhere, MainContinues
  PROVE  AcceptedIsSomewhere'
<1>0. ServiceTypeOK /\ CallServed
  BY DEF ServiceInv, CallsInv
<1>1. CASE Start \/ ClearReadsInfo \/ ClearQueuesStop \/ ClearMarks \/ StopQueuesControl
  <2>1. UNCHANGED <<cancelled, handled, speakQueue, replied, speaking>> /\ mpc' # "reply"
    <3>1. CASE ClearMarks
      BY <3>1, ControlFrame DEF ClearMarks
    <3>2. CASE ~ClearMarks
      BY <1>1, <3>2 DEF Start, ClearReadsInfo, AfterClearCheck, ClearQueuesStop,
                        StopQueuesControl, handlerVars, historyVars
    <3> QED
      BY <3>1, <3>2
  <2> QED
    BY <2>1, PlacesKept DEF Placed, Due, Queued
<1>2. CASE ClearEmptiesQueue
  <2> USE <1>2 DEF ClearEmptiesQueue
  <2> DEFINE some == ToSet(speakQueue[Here])
  <2>1. Here \in Display
    BY <1>0, ServiceAssumption DEF CallServed, Entering, Here, ServiceTypeOK
  <2>2. Without(speakQueue[Here], some) = <<>>
    <3>1. speakQueue[Here] \in Seq(Request)
          /\ \A i \in 1..Len(speakQueue[Here]) : speakQueue[Here][i] \in some
      BY <1>0, <2>1, QueueElements
    <3> QED
      BY <3>1, WithoutAll
  <2>3. speakQueue' = [speakQueue EXCEPT ![Here] = Without(speakQueue[Here], some)]
    BY <2>2 DEF ClearedQueue
  <2>4. CancelAll(some) /\ handled' = handled /\ mpc' # "reply"
    BY DEF handlerVars, historyVars
  <2> QED
    BY <2>1, <2>3, <2>4, SomeCancelled
<1>3. CASE StopRemoves
  <2> USE <1>3 DEF StopRemoves
  <2> DEFINE d == stopping.display
             some == Removed(speakQueue[d], stopping)
  <2>1. d \in Display
    BY <1>0, ServiceAssumption DEF CallServed
  <2>2. /\ CancelAll(some) /\ handled' = handled /\ mpc' # "reply"
        /\ speakQueue' = [speakQueue EXCEPT ![d] = Without(speakQueue[d], some)]
    BY DEF Kept, handlerVars, historyVars
  <2> HIDE DEF d, some
  <2> QED
    BY <2>1, <2>2, SomeCancelled
<1>4. CASE Enqueue
  <2> USE <1>4 DEF Enqueue
  <2> DEFINE queue == speakQueue[Here]
  <2>1. speaking \in Request /\ Here \in Display
    BY <1>0, ServiceAssumption DEF CallServed, Entering, Here, ServiceTypeOK
  <2>2. /\ UNCHANGED <<cancelled, handled, replied, speaking>>
        /\ speakQueue \in [Display -> Seq(Request)] /\ queue \in Seq(Request)
        /\ speakQueue' = [speakQueue EXCEPT ![Here] = Append(queue, speaking)]
    BY <1>0, <2>1 DEF handlerVars, historyVars, ServiceTypeOK
  <2>3. ToSet(Append(queue, speaking)) = ToSet(queue) \cup {speaking}
    <3> HIDE DEF queue
    <3>1. /\ Append(queue, speaking) \in Seq(Request)
          /\ Len(queue) \in Nat /\ Len(Append(queue, speaking)) = Len(queue) + 1
          /\ Append(queue, speaking)[Len(queue) + 1] = speaking
          /\ \A i \in 1..Len(queue) : Append(queue, speaking)[i] = queue[i]
      BY <2>1, <2>2, AppendProperties, LenProperties
    <3>2. /\ DOMAIN Append(queue, speaking) = 1..(Len(queue) + 1)
          /\ DOMAIN queue = 1..Len(queue)
          /\ 1..(Len(queue) + 1) = (1..Len(queue)) \cup {Len(queue) + 1}
      BY <2>2, <3>1, LenProperties
    <3> QED
      BY <3>1, <3>2 DEF ToSet
  <2>4. ASSUME NEW r \in Request, Queued(r) \/ r = speaking
        PROVE  Queued(r)'
    <3>1. PICK d \in Display : r \in ToSet(speakQueue[d]) \/ (d = Here /\ r = speaking)
      BY <1>0, <2>1, <2>4, QueuedSomewhere
    <3>2. r \in ToSet(speakQueue'[d])
      BY <2>1, <2>2, <2>3, <3>1
    <3> QED
      BY <3>2, NextQueued
  <2> QED
    BY <2>2, <2>4, PlacesKept DEF Placed, Due
<1>5. CASE SpeakReplies
  <2>1. /\ mpc = "reply" /\ mpc' = "idle"
        /\ UNCHANGED <<cancelled, handled, speakQueue>>
        /\ \A r \in Request : r # speaking => replied'[r] = replied[r]
    BY <1>0, <1>5 DEF SpeakReplies, Tell, handlerVars, historyVars, ServiceTypeOK
  <2> QED
    BY <2>1, PlacesKept DEF Placed, Due, Queued
<1> QED
  BY <1>1, <1>2, <1>3, <1>4, <1>5 DEF MainContinues

(***************************************************************************)
(* And a dispatcher handles what it takes: no step of the service loses a  *)
(* request that was accepted.                                              *)
(***************************************************************************)
LEMMA ServicePlaces ==
  ASSUME ServiceInv, ServiceInv', AcceptedIsSomewhere, [Next]_vars
  PROVE  AcceptedIsSomewhere'
<1>0. ServiceTypeOK
  BY DEF ServiceInv
<1>1. CASE MainContinues
  BY <1>1, MainPlaces
<1>2. ASSUME NEW q \in Request, SpeakRefused(q) \/ SpeakCalled(q)
      PROVE  AcceptedIsSomewhere'
  <2>1. UNCHANGED <<cancelled, handled, speakQueue>> /\ mpc' # "reply"
    BY <1>2 DEF SpeakRefused, SpeakCalled, handlerVars, historyVars
  <2>2. \A r \in Request \ (Rejected \cup BadLanguage) : replied'[r] = replied[r]
    BY <1>0, <1>2 DEF SpeakRefused, SpeakCalled, Tell, ServiceTypeOK
  <2> QED
    BY <2>1, <2>2, PlacesKept DEF Placed, Due, Queued
<1>3. ASSUME NEW call \in StopCall, StopCalled(call)
      PROVE  AcceptedIsSomewhere'
  <2>1. UNCHANGED <<cancelled, handled, speakQueue, replied>> /\ mpc' # "reply"
    BY <1>3 DEF StopCalled, handlerVars, historyVars
  <2> QED
    BY <2>1, PlacesKept DEF Placed, Due, Queued
<1>4. ASSUME NEW d \in Display, TakeSpeak(d)
      PROVE  AcceptedIsSomewhere'
  <2> DEFINE queue == speakQueue[d]
  <2>1. /\ UNCHANGED <<cancelled, replied, speaking, mpc>>
        /\ handled' = handled \cup {Head(queue)}
        /\ speakQueue' = [speakQueue EXCEPT ![d] = Tail(queue)]
    BY <1>4, Taken DEF mainVars
  <2>2. queue \in Seq(Request) /\ queue # <<>> /\ speakQueue \in [Display -> Seq(Request)]
    BY <1>0, <1>4, Taken DEF ServiceTypeOK
  <2>3. ToSet(queue) \ {Head(queue)} \subseteq ToSet(Tail(queue))
    <3> HIDE DEF queue
    <3>1. /\ Tail(queue) \in Seq(Request) /\ Head(queue) = queue[1]
          /\ Len(queue) \in Nat \ {0} /\ Len(Tail(queue)) = Len(queue) - 1
          /\ \A i \in 1..Len(Tail(queue)) : Tail(queue)[i] = queue[i + 1]
      BY <2>2, HeadTailProperties, LenProperties, EmptySeq
    <3>2. DOMAIN queue = 1..Len(queue) /\ DOMAIN Tail(queue) = 1..Len(Tail(queue))
      BY <2>2, <3>1, LenProperties
    <3>3. ASSUME NEW i \in 1..Len(queue), i # 1
          PROVE  queue[i] \in ToSet(Tail(queue))
      <4>1. i - 1 \in 1..Len(Tail(queue)) /\ (i - 1) + 1 = i
        BY <3>1, <3>3
      <4>2. Tail(queue)[i - 1] = queue[i]
        BY <3>1, <4>1
      <4> QED
        BY <3>2, <4>1, <4>2 DEF ToSet
    <3> QED
      BY <3>1, <3>2, <3>3 DEF ToSet
  <2>4. ASSUME NEW r \in Request, Placed(r)
        PROVE  Placed(r)'
    <3>1. CASE r \in handled \cup cancelled \cup {Head(queue)}
      BY <2>1, <3>1 DEF Placed
    <3>2. CASE Queued(r) /\ r # Head(queue)
      <4>1. PICK e \in Display : r \in ToSet(speakQueue[e])
        BY <1>0, <3>2, QueuedSomewhere
      <4>2. r \in ToSet(speakQueue'[e])
        BY <2>1, <2>2, <2>3, <3>2, <4>1
      <4> QED
        BY <4>2, NextQueued DEF Placed
    <3> QED
      BY <2>4, <3>1, <3>2 DEF Placed
  <2> QED
    BY <2>1, <2>4, PlacesKept DEF Due
<1>5. ASSUME NEW d \in Display, SpeakThread(d) \/ ControlDispatcher(d) \/ Server(d)
      PROVE  AcceptedIsSomewhere'
  <2>1. handled' = handled
    BY <1>5, ControlFrame, SpeakFrame
       DEF SpeakThread, ControlDispatcher, TakeStop, StopMarks, StopFlags, Server, ServiceInv
  <2>2. UNCHANGED <<cancelled, speakQueue, replied, mpc, speaking>>
    BY <1>5 DEF SpeakThread, ControlDispatcher, TakeStop, StopMarks, StopFlags, Server, mainVars
  <2> QED
    BY <2>1, <2>2, PlacesKept DEF Placed, Due, Queued
<1>6. CASE Quiet \/ UNCHANGED vars
  <2>1. UNCHANGED <<cancelled, handled, speakQueue, replied, mpc, speaking>>
    BY <1>6 DEF Quiet, vars, handlerVars, historyVars, mainVars
  <2> QED
    BY <2>1, PlacesKept DEF Placed, Due, Queued
<1> QED
  BY <1>1, <1>2, <1>3, <1>4, <1>5, <1>6 DEF Next, SpeakDispatcher

-------------------------------------------------------------------------------
(* A dispatcher that has ended stays at its loop *)

\* The threads of the handler are where they were.
ThreadsStay == UNCHANGED <<hpc, kpc>>

(***************************************************************************)
(* Neither the main loop nor a client moves the dispatchers.               *)
(***************************************************************************)
LEMMA MainLeavesThreads ==
  ASSUME MainContinues \/ Clients
  PROVE  ThreadsStay
<1>1. CASE ClearMarks
  BY <1>1 DEF ClearMarks, Handler!MarkByClear, Handler!speakVars, Handler!controlVars,
              ThreadsStay
<1>2. CASE ~ClearMarks
  BY <1>2 DEF MainContinues, Start, ClearReadsInfo, ClearQueuesStop, ClearEmptiesQueue,
              Enqueue, SpeakReplies, StopQueuesControl, StopRemoves, Clients, Calls,
              SpeakRefused, SpeakCalled, StopCalled, FetchLanguages, vars, handlerVars,
              ThreadsStay
<1> QED
  BY <1>1, <1>2

(***************************************************************************)
(* A speak thread moves itself only, and not while it is idle.             *)
(***************************************************************************)
LEMMA SpeakThreadStays ==
  ASSUME Handler!HandlerInv, NEW d \in Display, Handler!SpeakThread(d)
  PROVE  /\ kpc' = kpc
         /\ \A e \in Display : (e # d \/ hpc[e] = "idle") => hpc'[e] = hpc[e]
<1> USE DEF Handler!speakVars, Handler!controlVars
<1>0. hpc \in [Display -> {"idle", "enter", "speak", "synthesis", "audio",
                           "settle", "notify", "remove"}]
  BY DEF Handler!HandlerInv, Handler!TypeOK
<1>1. CASE Handler!EngineMissing(d) \/ Handler!RemoveInfo(d)
  BY <1>0, <1>1 DEF Handler!EngineMissing, Handler!RemoveInfo, Handler!SpeakReturns
<1>2. CASE \/ Handler!SaveInfo(d) \/ Handler!CallSpeak(d) \/ Handler!CallPlay(d)
           \/ Handler!NoSpeechToPlay(d)
  BY <1>0, <1>2
     DEF Handler!SaveInfo, Handler!CallSpeak, Handler!CallPlay, Handler!NoSpeechToPlay
<1>3. CASE Handler!Played(d) \/ Handler!Settle(d) \/ Handler!Notify(d)
  BY <1>0, <1>3 DEF Handler!Played, Handler!Settle, Handler!Notify
<1>4. CASE Handler!SynthesisStep(d) \/ Handler!AudioStep(d)
  BY <1>4 DEF Handler!SynthesisStep, Handler!AudioStep
<1> QED
  BY <1>1, <1>2, <1>3, <1>4 DEF Handler!SpeakThread

(***************************************************************************)
(* Nor does a control thread move another; only the next stop wakes it.    *)
(***************************************************************************)
LEMMA ControlThreadStays ==
  ASSUME Handler!HandlerInv, NEW d \in Display,
         Handler!HandleStop(d) \/ StopMarks(d) \/ StopFlags(d)
  PROVE  /\ hpc' = hpc
         /\ \A e \in Display :
              e # d \/ (kpc[e] = "idle" /\ ~Handler!HandleStop(d)) => kpc'[e] = kpc[e]
<1>0. kpc \in [Display -> {"idle", "mark", "stop_tts", "stop_audio"}]
  BY DEF Handler!HandlerInv, Handler!TypeOK
<1>1. hpc' = hpc
  BY ControlFrame DEF StopMarks, StopFlags
<1>2. CASE Handler!HandleStop(d)
  BY <1>0, <1>1, <1>2 DEF Handler!HandleStop
<1>3. CASE StopMarks(d) \/ StopFlags(d)
  BY <1>0, <1>1, <1>3
     DEF StopMarks, StopFlags, Handler!MarkStop, Handler!StopTts, Handler!StopAudio
<1> QED
  BY <1>1, <1>2, <1>3

(***************************************************************************)
(* A dispatcher that has ended is never in handleRequest again: its queue  *)
(* has mQuit set, so nothing is taken from it.                             *)
(***************************************************************************)
LEMMA EndedStay ==
  ASSUME ServiceInv, ProcessTypeOK, EndedIsIdle, [ProcessNext]_allVars
  PROVE  EndedIsIdle'
<1> USE DEF EndedIsIdle, IdleThread
<1>0. Handler!HandlerInv /\ exited \subseteq quit
  BY DEF ServiceInv, ProcessTypeOK
<1>1. \A q \in exited : q \in {"speak", "control"} \X Display
  BY QueueOrder DEF ProcessTypeOK
<1>2. CASE ThreadsStay /\ exited' = exited
  BY <1>2 DEF ThreadsStay
<1>3. ASSUME NEW d \in Display, Serves(<<"speak", d>>), TakeSpeak(d), UNCHANGED processVars
      PROVE  EndedIsIdle'
  <2>1. hpc \in [Display -> {"idle", "enter", "speak", "synthesis", "audio",
                             "settle", "notify", "remove"}]
    BY <1>0 DEF Handler!HandlerInv, Handler!TypeOK
  <2>2. hpc' = [hpc EXCEPT ![d] = "enter"] /\ kpc' = kpc
    BY <1>3 DEF TakeSpeak, Handler!HandleSpeak, Handler!controlVars
  <2>3. <<"speak", d>> \notin exited /\ exited' = exited
    BY <1>0, <1>3 DEF Serves, processVars
  <2> QED
    BY <1>1, <2>1, <2>2, <2>3
<1>4. ASSUME NEW d \in Display, SpeakThread(d), UNCHANGED processVars
      PROVE  EndedIsIdle'
  <2>1. /\ kpc' = kpc /\ exited' = exited
        /\ \A e \in Display : (e # d \/ hpc[e] = "idle") => hpc'[e] = hpc[e]
    BY <1>0, <1>4, SpeakThreadStays DEF SpeakThread, processVars
  <2> QED
    BY <1>1, <2>1
<1>5. ASSUME NEW d \in Display, Serves(<<"control", d>>), TakeStop(d), UNCHANGED processVars
      PROVE  EndedIsIdle'
  <2>1. /\ hpc' = hpc /\ exited' = exited
        /\ \A e \in Display : e # d => kpc'[e] = kpc[e]
    BY <1>0, <1>5, ControlThreadStays DEF TakeStop, processVars
  <2>2. <<"control", d>> \notin exited
    BY <1>0, <1>5 DEF Serves
  <2> QED
    BY <1>1, <2>1, <2>2
<1>6. ASSUME NEW d \in Display, StopMarks(d) \/ StopFlags(d), UNCHANGED processVars
      PROVE  EndedIsIdle'
  <2>1. kpc[d] # "idle"
    BY <1>6 DEF StopMarks, StopFlags, Handler!MarkStop, Handler!StopTts, Handler!StopAudio
  <2>2. /\ hpc' = hpc /\ exited' = exited
        /\ \A e \in Display :
             e # d \/ (kpc[e] = "idle" /\ ~Handler!HandleStop(d)) => kpc'[e] = kpc[e]
    BY <1>0, <1>6, ControlThreadStays DEF processVars
  <2> QED
    BY <1>1, <2>1, <2>2
<1>7. ASSUME NEW q, DispatcherEnds(q)
      PROVE  EndedIsIdle'
  BY <1>7 DEF DispatcherEnds, AtLoopEnd, vars, handlerVars
<1>8. ASSUME NEW d \in Display, VoiceServer(d)
      PROVE  ThreadsStay /\ exited' = exited
  BY <1>8 DEF VoiceServer, Server, Handler!Server, Handler!speakVars, Handler!controlVars,
              processVars, ThreadsStay
<1>9. CASE Main \/ Clients
  <2>1. CASE MainContinues \/ Clients
    BY <1>9, <2>1, MainLeavesThreads, <1>2
       DEF Main, StartService, RunLoop, ServeCall, LoopEnds, StopQueue, JoinQueue, Delete,
           Clients, Calls, FetchLanguages, processVars
  <2>2. CASE ~(MainContinues \/ Clients)
    BY <1>2, <1>9, <2>2
       DEF Main, StartService, RunLoop, ServeCall, LoopEnds, StopQueue, JoinQueue, Delete,
           MainContinues, vars, handlerVars, ThreadsStay
  <2> QED
    BY <2>1, <2>2
<1>10. CASE Signal \/ LanguagesFetched \/ AtRest \/ UNCHANGED allVars
  BY <1>2, <1>10 DEF Signal, LanguagesFetched, AtRest, allVars, processVars, vars, handlerVars,
                     ThreadsStay
<1> QED
  BY <1>2, <1>3, <1>4, <1>5, <1>6, <1>7, <1>8, <1>9, <1>10
     DEF ProcessNext, Speaker, Controller

-------------------------------------------------------------------------------
(* The queues are stopped in order *)

\* The queues that were stopped while main was at this place.
StoppedBefore(n) == {StopOrder[i] : i \in 1..n}

(***************************************************************************)
(* Besides the stops, the joins and the ends of dispatchers, only phases   *)
(* change, and only from those before the first stop to one another and at *)
(* the end.                                                                *)
(***************************************************************************)
LEMMA ProcessMoves ==
  ASSUME [ProcessNext]_allVars
  PROVE  \/ /\ UNCHANGED <<at, quit, exited, missed>>
            /\ \/ phase' = phase
               \/ {phase, phase'} \subseteq {"init", "loop", "fetch", "quit"}
               \/ phase = "delete" /\ phase' = "ended"
         \/ StopQueue
         \/ JoinQueue
         \/ \E d \in Display, kind \in {"speak", "control"} : DispatcherEnds(<<kind, d>>)
<1>1. CASE Main
  BY <1>1 DEF Main, StartService, RunLoop, ServeCall, LoopEnds, Delete, processVars
<1>2. CASE Signal \/ LanguagesFetched \/ AtRest \/ UNCHANGED allVars
  BY <1>2 DEF Signal, LanguagesFetched, AtRest, allVars, processVars
<1>3. CASE Clients
  BY <1>3 DEF Clients, Calls, FetchLanguages, processVars
<1>4. ASSUME NEW d \in Display, Speaker(d) \/ Controller(d) \/ VoiceServer(d)
      PROVE  \/ UNCHANGED processVars
             \/ DispatcherEnds(<<"speak", d>>) \/ DispatcherEnds(<<"control", d>>)
  BY <1>4 DEF Speaker, Controller, VoiceServer
<1> QED
  BY <1>1, <1>2, <1>3, <1>4 DEF ProcessNext, processVars

(***************************************************************************)
(* The variables of the main thread keep to their types.                   *)
(***************************************************************************)
LEMMA PhasesAndFetches ==
  ASSUME ProcessTypeOK, [ProcessNext]_allVars
  PROVE  /\ phase' \in {"init", "loop", "fetch", "quit", "join", "delete", "ended"}
         /\ fetches' \in 0..MaxFetches
         /\ quitting' \in BOOLEAN
<1> USE DEF ProcessTypeOK
<1>1. CASE Main
  BY <1>1 DEF Main, StartService, RunLoop, ServeCall, LoopEnds, StopQueue, JoinQueue,
              Delete, processVars
<1>2. CASE Signal \/ LanguagesFetched \/ AtRest \/ UNCHANGED allVars
  BY <1>2 DEF Signal, LanguagesFetched, AtRest, allVars, processVars
<1>3. CASE Calls
  BY <1>3 DEF Calls, processVars
<1>4. CASE FetchLanguages
  <2>1. fetches + 1 \in 0..MaxFetches
    BY <1>4, ShutdownAssumption DEF FetchLanguages
  <2> QED
    BY <1>4, <2>1 DEF FetchLanguages
<1>5. ASSUME NEW d \in Display, Speaker(d) \/ Controller(d) \/ VoiceServer(d)
      PROVE  UNCHANGED <<phase, fetches, quitting>>
  BY <1>5 DEF Speaker, Controller, VoiceServer, DispatcherEnds, processVars
<1> QED
  BY <1>1, <1>2, <1>3, <1>4, <1>5 DEF ProcessNext, Clients

\* What is known of them: each was new to quit when it was stopped.
StoppedOK ==
  /\ at \in 1..Len(StopOrder)
  /\ exited \subseteq quit /\ missed \subseteq quit \ exited
  /\ quit = StoppedBefore(IF phase \in {"init", "loop", "fetch", "quit"} THEN at - 1 ELSE at)

(***************************************************************************)
(* One queue is stopped after the other: each is new to quit when it is    *)
(* stopped, and the next one is stopped, or the members are deleted, when  *)
(* its dispatcher has ended.                                               *)
(***************************************************************************)
LEMMA StopsInOrder ==
  ASSUME StoppedOK, JoinedSoFar, [ProcessNext]_allVars,
         phase \in {"init", "loop", "fetch", "quit", "join", "delete", "ended"}
  PROVE  StoppedOK' /\ JoinedSoFar'
<1> USE DEF StoppedOK, JoinedSoFar, QueueAt
<1>1. CASE /\ UNCHANGED <<at, quit, exited, missed>>
           /\ \/ phase' = phase
              \/ {phase, phase'} \subseteq {"init", "loop", "fetch", "quit"}
              \/ phase = "delete" /\ phase' = "ended"
  BY <1>1
<1>2. CASE StopQueue
  <2> USE <1>2 DEF StopQueue, QuitAfterStop
  <2>1. /\ at \in 1..Len(StopOrder) /\ at' = at /\ exited' = exited
        /\ quit' = quit \cup {StopOrder[at]} /\ quit = StoppedBefore(at - 1)
        /\ missed' = missed \/ missed' = missed \cup {StopOrder[at]}
    OBVIOUS
  <2>2. quit' = StoppedBefore(at)
    <3>1. 1..at = (1..(at - 1)) \cup {at}
      BY ONLY <2>1, QueueOrder
    <3> QED
      BY ONLY <2>1, <3>1 DEF StoppedBefore
  <2>3. StopOrder[at] \notin quit
    <3>1. \A i \in 1..(at - 1) : i \in 1..Len(StopOrder) /\ i # at
      BY ONLY <2>1, QueueOrder
    <3> QED
      BY <2>1, <3>1, QueueOrder DEF StoppedBefore
  <2> QED
    BY <2>1, <2>2, <2>3
<1>3. CASE JoinQueue
  <2> USE <1>3 DEF JoinQueue, Joined
  <2>1. /\ at \in 1..Len(StopOrder) /\ StopOrder[at] \in exited /\ quit = StoppedBefore(at)
        /\ UNCHANGED <<quit, exited, missed>>
    OBVIOUS
  <2>2. CASE at = Len(StopOrder)
    BY <2>1, <2>2
  <2>3. CASE at # Len(StopOrder)
    <3>1. at' = at + 1 /\ phase' = "quit"
      BY <2>3
    <3>2. at + 1 \in 1..Len(StopOrder) /\ (at + 1) - 1 = at
          /\ 1..at = (1..(at - 1)) \cup {at}
      BY ONLY <2>1, <2>3, QueueOrder
    <3> QED
      BY <2>1, <3>1, <3>2
  <2> QED
    BY <2>2, <2>3
<1>4. ASSUME NEW q, DispatcherEnds(q)
      PROVE  StoppedOK' /\ JoinedSoFar'
  BY <1>4 DEF DispatcherEnds
<1> QED
  BY <1>1, <1>2, <1>3, <1>4, ProcessMoves

-------------------------------------------------------------------------------
(* The inductive invariant and what follows from it *)

(***************************************************************************)
(* The invariant holds when the process starts,                            *)
(***************************************************************************)
LEMMA InitProcess == ProcessInit => ProcessInv
<1> SUFFICES ASSUME ProcessInit
             PROVE  ProcessInv
  OBVIOUS
<1> USE DEF ProcessInit
<1>1. ServiceInv
  BY InitServiceInv
<1>2. TypeOK
  BY <1>1 DEF ServiceInv, TypeOK, Handler!HandlerInv
<1>3. 1..(1 - 1) = {}
  OBVIOUS
<1>4. ProcessTypeOK
  <2>1. at \in 1..Len(StopOrder) /\ fetches \in 0..MaxFetches
    BY QueueOrder, ShutdownAssumption
  <2>2. 1..(IF phase \in {"init", "loop", "fetch", "quit"} THEN at - 1 ELSE at) = {}
    BY <1>3
  <2> QED
    BY <1>2, <2>1, <2>2 DEF ProcessTypeOK
<1>5. AcceptedIsSomewhere
  BY DEF AcceptedIsSomewhere, Init
<1>6. EndedIsIdle /\ JoinedSoFar
  BY <1>3 DEF EndedIsIdle, JoinedSoFar
<1> QED
  BY <1>1, <1>4, <1>5, <1>6 DEF ProcessInv

(***************************************************************************)
(* and every step keeps it.                                                *)
(***************************************************************************)
LEMMA NextProcess ==
  ASSUME ProcessInv, [ProcessNext]_allVars
  PROVE  ProcessInv'
<1> USE DEF ProcessInv
<1>1. [Next]_vars
  BY ProcessServes
<1>2. ServiceInv'
  BY <1>1, NextServiceInv
<1>3. TypeOK'
  BY <1>2 DEF ServiceInv, TypeOK, Handler!HandlerInv
<1>4. StoppedOK
  BY DEF ProcessTypeOK, StoppedOK, StoppedBefore
<1>5. StoppedOK' /\ JoinedSoFar'
  BY <1>4, StopsInOrder DEF ProcessTypeOK
<1>6. ProcessTypeOK'
  BY <1>3, <1>5, PhasesAndFetches DEF ProcessTypeOK, StoppedOK, StoppedBefore
<1>7. AcceptedIsSomewhere'
  BY <1>1, <1>2, ServicePlaces
<1>8. EndedIsIdle'
  BY EndedStay
<1> QED
  BY <1>2, <1>5, <1>6, <1>7, <1>8

(***************************************************************************)
(* The inductive invariant: that of the service, the queues that were      *)
(* stopped and joined so far, and a place for each request that was        *)
(* accepted.                                                               *)
(***************************************************************************)
THEOREM ProcessInductive == ProcessSpec => []ProcessInv
<1>1. ProcessSpec => ProcessInit /\ [][ProcessNext]_allVars
  BY PTL DEF ProcessSpec
<1> QED
  BY <1>1, InitProcess, NextProcess, PTL

(***************************************************************************)
(* The variables of the process keep to their types; the queues with mQuit *)
(* set are those stopped so far, and only those end or miss their notify.  *)
(***************************************************************************)
THEOREM ProcessTypeCorrect == ProcessSpec => []ProcessTypeOK
<1>1. ProcessInv => ProcessTypeOK
  BY DEF ProcessInv
<1> QED
  BY <1>1, ProcessInductive, PTL

(***************************************************************************)
(* The process runs SpeechService, signals, stopping and fetching          *)
(* included: every theorem about Spec is one about ProcessSpec.            *)
(***************************************************************************)
THEOREM RunsTheService == ProcessSpec => Spec
<1>1. ProcessSpec => ProcessInit /\ [][ProcessNext]_allVars
  BY PTL DEF ProcessSpec
<1>2. ProcessInit => Init
  BY DEF ProcessInit
<1> QED
  BY <1>1, <1>2, ProcessServes, PTL DEF Spec

(***************************************************************************)
(* All queues were joined, so all dispatchers are idle and no request      *)
(* runs. An accepted request that no longer waits was cancelled, which its *)
(* client was told once, or was handled, and is over: OneEnd's part of the *)
(* invariant says that its client was told once. One that waits was        *)
(* neither handled nor cancelled, so nothing was told of its end.          *)
(***************************************************************************)
LEMMA InvOrderlyEnd == ProcessInv => OrderlyEnd
<1> SUFFICES ASSUME ProcessInv, phase \in {"delete", "ended"}
             PROVE  /\ \A d \in Display : hpc[d] = "idle" /\ kpc[d] = "idle"
                    /\ \A r \in Subscribed \ BadLanguage :
                         Accepted(r) /\ DisplayOf[r] \in Loaded =>
                           EndsTold(r) = IF Queued(r) THEN 0 ELSE 1
  BY DEF OrderlyEnd
<1> USE DEF ProcessInv
<1>1. \A i \in 1..Len(StopOrder) : StopOrder[i] \in exited
  <2>1. at = Len(StopOrder) /\ StopOrder[at] \in exited
        /\ \A i \in 1..(at - 1) : StopOrder[i] \in exited
    BY DEF JoinedSoFar, QueueAt
  <2>2. \A i \in 1..Len(StopOrder) : i \in 1..(Len(StopOrder) - 1) \/ i = Len(StopOrder)
    BY ONLY QueueOrder
  <2> QED
    BY <2>1, <2>2
<1>2. ASSUME NEW d \in Display
      PROVE  <<"speak", d>> \in exited /\ <<"control", d>> \in exited
  <2>1. PICK i \in 1..Len(StopOrder) : StopOrder[i] = <<"speak", d>>
    BY QueueOrder
  <2>2. PICK j \in 1..Len(StopOrder) : StopOrder[j] = <<"control", d>>
    BY QueueOrder
  <2> QED
    BY ONLY <1>1, <2>1, <2>2
<1>3. \A d \in Display : hpc[d] = "idle" /\ kpc[d] = "idle"
  BY <1>2 DEF EndedIsIdle, IdleThread
<1>4. \A d \in Display : running[d] = NoRequest
  BY <1>3 DEF ServiceInv, Handler!HandlerInv, Handler!InfoNamesRunning
<1>5. ASSUME NEW r \in Subscribed \ BadLanguage, Accepted(r), DisplayOf[r] \in Loaded
      PROVE  EndsTold(r) = IF Queued(r) THEN 0 ELSE 1
  <2>0. r \in Request \ (Rejected \cup BadLanguage) /\ NoRequest \notin Request
    BY <1>5, ServiceAssumption DEF Accepted
  <2>1. r \in handled \cup cancelled \/ Queued(r)
    BY <1>5, <2>0 DEF Accepted, AcceptedIsSomewhere
  <2>2. TimesToldCancelled(r) = IF r \in cancelled THEN 1 ELSE 0
    BY <1>5, <2>0 DEF ServiceInv, CallsInv, CancelToldOnce
  <2>3. /\ Queued(r) => r \notin handled \cup cancelled
        /\ r \in cancelled => r \notin handled
    BY <2>0 DEF Queued, ServiceInv, CallsInv, WaitsOnce, SpeaksItsOwn
  <2>4. r \in handled => Len(notified[r]) = 1
    BY <1>4, <1>5, <2>0 DEF ServiceInv, CallsInv, ToldByThen
  <2>5. r \notin handled => Len(notified[r]) = 0
    BY <2>0, EmptySeq DEF ServiceInv, Handler!HandlerInv, Handler!HandledBefore
  <2>6. EndsTold(r) = TimesToldCancelled(r) + Len(notified[r])
    BY <2>0, EndsNotified DEF EndsTold, ServiceInv
  <2> DEFINE n == Len(notified[r])
             t == TimesToldCancelled(r)
             k == EndsTold(r)
  <2>7. k = t + n /\ (t = IF r \in cancelled THEN 1 ELSE 0) /\ (n = IF r \in handled THEN 1 ELSE 0)
    BY <2>2, <2>4, <2>5, <2>6
  <2> HIDE DEF n, t, k
  <2>8. k = IF Queued(r) THEN 0 ELSE 1
    BY ONLY <2>1, <2>3, <2>7
  <2> QED
    BY <2>8 DEF k
<1> QED
  BY <1>3, <1>5

(***************************************************************************)
(* Once the destructor deletes the engines and the bus handle no           *)
(* dispatcher is in handleRequest, and a subscribed client whose request   *)
(* was accepted, and no longer waits, has been told its end; one whose     *)
(* request still waits has not.                                            *)
(***************************************************************************)
THEOREM OrderlyEndAlways == ProcessSpec => []OrderlyEnd
BY InvOrderlyEnd, ProcessInductive, PTL
===============================================================================
