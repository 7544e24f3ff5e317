-------------------------- MODULE RequestQueueProofs --------------------------
(***************************************************************************)
(* Proofs about RequestQueue for every set of requests and ids: the        *)
(* inductive invariant IInv, and that every step of the queue is a step of *)
(* RequestLifecycle or changes nothing of it.                              *)
(***************************************************************************)
EXTENDS RequestQueue, SequenceTheorems, TLAPS

(***************************************************************************)
(* Erasing the i-th element keeps what is before it and shifts what is     *)
(* behind it (std::vector::erase).                                         *)
(***************************************************************************)
LEMMA RemoveAtProperties ==
  ASSUME NEW S, NEW s \in Seq(S), NEW i \in 1..Len(s)
  PROVE  /\ RemoveAt(s, i) \in Seq(S)
         /\ Len(RemoveAt(s, i)) = Len(s) - 1
         /\ \A j \in 1..(Len(s) - 1) :
              RemoveAt(s, i)[j] = IF j < i THEN s[j] ELSE s[j + 1]
<1> DEFINE front == SubSeq(s, 1, i - 1)
           back == SubSeq(s, i + 1, Len(s))
<1>1. Len(s) \in Nat /\ \A j \in 1..Len(s) : s[j] \in S
  BY LenProperties, ElementOfSeq
<1>2. /\ front \in Seq(S)
      /\ Len(front) = i - 1
      /\ \A j \in 1..(i - 1) : front[j] = s[j]
  <2>1. \A j \in 1..(i - 1) : s[j] \in S
    BY <1>1
  <2>2. /\ front \in Seq(S)
        /\ Len(front) = IF 1 <= i - 1 THEN (i - 1) - 1 + 1 ELSE 0
        /\ \A j \in 1..((i - 1) - 1 + 1) : front[j] = s[1 + j - 1]
    BY <1>1, <2>1, SubSeqProperties
  <2> QED
    BY <1>1, <2>2
<1>3. /\ back \in Seq(S)
      /\ Len(back) = Len(s) - i
      /\ \A j \in 1..(Len(s) - i) : back[j] = s[i + j]
  <2>1. \A j \in (i + 1)..Len(s) : s[j] \in S
    BY <1>1
  <2>2. /\ back \in Seq(S)
        /\ Len(back) = IF i + 1 <= Len(s) THEN Len(s) - (i + 1) + 1 ELSE 0
        /\ \A j \in 1..(Len(s) - (i + 1) + 1) : back[j] = s[(i + 1) + j - 1]
    BY <1>1, <2>1, SubSeqProperties
  <2> QED
    BY <1>1, <2>2
<1>4. /\ front \o back \in Seq(S)
      /\ Len(front \o back) = Len(front) + Len(back)
      /\ \A j \in 1..(Len(front) + Len(back)) :
           (front \o back)[j] = IF j <= Len(front) THEN front[j]
                                ELSE back[j - Len(front)]
  BY <1>2, <1>3, ConcatProperties
<1>5. RemoveAt(s, i) = front \o back
  BY DEF RemoveAt
<1> HIDE DEF front, back
<1>6. Len(RemoveAt(s, i)) = Len(s) - 1
  <2>1. Len(RemoveAt(s, i)) = Len(front) + Len(back)
    BY <1>4, <1>5
  <2>2. Len(front) + Len(back) = Len(s) - 1
    BY <1>1, <1>2, <1>3
  <2> QED
    BY <2>1, <2>2
<1>7. ASSUME NEW j \in 1..(Len(s) - 1)
      PROVE  RemoveAt(s, i)[j] = IF j < i THEN s[j] ELSE s[j + 1]
  <2>1. j \in 1..(Len(front) + Len(back))
    BY <1>1, <1>2, <1>3
  <2>2. CASE j < i
    BY <1>1, <1>2, <1>3, <1>4, <1>5, <2>1, <2>2
  <2>3. CASE ~(j < i)
    <3>1. j - Len(front) \in 1..(Len(s) - i) /\ i + (j - Len(front)) = j + 1
      BY <1>1, <1>2, <2>3
    <3> QED
      BY <1>1, <1>2, <1>3, <1>4, <1>5, <2>1, <2>3, <3>1
  <2> QED
    BY <2>2, <2>3
<1> QED
  BY <1>4, <1>5, <1>6, <1>7

-------------------------------------------------------------------------------
(***************************************************************************)
(* The initial state satisfies the inductive invariant: the queue is empty *)
(* and no thread runs.                                                     *)
(***************************************************************************)
LEMMA InitIInv == Init => IInv
BY QueueAssumption, EmptySeq
   DEF Init, IInv, TypeOK, MutexHeld, ThreadStarted, OwnedOnce, NoLostAdd, ScanComplete

(***************************************************************************)
(* Pushing a request that is not in the queue keeps the queue's entries    *)
(* distinct (addRequest).                                                  *)
(***************************************************************************)
LEMMA AddRequestIInv ==
  ASSUME IInv, NEW r \in Request, AddRequest(r)
  PROVE  IInv'
<1> USE DEF AddRequest, IInv, ThreadStarted, dispatcherVars, scanVars
<1> DEFINE n == Len(mRequestQueue)
<1>1. /\ n \in Nat
      /\ mRequestQueue' \in Seq(Request)
      /\ Len(mRequestQueue') = n + 1
      /\ \A i \in 1..n : mRequestQueue'[i] = mRequestQueue[i]
      /\ mRequestQueue'[n + 1] = r
  BY AppendProperties, LenProperties DEF TypeOK
<1>2. mMutex = "free" /\ cpc = "idle" /\ cpc' = "notify"
  OBVIOUS
<1>3. \A i \in 1..n : mRequestQueue[i] # r /\ mRequestQueue[i] \in Request
  BY <1>1, ElementOfSeq DEF TypeOK, OwnedOnce
<1>4. TypeOK'
  BY <1>1 DEF TypeOK
<1>5. MutexHeld'
  BY <1>2 DEF MutexHeld
<1>6. OwnedOnce'
  <2>1. \A i, j \in 1..(n + 1) : mRequestQueue'[i] = mRequestQueue'[j] => i = j
    BY <1>1, <1>3 DEF OwnedOnce
  <2>2. ASSUME NEW q \in Request
        PROVE  fate'[q] = "queued" <=> \E i \in 1..(n + 1) : mRequestQueue'[i] = q
    <3>1. CASE q = r
      BY <1>1, <3>1 DEF TypeOK
    <3>2. CASE q # r
      BY <1>1, <3>2 DEF TypeOK, OwnedOnce
    <3> QED
      BY <3>1, <3>2
  <2>3. \A q \in Request : fate'[q] = "running" <=> op' = q
    BY DEF TypeOK, OwnedOnce
  <2> QED
    BY <1>1, <2>1, <2>2, <2>3 DEF OwnedOnce
<1>7. NoLostAdd'
  BY <1>2 DEF NoLostAdd, MutexHeld
<1>8. ScanComplete'
  BY <1>2 DEF ScanComplete
<1> QED
  BY <1>4, <1>5, <1>6, <1>7, <1>8

(***************************************************************************)
(* Erasing under the iterator keeps what is in front of it, and nothing    *)
(* selected slips behind it (removeRequest, clearQueue).                   *)
(***************************************************************************)
LEMMA EraseSelectedIInv ==
  ASSUME IInv, EraseSelected
  PROVE  IInv'
<1> USE DEF EraseSelected, IInv, ThreadStarted, dispatcherVars, IndexAfterErase
<1> DEFINE n == Len(mRequestQueue)
           e == mRequestQueue[it]
<1>1. /\ n \in Nat
      /\ it \in 1..n
      /\ e \in Request
  BY LenProperties, ElementOfSeq DEF TypeOK
<1>2. /\ mRequestQueue' \in Seq(Request)
      /\ Len(mRequestQueue') = n - 1
      /\ \A j \in 1..(n - 1) :
           mRequestQueue'[j] = IF j < it THEN mRequestQueue[j]
                               ELSE mRequestQueue[j + 1]
  <2>1. mRequestQueue' = RemoveAt(mRequestQueue, it) /\ mRequestQueue \in Seq(Request)
    BY DEF TypeOK
  <2> QED
    BY ONLY <1>1, <2>1, RemoveAtProperties
<1> HIDE DEF n, e
<1>3. fate' = [fate EXCEPT ![e] = "cancelled"] /\ fate[e] = "queued"
  BY <1>1 DEF e, n, OwnedOnce
<1>4. cpc = "scan" /\ cpc' \in {"scan", "leave"}
  OBVIOUS
<1>5. TypeOK'
  BY <1>1, <1>2, <1>3, <1>4 DEF TypeOK, e
<1>6. MutexHeld'
  BY <1>4 DEF MutexHeld
<1>7. OwnedOnce'
  <2>1. ASSUME NEW i \in 1..(n - 1), NEW j \in 1..(n - 1),
               mRequestQueue'[i] = mRequestQueue'[j]
        PROVE  i = j
    <3> DEFINE old(k) == IF k < it THEN k ELSE k + 1
    <3>1. old(i) \in 1..n /\ old(j) \in 1..n
      BY <1>1
    <3>2. mRequestQueue[old(i)] = mRequestQueue[old(j)]
      BY <1>2, <2>1
    <3>3. old(i) = old(j)
      BY <3>1, <3>2 DEF OwnedOnce, n
    <3> QED
      BY <1>1, <3>3
  <2>2. ASSUME NEW q \in Request
        PROVE  fate'[q] = "queued" <=> \E i \in 1..(n - 1) : mRequestQueue'[i] = q
    <3>1. CASE q = e
      <4>1. fate'[q] # "queued"
        BY <1>3, <3>1 DEF TypeOK
      <4>2. ASSUME NEW i \in 1..(n - 1), mRequestQueue'[i] = e
            PROVE  FALSE
        <5>1. CASE i < it
          BY <1>1, <1>2, <4>2, <5>1 DEF OwnedOnce, n, e
        <5>2. CASE ~(i < it)
          BY <1>1, <1>2, <4>2, <5>2 DEF OwnedOnce, n, e
        <5> QED
          BY <5>1, <5>2
      <4> QED
        BY <3>1, <4>1, <4>2
    <3>2. CASE q # e
      <4>1. fate'[q] = fate[q]
        BY <1>1, <1>3, <3>2 DEF TypeOK
      <4>2. ASSUME NEW i \in 1..n, mRequestQueue[i] = q
            PROVE  \E j \in 1..(n - 1) : mRequestQueue'[j] = q
        <5>1. CASE i < it
          BY <1>1, <1>2, <4>2, <5>1
        <5>2. CASE i > it
          <6>1. i - 1 \in 1..(n - 1) /\ ~(i - 1 < it) /\ (i - 1) + 1 = i
            BY <1>1, <5>2
          <6> QED
            BY <1>2, <4>2, <6>1
        <5>3. i # it
          BY <3>2, <4>2 DEF e
        <5> QED
          BY <1>1, <5>1, <5>2, <5>3
      <4>3. ASSUME NEW j \in 1..(n - 1), mRequestQueue'[j] = q
            PROVE  \E i \in 1..n : mRequestQueue[i] = q
        <5>1. j \in 1..n /\ j + 1 \in 1..n
          BY <1>1
        <5>2. CASE j < it
          BY <1>2, <4>3, <5>1, <5>2
        <5>3. CASE ~(j < it)
          BY <1>2, <4>3, <5>1, <5>3
        <5> QED
          BY <5>2, <5>3
      <4>4. fate[q] = "queued" <=> \E i \in 1..n : mRequestQueue[i] = q
        BY DEF OwnedOnce, n
      <4> QED
        BY <4>1, <4>2, <4>3, <4>4
    <3> QED
      BY <3>1, <3>2
  <2>3. \A q \in Request : fate'[q] = "running" <=> op' = q
    BY <1>1, <1>3 DEF TypeOK, OwnedOnce
  <2>4. op' # NoRequest <=> dpc' = "run"
    BY DEF OwnedOnce
  <2> QED
    BY <1>2, <2>1, <2>2, <2>3, <2>4 DEF OwnedOnce
<1>8. NoLostAdd'
  <2>1. dpc' # "block"
    BY <1>4 DEF MutexHeld
  <2>2. mRequestQueue # <<>>
    BY <1>1, EmptySeq DEF n
  <2> QED
    BY <1>4, <2>1, <2>2 DEF NoLostAdd
<1>9. ScanComplete'
  <2>1. \A r : Selected(r)' = Selected(r)
    BY DEF Selected, ClearsAll, ByMsg, ByApp
  <2>2. \A i \in 1..(n - 1) : i < it => ~Selected(mRequestQueue'[i])
    BY <1>1, <1>2, <1>4 DEF ScanComplete, n
  <2>3. \A r \in hits' : Selected(r) /\ fate'[r] = "cancelled"
    BY <1>1, <1>3, <1>4 DEF ScanComplete, e, TypeOK
  <2> QED
    BY <1>2, <2>1, <2>2, <2>3 DEF ScanComplete
<1> QED
  BY <1>5, <1>6, <1>7, <1>8, <1>9

(***************************************************************************)
(* Taking the front request moves it from the queue to the dispatcher and  *)
(* leaves the other entries distinct (dispatchHandler).                    *)
(***************************************************************************)
LEMMA TakeFrontIInv ==
  ASSUME IInv, TakeFront
  PROVE  IInv'
<1> USE DEF TakeFront, IInv, ThreadStarted, scanVars, QueueAfterTake
<1> DEFINE n == Len(mRequestQueue)
           h == Head(mRequestQueue)
<1>1. /\ n \in Nat
      /\ n >= 1
      /\ h = mRequestQueue[1]
      /\ h \in Request
      /\ mRequestQueue' \in Seq(Request)
      /\ Len(mRequestQueue') = n - 1
      /\ \A i \in 1..(n - 1) : mRequestQueue'[i] = mRequestQueue[i + 1]
  BY HeadTailProperties, LenProperties, EmptySeq DEF TypeOK
<1> HIDE DEF n, h
<1>2. /\ fate' = [fate EXCEPT ![h] = "running"]
      /\ op' = h
  BY DEF h
<1>3. dpc = "ready" /\ dpc' = "run" /\ mMutex' = "free" /\ cpc' = cpc
  OBVIOUS
<1>4. mMutex = "dispatcher" /\ cpc \notin {"scan", "leave"}
  BY <1>3 DEF MutexHeld
<1>5. fate[h] = "queued" /\ op = NoRequest
  BY <1>1, <1>3 DEF OwnedOnce, n
<1>6. TypeOK'
  BY <1>1, <1>2, <1>3, <1>4 DEF TypeOK
<1>7. MutexHeld'
  BY <1>3, <1>4 DEF MutexHeld
<1>8. OwnedOnce'
  <2>1. ASSUME NEW i \in 1..(n - 1), NEW j \in 1..(n - 1),
               mRequestQueue'[i] = mRequestQueue'[j]
        PROVE  i = j
    <3>1. i + 1 \in 1..n /\ j + 1 \in 1..n
      BY <1>1
    <3>2. mRequestQueue[i + 1] = mRequestQueue[j + 1]
      BY <1>1, <2>1
    <3>3. i + 1 = j + 1
      BY <3>1, <3>2 DEF OwnedOnce, n
    <3> QED
      BY <1>1, <3>3
  <2>2. ASSUME NEW q \in Request
        PROVE  fate'[q] = "queued" <=> \E i \in 1..(n - 1) : mRequestQueue'[i] = q
    <3>1. fate[q] = "queued" <=> \E i \in 1..n : mRequestQueue[i] = q
      BY DEF OwnedOnce, n
    <3>2. CASE q = h
      <4>1. fate'[q] # "queued"
        BY <1>1, <1>2, <3>2 DEF TypeOK
      <4>2. ASSUME NEW i \in 1..(n - 1), mRequestQueue'[i] = h
            PROVE  FALSE
        <5>1. i + 1 \in 1..n /\ 1 \in 1..n /\ i + 1 # 1
          BY <1>1
        <5>2. mRequestQueue[i + 1] = mRequestQueue[1]
          BY <1>1, <4>2
        <5> QED
          BY <5>1, <5>2 DEF OwnedOnce, n
      <4> QED
        BY <3>2, <4>1, <4>2
    <3>3. CASE q # h
      <4>1. fate'[q] = fate[q]
        BY <1>1, <1>2, <3>3 DEF TypeOK
      <4>2. ASSUME NEW i \in 1..n, mRequestQueue[i] = q
            PROVE  \E j \in 1..(n - 1) : mRequestQueue'[j] = q
        <5>1. i - 1 \in 1..(n - 1) /\ (i - 1) + 1 = i
          BY <1>1, <3>3, <4>2
        <5> QED
          BY <1>1, <4>2, <5>1
      <4>3. ASSUME NEW j \in 1..(n - 1), mRequestQueue'[j] = q
            PROVE  \E i \in 1..n : mRequestQueue[i] = q
        <5>1. j + 1 \in 1..n /\ mRequestQueue[j + 1] = q
          BY <1>1, <4>3
        <5> QED
          BY <5>1
      <4> QED
        BY <3>1, <4>1, <4>2, <4>3
    <3> QED
      BY <3>2, <3>3
  <2>3. ASSUME NEW q \in Request
        PROVE  fate'[q] = "running" <=> op' = q
    <3>1. CASE q = h
      BY <1>1, <1>2, <3>1 DEF TypeOK
    <3>2. CASE q # h
      BY <1>1, <1>2, <1>5, <3>2, QueueAssumption DEF TypeOK, OwnedOnce
    <3> QED
      BY <3>1, <3>2
  <2>4. op' # NoRequest <=> dpc' = "run"
    BY <1>1, <1>2, <1>3, QueueAssumption
  <2> QED
    BY <1>1, <2>1, <2>2, <2>3, <2>4 DEF OwnedOnce
<1>9. NoLostAdd'
  BY <1>3 DEF NoLostAdd
<1>10. ScanComplete'
  BY <1>4 DEF ScanComplete
<1> QED
  BY <1>6, <1>7, <1>8, <1>9, <1>10

(***************************************************************************)
(* Every step of the queue keeps the inductive invariant.                  *)
(***************************************************************************)
LEMMA NextIInv == IInv /\ [Next]_vars => IInv'
<1> SUFFICES ASSUME IInv, [Next]_vars
             PROVE  IInv'
  OBVIOUS
<1> USE DEF IInv, ThreadStarted, dispatcherVars, scanVars
<1>1. CASE Start
  <2>1. dpc = "none" /\ dpc' = "lock" /\ cpc = "created" /\ cpc' = "idle"
    BY <1>1 DEF Start
  <2>2. TypeOK' /\ MutexHeld' /\ NoLostAdd' /\ ScanComplete'
    BY <1>1, <2>1 DEF Start, TypeOK, MutexHeld, NoLostAdd, ScanComplete
  <2>3. OwnedOnce'
    BY <1>1, <2>1 DEF Start, OwnedOnce
  <2> QED
    BY <2>1, <2>2, <2>3
<1>2. ASSUME NEW r \in Request, AddRequest(r)
      PROVE  IInv'
  BY <1>2, AddRequestIInv
<1>3. CASE AddNotify
  BY <1>3 DEF AddNotify, AddWakes, Notified,
              TypeOK, MutexHeld, OwnedOnce, NoLostAdd, ScanComplete
<1>4. ASSUME NEW app \in AppId, NEW msg \in MsgId, RemoveRequest(app, msg)
      PROVE  IInv'
  <2>1. 1 \in 1..(Len(mRequestQueue) + 1)
    BY LenProperties DEF TypeOK
  <2>2. TypeOK'
    BY <1>4, <2>1 DEF RemoveRequest, TypeOK
  <2>3. ScanComplete'
    BY <1>4, LenProperties DEF RemoveRequest, TypeOK, ScanComplete
  <2> QED
    BY <1>4, <2>2, <2>3 DEF RemoveRequest, MutexHeld, OwnedOnce, NoLostAdd
<1>5. CASE StopSetsQuit
  BY <1>5 DEF StopSetsQuit, TypeOK, MutexHeld, OwnedOnce, NoLostAdd, ScanComplete
<1>6. CASE EraseSelected
  BY <1>6, EraseSelectedIInv
<1>7. CASE KeepUnselected
  <2>1. /\ Len(mRequestQueue) \in Nat
        /\ it \in 1..Len(mRequestQueue)
        /\ mRequestQueue' = mRequestQueue
        /\ it' = it + 1
    BY <1>7, LenProperties DEF KeepUnselected, TypeOK
  <2>2. \A r : Selected(r)' = Selected(r)
    BY <1>7 DEF KeepUnselected, Selected, ClearsAll, ByMsg, ByApp
  <2>3. TypeOK'
    BY <1>7, <2>1 DEF KeepUnselected, TypeOK
  <2>4. ScanComplete'
    BY <1>7, <2>1, <2>2 DEF KeepUnselected, ScanComplete
  <2> QED
    BY <1>7, <2>3, <2>4 DEF KeepUnselected, MutexHeld, OwnedOnce, NoLostAdd
<1>8. CASE RemoveReturns
  BY <1>8 DEF RemoveReturns, TypeOK, MutexHeld, OwnedOnce, NoLostAdd, ScanComplete
<1>9. CASE StopNotifies
  BY <1>9 DEF StopNotifies, Notified,
              TypeOK, MutexHeld, OwnedOnce, NoLostAdd, ScanComplete
<1>10. CASE StopJoins
  BY <1>10 DEF StopJoins, TypeOK, MutexHeld, OwnedOnce, NoLostAdd, ScanComplete
<1>11. CASE LockToWait
  BY <1>11 DEF LockToWait, TypeOK, MutexHeld, OwnedOnce, NoLostAdd, ScanComplete
<1>12. CASE TestPredicate
  BY <1>12 DEF TestPredicate, WaitPredicate,
               TypeOK, MutexHeld, OwnedOnce, NoLostAdd, ScanComplete
<1>13. CASE Block
  BY <1>13 DEF Block, TypeOK, MutexHeld, OwnedOnce, NoLostAdd, ScanComplete
<1>14. CASE SpuriousWake
  BY <1>14 DEF SpuriousWake, TypeOK, MutexHeld, OwnedOnce, NoLostAdd, ScanComplete,
               Selected, ClearsAll, ByMsg, ByApp
<1>15. CASE TakeFront
  BY <1>15, TakeFrontIInv
<1>16. CASE Executed
  <2>1. /\ op \in Request
        /\ fate' = [fate EXCEPT ![op] = "executed"]
        /\ op' = NoRequest
        /\ fate[op] = "running"
    BY <1>16 DEF Executed, TypeOK, OwnedOnce
  <2>2. TypeOK'
    BY <1>16, <2>1 DEF Executed, TypeOK
  <2>3. OwnedOnce'
    BY <1>16, <2>1, QueueAssumption DEF Executed, TypeOK, OwnedOnce
  <2>4. ScanComplete'
    <3>1. \A r : Selected(r)' = Selected(r)
      BY <1>16 DEF Executed, Selected, ClearsAll, ByMsg, ByApp
    <3> QED
      BY <1>16, <2>1, <3>1 DEF Executed, TypeOK, ScanComplete
  <2> QED
    BY <1>16, <2>2, <2>3, <2>4 DEF Executed, MutexHeld, NoLostAdd
<1>17. CASE RelockAndWait
  BY <1>17 DEF RelockAndWait, MutexAfterRelock,
               TypeOK, MutexHeld, OwnedOnce, NoLostAdd, ScanComplete
<1>18. CASE RelockAndExit
  BY <1>18 DEF RelockAndExit, TypeOK, MutexHeld, OwnedOnce, NoLostAdd, ScanComplete
<1>19. CASE QuitAfterWait
  BY <1>19 DEF QuitAfterWait, TypeOK, MutexHeld, OwnedOnce, NoLostAdd, ScanComplete
<1>20. CASE UNCHANGED vars
  BY <1>20 DEF vars, TypeOK, MutexHeld, OwnedOnce, NoLostAdd, ScanComplete,
               Selected, ClearsAll, ByMsg, ByApp
<1> QED
  BY <1>1, <1>2, <1>3, <1>4, <1>5, <1>6, <1>7, <1>8, <1>9, <1>10, <1>11, <1>12,
     <1>13, <1>14, <1>15, <1>16, <1>17, <1>18, <1>19, <1>20
     DEF Next, CallerContinues, Dispatcher, Stopped

(***************************************************************************)
(* IInv holds in every reachable state.                                    *)
(***************************************************************************)
THEOREM Inductive == Spec => []IInv
<1>1. Init => IInv
  BY InitIInv
<1>2. IInv /\ [Next]_vars => IInv'
  BY NextIInv
<1> QED
  BY <1>1, <1>2, PTL DEF Spec

(***************************************************************************)
(* Every variable keeps its type, and the iterator of a scan is in the     *)
(* queue or at its end whatever a scan has erased.                         *)
(***************************************************************************)
THEOREM TypeCorrect == Spec => []TypeOK
<1>1. IInv => TypeOK
  BY DEF IInv
<1> QED
  BY <1>1, Inductive, PTL

(***************************************************************************)
(* Every request object has one owner: the queue, the dispatcher that      *)
(* executes it, or nobody any more.                                        *)
(***************************************************************************)
THEOREM OneOwner == Spec => []OwnedOnce
<1>1. IInv => OwnedOnce
  BY DEF IInv
<1> QED
  BY <1>1, Inductive, PTL

(***************************************************************************)
(* addRequest loses no wake-up, although it notifies after it has released *)
(* the mutex.                                                              *)
(***************************************************************************)
THEOREM AddIsNoticed == Spec => []NoLostAdd
<1>1. IInv => NoLostAdd
  BY DEF IInv
<1> QED
  BY <1>1, Inductive, PTL

(***************************************************************************)
(* removeRequest and clearQueue leave nothing they select behind their     *)
(* iterator.                                                               *)
(***************************************************************************)
THEOREM RemovesAllSelected == Spec => []ScanComplete
<1>1. IInv => ScanComplete
  BY DEF IInv
<1> QED
  BY <1>1, Inductive, PTL

-------------------------------------------------------------------------------
(***************************************************************************)
(* Every step of the queue is a step of RequestLifecycle or leaves what it *)
(* shows unchanged.                                                        *)
(***************************************************************************)
LEMMA NextSimulates ==
  IInv /\ [Next]_vars => [Lifecycle!Next]_(Lifecycle!lvars)
<1> SUFFICES ASSUME IInv, [Next]_vars
             PROVE  Lifecycle!Next \/ UNCHANGED Lifecycle!lvars
  OBVIOUS
<1> USE DEF Lifecycle!lvars, dispatcherVars, scanVars
<1>1. CASE Start
  <2>1. Lifecycle!Open
    BY <1>1 DEF Start, Lifecycle!Open
  <2> QED
    BY <2>1 DEF Lifecycle!Next
<1>2. ASSUME NEW r \in Request, AddRequest(r)
      PROVE  Lifecycle!Next
  <2>1. Lifecycle!Accept(r)
    BY <1>2 DEF AddRequest, Lifecycle!Accept
  <2> QED
    BY <2>1 DEF Lifecycle!Next
<1>3. CASE StopSetsQuit
  <2>1. Lifecycle!Close
    BY <1>3 DEF StopSetsQuit, Lifecycle!Close
  <2> QED
    BY <2>1 DEF Lifecycle!Next
<1>4. CASE EraseSelected
  <2>1. it \in 1..Len(mRequestQueue)
    BY <1>4, LenProperties DEF IInv, TypeOK, EraseSelected
  <2>2. Lifecycle!Cancel(it)
    BY <1>4 DEF EraseSelected, RemoveAt, Lifecycle!Cancel, Lifecycle!RemoveAt
  <2> QED
    BY <2>1, <2>2 DEF Lifecycle!Next
<1>5. CASE TakeFront
  <2>1. op = NoRequest
    BY <1>5 DEF TakeFront, IInv, OwnedOnce
  <2>2. Lifecycle!Begin
    BY <1>5, <2>1 DEF TakeFront, QueueAfterTake, Lifecycle!Begin
  <2> QED
    BY <2>2 DEF Lifecycle!Next
<1>6. CASE Executed
  <2>1. op # NoRequest
    BY <1>6 DEF Executed, IInv, OwnedOnce
  <2>2. Lifecycle!Finish
    BY <1>6, <2>1 DEF Executed, Lifecycle!Finish
  <2> QED
    BY <2>2 DEF Lifecycle!Next
<1>7. CASE \/ AddNotify \/ KeepUnselected \/ RemoveReturns \/ StopNotifies
           \/ StopJoins
  BY <1>7 DEF AddNotify, KeepUnselected, RemoveReturns, StopNotifies, StopJoins
<1>8. CASE \/ LockToWait \/ TestPredicate \/ Block \/ SpuriousWake
           \/ RelockAndWait \/ RelockAndExit \/ QuitAfterWait
  BY <1>8 DEF LockToWait, TestPredicate, Block, SpuriousWake,
              RelockAndWait, RelockAndExit, QuitAfterWait
<1>9. ASSUME NEW app \in AppId, NEW msg \in MsgId, RemoveRequest(app, msg)
      PROVE  UNCHANGED Lifecycle!lvars
  BY <1>9 DEF RemoveRequest
<1>10. CASE UNCHANGED vars
  BY <1>10 DEF vars
<1> QED
  BY <1>1, <1>2, <1>3, <1>4, <1>5, <1>6, <1>7, <1>8, <1>9, <1>10
     DEF Next, CallerContinues, Dispatcher, Stopped

(***************************************************************************)
(* The queue implements the safety part of RequestLifecycle: first in,     *)
(* first out, executed or cancelled and never both.                        *)
(***************************************************************************)
THEOREM QueueImplementsLifecycle == Spec => ImplementsLifecycleSafely
<1>1. Init => Lifecycle!Init
  BY DEF Init, Lifecycle!Init
<1>2. IInv /\ [Next]_vars => [Lifecycle!Next]_(Lifecycle!lvars)
  BY NextSimulates
<1> QED
  BY <1>1, <1>2, Inductive, PTL DEF Spec, ImplementsLifecycleSafely, Lifecycle!Safety
===============================================================================
