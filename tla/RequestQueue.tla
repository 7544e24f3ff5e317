----------------------------- MODULE RequestQueue -----------------------------
(***************************************************************************)
(* One RequestQueue (src/core/RequestQueue.cpp) at the grain of its mutex  *)
(* and condition variable.  Two threads use it:                            *)
(*   - the caller, the service's main loop thread, which starts the queue, *)
(*     adds and removes requests and finally stops it;                     *)
(*   - the dispatcher, the thread start() creates, which waits for a       *)
(*     request, takes the front one and executes it with the mutex free.   *)
(* One step is what a thread does between two points where the other one   *)
(* can notice it.  removeRequest and clearQueue hold the mutex for a whole *)
(* scan; stop() writes mQuit without holding it.                           *)
(***************************************************************************)
EXTENDS Naturals, Sequences, SequencesExt

CONSTANTS
  Request,    \* the requests the callers may hand over
  NoRequest,  \* no request
  AppId,      \* application ids, the empty one included
  MsgId,      \* message ids, the empty one included
  NoId,       \* the empty string as an id
  AppOf,      \* the sAppID of each request's parameters
  MsgOf       \* the sMsgID of each request's parameters

ASSUME QueueAssumption ==
  /\ NoRequest \notin Request
  /\ NoId \in AppId
  /\ NoId \in MsgId
  /\ AppOf \in [Request -> AppId]
  /\ MsgOf \in [Request -> MsgId]

VARIABLES
  mRequestQueue,  \* the waiting requests, front first
  mQuit,          \* no dispatcher is wanted
  mMutex,         \* who holds mMutex: "free", "caller" or "dispatcher"
  dpc,            \* where the dispatcher is in dispatchHandler
  op,             \* the request the dispatcher has taken
  cpc,            \* where the caller is
  it,             \* the caller's iterator in removeRequest or clearQueue
  sel,            \* what the caller's removeRequest selects
  hits,           \* the requests that call has erased
  fate            \* what has become of each request

dispatcherVars == <<dpc, op>>
scanVars == <<it, sel, hits>>
vars == <<mRequestQueue, mQuit, mMutex, dpc, op, cpc, it, sel, hits, fate>>

Lifecycle == INSTANCE RequestLifecycle WITH
  pending <- mRequestQueue,
  active  <- op,
  open    <- ~mQuit

Init ==
  /\ mRequestQueue = <<>>
  /\ mQuit = TRUE
  /\ mMutex = "free"
  /\ dpc = "none"
  /\ op = NoRequest
  /\ cpc = "created"
  /\ it = 1
  /\ sel = [app |-> NoId, msg |-> NoId]
  /\ hits = {}
  /\ fate = [r \in Request |-> "new"]

-------------------------------------------------------------------------------
(* The caller *)

Start ==
  /\ cpc = "created"
  /\ mQuit
  /\ mQuit' = FALSE
  /\ dpc' = "lock"
  /\ cpc' = "idle"
  /\ UNCHANGED <<mRequestQueue, mMutex, op, scanVars, fate>>

(***************************************************************************)
(* notify_one and notify_all: a dispatcher asleep in the wait has to take  *)
(* the mutex again; for any other dispatcher the call does nothing.        *)
(***************************************************************************)
Notified == IF dpc = "asleep" THEN "woken" ELSE dpc

\* addRequest pushes under the lock and notifies after the lock is released.
AddRequest(r) ==
  /\ cpc = "idle"
  /\ fate[r] = "new"
  /\ mMutex = "free"
  /\ mRequestQueue' = Append(mRequestQueue, r)
  /\ fate' = [fate EXCEPT ![r] = "queued"]
  /\ cpc' = "notify"
  /\ UNCHANGED <<mQuit, mMutex, dispatcherVars, scanVars>>

MutantForgetsToNotify == dpc
AddWakes == Notified

AddNotify ==
  /\ cpc = "notify"
  /\ dpc' = AddWakes
  /\ cpc' = "idle"
  /\ UNCHANGED <<mRequestQueue, mQuit, mMutex, op, scanVars, fate>>

(***************************************************************************)
(* removeRequest(app, msg); with both ids empty it is clearQueue, whose    *)
(* loop is the same one with every request selected.                       *)
(***************************************************************************)
RemoveRequest(app, msg) ==
  /\ cpc = "idle"
  /\ mMutex = "free"
  /\ mMutex' = "caller"
  /\ sel' = [app |-> app, msg |-> msg]
  /\ it' = 1
  /\ hits' = {}
  /\ cpc' = "scan"
  /\ UNCHANGED <<mRequestQueue, mQuit, dispatcherVars, fate>>

ClearsAll == sel.app = NoId /\ sel.msg = NoId
ByMsg(r) == sel.msg # NoId /\ MsgOf[r] = sel.msg
ByApp(r) == AppOf[r] = sel.app
Selected(r) == ClearsAll \/ ByMsg(r) \/ ByApp(r)

MutantSkipsAfterErase(i) == i + 1
IndexAfterErase(i) == i

(***************************************************************************)
(* The request under the iterator is selected: its client is told that it  *)
(* is cancelled (setRequestStatus), it is erased and deleted.  A match by  *)
(* message id leaves the loop.                                             *)
(***************************************************************************)
EraseSelected ==
  /\ cpc = "scan"
  /\ it <= Len(mRequestQueue)
  /\ Selected(mRequestQueue[it])
  /\ mRequestQueue' = RemoveAt(mRequestQueue, it)
  /\ fate' = [fate EXCEPT ![mRequestQueue[it]] = "cancelled"]
  /\ hits' = hits \cup {mRequestQueue[it]}
  /\ it' = IndexAfterErase(it)
  /\ cpc' = IF ByMsg(mRequestQueue[it]) THEN "leave" ELSE "scan"
  /\ UNCHANGED <<mQuit, mMutex, dispatcherVars, sel>>

KeepUnselected ==
  /\ cpc = "scan"
  /\ it <= Len(mRequestQueue)
  /\ ~Selected(mRequestQueue[it])
  /\ it' = it + 1
  /\ UNCHANGED <<mRequestQueue, mQuit, mMutex, dispatcherVars, cpc, sel, hits, fate>>

RemoveReturns ==
  /\ cpc = "leave" \/ (cpc = "scan" /\ it > Len(mRequestQueue))
  /\ mMutex' = "free"
  /\ cpc' = "idle"
  /\ UNCHANGED <<mRequestQueue, mQuit, dispatcherVars, scanVars, fate>>

\* stop(): mQuit is set without the mutex, then notify_all, then join.
StopSetsQuit ==
  /\ cpc = "idle"
  /\ ~mQuit
  /\ mQuit' = TRUE
  /\ cpc' = "quit"
  /\ UNCHANGED <<mRequestQueue, mMutex, dispatcherVars, scanVars, fate>>

StopNotifies ==
  /\ cpc = "quit"
  /\ dpc' = Notified
  /\ cpc' = "joining"
  /\ UNCHANGED <<mRequestQueue, mQuit, mMutex, op, scanVars, fate>>

StopJoins ==
  /\ cpc = "joining"
  /\ dpc = "exited"
  /\ cpc' = "stopped"
  /\ UNCHANGED <<mRequestQueue, mQuit, mMutex, dispatcherVars, scanVars, fate>>

-------------------------------------------------------------------------------
(* The dispatcher *)

\* At the start of the thread, and when the wait has been woken.
LockToWait ==
  /\ dpc \in {"lock", "woken"}
  /\ mMutex = "free"
  /\ mMutex' = "dispatcher"
  /\ dpc' = "test"
  /\ UNCHANGED <<mRequestQueue, mQuit, op, cpc, scanVars, fate>>

MutantIgnoresQuit == mRequestQueue # <<>>
WaitPredicate == mRequestQueue # <<>> \/ mQuit

TestPredicate ==
  /\ dpc = "test"
  /\ dpc' = IF WaitPredicate THEN "ready" ELSE "block"
  /\ UNCHANGED <<mRequestQueue, mQuit, mMutex, op, cpc, scanVars, fate>>

\* The predicate was false: release the mutex and sleep, in one step.
Block ==
  /\ dpc = "block"
  /\ mMutex' = "free"
  /\ dpc' = "asleep"
  /\ UNCHANGED <<mRequestQueue, mQuit, op, cpc, scanVars, fate>>

\* std::condition_variable may wake a waiter that nobody notified.
SpuriousWake ==
  /\ dpc = "asleep"
  /\ dpc' = "woken"
  /\ UNCHANGED <<mRequestQueue, mQuit, mMutex, op, cpc, scanVars, fate>>

MutantLeavesInQueue == mRequestQueue
QueueAfterTake == Tail(mRequestQueue)

TakeFront ==
  /\ dpc = "ready"
  /\ mRequestQueue # <<>>
  /\ ~mQuit
  /\ op' = Head(mRequestQueue)
  /\ mRequestQueue' = QueueAfterTake
  /\ fate' = [fate EXCEPT ![Head(mRequestQueue)] = "running"]
  /\ mMutex' = "free"
  /\ dpc' = "run"
  /\ UNCHANGED <<mQuit, cpc, scanVars>>

\* op->execute() has returned on the async thread, and op is deleted.
Executed ==
  /\ dpc = "run"
  /\ fate' = [fate EXCEPT ![op] = "executed"]
  /\ op' = NoRequest
  /\ dpc' = "relock"
  /\ UNCHANGED <<mRequestQueue, mQuit, mMutex, cpc, scanVars>>

MutantRelocksNothing == "free"
MutexAfterRelock == "dispatcher"

\* lock.lock() after the execution; while (!mQuit) goes round again.
RelockAndWait ==
  /\ dpc = "relock"
  /\ mMutex = "free"
  /\ ~mQuit
  /\ mMutex' = MutexAfterRelock
  /\ dpc' = "test"
  /\ UNCHANGED <<mRequestQueue, mQuit, op, cpc, scanVars, fate>>

RelockAndExit ==
  /\ dpc = "relock"
  /\ mMutex = "free"
  /\ mQuit
  /\ dpc' = "exited"
  /\ UNCHANGED <<mRequestQueue, mQuit, mMutex, op, cpc, scanVars, fate>>

\* The wait ended because of mQuit: the thread ends and the mutex is released.
QuitAfterWait ==
  /\ dpc = "ready"
  /\ mQuit
  /\ mMutex' = "free"
  /\ dpc' = "exited"
  /\ UNCHANGED <<mRequestQueue, mQuit, op, cpc, scanVars, fate>>

-------------------------------------------------------------------------------
CallerContinues ==
  \/ AddNotify
  \/ EraseSelected
  \/ KeepUnselected
  \/ RemoveReturns
  \/ StopNotifies
  \/ StopJoins

Dispatcher ==
  \/ LockToWait
  \/ TestPredicate
  \/ Block
  \/ TakeFront
  \/ Executed
  \/ RelockAndWait
  \/ RelockAndExit
  \/ QuitAfterWait

\* The queue has been stopped: nothing happens any more.
Stopped == cpc = "stopped" /\ UNCHANGED vars

Next ==
  \/ Start
  \/ \E r \in Request : AddRequest(r)
  \/ \E app \in AppId, msg \in MsgId : RemoveRequest(app, msg)
  \/ StopSetsQuit
  \/ CallerContinues
  \/ Dispatcher
  \/ SpuriousWake
  \/ Stopped

Spec == Init /\ [][Next]_vars

(***************************************************************************)
(* Fairness: the main loop finishes a call it has begun; the dispatcher,   *)
(* whenever it can run again and again, runs (the caller does not starve   *)
(* it of the mutex, and a request's execution returns).  Nothing makes a   *)
(* caller call, nor a spurious wake-up happen.                             *)
(***************************************************************************)
FairSpec == Spec /\ WF_vars(CallerContinues) /\ SF_vars(Dispatcher)

-------------------------------------------------------------------------------
(* What is to be shown *)

TypeOK ==
  /\ mRequestQueue \in Seq(Request)
  /\ mQuit \in BOOLEAN
  /\ mMutex \in {"free", "caller", "dispatcher"}
  /\ dpc \in {"none", "lock", "test", "block", "asleep", "woken", "ready",
              "run", "relock", "exited"}
  /\ op \in Request \cup {NoRequest}
  /\ cpc \in {"created", "idle", "notify", "scan", "leave", "quit", "joining",
              "stopped"}
  /\ it \in Nat
  /\ cpc = "scan" => it \in 1..(Len(mRequestQueue) + 1)
  /\ sel \in [app : AppId, msg : MsgId]
  /\ hits \subseteq Request
  /\ fate \in [Request -> {"new", "queued", "running", "executed", "cancelled"}]

(***************************************************************************)
(* The mutex is held exactly by the thread whose place in the code says    *)
(* so: the caller in a scan, the dispatcher from the lock to the wait or   *)
(* to the unlock before the execution.                                     *)
(***************************************************************************)
MutexHeld ==
  /\ mMutex = "caller" <=> cpc \in {"scan", "leave"}
  /\ mMutex = "dispatcher" <=> dpc \in {"test", "block", "ready"}

(***************************************************************************)
(* A request object has one owner: it is in the queue once, or it is the   *)
(* one the dispatcher executes, or it is gone.  So no object is deleted    *)
(* twice, and none is cancelled by removeRequest while it is executed.     *)
(***************************************************************************)
OwnedOnce ==
  /\ \A i, j \in 1..Len(mRequestQueue) :
       mRequestQueue[i] = mRequestQueue[j] => i = j
  /\ \A r \in Request :
       fate[r] = "queued" <=> \E i \in 1..Len(mRequestQueue) : mRequestQueue[i] = r
  /\ \A r \in Request : fate[r] = "running" <=> op = r
  /\ op # NoRequest <=> dpc = "run"

(***************************************************************************)
(* addRequest loses no wake-up: a dispatcher that sleeps, or is about to,  *)
(* over a queue that is not empty still has the caller's notify to come.   *)
(***************************************************************************)
NoLostAdd ==
  /\ dpc = "block" => mRequestQueue = <<>>
  /\ dpc = "asleep" /\ mRequestQueue # <<>> => cpc = "notify"

(***************************************************************************)
(* The scan of removeRequest leaves nothing selected behind the iterator,  *)
(* so a call that reaches the end of the queue has cancelled every request *)
(* it selects, and what it cancelled it had selected.                      *)
(***************************************************************************)
ScanComplete ==
  cpc = "scan" =>
    /\ \A i \in 1..Len(mRequestQueue) : i < it => ~Selected(mRequestQueue[i])
    /\ \A r \in hits : Selected(r) /\ fate[r] = "cancelled"

\* There is no dispatcher thread before start(), and one from then on.
ThreadStarted == cpc = "created" <=> dpc = "none"

(***************************************************************************)
(* The inductive invariant of RequestQueueProofs: the parts above, who     *)
(* holds the mutex and when the thread exists.                             *)
(***************************************************************************)
IInv == TypeOK /\ MutexHeld /\ ThreadStarted /\ OwnedOnce /\ NoLostAdd /\ ScanComplete

(***************************************************************************)
(* The queue keeps the promise of RequestLifecycle: FIFO order, executed   *)
(* or cancelled and never both, and no request that may be started waits   *)
(* for ever.                                                               *)
(***************************************************************************)
ImplementsLifecycle == Lifecycle!Spec

\* The safety part of it, and its step formula.
ImplementsLifecycleSafely == Lifecycle!Safety

(***************************************************************************)
(* stop() returns once the dispatcher has not slept through the notify:    *)
(* running, executing or waiting for the mutex, it sees mQuit and exits.   *)
(***************************************************************************)
StopReturnsIfAwake ==
  (cpc = "joining" /\ dpc \notin {"block", "asleep"}) ~> cpc = "stopped"

(***************************************************************************)
(* stop() "Stopping  dispatcher thread": the dispatcher thread exits and   *)
(* stop() returns.                                                         *)
(***************************************************************************)
StopEndsDispatcher == cpc = "quit" ~> cpc = "stopped"

(***************************************************************************)
(* "msgID is unique": a removeRequest that names a message, and no         *)
(* application, cancels that message and no other.                         *)
(***************************************************************************)
MsgIdNamesOneRequest ==
  sel.msg # NoId /\ sel.app = NoId => \A r \in hits : MsgOf[r] = sel.msg
===============================================================================
