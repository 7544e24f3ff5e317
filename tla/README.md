# A TLA+ verification of com.webos.service.tts

The service speaks text for other programs. Clients call it over the Luna bus;
it queues their requests per display, has the text synthesized by a speech
server, and plays the result. The code is small, and its difficulty is the
threads: per display one thread speaks, one stops, and the main loop reads and
marks the state of both.

All paths below are under `src/src/`.

## The system

| Component | State | Operations |
|---|---|---|
| `TTSLunaService` (`luna/`) | `mParameterList`, subscriptions | Luna methods `speak`, `stop`, `getStatus`, `getAvailableLanguages`; callbacks of two other services; `responseCallback` |
| `RequestHandler` (`core/`) | four `RequestQueue`s: speak and control, per display | `sendRequest`, `start`, `stop` |
| `RequestQueue` (`core/`) | `mRequestQueue`, `mQuit`, mutex, condition variable, dispatcher thread | `start`, `stop`, `addRequest`, `removeRequest`, `clearQueue`, `dispatchHandler` |
| `EngineHandler` (`core/`) | `mSpeakRequestInfoMap`, `meTTSTaskStatus`, the engines | `handleRequest` (SPEAK, STOP), the four accessors of the map, `loadEngine`, `getLanguages`, `getStatusInfo` |
| `GoogleTTSEngine` (`engines/tts/google/`) | stop flags, languages cache, the PCM file | `speak`, `stop`, `getSupportedLanguages` |
| `PulseAudioEngine` (`engines/audio/pulse/`) | stop flags, playback streams | `play`, `stop` |
| `StatusHandler` | observers | `Notify` |
| start-up and end (`TTSManager`, `tts_main`, `TTSConfig`, factories) | the main loop | read the configuration, make the engines, run the main loop, `term_handler`, stop the queues |

How they interact:

    client --Luna--> TTSLunaService --call--> RequestHandler --push--> speak queue d --thread--> EngineHandler (SPEAK)
                                                    |                                               |  speak()  -> speech server, PCM file
                                                    |                                               |  play()   -> audio server
                                                    +--push--> control queue d --thread--> EngineHandler (STOP)
                                                    |                                        sets the flags of both engines
                                                    +--read, mark--> mSpeakRequestInfoMap <-- both threads

The main loop thread runs every Luna method, one at a time. Each display has a
speak dispatcher and a control dispatcher. The main thread and the dispatchers
share a queue under its mutex, the entry of the display in
`mSpeakRequestInfoMap` under `mRunningInfoMutex`, and the engines' stop flags
(atomics).

What is hard here, and which property each hazard has, is listed line by line
under "hazards" in `PROJECT.json`. In short: a wake-up that gets lost, a
request that is in neither the queue nor the map, a stop that hits another
request than the one it was meant for, a stop flag that is cleared before
anyone looks at it, the status of a request when it ends while being stopped,
and answers of other services that come in any order or not at all.

## Modules

| Module | Models | Used by |
|---|---|---|
| `RequestLifecycle` | abstract: what a queue promises a request | `RequestQueue` |
| `RequestQueue` | `RequestQueue.cpp`, mutex and condition variable | `RequestQueueProofs` |
| `GoogleTTSEngine` | `speak`, `stop` of the speech engine of each display | `EngineHandler` |
| `PulseAudioEngine` | `play`, `stop` of the audio engine of each display | `EngineHandler` |
| `EngineHandler` | `handleRequest` on both threads of each display, with the engines | `SpeechService` |
| `SpeechContract` | abstract: what the service promises about speech | `SpeechService` |
| `QueueOps` | what the scan of a removal leaves of a queue | `SpeechService` |
| `SpeechService` | Luna `speak` and `stop`, `RequestHandler`, the queues, `EngineHandler` | `Shutdown` |
| `GetStatus` | Luna `getStatus`, its callbacks and its reference-counted request | `Queries` |
| `LoadEngine` | `loadEngine` with `TTSConfig` and the factories: which engines a configuration makes | `Queries` |
| `Queries` | `getAvailableLanguages`, the languages cache and `getStatus` on the main loop they share | |
| `Shutdown` | `main`, SIGTERM, `RequestHandler::stop` and the joins | extends `SpeechService` |
| `SequenceFacts` | lemmas about iterations, about `Without` and about counting in a sequence | `ServiceProofs`, `QueriesProofs` |
| `RequestQueueProofs`, `GoogleProofs`, `EngineHandlerProofs`, `EngineProofs`, `ServiceProofs`, `QueriesProofs`, `ShutdownProofs` | proofs; `EngineProofs` extends `EngineHandlerProofs`, `ShutdownProofs` extends `ServiceProofs`, which instantiates `EngineProofs` | |
| `MC*` | instances for TLC | |

### RequestQueue

One step is what a thread does between two points where the other can notice
it. `mMutex` says who holds the mutex, `dpc` where the dispatcher is
(`lock` - `test` - `block` - `asleep` - `woken`, or `ready` - `run` -
`relock`), `cpc` where the caller is. `addRequest` is two steps, because it
notifies after the unlock. `removeRequest` and `clearQueue` hold the mutex, so
the dispatcher can only wait for it; they are still modelled one iteration per
step (`EraseSelected`, `KeepUnselected`) because the loop erases under its
iterator. `clearQueue` is `removeRequest` with both ids empty: the loop is the
same one with everything selected. `mQuit` is written without the mutex, in a
step of its own. The model gives it atomic reads and writes; it is a
`volatile bool`.

Mutant operators (`Mutant...`) stand beside the operators they change. They
are plausible bugs; no specification uses them, and each property is violated
under one of them.

### GoogleTTSEngine and PulseAudioEngine

`EngineHandler` owns one engine of each kind per display and calls engine `d`
for display `d` only, so the model has one flag per engine instead of two. The
gRPC call is `rpc`; a call that has not ended leaves its `Status` object at OK.
`pcm` says whose audio the display's PCM file holds; `Broken` is a file that
holds nobody's: absent, empty, cut short, or left by an earlier process, which
is what a display starts with. The audio engine counts open descriptors,
streams and the chunks written after a stop. A `read()` that fails (`ReadFails`)
neither ends the loop nor is reported: its size of -1 goes on to the write,
which the model lets succeed or fail.

The server (`Server`) and the audio library are external: they are modelled
from how the code uses them. The constant `Faults` says which of their calls,
and which file operations, may fail.

### EngineHandler

`hpc[d]` follows `handleRequest(SPEAK)`: `enter` - `speak` - `synthesis` -
`audio` - `settle` - `notify` - `remove`; `kpc[d]` follows
`handleRequest(STOP)`: `mark` - `stop_tts` - `stop_audio`. A step ends where
another thread can come in: after every access to the map and to a flag, so the
four steps of a stop may be spread over two requests. While `hpc[d]` is
`synthesis` or `audio` the engine takes the steps. `MarkByClear` is the main
thread's `updateSpeakRequestInfo`.

`Notify` calls `responseCallback` (`Response`), which answers a client whose
language is not in the table with that error and nothing else, whatever the
status of its request: `notified` then has `"LANG_ERR"` in it, and no end.

History variables, which no guard reads: `handled`, `notified`, `marked`,
`flagged`, `silenced`. `flagged` has the pair `<<a, r>>` if a stop that found
`a` set the flag of an engine at work on `r`; the two differ when `a` ended and
`r` began between the steps of the stop. `CutIsReported` says that only then may
a request be cut short that was not marked first.

### SpeechService

The Luna methods run on one thread, in steps between the accesses to shared
state (`mpc`). A queue is what `RequestQueue` is from outside: an append, a
take, and removals that are one step because they hold the mutex. The
dispatcher's take and its call of `handleRequest` are one step; the entry is
published in a later one, as in the code. `replied` is what the main thread
sends, `cancelled` what was taken out of a queue, `clearing` and `cutByClear`
remember whose clear queued a stop, and `found` which request a clear or a stop
has seen in the map. `OneEnd` counts what a client is told by both threads
(`EndsTold`): a cancellation by the main one, any other end by the speak thread.
Replies without the name of a status (`"no_status"`, to clients that did not
subscribe) and `"LANG_ERR"` tell no end.

The answer to `speak` is sent after the hand-off, from a parameter block that
the dispatcher deletes with the request. If the request is over by then, what
the reply says is undefined, and the model sends `"accepted"` or `"garbled"`.

`SpeechContract` is implemented with `waiting <- speakQueue`, `now <- running`
and the fate of a request computed from both.

### GetStatus, LoadEngine and Queries

`getStatus` and its callbacks all run on the main loop, so each is one step. The
count is taken before each query is sent and not given back if it cannot be:
such a call is never answered (see the hazards).

`loadEngine` runs once, before any other thread, so it is an operator on the
configuration. Its counter is unsigned and `displayCount` is an `int`, so a
negative count makes a very large number of rounds; the model keeps the width
as the constant `Word` (2^w). The loop ends at the first name without a factory,
after the speech engine of that display and before its audio engine. A loop
that goes past the two slots of the arrays has no further behaviour in the
model (`alive` is false).

`Queries` puts the two methods that ask on the one main loop. A list that is not
cached is fetched by a blocking call (`StartFetch`, `FetchAnswered`,
`FetchFailed`); while it waits, the loop takes neither calls nor the answers of
the other services. Both methods call a method of the speech engine of their
display without asking whether there is one (`UsesMissingEngine`).
`isValidDisplayId` stores the id in an `unsigned int`, with the width `Word`.

### Shutdown

`phase` follows `main`: `init` - `loop` - `quit` - `join` - ... - `delete` -
`ended`. `term_handler` only calls `g_main_loop_quit`; the call that is being
served (`ServeCall`, or a fetch of languages, phase `fetch`) is finished first.
The destructor then stops the four queues in the order of `StopOrder`, each with
a join. A dispatcher that is told to quit finishes its request and leaves
(`DispatcherEnds`), whatever still waits in its queue. How it can sleep through
the notify is in `RequestQueue`; here `StopQueue` may have it do so (`missed`)
whenever it has nothing to do, and it then stays asleep: a spurious wake-up that
would rescue it is not taken.

## Runs

| Run | States | Shows |
|---|---|---|
| `queue` | 24,744 | implements `RequestLifecycle` with its liveness; one owner per request, no added request slept through, complete removals; `stop()` returns unless the dispatcher was about to sleep; the inductive invariant |
| `queue_stop` | violated | `stop()` can wait for ever |
| `queue_msgid` | violated | a stop by message id cancels anonymous requests too |
| `google` | 302 | only answered calls change the PCM file; a stop ends the wait; the inductive invariant |
| `handler_safety` | 384,041 | the entry, the reported status and the played audio are those of the running request; a stop flag cuts no later one, and what it cuts is reported stopped unless the stop was for another request; descriptors closed once, streams accounted for, one chunk after a stop at most; the two inductive invariants |
| `handler_silenced` | violated | a stop before `speak()` or `play()` is entered is wiped out there |
| `service_safety` | 4,093,789 | a request ends once, and its end is told once to a client that subscribed in a known language and never to another; of what is older, a clear leaves nothing waiting, and nothing it found playing |
| `service_displays` | 487,778 | two displays implement `SpeechContract`, liveness included; the inductive invariant, which has those of `EngineHandler` in it |
| `service_clear` | violated | the stop of a clear can hit the request that sent it |
| `service_stop` | violated | a stop can miss a request between the queue and the map |
| `queries` | 232,577 | lists are those of an answer of the voice server and stay the same; a complete configuration reaches no null engine; a status exactly if both callbacks filled it in, one reply per call, with the deletion of the request, and a reply to every call that was sent if the voice server ends every fetch; the inductive invariant |
| `shutdown` | 52,044 | what runs is finished and reported before the engines go; SIGTERM ends the process unless a dispatcher misses its notify; a queued stop still ends the synthesis a join waits for; the inductive invariant |

### Bounds

- Queue: three requests, two of one application, of which one has a message id,
  and one anonymous. Three are needed for a removal to skip a neighbour and go
  on; the ids make every combination of matches and misses of the two tests.
- `google`: one engine, two texts, so that a file may hold another text's audio.
- `EngineHandler`: two requests, both subscribed (one that is not is in
  `service_safety`), one in an unknown language; one display with engines and one
  without. A display runs one request at a time, so a stop can span two
  requests, and no step depends on a third. Files have up to `MaxChunks = 3`
  chunks (empty, one, and more than the one a stop lets through);
  `MaxLeaks = 2` failures leave a stream behind.
- `SpeechService`: r1 (subscribed, of an application), r2 (not subscribed, same
  application, clear), r3 (subscribed, anonymous, unknown language), r4
  (refused): a client that is told its end, and the two kinds that are not;
  `MaxStops = 1` stop, of everything (`service_displays`) or by application or
  message (`service_safety`). A clear needs one
  that runs, one that waits and itself: `service_safety` has all on one display.
  `service_displays` has r3 on a second display, which has no engines. Faults of
  the engines stay with `handler_safety`.
- `Queries`: two calls of `getAvailableLanguages` on the first display, so that
  one may hit what the other has cached, one on the second, one with a negative
  displayId; three of `getStatus`, one refused. Six configurations, each with
  another way to lack engines. The voice server answers no code, a code twice,
  or other codes. `Word = 256` stands for 2^32: only the sign of the numbers
  matters, and that the count passes 2.
- `Shutdown`: two displays with engines, two requests on the first, a stop of
  the first of them, and one fetch of languages (`MaxFetches = 1`): when the
  signal comes one may run, one wait, and a stop be anywhere on its way.

No symmetry is used: the requests differ in their parameters.

### Fairness

- `RequestQueue`: weak fairness of the caller's started calls (the main loop
  goes on) and strong fairness of the dispatcher: the caller may take the mutex
  again and again, which disables its lock, but `std::mutex` is not held for
  ever and `execute()` is taken to return. No fairness for callers' calls or
  spurious wake-ups.
- `GoogleTTSEngine`: weak fairness of the thread, none of the server: the code
  sets no deadline on the call, so it may never be answered.
- `SpeechService`: weak fairness of the threads and of the server. Without an
  answer, and without a stop, the code waits for ever; the contract's liveness
  is conditional on a server that answers or breaks the connection.
- `Queries`: weak fairness of the services of the bus, which deliver one answer
  to every call they have accepted. None of callers, nor of the voice server: a
  fetch has no deadline, and one that never returns leaves every client of the
  main loop without an answer. `SentIsReplied` has it as a premise that fetches
  end (`WF_vars(VoiceServer)`); nothing in the code ends them.
- `Shutdown`: weak fairness of the main thread and the dispatchers. None of the
  signal, of clients or of the voice server; that the server answers is a
  premise of `SigtermEndsProcess`, and `QueuedStopEndsJoin` does without.

## What the code does otherwise than it says

Five runs end in a violation; each states what a log line or a comment of the
code claims, quoted in `PROJECT.json`.

1. `StopEndsDispatcher`: `RequestQueue::stop` sets `mQuit` without the mutex.
   The dispatcher evaluates the predicate, the caller sets `mQuit` and
   notifies, the dispatcher sleeps; the join never returns.
2. `MsgIdNamesOneRequest`: on the way to the message it names, `removeRequest`
   compares the empty application id too.
3. `SilencedDoesNotPlay`: `play()` and `speak()` clear their stop flag on entry,
   which forgets a stop that came just before. Before `speak()`, with a server
   that does not answer, the stopped request also waits for ever.
4. `ClearSparesItself`: the stop of a clear names no request.
5. `NotFoundMeansNoneLive`: a request is removed from the queue before it is
   published in the map.

## Proofs

TLAPS proves, for every set of displays, requests and ids, every choice of
loaded engines and every fault:

`RequestQueueProofs`. `IInv` is inductive: types, who holds the mutex
(`MutexHeld`), when the thread exists (`ThreadStarted`), one owner, no lost
add, complete scan. None of the last three is inductive alone: `OwnedOnce`
needs the mutex to exclude a take during a scan, `NoLostAdd` needs it to
exclude an add between the predicate and the sleep, and `ScanComplete` needs
that the queue behind the iterator does not change. From it follow
`TypeCorrect`, `OneOwner`, `AddIsNoticed` and `RemovesAllSelected`, and the
step simulation `NextSimulates` gives `QueueImplementsLifecycle`: every step of
the queue is a step of `RequestLifecycle` or changes nothing it sees. The only
assumption is `QueueAssumption`. Lemmas about `RemoveAt` come first.

`EngineHandlerProofs`. `HandlerInv` is inductive. Its goals are
`InfoNamesRunning` and `StopReportedIffMarked`. The second says what a client
was told of a mark made three steps earlier, so the invariant carries, for each
place of the speak thread, the status of its request and the agreement of the
entry and the marks (`StatusSoFar`); that no two displays run one request, as
the marks and statuses are per request (`RunsOnOneDisplay`); that nothing is
known of a request before it is handled (`HandledBefore`); and that a stop
under way has found a request, and has marked it if it still runs
(`StopHasAim`); that a client is told once at most, and an unknown language only
of that (`ToldOnce`). Every action falls under one of a few lemmas: the engines' steps leave the invariant's variables alone, so it
holds whatever the engines do. The assumption is `HandlerAssumption`.

`EngineProofs`. `EnginesInv` is inductive under `HandlerInv`. Its goals are
`PlaysOwnAudio`, `FlagsOfTheRunning`, `CutIsReported`, `FileClosedOnce`,
`StreamsAccounted` and `AtMostOneMoreChunk`. What they need is `SpeechSoFar` (an engine is in `speak()`
only while its thread is, and with the text of the request that runs; a tag
brings the status of the call with it), `CheckedCallIsAnswered` (a loop that was
left without the tag was left on a stop flag, which is still set) and
`PlayerSoFar` (a chunk about to be written is the first after a stop; one that
was written after a stop has left the flag set for the next test). There are
three step lemmas, for the speech engines, the player and the flags
(`NextSpeechInv`, `NextPlayerInv`, `NextFlags`), each with one lemma for all the
actions outside its part. `CutsReported` rests on `StopHasAim`: the control
thread marks the entry before it sets a flag. The same invariant gives `OnlyAnswersWritten`, an
action property.

`GoogleProofs`. `GoogleInv` is inductive for the engine alone, whoever calls
`speak()` and `stop()`: besides the types and `CheckedCallIsAnswered` it says
that a tag brings the status of the call with it. `WritesOnlyAnswers`, an
action property, follows. The assumption is that of `GoogleTTSEngine`.

`SequenceFacts`. Induction over data is out of the provers' reach, and so is
what a recursive definition computes, unless the definition is a recursive
function and the induction is over a set: `SetInduction` proves that a set with 0
and, below `n`, the successor of each member holds all of `0..n`, and
`IteratesExist` builds the iterates of a step function. From them
`WithoutSteps` says what the scan of a removal leaves after each element, and
the lemmas behind it that nothing but the removed elements is lost, that the
order is kept and that what was unique stays so. `QueriesProofs` does the same
for `WithCodes`.

`ServiceProofs`. `ServiceInv` is inductive. Its goals are `OneEnd` and
`ClearSparesOnlyUnseen`. They need what is known of a call in each place of the main
loop: that a request it has in its hands is nowhere else (`NotHandedOver`),
that one in a queue is there once, on its own display, and neither cancelled
nor handled (`WaitsOnce`), that the queue a clear has emptied is still empty
when its request is appended (`StillCleared`), that what a clear or a stop has
found was published by then, and is marked before a clear goes on to the queue
(`FoundIsPublished`, `ClearStopsFound`), and that a subscribed client was
told when its request is past the notify (`ToldByThen`). The last needs
`StatusSoFar`, an invariant of the handler. It is not proved again: the module
instantiates `EngineProofs`, `SameNext` shows that the handler of the service
and that of the proofs take the same steps, and `HandlerSteps` that every step
of the service is one of them or leaves the handler alone; so `HandlerInv` and
`EnginesInv` carry over (`HandlerKept`). `OneEndTold` holds for every overlap of
the subscribed, the refused and the unknown languages: `EndsNotified` counts what
`responseCallback` tells of an end in each case.
`KeepsContract` is the step simulation for the safety part of `SpeechContract`,
with one lemma for each of its actions. The only assumption is
`ServiceAssumption`.

`QueriesProofs`. `QueriesInv` is inductive. For `getStatus` it ties the
reference count to the queries whose answer is to come or that could not be
sent (`Counted`), and what will be replied to the answers that did not parse
(`SaidSoFar`); for the lists, that a fetch is made only for an empty cache
(`FetchesOnce`), that a cache holds the codes of one answer, each once and in
order (`CachesAnAnswer`), and that a list that was given is empty or what the
cache holds since (`ListsTheCache`). `CompleteConfig` computes the rounds of
`loadEngine` for two displays, `DisplayOfAccepted` what is left of an `int`
after its conversion; both for every width (`WordAssumption`). It assumes
`QueriesAssumption` of the calls and the answers.

`ShutdownProofs`. `ProcessServes` shows that every step of the process is one
of the service or leaves it alone, so `ServiceInv` carries over and
`RunsTheService` makes every theorem about the service one about the process.
`ProcessInv` adds where the joins are (`JoinedSoFar`), that a dispatcher that
has ended stays at its loop (`EndedIsIdle`; for it, that an ended dispatcher's
queue has `mQuit` set) and that an accepted request is in a queue, cancelled or
handled (`AcceptedIsSomewhere`). `OrderlyEnd` follows: when all queues were
joined nothing runs, so what was handled is over, and its client was told.
That each queue is new to `quit` when its turn comes is a fact about
`StopOrder` (`QueueOrder`). The assumption is `ShutdownAssumption`, which says
that the queues are stopped in some order of the displays, with each once.

Every inductive invariant is also checked by TLC: `IInv` in `queue`,
`GoogleInv` in `google`, `HandlerInv` and `EnginesInv` in `handler_safety`,
`ServiceInv` in `service_displays`, `QueriesInv` in `queries` and `ProcessInv`
in `shutdown`. Every safety invariant and action property that a passing run
checks is now a theorem.

Only model-checked are the liveness properties, which are out of TLAPS's reach
here: `ImplementsLifecycle` and `ImplementsContract` with their fairness,
`StopReturnsIfAwake`, `StopEndsWait`, `SentIsReplied`, `SigtermEndsProcess` and
`QueuedStopEndsJoin`.

## Not modelled

- `mSpeakRequestInfoMap` is one `std::map` under two mutexes, one per display;
  the model has two independent entries, so the race of the two displays'
  insertions is outside it.
- What a torn read shows: `getStatusInfo` reads `meTTSTaskStatus` and the string
  `mCurrentLanguage` on the main thread while the speak thread writes them. The
  content of a status is not modelled.
- That the process may end where memory is misused: by the read of a deleted
  parameter block (`SpeakReplies` garbles the reply instead) and by the write
  after a `read()` that failed (`ReadFails`).
- The `LANG_NOT_SUPPORTED` branch of `handleRequest`: no engine returns it.
- The subscription table: `LSSubscriptionReply` is called with the status text
  as its key, under which nothing was stored; the direct reply is modelled.
- Allocation failures, and an `init` that throws half way.
- A signal before the main loop runs does nothing in the model, as in the code;
  a second one after the loop was freed is left out.
- The destructor of `RequestQueue`, which repeats `stop()` on a stopped queue.
- JSON, logging, the tables of error texts, and the random message ids, which
  are model values.

## Plan

Done: the queue, the engines, the handler, the service with `speak` and `stop`,
the two methods that ask, start-up configuration and shutdown, and a theorem for
every safety property the runs check. What is left is proofs:

1. `SpeechService` takes a queue to be what it is from outside. That
   `RequestQueue` implements this view, removals included, step by step: its
   scan against `Without`, which `SequenceFacts` already describes.
2. How far two of the violations reach: that a stop which answers "not found"
   misses only a request its dispatcher has taken and not yet published, and
   that a stop flag is wiped out only at the entries of `speak()` and `play()`.
