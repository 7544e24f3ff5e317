---------------------------- MODULE PulseAudioEngine ----------------------------
(***************************************************************************)
(* The audio engine of each display (src/engines/audio/pulse): play()      *)
(* opens the display's PCM file and a playback stream, copies the file to  *)
(* the stream chunk by chunk, looks at the stop flag between the read and  *)
(* the write of a chunk, and flushes or drains the stream at the end.      *)
(* stop() only sets the flag.  play() reports success whatever happened.   *)
(***************************************************************************)
EXTENDS Naturals

CONSTANTS
  Display,    \* the displays, each with its engine
  MaxChunks,  \* bound on the chunks of a file
  Faults,     \* what may go wrong: "open", "stream", "read", "write",
              \* "drain", "flush"
  MaxLeaks    \* bound on the failures after which a stream is left behind

VARIABLES
  ppc,          \* where the play() of the display is
  mIsStopPlay,  \* the stop flag: mIsStopPlaytts1, mIsStopPlaytts2
  left,         \* the chunks of the file that are not read yet
  fds,          \* the file descriptors play() has open
  streams,      \* the playback streams made and not freed
  failures,     \* how many writes, flushes and drains have failed
  late          \* the chunks this play() has written with the stop flag set

pulseVars == <<ppc, mIsStopPlay, left, fds, streams, failures, late>>

Init ==
  /\ ppc = [d \in Display |-> "idle"]
  /\ mIsStopPlay = [d \in Display |-> FALSE]
  /\ left = [d \in Display |-> 0]
  /\ fds = [d \in Display |-> 0]
  /\ streams = [d \in Display |-> 0]
  /\ failures = [d \in Display |-> 0]
  /\ late = [d \in Display |-> 0]

-------------------------------------------------------------------------------
StopAtEntry(d) == [mIsStopPlay EXCEPT ![d] = FALSE]

Play(d) ==
  /\ ppc[d] = "idle"
  /\ ppc' = [ppc EXCEPT ![d] = "open"]
  /\ mIsStopPlay' = StopAtEntry(d)
  /\ late' = [late EXCEPT ![d] = 0]
  /\ UNCHANGED <<left, fds, streams, failures>>

\* A file may be empty.
OpenFile(d) ==
  /\ ppc[d] = "open"
  /\ ppc' = [ppc EXCEPT ![d] = "stream"]
  /\ fds' = [fds EXCEPT ![d] = @ + 1]
  /\ \E n \in 0..MaxChunks : left' = [left EXCEPT ![d] = n]
  /\ UNCHANGED <<mIsStopPlay, streams, failures, late>>

OpenFails(d) ==
  /\ ppc[d] = "open"
  /\ ppc' = [ppc EXCEPT ![d] = "idle"]
  /\ UNCHANGED <<mIsStopPlay, left, fds, streams, failures, late>>

NewStream(d) ==
  /\ ppc[d] = "stream"
  /\ ppc' = [ppc EXCEPT ![d] = "read"]
  /\ streams' = [streams EXCEPT ![d] = @ + 1]
  /\ UNCHANGED <<mIsStopPlay, left, fds, failures, late>>

NewStreamFails(d) ==
  /\ ppc[d] = "stream"
  /\ ppc' = [ppc EXCEPT ![d] = "idle"]
  /\ fds' = [fds EXCEPT ![d] = @ - 1]
  /\ UNCHANGED <<mIsStopPlay, left, streams, failures, late>>

ReadChunk(d) ==
  /\ ppc[d] = "read"
  /\ left[d] > 0
  /\ left' = [left EXCEPT ![d] = @ - 1]
  /\ ppc' = [ppc EXCEPT ![d] = "test"]
  /\ UNCHANGED <<mIsStopPlay, fds, streams, failures, late>>

EndOfFile(d) ==
  /\ ppc[d] = "read"
  /\ left[d] = 0
  /\ ppc' = [ppc EXCEPT ![d] = "end"]
  /\ UNCHANGED <<mIsStopPlay, left, fds, streams, failures, late>>

(***************************************************************************)
(* The size -1 does not end the loop and is passed on as a size_t: what    *)
(* the write makes of it is undefined, and here it succeeds or fails like  *)
(* any other.                                                              *)
(***************************************************************************)
ReadFails(d) ==
  /\ ppc[d] = "read"
  /\ ppc' = [ppc EXCEPT ![d] = "test"]
  /\ UNCHANGED <<mIsStopPlay, left, fds, streams, failures, late>>

MutantPlaysOn(d) == "write"
AfterTest(d) == IF mIsStopPlay[d] THEN "end" ELSE "write"

TestStop(d) ==
  /\ ppc[d] = "test"
  /\ ppc' = [ppc EXCEPT ![d] = AfterTest(d)]
  /\ UNCHANGED <<mIsStopPlay, left, fds, streams, failures, late>>

WriteChunk(d) ==
  /\ ppc[d] = "write"
  /\ ppc' = [ppc EXCEPT ![d] = "read"]
  /\ late' = [late EXCEPT ![d] = IF mIsStopPlay[d] THEN @ + 1 ELSE @]
  /\ UNCHANGED <<mIsStopPlay, left, fds, streams, failures>>

MutantEndsTwice == "end"
AfterWriteError == "idle"

\* The file is closed; the stream stays as it is, and so does its handle.
WriteFails(d) ==
  /\ ppc[d] = "write"
  /\ ppc' = [ppc EXCEPT ![d] = AfterWriteError]
  /\ fds' = [fds EXCEPT ![d] = @ - 1]
  /\ failures' = [failures EXCEPT ![d] = @ + 1]
  /\ left' = [left EXCEPT ![d] = 0]
  /\ UNCHANGED <<mIsStopPlay, streams, late>>

\* Behind the loop: a stop flag set by now is consumed and the stream flushed.
EndPlay(d) ==
  /\ ppc[d] = "end"
  /\ fds' = [fds EXCEPT ![d] = @ - 1]
  /\ ppc' = [ppc EXCEPT ![d] = IF mIsStopPlay[d] THEN "flush" ELSE "drain"]
  /\ mIsStopPlay' = [mIsStopPlay EXCEPT ![d] = FALSE]
  /\ left' = [left EXCEPT ![d] = 0]
  /\ UNCHANGED <<streams, failures, late>>

MutantFreesNothing(d) == streams
StreamsAfterFree(d) == [streams EXCEPT ![d] = @ - 1]

\* The flush or the drain has succeeded, and the stream is freed.
FreeStream(d) ==
  /\ ppc[d] \in {"flush", "drain"}
  /\ ppc' = [ppc EXCEPT ![d] = "idle"]
  /\ streams' = StreamsAfterFree(d)
  /\ UNCHANGED <<mIsStopPlay, left, fds, failures, late>>

EndFails(d) ==
  /\ ppc[d] \in {"flush", "drain"}
  /\ ppc' = [ppc EXCEPT ![d] = "idle"]
  /\ failures' = [failures EXCEPT ![d] = @ + 1]
  /\ UNCHANGED <<mIsStopPlay, left, fds, streams, late>>

Stop(d) ==
  /\ mIsStopPlay' = [mIsStopPlay EXCEPT ![d] = TRUE]
  /\ UNCHANGED <<ppc, left, fds, streams, failures, late>>

-------------------------------------------------------------------------------
PlayStep(d) ==
  \/ OpenFile(d)
  \/ NewStream(d)
  \/ ReadChunk(d)
  \/ EndOfFile(d)
  \/ TestStop(d)
  \/ WriteChunk(d)
  \/ EndPlay(d)
  \/ FreeStream(d)

PlayFault(d) ==
  \/ "open" \in Faults /\ OpenFails(d)
  \/ "stream" \in Faults /\ NewStreamFails(d)
  \/ "read" \in Faults /\ ReadFails(d)
  \/ "write" \in Faults /\ failures[d] < MaxLeaks /\ WriteFails(d)
  \/ ppc[d] \in Faults /\ failures[d] < MaxLeaks /\ EndFails(d)

Next == \E d \in Display : Play(d) \/ PlayStep(d) \/ PlayFault(d) \/ Stop(d)

Spec == Init /\ [][Next]_pulseVars

-------------------------------------------------------------------------------
TypeOK ==
  /\ ppc \in [Display -> {"idle", "open", "stream", "read", "test", "write",
                          "end", "flush", "drain"}]
  /\ mIsStopPlay \in [Display -> BOOLEAN]
  /\ left \in [Display -> 0..MaxChunks]
  /\ fds \in [Display -> Nat]
  /\ streams \in [Display -> Nat]
  /\ failures \in [Display -> Nat]
  /\ late \in [Display -> Nat]

HasFile == {"stream", "read", "test", "write", "end"}
HasStream == {"read", "test", "write", "end", "flush", "drain"}

(***************************************************************************)
(* play() closes the file it opened exactly once on every path: none of    *)
(* the three error paths leaks the descriptor or closes it again.          *)
(***************************************************************************)
FileClosedOnce ==
  \A d \in Display : fds[d] = IF ppc[d] \in HasFile THEN 1 ELSE 0

(***************************************************************************)
(* Every failed write, flush or drain leaves one stream behind for good    *)
(* (only the success path frees it, and the next play() overwrites the     *)
(* handle); nothing else does.                                             *)
(***************************************************************************)
StreamsAccounted ==
  \A d \in Display :
    streams[d] = failures[d] + (IF ppc[d] \in HasStream THEN 1 ELSE 0)

(***************************************************************************)
(* Once stop() has set the flag, play() hands at most one more chunk to    *)
(* the stream: the one that had passed the test.                           *)
(***************************************************************************)
AtMostOneMoreChunk == \A d \in Display : late[d] <= 1
===============================================================================
