SPECIFICATION Spec
CONSTANTS
  d1 = d1
  d2 = d2
  r1 = r1
  r2 = r2
  NoRequest = NoRequest
  Broken = Broken
  Display <- MCDisplay
  Request <- MCRequest
  Subscribed <- MCSubscribed
  BadLanguage <- MCBadLanguage
  Loaded <- MCLoaded
  Faults = {"network", "open", "stream", "read", "write", "flush", "drain"}
  MaxChunks = 3
  MaxLeaks = 2
INVARIANTS
  TypeOK
  InfoNamesRunning
  StopReportedIffMarked
  HandlerInv
  PlaysOwnAudio
  FlagsOfTheRunning
  CutIsReported
  FileClosedOnce
  StreamsAccounted
  AtMostOneMoreChunk
  EnginesInv
