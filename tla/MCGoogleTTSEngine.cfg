SPECIFICATION FairSpec
CONSTANTS
  d1 = d1
  r1 = r1
  r2 = r2
  NoSpeech = NoSpeech
  Broken = Broken
  Display <- MCDisplay
  Speech <- MCSpeech
  Faults = {"network", "file"}
INVARIANTS
  CheckedCallIsAnswered
  GoogleInv
PROPERTIES
  WritesOnlyAnswers
  StopEndsWait
