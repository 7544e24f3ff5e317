SPECIFICATION FairSpec
CONSTANTS
  l1 = l1
  l2 = l2
  l3 = l3
  l4 = l4
  s1 = s1
  s2 = s2
  s3 = s3
  NoCall = NoCall
  NoList = NoList
  LanguageCall = {l1, l2, l3, l4}
  StatusCall = {s1, s2, s3}
  BadPayload = {s3}
  DisplayIdOf <- MCDisplayIdOf
  Voices <- MCVoices
  Configs <- MCConfigs
  Faults = {"fetch", "send", "parse"}
  Word = 256
  SpeechEngines = {"google"}
  AudioEngines = {"pulse"}
INVARIANTS
  TypeOK
  ListsAnAnswer
  CompleteConfigServes
  DeletedWithReply
  FailureIsReported
  QueriesInv
PROPERTIES
  ListIsStable
  SentIsReplied
