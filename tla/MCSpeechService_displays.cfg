SPECIFICATION FairSpec
CONSTANTS
  d1 = d1
  d2 = d2
  r1 = r1
  r2 = r2
  r3 = r3
  r4 = r4
  app1 = app1
  msg1 = msg1
  msg2 = msg2
  NoId = NoId
  NoRequest = NoRequest
  Broken = Broken
  Display = {d1, d2}
  Request = {r1, r2, r3}
  AppId <- MCAppId
  MsgId <- MCMsgId
  DisplayOf <- MCDisplayOf
  AppOf <- MCAppOf
  MsgOf <- MCMsgOf
  Clear <- MCClear
  Subscribed <- MCSubscribed
  BadLanguage <- MCBadLanguage
  Rejected = {}
  StopCall <- MCStopAll
  MaxStops = 1
  Loaded = {d1}
  Faults = {}
  MaxChunks = 1
  MaxLeaks = 1
PROPERTIES
  ImplementsContract
INVARIANTS
  ServiceInv
