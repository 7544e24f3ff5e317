SPECIFICATION FairSpec
CONSTANTS
  r1 = r1
  r2 = r2
  r3 = r3
  app1 = app1
  msg1 = msg1
  msg2 = msg2
  NoId = NoId
  NoRequest = NoRequest
  Request <- MCRequest
  AppId <- MCAppId
  MsgId <- MCMsgId
  AppOf <- MCAppOf
  MsgOf <- MCMsgOf
INVARIANTS
  TypeOK
  OwnedOnce
  NoLostAdd
  ScanComplete
  IInv
PROPERTIES
  ImplementsLifecycle
  StopReturnsIfAwake
