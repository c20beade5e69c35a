SPECIFICATION FairSpec
CONSTANTS
  NumDevices = 2
  InterfaceIsAddress = TRUE
  Traffic <- MCTraffic
  MaxDatagrams = 2
  MaxInterrupts = 1
INVARIANT TypeOK
INVARIANT AnsweredInFull
INVARIANT ServesUntilStopped
PROPERTY NoReplyAfterStop
PROPERTY StopEndsThread
PROPERTY EveryDatagramAnswered
