SPECIFICATION Spec
CONSTANTS
  NumDevices = 2
  InterfaceIsAddress = FALSE
  Traffic <- MCTraffic
  MaxDatagrams = 2
  MaxInterrupts = 1
INVARIANT ServesUntilStopped
