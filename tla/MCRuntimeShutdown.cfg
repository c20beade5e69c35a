SPECIFICATION Spec
CONSTANTS
  NumDevices = 1
  NumProfiles = 1
  MaxTries = 1
  MaxInterrupts = 2
PROPERTY ShutdownContinues
