SPECIFICATION FairSpec
CONSTANTS
  NumDevices = 2
  NumProfiles = 2
  MaxTries = 2
  MaxInterrupts = 3
INVARIANT IInv
INVARIANT TypeOK
INVARIANT StopReleasesEverything
INVARIANT ChildrenTracked
INVARIANT NoCloseUnderServe
INVARIANT ServedAfterMedia
PROPERTY OrderlyShutdown
PROPERTY SupervisorSpec
PROPERTY DeathEndsRun
PROPERTY InterruptEndsRun
PROPERTY ForeignPortEndsRun
