SPECIFICATION FairSpec
CONSTANTS
  Profiles <- MCProfiles
  Duration <- MCDuration
  Length <- MCLength
  TicksPerMs = 2
  Handlers = {h1}
  MaxClock = 4
INVARIANT TypeOK
INVARIANT HealthyMediaServed
INVARIANT SnapshotFollowsStream
PROPERTY RequestEnds
