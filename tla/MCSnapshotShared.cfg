SPECIFICATION Spec
CONSTANTS
  Profiles <- MCProfiles
  Duration <- MCDuration
  Length <- MCLength
  TicksPerMs = 2
  Handlers = {h1}
  MaxClock = 4
INVARIANT EverySnapshotFollowsStream
