SPECIFICATION FairSpec
CONSTANTS
  Hosts = {"a", "b"}
  Devices = {"d1", "d2"}
  Home <- MCHome
  Clients <- MCClients
  MaxRequests = 2
  MaxCopies = 1
  MaxHops = 4
CHECK_DEADLOCK FALSE
INVARIANT TypeOK
 
INVARIANT EchoesBetweenTwo
PROPERTY FallsSilent
