SPECIFICATION Spec
CONSTANTS
  Hosts = {"a", "b"}
  Devices = {"d1", "d2"}
  Home <- MCHome
  Clients <- MCClients
  MaxRequests = 1
  MaxCopies = 0
  MaxHops = 3
CHECK_DEADLOCK FALSE
INVARIANT OnlyClientsAnswered
