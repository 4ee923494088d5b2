SPECIFICATION FairSpec
CONSTANTS
  Servers <- MCServers
  MaxPlain = 1
  Payloads = {2}
  MaxSaid = 2
  Bufsizes = {1}
  Window = 3
  Timeouts = TRUE
  None = None
INVARIANTS OnlyFaultsHurt RecordsAreSound OrderlyEndIsComplete
PROPERTIES EofIsFinal CallsReturn
CHECK_DEADLOCK FALSE
