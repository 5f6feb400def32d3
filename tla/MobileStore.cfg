SPECIFICATION FairSpec
CONSTANTS
  MaxClients = 2
  MaxAttempts = 1
  MaxCalls = 1
  MaxOff = 1
  MaxJams = 1
  MaxGen = 3
  AutoReconnect = {TRUE, FALSE}
INVARIANTS TypeOK FlagsHaveCause
PROPERTY LossIsNoticed
CHECK_DEADLOCK FALSE
