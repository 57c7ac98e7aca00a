CONSTANTS
  Clients = {2}
  Servers = {0, 1}
  Nobody = Nobody
  MaxCalls = 3
SPECIFICATION Spec
CHECK_DEADLOCK FALSE
INVARIANT TypeOK
PROPERTIES CallsRunOnce EveryCallReturns
