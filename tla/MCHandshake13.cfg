SPECIFICATION FairSpec
CONSTANTS
  Client = Client
  Server = Server
  Configs <- MCConfigs
  Mtus = {2, 8}
  Hard = 8
  MAX_RETAINED_CLIENT_HELLO = 64
  MAX_DEFRAGMENT_PACKETS = 50
  flight_retries = 2
  max_queue_tx = 10
  max_queue_rx = 30
  MaxRecords = 16
  MaxData = 1
  MaxFaults <- MCMaxFaults
  Closing = TRUE
INVARIANTS OnlyTimeouts SameKeyingMaterial AckedIsHeld
PROPERTIES ImplementsSession  QueuedDataArrives
CHECK_DEADLOCK FALSE
