SPECIFICATION FairSpec
CONSTANTS
  Client = Client
  Server = Server
  Configs <- MCConfigs
  Mtus = {2, 8}
  Hard = 8
  MAX_DEFRAGMENT_PACKETS = 50
  flight_retries = 2
  max_queue_tx = 10
  max_queue_rx = 30
  MaxRecords = 8
  MaxData = 1
  MaxFaults <- MCMaxFaults
  Closing = TRUE
  EarlyCopies = FALSE
  Punctual = FALSE
INVARIANTS OnlyTimeouts SameKeyingMaterial
PROPERTIES ImplementsSession  QueuedDataArrives FlightOver
CHECK_DEADLOCK FALSE
