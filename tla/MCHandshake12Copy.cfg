SPECIFICATION FairSpec
CONSTANTS
  Client = Client
  Server = Server
  Configs <- MCConfigs
  Mtus = {2}
  Hard = 2
  MAX_DEFRAGMENT_PACKETS = 50
  flight_retries = 2
  max_queue_tx = 10
  max_queue_rx = 30
  MaxRecords = 8
  MaxData = 0
  MaxFaults <- MCMaxFaults
  Closing = FALSE
  EarlyCopies = TRUE
  Punctual = FALSE
INVARIANT NoAssertionFails
CHECK_DEADLOCK FALSE
