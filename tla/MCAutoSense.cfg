SPECIFICATION FairSpec
CONSTANTS
  Client = Client
  Server = Server
  Configs <- MCConfigs
  Mtus = {2, 5, 8}
  Hard = 8
  MaxFaults <- MCMaxFaults
  Suites12 <- MCSuites12
  Suites13 <- MCSuites13
  Groups <- MCGroups
  Sending = {5}
  Unordered = FALSE
  MAX_DEFRAGMENT_PACKETS = 50
  MAX_RETAINED_CLIENT_HELLO = 64
  flight_retries = 2
  max_queue_tx = 10
  max_queue_rx = 30
  MaxRecords12 = 8
  MaxRecords13 = 16
INVARIANTS BestVersionAgreed OnlyTimeouts
PROPERTIES  QueuedDataArrives
CHECK_DEADLOCK FALSE
