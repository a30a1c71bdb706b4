CONSTANTS
  Client = Client
  Server = Server
  Width = 4
  MaxRecvEpochs = 4
  SeqWindow = 65536
  MAX_SEQUENCE_NUMBER = 100
  aead_encryption_limit = 2
  mtu = 3
  MaxRecords = 2
  max_queue_tx = 3
  max_queue_rx = 3
  flight_retries = 1
  MaxData = 1
  MaxLosses = 1
  MaxDups = 1
  MaxReorders = 2
  Lossy = {"ApplicationData", "Ack", "Alert", "Handshake"}
  Prompt = {Client, Server}
  Patient = FALSE
  ConnectExpires = FALSE
  Closing = TRUE
  MaxEpoch = 5
  MaxMishaps = 2
SPECIFICATION Spec
CONSTRAINT Bounded
INVARIANTS DeliveredOnce KeysInStep KeysRetiredWhenFollowed
PROPERTIES SilentAfterClose
CHECK_DEADLOCK FALSE
