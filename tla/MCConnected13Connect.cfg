CONSTANTS
  Client = Client
  Server = Server
  Width = 4
  MaxRecvEpochs = 4
  SeqWindow = 65536
  MAX_SEQUENCE_NUMBER = 100
  aead_encryption_limit = 2
  mtu = 1
  MaxRecords = 2
  max_queue_tx = 3
  max_queue_rx = 3
  flight_retries = 1
  MaxData = 1
  MaxLosses = 0
  MaxDups = 0
  MaxReorders = 0
  Lossy = {"ApplicationData", "Ack", "Alert", "Handshake"}
  Prompt = {Client, Server}
  Patient = TRUE
  ConnectExpires = TRUE
  Closing = FALSE
  MaxEpoch = 6
  MaxMishaps = 9
SPECIFICATION Spec
CONSTRAINT Bounded
INVARIANTS HandshakeTimeoutOver
CHECK_DEADLOCK FALSE
