CONSTANTS
  Client = Client
  Server = Server
  Width = 4
  MaxRecvEpochs = 4
  SeqWindow = 65536
  MAX_SEQUENCE_NUMBER = 100
  aead_encryption_limit = 3
  mtu = 1
  MaxRecords = 2
  max_queue_tx = 8
  max_queue_rx = 8
  flight_retries = 1
  MaxData = 2
  MaxLosses = 0
  MaxDups = 0
  MaxReorders = 2
  Lossy = {"ApplicationData", "Ack", "Alert", "Handshake"}
  Prompt = {Client, Server}
  Patient = TRUE
  ConnectExpires = FALSE
  Closing = FALSE
  MaxEpoch = 6
  MaxMishaps = 9
SPECIFICATION FairSpec
INVARIANTS  NoKeyUpdateLeftBehind
PROPERTIES  KeyUpdateCompletes 
CHECK_DEADLOCK FALSE
