SPECIFICATION Spec
CONSTANTS
  a = a
  Clients = {a}
  MaxStarts = 1
  MaxServerStarts = 1
  pool_size = 3
  ServerEncrypts = TRUE
  EncryptedClients = {a}
  Modes = {"CONNECTION"}
  Faults = {"timeout"}
  None = None
  Server = Server
INVARIANT ActiveHasServerACK
CHECK_DEADLOCK FALSE
