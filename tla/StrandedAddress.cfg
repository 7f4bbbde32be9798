SPECIFICATION Spec
CONSTANTS
  a = a
  Clients = {a}
  MaxStarts = 2
  MaxServerStarts = 1
  pool_size = 2
  ServerEncrypts = TRUE
  EncryptedClients = {a}
  Modes = {"CONNECTION"}
  Faults = {"crash"}
  None = None
  Server = Server
INVARIANT ActiveHasAddress
CHECK_DEADLOCK FALSE
