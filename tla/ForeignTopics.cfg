SPECIFICATION Spec
CONSTANTS
  a = a
  b = b
  Clients = {a, b}
  MaxStarts = 1
  MaxServerStarts = 1
  pool_size = 3
  ServerEncrypts = FALSE
  EncryptedClients = {}
  Modes = {"CONNECTION"}
  Faults = {}
  None = None
  Server = Server
INVARIANT OwnTopics
CHECK_DEADLOCK FALSE
