SPECIFICATION FairSpec
CONSTANTS
  a = a
  Clients = {a}
  MaxStarts = 1
  MaxServerStarts = 1
  pool_size = 3
  ServerEncrypts = TRUE
  EncryptedClients = {}
  Modes = {"CONNECTION"}
  Faults = {}
  None = None
  Server = Server
PROPERTY HandshakeCompletes
CHECK_DEADLOCK FALSE
