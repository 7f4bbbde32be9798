SPECIFICATION Spec
CONSTANTS
  a = a
  b = b
  Clients = {a, b}
  MaxStarts = 2
  MaxServerStarts = 1
  pool_size = 3
  ServerEncrypts = FALSE
  EncryptedClients = {}
  Modes = {"CONNECTION", "GATEWAY"}
  Faults = {"timeout", "crash"}
  None = None
  Server = Server
SYMMETRY ClientSymmetry
INVARIANTS AddressExclusive AddressReserved
INVARIANTS ActiveIsReserved
PROPERTIES ServerOutlivesClients OnlyOwnTermination ServedOnceAcknowledged
CHECK_DEADLOCK FALSE
