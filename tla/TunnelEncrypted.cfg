SPECIFICATION Spec
CONSTANTS
  a = a
  b = b
  Clients = {a, b}
  MaxStarts = 2
  MaxServerStarts = 2
  pool_size = 3
  ServerEncrypts = TRUE
  EncryptedClients = {a, b}
  Modes = {"CONNECTION"}
  Faults = {"timeout", "crash", "stop_server", "kill_server"}
  None = None
  Server = Server
SYMMETRY ClientSymmetry
INVARIANTS TypeOK AddressExclusive AddressReserved UsedAddressKnown
INVARIANTS AttemptsInv ActiveIsReserved DistinctTunnels
PROPERTIES ServerOutlivesClients
PROPERTIES OnlyOwnTermination ServedOnceAcknowledged
CHECK_DEADLOCK FALSE
