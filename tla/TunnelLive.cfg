SPECIFICATION FairSpec
CONSTANTS
  a = a
  b = b
  d = d
  Clients = {a, b, d}
  MaxStarts = 1
  MaxServerStarts = 2
  pool_size = 3
  ServerEncrypts = TRUE
  EncryptedClients = {a, b}
  Modes = {"CONNECTION"}
  Faults = {"timeout"}
  None = None
  Server = Server
INVARIANT NoMixedTunnel
PROPERTIES ServerOutlivesClients ImplementsSessionService
PROPERTIES HandshakeSettles TerminationTakesEffect
CHECK_DEADLOCK FALSE
