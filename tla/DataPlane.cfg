SPECIFICATION DataSpec
CONSTANTS
  a = a
  b = b
  Clients = {a, b}
  MaxStarts = 2
  Addresses = {2, 3}
  NoAddress = 0
  None = None
  mqtt_tunnel = mqtt_tunnel
  commands = commands
  TopicLevels <- NamesOfLevels
  CommandTopics <- OneLevel
  SlashedClients = {b}
  MaxQueue = 1
  MaxServerStarts = 2
INVARIANTS DataInv DeliveredToAddressee PacketsAccepted
CHECK_DEADLOCK FALSE
