SPECIFICATION DataSpec
CONSTANTS
  a = a
  Clients = {a}
  MaxStarts = 1
  Addresses = {2, 3}
  NoAddress = 0
  None = None
  mqtt_tunnel = mqtt_tunnel
  commands = commands
  TopicLevels <- NamesOfLevels
  CommandTopics <- OneLevel
  SlashedClients = {}
  MaxQueue = 1
  MaxServerStarts = 1
INVARIANT OnlyActiveSessions
CHECK_DEADLOCK FALSE
