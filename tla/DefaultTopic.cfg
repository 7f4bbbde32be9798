SPECIFICATION DataSpec
CONSTANTS
  a = a
  Clients = {a}
  MaxStarts = 1
  Addresses = {2, 3}
  NoAddress = 0
  None = None
  mqtt_tunnel = mqtt_tunnel
  commands = commands
  TopicLevels <- NamesOfLevels
  CommandTopics <- DefaultTopic
  SlashedClients = {}
  MaxQueue = 1
  MaxServerStarts = 1
INVARIANT PacketsReachClient
CHECK_DEADLOCK FALSE
