SPECIFICATION HubSpec
CONSTANTS
  UINT32_MAX = 20
  UINT16_MAX = 10
  MAX_STEPS = 3
  MAX_BRANCHES = 2
  MAX_REACTIVE_VARIANTS = 2
  MAX_REACTIVE_ACTIONS = 3
  MAX_REACTIVE_GROUP_COMMANDS = 3
  GROUP_MAX_COMMANDS = 2
  GROUP_MAX_EVENTS = 2
  WAIT_MAX_FLAGS = 1
  COMMAND_CACHE_SIZE = 2
  MAX_SAVES = 1
  None = None
  Nil = Nil
  MQTT_MAX_CLIENTS = 2
  MQTT_MAX_SUBS = 1
  MQTT_RETAIN_MAX = 1
  MQTT_QOS1_MAX_INFLIGHT = 1
  MQTT_QOS1_MAX_PENDING_BYTES = 2
  MQTT_QOS1_MAX_SEND_ATTEMPTS = 1
  QUEST_DEVICE_MAX_DEVICES = 1
  PID_MAX = 2
  MAX_PUBLISHES = 1
  Conns <- MCConns
  ConnectOf <- MCConnectOf
  Static <- MCStatic
  Topics <- MCTopics
  Filters <- MCFilters
  Publishes <- MCPublishes
  Subscribes <- MCSubscribes
  Devices <- MCDevices
  ClientTasks <- MCTasks
  Callers <- MCCallers
  MAX_DEVICES = 1
  CACHE_MAX = 1
  QUEUE_LEN = 1
  MAX_CALLS = 2
  MAX_MESSAGES = 2
  Answers <- MCAnswers
  Reports <- MCReports
  t1 = t1
  t2 = t2
  c1 = c1
  c2 = c2
  Decimal <- MCDecimal
  EventParts <- MCEventParts
  Documents <- MCDocuments
  DeviceSets <- MCDeviceSets
  IoModes <- MCIoModes
INVARIANTS
  SavedReloads
  ValidatedResolves
  OneSessionPerClient
  PacketHeldWhileSent
  BudgetExact
  
  ResultsAreOwn
SYMMETRY Perms
CHECK_DEADLOCK FALSE
