SPECIFICATION Spec
CONSTANTS
  UINT32_MAX = 20
  UINT16_MAX = 10
  MAX_STEPS = 3
  MAX_BRANCHES = 2
  MAX_REACTIVE_VARIANTS = 2
  MAX_REACTIVE_ACTIONS = 3
  MAX_REACTIVE_GROUP_COMMANDS = 3
  GROUP_MAX_COMMANDS = 2
  GROUP_MAX_EVENTS = 2
  WAIT_MAX_FLAGS = 1
  COMMAND_CACHE_SIZE = 2
  MAX_SAVES = 1
  None = None
  Decimal <- MCDecimal
  EventParts <- MCEventParts
  Documents <- MCDocuments
  DeviceSets <- MCDeviceSets
  IoModes <- MCIoModes
INVARIANTS
  SavedIsValid
CHECK_DEADLOCK FALSE
