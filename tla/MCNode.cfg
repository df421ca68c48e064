\* Each part in full; the compiler and the runner of the rules are those of
\* NodeRules.
SPECIFICATION NodeSpec
CHECK_DEADLOCK FALSE
CONSTANTS
  WORD = 16
  BYTE = 8
  NODE_CONTROL_MAX_MOSFET_PULSE_MS = 10
  NODE_CONTROL_MAX_MOSFET_FADE_MS = 10
  NODE_CONTROL_MAX_MOSFET_EFFECT_MS = 12
  NODE_CONTROL_MAX_LED_STEP_MS = 5
  NODE_CONTROL_MAX_LED_DURATION_MS = 10
  NODE_CONTROL_MAX_LED_EFFECT_MS = 12
  Outputs <- MCOutputs
  MosfetDefaults <- MCMosfetDefaults
  LedDefaults <- MCLedDefaults
  LedEffects <- MCLedEffects
  Samples <- MCSamples
  None = None
  NODE_CONTROL_QUEUE_LEN = 3
  NODE_MQTT_COMMAND_QUEUE_LEN = 1
  NODE_MQTT_ADMIN_QUEUE_LEN = 1
  NODE_MQTT_RESULT_QUEUE_LEN = 1
  NODE_MQTT_DUP_CACHE_SIZE = 4
  NODE_ADMIN_QUEUE_LEN = 2
  Messages <- MCMessages
  LocalWork <- MCLocalWork
  MAX_SENDS = 2
  MAX_LOCAL = 1
  MAX_TIMEOUTS = 1
  MAX_DROPS = 1
  Nothing = Nothing
  Compile <- compile_bundle
  Run <- RunRules
  NODE_RULE_MAX_RULES = 4
  NODE_RULE_MAX_ACTIONS_TOTAL = 14
  NODE_RULE_MAX_ACTIONS_PER_RULE = 3
  NODE_RULE_MAX_ACTION_NESTING = 4
  NODE_RULE_MAX_STATE_KEYS = 2
  NODE_RULE_MAX_TIMERS = 1
  NODE_RULE_MAX_PHASES = 2
  NODE_RULE_MAX_EXPORT_COMMANDS = 1
  NODE_DRIVER_INSTANCE_MAX = 1
  NODE_DRIVER_NFC_KNOWN_CARD_MAX = 1
  NODE_UNIVERSAL_IO_MAX = 2
  NODE_RULE_ENGINE_QUEUE_LEN = 1
  CLOCK = 6
  POLL_GAP = 1
  Channels <- MCChannels
  OutputChannels <- MCNames
  Bundles <- MCBundles
  LocalEvents <- MCLocalEvents
  FailSets <- MCFailSets
INVARIANTS
  SlotsSafe
  OncePerRequest
  AnswersAreOwn
  EffectsBounded
  FlatMeansTree
  EdgeIsSustained
  HoldFiresOnce
  PausedIsReset
