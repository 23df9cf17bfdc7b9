CONSTANTS
  t1 = t1
  p1 = p1
  Topics = {}
  Prefixes = {}
  TopicsOf <- MCNoTopic
  UseChannels = TRUE
  EventOutcome = TRUE
  RestartWindow = 3
  MaxCalls = 1
  MayLose = FALSE
  Configs <- MCDeliveryOnly
  Switches = {}
  CallTimeout = 2
  StallAfter = 3
  StreakMax = 2
  Cooldown = 2
  Generations = 2
SPECIFICATION TimerSpec
INVARIANTS PollsReadyNode
PROPERTIES OneCallAtATime RestartsSpaced NeverPeerlessForever StallHeals StallNoticed
