CONSTANTS
  t1 = t1
  p1 = p1
  Topics = {}
  Prefixes = {}
  TopicsOf <- MCNoTopic
  UseChannels = TRUE
  EventOutcome = TRUE
  RestartWindow = 3
  MaxCalls = 1
  MayLose = TRUE
  Configs <- MCDeliveryOnly
  Switches = {}
  CallTimeout = 1
  StallAfter = 2
  StreakMax = 2
  Cooldown = 2
  Generations = 2
SPECIFICATION FairSpec
PROPERTY RestartNotStuck
