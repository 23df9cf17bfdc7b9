CONSTANTS
  t1 = t1
  p1 = p1
  Topics = {t1}
  Prefixes = {p1}
  TopicsOf <- MCOneTopic
  UseChannels = FALSE
  EventOutcome = TRUE
  RestartWindow = 2
  MaxCalls = 1
  MayLose = TRUE
  Configs <- MCConfigs
  Switches = {TRUE, FALSE}
  CallTimeout = 1
  StallAfter = 1
  StreakMax = 1
  Cooldown = 1
  Generations = 1
SPECIFICATION Spec
INVARIANTS CoreInv ConnectedIsEarned ConnectingIsBusy AppTopicsJoined
