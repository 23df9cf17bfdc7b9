CONSTANTS
  t1 = t1
  t2 = t2
  p1 = p1
  p2 = p2
  Topics = {t1, t2}
  Prefixes = {p1, p2}
  TopicsOf <- MCTopicsOf
  UseChannels = TRUE
  EventOutcome = TRUE
  RestartWindow = 1
  MaxCalls = 1
  MayLose = TRUE
SPECIFICATION MCSpec
INVARIANTS ReceivesWhenReady JoinedUnlessRestartFailed RoutedUnlessFlipped
