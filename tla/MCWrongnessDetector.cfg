SPECIFICATION FairSpec
CONSTANTS
  NumMonitors = 3
  NumAlerts = 2
  FailAtNetworkException <- MCFailAtNetworkException
  Throwing <- MCThrowing
PROPERTIES
  ImplementsPolicy
  NoMonitorStarves
