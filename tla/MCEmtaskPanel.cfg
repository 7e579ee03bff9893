SPECIFICATION FairSpec
CONSTANTS
  MaxTasks = 3
  Configs <- MCConfigs
  Static <- MCStaticB
  Stored <- MCStored
  Contested <- MCContested
  NoConfig = NoConfig
  Wildcards = {}
  PanelPort = 9
  PanelAddr = "x"
  BindRetry = TRUE
  MaxWorkers = 3
  MaxRequests = 2
  MaxCrashes = 1
INVARIANTS StoreExact RestartLoads SessionsHaveTask
CHECK_DEADLOCK FALSE
PROPERTY Served
