SPECIFICATION FairSpec
CONSTANTS
  Main = main
  Sleeper = sleeper
  Loop = loop
  KeyTasks = {key}
  RemoteTasks = {}
  WsTasks = {}
  WebTimers = {}
  Stacks = {s1}
  NULL = null
  EcoModes = {"Disabled", "Enabled", "Ultra"}
  AutoAnswer = FALSE
  RestartAfter = 1
  MaxRequests = 2
  MaxIpEvents = 1
PROPERTIES BootCompletes LinkComesBack RequestServed CallCompletes
CHECK_DEADLOCK FALSE
