SPECIFICATION Spec
CONSTANTS
  Main = main
  Sleeper = sleeper
  Loop = loop
  KeyTasks = {key}
  RemoteTasks = {}
  WsTasks = {}
  WebTimers = {}
  Stacks = {s1}
  NULL = null
  EcoModes = {"Enabled"}
  AutoAnswer = FALSE
  RestartAfter = 1
  MaxRequests = 2
  MaxIpEvents = 1
INVARIANTS StopSucceeds
CHECK_DEADLOCK FALSE
