SPECIFICATION Spec
CONSTANTS
  Main = main
  Sleeper = sleeper
  Loop = loop
  KeyTasks = {}
  RemoteTasks = {ws}
  WsTasks = {ws}
  WebTimers = {}
  Stacks = {s1, s2}
  NULL = null
  EcoModes = {"Disabled", "Enabled", "Ultra"}
  AutoAnswer = TRUE
  RestartAfter = 1
  MaxRequests = 0
  MaxIpEvents = 1
INVARIANTS SetNetExclusive
PROPERTIES DanglesBySecondStore AbortsExplained
CHECK_DEADLOCK FALSE
SYMMETRY StackSymmetry
