SPECIFICATION Spec
CONSTANTS
  Main = main
  Sleeper = sleeper
  Loop = loop
  KeyTasks = {key}
  RemoteTasks = {ws}
  WsTasks = {ws}
  WebTimers = {page}
  Stacks = {s1}
  NULL = null
  EcoModes = {"Disabled", "Enabled"}
  AutoAnswer = TRUE
  RestartAfter = 1
  MaxRequests = 2
  MaxIpEvents = 0
INVARIANTS TypeOK BootGate OnlyStopAborts CountedOnce
PROPERTIES ImplementsTerminal
CHECK_DEADLOCK FALSE
