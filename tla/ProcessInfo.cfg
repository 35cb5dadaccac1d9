SPECIFICATION Spec
CONSTANTS
  Pids = {1, 2, 3}
  Containers = {c1}
  MaxTasks = 4
  MaxEvents = 2
  MaxWritten = 2
INVARIANTS
  ProcessIdIsTheLeaders
  ContainerIsTheTasks
  CommandLineIsTheExecs
  HangsOnlyOnReuse
CHECK_DEADLOCK FALSE
