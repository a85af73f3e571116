SPECIFICATION MCSpec
CONSTANTS
  j1 = j1
  j2 = j2
  t1 = t1
  c1 = c1
  c2 = c2
PROPERTIES
  SchedulerEnds
  ToolsEnd
  TurnsEnd
  TasksEnd
  PluginsEnd
CHECK_DEADLOCK FALSE
