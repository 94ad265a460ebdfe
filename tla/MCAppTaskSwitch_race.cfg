SPECIFICATION Spec
CONSTANTS
  Task <- MCTask
  NoTask = NoTask
  TaskList <- MCTaskList
  BootTask <- MCBootTask
  FinalTask <- MCFinalTask
  LingerTask <- MCLingerTask
  CommitWindow = TRUE
INVARIANT RequestKept
CHECK_DEADLOCK FALSE
