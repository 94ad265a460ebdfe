SPECIFICATION Spec
CONSTANTS
  NoTask = NoTask
  MaxDev = 1
  MaxIr = 0
  BootKeys = {FALSE}
  Stimuli = {"lowpower"}
INVARIANT PoweroffIsArmed
CHECK_DEADLOCK FALSE
