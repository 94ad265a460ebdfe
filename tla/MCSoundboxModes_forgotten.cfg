SPECIFICATION Spec
CONSTANTS
  NoTask = NoTask
  MaxDev = 1
  MaxIr = 0
  BootKeys = {FALSE}
  Stimuli = {"modekey", "powerkey"}
INVARIANT PoweroffKept
CHECK_DEADLOCK FALSE
