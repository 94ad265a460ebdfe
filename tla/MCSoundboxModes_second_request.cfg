SPECIFICATION FairSpec
CONSTANTS
  NoTask = NoTask
  MaxDev = 1
  MaxIr = 0
  BootKeys = {FALSE}
  Stimuli = {"modekey", "linein"}
PROPERTY BtLeaves
CHECK_DEADLOCK FALSE
