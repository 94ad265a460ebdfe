SPECIFICATION FairSpec
CONSTANTS
  NoTask = NoTask
  MaxDev = 2
  MaxIr = 0
  BootKeys = {FALSE}
  Stimuli = {"modekey", "boot", "call", "noplay"}
PROPERTIES BtLeaves StartUpEnds KeysReturn StartUndisturbed
CHECK_DEADLOCK FALSE
