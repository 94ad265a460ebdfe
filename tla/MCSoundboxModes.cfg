SPECIFICATION Spec
CONSTANTS
  NoTask = NoTask
  MaxDev = 1
  MaxIr = 1
  BootKeys = {TRUE, FALSE}
  Stimuli = {"modekey", "device", "call", "powerkey", "irkey", "lowpower"}
INVARIANTS TypeOK NoStackOutsideBt ExitFlagMatchesStack
PROPERTY ImplementsSwitch
CHECK_DEADLOCK FALSE
