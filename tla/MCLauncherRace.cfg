CONSTANTS
  Launchers = {l1, l2}
  MinBackoff = 1
  MaxBackoff = 2
SPECIFICATION LauncherSpec
INVARIANT OneHolder
CHECK_DEADLOCK FALSE
