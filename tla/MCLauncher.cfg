CONSTANTS
  Launchers = {l1, l2}
  MinBackoff = 1
  MaxBackoff = 1
SPECIFICATION MCLauncherSpec
INVARIANT StartedApartHeldApart
PROPERTY StopEndsServer
PROPERTY EveryStartSettles
