CONSTANTS
  Instances = {i1, i2}
  Events = {e1, e2}
  MaxFaults = 2
SPECIFICATION FairSpec
INVARIANTS LegacyConverted QuietAfterShutdown
PROPERTIES LateMigrationHarmless ShutdownEnds
