\* Three alerts in a fixed order, the last of them a prompt; one run is lost.
SPECIFICATION FairSpec
CONSTANTS
  Members = {1, 2}
  StableOrder = TRUE
  Viewers = {2}
  NAlerts = 3
  EditorOnly = {2, 3}
  Prompts = {3}
  Loaded = {1}
  Buckets = {0, 1}
  Cooldown = 2
  MaxFaults = 1
INVARIANT TypeOK
PROPERTY NotAskedTwice NobodySkipped EveryoneHears
