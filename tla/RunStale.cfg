SPECIFICATION Spec
CONSTANTS
  r1 = r1
  r2 = r2
  Runs = {r1, r2}
  Pids = {1}
  Configs <- CgConfigs
  Crashable = {}
  NoRun = NoRun
  NoPid = NoPid
INVARIANT UnsetLimitsAlwaysDefault
