SPECIFICATION Spec
CONSTANTS
  r1 = r1
  r2 = r2
  Runs = {r1}
  Pids = {1}
  Configs <- CgConfigs
  Crashable = {r1}
  NoRun = NoRun
  NoPid = NoPid
INVARIANT PipeClosedOnlyWhenConfined
