SPECIFICATION FairSpec
CONSTANTS
  r1 = r1
  r2 = r2
  Runs = {r1, r2}
  Pids = {1, 2}
  Configs <- HostConfigs
  Crashable = {r1}
  NoRun = NoRun
  NoPid = NoPid
INVARIANTS
  TypeOK
  ConfinedWhileRunning
  UnsetLimitsDefault
  NetworkUpWhileRunning
  TapBeforeExec
  RootfsWhileRunning
  FailedRunNeverExecs
  NothingLeft
  NoCgroupTrail
PROPERTIES
  LimitsStable
  ImplementsLife
  ChildNotStuck
  RunReturns
