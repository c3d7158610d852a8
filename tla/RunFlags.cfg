SPECIFICATION Spec
CONSTANTS
  CommandLines <- DebugLines
  SpecFiles <- DebugSpecs
  Hosts <- SomeHosts
  Half = 128
  Mult <- Shifts
  MaxPort = 3
  Period = 1000
INVARIANT ExplicitFlagsWin
