SPECIFICATION Spec
CONSTANTS
  CommandLines <- SomeCommandLines
  SpecFiles <- SomeSpecs
  Hosts <- SomeHosts
  Half = 128
  Mult <- Shifts
  MaxPort = 3
  Period = 1000
INVARIANTS
  TypeOK
  LimitsAsAsked
  UserNamespaceOfCaller
  PreflightCoversClone
  SeccompAsDecided
  OneCommand
