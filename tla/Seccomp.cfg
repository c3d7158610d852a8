SPECIFICATION Spec
CONSTANTS
  x86_64 = x86_64
  aarch64 = aarch64
  i386 = i386
  NativeArch = x86_64
  Archs <- AllArchs
  Nrs <- AllNrs
  AllowList <- AllowListAmd64
  ExecveNr <- ExecveAmd64
INVARIANT ExecveSurvives
PROPERTY ImplementsPolicy
