SPECIFICATION Spec
CONSTANTS
  p1 = p1
  p2 = p2
  p3 = p3
  app = app
  tool = tool
  other = other
  base = base
  top = top
  own = own
  None = None
  Pulls <- ThreePulls
  Images = {app, tool, other}
  Digests = {base, top, own}
  LayersOf <- SharedBase
  Refusal <- Modes
  Chunks = 2
  Uses = {"turns", "crowd"}
  CrowdImages = {tool}
SYMMETRY PullSymmetry
INVARIANTS
  TypeOK
  PullComplete
  FailureExplained
  OverlapHeals
PROPERTIES
  BlobsImmutable
  ImplementsStore
