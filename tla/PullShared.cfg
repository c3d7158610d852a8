SPECIFICATION Spec
CONSTANTS
  p1 = p1
  p2 = p2
  p3 = p3
  app = app
  tool = tool
  other = other
  base = base
  top = top
  own = own
  None = None
  Pulls <- ThreePulls
  Images = {tool}
  Digests = {base}
  LayersOf <- OneLayer
  Refusal <- Writable
  Chunks = 2
  Uses = {"crowd"}
  CrowdImages = {tool}
INVARIANT CachedBlobVerified
