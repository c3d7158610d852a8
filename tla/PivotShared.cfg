SPECIFICATION Spec
CONSTANTS
  c1 = c1
  c2 = c2
  c3 = c3
  plain = plain
  merged = merged
  Children = {c1, c2, c3}
  Dirs = {plain, merged}
  Rootfs <- SharedAndOwn
INVARIANTS
  TypeOK
  HostUnreachable
  HostMountsKept
  OwnRootUndisturbed
  NoLitter
