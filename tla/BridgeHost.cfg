SPECIFICATION Spec
CONSTANTS
  c1 = c1
  c2 = c2
  web = web
  x = x
  Conts = {c1, c2}
  HostPorts = {web}
  Addresses = {x}
  Addr <- CollidingAddr
  Publish <- SomePorts
  NoCont = NoCont
INVARIANTS
  TypeOK
  GatewayUp
  HostRulesOnce
  NoRuleLeft
PROPERTIES
  PortHolderKeeps
  RulesOwn
