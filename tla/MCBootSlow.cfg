SPECIFICATION Spec
CONSTANTS
  TagLists = {1}
  PortKinds <- SlowOnly
  HostSends = FALSE
  WordSize = 64
  StubSize = 9
INVARIANT OnlyBadRejected
