SPECIFICATION Spec
CONSTANTS
  TagLists = {0, 1, 2}
  PortKinds <- Kinds
  HostSends = TRUE
  WordSize = 64
  StubSize = 9
INVARIANTS TypeOK Heard TerminalSegments GatesLead
PROPERTY Boots
