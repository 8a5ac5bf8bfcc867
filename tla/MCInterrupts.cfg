CONSTANTS
  BootMask <- TimersOpen
  Devices <- Machine
  Glitches = TRUE
  EarlyKeys = FALSE
SPECIFICATION FairSpec
INVARIANTS TypeOK VectorNamesIrq NoNesting MasksKept EoiEndsOwn ServiceEnds KeyHasRequest KeyReadIsReal
PROPERTIES ServesInOrder ServesOn
