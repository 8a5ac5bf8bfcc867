CONSTANTS
  Vectors <- AllVectors
  ErrorCodes <- SomeErrors
SPECIFICATION Spec
INVARIANTS TypeOK FrameComplete CallKeepsAbi Resumed IrqDispatched
