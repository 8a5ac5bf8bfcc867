CONSTANTS
  Vectors <- AllVectors
  ErrorCodes <- SomeErrors
SPECIFICATION Spec
INVARIANT AbortsPanic
