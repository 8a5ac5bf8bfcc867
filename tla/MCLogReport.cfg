CONSTANTS
  MaxText = 3
SPECIFICATION Spec
INVARIANT MainRouted
