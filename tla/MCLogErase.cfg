CONSTANTS
  MaxText = 3
SPECIFICATION Spec
INVARIANT HandlerRouted
