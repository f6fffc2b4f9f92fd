CONSTANTS
  MaxFetches = 3
  MaxEdits = 1
SPECIFICATION Spec
INVARIANT OverlayReflectsEdit
CHECK_DEADLOCK FALSE
