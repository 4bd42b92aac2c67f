CONSTANTS
  Width = 3
  Heights <- MCBelowMax
SPECIFICATION Spec
INVARIANT RangeContract
