CONSTANTS
  Width = 3
  Heights <- MCAllHeights
SPECIFICATION Spec
INVARIANT LoopWithinRange
