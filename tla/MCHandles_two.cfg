\* Two handles: callbacks of one nested in callbacks of the other, accept.
CONSTANTS
  h1 = h1
  h2 = h2
  Handles = {h1, h2}
  Kinds = {"tcp"}
  MaxReqs = 1
  MaxDefers = 0
  MaxDepth = 2
SPECIFICATION Spec
SYMMETRY HandleSymmetry
INVARIANT HandleInv
CHECK_DEADLOCK FALSE
