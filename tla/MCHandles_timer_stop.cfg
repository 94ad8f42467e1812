CONSTANTS
  h1 = h1
  Handles = {h1}
  Kinds = {"timer"}
  MaxReqs = 1
  MaxDefers = 1
  MaxDepth = 1
SPECIFICATION Spec
INVARIANT InactiveIsUnlocked
CHECK_DEADLOCK FALSE
