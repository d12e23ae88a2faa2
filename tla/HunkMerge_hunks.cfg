SPECIFICATION Spec
CONSTANTS
  Starts <- AllStarts
  DisplayContext = 1
  MaxMerges = 2
INVARIANTS ConflictsAreApart
PROPERTIES OnlyTheSelectionIsReplaced EachMergeIsCloser
CHECK_DEADLOCK FALSE
