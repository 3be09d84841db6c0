SPECIFICATION Spec
CONSTANTS
  Keys <- MCKeys
  Families <- MCFamilies
INVARIANTS CompleteIsClampedSum IncompleteIsSumOrUnknown LabelsTellTheChange ServerAcceptsPositions
CHECK_DEADLOCK FALSE
