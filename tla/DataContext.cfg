\* Values of three tuple types, whole or spoilt, and plain values beside them.
SPECIFICATION Spec
CONSTANTS
  Inputs <- MCInputs
  Decls <- MCDecls
  Types <- MCTypes
  Nesting = 5
CHECK_DEADLOCK FALSE
INVARIANT NumbersInPlace
INVARIANT NothingLost
INVARIANT AcceptedIffRegular
INVARIANT LengthsMatchDims
INVARIANT OnlyCleanNumbers
