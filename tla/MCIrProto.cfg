SPECIFICATION Spec
CONSTANTS
  A = A
  B = B
  Sources <- MCSources
  Units <- MCUnits
INVARIANTS ReadingDiesExactlyOnMalformed ModuleIsUnit RoundTripKeepsDataFlow ResultsNamedInOrder
CHECK_DEADLOCK FALSE
