SPECIFICATION Spec
CONSTANTS
  EntryA = EntryA
  Op1 = Op1
  Op2 = Op2
  Op3 = Op3
  Bottom = Bottom
  CheckFailure = CheckFailure
  Tag <- MCTag
  Operation <- MCOperation
  EntryValue <- MCEntryValue
  Modules <- MCModules
INVARIANTS ReturnsLeastSolution TagSemantics
CHECK_DEADLOCK FALSE
