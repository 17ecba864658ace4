SPECIFICATION CheckerSpec
CONSTANTS
  AnyValue = AnyValue
  AddA = AddA
  AddB = AddB
  AddC = AddC
  MergeAB = MergeAB
  RemoveC = RemoveC
  Output = Output
  Bottom = Bottom
  CheckFailure = CheckFailure
  Tag <- MCTag
  Operation <- MCOperation
  EntryValue <- MCEntryValue
  Modules <- MCModules
INVARIANTS VerdictIsExact DiesOnlyOnStuckOperation
PROPERTIES Answers
CHECK_DEADLOCK FALSE
