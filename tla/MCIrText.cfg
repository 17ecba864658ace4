SPECIFICATION Spec
CONSTANTS
  A = A
  B = B
  custom = custom
  AnyValue = AnyValue
  Programs <- MCPrograms
INVARIANTS RefusesExactlyMalformed ModuleHasMeaning PrintedTextRoundTrips FactsKeepDataFlow
CHECK_DEADLOCK FALSE
