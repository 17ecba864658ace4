SPECIFICATION Spec
CONSTANTS
  MaxInt = 6
  Nothing = Nothing
  Nobody = Nobody
  Policies <- MCPolicies
INVARIANTS BeliefsPreserved TextCompiles DiesOnlyOnIllTyped
CHECK_DEADLOCK FALSE
