SPECIFICATION Spec
CONSTANTS
  MaxInt = 6
  Nothing = Nothing
  Nobody = Nobody
  Policies <- MCPolicies
INVARIANTS DelegationsDeclared
CHECK_DEADLOCK FALSE
