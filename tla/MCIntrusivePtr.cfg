SPECIFICATION Spec
CONSTANTS
  Object = {o1, o2, o3, o4}
  Variable = {p, q, r}
  Other = other
  Result = result
  Null = Null
INVARIANTS CountsAreExact NoDangling NothingForgotten
