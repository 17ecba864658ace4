SPECIFICATION Spec
PROPERTIES QueryLeavesContext
CHECK_DEADLOCK FALSE
