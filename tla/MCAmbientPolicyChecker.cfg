SPECIFICATION Spec
INVARIANTS VerdictIsOwnersWill RefusalsPersist
PROPERTIES OnlyWithdrawalBreaksCompliance
CHECK_DEADLOCK FALSE
