CONSTANT MaxRetryCount = 70
SPECIFICATION Spec
INVARIANT DelayIsExact
PROPERTY NeverRelaxes
CHECK_DEADLOCK FALSE
