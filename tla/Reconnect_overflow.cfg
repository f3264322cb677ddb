CONSTANT MaxRetryCount = 70
SPECIFICATION Spec
INVARIANT NeverTooSoon
CHECK_DEADLOCK FALSE
