SPECIFICATION Spec
CONSTANT MaxChanges = 1
INVARIANT UnlockedWhenClosed
CHECK_DEADLOCK FALSE
