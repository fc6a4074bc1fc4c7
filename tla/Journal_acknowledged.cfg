CONSTANTS
    Ids = {a, b}
    Damaged = Damaged
    Tears = TRUE
    MaxWrites = 2
SPECIFICATION Spec
CHECK_DEADLOCK FALSE
INVARIANT AcknowledgedIsDurable
