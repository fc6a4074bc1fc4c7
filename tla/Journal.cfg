CONSTANTS
    Ids = {a, b}
    Damaged = Damaged
    Tears = TRUE
    MaxWrites = 3
SPECIFICATION Spec
CHECK_DEADLOCK FALSE
INVARIANTS TypeOK StaleNeverInvented LossIsBoundedByTears
PROPERTIES OnlyAppendsChangeState ImplementsDurableMap
