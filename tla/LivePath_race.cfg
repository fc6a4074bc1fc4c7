CONSTANTS
    Refs = {r1}
    Threads = {t1, t2}
    Tries = 2
    Due = 1
    MaxEntities = 2
    MaxMishaps = 0
    MaxFaults = 0
SPECIFICATION Spec
INVARIANT OneOrderPerReference
