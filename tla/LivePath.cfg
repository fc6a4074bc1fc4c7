CONSTANTS
    Refs = {r1}
    Threads = {t1, t2}
    Tries = 2
    Due = 2
    MaxEntities = 2
    MaxMishaps = 1
    MaxFaults = 2
SPECIFICATION FairSpec
INVARIANTS TypeOK OrdersAreDoubledByLostAnswersOnly AReplayIsNotASecondContact ADispatchIsKept CreditedOncePerTear BookedWasPaid
PROPERTIES NobodyIsMessagedUnasked PaidIsBooked
