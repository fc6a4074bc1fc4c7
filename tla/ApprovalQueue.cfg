CONSTANTS
    Ids = {a, b}
    Absent = Absent
    Ttl = 2
    Latency = 1
    LastSubmit = 0
    MaxTime = 2
    MaxFaults = 2
SPECIFICATION FairSpec
INVARIANTS TypeOK AYesIsOneDispatchPerTear
PROPERTIES HandedWasApproved DecisionIsMadeOnce EveryAskIsAnswered
