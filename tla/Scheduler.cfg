CONSTANTS
    a = a
    b = b
    Ids <- MCIds
    Planned <- MCPlanned
    Absent = Absent
    MaxLateness = 1
    MaxDeferrals = 1
    MaxDue = 2
    MaxTime = 4
    MaxFaults = 2
SPECIFICATION FairSpec
INVARIANTS TypeOK AuditTrail ReturnedSurvives OneFiringPerFault
PROPERTIES FiresInsideItsWindow EverythingSettles
