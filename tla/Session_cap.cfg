CONSTANTS
    None = None
    max_contacts_per_subject = 1
    max_contacts_per_customer = 2
    contact_window = 48
    quiet_hours_start_ist = 21
    quiet_hours_end_ist = 9
    approval_threshold = 2500000
    cost_per_contact = 150
    cost_per_retry = 40
    min_expected_margin = 500
    Plan <- MCPlan
    Subjects <- MCSubjects
    People <- MCPeople
    max_lateness = 30
    max_deferrals = 1
    ttl = 20
    Jumps = {2, 26}
    MaxClock = 66
SPECIFICATION Spec
INVARIANT PersonCapHolds
