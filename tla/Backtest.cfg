CONSTANTS
    None = None
    max_contacts_per_subject = 1
    max_contacts_per_customer = 2
    contact_window = 48
    quiet_hours_start_ist = 21
    quiet_hours_end_ist = 9
    approval_threshold = 2500000
    cost_per_contact = 150
    cost_per_retry = 40
    min_expected_margin = 500
    Resolutions <- MCResolutions
    z_threshold = 4
    min_absolute_drop = 80
    warmup_buckets = 2
    ewma_alpha = 15
    min_money_at_risk = 200000
    margin = 130
    Worlds <- MCWorlds
    Causes <- MCCauses
    Strategies <- MCStrategies
SPECIFICATION Spec
CHECK_DEADLOCK FALSE
INVARIANTS TypeOK EveryIncidentIsSignalled OneProblemOneCluster
INVARIANTS EveryFailureIsPlannedFor AuditFindsNothing ArmsDifferByRulings
