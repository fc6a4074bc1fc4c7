CONSTANTS
    None = None
    max_contacts_per_subject = 3
    max_contacts_per_customer = 6
    contact_window = 672
    quiet_hours_start_ist = 21
    quiet_hours_end_ist = 9
    approval_threshold = 2500000
    cost_per_contact = 150
    cost_per_retry = 40
    min_expected_margin = 500
    Actions <- MCActions
    Contexts <- MCContexts
    RuleSets <- MCRuleSets
SPECIFICATION Spec
CHECK_DEADLOCK FALSE
INVARIANTS TypeOK FinalPassesEveryRule DelayIsLeast MoverChoseTheMoment RulesOnlyRestrict
PROPERTY ReRulingIsStable
