SPECIFICATION MCSpec
CONSTANTS
    free = free
    premium = premium
    business = business
    Tiers = {free, premium, business}
    TierLimits <- LimitsOfTiers
    Spaces = {1, 2}
    Credit = 1
    MAX_FREE_PLAN_BYTES = 1
    Referrals = 1
    MaxVersions = 3
    MaxInFlight = 1
    MaxChanges = 2
    Together = FALSE
    Failures = TRUE
    Repeated = FALSE
    Files = {f1}
    mac = mac
    windows = windows
CHECK_DEADLOCK FALSE
INVARIANTS     LinksSentWhole
