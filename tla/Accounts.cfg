SPECIFICATION MCSpec
CONSTANTS
    Emails = {e, f}
    Secrets = {s, r}
    MAX_LOGIN_FAIL_ATTEMPTS = 2
    FutureSeconds = 1
    MaxTime = 3
    MaxVersion = 2
    MaxTokens = 2
    Limit <- FewMails
    DaysPerMonth = 5
    CooldownDays = 2
    MaxDay = 5
    Ids = {1, 2}
    Roots = {1, 2}
    MaxInFlight = 2
    MaxAttempts = 1
    Workspaces = TRUE
    Crashes = TRUE
    Failures = TRUE
SYMMETRY Symmetry
CHECK_DEADLOCK FALSE
INVARIANTS AccountsCoherent  SessionsFollowPassword MailsWithinLimitsAlone
