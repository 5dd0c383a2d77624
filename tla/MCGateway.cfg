CONSTANTS
    Emails = {root, ann}
    Passwords = {p}
    Root = root
    UserIds = {1, 2, 3}
    KeyIds = {1, 2}
    Requests = {r1, r2}
    Permissions = {"read", "trade"}
    Granted <- MCGranted
    NoUser = NoUser
    NoKey = NoKey
    Never = Never
    Limit = 1
    Window = 5
    Second = 2
    Slack = 0
    Replay = 1
    Session = 2
    Profiles <- MCProfiles
    MaxTime = 7
    Errands = 2
    MaxSecrets = 2
SYMMETRY Interchangeable
SPECIFICATION Spec
INVARIANTS
    EmailsUnique
    OneLiveKey
    ServedIsAuthentic
    RetryAfterHonest

    
CHECK_DEADLOCK FALSE
