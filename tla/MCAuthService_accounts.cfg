CONSTANTS
    Null = Null
    a1 = a1
    a2 = a2
    p1 = p1
    p2 = p2
    PasswordLength <- MCPasswordLength
    Addresses = {a1, a2}
    Passwords = {p1, p2}
    RawEmails <- MCSpellings
    UserIds = {u1, u2}
    TokenIds = {t1, t2}
    Requests = {r1, r2}
    RefreshTokenTTL = 1
    MaxTime = 0
    Faults = {"error", "crash", "delete"}
SPECIFICATION Spec
SYMMETRY Symmetry
INVARIANTS
    OneAccountPerMailbox
    SessionMatchesCredentials
    SuspendedNeverServed
    LogoutFailsOnlyForDeleted
PROPERTIES
    ImplementsLifecycle
    RevokedOnlyByOwner
