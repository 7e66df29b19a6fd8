CONSTANTS
    Null = Null
    a1 = a1
    a2 = a2
    p1 = p1
    p2 = p2
    PasswordLength <- MCPasswordLength
    Addresses = {a1}
    Passwords = {p1}
    RawEmails <- MCOneEmail
    UserIds = {u1}
    TokenIds = {t1, t2, t3}
    Requests = {r1, r2}
    RefreshTokenTTL = 2
    MaxTime = 1
    Faults = {}
SPECIFICATION Spec
INVARIANTS
    SingleUse
