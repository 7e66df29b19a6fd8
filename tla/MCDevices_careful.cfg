CONSTANTS
    Null = Null
    a1 = a1
    p1 = p1
    PasswordLength <- MCPasswordLength
    Addresses = {a1}
    Passwords = {p1}
    RawEmails <- MCEmails
    UserIds = {u1}
    TokenIds = {t1, t2, t3, t4}
    Requests = {r1, r2}
    Clients = {d1, d2}
    RefreshTokenTTL = 1
    MaxTime = 1
    Faults = {"error", "lost", "drop", "crash"}
    Retry = FALSE
    maxBodyBytes = 4
    MaxChunks = 0
    MaxChunkBytes = 1
SPECIFICATION DevicesSpec
\* Once every token id of the instance is used up, signed-out devices rest.
CHECK_DEADLOCK FALSE
SYMMETRY Symmetry
INVARIANTS
    DevicesTypeOK
PROPERTIES
    SignedOutOnlyByOwnDevice
