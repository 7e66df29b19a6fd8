CONSTANTS
    Null = Null
    a1 = a1
    p1 = p1
    PasswordLength <- MCPasswordLength
    Addresses = {a1}
    Passwords = {p1}
    RawEmails <- MCEmails
    UserIds = {u1}
    TokenIds = {t1, t2}
    Requests = {r1, r2}
    RefreshTokenTTL = 1
    MaxTime = 1
    Faults = {"error", "lost", "drop", "crash", "delete"}
    maxBodyBytes = 4
    MaxChunks = 3
    MaxChunkBytes = 2
SPECIFICATION HttpSpec
SYMMETRY Symmetry
INVARIANTS
    TypeOK
    DeadTokenNeverRefreshes
    RefusalJustified
    ReuseRevokesAll
    RotationConsumesParent
    LogoutKillsSession
    RefusedWithoutTrace
    AccountReachable
    OnlyObjectsTakeEffect
PROPERTIES
    RevocationPermanent
    RevokedOnlyByOwner
