CONSTANTS
    Null = Null
    Addresses = {a1, a2}
    Passwords = {p1}
    PasswordLength <- MCPasswordLength
    UserIds = {u1, u2}
    TokenIds = {t1, t2}
    TTL = 1
    MaxTime = 1
SPECIFICATION MemorySpec
SYMMETRY Symmetry
INVARIANTS
    MemoryTypeOK
    WritesAgree
    ReadsAgree
