CONSTANTS
    Null = Null
    Processes = {m1, m2}
    Users = {u1}
    Keys = {k1, k2}
    Second = 2
    AccessTokenTTL = 3
    Leeway = 2
    jwksMaxAge = 2
    Skew = 1
    MaxTime = 7
    MaxTokens = 1
SPECIFICATION AccessSpec
SYMMETRY Symmetry
INVARIANTS
    AccessTypeOK
    HonouredUntilExpiry
    ServedBriefly
    RotationSettles
