CONSTANTS
    MaxInt = 15
    Codes = {"EUR", "JPY", "XXX"}
    MaxParts = 17
    MaxExact = 48
SPECIFICATION MoneySpec
INVARIANTS
    NeverDrifts
