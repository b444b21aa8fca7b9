SPECIFICATION NTTSpec
CONSTANTS
    MaxAltered = 2
    Spare = {0, 6}
INVARIANTS
    DeliveredAsMeant
    DigestDecidesOutcome
    TokensWellFormed
CHECK_DEADLOCK FALSE
