SPECIFICATION AllSpec
CONSTANTS
    Documents <- MCTokensInside
    Identities <- MCIdentities
    Pool <- MCPool
    Cases <- MCCases
    Inflect <- MCInflect
    Initial <- MCInitial
    Token <- MCToken
    Separator = "and"
    MaxRetries = 2
    MaxReply = 2
    Values <- MCValues
    DigitDraws <- MCDigitDraws
    MaxDraws = 10
    None = None
INVARIANTS
    GoRestoredOnce
CHECK_DEADLOCK FALSE
