SPECIFICATION Spec
CONSTANTS
    Documents <- MCTwoMen
    Identities <- MCIdentities
    Pool <- MCPool
    Cases <- MCCases
    Inflect <- MCInflect
    Initial <- MCInitial
    Token <- MCToken
    Separator = "and"
    MaxRetries = 2
    MaxReply = 2
    Values <- MCValues
    DigitDraws <- MCDigitDraws
    MaxDraws = 10
    None = None
INVARIANTS
    OccurrencesReturn
CHECK_DEADLOCK FALSE
