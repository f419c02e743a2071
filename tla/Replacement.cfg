SPECIFICATION ReplacementSpec
CONSTANTS
    Words <- MCWords
    Letters = {"i", "p", "l", "o"}
    LetterOf <- MCLetterOf
    Genders = {"masc", "femn"}
    OtherValues = {7}
    OtherTypes = {"PHONE", "EMAIL"}
    Decided <- MCDecided
    Absent = Absent
    Documents <- MCDocuments
    Identities <- MCIdentities
    Pool <- MCPool
    Cases <- MCCases
    Inflect <- MCInflect
    Initial <- MCInitial
    Token <- MCToken
    Separator = "and"
    MaxRetries = 2
    MaxReply = 2
    Values <- MCValues
    DigitDraws <- MCDigitDraws
    MaxDraws = 10
    None = None
INVARIANTS
    NoFalseMerge
    MergeEvidence
    EntityIds
    SurrogatesReturn
    FullFormsUnshared
    KeptTextStays
    GoSurrogatesReturn
    SyntheticDetected
    DigitsLikeDiffers
    MaskTraced
CHECK_DEADLOCK FALSE
