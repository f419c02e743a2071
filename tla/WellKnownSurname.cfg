SPECIFICATION Spec
CONSTANTS
    Atoms <- MCAtoms
    Text <- MCText
    Reports <- MCReports
    MaskTypes = {"FULL_NAME", "ADDRESS", "PIN", "CARD_NUMBER"}
    Breaks = {2}
    Stops = {2, 3, 11}
    Wordings <- MCWordings
    Radius = 4
    Window = 3
    Surrogate <- MCSurrogate
CHECK_DEADLOCK FALSE
INVARIANTS
    SurnameNotEnough
