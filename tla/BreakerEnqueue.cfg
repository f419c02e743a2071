SPECIFICATION Spec
CONSTANTS
    Threads = {t1}
    Threshold = 3
    Cooldown = 2
    None = None
PROPERTIES
    ClosedByRecovery
