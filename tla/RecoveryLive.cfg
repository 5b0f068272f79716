SPECIFICATION LiveSpec
CONSTANTS
    Bounds <- TwoAttempts
    Others = {1}
PROPERTIES
    ClosedLinkIsLeft
