SPECIFICATION Spec
CONSTANTS
    Bounds <- OneAttempt
    Others = {}
INVARIANTS
    OwnAttemptNeverEndsTheSession
