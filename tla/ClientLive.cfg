SPECIFICATION LiveSpec
CONSTANTS
    SILENT_AFTER = 1
    REBUILD_AFTER = 1
    HEARTBEAT_IDLE = 1
    MAX_HELD = 1
    AgeCap = 1
    Sessions = {1}
    ANSWER_GUARD = 1
    DOUBLE_PRESS = 1
    LINGER = 1
    Users <- Watchers
    Kinds = {"elsewhere"}
PROPERTIES
    SilenceIsNoticed
    OutagePopupGoes
    LoadingEnds
CHECK_DEADLOCK FALSE
