SPECIFICATION LiveSpec
CONSTANTS
    Ids = {"i1"}
    Machines = {"m1"}
    Pids = {"p1"}
    Listers = {"l1", "l2"}
    PID_REUSE_SLACK_SECS = 1
    MaxStep = 2
    MaxTime = 1
    MaxBoot = 2
PROPERTIES
    LiveEntryStays
    DeadEntryGoes
