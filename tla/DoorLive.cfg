SPECIFICATION LiveSpec
CONSTANTS
    Requests = {r1, r2}
    Names = {a}
PROPERTIES
    EveryRequestAnswered
    SiblingKillEnds
