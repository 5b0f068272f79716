SPECIFICATION Spec
CONSTANTS
    Bounds <- Races
    Others = {}
INVARIANTS
    TypeOK
    AbandonedNeverAttaches
    RefusalOnlyInTheOutage
    RebuildingSurvivesItself
    StandbyIsForThisPrimary
    EveryLinkIsHeldOrClosed
    NeverEndsOnASpareLink
    AnsweredByThisStandby
