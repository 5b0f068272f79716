SPECIFICATION Spec
CONSTANTS
    Requests = {r1, r2, r3}
    Names = {a}
SYMMETRY Symmetry
INVARIANTS
    TypeOK
    ShellIsRegistered
    LobbyIsUnregistered
    EntryHasOneOwner
PROPERTIES
    OnlyOvertakingSharesName
